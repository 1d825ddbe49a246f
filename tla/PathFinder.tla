------------------------------ MODULE PathFinder ------------------------------
(***************************************************************************)
(* The negotiated-congestion router of the clustered mapper: the class     *)
(* PathFinder, called by ClusteredMapperDriver with one placement after    *)
(* another until a routing succeeds.  Costs are abstracted: the search     *)
(* dijkstraVisit may return any path that passes its tests, or none (it    *)
(* keeps one path per node and cycle count, so it can miss one).  One step *)
(* is one search, or the bookkeeping of one value.                         *)
(***************************************************************************)
EXTENDS Integers, FiniteSets, Sequences

CONSTANTS
  Nodes,          (* routing nodes, and FUs that can also route               *)
  FUs,            (* function nodes; those also in Nodes are ROUTING_FUNCTION *)
  fanout,         (* node -> the nodes and FUs it drives                      *)
  first_fanout,   (* FU -> fanout(fu).at(0), where the route of its value starts *)
  latency,        (* node or FU -> cycles it adds                             *)
  bitwidth,       (* node or FU -> the bits it carries                        *)
  supported_operand_tags,   (* node -> operand tags of an FU input pin        *)
  UNTAGGED,       (* the tag of an operand that may use any pin               *)
  Ops,            (* operations of the op graph                               *)
  valNodes,       (* its values, in order                                     *)
  input,          (* value -> the op that produces it                         *)
  output,         (* value -> its sinks [op, tag, bits, cycles], fewest cycles *)
                  (* first; none twice with one tag, or routeVal would throw  *)
  Placements,     (* the placements the placer may hand over                  *)
  MaxIterations   (* negotiation rounds; 70 in the code                       *)

Vals == {valNodes[k] : k \in DOMAIN valNodes}

ASSUME GraphAssumption ==
  /\ IsFiniteSet(Nodes)
  /\ fanout \in [Nodes -> SUBSET (Nodes \cup FUs)]
  /\ first_fanout \in [FUs -> Nodes]
ASSUME NetAssumption ==
  /\ valNodes \in Seq(Vals) /\ valNodes # <<>>
  /\ IsFiniteSet(Vals)
  /\ \A j, k \in DOMAIN valNodes : valNodes[j] = valNodes[k] => j = k
  /\ DOMAIN output = Vals
  /\ \A v \in Vals : output[v] \in Seq({output[v][s] : s \in DOMAIN output[v]})
  /\ Placements \subseteq [Ops -> FUs]
  /\ MaxIterations \in Nat \ {0}

VARIABLES
  l_mapping,      (* value -> the nodes of its route                          *)
  occupancy,      (* node -> number of values routed through it               *)
  mapped_values,  (* node -> those values                                     *)
  l_placement,    (* op -> FU, of the current call                            *)
  l_used_rounting_function_nodes,   (* ROUTING_FUNCTION nodes that host an op *)
  phase,          (* where routeOpGraph is                                    *)
  i,              (* negotiation round; 0 in the initial routing              *)
  k,              (* index of the current value                               *)
  sinks,          (* its sinks that are still to be reached                   *)
  routes,         (* the nodes of its route so far                            *)
  hops            (* history: value -> the edges its searches went along      *)

vars == <<l_mapping, occupancy, mapped_values, l_placement, l_used_rounting_function_nodes,
          phase, i, k, sinks, routes, hops>>
routing == <<l_mapping, occupancy, mapped_values>>
call == <<l_placement, l_used_rounting_function_nodes>>

Phases == {"idle", "initial", "ripup", "reroute", "finish", "success", "thrown"}
Unrouted == [v \in Vals |-> {}]

-----------------------------------------------------------------------------
(* Nodes of the loop-free paths through the routing nodes.                 *)
Along(p) == {p[j] : j \in DOMAIN p}
LoopFreePaths ==
  LET ofLength[n \in Nat] ==
        IF n = 1 THEN {<<m>> : m \in Nodes}
        ELSE UNION {{Append(p, m) : m \in (fanout[p[n - 1]] \cap Nodes) \ Along(p)} :
                    p \in ofLength[n - 1]}
  IN  UNION {ofLength[n] : n \in 1 .. Cardinality(Nodes)}

(* Cycles when the search reaches the sink: each node left adds its        *)
(* latency, but the last one only when the sink is not a plain FUNCTION.   *)
cyclesAlong(p, src, sink) ==
  LET at[j \in 0 .. Len(p)] == IF j = 0 THEN latency[src] ELSE at[j - 1] + latency[p[j]]
  IN  IF sink \in Nodes THEN at[Len(p)] ELSE at[Len(p) - 1]

unused(n) == mapped_values[n] = {}

(* The tests of dijkstraVisit on a path that leads to the sink: it avoids  *)
(* nodes that host ops and nodes too narrow for the operand; once off the  *)
(* value's earlier routes it does not come back to them; its last node     *)
(* serves no other value; only the last node is an input pin, of the       *)
(* wanted operand and unused, and if a plain function wants an operand     *)
(* there must be such a pin.                                               *)
avoidsOps(p, sink) ==
  \A j \in 2 .. Len(p) : p[j] \notin l_used_rounting_function_nodes /\ p[j] # sink
wideEnough(p, bits, sink) ==
  bitwidth[sink] >= bits /\ \A j \in 2 .. Len(p) : bitwidth[p[j]] >= bits
RejoinAllowed(p) == TRUE
neverRejoins(p) == \A j \in 1 .. Len(p) - 1 : p[j] \notin routes => p[j + 1] \notin routes
LastMayBeUsed(p) == TRUE
lastIsFree(p) == unused(p[Len(p)])
endsAtPin(p, tag, sink) ==
  tag # UNTAGGED =>
    /\ \A j \in 2 .. Len(p) :
         supported_operand_tags[p[j]] # {} =>
           /\ j = Len(p)
           /\ tag \in supported_operand_tags[p[j]]
           /\ unused(p[j]) /\ p[j] \notin routes
    /\ sink \notin Nodes =>
         Len(p) > 1 /\ tag \in supported_operand_tags[p[Len(p)]]

dijkstraVisit(v, sink) ==
  LET src == l_placement[input[v]]
      fu == l_placement[sink.op]
  IN  {p \in LoopFreePaths :
         /\ Along(p) \subseteq Nodes
         /\ p[1] = first_fanout[src] /\ fu \in fanout[p[Len(p)]]
         /\ cyclesAlong(p, src, fu) = sink.cycles
         /\ avoidsOps(p, fu) /\ wideEnough(p, sink.bits, fu) /\ neverRejoins(p) /\ lastIsFree(p)
         /\ endsAtPin(p, sink.tag, fu)}

-----------------------------------------------------------------------------
State == [mapping |-> l_mapping, occ |-> occupancy, values |-> mapped_values]

(* The loop of mapMRRGNode over the nodes of a route.                      *)
MapCountsNewOnly(s, v, nodes) ==
  [mapping |-> [s.mapping EXCEPT ![v] = nodes],
   occ |-> [n \in Nodes |-> IF n \in nodes /\ s.occ[n] = 0 THEN 1 ELSE s.occ[n]],
   values |-> [n \in Nodes |-> IF n \in nodes THEN s.values[n] \cup {v} ELSE s.values[n]]]
mapMRRGNodes(s, v, nodes) ==
  [mapping |-> [s.mapping EXCEPT ![v] = nodes],
   occ |-> [n \in Nodes |-> IF n \in nodes THEN s.occ[n] + 1 ELSE s.occ[n]],
   values |-> [n \in Nodes |-> IF n \in nodes THEN s.values[n] \cup {v} ELSE s.values[n]]]

(* Its two exceptions are shown unreachable by OccupancyIsMapping.         *)
ripUpOpVal(s, v) ==
  [mapping |-> [s.mapping EXCEPT ![v] = {}],
   occ |-> [n \in Nodes |-> IF n \in s.mapping[v] THEN s.occ[n] - 1 ELSE s.occ[n]],
   values |-> [n \in Nodes |-> IF n \in s.mapping[v] THEN s.values[n] \ {v} ELSE s.values[n]]]

Become(s) == l_mapping' = s.mapping /\ occupancy' = s.occ /\ mapped_values' = s.values

isOpgraphCovered(s) == \A v \in Vals : s.mapping[v] # {}
OveruseAllowsTwo(s) == \A n \in Nodes : s.occ[n] <= 2
checkOveruse(s) == \A n \in Nodes : s.occ[n] <= 1
mapped(s) == isOpgraphCovered(s) /\ checkOveruse(s)

-----------------------------------------------------------------------------
Init ==
  /\ l_mapping = Unrouted
  /\ occupancy = [n \in Nodes |-> 0]
  /\ mapped_values = [n \in Nodes |-> {}]
  /\ l_placement \in Placements
  /\ l_used_rounting_function_nodes = {}
  /\ phase = "idle"
  /\ i = 0 /\ k = 1
  /\ sinks = <<>> /\ routes = {}
  /\ hops = Unrouted

(* The search for value number n starts.                                   *)
load(n) == k' = n /\ sinks' = output[valNodes[n]] /\ routes' = {}

(* routeOpGraph(placed) is called.                                         *)
Start(placed) ==
  /\ phase = "idle"
  /\ l_placement' = placed
  /\ l_used_rounting_function_nodes' = {placed[op] : op \in Ops} \cap Nodes
  /\ phase' = "initial" /\ i' = 0
  /\ load(1)
  /\ UNCHANGED <<routing, hops>>

searching == phase \in {"initial", "reroute"}
val == valNodes[k]

(* One sink of the current value is reached.                               *)
KeepsLastPathOnly ==
  /\ searching /\ sinks # <<>>
  /\ \E p \in dijkstraVisit(val, Head(sinks)) :
       /\ routes' = Along(p)
       /\ hops' = [hops EXCEPT ![val] = @ \cup {<<p[j], p[j + 1]>> : j \in 1 .. Len(p) - 1}]
  /\ sinks' = Tail(sinks)
  /\ UNCHANGED <<routing, call, phase, i, k>>
ReachSink ==
  /\ searching /\ sinks # <<>>
  /\ \E p \in dijkstraVisit(val, Head(sinks)) :
       /\ routes' = routes \cup Along(p)
       /\ hops' = [hops EXCEPT ![val] = @ \cup {<<p[j], p[j + 1]>> : j \in 1 .. Len(p) - 1}]
  /\ sinks' = Tail(sinks)
  /\ UNCHANGED <<routing, call, phase, i, k>>

(* One sink cannot be reached: the value stays unrouted.  That ends the    *)
(* call, but in the second or a later round it throws.                     *)
MissSink ==
  /\ searching /\ sinks # <<>>
  /\ phase' = IF phase = "reroute" /\ i > 1 THEN "thrown" ELSE "finish"
  /\ UNCHANGED <<routing, call, i, k, sinks, routes, hops>>

(* All sinks are reached: the route is recorded.  The initial routing goes *)
(* on with the next value; so does a round, unless the mapping has become  *)
(* legal.                                                                  *)
Record ==
  /\ searching /\ sinks = <<>>
  /\ LET s == mapMRRGNodes(State, val, routes)
         last == k = Len(valNodes)
         legal == mapped(s)
     IN  /\ Become(s)
         /\ \/ /\ phase = "initial" /\ ~last
               /\ phase' = phase /\ i' = i /\ load(k + 1)
            \/ /\ phase = "initial" /\ last /\ ~legal
               /\ phase' = "ripup" /\ i' = 1 /\ k' = 1 /\ UNCHANGED <<sinks, routes>>
            \/ /\ phase = "reroute" /\ ~legal /\ ~last
               /\ phase' = "ripup" /\ i' = i /\ k' = k + 1 /\ UNCHANGED <<sinks, routes>>
            \/ /\ phase = "reroute" /\ ~legal /\ last /\ i < MaxIterations
               /\ phase' = "ripup" /\ i' = i + 1 /\ k' = 1 /\ UNCHANGED <<sinks, routes>>
            \/ /\ phase = "initial" => last /\ legal
               /\ phase = "reroute" => legal \/ (last /\ i = MaxIterations)
               /\ phase' = "finish" /\ UNCHANGED <<i, k, sinks, routes>>
  /\ UNCHANGED <<call, hops>>

(* A round rips the next value up and routes it again.                     *)
RipUp ==
  /\ phase = "ripup"
  /\ Become(ripUpOpVal(State, val))
  /\ phase' = "reroute"
  /\ load(k)
  /\ hops' = [hops EXCEPT ![val] = {}]
  /\ UNCHANGED <<call, i>>

(* The end of routeOpGraph: success, or everything is ripped up.           *)
Succeed ==
  /\ phase = "finish" /\ mapped(State)
  /\ phase' = "success"
  /\ UNCHANGED <<routing, call, i, k, sinks, routes, hops>>

GiveUpKeepsLast ==
  /\ phase = "finish" /\ ~mapped(State)
  /\ Become(ripUpOpVal(State, val))
  /\ l_used_rounting_function_nodes' = {}
  /\ phase' = "idle"
  /\ hops' = Unrouted
  /\ UNCHANGED <<l_placement, i, k, sinks, routes>>
GiveUp ==
  /\ phase = "finish" /\ ~mapped(State)
  /\ l_mapping' = Unrouted
  /\ occupancy' = [n \in Nodes |->
                     occupancy[n] - Cardinality({v \in Vals : n \in l_mapping[v]})]
  /\ mapped_values' = [n \in Nodes |->
                         mapped_values[n] \ {v \in Vals : n \in l_mapping[v]}]
  /\ l_used_rounting_function_nodes' = {}
  /\ phase' = "idle"
  /\ hops' = Unrouted
  /\ UNCHANGED <<l_placement, i, k, sinks, routes>>

(* The driver stops after a success; an exception ends the mapper.         *)
Stopped == phase \in {"success", "thrown"} /\ UNCHANGED vars

Next ==
  \/ \E placed \in Placements : Start(placed)
  \/ ReachSink \/ MissSink \/ Record \/ RipUp \/ Succeed \/ GiveUp \/ Stopped

Spec == Init /\ [][Next]_vars

-----------------------------------------------------------------------------
TypeOK ==
  /\ l_mapping \in [Vals -> SUBSET Nodes]
  /\ occupancy \in [Nodes -> 0 .. Cardinality(Vals)]
  /\ mapped_values \in [Nodes -> SUBSET Vals]
  /\ l_placement \in [Ops -> FUs]
  /\ l_used_rounting_function_nodes \subseteq Nodes \cap FUs
  /\ phase \in Phases
  /\ i \in 0 .. MaxIterations /\ k \in DOMAIN valNodes
  /\ routes \subseteq Nodes

(* The three records of who uses a node agree, through all rounds of       *)
(* ripping up and rerouting; so neither exception of ripUpOpVal is thrown. *)
OccupancyIsMapping ==
  \A n \in Nodes :
    /\ mapped_values[n] = {v \in Vals : n \in l_mapping[v]}
    /\ occupancy[n] = Cardinality({v \in Vals : n \in l_mapping[v]})

(* A value is never searched for while it still holds a route: the early   *)
(* return "already routed!" of routeVal never hides a stale route.         *)
SearchedValueIsUnrouted == searching => l_mapping[val] = {}

(* A success has every value routed, and no node shared by two values:     *)
(* step 2 of Mapping::verifyOpGraphMappingConnectivity.                    *)
SuccessIsExclusive ==
  phase = "success" =>
    /\ \A v \in Vals : l_mapping[v] # {}
    /\ \A v, w \in Vals : v # w => l_mapping[v] \cap l_mapping[w] = {}

(* Every sink of a recorded value can be reached from its producer inside  *)
(* its own route: step 3 of that function.                                 *)
RecordedIsConnected ==
  \A v \in Vals : l_mapping[v] # {} =>
    \A s \in DOMAIN output[v] :
      \E p \in LoopFreePaths :
        /\ Along(p) \subseteq l_mapping[v]
        /\ p[1] = first_fanout[l_placement[input[v]]]
        /\ l_placement[output[v][s].op] \in fanout[p[Len(p)]]

(* A call that gives up leaves nothing behind that could block or distort  *)
(* the routing of the next placement.                                      *)
FailureLeavesClean ==
  phase = "idle" =>
    /\ l_mapping = Unrouted
    /\ \A n \in Nodes : occupancy[n] = 0 /\ mapped_values[n] = {}

(* "we do not want the path of different nodes creating shorts": within    *)
(* the route of a value, no node is driven from two sides.                 *)
SinglyDriven ==
  \A v \in Vals : \A a, b \in hops[v] : a[2] = b[2] => a[1] = b[1]
=============================================================================
