------------------------------- MODULE TMPack -------------------------------
(***************************************************************************)
(* The clustering of the clustered mapper, TMPack::clusterPEs: the         *)
(* operations of the dataflow graph are packed into clusters, each to be   *)
(* placed as a whole in one processing element.  A work queue holds the    *)
(* operations still to be packed; a cluster is grown from the first one,   *)
(* greedily and along the edges of the graph, and is kept if the           *)
(* interconnect of the PE can serve it.  Otherwise a pair of operations is *)
(* recorded that is no longer to be followed while growing, and the        *)
(* operation goes back on the queue; or an operation of the graph is       *)
(* cloned, and the clustering is to be done again from the start.          *)
(*                                                                         *)
(* One step is one iteration of the work loop.  The search for paths and   *)
(* ports in the MRRG of a PE is left open: checkReachbitlity may come to   *)
(* any verdict that the shape of the cluster allows.  RAM ports, which are *)
(* off by default (clusterMemoryOperations), are left out.                 *)
(***************************************************************************)
EXTENDS Naturals, Sequences, FiniteSets, SequencesExt

CONSTANTS
  Names,       (* the names of the operations of the dataflow graph         *)
  Flows,       (* the dataflow graphs to start from: sets of edges, each    *)
               (* the names of a source and of one of its sinks             *)
  Modules,     (* the kinds of processing elements TMPack tells apart       *)
  Nodes,       (* the function nodes of each                                *)
  Fabrics,     (* what the nodes can map, for each fabric: sets of pairs of *)
               (* a function node and a name                                *)
  MaxClones    (* bound on the "_new" suffixes of a name                    *)

(* Every operation is fed, through others, by one without an input.        *)
Fed(edges) ==
  \A S \in SUBSET Names :
    /\ \A n \in Names : (\A e \in edges : e[2] = n => e[1] = n) => n \in S
    /\ \A e \in edges : e[1] \in S => e[2] \in S
    => S = Names
ASSUME FlowsAssumption == \A edges \in Flows : edges \subseteq Names \X Names /\ Fed(edges)
ASSUME NodesAssumption == \A m \in Modules : IsFiniteSet(Nodes[m])
ASSUME NamesAssumption == IsFiniteSet(Names) /\ MaxClones \in Nat

(* An operation is a name and how often "_new" has been appended to it.    *)
Original(n) == <<n, 0>>
Clone(op) == <<op[1], op[2] + 1>>

VARIABLES
  dfg,             (* the graph the mapper was given: edges between names   *)
  fabric,          (* the fabric it was given, one of Fabrics               *)
  ops,             (* l_opgraph: the operations ...                         *)
  flow,            (* ... and the edges from sources to sinks               *)
  l_isElastic, l_cluster,  (* the mode and the option, constant             *)
  operations,      (* the work queue                                        *)
  visited,         (* operations that are in a cluster                      *)
  l_clusters,      (* the clusters                                          *)
  l_op_cluster_index,      (* the number of an operation's cluster          *)
  l_ops_not_clustered,     (* pairs that are not followed while growing     *)
  l_reschedule,    (* an operation was inserted                             *)
  phase,           (* where mapOpGraph is, or how it ended                  *)
  verdict          (* history: the last verdict of checkReachbitlity        *)

graph_vars == <<dfg, fabric, ops, flow, l_isElastic, l_cluster>>
pack_vars == <<operations, visited, l_clusters, l_op_cluster_index, l_ops_not_clustered,
               l_reschedule, verdict>>
vars == <<graph_vars, pack_vars, phase>>

-----------------------------------------------------------------------------
Sinks(op) == {y \in ops : <<op, y>> \in flow}
Sources(op) == {x \in ops : <<x, op>> \in flow}

(* getFirstOps: an operation's own output does not count as its input.     *)
FirstOps == {op \in ops : Sources(op) \subseteq {op}}

Maps(node, op) == <<node, op[1]>> \in fabric
modules_to_map_op(op) == {m \in Modules : \E n \in Nodes[m] : Maps(n, op)}

(* addNextOps: sinks and sources, except across a pair that is excluded.   *)
NextOps(op) ==
  {y \in Sinks(op) : <<op, y>> \notin l_ops_not_clustered}
    \cup {x \in Sources(op) : <<x, op>> \notin l_ops_not_clustered}

(* opsCouldBeClustered: each operation has a node of its own, each but the *)
(* first was next to one before it, and nothing next to them still fits.   *)
Assigned(s, m, node) ==
  /\ node \in [DOMAIN s -> Nodes[m]]
  /\ \A i, j \in DOMAIN s : i # j => node[i] # node[j]
  /\ \A i \in DOMAIN s : Maps(node[i], s[i])
  /\ \A i \in DOMAIN s : \A op \in NextOps(s[i]) \ (visited \cup ToSet(s)) :
       \A n \in Nodes[m] : Maps(n, op) => \E j \in DOMAIN s : node[j] = n
ClusterSets(op, m) ==
  {S \in SUBSET (ops \ visited) : op \in S /\ Cardinality(S) <= Cardinality(Nodes[m])}
Grown(op, m) ==
  {s \in UNION {SetToSeqs(S) : S \in ClusterSets(op, m)} :
     /\ s[1] = op
     /\ \A i \in DOMAIN s \ {1} : \E j \in 1 .. i - 1 : s[i] \in NextOps(s[j])
     /\ \E node \in [DOMAIN s -> Nodes[m]] : Assigned(s, m, node)}

(* Of what it grows in each kind of PE, clusterPEs takes the largest.      *)
max_used_ops(op) ==
  {s \in UNION {Grown(op, m) : m \in modules_to_map_op(op)} :
     \A m \in modules_to_map_op(op) : \E t \in Grown(op, m) : Len(t) <= Len(s)}

-----------------------------------------------------------------------------
(* checkReachbitlity, for a cluster s.                                     *)
Outer(s, S) == S \ ToSet(s)
InputOps(s) == {y \in ToSet(s) : Outer(s, Sources(y)) # {}}
OutputOps(s) == {x \in ToSet(s) : Outer(s, Sinks(x)) # {}}
ConnectedOps(s) == {e \in flow : e[1] # e[2] /\ {e[1], e[2]} \subseteq ToSet(s)}

(* An operation also reached from within stops counting as exclusive to a  *)
(* port, inputs only if the sink comes before the source in the cluster.   *)
SharedInput(s) ==
  {y \in InputOps(s) : \E i, j \in DOMAIN s : i < j /\ s[i] = y /\ <<s[j], y>> \in flow}
SharedOutput(s) == {x \in OutputOps(s) : \E e \in ConnectedOps(s) : e[1] = x}
non_exclusive_port_operation(s) == SharedInput(s) \cup SharedOutput(s)

(* A cluster of one is not checked, nor is one with an operation that has  *)
(* no output: the early return skips the rest.                             *)
Unchecked(s) == Len(s) = 1 \/ \E op \in ToSet(s) : Sinks(op) = {}

(* getCyclesToSink looks both ends up in a schedule made before any clone. *)
Unscheduled(s) == ~l_isElastic /\ \E e \in ConnectedOps(s) : e[1][2] > 0 \/ e[2][2] > 0

(* Too few ports: the operation with the fewest is to be clustered alone.  *)
SinksOnly(c) == {<<c, y>> : y \in Sinks(c)}
PairsOf(c) == {<<c, y>> : y \in Sinks(c)} \cup {<<x, c>> : x \in Sources(c)}
TooFewPorts(s, c) ==
  \/ c \in InputOps(s) /\ Cardinality(InputOps(s)) > 1
  \/ c \in OutputOps(s) /\ Cardinality(OutputOps(s)) > 1

(* No port can be reached by an operation that is also reached from within.*)
NoPort(s, source, sink) ==
  \/ sink \in SharedInput(s) /\ source \in Outer(s, Sources(sink))
  \/ source \in SharedOutput(s) /\ sink \in Outer(s, Sinks(source))
NoPortAtAll(s) == InputOps(s) \ SharedInput(s) # {} \/ OutputOps(s) \ SharedOutput(s) # {}

(* resolveReachability: a clone of the source, with the source's inputs,   *)
(* takes its place before the sink.                                        *)
FlowForgets(source, sink) == (flow \ {<<source, sink>>}) \cup {<<Clone(source), sink>>}
FlowWithClone(source, sink) ==
  (flow \ {<<source, sink>>}) \cup {<<Clone(source), sink>>}
    \cup {<<x, Clone(source)>> : x \in Sources(source)}
CanClone(source) == Cardinality(Sinks(source)) > 1 /\ Clone(source) \notin ops

-----------------------------------------------------------------------------
Init ==
  /\ dfg \in Flows
  /\ fabric \in Fabrics
  /\ ops = {Original(n) : n \in Names}
  /\ flow = {<<Original(e[1]), Original(e[2])>> : e \in dfg}
  /\ l_isElastic \in BOOLEAN
  /\ l_cluster \in BOOLEAN
  /\ operations = <<>>
  /\ visited = {}
  /\ l_clusters = <<>>
  /\ l_op_cluster_index = <<>>
  /\ l_ops_not_clustered = {}
  /\ l_reschedule = FALSE
  /\ phase = "start"
  /\ verdict = "none"

(* Without clustering each operation is a cluster.                         *)
createSingleOpClusters ==
  /\ phase = "call" /\ ~l_cluster
  /\ \E order \in SetToSeqs(ops) :
       /\ l_clusters' = [k \in DOMAIN order |-> <<order[k]>>]
       /\ l_op_cluster_index' = [op \in ops |-> CHOOSE k \in DOMAIN order : order[k] = op]
  /\ phase' = "place"
  /\ UNCHANGED <<graph_vars, operations, visited, l_ops_not_clustered, l_reschedule, verdict>>

Start ==
  /\ phase = "call" /\ l_cluster
  /\ operations' \in SetToSeqs(FirstOps)
  /\ l_reschedule' = FALSE
  /\ phase' = "pack"
  /\ UNCHANGED <<graph_vars, visited, l_clusters, l_op_cluster_index, l_ops_not_clustered,
                 verdict>>

Working == phase = "pack" /\ operations # <<>>
Unpacked == Working /\ Head(operations) \notin visited

Skip ==
  /\ Working /\ Head(operations) \in visited
  /\ operations' = Tail(operations)
  /\ UNCHANGED <<graph_vars, phase, visited, l_clusters, l_op_cluster_index,
                 l_ops_not_clustered, l_reschedule, verdict>>

Error(what) ==
  /\ phase' = "error"
  /\ verdict' = what
  /\ UNCHANGED <<dfg, fabric, l_isElastic, l_cluster, operations, visited, l_clusters,
                 l_op_cluster_index, l_ops_not_clustered, l_reschedule>>

Unsupported ==
  /\ Unpacked /\ modules_to_map_op(Head(operations)) = {}
  /\ Error("unsupported")
  /\ UNCHANGED <<ops, flow>>

(* The cluster is kept, and the sinks of its operations are queued.        *)
VisitedFirst(s) == visited \cup {s[1]}
VisitedWith(s) == visited \cup ToSet(s)
SinksOf(op) == SetToSeq(Sinks(op))
Keep(s) ==
  /\ Unchecked(s) \/ ~Unscheduled(s)
  /\ operations' = Tail(operations) \o SinksOf(Head(operations))
                     \o FlattenSeq([k \in DOMAIN s |-> SinksOf(s[k])])
  /\ visited' = VisitedWith(s)
  /\ l_clusters' = Append(l_clusters, s)
  /\ l_op_cluster_index' =
       [op \in DOMAIN l_op_cluster_index \cup ToSet(s) |->
          IF op \in ToSet(s) THEN Len(l_clusters) + 1 ELSE l_op_cluster_index[op]]
  /\ verdict' = "reachable"
  /\ UNCHANGED <<graph_vars, phase, l_ops_not_clustered, l_reschedule>>

(* The operation goes to the end of the queue.                             *)
RetryDrops == Tail(operations)
RetryQueue == Append(Tail(operations), Head(operations))
Retry(pairs, what) ==
  /\ operations' = RetryQueue
  /\ l_ops_not_clustered' = l_ops_not_clustered \cup pairs
  /\ verdict' = what
  /\ UNCHANGED <<graph_vars, phase, visited, l_clusters, l_op_cluster_index, l_reschedule>>

SplitPorts(s) ==
  /\ ~Unchecked(s)
  /\ \E c \in ToSet(s) : TooFewPorts(s, c) /\ Retry(PairsOf(c), "ports")

Unrecorded(e) == {}
BothWays(e) == {e, <<e[2], e[1]>>}
SplitPair(s) ==
  /\ ~Unchecked(s)
  /\ \E e \in ConnectedOps(s) :
       /\ l_isElastic \/ e[1][2] + e[2][2] = 0
       /\ {e[1], e[2]} \cap non_exclusive_port_operation(s) # {}
       /\ Retry(BothWays(e), "pair")

(* The break, and the clearing that follows the loop.                      *)
Restart(source, sink) ==
  /\ flow' = FlowWithClone(source, sink)
  /\ ops' = ops \cup {Clone(source)}
  /\ l_reschedule' = TRUE
  /\ operations' = <<>>
  /\ visited' = {}
  /\ l_clusters' = <<>>
  /\ phase' = "rescheduled"
  /\ verdict' = "cloned"
  /\ UNCHANGED <<dfg, fabric, l_isElastic, l_cluster, l_op_cluster_index, l_ops_not_clustered>>

Resolve(s) ==
  /\ ~Unchecked(s)
  /\ \E source, sink \in ops :
       /\ NoPort(s, source, sink)
       /\ IF CanClone(source)
          THEN source[2] < MaxClones /\ Restart(source, sink)
          ELSE /\ flow' = (IF Cardinality(Sinks(source)) > 1
                           THEN flow \ {<<source, sink>>} ELSE flow)
               /\ Error("unresolved")
               /\ UNCHANGED ops

Unroutable(s) ==
  /\ ~Unchecked(s)
  /\ \/ NoPortAtAll(s)
     \/ Unscheduled(s)
     \/ \E e \in ConnectedOps(s) :
          {e[1], e[2]} \cap non_exclusive_port_operation(s) = {}
  /\ Error("unroutable")
  /\ UNCHANGED <<ops, flow>>

Pack ==
  /\ Unpacked
  /\ \E s \in max_used_ops(Head(operations)) :
       Keep(s) \/ SplitPorts(s) \/ SplitPair(s) \/ Resolve(s) \/ Unroutable(s)

(* checkIfAllOpsAreClustered, when the queue is empty.                     *)
Finish ==
  /\ phase = "pack" /\ operations = <<>>
  /\ phase' = (IF ops \subseteq visited THEN "place" ELSE "missing")
  /\ UNCHANGED <<graph_vars, pack_vars>>

ClusterPEs == createSingleOpClusters \/ Start \/ Skip \/ Unsupported \/ Pack \/ Finish
=============================================================================
