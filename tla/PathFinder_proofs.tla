--------------------------- MODULE PathFinder_proofs ---------------------------
(***************************************************************************)
(* The router's three records of who uses a node agree through all rounds  *)
(* of ripping up and rerouting, a value is never searched for while it     *)
(* holds a route, a recorded route leads to all sinks, a failed call       *)
(* leaves the routing empty, and a success is exclusive: for every routing *)
(* graph, op graph and placement.                                          *)
(***************************************************************************)
EXTENDS PathFinder, FiniteSetTheorems, TLAPS

Users(mapping, n) == {v \in Vals : n \in mapping[v]}

(* A mapping, with counters and lists of users that agree with it.         *)
Consistent(s) ==
  /\ s \in [mapping : [Vals -> SUBSET Nodes], occ : [Nodes -> Int], values : [Nodes -> SUBSET Vals]]
  /\ \A n \in Nodes : /\ s.values[n] = Users(s.mapping, n)
                      /\ s.occ[n] = Cardinality(Users(s.mapping, n))

LEMMA UsersFinite ==
  ASSUME NEW mapping, NEW n
  PROVE  /\ IsFiniteSet(Users(mapping, n))
         /\ Cardinality(Users(mapping, n)) \in 0 .. Cardinality(Vals)
<1>1. Users(mapping, n) \in SUBSET Vals
  BY DEF Users
<1>2. IsFiniteSet(Vals)
  BY NetAssumption
<1>3. /\ IsFiniteSet(Users(mapping, n))
      /\ Cardinality(Users(mapping, n)) <= Cardinality(Vals)
  BY <1>1, <1>2, FS_Subset
<1>4. Cardinality(Users(mapping, n)) \in Nat /\ Cardinality(Vals) \in Nat
  BY <1>2, <1>3, FS_CardinalityType
<1> QED
  BY <1>3, <1>4

(* Recording the route of an unrouted value keeps the records in agreement *)
(* and changes the route of that value alone.                              *)
LEMMA MapNodes ==
  ASSUME NEW s, Consistent(s), NEW v \in Vals, s.mapping[v] = {}, NEW nodes \in SUBSET Nodes
  PROVE  /\ Consistent(mapMRRGNodes(s, v, nodes))
         /\ mapMRRGNodes(s, v, nodes).mapping = [s.mapping EXCEPT ![v] = nodes]
<1> DEFINE t == mapMRRGNodes(s, v, nodes)
<1>1. t.mapping = [s.mapping EXCEPT ![v] = nodes]
  BY DEF mapMRRGNodes
<1>2. t \in [mapping : [Vals -> SUBSET Nodes], occ : [Nodes -> Int], values : [Nodes -> SUBSET Vals]]
  BY DEF mapMRRGNodes, Consistent
<1>3. ASSUME NEW n \in Nodes
      PROVE  /\ t.values[n] = Users(t.mapping, n)
             /\ t.occ[n] = Cardinality(Users(t.mapping, n))
  <2>1. CASE n \in nodes
    <3>1. Users(t.mapping, n) = Users(s.mapping, n) \cup {v} /\ v \notin Users(s.mapping, n)
      BY <1>1, <2>1 DEF Users, Consistent
    <3>2. Cardinality(Users(t.mapping, n)) = Cardinality(Users(s.mapping, n)) + 1
      BY <3>1, UsersFinite, FS_AddElement
    <3>3. t.values[n] = s.values[n] \cup {v} /\ t.occ[n] = s.occ[n] + 1
      BY <2>1 DEF mapMRRGNodes
    <3> QED
      BY <3>1, <3>2, <3>3 DEF Consistent
  <2>2. CASE n \notin nodes
    <3>1. Users(t.mapping, n) = Users(s.mapping, n)
      BY <1>1, <2>2 DEF Users, Consistent
    <3>2. t.values[n] = s.values[n] /\ t.occ[n] = s.occ[n]
      BY <2>2 DEF mapMRRGNodes
    <3> QED
      BY <3>1, <3>2 DEF Consistent
  <2> QED
    BY <2>1, <2>2
<1> QED
  BY <1>1, <1>2, <1>3 DEF Consistent

(* So does ripping a value up, which leaves that value unrouted.           *)
LEMMA RipUpVal ==
  ASSUME NEW s, Consistent(s), NEW v \in Vals
  PROVE  /\ Consistent(ripUpOpVal(s, v))
         /\ ripUpOpVal(s, v).mapping = [s.mapping EXCEPT ![v] = {}]
<1> DEFINE t == ripUpOpVal(s, v)
<1>1. t.mapping = [s.mapping EXCEPT ![v] = {}]
  BY DEF ripUpOpVal
<1>2. t \in [mapping : [Vals -> SUBSET Nodes], occ : [Nodes -> Int], values : [Nodes -> SUBSET Vals]]
  BY DEF ripUpOpVal, Consistent
<1>3. ASSUME NEW n \in Nodes
      PROVE  /\ t.values[n] = Users(t.mapping, n)
             /\ t.occ[n] = Cardinality(Users(t.mapping, n))
  <2>1. CASE n \in s.mapping[v]
    <3>1. Users(t.mapping, n) = Users(s.mapping, n) \ {v} /\ v \in Users(s.mapping, n)
      BY <1>1, <2>1 DEF Users, Consistent
    <3>2. Cardinality(Users(t.mapping, n)) = Cardinality(Users(s.mapping, n)) - 1
      BY <3>1, UsersFinite, FS_RemoveElement
    <3>3. t.values[n] = s.values[n] \ {v} /\ t.occ[n] = s.occ[n] - 1
      BY <2>1 DEF ripUpOpVal
    <3> QED
      BY <3>1, <3>2, <3>3 DEF Consistent
  <2>2. CASE n \notin s.mapping[v]
    <3>1. Users(t.mapping, n) = Users(s.mapping, n)
      BY <1>1, <2>2 DEF Users, Consistent
    <3>2. t.values[n] = s.values[n] /\ t.occ[n] = s.occ[n]
      BY <2>2 DEF ripUpOpVal
    <3> QED
      BY <3>1, <3>2 DEF Consistent
  <2> QED
    BY <2>1, <2>2
<1> QED
  BY <1>1, <1>2, <1>3 DEF Consistent

-----------------------------------------------------------------------------
Types ==
  /\ l_placement \in [Ops -> FUs]
  /\ l_used_rounting_function_nodes \subseteq Nodes \cap FUs
  /\ phase \in Phases
  /\ i \in 0 .. MaxIterations
  /\ k \in DOMAIN valNodes
  /\ routes \in SUBSET Nodes

(* Which values may hold a route: none between calls, only those before    *)
(* the current one in the initial routing, any but the current one in a    *)
(* round.                                                                  *)
Routed ==
  /\ phase = "idle" => l_mapping = Unrouted
  /\ phase = "initial" => \A j \in DOMAIN valNodes : j >= k => l_mapping[valNodes[j]] = {}
  /\ phase = "reroute" => l_mapping[valNodes[k]] = {}
  /\ phase = "success" => mapped(State)

Inv == Types /\ Consistent(State) /\ Routed

LEMMA Indices ==
  /\ DOMAIN valNodes = 1 .. Len(valNodes)
  /\ Len(valNodes) \in Nat \ {0}
  /\ \A j \in DOMAIN valNodes : valNodes[j] \in Vals
  /\ \A j, l \in DOMAIN valNodes : valNodes[j] = valNodes[l] => j = l
<1>1. valNodes \in Seq(Vals) /\ valNodes # <<>>
  BY NetAssumption
<1>2. \A j, l \in DOMAIN valNodes : valNodes[j] = valNodes[l] => j = l
  BY NetAssumption
<1>3. \A j \in DOMAIN valNodes : valNodes[j] \in Vals
  BY DEF Vals
<1>4. DOMAIN valNodes = 1 .. Len(valNodes) /\ Len(valNodes) \in Nat
  BY <1>1
<1>5. Len(valNodes) # 0
  BY <1>1
<1> QED
  BY <1>2, <1>3, <1>4, <1>5

LEMMA UnroutedIsConsistent ==
  Consistent([mapping |-> Unrouted, occ |-> [n \in Nodes |-> 0], values |-> [n \in Nodes |-> {}]])
<1> DEFINE s == [mapping |-> Unrouted, occ |-> [n \in Nodes |-> 0], values |-> [n \in Nodes |-> {}]]
<1>1. s \in [mapping : [Vals -> SUBSET Nodes], occ : [Nodes -> Int], values : [Nodes -> SUBSET Vals]]
  BY DEF Unrouted
<1>2. \A n \in Nodes : Users(s.mapping, n) = {}
  BY DEF Users, Unrouted
<1> QED
  BY <1>1, <1>2, FS_EmptySet DEF Consistent

(* Become(s) makes s the next state of the records.                        *)
LEMMA Becomes ==
  ASSUME NEW s, Become(s), Consistent(s)
  PROVE  Consistent(State)' /\ l_mapping' = s.mapping
<1>1. State' = [mapping |-> s.mapping, occ |-> s.occ, values |-> s.values]
  BY DEF Become, State
<1>2. s = [mapping |-> s.mapping, occ |-> s.occ, values |-> s.values]
  BY DEF Consistent
<1> QED
  BY <1>1, <1>2 DEF Become, Consistent, Users

LEMMA StateSame ==
  ASSUME UNCHANGED routing, Consistent(State)
  PROVE  Consistent(State)' /\ l_mapping' = l_mapping /\ State' = State
BY DEF routing, State, Consistent, Users

LEMMA InitInv == Init => Inv
<1> SUFFICES ASSUME Init PROVE Inv
  OBVIOUS
<1>1. Consistent(State)
  BY UnroutedIsConsistent DEF Init, State
<1>2. Types
  BY Indices, NetAssumption DEF Init, Types, Phases
<1> QED
  BY <1>1, <1>2 DEF Inv, Routed, Init

LEMMA StartStep ==
  ASSUME Inv, NEW placed \in Placements, Start(placed)
  PROVE  Inv'
<1>1. Consistent(State)' /\ l_mapping' = l_mapping
  BY StateSame DEF Inv, Start
<1>2. placed \in [Ops -> FUs]
  BY NetAssumption
<1>3. Types'
  BY <1>2, Indices, NetAssumption DEF Inv, Types, Start, load, Phases
<1>4. l_mapping = Unrouted /\ phase' = "initial"
  BY DEF Inv, Routed, Start
<1>5. Routed'
  BY <1>1, <1>4, Indices DEF Routed, Unrouted
<1> QED
  BY <1>1, <1>3, <1>5 DEF Inv

LEMMA ReachSinkStep ==
  ASSUME Inv, ReachSink
  PROVE  Inv'
<1>1. Consistent(State)' /\ l_mapping' = l_mapping /\ State' = State
  BY StateSame DEF Inv, ReachSink
<1>2. PICK p : routes' = routes \cup Along(p) /\ p \in dijkstraVisit(val, Head(sinks))
  BY DEF ReachSink
<1>3. Along(p) \subseteq Nodes
  BY <1>2 DEF dijkstraVisit
<1>4. Types'
  BY <1>2, <1>3 DEF Inv, Types, ReachSink, call
<1>5. Routed'
  BY <1>1 DEF Inv, Routed, ReachSink, searching
<1> QED
  BY <1>1, <1>4, <1>5 DEF Inv

LEMMA MissSinkStep ==
  ASSUME Inv, MissSink
  PROVE  Inv'
<1>1. Consistent(State)' /\ l_mapping' = l_mapping
  BY StateSame DEF Inv, MissSink
<1>2. phase' \in {"thrown", "finish"}
  BY DEF MissSink
<1>3. Types'
  BY <1>2 DEF Inv, Types, MissSink, call, Phases
<1>4. Routed'
  BY <1>2 DEF Routed
<1> QED
  BY <1>1, <1>3, <1>4 DEF Inv

LEMMA RecordStep ==
  ASSUME Inv, Record
  PROVE  Inv'
<1> DEFINE s == mapMRRGNodes(State, val, routes)
<1>1. val \in Vals /\ l_mapping[val] = {} /\ routes \in SUBSET Nodes
  BY Indices DEF Inv, Types, Routed, Record, searching, val
<1>2. State.mapping = l_mapping
  BY DEF State
<1>3. Consistent(s) /\ s.mapping = [l_mapping EXCEPT ![val] = routes]
  BY <1>1, <1>2, MapNodes DEF Inv
<1>4. Become(s)
  BY DEF Record
<1>5. Consistent(State)' /\ l_mapping' = [l_mapping EXCEPT ![val] = routes]
  <2> HIDE DEF s
  <2> QED
    BY <1>3, <1>4, Becomes
<1>6. \/ /\ phase = "initial" /\ k # Len(valNodes)
         /\ phase' = "initial" /\ i' = i /\ k' = k + 1 /\ routes' = {}
      \/ /\ phase' = "ripup" /\ k' = 1 /\ routes' = routes
         /\ i' = 1 \/ (i < MaxIterations /\ i' = i + 1)
      \/ /\ k # Len(valNodes)
         /\ phase' = "ripup" /\ i' = i /\ k' = k + 1 /\ routes' = routes
      \/ phase' = "finish" /\ i' = i /\ k' = k /\ routes' = routes
  BY DEF Record, load
<1>7. Types'
  BY <1>6, Indices, NetAssumption DEF Inv, Types, Record, call, Phases
<1>8. Routed'
  <2>1. CASE phase' \in {"ripup", "finish"}
    BY <2>1 DEF Routed
  <2>2. CASE phase = "initial" /\ phase' = "initial" /\ k' = k + 1
    <3> SUFFICES ASSUME NEW j \in DOMAIN valNodes, j >= k'
                 PROVE  l_mapping'[valNodes[j]] = {}
      BY <2>2 DEF Routed
    <3>1. j \in Int /\ k \in Int /\ j > k
      BY <2>2, Indices DEF Inv, Types
    <3>2. l_mapping[valNodes[j]] = {}
      BY <2>2, <3>1 DEF Inv, Routed
    <3>3. valNodes[j] # val
      BY <3>1, Indices DEF Inv, Types, val
    <3> QED
      BY <1>5, <3>2, <3>3, Indices DEF Inv, Consistent, State
  <2> QED
    BY <1>6, <2>1, <2>2
<1> QED
  BY <1>5, <1>7, <1>8 DEF Inv

LEMMA RipUpStep ==
  ASSUME Inv, RipUp
  PROVE  Inv'
<1> DEFINE s == ripUpOpVal(State, val)
<1>1. val \in Vals
  BY Indices DEF Inv, Types, val
<1>2. Consistent(s) /\ s.mapping = [l_mapping EXCEPT ![val] = {}]
  BY <1>1, RipUpVal DEF Inv, State
<1>3. Become(s)
  BY DEF RipUp
<1>4. Consistent(State)' /\ l_mapping' = [l_mapping EXCEPT ![val] = {}]
  <2> HIDE DEF s
  <2> QED
    BY <1>2, <1>3, Becomes
<1>5. Types'
  BY DEF Inv, Types, RipUp, call, load, Phases
<1>6. l_mapping'[val] = {}
  BY <1>1, <1>4 DEF Inv, Consistent, State
<1>7. Routed'
  BY <1>6 DEF Routed, RipUp, load, val
<1> QED
  BY <1>4, <1>5, <1>7 DEF Inv

LEMMA SucceedStep ==
  ASSUME Inv, Succeed
  PROVE  Inv'
<1>1. Consistent(State)' /\ State' = State
  BY StateSame DEF Inv, Succeed
<1>2. Types'
  BY DEF Inv, Types, Succeed, call, Phases
<1>3. mapped(State)' /\ phase' = "success"
  BY <1>1 DEF Succeed, mapped, isOpgraphCovered, checkOveruse
<1>4. Routed'
  BY <1>3 DEF Routed
<1> QED
  BY <1>1, <1>2, <1>4 DEF Inv

LEMMA GiveUpStep ==
  ASSUME Inv, GiveUp
  PROVE  Inv'
<1>1. \A n \in Nodes : /\ occupancy[n] = Cardinality({v \in Vals : n \in l_mapping[v]})
                       /\ mapped_values[n] = {v \in Vals : n \in l_mapping[v]}
  BY DEF Inv, Consistent, State, Users
<1>2. \A n \in Nodes : occupancy[n] \in Int
  BY DEF Inv, Consistent, State
<1>3. occupancy' = [n \in Nodes |-> 0]
  BY <1>1, <1>2 DEF GiveUp
<1>4. mapped_values' = [n \in Nodes |-> {}]
  BY <1>1 DEF GiveUp
<1>5. State' = [mapping |-> Unrouted, occ |-> [n \in Nodes |-> 0], values |-> [n \in Nodes |-> {}]]
  BY <1>3, <1>4 DEF GiveUp, State
<1>6. Consistent(State)'
  BY <1>5, UnroutedIsConsistent DEF Consistent, Users
<1>7. Types'
  BY DEF Inv, Types, GiveUp, Phases
<1>8. Routed'
  BY DEF Routed, GiveUp, Unrouted
<1> QED
  BY <1>6, <1>7, <1>8 DEF Inv

LEMMA StutterStep ==
  ASSUME Inv, UNCHANGED vars
  PROVE  Inv'
<1>1. Consistent(State)' /\ State' = State /\ l_mapping' = l_mapping
  BY StateSame DEF Inv, vars, routing
<1>2. Types'
  BY DEF Inv, Types, vars, call
<1>3. mapped(State) => mapped(State)'
  BY <1>1 DEF mapped, isOpgraphCovered, checkOveruse
<1>4. Routed'
  BY <1>1, <1>3 DEF Inv, Routed, vars
<1> QED
  BY <1>1, <1>2, <1>4 DEF Inv

LEMMA Invariance == Spec => []Inv
<1>1. Inv /\ [Next]_vars => Inv'
  <2> SUFFICES ASSUME Inv, [Next]_vars PROVE Inv'
    OBVIOUS
  <2>1. CASE \E placed \in Placements : Start(placed)
    BY <2>1, StartStep
  <2>2. CASE ReachSink
    BY <2>2, ReachSinkStep
  <2>3. CASE MissSink
    BY <2>3, MissSinkStep
  <2>4. CASE Record
    BY <2>4, RecordStep
  <2>5. CASE RipUp
    BY <2>5, RipUpStep
  <2>6. CASE Succeed
    BY <2>6, SucceedStep
  <2>7. CASE GiveUp
    BY <2>7, GiveUpStep
  <2>8. CASE Stopped \/ UNCHANGED vars
    BY <2>8, StutterStep DEF Stopped
  <2> QED
    BY <2>1, <2>2, <2>3, <2>4, <2>5, <2>6, <2>7, <2>8 DEF Next
<1> QED
  BY InitInv, <1>1, PTL DEF Spec

-----------------------------------------------------------------------------
(* The occupancy counters and user lists agree with the routes at all      *)
(* times, whatever the searches return: ripUpOpVal throws nothing.         *)
THEOREM RecordsAgree == Spec => [](TypeOK /\ OccupancyIsMapping)
<1>1. Inv => TypeOK /\ OccupancyIsMapping
  <2> SUFFICES ASSUME Inv PROVE TypeOK /\ OccupancyIsMapping
    OBVIOUS
  <2>1. OccupancyIsMapping
    BY DEF Inv, Consistent, State, Users, OccupancyIsMapping
  <2>2. \A n \in Nodes : occupancy[n] \in 0 .. Cardinality(Vals)
    BY UsersFinite DEF Inv, Consistent, State
  <2>3. TypeOK
    BY <2>2 DEF Inv, Types, Consistent, State, TypeOK
  <2> QED
    BY <2>1, <2>3
<1> QED
  BY <1>1, Invariance, PTL

(* A value that is searched for holds no route.                            *)
THEOREM SearchesUnrouted == Spec => []SearchedValueIsUnrouted
<1>1. Inv => SearchedValueIsUnrouted
  BY Indices DEF Inv, Types, Routed, SearchedValueIsUnrouted, searching, val
<1> QED
  BY <1>1, Invariance, PTL

(* Between calls the routing is empty, so that no failed call can block or *)
(* distort the next one.                                                   *)
THEOREM FailuresLeaveNothing == Spec => []FailureLeavesClean
<1>1. Inv => FailureLeavesClean
  <2> SUFFICES ASSUME Inv, phase = "idle" PROVE FailureLeavesClean
    BY DEF FailureLeavesClean
  <2>1. l_mapping = Unrouted
    BY DEF Inv, Routed
  <2>2. \A n \in Nodes : Users(l_mapping, n) = {}
    BY <2>1 DEF Users, Unrouted
  <2> QED
    BY <2>1, <2>2, FS_EmptySet DEF Inv, Consistent, State, FailureLeavesClean
<1> QED
  BY <1>1, Invariance, PTL

(* A routing that is returned as a success covers every value and gives no *)
(* node to two of them.                                                    *)
THEOREM SuccessesExclusive == Spec => []SuccessIsExclusive
<1>1. Inv => SuccessIsExclusive
  <2> SUFFICES ASSUME Inv, phase = "success" PROVE SuccessIsExclusive
    BY DEF SuccessIsExclusive
  <2>1. /\ \A v \in Vals : l_mapping[v] # {}
        /\ \A n \in Nodes : occupancy[n] <= 1
    BY DEF Inv, Routed, mapped, isOpgraphCovered, checkOveruse, State
  <2>2. ASSUME NEW v \in Vals, NEW w \in Vals, v # w, NEW n \in l_mapping[v] \cap l_mapping[w]
        PROVE  FALSE
    <3> DEFINE U == Users(l_mapping, n)
    <3>1. n \in Nodes
      BY DEF Inv, Consistent, State
    <3>2. Cardinality(U) <= 1
      BY <2>1, <3>1 DEF Inv, Consistent, State
    <3>3. v \in U /\ w \in U \ {v}
      BY <2>2 DEF Users
    <3>4. IsFiniteSet(U \ {v}) /\ Cardinality(U \ {v}) = Cardinality(U) - 1
      BY <3>3, UsersFinite, FS_RemoveElement
    <3>5. Cardinality(U \ {v}) # 0
      BY <3>3, <3>4, FS_EmptySet
    <3>6. Cardinality(U) \in Nat /\ Cardinality(U \ {v}) \in Nat
      BY <3>4, UsersFinite, FS_CardinalityType
    <3> QED
      BY <3>2, <3>4, <3>5, <3>6
  <2> QED
    BY <2>1, <2>2 DEF SuccessIsExclusive
<1> QED
  BY <1>1, Invariance, PTL

-----------------------------------------------------------------------------
(* A node set holds a path from the producer of a value to one of its      *)
(* sinks.  While a value is searched for, its route does for the sinks     *)
(* before those that are still to be reached.                              *)
Reached(v, s, nodes) ==
  \E p \in LoopFreePaths :
    /\ Along(p) \subseteq nodes
    /\ p[1] = first_fanout[l_placement[input[v]]]
    /\ l_placement[output[v][s].op] \in fanout[p[Len(p)]]

SinksOf(v) == {output[v][s] : s \in DOMAIN output[v]}

PartlyReached ==
  searching =>
    /\ sinks \in Seq(SinksOf(val))
    /\ \E n \in Nat :
         /\ n + Len(sinks) = Len(output[val])
         /\ \A j \in 1 .. Len(sinks) : sinks[j] = output[val][n + j]
         /\ \A s \in 1 .. n : Reached(val, s, routes)

ConnectedInv == RecordedIsConnected /\ PartlyReached

LEMMA OutputIsSeq ==
  ASSUME NEW v \in Vals
  PROVE  output[v] \in Seq(SinksOf(v)) /\ Len(output[v]) \in Nat /\ DOMAIN output[v] = 1 .. Len(output[v])
<1>1. output[v] \in Seq(SinksOf(v))
  BY NetAssumption DEF SinksOf
<1> QED
  BY <1>1

LEMMA RecordedIsReached ==
  RecordedIsConnected <=>
    \A v \in Vals : l_mapping[v] # {} => \A s \in DOMAIN output[v] : Reached(v, s, l_mapping[v])
BY DEF RecordedIsConnected, Reached

(* The search for a value begins with all its sinks.                       *)
LEMMA LoadPartly ==
  ASSUME NEW n \in DOMAIN valNodes, load(n)
  PROVE  PartlyReached'
<1>1. val' = valNodes[n] /\ sinks' = output[val'] /\ val' \in Vals
  BY Indices DEF load, val
<1>2. /\ sinks' \in Seq(SinksOf(val')) /\ Len(sinks') \in Nat
      /\ 0 + Len(sinks') = Len(output[val'])
      /\ \A j \in 1 .. Len(sinks') : sinks'[j] = output[val'][0 + j]
  BY <1>1, OutputIsSeq
<1>3. \A s \in 1 .. 0 : Reached(val, s, routes)'
  OBVIOUS
<1> QED
  BY <1>2, <1>3 DEF PartlyReached, SinksOf

LEMMA UnroutedConnected ==
  ASSUME l_mapping' = Unrouted PROVE RecordedIsConnected'
BY DEF RecordedIsConnected, Unrouted

LEMMA RecordedStays ==
  ASSUME RecordedIsConnected, l_mapping' = l_mapping, l_placement' = l_placement
  PROVE  RecordedIsConnected'
BY DEF RecordedIsConnected

(* What is left of a sequence after its first n elements, and one more.    *)
LEMMA Rest ==
  ASSUME NEW S, NEW q \in Seq(S), q # <<>>, NEW whole, NEW n \in Nat,
         n + Len(q) = Len(whole), \A j \in 1 .. Len(q) : q[j] = whole[n + j]
  PROVE  /\ Head(q) = whole[n + 1] /\ Tail(q) \in Seq(S)
         /\ n + 1 + Len(Tail(q)) = Len(whole)
         /\ \A j \in 1 .. Len(Tail(q)) : Tail(q)[j] = whole[n + 1 + j]
<1>1. Len(q) \in Nat \ {0} /\ Head(q) = q[1] /\ Tail(q) \in Seq(S) /\ Len(Tail(q)) = Len(q) - 1
  OBVIOUS
<1>2. Head(q) = whole[n + 1]
  BY <1>1
<1>3. ASSUME NEW j \in 1 .. Len(Tail(q))
      PROVE  Tail(q)[j] = whole[n + 1 + j]
  <2>1. Tail(q)[j] = q[j + 1] /\ j + 1 \in 1 .. Len(q)
    BY <1>1
  <2>2. q[j + 1] = whole[n + (j + 1)] /\ n + (j + 1) = n + 1 + j
    BY <2>1, <1>1
  <2> QED
    BY <2>1, <2>2
<1> QED
  BY <1>1, <1>2, <1>3

LEMMA ConnectedReachSink ==
  ASSUME Inv, ConnectedInv, ReachSink
  PROVE  ConnectedInv'
<1>1. RecordedIsConnected'
  BY RecordedStays DEF ConnectedInv, ReachSink, routing, call
<1>2. PICK n \in Nat :
        /\ n + Len(sinks) = Len(output[val])
        /\ \A j \in 1 .. Len(sinks) : sinks[j] = output[val][n + j]
        /\ \A s \in 1 .. n : Reached(val, s, routes)
  BY DEF ConnectedInv, PartlyReached, ReachSink
<1>3. sinks \in Seq(SinksOf(val)) /\ sinks # <<>> /\ sinks' = Tail(sinks) /\ val' = val
  BY DEF ConnectedInv, PartlyReached, ReachSink, val
<1>4. PICK p \in dijkstraVisit(val, Head(sinks)) : routes' = routes \cup Along(p)
  BY DEF ReachSink
<1>5. l_placement' = l_placement
  BY DEF ReachSink, call
<1>6. /\ Head(sinks) = output[val][n + 1] /\ Tail(sinks) \in Seq(SinksOf(val))
      /\ n + 1 + Len(Tail(sinks)) = Len(output[val])
      /\ \A j \in 1 .. Len(Tail(sinks)) : Tail(sinks)[j] = output[val][n + 1 + j]
  <2> DEFINE S == SinksOf(val)
             whole == output[val]
  <2>1. /\ sinks \in Seq(S) /\ sinks # <<>> /\ n \in Nat /\ n + Len(sinks) = Len(whole)
        /\ \A j \in 1 .. Len(sinks) : sinks[j] = whole[n + j]
    BY <1>2, <1>3
  <2> HIDE DEF S, whole
  <2>2. /\ Head(sinks) = whole[n + 1] /\ Tail(sinks) \in Seq(S)
        /\ n + 1 + Len(Tail(sinks)) = Len(whole)
        /\ \A j \in 1 .. Len(Tail(sinks)) : Tail(sinks)[j] = whole[n + 1 + j]
    BY <2>1, Rest
  <2> QED
    BY <2>2 DEF S, whole
<1>7. Reached(val, n + 1, routes')
  BY <1>4, <1>6 DEF dijkstraVisit, Reached
<1>8. \A s \in 1 .. n : Reached(val, s, routes')
  BY <1>2, <1>4 DEF Reached
<1>9. \A s \in 1 .. n + 1 : Reached(val, s, routes)'
  <2> TAKE s \in 1 .. n + 1
  <2>1. Reached(val, s, routes')
    BY <1>7, <1>8
  <2> QED
    BY <2>1, <1>3, <1>5 DEF Reached
<1>10. /\ sinks' \in Seq(SinksOf(val')) /\ n + 1 \in Nat
       /\ n + 1 + Len(sinks') = Len(output[val'])
       /\ \A j \in 1 .. Len(sinks') : sinks'[j] = output[val'][n + 1 + j]
  BY <1>3, <1>6
<1>11. PartlyReached'
  BY <1>9, <1>10 DEF PartlyReached, SinksOf
<1> QED
  BY <1>1, <1>11 DEF ConnectedInv

LEMMA ConnectedRecord ==
  ASSUME Inv, ConnectedInv, Record
  PROVE  ConnectedInv'
<1> DEFINE t == mapMRRGNodes(State, val, routes)
<1>1. /\ val \in Vals /\ l_mapping[val] = {} /\ routes \in SUBSET Nodes
      /\ l_mapping \in [Vals -> SUBSET Nodes]
  BY Indices DEF Inv, Types, Routed, Record, searching, val, Consistent, State
<1>2. l_mapping' = [l_mapping EXCEPT ![val] = routes] /\ l_placement' = l_placement
  BY DEF Record, Become, mapMRRGNodes, State, call
<1>3. \A s \in DOMAIN output[val] : Reached(val, s, routes)
  <2>1. PICK n \in Nat : /\ n + Len(sinks) = Len(output[val])
                         /\ \A s \in 1 .. n : Reached(val, s, routes)
    BY DEF ConnectedInv, PartlyReached, Record
  <2>2. n = Len(output[val])
    BY <2>1 DEF Record
  <2> QED
    BY <1>1, <2>1, <2>2, OutputIsSeq
<1>4. \A v \in Vals : l_mapping'[v] # {} =>
        \A s \in DOMAIN output[v] : Reached(v, s, l_mapping'[v])
  BY <1>1, <1>2, <1>3, RecordedIsReached DEF ConnectedInv
<1>5. RecordedIsConnected'
  BY <1>2, <1>4 DEF RecordedIsConnected, Reached
<1>6. \/ phase' \in {"ripup", "finish"}
      \/ k # Len(valNodes) /\ load(k + 1)
  BY DEF Record
<1>7. k # Len(valNodes) => k + 1 \in DOMAIN valNodes
  BY Indices DEF Inv, Types
<1>8. PartlyReached'
  BY <1>6, <1>7, LoadPartly DEF PartlyReached, searching
<1> QED
  BY <1>5, <1>8 DEF ConnectedInv

LEMMA ConnectedRipUp ==
  ASSUME Inv, ConnectedInv, RipUp
  PROVE  ConnectedInv'
<1>1. l_mapping' = [l_mapping EXCEPT ![val] = {}] /\ l_placement' = l_placement
  BY DEF RipUp, Become, ripUpOpVal, State, call
<1>2. l_mapping \in [Vals -> SUBSET Nodes]
  BY DEF Inv, Consistent, State
<1>3. \A v \in Vals : l_mapping'[v] # {} => l_mapping[v] # {} /\ l_mapping'[v] = l_mapping[v]
  BY <1>1, <1>2
<1>4. RecordedIsConnected'
  BY <1>1, <1>3 DEF RecordedIsConnected, ConnectedInv
<1>5. PartlyReached'
  BY LoadPartly DEF RipUp, Inv, Types
<1> QED
  BY <1>4, <1>5 DEF ConnectedInv

LEMMA ConnectedNext ==
  ASSUME Inv, ConnectedInv, [Next]_vars
  PROVE  ConnectedInv'
<1>1. ASSUME NEW placed \in Placements, Start(placed)
      PROVE  ConnectedInv'
  <2>1. l_mapping' = Unrouted
    BY <1>1 DEF Start, routing, Inv, Routed
  <2>2. load(1) /\ 1 \in DOMAIN valNodes
    BY <1>1, Indices DEF Start
  <2> QED
    BY <2>1, <2>2, UnroutedConnected, LoadPartly DEF ConnectedInv
<1>2. CASE MissSink \/ Succeed
  BY <1>2, RecordedStays DEF MissSink, Succeed, ConnectedInv, PartlyReached, searching, routing, call
<1>3. CASE GiveUp
  BY <1>3, UnroutedConnected DEF GiveUp, ConnectedInv, PartlyReached, searching
<1>4. CASE Stopped \/ UNCHANGED vars
  <2>1. UNCHANGED vars
    BY <1>4 DEF Stopped
  <2>2. RecordedIsConnected'
    BY <2>1, RecordedStays DEF vars, ConnectedInv
  <2>3. PartlyReached'
    BY <2>1 DEF vars, ConnectedInv, PartlyReached, searching, val, Reached
  <2> QED
    BY <2>2, <2>3 DEF ConnectedInv
<1> QED
  BY <1>1, <1>2, <1>3, <1>4, ConnectedReachSink, ConnectedRecord, ConnectedRipUp DEF Next

(* Whatever paths the searches find, and however often values are ripped   *)
(* up and routed again, a recorded route leads to every sink of its value. *)
THEOREM RoutesConnect == Spec => []RecordedIsConnected
<1>1. Init => ConnectedInv
  BY DEF Init, ConnectedInv, RecordedIsConnected, PartlyReached, searching, Unrouted
<1>2. Inv /\ ConnectedInv /\ [Next]_vars => ConnectedInv'
  BY ConnectedNext
<1>3. ConnectedInv => RecordedIsConnected
  BY DEF ConnectedInv
<1> QED
  BY <1>1, <1>2, <1>3, Invariance, PTL DEF Spec
=============================================================================
