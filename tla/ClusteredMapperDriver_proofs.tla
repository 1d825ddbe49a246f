--------------------- MODULE ClusteredMapperDriver_proofs ---------------------
(***************************************************************************)
(* The clusters, their index and the operations of the graph agree through *)
(* every retry, insertion and restart, the placer is given all of the      *)
(* graph, and insertions keep the dataflow; the work queue misses no       *)
(* operation, and every retry excludes one more pair unless the graph has  *)
(* a loop.  For any dataflow graph, any fabric, any number of insertions   *)
(* and any outcome of the searches for paths and ports.                    *)
(***************************************************************************)
EXTENDS ClusteredMapperDriver, FiniteSetTheorems, SequenceTheorems, WellFoundedInduction, TLAPS

(* The clusters and the visited operations are started afresh before the   *)
(* work loop is entered, and inside it the visited ones are exactly those  *)
(* in a cluster, which are the ones a new cluster must not take.           *)
ClusterInv ==
  /\ IsFiniteSet(ops)
  /\ l_clusters \in Seq(Seq(ops))
  /\ IndexNamesCluster
  /\ phase \in {"start", "call", "rescheduled"} => l_clusters = <<>> /\ visited = {}
  /\ phase = "pack" => visited = Packed

(* A sequence of all elements of a set, each once.                         *)
LEMMA Order ==
  ASSUME NEW S, IsFiniteSet(S), NEW s \in SetToSeqs(S)
  PROVE  /\ s \in Seq(S) /\ ToSet(s) = S
         /\ \A p, q \in DOMAIN s : p # q => s[p] # s[q]
<1> DEFINE n == Cardinality(S)
<1>1. n \in Nat
  BY FS_CardinalityType
<1>2. s \in [1 .. n -> S] /\ \A p, q \in 1 .. n : p # q => s[p] # s[q]
  BY DEF SetToSeqs
<1>3. s \in Seq(S) /\ DOMAIN s = 1 .. n
  BY <1>1, <1>2, SeqDef
<1>4. s \in Injection(1 .. n, S)
  BY <1>2 DEF Injection, IsInjective
<1>5. Cardinality(1 .. n) = n
  BY <1>1, FS_Interval
<1>6. s \in Surjection(1 .. n, S)
  BY <1>4, <1>5, FS_Injection
<1>7. \A x \in S : \E i \in 1 .. n : s[i] = x
  BY <1>6 DEF Surjection
<1> QED BY <1>2, <1>3, <1>7 DEF ToSet

(* A cluster that was grown holds operations of the graph that are in no   *)
(* other cluster, each once.                                               *)
LEMMA Fresh ==
  ASSUME IsFiniteSet(ops), NEW op, NEW s \in max_used_ops(op)
  PROVE  /\ s \in Seq(ops) /\ ToSet(s) \subseteq ops /\ ToSet(s) \cap visited = {}
         /\ \A p, q \in DOMAIN s : p # q => s[p] # s[q]
<1>1. PICK m \in modules_to_map_op(op) : s \in Grown(op, m)
  BY DEF max_used_ops
<1>2. PICK S \in ClusterSets(op, m) : s \in SetToSeqs(S)
  BY <1>1 DEF Grown
<1>3. S \subseteq ops /\ S \cap visited = {}
  BY DEF ClusterSets
<1>4. IsFiniteSet(S)
  BY <1>3, FS_Subset
<1>5. /\ s \in Seq(S) /\ ToSet(s) = S
      /\ \A p, q \in DOMAIN s : p # q => s[p] # s[q]
  BY <1>2, <1>4, Order
<1>6. s \in Seq(ops)
  BY <1>3, <1>5, SeqMonotonic
<1> QED BY <1>3, <1>5, <1>6

LEMMA InitClusters == DriverInit => ClusterInv
<1> SUFFICES ASSUME DriverInit PROVE ClusterInv
  OBVIOUS
<1>1. IsFiniteSet(ops)
  <2> DEFINE f == [n \in Names |-> Original(n)]
  <2>1. ops = {Original(n) : n \in Names}
    BY DEF DriverInit, Init
  <2>2. f \in Surjection(Names, ops)
    BY <2>1 DEF Surjection
  <2> QED BY <2>2, FS_Surjection, NamesAssumption
<1>2. l_clusters = <<>> /\ visited = {} /\ phase = "start"
  BY DEF DriverInit, Init
<1>3. l_clusters \in Seq(Seq(ops))
  BY <1>2
<1>4. IndexNamesCluster
  BY <1>2 DEF IndexNamesCluster
<1> QED BY <1>1, <1>2, <1>3, <1>4 DEF ClusterInv

(* Keeping a cluster.                                                      *)
LEMMA KeepClusters ==
  ASSUME ClusterInv, phase = "pack", NEW op, NEW s \in max_used_ops(op), Keep(s)
  PROVE  ClusterInv' /\ Packed' = Packed \cup ToSet(s)
<1>1. /\ l_clusters' = Append(l_clusters, s) /\ visited' = visited \cup ToSet(s)
      /\ l_op_cluster_index' =
           [x \in DOMAIN l_op_cluster_index \cup ToSet(s) |->
              IF x \in ToSet(s) THEN Len(l_clusters) + 1 ELSE l_op_cluster_index[x]]
      /\ ops' = ops /\ phase' = phase
  BY DEF Keep, VisitedWith, graph_vars
<1>2. /\ s \in Seq(ops) /\ ToSet(s) \subseteq ops /\ ToSet(s) \cap visited = {}
      /\ \A p, q \in DOMAIN s : p # q => s[p] # s[q]
  BY Fresh DEF ClusterInv
<1>3. l_clusters \in Seq(Seq(ops)) /\ IndexNamesCluster /\ visited = Packed
  BY DEF ClusterInv
<1> DEFINE n == Len(l_clusters)
<1>4. /\ l_clusters' \in Seq(Seq(ops)) /\ n \in Nat
      /\ DOMAIN l_clusters = 1 .. n /\ DOMAIN l_clusters' = 1 .. n + 1
      /\ \A i \in 1 .. n : l_clusters'[i] = l_clusters[i]
      /\ l_clusters'[n + 1] = s
  BY <1>1, <1>2, <1>3, AppendProperties, LenProperties
<1>5. Packed' = Packed \cup ToSet(s)
  <2>1. \A k \in 1 .. n + 1 : k \in 1 .. n \/ k = n + 1
    BY <1>4
  <2>2. n + 1 \in 1 .. n + 1 /\ 1 .. n \subseteq 1 .. n + 1
    BY <1>4
  <2>3. Packed = UNION {ToSet(l_clusters[k]) : k \in 1 .. n}
    BY <1>4 DEF Packed
  <2>4. Packed' = UNION {ToSet(l_clusters'[k]) : k \in 1 .. n + 1}
    BY <1>4 DEF Packed, ToSet
  <2>5. ASSUME NEW x \in Packed' PROVE x \in Packed \cup ToSet(s)
    <3>1. PICK k \in 1 .. n + 1 : x \in ToSet(l_clusters'[k])
      BY <2>4, <2>5
    <3> QED BY <1>4, <2>1, <2>3, <3>1
  <2>6. ASSUME NEW x \in Packed PROVE x \in Packed'
    <3>1. PICK k \in 1 .. n : x \in ToSet(l_clusters[k])
      BY <2>3, <2>6
    <3> QED BY <1>4, <2>2, <2>4, <3>1
  <2>7. ToSet(s) \subseteq Packed'
    BY <1>4, <2>2, <2>4
  <2> QED BY <2>5, <2>6, <2>7
<1>6. IndexNamesCluster'
  <2> SUFFICES ASSUME NEW k \in 1 .. n + 1
               PROVE  /\ \A p, q \in DOMAIN l_clusters'[k] :
                           p # q => l_clusters'[k][p] # l_clusters'[k][q]
                      /\ \A x \in ToSet(l_clusters'[k]) :
                           /\ x \in ops' /\ x \in DOMAIN l_op_cluster_index'
                           /\ l_op_cluster_index'[x] = k
    BY <1>4 DEF IndexNamesCluster, ToSet
  <2>1. CASE k = n + 1
    BY <1>1, <1>2, <1>4, <2>1
  <2>2. CASE k \in 1 .. n
    <3>1. /\ \A p, q \in DOMAIN l_clusters[k] : p # q => l_clusters[k][p] # l_clusters[k][q]
          /\ \A x \in ToSet(l_clusters[k]) :
               x \in ops /\ x \in DOMAIN l_op_cluster_index /\ l_op_cluster_index[x] = k
      BY <1>3, <1>4, <2>2 DEF IndexNamesCluster
    <3>2. ToSet(l_clusters[k]) \cap ToSet(s) = {}
      BY <1>2, <1>3, <1>4, <2>2 DEF Packed
    <3> QED BY <1>1, <1>4, <2>2, <3>1, <3>2
  <2> QED BY <1>4, <2>1, <2>2
<1>7. visited' = Packed'
  BY <1>1, <1>3, <1>5
<1> QED BY <1>1, <1>4, <1>5, <1>6, <1>7 DEF ClusterInv

(* Without clustering, each operation is a cluster.                        *)
LEMMA SingleClusters ==
  ASSUME ClusterInv, createSingleOpClusters
  PROVE  ClusterInv' /\ Packed' = ops'
<1>1. PICK order \in SetToSeqs(ops) :
        /\ l_clusters' = [k \in DOMAIN order |-> <<order[k]>>]
        /\ l_op_cluster_index' = [op \in ops |-> CHOOSE k \in DOMAIN order : order[k] = op]
  BY DEF createSingleOpClusters
<1>2. ops' = ops /\ phase' = "place"
  BY DEF createSingleOpClusters, graph_vars
<1>3. /\ order \in Seq(ops) /\ ToSet(order) = ops
      /\ \A p, q \in DOMAIN order : p # q => order[p] # order[q]
  BY Order DEF ClusterInv
<1>4. Len(order) \in Nat /\ DOMAIN order = 1 .. Len(order) /\ \A k \in DOMAIN order : order[k] \in ops
  BY <1>3, LenProperties
<1>5. \A k \in DOMAIN order : /\ l_clusters'[k] = <<order[k]>> /\ <<order[k]>> \in Seq(ops)
                              /\ DOMAIN l_clusters'[k] = {1} /\ ToSet(l_clusters'[k]) = {order[k]}
  BY <1>1, <1>4 DEF ToSet
<1>6. l_clusters' \in Seq(Seq(ops)) /\ DOMAIN l_clusters' = DOMAIN order
  BY <1>1, <1>4, <1>5, SeqDef
<1>7. \A k \in DOMAIN order : l_op_cluster_index'[order[k]] = k
  BY <1>1, <1>3, <1>4
<1>8. IndexNamesCluster'
  BY <1>1, <1>2, <1>4, <1>5, <1>6, <1>7 DEF IndexNamesCluster, ToSet
<1>9. Packed' = ops
  <2>1. Packed' = UNION {ToSet(l_clusters'[k]) : k \in DOMAIN order}
    BY <1>6 DEF Packed, ToSet
  <2>2. ops = {order[k] : k \in DOMAIN order}
    BY <1>3 DEF ToSet
  <2>3. ASSUME NEW x \in Packed' PROVE x \in ops
    <3>1. PICK k \in DOMAIN order : x \in ToSet(l_clusters'[k])
      BY <2>1, <2>3
    <3> QED BY <1>4, <1>5, <3>1
  <2>4. ASSUME NEW x \in ops PROVE x \in Packed'
    <3>1. PICK k \in DOMAIN order : x = order[k]
      BY <2>2, <2>4
    <3>2. x \in ToSet(l_clusters'[k])
      BY <1>5, <3>1
    <3> QED BY <2>1, <3>2
  <2> QED BY <2>3, <2>4
<1> QED BY <1>2, <1>6, <1>8, <1>9 DEF ClusterInv

(* The steps that leave clusters, index and operations as they are.        *)
Parts == <<ops, visited, l_clusters, l_op_cluster_index>>

LEMMA PartsKept ==
  ASSUME ClusterInv, UNCHANGED Parts
  PROVE  /\ IsFiniteSet(ops') /\ l_clusters' \in Seq(Seq(ops')) /\ IndexNamesCluster'
         /\ Packed' = Packed /\ visited' = visited /\ l_clusters' = l_clusters
         /\ ops' = ops
<1>1. ops' = ops /\ l_clusters' = l_clusters /\ l_op_cluster_index' = l_op_cluster_index
      /\ visited' = visited
  BY DEF Parts
<1>2. Packed' = Packed
  BY <1>1 DEF Packed, ToSet
<1>3. IndexNamesCluster'
  BY <1>1 DEF ClusterInv, IndexNamesCluster, ToSet
<1> QED BY <1>1, <1>2, <1>3 DEF ClusterInv

(* What the placer is given, and that an insertion is on record when the   *)
(* clustering stops for it.                                                *)
GraphInv == WholeGraphPlaced /\ (phase = "rescheduled" => l_reschedule)

DriverInv == ClusterInv /\ GraphInv

LEMMA PhaseMoves ==
  ASSUME DriverInv, UNCHANGED Parts, l_isElastic' = l_isElastic, l_reschedule' = l_reschedule,
         \/ phase' = phase
         \/ phase' \in {"error", "missing", "timeout", "failed"}
         \/ phase = "start" /\ phase' = "call"
         \/ phase = "rescheduled" /\ phase' = (IF l_isElastic THEN "place" ELSE "call")
         \/ phase = "place" /\ phase' = "iterate"
         \/ phase = "iterate" /\ phase' = "success" /\ Placeable
         \/ phase = "pack" /\ phase' = "place" /\ ops \subseteq visited
  PROVE  DriverInv'
<1>1. /\ IsFiniteSet(ops') /\ l_clusters' \in Seq(Seq(ops')) /\ IndexNamesCluster'
      /\ Packed' = Packed /\ visited' = visited /\ l_clusters' = l_clusters
      /\ ops' = ops
  BY PartsKept DEF DriverInv
<1>2. ClusterInv'
  BY <1>1 DEF DriverInv, ClusterInv
<1>3. Packed \subseteq ops
  BY DEF DriverInv, ClusterInv, IndexNamesCluster, Packed
<1>4. /\ phase \in {"place", "iterate", "success"} =>
           Packed = ops \/ (l_isElastic /\ l_reschedule /\ l_clusters = <<>> /\ phase # "success")
      /\ phase = "rescheduled" => l_reschedule /\ l_clusters = <<>>
      /\ phase = "pack" => visited = Packed
  BY DEF DriverInv, GraphInv, WholeGraphPlaced, ClusterInv
<1>5. GraphInv'
  BY <1>1, <1>3, <1>4 DEF GraphInv, WholeGraphPlaced, Placeable
<1> QED BY <1>2, <1>5 DEF DriverInv

LEMMA RestartClusters ==
  ASSUME DriverInv, NEW source, NEW sink, Restart(source, sink)
  PROVE  DriverInv'
<1>1. /\ l_clusters' = <<>> /\ visited' = {} /\ phase' = "rescheduled" /\ l_reschedule' = TRUE
      /\ ops' = ops \cup {Clone(source)}
  BY DEF Restart
<1>2. IsFiniteSet(ops')
  BY <1>1, FS_AddElement DEF DriverInv, ClusterInv
<1>3. IndexNamesCluster'
  BY <1>1 DEF IndexNamesCluster
<1>4. l_clusters' \in Seq(Seq(ops'))
  BY <1>1
<1> QED BY <1>1, <1>2, <1>3, <1>4 DEF DriverInv, ClusterInv, GraphInv, WholeGraphPlaced

LEMMA PackClusters == ASSUME DriverInv, Pack PROVE DriverInv'
<1>1. phase = "pack"
  BY DEF Pack, Unpacked, Working
<1>2. PICK s \in max_used_ops(Head(operations)) :
        Keep(s) \/ SplitPorts(s) \/ SplitPair(s) \/ Resolve(s) \/ Unroutable(s)
  BY DEF Pack
<1>3. CASE Keep(s)
  <2>1. phase' = "pack"
    BY <1>1, <1>3 DEF Keep
  <2> QED BY <1>1, <1>3, <2>1, KeepClusters DEF DriverInv, GraphInv, WholeGraphPlaced
<1>4. CASE SplitPorts(s) \/ SplitPair(s)
  BY <1>4, PhaseMoves DEF SplitPorts, SplitPair, Retry, graph_vars, Parts
<1>5. CASE Resolve(s)
  <2>1. CASE \E source, sink \in ops : Restart(source, sink)
    BY <2>1, RestartClusters
  <2>2. CASE ops' = ops /\ Error("unresolved")
    BY <2>2, PhaseMoves DEF Error, Parts
  <2> QED BY <1>5, <2>1, <2>2 DEF Resolve
<1>6. CASE Unroutable(s)
  BY <1>6, PhaseMoves DEF Unroutable, Error, Parts
<1> QED BY <1>2, <1>3, <1>4, <1>5, <1>6

LEMMA StepClusters == ASSUME DriverInv, [DriverNext]_driver_vars PROVE DriverInv'
<1>1. CASE Check
  BY <1>1, PhaseMoves DEF Check, graph_vars, pack_vars, Parts
<1>2. CASE createSingleOpClusters
  <2>1. phase' = "place"
    BY <1>2 DEF createSingleOpClusters
  <2> QED BY <1>2, <2>1, SingleClusters DEF DriverInv, GraphInv, WholeGraphPlaced
<1>3. CASE Start
  <2>1. UNCHANGED Parts /\ phase = "call" /\ phase' = "pack"
    BY <1>3 DEF Start, graph_vars, Parts
  <2>2. /\ IsFiniteSet(ops') /\ l_clusters' \in Seq(Seq(ops')) /\ IndexNamesCluster'
        /\ Packed' = Packed /\ visited' = visited
    BY <2>1, PartsKept DEF DriverInv
  <2>3. visited = {} /\ Packed = {}
    BY <2>1 DEF DriverInv, ClusterInv, Packed
  <2> QED BY <2>1, <2>2, <2>3 DEF DriverInv, ClusterInv, GraphInv, WholeGraphPlaced
<1>4. CASE Skip
  BY <1>4, PhaseMoves DEF Skip, graph_vars, Parts
<1>5. CASE Unsupported
  BY <1>5, PhaseMoves DEF Unsupported, Error, Parts
<1>6. CASE Finish
  BY <1>6, PhaseMoves DEF Finish, graph_vars, pack_vars, Parts
<1>7. CASE Reschedule
  BY <1>7, PhaseMoves DEF Reschedule, graph_vars, pack_vars, Parts
<1>8. CASE setInitialPlacement
  BY <1>8, PhaseMoves DEF setInitialPlacement, graph_vars, pack_vars, Parts
<1>9. CASE PlaceAndRoute
  BY <1>9, PhaseMoves DEF PlaceAndRoute, graph_vars, pack_vars, Parts
<1>10. CASE Timeout \/ GiveUp
  BY <1>10, PhaseMoves DEF Timeout, GiveUp, graph_vars, pack_vars, Parts
<1>11. CASE UNCHANGED driver_vars
  BY <1>11, PhaseMoves DEF driver_vars, vars, graph_vars, pack_vars, Parts
<1> QED
  BY <1>1, <1>2, <1>3, <1>4, <1>5, <1>6, <1>7, <1>8, <1>9, <1>10, <1>11, PackClusters
  DEF DriverNext, Packing, ClusterPEs

LEMMA ClusterInvariance == DriverSpec => []DriverInv
<1>1. DriverInit => DriverInv
  BY InitClusters DEF DriverInit, Init, DriverInv, GraphInv, WholeGraphPlaced
<1> QED BY <1>1, StepClusters, PTL DEF DriverSpec

(* Clusters are disjoint and indexed, at every moment.                     *)
THEOREM ClustersIndexed == DriverSpec => []IndexNamesCluster
<1>1. DriverInv => IndexNamesCluster
  BY DEF DriverInv, ClusterInv
<1> QED BY <1>1, ClusterInvariance, PTL

(* The placer starts from clusters of the whole graph, except on an elastic*)
(* fabric after an insertion.                                              *)
THEOREM PlacerGetsGraph == DriverSpec => []WholeGraphPlaced
<1>1. DriverInv => WholeGraphPlaced
  BY DEF DriverInv, GraphInv
<1> QED BY <1>1, ClusterInvariance, PTL

-----------------------------------------------------------------------------
(* The dataflow.                                                           *)
NamesOf(S) == {x[1] : x \in S}
FedLike(n) == {e[1] : e \in {e \in dfg : e[2] = n}}

FlowInv ==
  phase # "error" =>
    /\ flow \subseteq ops \X ops
    /\ \A y \in ops : /\ NamesOf(Sources(y)) = FedLike(y[1])
                      /\ \A x1, x2 \in Sources(y) : x1[1] = x2[1] => x1 = x2

LEMMA InitFlow == DriverInit => FlowInv
<1> SUFFICES ASSUME DriverInit PROVE FlowInv
  OBVIOUS
<1>1. /\ ops = {Original(n) : n \in Names} /\ dfg \subseteq Names \X Names
      /\ flow = {<<Original(e[1]), Original(e[2])>> : e \in dfg}
  BY FlowsAssumption DEF DriverInit, Init
<1>2. flow \subseteq ops \X ops
  BY <1>1
<1>3. \A a, b \in Names : <<Original(a), Original(b)>> \in flow <=> <<a, b>> \in dfg
  <2> SUFFICES ASSUME NEW a \in Names, NEW b \in Names
               PROVE  <<Original(a), Original(b)>> \in flow <=> <<a, b>> \in dfg
    OBVIOUS
  <2>1. ASSUME <<Original(a), Original(b)>> \in flow PROVE <<a, b>> \in dfg
    <3>1. PICK e \in dfg : <<Original(a), Original(b)>> = <<Original(e[1]), Original(e[2])>>
      BY <1>1, <2>1
    <3>2. a = e[1] /\ b = e[2]
      BY <3>1 DEF Original
    <3> QED BY <1>1, <3>2
  <2>2. ASSUME <<a, b>> \in dfg PROVE <<Original(a), Original(b)>> \in flow
    BY <1>1, <2>2
  <2> QED BY <2>1, <2>2
<1>4. ASSUME NEW y \in ops PROVE NamesOf(Sources(y)) = FedLike(y[1])
  <2>1. PICK n \in Names : y = Original(n) /\ y[1] = n
    BY <1>1 DEF Original
  <2>2. ASSUME NEW a \in NamesOf(Sources(y)) PROVE a \in FedLike(n)
    <3>1. PICK x \in ops : <<x, y>> \in flow /\ a = x[1]
      BY <2>2 DEF NamesOf, Sources
    <3>2. PICK m \in Names : x = Original(m) /\ x[1] = m
      BY <1>1, <3>1 DEF Original
    <3>3. <<m, n>> \in dfg
      BY <1>3, <2>1, <3>1, <3>2
    <3> QED BY <3>1, <3>2, <3>3 DEF FedLike
  <2>3. ASSUME NEW a \in FedLike(n) PROVE a \in NamesOf(Sources(y))
    <3>1. PICK e \in dfg : e[2] = n /\ a = e[1]
      BY <2>3 DEF FedLike
    <3>2. a \in Names /\ <<a, n>> \in dfg
      BY <1>1, <3>1
    <3>3. <<Original(a), y>> \in flow /\ Original(a) \in ops
      BY <1>1, <1>3, <2>1, <3>2
    <3>4. Original(a)[1] = a
      BY DEF Original
    <3> QED BY <3>3, <3>4 DEF NamesOf, Sources
  <2> QED BY <2>1, <2>2, <2>3
<1>5. \A x1, x2 \in ops : x1[1] = x2[1] => x1 = x2
  BY <1>1 DEF Original
<1> QED BY <1>2, <1>4, <1>5 DEF FlowInv, Sources

LEMMA RestartFlow ==
  ASSUME FlowInv, phase # "error", NEW s, NEW source \in ops, NEW sink \in ops,
         NoPort(s, source, sink), CanClone(source), Restart(source, sink)
  PROVE  FlowInv'
<1> DEFINE C == Clone(source)
<1>1. /\ flow' = (flow \ {<<source, sink>>}) \cup {<<C, sink>>} \cup {<<x, C>> : x \in Sources(source)}
      /\ ops' = ops \cup {C} /\ dfg' = dfg
  BY DEF Restart, FlowWithClone
<1>2. source \in Sources(sink) /\ source # sink
  BY DEF NoPort, SharedInput, SharedOutput, InputOps, OutputOps, Outer, Sinks, Sources
<1>3. C \notin ops /\ C[1] = source[1]
  BY DEF CanClone, Clone
<1>4. /\ flow \subseteq ops \X ops
      /\ \A y \in ops : /\ NamesOf(Sources(y)) = FedLike(y[1])
                        /\ \A x1, x2 \in Sources(y) : x1[1] = x2[1] => x1 = x2
  BY DEF FlowInv
<1> HIDE DEF C
<1>5. /\ flow' \subseteq ops' \X ops'
      /\ \A x, y : <<x, y>> \in flow' <=>
           \/ <<x, y>> \in flow /\ ~(x = source /\ y = sink)
           \/ x = C /\ y = sink
           \/ y = C /\ x \in Sources(source)
  <2>1. Sources(source) \subseteq ops
    BY DEF Sources
  <2>2. {<<x, C>> : x \in Sources(source)} \subseteq ops' \X ops'
    BY <1>1, <2>1
  <2>3. flow' \subseteq ops' \X ops'
    BY <1>1, <1>4, <2>2
  <2> QED BY <1>1, <2>3
<1>6. Sources(C)' = Sources(source)
  <2>1. Sources(C)' = {x \in ops' : <<x, C>> \in flow'}
    BY <1>1, <1>3 DEF Sources, C, Clone
  <2>2. \A x : <<x, C>> \in flow' <=> x \in Sources(source)
    BY <1>3, <1>4, <1>5
  <2>3. Sources(source) \subseteq ops'
    BY <1>1 DEF Sources
  <2> QED BY <2>1, <2>2, <2>3
<1>7. Sources(sink)' = (Sources(sink) \ {source}) \cup {C}
  <2>1. Sources(sink)' = {x \in ops' : <<x, sink>> \in flow'}
    BY DEF Sources
  <2>2. \A x : <<x, sink>> \in flow' <=> (<<x, sink>> \in flow /\ x # source) \/ x = C
    BY <1>3, <1>5
  <2>3. \A x : x \in Sources(sink) <=> <<x, sink>> \in flow
    BY <1>4 DEF Sources
  <2> QED BY <1>1, <1>4, <2>1, <2>2, <2>3
<1>8. ASSUME NEW y \in ops, y # sink PROVE Sources(y)' = Sources(y)
  <2>1. Sources(y)' = {x \in ops' : <<x, y>> \in flow'}
    BY DEF Sources
  <2>2. \A x : <<x, y>> \in flow' <=> <<x, y>> \in flow
    BY <1>3, <1>5, <1>8
  <2>3. Sources(y) = {x \in ops : <<x, y>> \in flow} /\ \A x : <<x, y>> \in flow => x \in ops
    BY <1>4 DEF Sources
  <2>4. ops \subseteq ops'
    BY <1>1
  <2> QED BY <2>1, <2>2, <2>3, <2>4
<1>9. \A n : FedLike(n)' = FedLike(n)
  BY <1>1 DEF FedLike
<1>10. \A S : NamesOf(S)' = NamesOf(S)
  BY DEF NamesOf
<1>11. NamesOf((Sources(sink) \ {source}) \cup {C}) = NamesOf(Sources(sink))
  BY <1>2, <1>3 DEF NamesOf
<1>12. \A x1, x2 \in (Sources(sink) \ {source}) \cup {C} : x1[1] = x2[1] => x1 = x2
  BY <1>2, <1>3, <1>4
<1>13. ASSUME NEW y \in ops'
       PROVE  /\ NamesOf(Sources(y)') = FedLike(y[1])
              /\ \A x1, x2 \in Sources(y)' : x1[1] = x2[1] => x1 = x2
  <2>1. CASE y = C
    BY <1>3, <1>4, <1>6, <2>1
  <2>2. CASE y = sink
    BY <1>4, <1>7, <1>11, <1>12, <2>2
  <2>3. CASE y \in ops /\ y # sink
    BY <1>4, <1>8, <2>3
  <2> QED BY <1>1, <2>1, <2>2, <2>3
<1> QED BY <1>5, <1>13, <1>1 DEF FlowInv, NamesOf, FedLike

LEMMA StepFlow == ASSUME FlowInv, [DriverNext]_driver_vars PROVE FlowInv'
<1>1. ASSUME UNCHANGED <<dfg, ops, flow>>, phase' # "error" => phase # "error"
      PROVE  FlowInv'
  BY <1>1 DEF FlowInv, NamesOf, FedLike, Sources
<1>2. ASSUME phase' = "error" PROVE FlowInv'
  BY <1>2 DEF FlowInv
<1>3. CASE Check \/ Reschedule \/ setInitialPlacement \/ PlaceAndRoute \/ Timeout \/ GiveUp
  BY <1>1, <1>3 DEF Check, Reschedule, setInitialPlacement, PlaceAndRoute, Timeout, GiveUp, graph_vars
<1>4. CASE createSingleOpClusters \/ Start \/ Skip \/ Finish
  BY <1>1, <1>4 DEF createSingleOpClusters, Start, Skip, Working, Finish, graph_vars
<1>5. CASE Unsupported
  BY <1>2, <1>5 DEF Unsupported, Error
<1>6. CASE Pack
  <2>1. PICK s \in max_used_ops(Head(operations)) :
          Keep(s) \/ SplitPorts(s) \/ SplitPair(s) \/ Resolve(s) \/ Unroutable(s)
    BY <1>6 DEF Pack
  <2>2. phase # "error"
    BY <1>6 DEF Pack, Unpacked, Working
  <2>3. CASE Keep(s) \/ SplitPorts(s) \/ SplitPair(s)
    BY <1>1, <2>2, <2>3 DEF Keep, SplitPorts, SplitPair, Retry, graph_vars
  <2>4. CASE Resolve(s)
    <3>1. PICK source \in ops, sink \in ops :
            /\ NoPort(s, source, sink)
            /\ (CanClone(source) /\ Restart(source, sink)) \/ Error("unresolved")
      BY <2>4 DEF Resolve
    <3> QED BY <1>2, <2>2, <3>1, RestartFlow DEF Error
  <2>5. CASE Unroutable(s)
    BY <1>2, <2>5 DEF Unroutable, Error
  <2> QED BY <2>1, <2>3, <2>4, <2>5
<1>7. CASE UNCHANGED driver_vars
  BY <1>1, <1>7 DEF driver_vars, vars, graph_vars
<1> QED
  BY <1>3, <1>4, <1>5, <1>6, <1>7 DEF DriverNext, Packing, ClusterPEs

(* Every operation, clones included, keeps the inputs of its original,     *)
(* each from one operation, unless the mapping has failed.                 *)
THEOREM InsertionsKeepDataflow == DriverSpec => []CloneKeepsDataflow
<1>1. FlowInv => CloneKeepsDataflow
  BY DEF FlowInv, CloneKeepsDataflow, NamesOf, FedLike
<1> QED BY <1>1, InitFlow, StepFlow, PTL DEF DriverSpec
-----------------------------------------------------------------------------
(* Induction, as the existence of a least counterexample.                  *)
LEMMA LeastNat ==
  ASSUME NEW T, T \subseteq Nat, T # {}
  PROVE  \E n \in T : \A m \in T : n <= m
<1> DEFINE R == {p \in Nat \X Nat : p[1] < p[2]}
<1>1. IsWellFoundedOn(R, Nat)
  BY NatLessThanWellFounded DEF OpToRel
<1> HIDE DEF R
<1>2. PICK n \in T : \A m \in T : ~(<<m, n>> \in R)
  BY <1>1, WFMin
<1>3. \A m \in T : m \in Nat /\ n \in Nat /\ ~(m < n)
  BY <1>2 DEF R
<1> QED BY <1>3

(* The recursion of FlattenSeq, up to its n-th sequence.                   *)
Flattens(f, seqs, n) == f = [i \in 1 .. n |-> IF i = 1 THEN seqs[i] ELSE f[i - 1] \o seqs[i]]

(* The equation of FlattenSeq's recursion has a solution.                  *)
LEMMA Flattened ==
  ASSUME NEW seqs, NEW m \in Nat
  PROVE  \E f : f = [i \in 1 .. m |-> IF i = 1 THEN seqs[i] ELSE f[i - 1] \o seqs[i]]
<1> DEFINE Solves(f, k) == f = [i \in 1 .. k |-> IF i = 1 THEN seqs[i] ELSE f[i - 1] \o seqs[i]]
           T == {k \in Nat : ~ \E f : Solves(f, k)}
<1> SUFFICES ASSUME T # {} PROVE FALSE
  <2>1. \A k \in Nat : k \notin T => \E f : Solves(f, k)
    OBVIOUS
  <2> HIDE DEF T
  <2> QED BY <2>1
<1>1. PICK k \in T : \A j \in T : k <= j
  <2> HIDE DEF T
  <2>1. T \subseteq Nat
    BY DEF T
  <2> QED BY <2>1, LeastNat
<1>2. k # 0
  <2>1. Solves([i \in {} |-> i], 0)
    OBVIOUS
  <2> QED BY <2>1
<1>3. k \in Nat /\ k - 1 \in Nat /\ k - 1 \notin T
  <2>1. k \in Nat
    OBVIOUS
  <2> HIDE DEF T
  <2> QED BY <1>1, <1>2, <2>1
<1>4. PICK g : Solves(g, k - 1)
  BY <1>3
<1> DEFINE h == [i \in 1 .. k |-> IF i = k THEN (IF i = 1 THEN seqs[i] ELSE g[i - 1] \o seqs[i]) ELSE g[i]]
<1>6. Solves(h, k)
  <2>1. ASSUME NEW i \in 1 .. k
        PROVE  h[i] = IF i = 1 THEN seqs[i] ELSE h[i - 1] \o seqs[i]
    <3>1. CASE i = k
      <4>1. i # 1 => i - 1 \in 1 .. k /\ i - 1 # k
        BY <1>3
      <4> QED BY <3>1, <4>1
    <3>2. CASE i # k
      <4>1. i \in 1 .. k - 1 /\ (i # 1 => i - 1 \in 1 .. k - 1) /\ (i # 1 => i - 1 \in 1 .. k /\ i - 1 # k)
        BY <1>3, <3>2
      <4>2. g[i] = IF i = 1 THEN seqs[i] ELSE g[i - 1] \o seqs[i]
        BY <1>4, <4>1
      <4> QED BY <3>2, <4>1, <4>2
    <3> QED BY <3>1, <3>2
  <2> HIDE DEF h
  <2>2. h = [i \in 1 .. k |-> h[i]]
    BY DEF h
  <2> QED BY <2>1, <2>2
<1> QED BY <1>1, <1>6

(* The elements of a concatenation.                                        *)
LEMMA Joined ==
  ASSUME NEW S, NEW a \in Seq(S), NEW b \in Seq(S)
  PROVE  a \o b \in Seq(S) /\ ToSet(a \o b) = ToSet(a) \cup ToSet(b)
<1>1. /\ a \o b \in Seq(S) /\ Len(a \o b) = Len(a) + Len(b)
      /\ \A i \in 1 .. Len(a) + Len(b) :
           (a \o b)[i] = IF i <= Len(a) THEN a[i] ELSE b[i - Len(a)]
  BY ConcatProperties
<1>2. /\ Len(a) \in Nat /\ Len(b) \in Nat
      /\ DOMAIN a = 1 .. Len(a) /\ DOMAIN b = 1 .. Len(b) /\ DOMAIN (a \o b) = 1 .. Len(a) + Len(b)
  BY <1>1, LenProperties
<1> DEFINE c == a \o b
<1> HIDE DEF c
<1>3. ASSUME NEW x \in ToSet(c) PROVE x \in ToSet(a) \cup ToSet(b)
  <2>1. PICK i \in 1 .. Len(a) + Len(b) : x = c[i]
    BY <1>2, <1>3 DEF ToSet, c
  <2>2. CASE i <= Len(a)
    BY <1>1, <1>2, <2>1, <2>2 DEF ToSet, c
  <2>3. CASE ~(i <= Len(a))
    <3>1. i - Len(a) \in 1 .. Len(b)
      BY <1>2, <2>3
    <3> QED BY <1>1, <1>2, <2>1, <2>3, <3>1 DEF ToSet, c
  <2> QED BY <2>2, <2>3
<1>4. ASSUME NEW i \in 1 .. Len(a) PROVE a[i] \in ToSet(c)
  <2>1. i \in 1 .. Len(a) + Len(b) /\ i <= Len(a)
    BY <1>2
  <2> QED BY <1>1, <1>2, <2>1 DEF ToSet, c
<1>5. ASSUME NEW i \in 1 .. Len(b) PROVE b[i] \in ToSet(c)
  <2>1. /\ Len(a) + i \in 1 .. Len(a) + Len(b) /\ ~(Len(a) + i <= Len(a))
        /\ Len(a) + i - Len(a) = i
    BY <1>2
  <2> QED BY <1>1, <1>2, <2>1 DEF ToSet, c
<1>6. ToSet(c) = ToSet(a) \cup ToSet(b)
  BY <1>2, <1>3, <1>4, <1>5 DEF ToSet
<1> QED BY <1>1, <1>6 DEF c

(* What it yields holds the elements of all the sequences.                 *)
LEMMA FlattenedSet ==
  ASSUME NEW S, NEW n \in Nat \ {0}, NEW seqs \in [1 .. n -> Seq(S)], NEW f,
         Flattens(f, seqs, n)
  PROVE  f[n] \in Seq(S) /\ ToSet(f[n]) = UNION {ToSet(seqs[k]) : k \in 1 .. n}
<1> DEFINE Good(k) == f[k] \in Seq(S) /\ ToSet(f[k]) = UNION {ToSet(seqs[j]) : j \in 1 .. k}
           T == {k \in 1 .. n : ~ Good(k)}
<1>4. f[1] = seqs[1] /\ \A i \in 1 .. n : i # 1 => f[i] = f[i - 1] \o seqs[i]
  <2>1. \A i \in 1 .. n : f[i] = IF i = 1 THEN seqs[i] ELSE f[i - 1] \o seqs[i]
    BY DEF Flattens
  <2>2. 1 \in 1 .. n
    OBVIOUS
  <2> QED BY <2>1, <2>2
<1> SUFFICES ASSUME T # {} PROVE FALSE
  <2>1. n \in 1 .. n
    OBVIOUS
  <2> QED BY <2>1
<1>1. PICK k \in T : \A j \in T : k <= j
  <2>1. T \subseteq Nat
    OBVIOUS
  <2> HIDE DEF T
  <2> QED BY <2>1, LeastNat
<1>2. k \in 1 .. n /\ ~ Good(k)
  OBVIOUS
<1>3. k # 1
  <2>1. 1 .. 1 = {1}
    OBVIOUS
  <2>5. 1 \in 1 .. n
    OBVIOUS
  <2>2. seqs[1] \in Seq(S) /\ f[1] = seqs[1]
    BY <1>4, <2>5
  <2>3. (UNION {ToSet(seqs[j]) : j \in 1 .. 1}) = ToSet(seqs[1])
    BY ONLY <2>1
  <2>4. Good(1)
    BY ONLY <2>2, <2>3
  <2> HIDE DEF Good
  <2> QED BY <1>2, <2>4
<1>5. k - 1 \in 1 .. n /\ k - 1 \notin T
  <2> HIDE DEF T
  <2> QED BY <1>1, <1>2, <1>3
<1>6. Good(k - 1)
  BY <1>5
<1>7. f[k] = f[k - 1] \o seqs[k] /\ seqs[k] \in Seq(S)
  BY <1>2, <1>3, <1>4
<1>8. f[k] \in Seq(S) /\ ToSet(f[k]) = ToSet(f[k - 1]) \cup ToSet(seqs[k])
  <2>1. f[k - 1] \in Seq(S)
    BY <1>6
  <2> DEFINE a == f[k - 1]
             b == seqs[k]
  <2>2. a \in Seq(S) /\ b \in Seq(S) /\ f[k] = a \o b
    BY <1>7, <2>1
  <2> HIDE DEF a, b
  <2>3. f[k] \in Seq(S) /\ ToSet(a \o b) = ToSet(a) \cup ToSet(b)
    BY ONLY <2>2, Joined
  <2> QED BY ONLY <2>2, <2>3 DEF a, b
<1>9. 1 .. k = (1 .. k - 1) \cup {k}
  BY <1>2
<1>10. (UNION {ToSet(seqs[j]) : j \in 1 .. k})
         = (UNION {ToSet(seqs[j]) : j \in 1 .. k - 1}) \cup ToSet(seqs[k])
  BY ONLY <1>9
<1>11. Good(k)
  BY ONLY <1>6, <1>8, <1>10
<1> QED BY ONLY <1>2, <1>11

(* FlattenSeq holds the elements of the sequences it is given.             *)
LEMMA FlattenSeqSet ==
  ASSUME NEW S, NEW n \in Nat \ {0}, NEW seqs \in [1 .. n -> Seq(S)]
  PROVE  FlattenSeq(seqs) \in Seq(S) /\ ToSet(FlattenSeq(seqs)) = UNION {ToSet(seqs[k]) : k \in 1 .. n}
<1>1. PICK f : /\ f = CHOOSE g : g = [i \in 1 .. n |-> IF i = 1 THEN seqs[i] ELSE g[i - 1] \o seqs[i]]
  OBVIOUS
<1>2. Flattens(f, seqs, n)
  <2>1. \E g : g = [i \in 1 .. n |-> IF i = 1 THEN seqs[i] ELSE g[i - 1] \o seqs[i]]
    BY Flattened
  <2> QED BY <1>1, <2>1 DEF Flattens
<1>3. seqs \in Seq(Seq(S)) /\ Len(seqs) = n
  BY SeqDef, LenProperties
<1>4. FlattenSeq(seqs) = f[n]
  BY <1>1, <1>3 DEF FlattenSeq
<1>5. f[n] \in Seq(S) /\ ToSet(f[n]) = UNION {ToSet(seqs[k]) : k \in 1 .. n}
  BY <1>2, FlattenedSet
<1> QED BY <1>4, <1>5

(* SetToSeq chooses a sequence of all elements of a finite set.            *)
LEMMA SomeOrder ==
  ASSUME NEW S, IsFiniteSet(S)
  PROVE  SetToSeq(S) \in Seq(S) /\ ToSet(SetToSeq(S)) = S
<1> DEFINE n == Cardinality(S)
<1>1. n \in Nat
  BY FS_CardinalityType
<1>2. PICK k \in Nat : ExistsBijection(1 .. k, S)
  BY FS_NatBijection
<1>3. k = n
  BY <1>2, FS_CountingElements
<1>4. \E f \in [1 .. n -> S] : IsInjective(f)
  BY <1>2, <1>3 DEF ExistsBijection, Bijection, Injection
<1>5. SetToSeq(S) \in [1 .. n -> S] /\ IsInjective(SetToSeq(S))
  BY <1>4 DEF SetToSeq
<1>6. SetToSeq(S) \in SetToSeqs(S)
  BY <1>5 DEF SetToSeqs, IsInjective
<1> QED BY <1>6, Order

-----------------------------------------------------------------------------
(* The work queue.  Every operation that has to be packed is visited, in   *)
(* the queue, or fed by one that is.                                       *)
Reached == visited \cup ToSet(operations)

QueueInv ==
  phase = "pack" =>
    /\ operations \in Seq(ops)
    /\ FirstOps \subseteq Reached
    /\ \A x \in visited : Sinks(x) \subseteq Reached

(* A cluster starts with the operation it is grown from.                   *)
LEMMA FirstOfCluster ==
  ASSUME IsFiniteSet(ops), NEW op, NEW s \in max_used_ops(op)
  PROVE  s \in Seq(ops) /\ Len(s) \in Nat \ {0} /\ s[1] = op
<1>1. PICK m \in modules_to_map_op(op) : s \in Grown(op, m)
  BY DEF max_used_ops
<1>2. s[1] = op
  BY <1>1 DEF Grown
<1>3. PICK S \in ClusterSets(op, m) : s \in SetToSeqs(S)
  BY <1>1 DEF Grown
<1>4. IsFiniteSet(S) /\ op \in S
  BY <1>3, FS_Subset DEF ClusterSets
<1>5. s \in Seq(S) /\ ToSet(s) = S
  BY <1>3, <1>4, Order
<1>6. s \in Seq(ops)
  BY Fresh
<1>7. Len(s) \in Nat /\ DOMAIN s = 1 .. Len(s)
  BY <1>5, LenProperties
<1>8. Len(s) # 0
  BY <1>4, <1>5, <1>7 DEF ToSet
<1> QED BY <1>2, <1>6, <1>7, <1>8

(* The head of a sequence and the rest.                                    *)
LEMMA HeadAndRest ==
  ASSUME NEW S, NEW q \in Seq(S), q # <<>>
  PROVE  /\ Head(q) \in S /\ Tail(q) \in Seq(S)
         /\ ToSet(q) = {Head(q)} \cup ToSet(Tail(q))
<1>1. /\ Head(q) \in S /\ Tail(q) \in Seq(S) /\ Len(Tail(q)) = Len(q) - 1 /\ Head(q) = q[1]
      /\ \A i \in 1 .. Len(Tail(q)) : Tail(q)[i] = q[i + 1]
  BY HeadTailProperties
<1>2. Len(q) \in Nat \ {0} /\ DOMAIN q = 1 .. Len(q) /\ DOMAIN Tail(q) = 1 .. Len(q) - 1
  BY <1>1, LenProperties, EmptySeq
<1> DEFINE t == Tail(q)
<1> HIDE DEF t
<1>3. ASSUME NEW i \in 1 .. Len(q), i # 1 PROVE q[i] \in ToSet(t)
  <2>1. i - 1 \in 1 .. Len(q) - 1 /\ (i - 1) + 1 = i
    BY <1>2, <1>3
  <2>2. t[i - 1] = q[i] /\ DOMAIN t = 1 .. Len(q) - 1
    BY <1>1, <1>2, <2>1 DEF t
  <2> QED BY <2>1, <2>2 DEF ToSet
<1>4. ASSUME NEW i \in 1 .. Len(q) - 1 PROVE t[i] \in ToSet(q)
  <2>1. i + 1 \in 1 .. Len(q) /\ t[i] = q[i + 1]
    BY <1>1, <1>2 DEF t
  <2> QED BY <1>2, <2>1 DEF ToSet
<1>5. 1 \in 1 .. Len(q) /\ Head(q) = q[1] /\ DOMAIN t = 1 .. Len(q) - 1
  BY <1>1, <1>2 DEF t
<1>6. ToSet(q) = {Head(q)} \cup ToSet(t)
  BY <1>2, <1>3, <1>4, <1>5 DEF ToSet
<1> QED BY <1>1, <1>6 DEF t

(* What Keep appends to the queue.                                         *)
LEMMA KeepQueue ==
  ASSUME IsFiniteSet(ops), phase = "pack", QueueInv, operations # <<>>,
         NEW s \in max_used_ops(Head(operations)), Keep(s)
  PROVE  QueueInv'
<1> DEFINE n == Len(s)
           seqs == [k \in DOMAIN s |-> SinksOf(s[k])]
           rest == Tail(operations)
<1>1. s \in Seq(ops) /\ n \in Nat \ {0} /\ s[1] = Head(operations) /\ DOMAIN s = 1 .. n
  BY FirstOfCluster, LenProperties
<1>2. /\ operations \in Seq(ops) /\ FirstOps \subseteq Reached
      /\ \A x \in visited : Sinks(x) \subseteq Reached
  BY DEF QueueInv
<1>3. rest \in Seq(ops) /\ ToSet(operations) = {s[1]} \cup ToSet(rest)
  BY <1>1, <1>2, HeadAndRest
<1>4. \A x : SinksOf(x) \in Seq(ops) /\ ToSet(SinksOf(x)) = Sinks(x)
  <2> SUFFICES ASSUME NEW x PROVE SinksOf(x) \in Seq(ops) /\ ToSet(SinksOf(x)) = Sinks(x)
    OBVIOUS
  <2>1. Sinks(x) \subseteq ops
    BY DEF Sinks
  <2>2. IsFiniteSet(Sinks(x))
    BY <2>1, FS_Subset
  <2> QED BY <2>1, <2>2, SomeOrder, SeqMonotonic DEF SinksOf
<1>5. seqs \in [1 .. n -> Seq(ops)]
  BY <1>1, <1>4
<1> HIDE DEF n, seqs, rest
<1>6. /\ FlattenSeq(seqs) \in Seq(ops)
      /\ ToSet(FlattenSeq(seqs)) = UNION {ToSet(seqs[k]) : k \in 1 .. n}
  BY <1>1, <1>5, FlattenSeqSet
<1>7. \A k \in 1 .. n : ToSet(seqs[k]) = Sinks(s[k])
  BY <1>1, <1>4 DEF seqs
<1>8. \A x \in ToSet(s) : Sinks(x) \subseteq ToSet(FlattenSeq(seqs))
  <2> SUFFICES ASSUME NEW k \in 1 .. n PROVE Sinks(s[k]) \subseteq ToSet(FlattenSeq(seqs))
    BY <1>1 DEF ToSet
  <2> QED BY <1>6, <1>7
<1> DEFINE a == SinksOf(Head(operations))
           b == FlattenSeq(seqs)
<1>9. a \in Seq(ops) /\ b \in Seq(ops)
  BY <1>4, <1>6
<1>10. operations' = rest \o a \o b
  BY DEF Keep, seqs, rest
<1> HIDE DEF a, b
<1>11. rest \o a \in Seq(ops) /\ ToSet(rest \o a) = ToSet(rest) \cup ToSet(a)
  BY <1>3, <1>9, Joined
<1>12. operations' \in Seq(ops) /\ ToSet(operations') = ToSet(rest) \cup ToSet(a) \cup ToSet(b)
  <2> DEFINE c == rest \o a
  <2>1. operations' = c \o b /\ c \in Seq(ops) /\ ToSet(c) = ToSet(rest) \cup ToSet(a)
    BY <1>10, <1>11
  <2> HIDE DEF c
  <2>2. c \o b \in Seq(ops) /\ ToSet(c \o b) = ToSet(c) \cup ToSet(b)
    BY <1>9, <2>1, Joined
  <2> QED BY <2>1, <2>2
<1>13. visited' = visited \cup ToSet(s) /\ ops' = ops /\ flow' = flow
  BY DEF Keep, VisitedWith, graph_vars
<1>14. s[1] \in ToSet(s)
  BY <1>1 DEF ToSet
<1>15. Reached \subseteq Reached' /\ ToSet(b) \subseteq Reached'
  <2>1. Reached' = visited \cup ToSet(s) \cup ToSet(rest) \cup ToSet(a) \cup ToSet(b)
    BY <1>12, <1>13 DEF Reached, ToSet
  <2> QED BY <1>3, <1>14, <2>1 DEF Reached
<1>16. FirstOps' = FirstOps /\ \A x : Sinks(x)' = Sinks(x)
  BY <1>13 DEF FirstOps, Sinks, Sources
<1>17. \A x \in visited' : Sinks(x) \subseteq Reached'
  BY <1>2, <1>8, <1>13, <1>15 DEF b
<1> QED BY <1>2, <1>12, <1>13, <1>15, <1>16, <1>17 DEF QueueInv

(* An operation that is put back stays in the queue.                       *)
LEMMA RetryKeepsQueue ==
  ASSUME phase = "pack", QueueInv, operations # <<>>, NEW pairs, NEW what, Retry(pairs, what)
  PROVE  QueueInv'
<1>1. operations' = Append(Tail(operations), Head(operations)) /\ UNCHANGED <<visited, ops, flow>>
  BY DEF Retry, RetryQueue, graph_vars
<1>2. operations \in Seq(ops)
  BY DEF QueueInv
<1>3. /\ Head(operations) \in ops /\ Tail(operations) \in Seq(ops)
      /\ ToSet(operations) = {Head(operations)} \cup ToSet(Tail(operations))
  BY <1>2, HeadAndRest
<1> DEFINE t == Tail(operations)
           h == Head(operations)
<1> HIDE DEF t, h
<1>4. t \in Seq(ops) /\ h \in ops /\ operations' = t \o <<h>>
  BY <1>1, <1>3 DEF t, h
<1> DEFINE u == <<h>>
<1>5. u \in Seq(ops) /\ ToSet(u) = {h}
  BY <1>4 DEF ToSet
<1>6. operations' \in Seq(ops) /\ ToSet(operations') = ToSet(t) \cup {h}
  <2>1. operations' = t \o u
    BY <1>4
  <2> HIDE DEF u
  <2>2. t \o u \in Seq(ops) /\ ToSet(t \o u) = ToSet(t) \cup ToSet(u)
    BY <1>4, <1>5, Joined
  <2> QED BY <1>5, <2>1, <2>2
<1>7. Reached' = Reached
  BY <1>1, <1>3, <1>6 DEF Reached, t, h, ToSet
<1>8. FirstOps' = FirstOps /\ \A x : Sinks(x)' = Sinks(x)
  BY <1>1 DEF FirstOps, Sinks, Sources
<1> QED BY <1>1, <1>6, <1>7, <1>8 DEF QueueInv

LEMMA StepQueue ==
  ASSUME DriverInv, QueueInv, [DriverNext]_driver_vars
  PROVE  QueueInv'
<1>1. ASSUME phase' # "pack" PROVE QueueInv'
  BY <1>1 DEF QueueInv
<1>2. ASSUME UNCHANGED <<phase, operations, visited, ops, flow>> PROVE QueueInv'
  BY <1>2 DEF QueueInv, Reached, FirstOps, Sinks, Sources, ToSet
<1>3. CASE Start
  <2>1. IsFiniteSet(ops) /\ visited = {}
    BY <1>3 DEF Start, DriverInv, ClusterInv
  <2>2. UNCHANGED <<ops, flow, visited>> /\ operations' \in SetToSeqs(FirstOps)
    BY <1>3 DEF Start, graph_vars
  <2>3. IsFiniteSet(FirstOps) /\ FirstOps \subseteq ops
    BY <2>1, FS_Subset DEF FirstOps
  <2>4. operations' \in Seq(FirstOps) /\ ToSet(operations') = FirstOps
    BY <2>2, <2>3, Order
  <2>5. operations' \in Seq(ops)
    BY <2>3, <2>4, SeqMonotonic
  <2>6. FirstOps' = FirstOps
    BY <2>2 DEF FirstOps, Sources
  <2>7. Reached' = FirstOps /\ visited' = {}
    BY <2>1, <2>2, <2>4 DEF Reached, ToSet
  <2> QED BY <2>2, <2>5, <2>6, <2>7 DEF QueueInv
<1>4. CASE Skip
  <2>1. /\ phase = "pack" /\ operations # <<>> /\ Head(operations) \in visited
        /\ operations' = Tail(operations) /\ UNCHANGED <<phase, visited, ops, flow>>
    BY <1>4 DEF Skip, Working, graph_vars
  <2>2. operations \in Seq(ops)
    BY <2>1 DEF QueueInv
  <2>3. operations' \in Seq(ops) /\ ToSet(operations) = {Head(operations)} \cup ToSet(operations')
    BY <2>1, <2>2, HeadAndRest
  <2>4. Reached' = Reached
    BY <2>1, <2>3 DEF Reached, ToSet
  <2>5. FirstOps' = FirstOps /\ \A x : Sinks(x)' = Sinks(x)
    BY <2>1 DEF FirstOps, Sinks, Sources
  <2> QED BY <2>1, <2>3, <2>4, <2>5 DEF QueueInv
<1>5. CASE Pack
  <2>1. phase = "pack" /\ operations # <<>>
    BY <1>5 DEF Pack, Unpacked, Working
  <2>2. PICK s \in max_used_ops(Head(operations)) :
          Keep(s) \/ SplitPorts(s) \/ SplitPair(s) \/ Resolve(s) \/ Unroutable(s)
    BY <1>5 DEF Pack
  <2>3. CASE Keep(s)
    BY <2>1, <2>2, <2>3, KeepQueue DEF DriverInv, ClusterInv
  <2>4. CASE SplitPorts(s) \/ SplitPair(s)
    BY <2>1, <2>4, RetryKeepsQueue DEF SplitPorts, SplitPair
  <2>5. CASE Resolve(s) \/ Unroutable(s)
    <3>1. phase' = "error" \/ phase' = "rescheduled"
      BY <2>5 DEF Resolve, Unroutable, Error, Restart
    <3> QED BY <1>1, <3>1
  <2> QED BY <2>2, <2>3, <2>4, <2>5
<1>6. CASE Check \/ createSingleOpClusters \/ Unsupported \/ Finish \/ Reschedule
           \/ setInitialPlacement \/ PlaceAndRoute \/ Timeout \/ GiveUp
  BY <1>1, <1>6
  DEF Check, createSingleOpClusters, Unsupported, Error, Finish, Reschedule, setInitialPlacement,
      PlaceAndRoute, Timeout, GiveUp
<1>7. CASE UNCHANGED driver_vars
  BY <1>2, <1>7 DEF driver_vars, vars, graph_vars, pack_vars
<1> QED
  BY <1>3, <1>4, <1>5, <1>6, <1>7 DEF DriverNext, Packing, ClusterPEs

(* Among the operations of one name, clones of each other, only the        *)
(* original feeds any, itself or another: the clone that would be inserted *)
(* between two of them is there already.                                   *)
OriginInv ==
  /\ dfg \in Flows
  /\ phase # "error" =>
       /\ ops \subseteq Names \X Nat
       /\ \A y \in ops : y[2] > 0 => <<y[1], 1>> \in ops
       /\ \A x, y \in ops : <<x, y>> \in flow /\ x[1] = y[1] => x = Original(y[1])

LEMMA RestartOrigin ==
  ASSUME FlowInv, OriginInv, phase # "error", NEW s, NEW source \in ops, NEW sink \in ops,
         NoPort(s, source, sink), CanClone(source), Restart(source, sink)
  PROVE  OriginInv'
<1> DEFINE C == Clone(source)
<1>1. /\ flow' = (flow \ {<<source, sink>>}) \cup {<<C, sink>>} \cup {<<x, C>> : x \in Sources(source)}
      /\ ops' = ops \cup {C} /\ dfg' = dfg
  BY DEF Restart, FlowWithClone
<1>2. source \in Sources(sink) /\ source # sink
  BY DEF NoPort, SharedInput, SharedOutput, InputOps, OutputOps, Outer, Sinks, Sources
<1>3. /\ dfg \in Flows /\ ops \subseteq Names \X Nat
      /\ \A y \in ops : y[2] > 0 => <<y[1], 1>> \in ops
      /\ \A x, y \in ops : <<x, y>> \in flow /\ x[1] = y[1] => x = Original(y[1])
      /\ flow \subseteq ops \X ops
  BY DEF OriginInv, FlowInv
<1>4. /\ source[1] \in Names /\ source[2] \in Nat /\ source = <<source[1], source[2]>>
      /\ sink[1] \in Names /\ sink[2] \in Nat /\ sink = <<sink[1], sink[2]>>
  BY <1>3
<1>5. /\ C = <<source[1], source[2] + 1>> /\ C \in Names \X Nat /\ C \notin ops
      /\ C[1] = source[1] /\ C[2] = source[2] + 1
  BY <1>4 DEF Clone, CanClone
<1> HIDE DEF C
<1>6. ops' \subseteq Names \X Nat
  BY <1>1, <1>3, <1>5
<1>7. ASSUME NEW y \in ops', y[2] > 0 PROVE <<y[1], 1>> \in ops'
  <2>1. CASE y \in ops
    BY <1>1, <1>3, <1>7, <2>1
  <2>2. CASE y = C /\ source[2] = 0
    BY <1>1, <1>5, <2>2
  <2>3. CASE y = C /\ source[2] # 0
    <3>1. source[2] > 0
      BY <1>4, <2>3
    <3> QED BY <1>1, <1>3, <1>5, <2>3, <3>1
  <2> QED BY <1>1, <2>1, <2>2, <2>3
<1>8. ~(C[1] = sink[1])
  <2> SUFFICES ASSUME C[1] = sink[1] PROVE FALSE
    OBVIOUS
  <2>1. source = <<sink[1], 0>>
    BY <1>2, <1>3, <1>5 DEF Sources, Original
  <2>2. source[2] = 0 /\ C = <<sink[1], 1>>
    BY <1>4, <1>5, <2>1
  <2>3. sink[2] > 0
    BY <1>2, <1>4, <2>1
  <2> QED BY <1>3, <1>5, <2>2, <2>3
<1>9. ASSUME NEW x \in ops', NEW y \in ops', <<x, y>> \in flow', x[1] = y[1]
      PROVE  x = Original(y[1])
  <2>1. CASE <<x, y>> \in flow
    BY <1>3, <1>9, <2>1
  <2>2. CASE <<x, y>> = <<C, sink>>
    BY <1>8, <1>9, <2>2
  <2>3. CASE y = C /\ x \in Sources(source)
    BY <1>3, <1>5, <1>9, <2>3 DEF Sources
  <2> QED BY <1>1, <1>9, <2>1, <2>2, <2>3
<1> QED BY <1>1, <1>3, <1>6, <1>7, <1>9 DEF OriginInv

LEMMA InitOrigin == DriverInit => OriginInv
<1> SUFFICES ASSUME DriverInit PROVE OriginInv
  OBVIOUS
<1>1. dfg \in Flows /\ ops = {Original(n) : n \in Names}
  BY DEF DriverInit, Init
<1>2. \A y \in ops : y \in Names \X Nat /\ y[2] = 0 /\ y = Original(y[1])
  BY <1>1 DEF Original
<1> QED BY <1>1, <1>2 DEF OriginInv

LEMMA StepOrigin == ASSUME FlowInv, OriginInv, [DriverNext]_driver_vars PROVE OriginInv'
<1>1. ASSUME UNCHANGED <<dfg, ops, flow>>, phase' # "error" => phase # "error"
      PROVE  OriginInv'
  BY <1>1 DEF OriginInv
<1>2. ASSUME phase' = "error", dfg' = dfg PROVE OriginInv'
  BY <1>2 DEF OriginInv
<1>3. CASE Check \/ Reschedule \/ setInitialPlacement \/ PlaceAndRoute \/ Timeout \/ GiveUp
  BY <1>1, <1>3 DEF Check, Reschedule, setInitialPlacement, PlaceAndRoute, Timeout, GiveUp, graph_vars
<1>4. CASE createSingleOpClusters \/ Start \/ Skip \/ Finish
  BY <1>1, <1>4 DEF createSingleOpClusters, Start, Skip, Working, Finish, graph_vars
<1>5. CASE Unsupported
  BY <1>2, <1>5 DEF Unsupported, Error
<1>6. CASE Pack
  <2>1. PICK s \in max_used_ops(Head(operations)) :
          Keep(s) \/ SplitPorts(s) \/ SplitPair(s) \/ Resolve(s) \/ Unroutable(s)
    BY <1>6 DEF Pack
  <2>2. phase # "error"
    BY <1>6 DEF Pack, Unpacked, Working
  <2>3. CASE Keep(s) \/ SplitPorts(s) \/ SplitPair(s)
    BY <1>1, <2>2, <2>3 DEF Keep, SplitPorts, SplitPair, Retry, graph_vars
  <2>4. CASE Resolve(s)
    <3>1. PICK source \in ops, sink \in ops :
            /\ NoPort(s, source, sink)
            /\ (CanClone(source) /\ Restart(source, sink)) \/ Error("unresolved")
      BY <2>4 DEF Resolve
    <3> QED BY <1>2, <2>2, <3>1, RestartOrigin DEF Error
  <2>5. CASE Unroutable(s)
    BY <1>2, <2>5 DEF Unroutable, Error
  <2> QED BY <2>1, <2>3, <2>4, <2>5
<1>7. CASE UNCHANGED driver_vars
  BY <1>1, <1>7 DEF driver_vars, vars, graph_vars
<1> QED
  BY <1>3, <1>4, <1>5, <1>6, <1>7 DEF DriverNext, Packing, ClusterPEs

(* When the queue is empty, every operation has been visited: the first    *)
(* ones, and what is fed by a visited one.                                 *)
LEMMA AllVisited ==
  ASSUME QueueInv, FlowInv, OriginInv, phase = "pack", operations = <<>>
  PROVE  ops \subseteq visited
<1>1. Reached = visited
  BY DEF Reached, ToSet
<1>2. FirstOps \subseteq visited /\ \A x \in visited : Sinks(x) \subseteq visited
  BY <1>1 DEF QueueInv
<1>3. /\ flow \subseteq ops \X ops /\ ops \subseteq Names \X Nat
      /\ \A y \in ops : NamesOf(Sources(y)) = FedLike(y[1])
      /\ \A x, y \in ops : <<x, y>> \in flow /\ x[1] = y[1] => x = Original(y[1])
  BY DEF FlowInv, OriginInv
<1> DEFINE S == {n \in Names : \A y \in ops : y[1] = n => y \in visited}
<1>4. ASSUME NEW n \in Names, \A e \in dfg : e[2] = n => e[1] = n PROVE n \in S
  <2> SUFFICES ASSUME NEW y \in ops, y[1] = n PROVE y \in visited
    OBVIOUS
  <2>1. ASSUME NEW z \in ops, z[1] = n, NEW x \in Sources(z) PROVE x = Original(n)
    <3>1. x[1] \in FedLike(n)
      BY <1>3, <2>1 DEF NamesOf
    <3>2. x[1] = n
      BY <1>4, <3>1 DEF FedLike
    <3> QED BY <1>3, <2>1, <3>2 DEF Sources
  <2>2. CASE Sources(y) \subseteq {y}
    BY <1>2, <2>2 DEF FirstOps
  <2>3. CASE ~(Sources(y) \subseteq {y})
    <3>1. Original(n) \in Sources(y)
      BY <2>1, <2>3
    <3>2. Original(n) \in ops /\ Original(n)[1] = n /\ y \in Sinks(Original(n))
      BY <3>1 DEF Sources, Sinks, Original
    <3>3. Original(n) \in FirstOps
      BY <2>1, <3>2 DEF FirstOps
    <3> QED BY <1>2, <3>2, <3>3
  <2> QED BY <2>2, <2>3
<1>5. ASSUME NEW e \in dfg, e[1] \in S, e[2] \in Names PROVE e[2] \in S
  <2>1. ASSUME NEW y \in ops, y[1] = e[2] PROVE y \in visited
    <3>1. e[1] \in NamesOf(Sources(y))
      BY <1>3, <2>1 DEF FedLike
    <3>2. PICK x \in Sources(y) : x[1] = e[1]
      BY <3>1 DEF NamesOf
    <3>3. x \in visited /\ y \in Sinks(x)
      BY <1>5, <3>2 DEF Sources, Sinks
    <3> QED BY <1>2, <3>3
  <2> QED BY <1>5, <2>1
<1>6. dfg \subseteq Names \X Names /\ Fed(dfg)
  BY FlowsAssumption DEF OriginInv
<1> HIDE DEF S
<1>7. S \in SUBSET Names
  BY DEF S
<1>8. S = Names
  BY <1>4, <1>5, <1>6, <1>7 DEF Fed
<1>9. \A n \in Names, y \in ops : y[1] = n => y \in visited
  BY <1>8 DEF S
<1> QED BY <1>3, <1>9

(* No operation is missing when the work queue is empty, however often     *)
(* operations were put back or taken into the cluster of another.          *)
THEOREM NothingMissed == DriverSpec => []NoOpMissed
<1> DEFINE Inv == DriverInv /\ QueueInv /\ FlowInv /\ OriginInv /\ NoOpMissed
<1>1. DriverInit => Inv
  <2>1. ASSUME DriverInit PROVE DriverInv
    BY <2>1, InitClusters DEF DriverInit, Init, DriverInv, GraphInv, WholeGraphPlaced
  <2>2. ASSUME DriverInit PROVE QueueInv /\ NoOpMissed
    BY <2>2 DEF DriverInit, Init, QueueInv, NoOpMissed
  <2> QED BY <2>1, <2>2, InitFlow, InitOrigin
<1>2. Inv /\ [DriverNext]_driver_vars => Inv'
  <2> SUFFICES ASSUME Inv, [DriverNext]_driver_vars PROVE NoOpMissed'
    BY StepClusters, StepQueue, StepFlow, StepOrigin
  <2>1. CASE Finish
    <3>1. ops \subseteq visited
      BY <2>1, AllVisited DEF Finish
    <3> QED BY <2>1, <3>1 DEF Finish, NoOpMissed
  <2>2. CASE Check \/ Reschedule \/ setInitialPlacement \/ PlaceAndRoute \/ Timeout \/ GiveUp
    BY <2>2 DEF Check, Reschedule, setInitialPlacement, PlaceAndRoute, Timeout, GiveUp, NoOpMissed
  <2>3. CASE createSingleOpClusters \/ Start \/ Skip \/ Unsupported
    BY <2>3 DEF createSingleOpClusters, Start, Skip, Working, Unsupported, Error, NoOpMissed
  <2>4. CASE Pack
    <3>1. phase = "pack"
      BY <2>4 DEF Pack, Unpacked, Working
    <3> QED BY <2>4, <3>1
        DEF Pack, Keep, SplitPorts, SplitPair, Retry, Resolve, Restart, Unroutable, Error, NoOpMissed
  <2>5. CASE UNCHANGED driver_vars
    BY <2>5 DEF driver_vars, vars, NoOpMissed
  <2> QED BY <2>1, <2>2, <2>3, <2>4, <2>5 DEF DriverNext, Packing, ClusterPEs
<1>3. Inv => NoOpMissed
  OBVIOUS
<1> QED BY <1>1, <1>2, <1>3, PTL DEF DriverSpec

-----------------------------------------------------------------------------
(* A retry.  Two operations are linked while an edge between them is       *)
(* followed, one way or the other.                                         *)
Link(x, y) ==
  \/ <<x, y>> \in flow /\ <<x, y>> \notin l_ops_not_clustered
  \/ <<y, x>> \in flow /\ <<y, x>> \notin l_ops_not_clustered

(* No part of T is without a link to the rest of it.                       *)
Linked(T) ==
  \A U \in SUBSET T : U # {} /\ (\A x \in U, y \in T \ U : ~ Link(x, y)) => U = T

(* A cluster is grown along links.                                         *)
LEMMA GrownAlongLinks ==
  ASSUME IsFiniteSet(ops), NEW op, NEW s \in max_used_ops(op)
  PROVE  \A i \in DOMAIN s \ {1} : \E j \in 1 .. i - 1 : Link(s[j], s[i]) /\ s[j] \in ops
<1>1. PICK m \in modules_to_map_op(op) : s \in Grown(op, m)
  BY DEF max_used_ops
<1>2. \A i \in DOMAIN s \ {1} : \E j \in 1 .. i - 1 : s[i] \in NextOps(s[j])
  BY <1>1 DEF Grown
<1>3. s \in Seq(ops) /\ Len(s) \in Nat /\ DOMAIN s = 1 .. Len(s)
  BY Fresh, LenProperties
<1> SUFFICES ASSUME NEW i \in DOMAIN s \ {1}
             PROVE  \E j \in 1 .. i - 1 : Link(s[j], s[i]) /\ s[j] \in ops
  OBVIOUS
<1>4. PICK j \in 1 .. i - 1 : s[i] \in NextOps(s[j])
  BY <1>2
<1>5. Link(s[j], s[i])
  BY <1>4 DEF NextOps, Sinks, Sources, Link
<1>6. s[j] \in ops
  BY <1>3, <1>4
<1> QED BY <1>4, <1>5, <1>6

LEMMA ClusterLinked ==
  ASSUME IsFiniteSet(ops), NEW op, NEW s \in max_used_ops(op)
  PROVE  Linked(ToSet(s))
<1>1. s \in Seq(ops) /\ Len(s) \in Nat \ {0} /\ DOMAIN s = 1 .. Len(s)
  BY FirstOfCluster, LenProperties
<1>2. \A i \in DOMAIN s \ {1} : \E j \in 1 .. i - 1 : Link(s[j], s[i])
  BY GrownAlongLinks
<1> SUFFICES ASSUME NEW U \in SUBSET ToSet(s), U # {},
                    \A x \in U, y \in ToSet(s) \ U : ~ Link(x, y)
             PROVE  U = ToSet(s)
  BY DEF Linked
<1> DEFINE T == {i \in 1 .. Len(s) : (s[i] \in U) # (s[1] \in U)}
<1>3. T = {}
  <2> SUFFICES ASSUME T # {} PROVE FALSE
    OBVIOUS
  <2>1. T \subseteq Nat
    BY <1>1
  <2>2. PICK i \in T : \A k \in T : i <= k
    <3> HIDE DEF T
    <3> QED BY <2>1, LeastNat
  <2>3. i \in 1 .. Len(s) /\ i # 1 /\ (s[i] \in U) # (s[1] \in U)
    OBVIOUS
  <2>4. PICK j \in 1 .. i - 1 : Link(s[j], s[i])
    BY <1>1, <1>2, <2>3
  <2>5. j \in 1 .. Len(s) /\ j < i
    BY <1>1, <2>3
  <2>6. j \notin T
    <3> HIDE DEF T
    <3> QED BY <1>1, <2>1, <2>2, <2>3, <2>5
  <2>7. (s[j] \in U) # (s[i] \in U)
    BY <2>3, <2>5, <2>6
  <2>8. s[i] \in ToSet(s) /\ s[j] \in ToSet(s)
    BY <1>1, <2>3, <2>5 DEF ToSet
  <2>9. Link(s[i], s[j])
    BY <2>4 DEF Link
  <2> QED BY <2>4, <2>7, <2>8, <2>9
<1>4. \A i \in 1 .. Len(s) : (s[i] \in U) = (s[1] \in U)
  BY <1>3
<1>5. \A x \in ToSet(s) : \E i \in 1 .. Len(s) : x = s[i]
  BY <1>1 DEF ToSet
<1>6. s[1] \in U
  BY <1>4, <1>5
<1> QED BY <1>4, <1>5, <1>6

(* Too few ports: the operation that is to be clustered alone was reached  *)
(* along an edge, which is followed no more.                               *)
LEMMA PortsExcludeMore ==
  ASSUME IsFiniteSet(ops), NEW op, NEW s \in max_used_ops(op), ~ Unchecked(s),
         NEW c \in ToSet(s)
  PROVE  ~ (PairsOf(c) \subseteq l_ops_not_clustered)
<1>1. s \in Seq(ops) /\ Len(s) \in Nat \ {0} /\ DOMAIN s = 1 .. Len(s) /\ Len(s) # 1
  BY FirstOfCluster, LenProperties DEF Unchecked
<1>2. \A i \in DOMAIN s \ {1} : \E j \in 1 .. i - 1 : Link(s[j], s[i])
  BY GrownAlongLinks
<1>3. \E x \in ToSet(s) : Link(x, c)
  <2>1. PICK i \in DOMAIN s : c = s[i]
    BY DEF ToSet
  <2>2. CASE i # 1
    <3>1. PICK j \in 1 .. i - 1 : Link(s[j], s[i])
      BY <1>2, <2>2
    <3>2. j \in DOMAIN s
      BY <1>1, <2>1, <3>1
    <3> QED BY <2>1, <3>1, <3>2 DEF ToSet
  <2>3. CASE i = 1
    <3>1. 2 \in DOMAIN s \ {1}
      BY <1>1
    <3>2. PICK j \in 1 .. 2 - 1 : Link(s[j], s[2])
      BY <1>2, <3>1
    <3>3. j = 1
      OBVIOUS
    <3>4. Link(s[2], c)
      BY <2>1, <2>3, <3>2, <3>3 DEF Link
    <3> QED BY <3>1, <3>4 DEF ToSet
  <2> QED BY <2>2, <2>3
<1>4. ToSet(s) \subseteq ops
  BY Fresh
<1> QED BY <1>3, <1>4 DEF Link, PairsOf, Sinks, Sources

(* Of the sets that satisfy something, one has the fewest elements.        *)
LEMMA Smallest ==
  ASSUME NEW S, IsFiniteSet(S), NEW K, K \subseteq SUBSET S, K # {}
  PROVE  \E T \in K : \A R \in K : ~ (Cardinality(R) < Cardinality(T))
<1> DEFINE C == {Cardinality(T) : T \in K}
<1>1. \A T \in K : Cardinality(T) \in Nat
  BY FS_Subset, FS_CardinalityType
<1>2. C \subseteq Nat /\ C # {}
  BY <1>1
<1>3. PICK n \in C : \A m \in C : n <= m
  <2> HIDE DEF C
  <2> QED BY <1>2, LeastNat
<1>4. PICK T \in K : n = Cardinality(T)
  BY <1>3
<1>5. ASSUME NEW R \in K PROVE ~ (Cardinality(R) < Cardinality(T))
  <2>1. Cardinality(R) \in C
    OBVIOUS
  <2>2. Cardinality(T) <= Cardinality(R)
    BY <1>3, <1>4, <2>1
  <2> QED BY <1>1, <2>2
<1> QED BY <1>5

(* Taking out a single neighbour leaves the rest linked.                   *)
LEMMA LeafRemoved ==
  ASSUME NEW T \in SUBSET ops, Linked(T), NEW op \in T,
         \A a, b \in Neighbours(op) \cap T : a = b
  PROVE  Linked(T \ {op})
<1> SUFFICES ASSUME NEW U \in SUBSET (T \ {op}), U # {},
                    \A x \in U, y \in (T \ {op}) \ U : ~ Link(x, y)
             PROVE  U = T \ {op}
  BY DEF Linked
<1>1. \A x, y : Link(x, y) = Link(y, x)
  BY DEF Link
<1>2. \A x \in T : x # op /\ Link(op, x) => x \in Neighbours(op) \cap T
  BY DEF Link, Neighbours, Sinks, Sources
<1>3. CASE \E u \in U : Link(u, op)
  <2>1. PICK u \in U : Link(u, op)
    BY <1>3
  <2>2. ASSUME NEW y \in T \ (U \cup {op}) PROVE ~ Link(op, y)
    <3>1. y # u /\ y # op /\ u # op
      OBVIOUS
    <3> QED BY <1>1, <1>2, <2>1, <3>1
  <2>3. \A x \in U \cup {op}, y \in T \ (U \cup {op}) : ~ Link(x, y)
    BY <2>2
  <2> DEFINE V == U \cup {op}
  <2>4. V \in SUBSET T /\ V # {} /\ \A x \in V, y \in T \ V : ~ Link(x, y)
    BY <2>3
  <2> HIDE DEF V
  <2>5. V = T
    BY <2>4 DEF Linked
  <2> QED BY <2>5 DEF V
<1>4. CASE ~ \E u \in U : Link(u, op)
  <2>1. \A x \in U, y \in T \ U : ~ Link(x, y)
    BY <1>4
  <2>2. U = T
    BY <2>1 DEF Linked
  <2> QED BY <2>2
<1> QED BY <1>3, <1>4

LEMMA AtMostOne ==
  ASSUME NEW S, IsFiniteSet(S), Cardinality(S) <= 1
  PROVE  \A a, b \in S : a = b
<1>1. Cardinality(S) = 0 \/ Cardinality(S) = 1
  BY FS_CardinalityType
<1>2. S = {} \/ \E x : S = {x}
  BY <1>1, FS_EmptySet, FS_Singleton
<1> QED BY <1>2

(* An edge within a cluster that is not followed closes a loop, so a pair  *)
(* that is excluded once more shows that the graph is no forest.           *)
LEMMA PairClosesLoop ==
  ASSUME IsFiniteSet(ops), NEW op, NEW s \in max_used_ops(op),
         NEW e \in ConnectedOps(s), flow \subseteq ops \X ops,
         BothWays(e) \subseteq l_ops_not_clustered
  PROVE  ~ Forest
<1> DEFINE a == e[1]
           b == e[2]
           K == {T \in SUBSET ToSet(s) : a \in T /\ b \in T /\ Linked(T)}
<1>1. e = <<a, b>> /\ a # b /\ e \in flow /\ a \in ToSet(s) /\ b \in ToSet(s)
  BY DEF ConnectedOps
<1>2. ToSet(s) \subseteq ops /\ IsFiniteSet(ToSet(s))
  BY Fresh, FS_Subset
<1>3. ~ Link(a, b) /\ ~ Link(b, a)
  BY <1>1 DEF BothWays, Link
<1>4. ToSet(s) \in K
  BY <1>1, ClusterLinked
<1> HIDE DEF a, b
<1>5. PICK T \in K : \A R \in K : ~ (Cardinality(R) < Cardinality(T))
  <2>1. K \subseteq SUBSET ToSet(s) /\ K # {}
    BY <1>4
  <2> HIDE DEF K
  <2> QED BY <1>2, <2>1, Smallest
<1>6. T \in SUBSET ops /\ a \in T /\ b \in T /\ Linked(T) /\ IsFiniteSet(T)
  BY <1>2, FS_Subset
<1> SUFFICES ASSUME NEW x \in T, Cardinality(Neighbours(x) \cap T) <= 1 PROVE FALSE
  BY <1>6 DEF Forest
<1>7. IsFiniteSet(Neighbours(x) \cap T)
  BY <1>6, FS_Subset
<1>8. \A y, z \in Neighbours(x) \cap T : y = z
  BY <1>7, AtMostOne
<1>9. a \in Neighbours(b) /\ b \in Neighbours(a)
  BY <1>1, <1>6 DEF Neighbours, Sinks, Sources
<1>10. ASSUME NEW y \in T, y \in Neighbours(x), ~ Link(x, y) PROVE FALSE
  <2>1. y # x /\ y \in T \ {x}
    BY <1>10 DEF Neighbours
  <2> DEFINE V == {x}
  <2>2. V \in SUBSET T /\ V # T /\ V # {}
    BY <2>1
  <2> HIDE DEF V
  <2>5. PICK v \in V, z \in T \ V : Link(v, z)
    BY <1>6, <2>2 DEF Linked
  <2>3. z \in T \ {x} /\ Link(x, z)
    BY <2>5 DEF V
  <2>4. z \in Neighbours(x)
    BY <1>6, <2>3 DEF Link, Neighbours, Sinks, Sources
  <2> QED BY <1>8, <1>10, <2>3, <2>4
<1>11. CASE x = a
  BY <1>3, <1>6, <1>9, <1>10, <1>11
<1>12. CASE x = b
  BY <1>3, <1>6, <1>9, <1>10, <1>12
<1>13. CASE x # a /\ x # b
  <2>1. Linked(T \ {x})
    BY <1>6, <1>8, LeafRemoved
  <2>2. T \ {x} \in K
    BY <1>6, <1>13, <2>1
  <2>3. Cardinality(T \ {x}) = Cardinality(T) - 1 /\ Cardinality(T) \in Nat
    BY <1>6, FS_RemoveElement, FS_CardinalityType
  <2> HIDE DEF K
  <2>4. ~ (Cardinality(T \ {x}) < Cardinality(T))
    BY <1>5, <2>2
  <2> QED BY <2>3, <2>4
<1> QED BY <1>11, <1>12, <1>13

(* An operation that is put back leaves a pair behind that is no longer    *)
(* followed, unless the graph has a loop.                                  *)
RetryExcludes ==
  Unpacked /\ visited' = visited /\ phase' = phase =>
    l_ops_not_clustered' # l_ops_not_clustered \/ (verdict' = "pair" /\ ~ Forest)

LEMMA StepExcludes ==
  ASSUME DriverInv, FlowInv, DriverNext
  PROVE  RetryExcludes
<1> SUFFICES ASSUME Unpacked, visited' = visited, phase' = phase,
                    l_ops_not_clustered' = l_ops_not_clustered
             PROVE  verdict' = "pair" /\ ~ Forest
  BY DEF RetryExcludes
<1>1. /\ phase = "pack" /\ phase' = "pack" /\ operations # <<>>
      /\ Head(operations) \notin visited
  BY DEF Unpacked, Working
<1>2. Pack
  BY <1>1
  DEF DriverNext, Packing, ClusterPEs, Check, createSingleOpClusters, Start, Skip, Unsupported,
      Error, Finish, Reschedule, setInitialPlacement, PlaceAndRoute, Timeout, GiveUp
<1>3. PICK s \in max_used_ops(Head(operations)) :
        Keep(s) \/ SplitPorts(s) \/ SplitPair(s) \/ Resolve(s) \/ Unroutable(s)
  BY <1>2 DEF Pack
<1>4. IsFiniteSet(ops) /\ flow \subseteq ops \X ops
  BY <1>1 DEF DriverInv, ClusterInv, FlowInv
<1>5. CASE Keep(s)
  <2>1. Len(s) \in Nat \ {0} /\ DOMAIN s = 1 .. Len(s) /\ s[1] = Head(operations)
    BY <1>4, FirstOfCluster, LenProperties
  <2>2. Head(operations) \in ToSet(s)
    BY <2>1 DEF ToSet
  <2> QED BY <1>1, <1>5, <2>2 DEF Keep, VisitedWith
<1>6. CASE SplitPorts(s)
  <2>1. PICK c \in ToSet(s) : ~ Unchecked(s) /\ Retry(PairsOf(c), "ports")
    BY <1>6 DEF SplitPorts
  <2>2. PairsOf(c) \subseteq l_ops_not_clustered
    BY <2>1 DEF Retry
  <2> QED BY <1>4, <2>1, <2>2, PortsExcludeMore
<1>7. CASE SplitPair(s)
  <2>1. PICK e \in ConnectedOps(s) : Retry(BothWays(e), "pair")
    BY <1>7 DEF SplitPair
  <2>2. BothWays(e) \subseteq l_ops_not_clustered /\ verdict' = "pair"
    BY <2>1 DEF Retry
  <2> QED BY <1>4, <2>2, PairClosesLoop
<1>8. CASE Resolve(s) \/ Unroutable(s)
  BY <1>1, <1>8 DEF Resolve, Unroutable, Error, Restart
<1> QED BY <1>3, <1>5, <1>6, <1>7, <1>8

(* Putting an operation back makes progress on a graph without loops.      *)
THEOREM RetriesProgress == DriverSpec => RetryExcludesMore
<1>1. DriverInit => DriverInv
  BY InitClusters DEF DriverInit, Init, DriverInv, GraphInv, WholeGraphPlaced
<1>2. DriverInv /\ FlowInv /\ [DriverNext]_driver_vars => [RetryExcludes]_driver_vars
  BY StepExcludes
<1>3. RetryExcludesMore <=> [][RetryExcludes]_driver_vars
  BY DEF RetryExcludesMore, RetryExcludes
<1> QED BY <1>1, <1>2, <1>3, InitFlow, StepClusters, StepFlow, PTL DEF DriverSpec

===============================================================================
