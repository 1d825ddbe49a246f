----------------------------- MODULE AnnealPlacer -----------------------------
(***************************************************************************)
(* The simulated-annealing placer of the clustered mapper: the class       *)
(* AnnealPlacer as ClusteredMapperDriver drives it (clearPlacement,        *)
(* setInitialPlacement, then determineTemperature and placeOpGraph in      *)
(* turn).  Costs, temperatures and the number of moves tried are           *)
(* abstracted: any cluster may be picked and any move accepted or          *)
(* rejected.  One step is one iteration of an innermost loop.              *)
(***************************************************************************)
EXTENDS Integers, FiniteSets, Sequences

CONSTANTS
  Ops,               (* operations of the op graph                            *)
  FUs,               (* function nodes of the MRRG, each of capacity 1        *)
  NoFU,              (* "not placed"                                          *)
  Location,          (* FU -> grid location of its processing element         *)
  Architectures,     (* the functions canMapOp that are considered            *)
  l_clusters,        (* sequence of clusters, each a sequence of ops          *)
  l_op_cluster_index,(* op -> the index that TMPack recorded for it           *)
  l_fix_ports        (* op -> the FU the user fixed it to, or NoFU            *)

ASSUME OpsAssumption == IsFiniteSet(Ops) /\ NoFU \notin FUs
ASSUME ArchAssumption ==
  /\ Architectures \subseteq [Ops -> SUBSET FUs]
  /\ l_fix_ports \in [Ops -> FUs \cup {NoFU}]
  /\ DOMAIN Location = FUs
ASSUME ClusterAssumption ==
  /\ l_clusters \in Seq(Seq(Ops))
  /\ \A c \in DOMAIN l_clusters : l_clusters[c] # <<>>
  /\ l_op_cluster_index \in [Ops -> DOMAIN l_clusters]
(* IndexNamesCluster of ClusteredMapperDriver.                             *)
ASSUME IndexAssumption ==
  \A c \in DOMAIN l_clusters : \A i \in DOMAIN l_clusters[c] : l_op_cluster_index[l_clusters[c][i]] = c
(* TMPack throws unless every op is in a cluster.                          *)
ASSUME CoverAssumption ==
  \A op \in Ops : \E c \in DOMAIN l_clusters : \E i \in DOMAIN l_clusters[c] : l_clusters[c][i] = op

VARIABLES
  canMapOp,          (* op -> FUs of its scheduled context that execute it;   *)
                     (* it stays the same                                     *)
  l_mapping,         (* op -> the FU it is placed at                          *)
  occupancy,         (* FU -> number of ops, a counter kept beside l_mapping  *)
  old_placement,     (* what a rejected move has to restore                   *)
  phase,             (* which loop of which function runs                     *)
  placed_clusters,   (* clusters that have an initial placement               *)
  todo,              (* the <<op, FU>> moves of the current cluster           *)
  evicted,           (* ops of the cluster being swapped away by swap()       *)
  home,              (* the location they move to; NoFU before the first swap   *)
  before             (* history: l_mapping when the current move began        *)

vars ==
  <<canMapOp, l_mapping, occupancy, old_placement, phase, placed_clusters, todo, evicted, home, before>>
placement == <<l_mapping, occupancy>>

Phases == {"initial", "perturb", "anneal", "trial", "restore", "placed", "thrown", "spinning"}
Nowhere == [op \in Ops |-> NoFU]

-----------------------------------------------------------------------------
(* ripUpOp and placeOp, on a record of the mapping and the occupancies.    *)
(* The exception ripUpOp throws when a counter is not positive is shown    *)
(* unreachable by OccupancyIsMapping.                                      *)

State == [mapping |-> l_mapping, occupancy |-> occupancy]

RipUpKeepsCount(s, op) == [s EXCEPT !.mapping[op] = NoFU]
ripUpOp(s, op) ==
  IF s.mapping[op] = NoFU THEN s
  ELSE [mapping |-> [s.mapping EXCEPT ![op] = NoFU],
        occupancy |-> [s.occupancy EXCEPT ![s.mapping[op]] = @ - 1]]

placeOp(s, op, n) ==
  IF s.mapping[op] # NoFU THEN s
  ELSE [mapping |-> [s.mapping EXCEPT ![op] = n],
        occupancy |-> [s.occupancy EXCEPT ![n] = @ + 1]]

moveOp(s, op, n) == placeOp(ripUpOp(s, op), op, n)
exchange(s, op, n, other, m) ==
  placeOp(placeOp(ripUpOp(ripUpOp(s, op), other), op, n), other, m)

Become(s) == l_mapping' = s.mapping /\ occupancy' = s.occupancy

(* std::map::emplace: an op that is already recorded keeps its entry.      *)
EmplaceLast(old, op, n) == [old EXCEPT ![op] = n]
emplace(old, op, n) == IF old[op] = NoFU THEN [old EXCEPT ![op] = n] ELSE old

l_fixed_mrrg_nodes == {l_fix_ports[op] : op \in Ops} \ {NoFU}
isFixed(op) == l_fix_ports[op] # NoFU
isClusterFixed(cluster) == \E i \in DOMAIN cluster : isFixed(cluster[i])

(* getOpMapedAt: the first op at n in the order of the op graph.           *)
OpsMapedAt(n) == {op \in Ops : l_mapping[op] = n}

OveruseAllowsTwo == \A n \in FUs : occupancy[n] <= 2
checkOveruse == \A n \in FUs : occupancy[n] <= 1
isOpgraphCovered == \A op \in Ops : l_mapping[op] # NoFU

(* The values the random choices may return.                               *)
getRandomUnoccupiedFU(op) == {n \in canMapOp[op] \ l_fixed_mrrg_nodes : occupancy[n] < 1}
getRandomFU(op) == canMapOp[op] \ l_fixed_mrrg_nodes
FUForOpAtLocAny(op, loc) == {n \in FUs : n \in canMapOp[op] /\ Location[n] = loc}
FUAtLoc(op, loc) ==
  {n \in FUs : Location[n] = loc /\ (n \notin l_fixed_mrrg_nodes \/ isFixed(op))}
getFUForOpAtLoc(op, loc) ==
  {n \in FUs : /\ n \in canMapOp[op]
               /\ Location[n] = loc
               /\ n \notin l_fixed_mrrg_nodes \/ isFixed(op)}

(* The locations tried by getRandomFUs, and the choices of one FU per op   *)
(* at one of them.  Nothing keeps two ops from the same FU.                *)
AnchorLocations(cluster, occupied) ==
  IF isClusterFixed(cluster)
  THEN LET first == CHOOSE i \in DOMAIN cluster :
                      isFixed(cluster[i]) /\ \A j \in 1 .. i - 1 : ~isFixed(cluster[j])
       IN  {Location[l_fix_ports[cluster[first]]]}
  ELSE UNION {{Location[n] : n \in IF occupied THEN getRandomFU(cluster[i])
                                   ELSE getRandomUnoccupiedFU(cluster[i])} :
              i \in DOMAIN cluster}

getRandomFUs(cluster, occupied) ==
  UNION {{fus \in [DOMAIN cluster -> FUs] :
            \A i \in DOMAIN cluster :
              /\ fus[i] \in getFUForOpAtLoc(cluster[i], loc)
              /\ occupied \/ occupancy[fus[i]] = 0} :
         loc \in AnchorLocations(cluster, occupied)}

Moves(cluster, fus) == [i \in DOMAIN cluster |-> <<cluster[i], fus[i]>>]

Throw ==
  /\ phase' = "thrown"
  /\ UNCHANGED <<canMapOp, placement, old_placement, placed_clusters, todo, evicted, home, before>>

-----------------------------------------------------------------------------
(* The state that clearPlacement leaves.                                   *)
Init ==
  /\ canMapOp \in Architectures
  /\ l_mapping = Nowhere
  /\ occupancy = [n \in FUs |-> 0]
  /\ old_placement = Nowhere
  /\ phase = "initial"
  /\ placed_clusters = 0
  /\ todo = <<>>
  /\ evicted = <<>>
  /\ home = NoFU
  /\ before = Nowhere

(* setInitialPlacement, one cluster after the other.                       *)
nextCluster == l_clusters[placed_clusters + 1]

InitialChoose ==
  /\ phase = "initial" /\ todo = <<>> /\ placed_clusters < Len(l_clusters)
  /\ \E fus \in getRandomFUs(nextCluster, FALSE) : todo' = Moves(nextCluster, fus)
  /\ placed_clusters' = placed_clusters + 1
  /\ UNCHANGED <<canMapOp, placement, old_placement, phase, evicted, home, before>>

InitialPlace ==
  /\ phase = "initial" /\ todo # <<>>
  /\ LET op == Head(todo)[1]  n == Head(todo)[2]
     IN  /\ Become(placeOp(State, op, n))
         /\ phase' = IF l_mapping[op] # NoFU THEN "thrown" ELSE phase
  /\ todo' = Tail(todo)
  /\ UNCHANGED <<canMapOp, old_placement, placed_clusters, evicted, home, before>>

(* The op drawn has no free FU; or in a cluster with a fixed op, whose     *)
(* location is given, the one draw for some op finds no FU or one in use.  *)
InitialThrow ==
  /\ phase = "initial" /\ todo = <<>> /\ placed_clusters < Len(l_clusters)
  /\ IF isClusterFixed(nextCluster)
     THEN \E i \in DOMAIN nextCluster, loc \in AnchorLocations(nextCluster, FALSE) :
            LET drawn == getFUForOpAtLoc(nextCluster[i], loc)
            IN  drawn = {} \/ \E n \in drawn : occupancy[n] # 0
     ELSE \E i \in DOMAIN nextCluster : getRandomUnoccupiedFU(nextCluster[i]) = {}
  /\ Throw

(* Every op has a free FU but no location serves all: the loop of          *)
(* getRandomFUs never ends.                                                *)
InitialSpin ==
  /\ phase = "initial" /\ todo = <<>> /\ placed_clusters < Len(l_clusters)
  /\ ~isClusterFixed(nextCluster)
  /\ \A i \in DOMAIN nextCluster : getRandomUnoccupiedFU(nextCluster[i]) # {}
  /\ getRandomFUs(nextCluster, FALSE) = {}
  /\ phase' = "spinning"
  /\ UNCHANGED <<canMapOp, placement, old_placement, placed_clusters, todo, evicted, home, before>>

-----------------------------------------------------------------------------
idle == todo = <<>> /\ evicted = <<>>

(* determineTemperature perturbs the placement and never restores it.      *)
StartPerturbing ==
  /\ \/ phase = "initial" /\ todo = <<>> /\ placed_clusters = Len(l_clusters)
     \/ phase = "placed"
  /\ phase' = "perturb"
  /\ UNCHANGED <<canMapOp, placement, old_placement, placed_clusters, todo, evicted, home, before>>

(* placeOpGraph begins.                                                    *)
StartAnnealing ==
  /\ phase = "perturb" /\ idle
  /\ phase' = "anneal"
  /\ UNCHANGED <<canMapOp, placement, old_placement, placed_clusters, todo, evicted, home, before>>

(* A cluster and FUs for it are picked.  The annealer skips a pick that    *)
(* leaves the first op where it is; determineTemperature does not.         *)
Pick(c) ==
  LET cluster == l_clusters[c]
  IN  /\ phase \in {"perturb", "anneal"} /\ idle
      /\ ~isClusterFixed(cluster)
      /\ \E fus \in getRandomFUs(cluster, TRUE) :
           /\ phase = "anneal" => fus[1] # l_mapping[cluster[1]]
           /\ todo' = Moves(cluster, fus)
      /\ phase' = IF phase = "anneal" THEN "trial" ELSE phase
      /\ old_placement' = Nowhere
      /\ before' = l_mapping
      /\ UNCHANGED <<canMapOp, placement, placed_clusters, evicted, home>>

(* The next op of the picked cluster.                                      *)
moving == phase \in {"perturb", "trial"} /\ todo # <<>> /\ evicted = <<>>
movingOp == Head(todo)[1]
movingTo == Head(todo)[2]

MoveToFree ==
  /\ moving /\ occupancy[movingTo] < 1
  /\ Become(moveOp(State, movingOp, movingTo))
  /\ old_placement' = emplace(old_placement, movingOp, l_mapping[movingOp])
  /\ todo' = Tail(todo)
  /\ UNCHANGED <<canMapOp, phase, placed_clusters, evicted, home, before>>

(* assertOccupancyLimit *)
MoveThrows == moving /\ occupancy[movingTo] > 1 /\ Throw

(* swap(op, node, old_placement): the op at the node is the op itself, or  *)
(* is recorded as alone in its cluster, or as one of several.              *)
SwapWithItself ==
  /\ moving /\ occupancy[movingTo] = 1 /\ movingOp \in OpsMapedAt(movingTo)
  /\ todo' = Tail(todo)
  /\ UNCHANGED <<canMapOp, placement, old_placement, phase, placed_clusters, evicted, home, before>>

ClusterAlone(op) == <<op>>
clusterOf(op) == l_clusters[l_op_cluster_index[op]]

SwapOps ==
  /\ moving /\ occupancy[movingTo] = 1
  /\ \E second_op \in OpsMapedAt(movingTo) \ {movingOp} :
       /\ Len(clusterOf(second_op)) <= 1
       /\ old_placement' = emplace(emplace(old_placement, movingOp, l_mapping[movingOp]),
                                   second_op, movingTo)
       /\ Become(exchange(State, movingOp, movingTo, second_op, l_mapping[movingOp]))
  /\ todo' = Tail(todo)
  /\ UNCHANGED <<canMapOp, phase, placed_clusters, evicted, home, before>>

SwapCluster ==
  /\ moving /\ occupancy[movingTo] = 1
  /\ \E second_op \in OpsMapedAt(movingTo) \ {movingOp} :
       /\ Len(clusterOf(second_op)) > 1
       /\ evicted' = clusterOf(second_op)
  /\ home' = Location[l_mapping[movingOp]]
  /\ todo' = Tail(todo)
  /\ UNCHANGED <<canMapOp, placement, old_placement, phase, placed_clusters, before>>

(* The next op of the cluster that swap() moves to the location home.      *)
evicting == phase \in {"perturb", "trial"} /\ evicted # <<>>
evictedOp == Head(evicted)

EvictThrows == evicting /\ getFUForOpAtLoc(evictedOp, home) = {} /\ Throw

EvictToFree ==
  /\ evicting
  /\ \E n \in getFUForOpAtLoc(evictedOp, home) :
       /\ occupancy[n] < 1
       /\ Become(moveOp(State, evictedOp, n))
  /\ old_placement' = emplace(old_placement, evictedOp, l_mapping[evictedOp])
  /\ evicted' = Tail(evicted)
  /\ UNCHANGED <<canMapOp, phase, placed_clusters, todo, home, before>>

EvictBySwap ==
  /\ evicting
  /\ \E n \in getFUForOpAtLoc(evictedOp, home) : \E s_op \in OpsMapedAt(n) :
       /\ occupancy[n] >= 1
       /\ old_placement' = emplace(emplace(old_placement, evictedOp, l_mapping[evictedOp]), s_op, n)
       /\ Become(exchange(State, evictedOp, n, s_op, l_mapping[evictedOp]))
  /\ evicted' = Tail(evicted)
  /\ UNCHANGED <<canMapOp, phase, placed_clusters, todo, home, before>>

-----------------------------------------------------------------------------
Accept ==
  /\ phase = "trial" /\ idle
  /\ phase' = "anneal"
  /\ UNCHANGED <<canMapOp, placement, old_placement, placed_clusters, todo, evicted, home, before>>

Reject ==
  /\ phase = "trial" /\ idle
  /\ phase' = "restore"
  /\ UNCHANGED <<canMapOp, placement, old_placement, placed_clusters, todo, evicted, home, before>>

Restore(op) ==
  /\ phase = "restore" /\ old_placement[op] # NoFU
  /\ Become(moveOp(State, op, old_placement[op]))
  /\ old_placement' = [old_placement EXCEPT ![op] = NoFU]
  /\ UNCHANGED <<canMapOp, phase, placed_clusters, todo, evicted, home, before>>

Restored ==
  /\ phase = "restore" /\ old_placement = Nowhere
  /\ phase' = "anneal"
  /\ UNCHANGED <<canMapOp, placement, old_placement, placed_clusters, todo, evicted, home, before>>

(* The end of inner_place_and_route_loop: an illegal placement throws, a   *)
(* legal one is returned once the temperature is low (otherwise the loop   *)
(* runs again).                                                            *)
EndIteration ==
  /\ phase = "anneal"
  /\ phase' = IF checkOveruse /\ isOpgraphCovered THEN "placed" ELSE "thrown"
  /\ UNCHANGED <<canMapOp, placement, old_placement, placed_clusters, todo, evicted, home, before>>

(* The process has ended, or loops for ever.                               *)
Stopped ==
  /\ phase \in {"thrown", "spinning"}
  /\ UNCHANGED <<canMapOp, placement, old_placement, phase, placed_clusters, todo, evicted, home, before>>

Setup == InitialChoose \/ InitialPlace \/ InitialThrow \/ InitialSpin
Move == MoveToFree \/ MoveThrows \/ SwapWithItself \/ SwapOps \/ SwapCluster
Evict == EvictThrows \/ EvictToFree \/ EvictBySwap
Decide == Accept \/ Reject \/ (\E op \in Ops : Restore(op)) \/ Restored \/ EndIteration

Next ==
  \/ Setup \/ StartPerturbing \/ StartAnnealing
  \/ \E c \in DOMAIN l_clusters : Pick(c)
  \/ Move \/ Evict \/ Decide \/ Stopped

Spec == Init /\ [][Next]_vars

-----------------------------------------------------------------------------
TypeOK ==
  /\ canMapOp \in Architectures
  /\ l_mapping \in [Ops -> FUs \cup {NoFU}]
  /\ occupancy \in [FUs -> 0 .. Cardinality(Ops)]
  /\ old_placement \in [Ops -> FUs \cup {NoFU}]
  /\ phase \in Phases
  /\ placed_clusters \in 0 .. Len(l_clusters)
  /\ todo \in Seq(Ops \X FUs)
  /\ evicted \in Seq(Ops)
  /\ before \in [Ops -> FUs \cup {NoFU}]

(* The occupancy counters agree with the mapping they are kept beside,     *)
(* through every move, two-way swap, cluster swap and restoration.  So the *)
(* exception of ripUpOp is never thrown.                                   *)
OccupancyIsMapping ==
  \A n \in FUs : occupancy[n] = Cardinality({op \in Ops : l_mapping[op] = n})

(* Once the initial placement is complete, every op has an FU whenever a   *)
(* cost is computed: getTotalCost dereferences the node of every op.       *)
EveryOpPlaced ==
  phase \in {"perturb", "anneal", "trial", "restore", "placed"} => isOpgraphCovered

(* placeOpGraph returns only placements with at most one op per FU.        *)
PlacedIsLegal ==
  phase = "placed" =>
    \A op, other \in Ops : op # other => l_mapping[op] # l_mapping[other]

(* A rejected move leaves no trace, whatever chain of swaps it caused.     *)
RejectRestores == phase = "restore" /\ old_placement = Nowhere => l_mapping = before

(* An op that the user fixed to a port never leaves it once placed there,  *)
(* if such ops are alone in their clusters.  (A cluster that holds one is  *)
(* not picked, but swap() evicts it whole to make place for another, to    *)
(* where it may displace a lone one.)                                      *)
FixedAreAlone == \A op \in Ops : isFixed(op) => Len(clusterOf(op)) = 1
LoneFixedOpsStay ==
  [][\A op \in Ops : FixedAreAlone /\ isFixed(op) /\ l_mapping[op] = l_fix_ports[op]
       => l_mapping'[op] = l_mapping[op]]_vars

(* Mapping.cpp: "check that every op has one MRRG node mapped. also check  *)
(* that the FU can support the OP".                                        *)
FUSupportsOp == phase = "placed" => \A op \in Ops : l_mapping[op] \in canMapOp[op]

(* So it is when an op that is displaced can go wherever the op that takes *)
(* its place can: whatever displaces a single op, and whatever op of an    *)
(* evicted cluster displaces one of another.                               *)
Uniform ==
  \A op, other \in Ops :
    /\ Len(clusterOf(op)) = 1 \/ Len(clusterOf(other)) > 1
    /\ canMapOp[op] \cap canMapOp[other] # {}
    => canMapOp[other] \subseteq canMapOp[op]
UniformSupportsOp == Uniform => FUSupportsOp

(* Between two moves, the ops of a cluster share one location, unless two  *)
(* of them compete for an FU, or there is another cluster of several ops,  *)
(* one of which is exchanged for an op of an evicted cluster: "If there is *)
(* a cluster then swap all the nodes of the cluster".                      *)
Competing(cluster) ==
  \E i, j \in DOMAIN cluster : i # j /\ canMapOp[cluster[i]] \cap canMapOp[cluster[j]] # {}
ClustersStayTogether ==
  phase \in {"anneal", "placed"} =>
    \A c \in DOMAIN l_clusters : \A i, j \in DOMAIN l_clusters[c] :
      \/ Competing(l_clusters[c])
      \/ \E d \in DOMAIN l_clusters \ {c} : Len(l_clusters[d]) > 1
      \/ Location[l_mapping[l_clusters[c][i]]] = Location[l_mapping[l_clusters[c][j]]]
=============================================================================
