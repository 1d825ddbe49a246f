------------------------ MODULE ClusteredMapperDriver ------------------------
(***************************************************************************)
(* The clustered mapper, ClusteredMapperDriver::mapOpGraph: it clusters    *)
(* the dataflow graph (TMPack), places the clusters once and then anneals  *)
(* and routes until a routing succeeds.  The placer and the router are     *)
(* AnnealPlacer and PathFinder; what matters of them here is whether they  *)
(* end, succeed or throw.                                                  *)
(***************************************************************************)
EXTENDS TMPack

CONSTANT MaxIterations  (* 1000 in the code                                *)
ASSUME IterationsAssumption == MaxIterations \in Nat \ {0}

VARIABLE iteration      (* attempts to place and route                     *)

driver_vars == <<vars, iteration>>

isAllOpsSupported == \A n \in Names : \E e \in fabric : e[2] = n

DriverInit == Init /\ iteration = 0

Check ==
  /\ phase = "start"
  /\ phase' = (IF isAllOpsSupported THEN "call" ELSE "error")
  /\ UNCHANGED <<graph_vars, pack_vars, iteration>>

(* mapStatic asks for the clusters again after an operation was inserted;  *)
(* mapElastic does not look at what clusterPEs returns.                    *)
RescheduleNever ==
  /\ phase = "rescheduled" /\ phase' = "place"
  /\ UNCHANGED <<graph_vars, pack_vars, iteration>>
Reschedule ==
  /\ phase = "rescheduled"
  /\ phase' = (IF l_isElastic THEN "place" ELSE "call")
  /\ UNCHANGED <<graph_vars, pack_vars, iteration>>

(* The first placement and the first temperature.  Without clusters they   *)
(* do nothing.                                                             *)
setInitialPlacement ==
  /\ phase = "place"
  /\ \/ phase' = "iterate"
     \/ l_clusters # <<>> /\ phase' = "error"
  /\ UNCHANGED <<graph_vars, pack_vars, iteration>>

(* One placement and one routing, and the temperature of the next, which   *)
(* is determined after a success as well and may throw.  With no cluster   *)
(* to choose from the placer cannot run, and neither the placer nor the    *)
(* router of a static fabric can with an operation that is not scheduled.  *)
Placeable ==
  /\ l_clusters # <<>>
  /\ l_isElastic \/ \A op \in ops : op[2] = 0
PlaceAndRoute ==
  /\ phase = "iterate" /\ iteration < MaxIterations
  /\ iteration' = iteration + 1
  /\ phase' \in {"error"} \cup (IF Placeable THEN {"success", "iterate"} ELSE {})
  /\ UNCHANGED <<graph_vars, pack_vars>>

Timeout ==
  /\ phase = "iterate" /\ iteration < MaxIterations
  /\ phase' = "timeout"
  /\ UNCHANGED <<graph_vars, pack_vars, iteration>>

GiveUp ==
  /\ phase = "iterate" /\ iteration = MaxIterations
  /\ phase' = "failed"
  /\ UNCHANGED <<graph_vars, pack_vars, iteration>>

Packing == ClusterPEs /\ UNCHANGED iteration

DriverNext ==
  \/ Check \/ Packing \/ Reschedule
  \/ setInitialPlacement \/ PlaceAndRoute \/ Timeout \/ GiveUp

DriverSpec == DriverInit /\ [][DriverNext]_driver_vars

(* One thread runs the mapper to its end.                                  *)
DriverFairSpec == DriverSpec /\ WF_driver_vars(DriverNext)

-----------------------------------------------------------------------------
Ended == {"error", "missing", "timeout", "failed", "success"}
Packed == UNION {ToSet(l_clusters[k]) : k \in DOMAIN l_clusters}

(* Clusters are disjoint, and the index the placer's swap uses names the   *)
(* cluster an operation is in, although it survives a restart while the    *)
(* clusters do not.                                                        *)
IndexNamesCluster ==
  \A k \in DOMAIN l_clusters :
    /\ \A p, q \in DOMAIN l_clusters[k] : p # q => l_clusters[k][p] # l_clusters[k][q]
    /\ \A op \in ToSet(l_clusters[k]) :
         op \in ops /\ op \in DOMAIN l_op_cluster_index /\ l_op_cluster_index[op] = k

(* The placer starts from clusters of all operations of the graph as it is *)
(* then, clones included; the exception is an elastic fabric after an      *)
(* insertion, where it starts from none.                                   *)
WholeGraphPlaced ==
  phase \in {"place", "iterate", "success"} =>
    Packed = ops \/ (l_isElastic /\ l_reschedule /\ l_clusters = <<>> /\ phase # "success")

(* The work queue reaches every operation: although operations are put     *)
(* back and clusters take others in their place, none is missing when the  *)
(* queue is empty.                                                         *)
NoOpMissed == phase # "missing"

(* However often operations are cloned, each operation has the inputs of   *)
(* its original, each from one operation, or the mapping has failed.       *)
CloneKeepsDataflow ==
  phase # "error" =>
    \A y \in ops :
      /\ {x[1] : x \in Sources(y)} = {e[1] : e \in {e \in dfg : e[2] = y[1]}}
      /\ \A x1, x2 \in Sources(y) : x1[1] = x2[1] => x1 = x2

(* An operation is only put back when something has changed: a pair that   *)
(* was followed no longer is, unless the graph has a loop, directed or     *)
(* not, around which the pair is joined again.                             *)
Neighbours(op) == (Sinks(op) \cup Sources(op)) \ {op}
Forest ==
  \A S \in SUBSET ops \ {{}} : \E op \in S : Cardinality(Neighbours(op) \cap S) <= 1
RetryExcludesMore ==
  [][Unpacked /\ visited' = visited /\ phase' = phase =>
       l_ops_not_clustered' # l_ops_not_clustered \/ (verdict' = "pair" /\ ~Forest)]_driver_vars

(* The clustering of a graph without such loops ends.                      *)
MappingEnds == Forest ~> (~Forest \/ phase \in Ended)
=============================================================================
