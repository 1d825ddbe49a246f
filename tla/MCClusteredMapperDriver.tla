----------------------- MODULE MCClusteredMapperDriver -----------------------
(***************************************************************************)
(* The clustered mapper for graphs of four operations and fabrics with two *)
(* kinds of PE, one of three function nodes and one of a single node.      *)
(***************************************************************************)
EXTENDS ClusteredMapperDriver

CONSTANTS load, mul, add, store, big, small, n1, n2, n3, n4

MCNames == {load, mul, add, store}

(* A chain; a value with two sinks, in a tree and in a diamond; and a loop *)
(* through an accumulator.                                                 *)
MCFlows ==
  { {<<load, mul>>, <<mul, add>>, <<add, store>>},
    {<<load, mul>>, <<load, add>>, <<add, store>>},
    {<<load, mul>>, <<load, add>>, <<mul, add>>, <<add, store>>},
    {<<load, add>>, <<add, mul>>, <<mul, add>>, <<mul, store>>} }

MCNodes == (big :> {n1, n2, n3}) @@ (small :> {n4})

(* Every node of the PEs maps everything; n1 only loads and stores; and a  *)
(* store is mapped by no PE whose kind TMPack knows.                       *)
All == {n1, n2, n3, n4} \X MCNames
MCFabrics ==
  { All,
    {e \in All : e[1] = n1 => e[2] \in {load, store}},
    {e \in All : e[2] # store} \cup {<<"other", store>>},
    {e \in All : e[2] # store} }
=============================================================================
