---------------------------- MODULE MCAnnealPlacer ----------------------------
(***************************************************************************)
(* Small instances of AnnealPlacer, on processing elements P, Q and R.     *)
(***************************************************************************)
EXTENDS AnnealPlacer, TLC

CONSTANTS x, y, u, v, w, mP, nP, aQ, bQ, mQ, aR, bR, P, Q, R

PELocation ==
  [n \in FUs |-> IF n \in {mP, nP} THEN P ELSE IF n \in {aQ, bQ, mQ} THEN Q ELSE R]
NoneFixed == [op \in Ops |-> NoFU]
FixedU == [op \in Ops |-> IF op = u THEN mP ELSE NoFU]

(* The user has fixed u, alone in its cluster, to mP; x and y are one      *)
(* cluster.  Twin: the elements Q and R have two ALUs each, so that the    *)
(* cluster can be given the same one twice.  Split: a and b execute        *)
(* different ops.  Narrow: the cluster has one place, which may be taken.  *)
(* Apart: it has none.                                                     *)
Twin ==
  x :> {aQ, bQ, aR, bR} @@ y :> {aQ, bQ, aR, bR} @@ w :> {aQ, bQ, aR, bR} @@
  u :> {mP, nP} @@ v :> {mP, nP}
Split == x :> {aQ, aR} @@ y :> {bQ, bR} @@ w :> {aQ, aR} @@ u :> {mP} @@ v :> {nP, bQ, bR}
Narrow == x :> {aQ} @@ y :> {bQ, bR} @@ w :> {aQ, aR} @@ u :> {mP} @@ v :> {bQ, bR}
Apart == x :> {aQ} @@ y :> {bR} @@ w :> {aQ, aR} @@ u :> {mP} @@ v :> {bQ}
AllArchitectures == {Twin, Split, Narrow, Apart}
FixedAlone == <<<<u>>, <<w>>, <<v>>, <<x, y>>>>
FixedAloneIndex == u :> 1 @@ w :> 2 @@ v :> 3 @@ x :> 4 @@ y :> 4
=============================================================================
