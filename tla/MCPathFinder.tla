----------------------------- MODULE MCPathFinder -----------------------------
(***************************************************************************)
(* Small instances of PathFinder.                                          *)
(***************************************************************************)
EXTENDS PathFinder, TLC

CONSTANTS
  f1, f2, f3, f4,                  (* FUs                                     *)
  s1, s2, x, r, q3, q4, q5,        (* routing nodes; r can also host an op    *)
  va, vb,                          (* values                                  *)
  opA, opB, opC, opD               (* ops                                     *)

NoLatency == [n \in Nodes \cup FUs |-> 0]
AllWide == [n \in Nodes \cup FUs |-> 32]
TwoValues == <<va, vb>>
Producers == va :> opA @@ vb :> opB

(* Cross: two producers share a wire x and a routing FU r on the way to    *)
(* the input pins: q3 of f3, q4 and q5 of f4.  va goes to opC's LHS and to *)
(* opD, vb to opD; opD sits on f4, or on r itself, which then no route may *)
(* cross.  q5 is too narrow for va.                                        *)
CrossFanout ==
  s1 :> {x, r} @@ s2 :> {x, r} @@ x :> {q3, q4, q5} @@ r :> {q3, q5} @@
  q3 :> {f3} @@ q4 :> {f4} @@ q5 :> {f4}
CrossFirst == f1 :> s1 @@ f2 :> s2 @@ f3 :> q3 @@ f4 :> q4 @@ r :> q3
CrossBits == [n \in Nodes \cup FUs |-> IF n = q5 THEN 1 ELSE 32]
CrossPins == [n \in Nodes |-> IF n = q3 THEN {"LHS"} ELSE {}]
CrossSinks ==
  va :> <<[op |-> opC, tag |-> "LHS", bits |-> 32, cycles |-> 0],
           [op |-> opD, tag |-> "any", bits |-> 32, cycles |-> 0]>> @@
  vb :> <<[op |-> opD, tag |-> "any", bits |-> 1, cycles |-> 0]>>
CrossPlacements ==
  {opA :> f1 @@ opB :> f2 @@ opC :> f3 @@ opD :> f4,
   opA :> f1 @@ opB :> f2 @@ opC :> f3 @@ opD :> r}

(* Bypass: the wire x can be entered from s1 directly or through the       *)
(* register s2; f3 takes va after one cycle, f4 after two.                 *)
BypassFanout ==
  s1 :> {s2, x} @@ s2 :> {x} @@ x :> {q3, q4} @@ q3 :> {f3} @@ q4 :> {q5} @@ q5 :> {r} @@ r :> {f4}
BypassLatency == [n \in Nodes \cup FUs |-> IF n \in {s2, q4, q5} THEN 1 ELSE 0]
BypassPins == [n \in Nodes |-> {}]
OneValue == <<va>>
OneProducer == va :> opA
BypassSinks ==
  va :> <<[op |-> opC, tag |-> "any", bits |-> 32, cycles |-> 1],
           [op |-> opD, tag |-> "any", bits |-> 32, cycles |-> 2]>>
BypassPlacements == {opA :> f1 @@ opB :> f2 @@ opC :> f3 @@ opD :> f4}
=============================================================================
