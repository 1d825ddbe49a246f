----------------------------- MODULE BoundedFifo -----------------------------
(***************************************************************************)
(* What an elastic buffer promises to the channel it sits on: a first-in   *)
(* first-out queue of at most Capacity words, that in one clock period may *)
(* take a word in, hand a word out, or do both, and that loses its content *)
(* only on reset.  A full queue takes nothing in, even in a period in      *)
(* which it hands a word out.                                              *)
(***************************************************************************)
EXTENDS Naturals, Sequences

CONSTANTS
  Capacity,   (* the number of words the queue can hold            *)
  Data,       (* the words                                         *)
  NoData      (* what is on the output when nothing is handed out  *)

VARIABLES
  queue,      (* the words held, the oldest first                  *)
  received,   (* the words, at most one, the last period took in   *)
  sent        (* the word handed out by the last period, or NoData *)

vars == <<queue, received, sent>>

Init ==
  /\ queue = <<>>
  /\ received = <<>>
  /\ sent = NoData

(* One clock period: pop says that the oldest word leaves, arriving is the *)
(* sequence of zero or one words that enter behind the others.             *)
Period(pop, arriving) ==
  /\ pop => queue # <<>>
  /\ arriving # <<>> => Len(queue) < Capacity
  /\ queue' = (IF pop THEN Tail(queue) ELSE queue) \o arriving
  /\ received' = arriving
  /\ sent' = IF pop THEN Head(queue) ELSE NoData

Clear ==
  /\ queue' = <<>>
  /\ received' = <<>>
  /\ sent' = NoData

Next ==
  \/ \E pop \in BOOLEAN, arriving \in {<<>>} \cup {<<d>> : d \in Data} : Period(pop, arriving)
  \/ Clear

Spec == Init /\ [][Next]_vars
=============================================================================
