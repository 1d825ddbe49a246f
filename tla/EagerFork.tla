------------------------------ MODULE EagerFork ------------------------------
(***************************************************************************)
(* The unit fork of the elastic fabric, elastic_eager_fork_1layer.v, fed   *)
(* by an elastic buffer.  A token at the fork's input is offered to every  *)
(* enabled output at once; each output takes it when its own consumer does *)
(* not stall, and a register per output remembers who is still to be       *)
(* served.  The input is released when nobody is left.                     *)
(*                                                                         *)
(* Tokens are numbered in the order the buffer takes them in.  One step is *)
(* one rising clock edge.                                                  *)
(***************************************************************************)
EXTENDS Naturals

CONSTANTS
  Outputs,     (* the outputs of the fork                                  *)
  First,       (* output 0: the only bit that 'h1 sets on reset            *)
  Enabled,     (* the outputs whose enable_downstream bit is set           *)
  Capacity,    (* depth of the elastic buffer in front of the fork         *)
  MaxTokens    (* bound on the tokens that arrive between two resets       *)

ASSUME OutputsAssumption == First \in Outputs /\ Enabled \subseteq Outputs
ASSUME BoundsAssumption == Capacity \in Nat \ {0} /\ MaxTokens \in Nat

VARIABLES
  state_regs,  (* the outputs that still have to take the current token    *)
  waiting,     (* tokens in the buffer, the current one included           *)
  consumed,    (* history: tokens released at the input since reset        *)
  got,         (* history: tokens each output has taken since reset        *)
  stalled      (* history: the outputs that stalled during the last period *)

vars == <<state_regs, waiting, consumed, got, stalled>>

-----------------------------------------------------------------------------
(* The combinational part.                                                 *)

valid_upstream == waiting > 0
masked_state_regs == state_regs \cap Enabled
internal_stops(stop_downstream) == stop_downstream \cap masked_state_regs
stop_upstream(stop_downstream) == internal_stops(stop_downstream) # {}
valid_downstream == IF valid_upstream THEN masked_state_regs ELSE {}

(* The value of state_regs after an edge: while some output stalls a valid *)
(* token only the stalled ones stay set, otherwise all are set again.      *)
StateRearmEarly(stop_downstream) == Outputs
NextState(stop_downstream) ==
  IF stop_upstream(stop_downstream) /\ valid_upstream
  THEN internal_stops(stop_downstream)
  ELSE Outputs

-----------------------------------------------------------------------------
Init ==
  /\ state_regs = {First}
  /\ waiting = 0
  /\ consumed = 0
  /\ got = [o \in Outputs |-> 0]
  /\ stalled = {}

(* CGRA_Reset reaches the fork and the buffer together.                    *)
Reset ==
  /\ state_regs' = {First}
  /\ waiting' = 0
  /\ consumed' = 0
  /\ got' = [o \in Outputs |-> 0]
  /\ stalled' = {}

(* An edge at which the consumers of the outputs in stop_downstream stall, *)
(* and at which the buffer takes a token in if arrives.                    *)
Clock(stop_downstream, arrives) ==
  LET released == IF valid_upstream /\ ~stop_upstream(stop_downstream) THEN 1 ELSE 0
      taking == valid_downstream \ stop_downstream
  IN  /\ arrives => waiting < Capacity /\ consumed + waiting < MaxTokens
      /\ state_regs' = NextState(stop_downstream)
      /\ waiting' = waiting - released + (IF arrives THEN 1 ELSE 0)
      /\ consumed' = consumed + released
      /\ got' = [o \in Outputs |-> IF o \in taking THEN got[o] + 1 ELSE got[o]]
      /\ stalled' = stop_downstream

Tick == \E stop_downstream \in SUBSET Outputs, arrives \in BOOLEAN :
          Clock(stop_downstream, arrives)

Next == Tick \/ Reset

Spec == Init /\ [][Next]_vars

-----------------------------------------------------------------------------
TypeOK ==
  /\ state_regs \subseteq Outputs
  /\ waiting \in 0 .. Capacity
  /\ consumed \in Nat
  /\ got \in [Outputs -> Nat]
  /\ stalled \subseteq Outputs

(* No enabled output ever misses a token or takes one twice: it is level   *)
(* with the input, or ahead of it by exactly the current token.            *)
ServedOncePerToken ==
  \A o \in Enabled :
    \/ got[o] = consumed
    \/ got[o] = consumed + 1 /\ valid_upstream

(* A register is clear only if its output has taken the current token, or  *)
(* in the period after reset, when there is no token yet.                  *)
ClearMeansTaken ==
  \A o \in Enabled \ state_regs : got[o] = consumed + 1 \/ ~valid_upstream

(* The elastic protocol downstream: a token that was offered and stalled   *)
(* is offered again in the next period, until it is taken.                 *)
OfferPersists ==
  [][valid_downstream \cap stalled' \subseteq valid_downstream']_vars
=============================================================================
