------------------------------- MODULE ForkTree -------------------------------
(***************************************************************************)
(* elastic_eager_fork.v: a fork of any fanout built as a tree of unit      *)
(* forks of UnitFanout outputs.  A point <<i, k>> is wire k of layer i;    *)
(* layer 0 holds the outputs and the layer Layers only the input.  The     *)
(* configuration disables outputs at layer 0 only, and wires of a unit     *)
(* fork that lie beyond the last point of a layer are clipped.             *)
(***************************************************************************)
EXTENDS Naturals

CONSTANTS
  Fanout,      (* FANOUT: outputs of the whole fork                          *)
  UnitFanout,  (* UNIT_FORK_FANOUT                                           *)
  Layers,      (* FORK_LAYERS, ceil(log Fanout / log UnitFanout)             *)
  Enabled, Capacity, MaxTokens   (* as in EagerFork *)

(* The outputs a tree of i layers can have.  The logarithms are rounded,   *)
(* so that FORK_LAYERS may be one more than needed (125 outputs in fives). *)
width[i \in 0 .. Layers] == IF i = 0 THEN 1 ELSE UnitFanout * width[i - 1]

ASSUME LayersAssumption ==
  /\ {Fanout, UnitFanout, Layers} \subseteq Nat
  /\ Fanout > 1 /\ UnitFanout > 1
  /\ width[Layers] >= Fanout
  /\ Enabled \subseteq 0 .. Fanout - 1

VARIABLES
  armed,       (* the points whose state register in their unit fork is set *)
  waiting, consumed, got, stalled   (* as in EagerFork *)

tree_vars == <<armed, waiting, consumed, got, stalled>>

(* The points of a layer: those of the layer below, UnitFanout at a time.  *)
valid_points[i \in 0 .. Layers] ==
  IF i = 0 THEN Fanout ELSE (valid_points[i - 1] + UnitFanout - 1) \div UnitFanout

Root == <<Layers, 0>>
Points == UNION {{<<i, k>> : k \in 0 .. valid_points[i] - 1} : i \in 0 .. Layers}
Inner == Points \ {Root}
Parent(p) == <<p[1] + 1, p[2] \div UnitFanout>>
Children(p) == {c \in Inner : Parent(c) = p}

-----------------------------------------------------------------------------
valid_upstream == waiting > 0

(* masked_state_regs of all unit forks together.                           *)
masked_state_regs == {p \in armed : p[1] = 0 => p[2] \in Enabled}

(* internal_valid_wire and internal_stop_wire: validity runs from the root *)
(* to the outputs, stops run back.                                         *)
internal_valid_wire[p \in Points] ==
  IF p = Root THEN valid_upstream ELSE p \in masked_state_regs /\ internal_valid_wire[Parent(p)]

internal_stop_wire(stop_downstream) ==
  LET stop[p \in Points] ==
        IF p[1] = 0 THEN p[2] \in stop_downstream
        ELSE \E c \in Children(p) : c \in masked_state_regs /\ stop[c]
  IN  stop

(* The registers after an edge: in each unit fork, while a masked output   *)
(* stalls a valid input only the stalled ones stay set.                    *)
TreeNextStateRootValid(stop, valid) ==
  {p \in masked_state_regs : stop[p]} \cup {p \in Inner : ~(stop[Parent(p)] /\ valid[Root])}
TreeNextState(stop, valid) ==
  {p \in masked_state_regs : stop[p]} \cup {p \in Inner : ~(stop[Parent(p)] /\ valid[Parent(p)])}

ResetValue == {p \in Inner : p[2] % UnitFanout = 0}

-----------------------------------------------------------------------------
TreeInit ==
  /\ armed = ResetValue
  /\ waiting = 0
  /\ consumed = 0
  /\ got = [o \in 0 .. Fanout - 1 |-> 0]
  /\ stalled = {}

TreeReset ==
  /\ armed' = ResetValue
  /\ waiting' = 0
  /\ consumed' = 0
  /\ got' = [o \in 0 .. Fanout - 1 |-> 0]
  /\ stalled' = {}

(* All unit forks see the same edge.                                       *)
TreeClock(stop_downstream, arrives) ==
  LET stop == internal_stop_wire(stop_downstream)
      valid == internal_valid_wire
      released == IF valid_upstream /\ ~stop[Root] THEN 1 ELSE 0
  IN  /\ arrives => waiting < Capacity /\ consumed + waiting < MaxTokens
      /\ armed' = TreeNextState(stop, valid)
      /\ waiting' = waiting - released + (IF arrives THEN 1 ELSE 0)
      /\ consumed' = consumed + released
      /\ got' = [o \in 0 .. Fanout - 1 |->
                   IF valid[<<0, o>>] /\ o \notin stop_downstream THEN got[o] + 1 ELSE got[o]]
      /\ stalled' = stop_downstream

TreeNext ==
  \/ \E stop_downstream \in SUBSET (0 .. Fanout - 1), arrives \in BOOLEAN :
       TreeClock(stop_downstream, arrives)
  \/ TreeReset

TreeSpec == TreeInit /\ [][TreeNext]_tree_vars

-----------------------------------------------------------------------------
(* An output has yet to take the current token when no register between it *)
(* and the root is clear.                                                  *)
toServe[p \in Points] == p = Root \/ (p \in armed /\ toServe[Parent(p)])

Flat == INSTANCE EagerFork WITH
  Outputs <- 0 .. Fanout - 1,
  First <- 0,
  state_regs <- {o \in 0 .. Fanout - 1 : toServe[<<0, o>>]}

(* The tree is the unit fork of the full fanout, cycle for cycle.          *)
FlatForkSpec == Flat!Spec
=============================================================================
