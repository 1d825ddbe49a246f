------------------------------ MODULE ForkBranch ------------------------------
(***************************************************************************)
(* ElasticForkBranch: the fork of the crossbar inputs of a fabric with     *)
(* predication.  It forks a token like the unit fork of EagerFork, or,     *)
(* configured as a branch, hands it to one of two outputs, as a condition  *)
(* says that arrives at a port of its own and in its own time.             *)
(*                                                                         *)
(* In front of the data input is an elastic buffer; the condition comes    *)
(* from an elastic fork, which offers one at a time and holds it until it  *)
(* is taken.  One step is one rising clock edge.  CGRA_Enable is high:     *)
(* the control unit raises it before a computation and lowers it after.    *)
(***************************************************************************)
EXTENDS Naturals

CONSTANTS
  Outputs,      (* the outputs of the fork                                  *)
  First,        (* output 0: the only bit that 'h1 sets on reset            *)
  Capacity,     (* depth of the elastic buffer in front of the fork         *)
  MaxTokens     (* bound on the tokens that arrive between two resets       *)

ASSUME OutputsAssumption == First \in Outputs
ASSUME BoundsAssumption == Capacity \in Nat \ {0} /\ MaxTokens \in Nat

VARIABLES
  config,       (* enable_downstream, as the bitstream sets it              *)
  state_regs,   (* the outputs that are still to be served                  *)
  waiting,      (* tokens in the buffer, the current one included           *)
  condition,    (* what is offered at the condition port                    *)
  consumed,     (* history: tokens released at the input since reset        *)
  decided,      (* history: conditions released since reset                 *)
  got,          (* history: tokens each output has taken since reset        *)
  due,          (* history: released tokens that were meant for the output  *)
  late,         (* history: since reset, outputs stalled a token whose      *)
                (* condition was not there yet                              *)
  stalled       (* history: the outputs that stalled during the last period *)

vars == <<config, state_regs, waiting, condition, consumed, decided, got, due, late, stalled>>

-----------------------------------------------------------------------------
(* What getBitConfig can set: nothing, some outputs, or a branch with one  *)
(* output for true and one for false.                                      *)
ForkConfig(used) == [enable_condition |-> FALSE, en_downstream |-> used, set_t_f |-> {}]
BranchConfig(t, f) == [enable_condition |-> TRUE, en_downstream |-> {t, f}, set_t_f |-> {t}]
BitConfigs ==
  {ForkConfig(used) : used \in SUBSET Outputs}
  \cup UNION {{BranchConfig(t, f) : f \in Outputs \ {t}} : t \in Outputs}

Conditions == {"none", "true", "false"}

(* The combinational part.                                                 *)
in_valid_upstream == waiting > 0
mask_valid_cond == config.enable_condition => condition # "none"
mask_cond == config.enable_condition => condition = "true"
MuxedAlways == {o \in config.en_downstream : o \in config.set_t_f <=> mask_cond}
muxed_condition ==
  IF config.enable_condition
  THEN {o \in config.en_downstream : o \in config.set_t_f <=> mask_cond}
  ELSE Outputs
masked_state_regs == state_regs \cap config.en_downstream
internal_stops(stop_downstream) == stop_downstream \cap masked_state_regs
StopUnmasked(stop_downstream) ==
  \/ stop_downstream # {}
  \/ ~mask_valid_cond /\ masked_state_regs # {} /\ in_valid_upstream
StopForStalls(stop_downstream) == internal_stops(stop_downstream) # {}
in_stop_upstream(stop_downstream) ==
  \/ internal_stops(stop_downstream) # {}
  \/ ~mask_valid_cond /\ masked_state_regs # {} /\ in_valid_upstream
CondStopForStalls(stop_downstream) ==
  config.enable_condition /\ internal_stops(stop_downstream) # {}
condition_stop_upstream(stop_downstream) ==
  \/ config.enable_condition /\ internal_stops(stop_downstream) # {}
  \/ mask_valid_cond /\ masked_state_regs # {} /\ ~in_valid_upstream
valid_downstream ==
  IF in_valid_upstream /\ mask_valid_cond THEN masked_state_regs \cap muxed_condition ELSE {}

(* The value of state_regs after an edge, as in the unit fork.             *)
StateKeepsStopped(stop_downstream) ==
  IF internal_stops(stop_downstream) # {} /\ in_valid_upstream THEN masked_state_regs ELSE Outputs
NextState(stop_downstream) ==
  IF internal_stops(stop_downstream) # {} /\ in_valid_upstream
  THEN internal_stops(stop_downstream) ELSE Outputs

-----------------------------------------------------------------------------
Init ==
  /\ config \in BitConfigs
  /\ state_regs = {First}
  /\ waiting = 0 /\ condition = "none"
  /\ consumed = 0 /\ decided = 0
  /\ got = [o \in Outputs |-> 0]
  /\ due = [o \in Outputs |-> 0]
  /\ late = FALSE
  /\ stalled = {}

(* CGRA_Reset reaches the fork and its sources together.                   *)
Reset ==
  /\ state_regs' = {First}
  /\ waiting' = 0 /\ condition' = "none"
  /\ consumed' = 0 /\ decided' = 0
  /\ got' = [o \in Outputs |-> 0]
  /\ due' = [o \in Outputs |-> 0]
  /\ late' = FALSE
  /\ stalled' = {}
  /\ UNCHANGED config

(* An edge at which the consumers of the outputs in stop_downstream stall, *)
(* and the sources hand in a token and the next condition, if they do.     *)
Clock(stop_downstream, arrives, next) ==
  LET released == in_valid_upstream /\ ~in_stop_upstream(stop_downstream)
      decides == condition # "none" /\ ~condition_stop_upstream(stop_downstream)
      taking == valid_downstream \ stop_downstream
      meant == IF released THEN muxed_condition ELSE {}
  IN  /\ arrives => waiting < Capacity /\ consumed + waiting < MaxTokens
      /\ next # "none" =>
           config.enable_condition /\ decided < MaxTokens /\ (condition = "none" \/ decides)
      /\ state_regs' = NextState(stop_downstream)
      /\ waiting' = waiting - (IF released THEN 1 ELSE 0) + (IF arrives THEN 1 ELSE 0)
      /\ condition' = IF condition = "none" \/ decides THEN next ELSE condition
      /\ consumed' = consumed + (IF released THEN 1 ELSE 0)
      /\ decided' = decided + (IF decides THEN 1 ELSE 0)
      /\ got' = [o \in Outputs |-> IF o \in taking THEN got[o] + 1 ELSE got[o]]
      /\ due' = [o \in Outputs |-> IF o \in meant THEN due[o] + 1 ELSE due[o]]
      /\ late' = (late \/ (in_valid_upstream /\ ~mask_valid_cond /\ internal_stops(stop_downstream) # {}))
      /\ stalled' = stop_downstream
      /\ UNCHANGED config

Tick == \E stop_downstream \in SUBSET Outputs, arrives \in BOOLEAN, next \in Conditions :
          Clock(stop_downstream, arrives, next)

Next == Tick \/ Reset
Spec == Init /\ [][Next]_vars

(* The clock runs for ever, and no consumer stalls for ever; consumers     *)
(* need never be ready in the same period.                                 *)
Serves(o) == \E stop_downstream \in SUBSET (Outputs \ {o}), arrives \in BOOLEAN, next \in Conditions :
               Clock(stop_downstream, arrives, next)
FairSpec ==
  /\ Spec
  /\ WF_vars(Tick)
  /\ \A o \in Outputs : SF_vars(in_valid_upstream /\ o \in masked_state_regs /\ Serves(o))

-----------------------------------------------------------------------------
TypeOK ==
  /\ config \in BitConfigs
  /\ state_regs \subseteq Outputs
  /\ waiting \in 0 .. Capacity
  /\ condition \in Conditions
  /\ consumed \in Nat /\ decided \in Nat
  /\ got \in [Outputs -> Nat] /\ due \in [Outputs -> Nat]
  /\ late \in BOOLEAN
  /\ stalled \subseteq Outputs

(* An output never takes a token twice, nor one of the other branch: it is *)
(* ahead of what was meant for it by at most the current token.            *)
NoneTwiceOrAstray ==
  \A o \in config.en_downstream :
    \/ got[o] <= due[o]
    \/ got[o] = due[o] + 1 /\ in_valid_upstream /\ mask_valid_cond /\ o \in muxed_condition

(* The n-th token is branched by the n-th condition: neither is released   *)
(* without the other.                                                      *)
TokensMeetConditions == config.enable_condition => decided = consumed

(* What is meant for an output reaches it, unless the condition came after *)
(* an output had stalled the token.                                        *)
LossOnlyWhenLate == ~late => \A o \in config.en_downstream : got[o] >= due[o]

(* Without a condition the module is the unit fork.                        *)
UnitFork(used) == INSTANCE EagerFork WITH Enabled <- used
UnconditionedIsUnitFork ==
  [][\A used \in SUBSET Outputs :
       config = ForkConfig(used) => UnitFork(used)!Next]_vars

(* The elastic protocol downstream: a token that was offered and stalled   *)
(* is offered again in the next period.                                    *)
OfferPersists == [][valid_downstream \cap stalled' \subseteq valid_downstream']_vars

(* A token whose condition has arrived leaves, unless a reset drops it.    *)
EveryDecidedTokenLeaves ==
  \A n \in 1 .. MaxTokens :
    (/\ consumed + waiting >= n
     /\ config.enable_condition => decided + (IF condition = "none" THEN 0 ELSE 1) >= n)
    ~> consumed >= n \/ consumed + waiting < n

(* What is meant for an output reaches it.                                 *)
TakenBranchServed == \A o \in config.en_downstream : got[o] >= due[o]
==============================================================================
