--------------------------- MODULE ForkBranch_proofs ---------------------------
(***************************************************************************)
(* The fork with branch, for any number of outputs, depth of the buffer    *)
(* and configuration: no output takes a token twice or one of the other    *)
(* branch, tokens and conditions stay paired, a token is only lost when    *)
(* its condition is late, and without a condition it is the unit fork.     *)
(***************************************************************************)
EXTENDS ForkBranch, TLAPS

(* An output that is ahead has taken the current token: its register is    *)
(* clear.                                                                  *)
Ahead(o) == in_valid_upstream /\ mask_valid_cond /\ o \in muxed_condition /\ o \notin state_regs
NotTwice ==
  \A o \in config.en_downstream : got[o] <= due[o] \/ (got[o] = due[o] + 1 /\ Ahead(o))

(* A branch with something to decide has a register set: only the period   *)
(* after a reset has none, and nothing has arrived by then.                *)
BranchIsArmed ==
  config.enable_condition /\ (in_valid_upstream \/ condition # "none") => masked_state_regs # {}

(* Unless a condition was late, a clear register means that the output has *)
(* the token, or is not meant to have it.                                  *)
ClearMeansTaken ==
  ~late /\ in_valid_upstream =>
    \A o \in config.en_downstream \ state_regs :
      mask_valid_cond /\ (o \in muxed_condition => got[o] = due[o] + 1)

Inv == TypeOK /\ NotTwice /\ BranchIsArmed /\ ClearMeansTaken /\ TokensMeetConditions /\ LossOnlyWhenLate

LEMMA ConfigFields ==
  ASSUME config \in BitConfigs
  PROVE  /\ config.enable_condition \in BOOLEAN
         /\ config.en_downstream \subseteq Outputs
         /\ config.enable_condition => config.en_downstream # {}
<1>1. CASE \E used \in SUBSET Outputs : config = ForkConfig(used)
  BY <1>1 DEF ForkConfig
<1>2. CASE \E t \in Outputs : \E f \in Outputs : config = BranchConfig(t, f)
  BY <1>2 DEF BranchConfig
<1> QED
  BY <1>1, <1>2 DEF BitConfigs

LEMMA ZeroCounts == [o \in Outputs |-> 0] \in [Outputs -> Nat]
<1> QED
  OBVIOUS

LEMMA InitInv == Init => Inv
<1> SUFFICES ASSUME Init
             PROVE  Inv
  OBVIOUS
<1>1. config.en_downstream \subseteq Outputs
  BY ConfigFields DEF Init
<1>2. TypeOK
  <2>1. 0 \in 0 .. Capacity /\ {First} \subseteq Outputs /\ {} \subseteq Outputs
    BY OutputsAssumption, BoundsAssumption
  <2>2. 0 \in Nat /\ "none" \in Conditions /\ FALSE \in BOOLEAN
    BY DEF Conditions
  <2> QED
    BY <2>1, <2>2, ZeroCounts, Zenon DEF Init, TypeOK
<1>3. waiting = 0 /\ condition = "none" /\ consumed = decided /\ \A o \in Outputs : got[o] = 0 /\ due[o] = 0
  BY DEF Init
<1>4. ~in_valid_upstream
  BY <1>3 DEF in_valid_upstream
<1>5. NotTwice /\ LossOnlyWhenLate
  BY <1>1, <1>3 DEF NotTwice, LossOnlyWhenLate
<1>6. BranchIsArmed /\ ClearMeansTaken /\ TokensMeetConditions
  BY <1>3, <1>4 DEF BranchIsArmed, ClearMeansTaken, TokensMeetConditions
<1> QED
  BY <1>2, <1>5, <1>6 DEF Inv

LEMMA ResetInv == Inv /\ Reset => Inv'
<1> SUFFICES ASSUME Inv, Reset
             PROVE  Inv'
  OBVIOUS
<1>1. config.en_downstream \subseteq Outputs
  BY ConfigFields DEF Inv, TypeOK
<1>2. TypeOK'
  <2>1. 0 \in 0 .. Capacity /\ {First} \subseteq Outputs /\ {} \subseteq Outputs
    BY OutputsAssumption, BoundsAssumption
  <2>2. 0 \in Nat /\ "none" \in Conditions /\ FALSE \in BOOLEAN
    BY DEF Conditions
  <2>3. config' \in BitConfigs
    BY DEF Inv, Reset, TypeOK
  <2> QED
    BY <2>1, <2>2, <2>3, ZeroCounts, Zenon DEF Reset, TypeOK
<1>3. /\ waiting' = 0 /\ condition' = "none" /\ consumed' = decided' /\ config' = config
      /\ \A o \in Outputs : got'[o] = 0 /\ due'[o] = 0
  BY DEF Reset
<1>4. ~in_valid_upstream'
  BY <1>3 DEF in_valid_upstream
<1>5. NotTwice' /\ LossOnlyWhenLate'
  BY <1>1, <1>3 DEF NotTwice, LossOnlyWhenLate
<1>6. BranchIsArmed' /\ ClearMeansTaken' /\ TokensMeetConditions'
  BY <1>3, <1>4 DEF BranchIsArmed, ClearMeansTaken, TokensMeetConditions
<1> QED
  BY <1>2, <1>5, <1>6 DEF Inv

LEMMA ClockInv ==
  ASSUME Inv, NEW s \in SUBSET Outputs, NEW arrives \in BOOLEAN, NEW next \in Conditions,
         Clock(s, arrives, next)
  PROVE  Inv'
<1> DEFINE stops == internal_stops(s)
<1> DEFINE released == in_valid_upstream /\ ~in_stop_upstream(s)
<1> DEFINE decides == condition # "none" /\ ~condition_stop_upstream(s)
<1> DEFINE taking == valid_downstream \ s
<1> DEFINE en == config.en_downstream
<1> DEFINE enable == config.enable_condition
<1>1. /\ enable \in BOOLEAN /\ en \subseteq Outputs /\ (enable => en # {})
      /\ state_regs \subseteq Outputs /\ waiting \in Nat /\ waiting <= Capacity /\ Capacity \in Nat
      /\ condition \in Conditions
      /\ consumed \in Nat /\ decided \in Nat
      /\ got \in [Outputs -> Nat] /\ due \in [Outputs -> Nat] /\ late \in BOOLEAN
  BY ConfigFields, BoundsAssumption DEF Inv, TypeOK
<1>2. /\ arrives => waiting < Capacity
      /\ next # "none" => enable
      /\ state_regs' = NextState(s)
      /\ waiting' = waiting - (IF released THEN 1 ELSE 0) + (IF arrives THEN 1 ELSE 0)
      /\ condition' = IF condition = "none" \/ decides THEN next ELSE condition
      /\ consumed' = consumed + (IF released THEN 1 ELSE 0)
      /\ decided' = decided + (IF decides THEN 1 ELSE 0)
      /\ got' = [o \in Outputs |-> IF o \in taking THEN got[o] + 1 ELSE got[o]]
      /\ due' = [o \in Outputs |-> IF released /\ o \in muxed_condition THEN due[o] + 1 ELSE due[o]]
      /\ late' = (late \/ (in_valid_upstream /\ ~mask_valid_cond /\ stops # {}))
      /\ stalled' = s
      /\ config' = config
  BY DEF Clock
(* The fork releases its token when nobody stalls and the condition is     *)
(* there, and a branch releases the two together.                          *)
<1>3. /\ stops \subseteq s /\ stops \subseteq state_regs
      /\ \A o \in en \cap state_regs : o \notin stops => o \notin s
  BY DEF internal_stops, masked_state_regs
<1>4. released => stops = {} /\ mask_valid_cond
  BY DEF Inv, BranchIsArmed, in_stop_upstream, mask_valid_cond
<1>5. in_valid_upstream /\ mask_valid_cond /\ stops = {} => released
  BY DEF in_stop_upstream
<1>6. enable => (released <=> decides)
  BY <1>4, <1>5 DEF Inv, BranchIsArmed, condition_stop_upstream, in_stop_upstream, mask_valid_cond
<1>7. taking = {o \in en \cap state_regs : in_valid_upstream /\ mask_valid_cond /\ o \in muxed_condition
                                             /\ o \notin s}
  BY DEF valid_downstream, masked_state_regs
(* While somebody stalls a token, the token and its condition stay.        *)
<1>8. stops # {} /\ in_valid_upstream =>
        /\ state_regs' = stops /\ in_valid_upstream'
        /\ mask_valid_cond => mask_valid_cond' /\ muxed_condition' = muxed_condition
  <2> SUFFICES ASSUME stops # {}, in_valid_upstream
               PROVE  /\ state_regs' = stops /\ in_valid_upstream'
                      /\ mask_valid_cond => mask_valid_cond' /\ muxed_condition' = muxed_condition
    OBVIOUS
  <2>1. ~released
    BY <1>4
  <2>2. state_regs' = stops
    BY <1>2 DEF NextState
  <2>3. in_valid_upstream'
    BY <1>1, <1>2, <2>1 DEF in_valid_upstream
  <2>4. CASE enable
    <3>1. ~decides
      BY <1>6, <2>1, <2>4
    <3>2. mask_valid_cond => condition' = condition
      BY <1>2, <3>1, <2>4 DEF mask_valid_cond
    <3>3. mask_valid_cond => mask_valid_cond' /\ mask_cond' = mask_cond
      BY <1>2, <3>2 DEF mask_valid_cond, mask_cond
    <3>4. mask_valid_cond => muxed_condition' = muxed_condition
      BY <1>2, <3>3 DEF muxed_condition
    <3> QED
      BY <2>2, <2>3, <3>3, <3>4
  <2>5. CASE ~enable
    BY <1>2, <2>2, <2>3, <2>5 DEF mask_valid_cond, muxed_condition
  <2> QED
    BY <2>4, <2>5
<1>9. ~(stops # {} /\ in_valid_upstream) => state_regs' = Outputs
  BY <1>2 DEF NextState
<1>10. \A o \in en : /\ got[o] \in Nat /\ due[o] \in Nat
                     /\ got'[o] = IF o \in taking THEN got[o] + 1 ELSE got[o]
                     /\ due'[o] = IF released /\ o \in muxed_condition THEN due[o] + 1 ELSE due[o]
  BY <1>1, <1>2
<1>11. TypeOK'
  <2>1. waiting' \in 0 .. Capacity
    BY <1>1, <1>2 DEF in_valid_upstream
  <2>2. state_regs' \subseteq Outputs
    BY <1>1, <1>3, <1>8, <1>9
  <2>3. consumed' \in Nat /\ decided' \in Nat
    BY <1>1, <1>2
  <2>4. got' \in [Outputs -> Nat] /\ due' \in [Outputs -> Nat]
    BY <1>1, <1>2
  <2> QED
    BY <1>1, <1>2, <2>1, <2>2, <2>3, <2>4 DEF Inv, TypeOK
<1>12. NotTwice'
  <2> SUFFICES ASSUME NEW o \in en
               PROVE  got'[o] <= due'[o] \/ (got'[o] = due'[o] + 1 /\ Ahead(o)')
    BY <1>2 DEF NotTwice
  <2>1. got[o] <= due[o] \/ (got[o] = due[o] + 1 /\ Ahead(o))
    BY DEF Inv, NotTwice
  <2>2. CASE o \in taking
    <3>1. in_valid_upstream /\ mask_valid_cond /\ o \in muxed_condition /\ o \in state_regs /\ o \notin s
      BY <1>7, <2>2
    <3>2. got[o] <= due[o]
      BY <2>1, <3>1 DEF Ahead
    <3>3. CASE released
      BY <1>10, <2>2, <3>1, <3>2, <3>3
    <3>4. CASE ~released
      <4>1. stops # {} /\ o \notin stops
        BY <1>3, <1>5, <3>1, <3>4
      <4>2. Ahead(o)'
        BY <1>8, <3>1, <4>1 DEF Ahead
      <4>3. got'[o] = got[o] + 1 /\ due'[o] = due[o]
        BY <1>10, <2>2, <3>4
      <4> QED
        BY <1>10, <3>2, <4>2, <4>3
    <3> QED
      BY <3>3, <3>4
  <2>3. CASE o \notin taking /\ got[o] <= due[o]
    BY <1>10, <2>3
  <2>4. CASE o \notin taking /\ got[o] = due[o] + 1 /\ Ahead(o)
    <3>1. CASE released
      BY <1>10, <2>4, <3>1 DEF Ahead
    <3>2. CASE ~released
      <4>1. stops # {} /\ o \notin stops
        BY <1>3, <1>5, <2>4, <3>2 DEF Ahead
      <4> QED
        BY <1>8, <1>10, <2>4, <3>2, <4>1 DEF Ahead
    <3> QED
      BY <3>1, <3>2
  <2> QED
    BY <2>1, <2>2, <2>3, <2>4
<1>13. BranchIsArmed'
  <2> SUFFICES ASSUME enable
               PROVE  (state_regs' \cap en) # {}
    BY <1>2 DEF BranchIsArmed, masked_state_regs
  <2>1. stops \subseteq en
    BY DEF internal_stops, masked_state_regs
  <2> QED
    BY <1>1, <1>8, <1>9, <2>1
<1>14. ClearMeansTaken'
  <2> SUFFICES ASSUME ~late', NEW o \in en, o \notin state_regs'
               PROVE  mask_valid_cond' /\ (o \in muxed_condition' => got'[o] = due'[o] + 1)
    BY <1>2 DEF ClearMeansTaken
  <2>1. stops # {} /\ in_valid_upstream /\ o \notin stops /\ ~released
    BY <1>1, <1>4, <1>8, <1>9
  <2>2. ~late /\ mask_valid_cond
    BY <1>2, <2>1
  <2>3. mask_valid_cond' /\ muxed_condition' = muxed_condition
    BY <1>8, <2>1, <2>2
  <2>4. CASE o \in state_regs /\ o \in muxed_condition
    <3>1. o \in taking
      BY <1>3, <1>7, <2>1, <2>2, <2>4
    <3>2. got[o] = due[o]
      BY <1>10, <2>2, <2>4 DEF Inv, NotTwice, Ahead, LossOnlyWhenLate
    <3> QED
      BY <1>10, <2>1, <2>3, <3>1, <3>2
  <2>5. CASE o \notin state_regs /\ o \in muxed_condition
    <3>1. o \notin taking
      BY <1>7, <2>5
    <3>2. got[o] = due[o] + 1
      BY <2>1, <2>2, <2>5 DEF Inv, ClearMeansTaken
    <3> QED
      BY <1>10, <2>1, <2>3, <3>1, <3>2
  <2> QED
    BY <2>3, <2>4, <2>5
<1>15. TokensMeetConditions'
  BY <1>1, <1>2, <1>6 DEF Inv, TokensMeetConditions
<1>16. LossOnlyWhenLate'
  <2> SUFFICES ASSUME ~late', NEW o \in en
               PROVE  got'[o] >= due'[o]
    BY <1>2 DEF LossOnlyWhenLate
  <2>1. ~late /\ got[o] >= due[o]
    BY <1>2 DEF Inv, LossOnlyWhenLate
  <2>2. CASE released /\ o \in muxed_condition
    <3>1. stops = {} /\ mask_valid_cond /\ in_valid_upstream
      BY <1>4, <2>2
    <3>2. CASE o \in state_regs
      <4>1. o \in taking
        BY <1>3, <1>7, <2>2, <3>1, <3>2
      <4> QED
        BY <1>10, <2>1, <2>2, <4>1
    <3>3. CASE o \notin state_regs
      <4>1. got[o] = due[o] + 1
        BY <2>1, <2>2, <3>1, <3>3 DEF Inv, ClearMeansTaken
      <4> QED
        BY <1>10, <2>2, <4>1
    <3> QED
      BY <3>2, <3>3
  <2>3. CASE ~(released /\ o \in muxed_condition)
    BY <1>10, <2>1, <2>3
  <2> QED
    BY <2>2, <2>3
<1> QED
  BY <1>11, <1>12, <1>13, <1>14, <1>15, <1>16 DEF Inv

LEMMA NextInv == Inv /\ [Next]_vars => Inv'
<1>1. Inv /\ UNCHANGED vars => Inv'
  BY DEF vars, Inv, TypeOK, NotTwice, Ahead, BranchIsArmed, ClearMeansTaken, TokensMeetConditions,
     LossOnlyWhenLate, in_valid_upstream, mask_valid_cond, mask_cond, muxed_condition, masked_state_regs
<1> QED
  BY <1>1, ResetInv, ClockInv DEF Next, Tick

LEMMA Invariance == Spec => []Inv
<1> QED
  BY InitInv, NextInv, PTL DEF Spec

-------------------------------------------------------------------------------
(* Whatever the stalls and the arrivals, an output takes no token twice    *)
(* and none of the other branch.                                           *)
THEOREM NeverTwice == Spec => [](TypeOK /\ NoneTwiceOrAstray)
<1>1. Inv => TypeOK /\ NoneTwiceOrAstray
  BY DEF Inv, NotTwice, Ahead, NoneTwiceOrAstray
<1> QED
  BY <1>1, Invariance, PTL

(* A clock edge of an unconditioned fork is one of the unit fork.          *)
LEMMA UnitForkStep ==
  ASSUME NEW used \in SUBSET Outputs, config = ForkConfig(used), Next
  PROVE  UnitFork(used)!Next
<1>1. ~config.enable_condition /\ config.en_downstream = used
  BY DEF ForkConfig
<1>2. CASE Reset
  BY <1>2 DEF Reset, UnitFork!Next, UnitFork!Reset
<1>3. ASSUME NEW s \in SUBSET Outputs, NEW arrives \in BOOLEAN, NEW next \in Conditions,
             Clock(s, arrives, next)
      PROVE  UnitFork(used)!Clock(s, arrives)
  <2>1. internal_stops(s) = UnitFork(used)!internal_stops(s)
    BY <1>1 DEF internal_stops, masked_state_regs, UnitFork!internal_stops, UnitFork!masked_state_regs
  <2>2. in_valid_upstream <=> UnitFork(used)!valid_upstream
    BY DEF in_valid_upstream, UnitFork!valid_upstream
  <2>3. in_stop_upstream(s) <=> UnitFork(used)!stop_upstream(s)
    BY <1>1, <2>1 DEF in_stop_upstream, mask_valid_cond, UnitFork!stop_upstream
  <2>4. masked_state_regs \cap Outputs = masked_state_regs
    BY <1>1 DEF masked_state_regs
  <2>5. valid_downstream = UnitFork(used)!valid_downstream
    BY <1>1, <2>2, <2>4 DEF valid_downstream, mask_valid_cond, muxed_condition, masked_state_regs,
       UnitFork!valid_downstream, UnitFork!masked_state_regs
  <2>6. NextState(s) = UnitFork(used)!NextState(s)
    BY <2>1, <2>2 DEF NextState, UnitFork!NextState, UnitFork!stop_upstream
  <2> QED
    BY <1>3, <2>2, <2>3, <2>5, <2>6 DEF Clock, UnitFork!Clock
<1> QED
  BY <1>2, <1>3 DEF Next, Tick, UnitFork!Next, UnitFork!Tick

(* Without a condition the fork with branch is the unit fork, of which     *)
(* ElasticPE_proofs tells the rest.                                        *)
THEOREM UnconditionedFork == Spec => UnconditionedIsUnitFork
<1>1. ASSUME [Next]_vars
      PROVE  [\A used \in SUBSET Outputs : config = ForkConfig(used) => UnitFork(used)!Next]_vars
  BY <1>1, UnitForkStep
<1> QED
  BY <1>1, PTL DEF Spec, UnconditionedIsUnitFork

(* A condition is released exactly when its token is.                      *)
THEOREM TokensMeet == Spec => []TokensMeetConditions
<1>1. Inv => TokensMeetConditions
  BY DEF Inv
<1> QED
  BY <1>1, Invariance, PTL

(* A token is lost only if an output stalled it before its condition was   *)
(* there.                                                                  *)
THEOREM LossExplained == Spec => []LossOnlyWhenLate
<1>1. Inv => LossOnlyWhenLate
  BY DEF Inv
<1> QED
  BY <1>1, Invariance, PTL
===============================================================================
