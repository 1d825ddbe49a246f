-------------------------- MODULE ElasticPE_proofs --------------------------
(***************************************************************************)
(* The crossbar fork serves every enabled output exactly once per token,   *)
(* for any set of outputs, any configuration and any buffer depth; and the *)
(* unit in front of it keeps its valid bits in step with its data, keeps   *)
(* the operands of a token together and, unless the wrapper's late stop    *)
(* met operands, hands every pair on once and in order, for any modes,     *)
(* latencies and depths; a loop through the unit with room for two words   *)
(* always does.                                                            *)
(***************************************************************************)
EXTENDS ElasticPE, SequenceTheorems, TLAPS

-----------------------------------------------------------------------------
(* The fork.                                                               *)
(* Between reset and the first edge the registers say nothing, but there   *)
(* is no token either.                                                     *)
JustReset == waiting = 0 /\ \A o \in Outputs : got[o] = consumed

(* From then on a register is set exactly while its output is level with   *)
(* the input.                                                              *)
RegistersTrack ==
  \A o \in Enabled :
    IF o \in state_regs THEN got[o] = consumed ELSE got[o] = consumed + 1 /\ waiting > 0

IInv == TypeOK /\ (JustReset \/ RegistersTrack)

LEMMA InitInv == Init => IInv
  BY OutputsAssumption, BoundsAssumption DEF Init, IInv, TypeOK, JustReset

LEMMA ResetInv == ASSUME Reset PROVE IInv'
  BY OutputsAssumption, BoundsAssumption DEF Reset, IInv, TypeOK, JustReset

LEMMA ClockInv ==
  ASSUME IInv, NEW stop \in SUBSET Outputs, NEW arrives \in BOOLEAN, Clock(stop, arrives)
  PROVE  IInv'
<1> DEFINE stuck == internal_stops(stop)
           released == IF valid_upstream /\ ~stop_upstream(stop) THEN 1 ELSE 0
<1> USE OutputsAssumption, BoundsAssumption
<1>1. TypeOK'
  <2>1. state_regs' \subseteq Outputs
    BY DEF IInv, TypeOK, Clock, NextState, internal_stops, masked_state_regs
  <2>2. waiting' \in 0 .. Capacity
    BY DEF IInv, TypeOK, Clock, valid_upstream
  <2>3. consumed' \in Nat
    BY DEF IInv, TypeOK, Clock
  <2>4. got' \in [Outputs -> Nat]
    BY DEF IInv, TypeOK, Clock
  <2> QED BY <2>1, <2>2, <2>3, <2>4 DEF Clock, TypeOK
<1>2. RegistersTrack'
  <2> SUFFICES ASSUME NEW o \in Enabled
               PROVE  IF o \in state_regs' THEN got'[o] = consumed'
                      ELSE got'[o] = consumed' + 1 /\ waiting' > 0
    BY DEF RegistersTrack
  <2>1. /\ got'[o] = IF waiting > 0 /\ o \in state_regs /\ o \notin stop THEN got[o] + 1 ELSE got[o]
        /\ got[o] \in Nat
    BY DEF IInv, TypeOK, Clock, valid_downstream, masked_state_regs, valid_upstream
  <2>2. state_regs' = IF stuck # {} /\ waiting > 0 THEN stuck ELSE Outputs
    BY DEF Clock, NextState, stop_upstream, valid_upstream
  <2>3. o \in stuck <=> o \in stop /\ o \in state_regs
    BY DEF internal_stops, masked_state_regs
  <2>4. waiting \in Nat /\ consumed \in Nat
    BY DEF IInv, TypeOK
  <2>5. CASE waiting = 0
    <3>1. got[o] = consumed
      BY <2>5 DEF IInv, JustReset, RegistersTrack
    <3>2. consumed' = consumed
      BY <2>4, <2>5 DEF Clock, valid_upstream
    <3> QED BY <2>1, <2>2, <2>4, <2>5, <3>1, <3>2
  <2>6. CASE waiting > 0
    <3>1. IF o \in state_regs THEN got[o] = consumed ELSE got[o] = consumed + 1
      BY <2>6 DEF IInv, JustReset, RegistersTrack
    <3>2. CASE stuck = {}
      <4>1. consumed' = consumed + 1
        BY <2>4, <2>6, <3>2 DEF Clock, valid_upstream, stop_upstream
      <4> QED BY <2>1, <2>2, <2>3, <2>4, <2>6, <3>1, <3>2, <4>1
    <3>3. CASE stuck # {}
      <4>1. consumed' = consumed /\ waiting' > 0
        BY <2>4, <2>6, <3>3 DEF Clock, valid_upstream, stop_upstream
      <4> QED BY <2>1, <2>2, <2>3, <2>4, <2>6, <3>1, <3>3, <4>1
    <3> QED BY <3>2, <3>3
  <2> QED BY <2>4, <2>5, <2>6
<1> QED BY <1>1, <1>2 DEF IInv

LEMMA Invariance == Spec => []IInv
<1>1. IInv /\ [Next]_vars => IInv'
  <2>1. ASSUME IInv, UNCHANGED vars PROVE IInv'
    BY <2>1 DEF IInv, TypeOK, JustReset, RegistersTrack, vars
  <2> QED BY <2>1, ClockInv, ResetInv DEF Next, Tick
<1> QED BY <1>1, InitInv, PTL DEF Spec

(* The registers stay in range.                                            *)
THEOREM TypeCorrect == Spec => []TypeOK
<1>1. IInv => TypeOK
  BY DEF IInv
<1> QED BY <1>1, Invariance, PTL

(* No enabled output misses a token or takes one twice, and a clear        *)
(* register stands for a token taken.                                      *)
THEOREM ServedOnce == Spec => [](ServedOncePerToken /\ ClearMeansTaken)
<1>1. IInv => ServedOncePerToken /\ ClearMeansTaken
  <2> SUFFICES ASSUME IInv, NEW o \in Enabled
               PROVE  /\ got[o] = consumed \/ (got[o] = consumed + 1 /\ valid_upstream)
                      /\ o \notin state_regs => got[o] = consumed + 1 \/ ~valid_upstream
    BY DEF ServedOncePerToken, ClearMeansTaken
  <2> QED BY OutputsAssumption DEF IInv, TypeOK, JustReset, RegistersTrack, valid_upstream
<1> QED BY <1>1, Invariance, PTL

(* An offer that was stalled is repeated in the next period.               *)
THEOREM OffersPersist == Spec => OfferPersists
<1>1. IInv /\ [Next]_vars => [valid_downstream \cap stalled' \subseteq valid_downstream']_vars
  <2>1. ASSUME IInv, NEW stop \in SUBSET Outputs, NEW arrives \in BOOLEAN, Clock(stop, arrives),
               NEW o \in valid_downstream \cap stalled'
        PROVE  o \in valid_downstream'
    <3>1. o \in internal_stops(stop) /\ waiting > 0 /\ o \in Enabled
      BY <2>1 DEF Clock, valid_downstream, valid_upstream, internal_stops, masked_state_regs
    <3>2. o \in state_regs'
      BY <2>1, <3>1 DEF Clock, NextState, stop_upstream, valid_upstream
    <3>3. waiting' > 0
      BY <2>1, <3>1, BoundsAssumption DEF Clock, stop_upstream, valid_upstream, IInv, TypeOK
    <3> QED BY <3>1, <3>2, <3>3 DEF valid_downstream, valid_upstream, masked_state_regs
  <2>2. ASSUME Reset PROVE valid_downstream \cap stalled' \subseteq valid_downstream'
    BY <2>2 DEF Reset
  <2> QED BY <2>1, <2>2 DEF Next, Tick
<1> QED BY <1>1, Invariance, PTL DEF Spec, OfferPersists

-----------------------------------------------------------------------------
(* The processing element: its fork is the fork above.                     *)

LEMMA PEStepIsForkStep == ASSUME [PENext]_all_vars PROVE [Next]_vars
<1>1. ASSUME NEW stops \in SUBSET Outputs, NEW offered \in BOOLEAN, NEW arriving \in Arrivals,
             PEClock(stops, arriving, offered)
      PROVE  Tick
  <2> DEFINE feedback == IF wiring = "accumulate" THEN {ToA} ELSE {}
             stop_downstream == (stops \ feedback) \cup {o \in feedback : full("A")}
             pushed == data_out_valid /\ ~out_stop
  <2>1. Clock(stop_downstream, pushed)
    BY <1>1 DEF PEClock
  <2>2. stop_downstream \in SUBSET Outputs /\ pushed \in BOOLEAN
    BY WiresAssumption
  <2> HIDE DEF stop_downstream, pushed
  <2> QED BY <2>1, <2>2 DEF Tick
<1>2. PEReset => Reset
  BY DEF PEReset
<1>3. UNCHANGED all_vars => UNCHANGED vars
  BY DEF all_vars, fork_vars, vars
<1> QED BY <1>1, <1>2, <1>3 DEF PENext, PETick, Next

LEMMA PEForkInvariance == PESpec => []IInv
<1>1. PEInit => IInv
  BY InitInv DEF PEInit
<1>2. IInv /\ [PENext]_all_vars => IInv'
  <2>1. ASSUME IInv, UNCHANGED vars PROVE IInv'
    BY <2>1 DEF IInv, TypeOK, JustReset, RegistersTrack, vars
  <2>2. [PENext]_all_vars => [Next]_vars
    BY PEStepIsForkStep
  <2> QED BY <2>1, <2>2, ClockInv, ResetInv DEF Next, Tick
<1> QED BY <1>1, <1>2, PTL DEF PESpec

(* No output of the PE's fork misses a result or takes one twice.          *)
THEOREM PEServedOnce == PESpec => []ServedOncePerToken
<1>1. IInv => ServedOncePerToken
  <2> SUFFICES ASSUME IInv, NEW o \in Enabled
               PROVE  got[o] = consumed \/ (got[o] = consumed + 1 /\ valid_upstream)
    BY DEF ServedOncePerToken
  <2> QED BY OutputsAssumption DEF IInv, TypeOK, JustReset, RegistersTrack, valid_upstream
<1> QED BY <1>1, PEForkInvariance, PTL

-----------------------------------------------------------------------------
(* One step of a queue, which d oldest elements leave and to which e come, *)
(* at most one each.                                                       *)
QueueAfter(s, d, e, x) == (IF d = 1 THEN Tail(s) ELSE s) \o (IF e = 1 THEN <<x>> ELSE <<>>)

QueueStepped(S, s, d, e, x, t) ==
  /\ t \in Seq(S)
  /\ Len(t) = Len(s) - d + e
  /\ \A k \in 1 .. Len(s) - d : t[k] = s[k + d]
  /\ e = 1 => t[Len(t)] = x

LEMMA QueueStep ==
  ASSUME NEW S, NEW s \in Seq(S), NEW d \in 0 .. 1, d = 1 => s # <<>>,
         NEW e \in 0 .. 1, NEW x, e = 1 => x \in S,
         NEW t, t = QueueAfter(s, d, e, x)
  PROVE  QueueStepped(S, s, d, e, x, t)
<1> DEFINE a == IF d = 1 THEN Tail(s) ELSE s
           b == IF e = 1 THEN <<x>> ELSE <<>>
<1>1. /\ a \in Seq(S) /\ Len(s) \in Nat
      /\ Len(a) = Len(s) - d /\ Len(a) \in Nat
      /\ \A k \in 1 .. Len(a) : a[k] = s[k + d]
  <2>1. CASE d = 1
    <3>1. /\ Tail(s) \in Seq(S) /\ Len(Tail(s)) = Len(s) - 1
          /\ \A i \in 1 .. Len(Tail(s)) : Tail(s)[i] = s[i + 1]
      BY <2>1, HeadTailProperties
    <3>2. Len(s) \in Nat /\ Len(Tail(s)) \in Nat
      BY <3>1, LenProperties
    <3> QED BY <2>1, <3>1, <3>2
  <2>2. CASE d = 0
    BY <2>2, LenProperties
  <2> QED BY <2>1, <2>2
<1>2. b \in Seq(S) /\ Len(b) = e /\ (e = 1 => b[1] = x)
  OBVIOUS
<1> HIDE DEF a, b
<1>3. /\ a \o b \in Seq(S)
      /\ Len(a \o b) = Len(a) + Len(b)
      /\ \A i \in 1 .. Len(a) + Len(b) : (a \o b)[i] = IF i <= Len(a) THEN a[i] ELSE b[i - Len(a)]
  BY <1>1, <1>2, ConcatProperties
<1>4. t = a \o b
  BY DEF QueueAfter, a, b
<1> HIDE DEF a, b
<1>5. \A k \in 1 .. Len(a) : t[k] = a[k]
  <2> TAKE k \in 1 .. Len(a)
  <2>1. k \in 1 .. Len(a) + Len(b) /\ k <= Len(a)
    BY <1>1, <1>2
  <2> QED BY <1>3, <1>4, <2>1
<1>6. e = 1 => t[Len(t)] = b[1]
  <2> SUFFICES ASSUME e = 1 PROVE t[Len(t)] = b[1]
    OBVIOUS
  <2>1. Len(t) = Len(a) + 1 /\ Len(t) \in 1 .. Len(a) + Len(b) /\ ~(Len(t) <= Len(a))
    BY <1>1, <1>2, <1>3, <1>4
  <2>2. Len(t) - Len(a) = 1
    BY <1>1, <2>1
  <2> QED BY <1>3, <1>4, <2>1, <2>2
<1> QED BY <1>1, <1>2, <1>3, <1>4, <1>5, <1>6 DEF QueueStepped

-----------------------------------------------------------------------------
(* Types, and the valid bits in step with the data.  A valid bit is set    *)
(* for operands with a number, and that of an operand is at least 1 except *)
(* for the result that a loop feeds back.  Until the first edge after a    *)
(* reset the unit may be in another mode than the configured one; then     *)
(* there is nothing in it and nothing before it.                           *)
OperandsNumbered ==
  \A o \in Operands : o = "B" \/ wiring = "unary" =>
    \A k \in 1 .. Len(fifo[o]) : fifo[o][k] >= 1
ModeSettled ==
  curr_opcode # opcode => fifo["A"] = <<>> /\ \A i \in Ages : ~register[i]
LinesInStep == \A i \in Ages : register[i] <=> core[i] # Induced

PEInv == IInv /\ PETypeOK /\ OperandsNumbered /\ ModeSettled /\ LinesInStep

LEMMA AgesOfUnit ==
  ASSUME NEW op \in Opcodes
  PROVE  /\ Latency[op] \in Nat /\ (Latency[op] # 0 => Latency[op] \in Ages)
         /\ 1 \in Ages /\ \A i \in Ages : i # 1 => i - 1 \in Ages
  BY UnitAssumption DEF Ages

(* What the join hands to the unit, and the unit to the inducer.           *)
LEMMA Combinational ==
  ASSUME PEInv
  PROVE  /\ join_valid <=> \A o \in enable : fifo[o] # <<>>
         /\ join_valid => fifo["A"] # <<>>
         /\ operands \in Results /\ (operands # Induced <=> join_valid)
         /\ fp_out \in Results /\ (fp_valid <=> fp_out # Induced)
         /\ data_out \in Results
<1> USE DEF PEInv
<1>1. "A" \in Operands /\ "B" \in Operands /\ "A" \in enable /\ enable \subseteq Operands
  BY DEF Operands, enable
<1>2. /\ join_valid <=> \A o \in enable : fifo[o] # <<>>
      /\ join_valid => fifo["A"] # <<>>
  BY <1>1 DEF join_valid, masked_valid
<1>3. operands \in Results /\ (operands # Induced <=> join_valid)
  <2>1. CASE ~join_valid
    BY <2>1 DEF operands, Induced, Results
  <2>2. CASE join_valid
    <3>1. fifo["A"] \in Seq(Nat) /\ fifo["B"] \in Seq(Nat)
      BY <1>1 DEF PETypeOK
    <3>2. Head(fifo["A"]) \in Nat /\ Head(fifo["A"]) = fifo["A"][1] /\ 1 \in 1 .. Len(fifo["A"])
      BY <1>2, <2>2, <3>1, HeadTailProperties, EmptySeq
    <3>3. CASE "B" \in enable
      <4>1. Head(fifo["B"]) \in Nat /\ Head(fifo["B"]) = fifo["B"][1] /\ 1 \in 1 .. Len(fifo["B"])
        BY <1>2, <2>2, <3>1, <3>3, HeadTailProperties, EmptySeq
      <4>2. fifo["B"][1] >= 1
        BY <1>1, <4>1 DEF OperandsNumbered
      <4> QED BY <2>2, <3>2, <3>3, <4>1, <4>2 DEF operands, Induced, Results
    <3>4. CASE "B" \notin enable
      <4>1. wiring = "unary"
        BY <1>1, <3>4 DEF enable
      <4>2. fifo["A"][1] >= 1
        BY <1>1, <3>2, <4>1 DEF OperandsNumbered
      <4> QED BY <2>2, <3>2, <3>4, <4>2 DEF operands, Induced, Results
    <3> QED BY <3>3, <3>4
  <2> QED BY <2>1, <2>2
<1>4. opcode \in Opcodes /\ curr_opcode \in Opcodes /\ core \in [Ages -> Results]
      /\ register \in [Ages -> BOOLEAN]
  BY DEF PETypeOK
<1>5. fp_out \in Results
  BY <1>3, <1>4, AgesOfUnit DEF fp_out
<1>6. fp_valid <=> fp_out # Induced
  <2>1. CASE curr_opcode = opcode
    BY <1>3, <1>4, <2>1, AgesOfUnit DEF fp_valid, fp_out, LinesInStep
  <2>2. CASE curr_opcode # opcode
    <3>1. ~join_valid /\ \A i \in Ages : ~register[i] /\ core[i] = Induced
      BY <1>2, <2>2 DEF ModeSettled, LinesInStep
    <3> QED BY <1>3, <1>4, <3>1, AgesOfUnit DEF fp_valid, fp_out
  <2> QED BY <2>1, <2>2
<1>7. data_out \in Results
  BY <1>5 DEF data_out, Induced, Results
<1> QED BY <1>2, <1>3, <1>5, <1>6, <1>7

(* One step of the input buffers.                                          *)
Popped(o) == IF popped(o) THEN 1 ELSE 0
Came(o, arriving) == IF o \in arriving THEN 1 ELSE 0

LEMMA FeedStep ==
  ASSUME PEInv, NEW arriving \in Arrivals, Feed(arriving), NEW o \in Operands
  PROVE  /\ Popped(o) \in 0 .. 1 /\ Came(o, arriving) \in 0 .. 1
         /\ fifo[o] \in Seq(Nat) /\ fifo'[o] \in Seq(Nat)
         /\ Len(fifo'[o]) = Len(fifo[o]) - Popped(o) + Came(o, arriving)
         /\ \A k \in 1 .. Len(fifo[o]) - Popped(o) : fifo'[o][k] = fifo[o][k + Popped(o)]
         /\ o \in arriving => fifo'[o][Len(fifo'[o])] = TokenIn(o)
<1>1. fifo[o] \in Seq(Nat)
  BY DEF PEInv, PETypeOK
<1>2. o \in arriving => TokenIn(o) \in Nat
  <2> SUFFICES ASSUME o \in arriving PROVE TokenIn(o) \in Nat
    OBVIOUS
  <2>1. CASE wiring = "accumulate" /\ o = "A"
    <3>1. waiting > 0
      BY <2>1 DEF Arrivals, valid_downstream, valid_upstream
    <3>2. buffOut \in Seq(Results) /\ Len(buffOut) = waiting
      BY DEF PEInv, PETypeOK
    <3>3. buffOut # <<>>
      BY <3>1, <3>2, EmptySeq
    <3>4. Head(buffOut) \in Results
      BY <3>2, <3>3, HeadTailProperties
    <3> QED BY <2>1, <3>4 DEF TokenIn, Results
  <2>2. CASE ~(wiring = "accumulate" /\ o = "A")
    BY <2>2 DEF TokenIn, PEInv, PETypeOK
  <2> QED BY <2>1, <2>2
<1>3. /\ fifo'[o] = QueueAfter(fifo[o], Popped(o), Came(o, arriving), TokenIn(o))
      /\ Popped(o) \in 0 .. 1 /\ Came(o, arriving) \in 0 .. 1
      /\ Came(o, arriving) = 1 <=> o \in arriving
  <2>1. fifo'[o] = (IF popped(o) THEN Tail(fifo[o]) ELSE fifo[o])
                     \o (IF o \in arriving THEN <<TokenIn(o)>> ELSE <<>>)
    BY DEF Feed
  <2>2. /\ popped(o) <=> Popped(o) = 1
        /\ o \in arriving <=> Came(o, arriving) = 1
        /\ Popped(o) \in 0 .. 1 /\ Came(o, arriving) \in 0 .. 1
    BY DEF Popped, Came
  <2>3. fifo'[o] = QueueAfter(fifo[o], Popped(o), Came(o, arriving), TokenIn(o))
    BY <2>1, <2>2, Zenon DEF QueueAfter
  <2> QED BY <2>2, <2>3
<1>4. /\ Popped(o) = 1 => fifo[o] # <<>>
      /\ Came(o, arriving) = 1 => TokenIn(o) \in Nat
  BY <1>2, <1>3 DEF popped, Popped
<1>5. QueueStepped(Nat, fifo[o], Popped(o), Came(o, arriving), TokenIn(o), fifo'[o])
  BY <1>1, <1>3, <1>4, QueueStep
<1> QED BY <1>1, <1>3, <1>5 DEF QueueStepped

(* One step of the output buffer, which holds as many words as the fork's  *)
(* buffer has tokens.                                                      *)
Released(stops) ==
  LET feedback == IF wiring = "accumulate" THEN {ToA} ELSE {}
      stop_downstream == (stops \ feedback) \cup {o \in feedback : full("A")}
  IN  IF valid_upstream /\ ~stop_upstream(stop_downstream) THEN 1 ELSE 0
Pushed == IF data_out_valid /\ ~out_stop THEN 1 ELSE 0

LEMMA BuffOutStep ==
  ASSUME PEInv, NEW stops \in SUBSET Outputs, NEW offered \in BOOLEAN,
         NEW arriving \in Arrivals, PEClock(stops, arriving, offered)
  PROVE  /\ Released(stops) \in 0 .. 1 /\ Pushed \in 0 .. 1
         /\ buffOut' \in Seq(Results) /\ Len(buffOut') = waiting'
         /\ waiting' = waiting - Released(stops) + Pushed
         /\ consumed' = consumed + Released(stops)
         /\ \A k \in 1 .. Len(buffOut) - Released(stops) :
              buffOut'[k] = buffOut[k + Released(stops)]
         /\ Pushed = 1 => buffOut'[Len(buffOut')] = data_out
<1>1. buffOut \in Seq(Results) /\ Len(buffOut) = waiting /\ waiting \in Nat /\ consumed \in Nat
  BY DEF PEInv, PETypeOK, IInv, TypeOK
<1>2. data_out \in Results
  BY Combinational
<1>3. /\ buffOut' = QueueAfter(buffOut, Released(stops), Pushed, data_out)
      /\ waiting' = waiting - Released(stops) + Pushed
      /\ consumed' = consumed + Released(stops)
  <2> DEFINE feedback == IF wiring = "accumulate" THEN {ToA} ELSE {}
             stop_downstream == (stops \ feedback) \cup {o \in feedback : full("A")}
             released == valid_upstream /\ ~stop_upstream(stop_downstream)
             pushed == data_out_valid /\ ~out_stop
  <2>1. /\ buffOut' = (IF released THEN Tail(buffOut) ELSE buffOut)
                       \o (IF pushed THEN <<data_out>> ELSE <<>>)
        /\ Clock(stop_downstream, pushed)
    BY DEF PEClock
  <2>2. /\ waiting' = waiting - (IF released THEN 1 ELSE 0) + (IF pushed THEN 1 ELSE 0)
        /\ consumed' = consumed + (IF released THEN 1 ELSE 0)
    BY <2>1 DEF Clock
  <2>3. /\ released <=> Released(stops) = 1
        /\ pushed <=> Pushed = 1
        /\ Released(stops) = IF released THEN 1 ELSE 0
        /\ Pushed = IF pushed THEN 1 ELSE 0
    BY DEF Released, Pushed
  <2> HIDE DEF released, pushed
  <2>4. buffOut' = QueueAfter(buffOut, Released(stops), Pushed, data_out)
    BY <2>1, <2>3, Zenon DEF QueueAfter
  <2> QED BY <2>2, <2>3, <2>4
<1>4. Released(stops) = 1 => buffOut # <<>>
  <2>1. Released(stops) = 1 => waiting > 0
    BY DEF Released, valid_upstream
  <2> QED BY <1>1, <2>1, EmptySeq
<1>5. Released(stops) \in 0 .. 1 /\ Pushed \in 0 .. 1
  BY DEF Released, Pushed
<1>6. QueueStepped(Results, buffOut, Released(stops), Pushed, data_out, buffOut')
  BY <1>1, <1>2, <1>3, <1>4, <1>5, QueueStep
<1> QED BY <1>1, <1>3, <1>5, <1>6 DEF QueueStepped

-----------------------------------------------------------------------------
LEMMA PEInitInv == PEInit => PEInv
<1> SUFFICES ASSUME PEInit PROVE PEInv
  OBVIOUS
<1>1. IInv
  BY InitInv DEF PEInit
<1>2. <<>> \in Seq(Nat) /\ <<>> \in Seq(Results) /\ Len(<<>>) = 0 /\ Induced \in Results
  BY DEF Results, Induced
<1>3. PETypeOK
  <2>1. TypeOK /\ waiting = 0
    BY <1>1 DEF IInv, PEInit, Init
  <2>2. fifo \in [Operands -> Seq(Nat)] /\ fed \in [Operands -> Nat]
    BY <1>2 DEF PEInit
  <2>3. register \in [Ages -> BOOLEAN] /\ core \in [Ages -> Results]
    BY <1>2 DEF PEInit
  <2>4. fork_regs \subseteq Operands /\ curr_opcode \in Opcodes
    BY UnitAssumption DEF PEInit, Operands
  <2>5. buffOut \in Seq(Results) /\ Len(buffOut) = waiting
    BY <1>2, <2>1 DEF PEInit
  <2>6. /\ at_fork \in BOOLEAN /\ fp_stop_upstream \in BOOLEAN /\ pass \in BOOLEAN
        /\ slipped \in BOOLEAN /\ wiring \in Wirings /\ opcode \in Opcodes
    BY Zenon DEF PEInit
  <2>7. counter \in 0 .. 1 /\ paired \in Nat
    <3>1. counter = 0 /\ paired = 0
      BY DEF PEInit
    <3> QED BY <3>1
  <2> QED BY <2>1, <2>2, <2>3, <2>4, <2>5, <2>6, <2>7 DEF PETypeOK
<1>4. OperandsNumbered /\ ModeSettled /\ LinesInStep
  BY <1>2 DEF PEInit, OperandsNumbered, ModeSettled, LinesInStep, Operands
<1> QED BY <1>1, <1>3, <1>4 DEF PEInv

LEMMA PEResetInv == ASSUME PEInv, PEReset PROVE PEInv'
<1>1. IInv'
  BY ResetInv DEF PEReset
<1>2. <<>> \in Seq(Nat) /\ <<>> \in Seq(Results) /\ Len(<<>>) = 0 /\ Induced \in Results
  BY DEF Results, Induced
<1>3. PETypeOK'
  <2>1. TypeOK' /\ waiting' = 0
    BY <1>1 DEF IInv, PEReset, Reset
  <2>2. fifo' \in [Operands -> Seq(Nat)] /\ fed' \in [Operands -> Nat]
    BY <1>2 DEF PEReset
  <2>3. register' \in [Ages -> BOOLEAN] /\ core' \in [Ages -> Results]
    BY <1>2 DEF PEReset
  <2>4. fork_regs' \subseteq Operands /\ curr_opcode' \in Opcodes /\ fp_stop_upstream' \in BOOLEAN
    BY UnitAssumption DEF PEReset, Operands, out_stop
  <2>5. wiring' \in Wirings /\ opcode' \in Opcodes
    BY DEF PEReset, PEInv, PETypeOK
  <2>6. buffOut' \in Seq(Results) /\ Len(buffOut') = waiting'
    BY <1>2, <2>1 DEF PEReset
  <2>7. at_fork' \in BOOLEAN /\ pass' \in BOOLEAN /\ slipped' \in BOOLEAN
    BY Zenon DEF PEReset
  <2>8. counter' \in 0 .. 1 /\ paired' \in Nat
    <3>1. counter' = 0 /\ paired' = 0
      BY DEF PEReset
    <3> QED BY <3>1
  <2> QED BY <2>1, <2>2, <2>3, <2>4, <2>5, <2>6, <2>7, <2>8 DEF PETypeOK
<1>4. OperandsNumbered' /\ ModeSettled' /\ LinesInStep'
  BY <1>2 DEF PEReset, OperandsNumbered, ModeSettled, LinesInStep, Operands, Ages, Induced
<1> QED BY <1>1, <1>3, <1>4 DEF PEInv

(* One step of the unit.                                                   *)
LEMMA UnitStep ==
  ASSUME PEInv, Unit, UNCHANGED opcode
  PROVE  /\ register' \in [Ages -> BOOLEAN] /\ core' \in [Ages -> Results]
         /\ curr_opcode' = opcode
         /\ fp_stop_upstream' = out_stop /\ out_stop \in BOOLEAN
         /\ IF out_stop THEN UNCHANGED <<register, core>>
            ELSE /\ register'[1] = join_valid /\ core'[1] = operands
                 /\ \A i \in Ages \ {1} : register'[i] = register[i - 1] /\ core'[i] = core[i - 1]
<1>1. /\ register \in [Ages -> BOOLEAN] /\ core \in [Ages -> Results]
      /\ curr_opcode # opcode => \A i \in Ages : ~register[i]
  BY DEF PEInv, PETypeOK, ModeSettled
<1>2. operands \in Results /\ join_valid \in BOOLEAN
  BY Combinational DEF join_valid
<1>3. curr_opcode' = opcode
  BY <1>1 DEF Unit, NextOpcode
<1>4. out_stop \in BOOLEAN /\ fp_stop_upstream' = out_stop
  BY DEF out_stop, Unit
<1>5. CASE out_stop
  BY <1>1, <1>3, <1>4, <1>5 DEF Unit
<1>6. CASE ~out_stop
  <2>1. 1 \in Ages /\ \A i \in Ages : i # 1 => i - 1 \in Ages
    BY UnitAssumption DEF Ages
  <2>2. register' = Shifted(register, join_valid) /\ core' = Shifted(core, operands)
    BY <1>6 DEF Unit
  <2>3. /\ register' = [i \in Ages |-> IF i = 1 THEN join_valid ELSE register[i - 1]]
        /\ core' = [i \in Ages |-> IF i = 1 THEN operands ELSE core[i - 1]]
    BY <2>2 DEF Shifted
  <2> HIDE DEF Ages
  <2>4. register' \in [Ages -> BOOLEAN]
    BY <1>1, <1>2, <2>1, <2>3
  <2>5. core' \in [Ages -> Results]
    BY <1>1, <1>2, <2>1, <2>3
  <2>6. /\ register'[1] = join_valid /\ core'[1] = operands
        /\ \A i \in Ages \ {1} : register'[i] = register[i - 1] /\ core'[i] = core[i - 1]
    BY <2>1, <2>3
  <2> QED BY <1>3, <1>4, <1>6, <2>4, <2>5, <2>6
<1> QED BY <1>4, <1>5, <1>6

LEMMA PEClockInv ==
  ASSUME PEInv, NEW stops \in SUBSET Outputs, NEW offered \in BOOLEAN,
         NEW arriving \in Arrivals, PEClock(stops, arriving, offered)
  PROVE  PEInv'
<1>1. IInv'
  <2>1. [Next]_vars
    BY PEStepIsForkStep DEF PENext, PETick
  <2>2. ASSUME UNCHANGED vars PROVE IInv'
    BY <2>2 DEF PEInv, IInv, TypeOK, JustReset, RegistersTrack, vars
  <2> QED BY <2>1, <2>2, ClockInv, ResetInv DEF Next, Tick, PEInv
<1>2. Feed(arriving) /\ Unit /\ InputFork(offered) /\ Inducer /\ UNCHANGED <<wiring, opcode>>
      /\ slipped' = (slipped \/ (join_valid /\ fp_stop_upstream # out_stop))
  BY DEF PEClock
<1>3. PETypeOK'
  <2>1. /\ wiring' \in Wirings /\ opcode' \in Opcodes /\ curr_opcode' \in Opcodes
        /\ register' \in [Ages -> BOOLEAN] /\ core' \in [Ages -> Results]
        /\ fp_stop_upstream' \in BOOLEAN
    BY <1>2, UnitStep DEF PEInv, PETypeOK
  <2>2. fifo' \in [Operands -> Seq(Nat)]
    <3>1. \A o \in Operands : fifo'[o] \in Seq(Nat)
      BY <1>2, FeedStep
    <3>2. fifo' = [o \in Operands |-> fifo'[o]]
      BY <1>2 DEF Feed
    <3> QED BY <3>1, <3>2
  <2>3. fed' \in [Operands -> Nat]
    BY <1>2 DEF Feed, PEInv, PETypeOK
  <2>4. at_fork' \in BOOLEAN /\ fork_regs' \subseteq Operands
    BY <1>2 DEF InputFork, InFork!NextState, InFork!internal_stops, InFork!masked_state_regs,
         InFork!stop_upstream, PEInv, PETypeOK
  <2>5. pass' \in BOOLEAN /\ counter' \in 0 .. 1
    <3>1. NextPass \in BOOLEAN
      BY DEF NextPass, token
    <3>2. pass \in BOOLEAN /\ counter \in 0 .. 1
      BY DEF PEInv, PETypeOK
    <3> QED BY <1>2, <3>1, <3>2 DEF Inducer
  <2>6. buffOut' \in Seq(Results) /\ Len(buffOut') = waiting'
    BY BuffOutStep
  <2>7. paired' \in Nat /\ slipped' \in BOOLEAN
    BY <1>2 DEF Feed, PEInv, PETypeOK, join_valid
  <2> QED BY <1>1, <2>1, <2>2, <2>3, <2>4, <2>5, <2>6, <2>7 DEF PETypeOK, IInv
<1>4. OperandsNumbered'
  <2> SUFFICES ASSUME NEW o \in Operands, o = "B" \/ wiring' = "unary",
                      NEW k \in 1 .. Len(fifo'[o])
               PROVE  fifo'[o][k] >= 1
    BY DEF OperandsNumbered
  <2>1. /\ Popped(o) \in 0 .. 1 /\ Came(o, arriving) \in 0 .. 1
        /\ fifo[o] \in Seq(Nat)
        /\ Len(fifo'[o]) = Len(fifo[o]) - Popped(o) + Came(o, arriving)
        /\ \A n \in 1 .. Len(fifo[o]) - Popped(o) : fifo'[o][n] = fifo[o][n + Popped(o)]
        /\ o \in arriving => fifo'[o][Len(fifo'[o])] = TokenIn(o)
    BY <1>2, FeedStep
  <2>2. Len(fifo[o]) \in Nat /\ Len(fifo'[o]) \in Nat
    BY <2>1, LenProperties
  <2>3. CASE k <= Len(fifo[o]) - Popped(o)
    <3>1. k \in 1 .. Len(fifo[o]) - Popped(o) /\ k + Popped(o) \in 1 .. Len(fifo[o])
      BY <2>1, <2>2, <2>3
    <3>2. fifo[o][k + Popped(o)] >= 1
      BY <1>2, <3>1 DEF PEInv, OperandsNumbered
    <3> QED BY <2>1, <3>1, <3>2
  <2>4. CASE k > Len(fifo[o]) - Popped(o)
    <3>1. k = Len(fifo'[o]) /\ o \in arriving
      BY <2>1, <2>2, <2>4 DEF Came
    <3>2. TokenIn(o) = fed[o] + 1 /\ fed[o] \in Nat
      BY <1>2 DEF TokenIn, PEInv, PETypeOK
    <3> QED BY <2>1, <3>1, <3>2
  <2> QED BY <2>1, <2>2, <2>3, <2>4
<1>5. ModeSettled'
  BY <1>2, UnitStep DEF ModeSettled
<1>6. LinesInStep'
  <2> SUFFICES ASSUME NEW i \in Ages PROVE register'[i] <=> core'[i] # Induced
    BY DEF LinesInStep, Induced, Ages
  <2>1. operands # Induced <=> join_valid
    BY Combinational
  <2>2. \A n \in Ages : register[n] <=> core[n] # Induced
    BY DEF PEInv, LinesInStep
  <2>3. i # 1 => i - 1 \in Ages
    BY UnitAssumption DEF Ages
  <2>4. CASE out_stop
    BY <1>2, <2>2, <2>4, UnitStep
  <2>5. CASE ~out_stop
    BY <1>2, <2>1, <2>2, <2>3, <2>5, UnitStep
  <2> QED BY <2>4, <2>5
<1> QED BY <1>1, <1>3, <1>4, <1>5, <1>6 DEF PEInv

LEMMA PEInvariance == PESpec => []PEInv
<1>1. PEInv /\ [PENext]_all_vars => PEInv'
  <2>1. ASSUME PEInv, UNCHANGED all_vars PROVE PEInv'
    BY <2>1 DEF PEInv, IInv, TypeOK, JustReset, RegistersTrack, PETypeOK, OperandsNumbered,
         ModeSettled, LinesInStep, all_vars, fork_vars, vars, pe_vars, Ages
  <2> QED BY <2>1, PEClockInv, PEResetInv DEF PENext, PETick
<1> QED BY <1>1, PEInitInv, PTL DEF PESpec

(* A valid bit stands at each stage exactly for operands in it, and a      *)
(* result leaves with its own valid bit, also after a change of the mode.  *)
THEOREM UnitInStep == PESpec => []StageInStep
<1>1. PEInv => StageInStep
  BY Combinational DEF PEInv, LinesInStep, StageInStep
<1> QED BY <1>1, PEInvariance, PTL

-----------------------------------------------------------------------------
(* Outside a loop the operands in each buffer are numbered from the number *)
(* of pairs the join has released on, so that the join finds the same      *)
(* number at both heads.                                                   *)
Numbered ==
  \A o \in enable :
    /\ fed[o] = paired + Len(fifo[o])
    /\ \A k \in 1 .. Len(fifo[o]) : fifo[o][k] = paired + k

(* As long as no operands met a stop of the wrapper that is not that of    *)
(* the output: the results in the output buffer are numbered on from those *)
(* that left it, and those in the unit, youngest first, from there down    *)
(* from the last released pair without a gap.                              *)
Exact ==
  /\ consumed + waiting <= paired
  /\ \A k \in 1 .. Len(buffOut) : buffOut[k][2] = consumed + k
  /\ \A i \in InUnit : core[i][2] \in consumed + waiting + 1 .. paired
  /\ \A n \in consumed + waiting + 1 .. paired : \E i \in InUnit : core[i][2] = n
  /\ \A i, j \in InUnit : i < j => core[i][2] > core[j][2]

OrderInv ==
  wiring # "accumulate" =>
    Numbered /\ PairsMatch /\ pass = FALSE /\ (slipped = FALSE => Exact)

LEMMA Joined ==
  ASSUME PEInv, wiring # "accumulate", Numbered
  PROVE  /\ \A o \in enable : popped(o) <=> join_valid /\ ~fp_stop_upstream
         /\ join_valid => operands = <<paired + 1, paired + 1>>
<1>1. "A" \in enable /\ enable \subseteq Operands
  BY DEF enable, Operands
<1>2. join_valid <=> \A o \in enable : fifo[o] # <<>>
  BY Combinational
<1>3. ASSUME NEW o \in enable PROVE popped(o) <=> join_valid /\ ~fp_stop_upstream
  BY <1>2 DEF popped, join_stop, masked_valid
<1>4. ASSUME join_valid, NEW o \in enable PROVE Head(fifo[o]) = paired + 1
  <2>1. fifo[o] \in Seq(Nat) /\ fifo[o] # <<>>
    BY <1>1, <1>2, <1>4 DEF PEInv, PETypeOK
  <2>2. Head(fifo[o]) = fifo[o][1] /\ 1 \in 1 .. Len(fifo[o])
    BY <2>1, EmptySeq
  <2> QED BY <2>2, <1>4 DEF Numbered, PEInv, PETypeOK
<1>5. join_valid => operands = <<paired + 1, paired + 1>>
  BY <1>1, <1>4 DEF operands
<1> QED BY <1>3, <1>5

LEMMA NumberedStep ==
  ASSUME PEInv, wiring # "accumulate", Numbered, UNCHANGED wiring,
         NEW arriving \in Arrivals, Feed(arriving)
  PROVE  Numbered'
<1> SUFFICES ASSUME NEW o \in enable
             PROVE  /\ fed'[o] = paired' + Len(fifo'[o])
                    /\ \A k \in 1 .. Len(fifo'[o]) : fifo'[o][k] = paired' + k
  BY DEF Numbered, enable
<1>1. o \in Operands
  BY DEF enable, Operands
<1>2. /\ Popped(o) \in 0 .. 1 /\ Came(o, arriving) \in 0 .. 1
      /\ fifo[o] \in Seq(Nat) /\ fifo'[o] \in Seq(Nat)
      /\ Len(fifo'[o]) = Len(fifo[o]) - Popped(o) + Came(o, arriving)
      /\ \A k \in 1 .. Len(fifo[o]) - Popped(o) : fifo'[o][k] = fifo[o][k + Popped(o)]
      /\ o \in arriving => fifo'[o][Len(fifo'[o])] = TokenIn(o)
  BY <1>1, FeedStep
<1>3. Len(fifo[o]) \in Nat /\ Len(fifo'[o]) \in Nat /\ paired \in Nat /\ fed[o] \in Nat
  BY <1>1, <1>2, LenProperties DEF PEInv, PETypeOK
<1>4. paired' = paired + Popped(o)
  <2>1. popped(o) <=> join_valid /\ ~fp_stop_upstream
    BY Joined
  <2>2. paired' = IF join_valid /\ ~fp_stop_upstream THEN paired + 1 ELSE paired
    BY DEF Feed
  <2> QED BY <1>3, <2>1, <2>2 DEF Popped
<1>5. fed'[o] = fed[o] + Came(o, arriving) /\ TokenIn(o) = fed[o] + 1
  BY <1>1, <1>3 DEF Feed, Came, TokenIn
<1>6. fed[o] = paired + Len(fifo[o]) /\ \A k \in 1 .. Len(fifo[o]) : fifo[o][k] = paired + k
  BY DEF Numbered
<1>7. fed'[o] = paired' + Len(fifo'[o]) /\ paired' \in Nat /\ fed'[o] = fed[o] + Came(o, arriving)
  <2>1. Popped(o) \in Nat /\ Came(o, arriving) \in Nat
    BY <1>2
  <2>2. Len(fifo'[o]) = Len(fifo[o]) - Popped(o) + Came(o, arriving)
    BY <1>2
  <2>3. fed[o] = paired + Len(fifo[o])
    BY <1>6
  <2> QED BY <1>3, <1>4, <1>5, <2>1, <2>2, <2>3
<1>8. ASSUME NEW k \in 1 .. Len(fifo'[o]) PROVE fifo'[o][k] = paired' + k
  <2>1. CASE k <= Len(fifo[o]) - Popped(o)
    <3>1. k \in 1 .. Len(fifo[o]) - Popped(o) /\ k + Popped(o) \in 1 .. Len(fifo[o])
      BY <1>2, <1>3, <2>1
    <3>2. fifo'[o][k] = paired + (k + Popped(o))
      BY <1>2, <1>6, <3>1
    <3> QED BY <1>2, <1>3, <1>4, <3>2
  <2>2. CASE k > Len(fifo[o]) - Popped(o)
    <3>1. k = Len(fifo'[o]) /\ Came(o, arriving) = 1 /\ o \in arriving
      BY <1>2, <1>3, <2>2 DEF Came
    <3>2. fifo'[o][k] = fed[o] + 1
      BY <1>2, <1>5, <3>1
    <3> QED BY <1>3, <1>7, <3>1, <3>2
  <2> QED BY <1>2, <1>3, <2>1, <2>2
<1> QED BY <1>8, <1>7

LEMMA PairsMatchStep ==
  ASSUME PEInv, Matched(operands), PairsMatch,
         NEW stops \in SUBSET Outputs, NEW offered \in BOOLEAN,
         NEW arriving \in Arrivals, PEClock(stops, arriving, offered)
  PROVE  PairsMatch'
<1>1. Unit /\ wiring' = wiring /\ opcode' = opcode
  BY DEF PEClock
<1>2. Matched(operands) /\ Matched(Induced)
  BY DEF Matched
<1>3. Matched(fp_out) /\ Matched(data_out)
  BY <1>2, AgesOfUnit DEF fp_out, data_out, PairsMatch, PEInv, PETypeOK
<1>4. ASSUME NEW i \in Ages PROVE Matched(core'[i])
  <2>1. i # 1 => i - 1 \in Ages
    BY UnitAssumption DEF Ages
  <2>2. CASE out_stop
    BY <1>1, <2>2, UnitStep DEF PairsMatch
  <2>3. CASE ~out_stop
    BY <1>1, <1>2, <2>1, <2>3, UnitStep DEF PairsMatch
  <2> QED BY <2>2, <2>3
<1>5. ASSUME NEW k \in DOMAIN buffOut' PROVE Matched(buffOut'[k])
  <2>1. /\ Released(stops) \in 0 .. 1 /\ Pushed \in 0 .. 1
        /\ buffOut' \in Seq(Results) /\ Len(buffOut') = Len(buffOut) - Released(stops) + Pushed
        /\ \A n \in 1 .. Len(buffOut) - Released(stops) :
             buffOut'[n] = buffOut[n + Released(stops)]
        /\ Pushed = 1 => buffOut'[Len(buffOut')] = data_out
    BY BuffOutStep DEF PEInv, PETypeOK
  <2>2. /\ buffOut \in Seq(Results) /\ Len(buffOut) \in Nat /\ Len(buffOut') \in Nat
        /\ DOMAIN buffOut = 1 .. Len(buffOut) /\ DOMAIN buffOut' = 1 .. Len(buffOut')
    BY <2>1, LenProperties DEF PEInv, PETypeOK
  <2>3. CASE k <= Len(buffOut) - Released(stops)
    <3>1. k \in 1 .. Len(buffOut) - Released(stops) /\ k + Released(stops) \in DOMAIN buffOut
      BY <1>5, <2>1, <2>2, <2>3
    <3> QED BY <2>1, <3>1 DEF PairsMatch
  <2>4. CASE k > Len(buffOut) - Released(stops)
    <3>1. k = Len(buffOut') /\ Pushed = 1
      BY <1>5, <2>1, <2>2, <2>4
    <3> QED BY <1>3, <2>1, <3>1
  <2> QED BY <1>5, <2>1, <2>2, <2>3, <2>4
<1>6. \A pair : Matched(pair)' <=> Matched(pair)
  BY <1>1 DEF Matched, LoopHasRoom, Induced
<1> QED BY <1>1, <1>4, <1>5 DEF PairsMatch, Matched, LoopHasRoom, Ages, Induced

(* The numbers in the unit after an edge that its output does not stall.   *)
LEMMA UnitMoves ==
  ASSUME PEInv, wiring # "accumulate", Numbered, Exact, Unit, UNCHANGED opcode, ~out_stop,
         paired' = paired + (IF join_valid THEN 1 ELSE 0)
  PROVE  LET last == consumed + waiting
             L == Latency[opcode]
         IN  /\ fp_valid => fp_out[2] = last + 1 /\ last + 1 <= paired'
             /\ ~fp_valid => last <= paired'
             /\ \A i \in InUnit' :
                  core'[i][2] \in last + (IF fp_valid THEN 1 ELSE 0) + 1 .. paired'
             /\ \A n \in last + (IF fp_valid THEN 1 ELSE 0) + 1 .. paired' :
                  \E i \in InUnit' : core'[i][2] = n
             /\ \A i, j \in InUnit' : i < j => core'[i][2] > core'[j][2]
<1> DEFINE last == consumed + waiting
           L == Latency[opcode]
           left == last + (IF fp_valid THEN 1 ELSE 0)
<1>1. last \in Nat /\ paired \in Nat /\ last <= paired /\ L \in Nat /\ (L # 0 => L \in Ages)
  BY AgesOfUnit DEF PEInv, PETypeOK, IInv, TypeOK, Exact
<1>2. /\ InUnit = {i \in 1 .. L : register[i]} /\ InUnit' = {i \in 1 .. L : register'[i]}
      /\ 1 .. L \subseteq Ages /\ Ages \subseteq Nat
  BY UnitAssumption DEF InUnit, Ages, PEInv, PETypeOK
<1>3. /\ core \in [Ages -> Results] /\ core' \in [Ages -> Results]
      /\ \A i \in Ages : core[i][2] \in Nat /\ core'[i][2] \in Nat
  BY UnitStep DEF PEInv, PETypeOK, Results
<1>4. /\ \A i \in InUnit : core[i][2] \in last + 1 .. paired
      /\ \A n \in last + 1 .. paired : \E i \in InUnit : core[i][2] = n
      /\ \A i, j \in InUnit : i < j => core[i][2] > core[j][2]
  BY DEF Exact
<1>5. /\ \A i \in 1 .. L : register'[i] <=> IF i = 1 THEN join_valid ELSE register[i - 1]
      /\ \A i \in 1 .. L : i # 1 => core'[i] = core[i - 1]
      /\ join_valid => core'[1][2] = paired + 1
  BY <1>2, UnitStep, Joined
<1>6. /\ L = 0 => (fp_valid <=> join_valid) /\ (join_valid => fp_out[2] = paired + 1)
      /\ L # 0 => (fp_valid <=> register[L]) /\ fp_out = core[L]
  <2>1. fp_valid <=> fp_out # Induced
    BY Combinational
  <2>2. L = 0 => fp_out = operands
    BY DEF fp_out
  <2>3. L # 0 => fp_out = core[L] /\ (register[L] <=> core[L] # Induced)
    BY <1>1 DEF fp_out, PEInv, LinesInStep
  <2> QED BY <2>1, <2>2, <2>3, Combinational, Joined
<1>7. paired' \in Nat /\ paired' >= paired /\ (join_valid => paired' = paired + 1)
      /\ (~join_valid => paired' = paired)
  BY <1>1
<1> HIDE DEF last, L
<1>8. CASE L = 0
  <2>1. InUnit = {} /\ InUnit' = {}
    BY <1>2, <1>8
  <2>2. last = paired
    <3>1. ~(last + 1 <= paired)
      BY <1>1, <1>4, <2>1
    <3> QED BY <1>1, <3>1
  <2>3. left = paired'
    BY <1>1, <1>6, <1>7, <1>8, <2>2
  <2> QED BY <1>1, <1>6, <1>7, <1>8, <2>1, <2>2, <2>3 DEF last, L
<1>9. CASE L # 0
  <2>0. L \in 1 .. L
    BY <1>1, <1>9
  <2>1. fp_valid => core[L][2] = last + 1 /\ last + 1 <= paired
    <3> SUFFICES ASSUME fp_valid PROVE core[L][2] = last + 1 /\ last + 1 <= paired
      OBVIOUS
    <3>1. L \in InUnit
      BY <1>2, <1>6, <1>9, <2>0
    <3>2. core[L][2] \in last + 1 .. paired
      BY <1>4, <3>1
    <3>3. last + 1 \in last + 1 .. paired
      BY <1>1, <3>2
    <3>4. PICK i \in InUnit : core[i][2] = last + 1
      BY <1>4, <3>3
    <3>5. i \in Nat /\ i <= L
      BY <1>1, <1>2
    <3>6. i < L => core[i][2] > core[L][2]
      BY <1>4, <3>1
    <3> QED BY <1>1, <3>2, <3>4, <3>5, <3>6
  <2>2. ASSUME NEW i \in InUnit, ~(fp_valid /\ i = L) PROVE i < L /\ core[i][2] \in left + 1 .. paired
    <3>1. i \in 1 .. L /\ register[i]
      BY <1>2
    <3>2. i # L
      BY <1>6, <1>9, <2>2, <3>1
    <3>3. i < L
      BY <1>1, <3>1, <3>2
    <3>4. core[i][2] \in last + 1 .. paired
      BY <1>4
    <3>5. fp_valid => core[i][2] > core[L][2]
      <4>1. fp_valid => L \in InUnit
        BY <1>2, <1>6, <1>9, <2>0
      <4> QED BY <1>4, <3>3, <4>1
    <3> QED BY <1>1, <2>1, <3>3, <3>4, <3>5
  <2>3. ASSUME NEW i \in InUnit', i # 1
        PROVE  i - 1 \in InUnit /\ core'[i] = core[i - 1] /\ core'[i][2] \in left + 1 .. paired
    <3>1. i \in 1 .. L /\ register[i - 1] /\ core'[i] = core[i - 1]
      BY <1>2, <1>5, <2>3
    <3>2. i - 1 \in 1 .. L /\ i - 1 # L
      BY <1>1, <2>3, <3>1
    <3>3. i - 1 \in InUnit
      BY <1>2, <3>1, <3>2
    <3> QED BY <2>2, <3>1, <3>2, <3>3
  <2>4. 1 \in InUnit' => join_valid /\ core'[1][2] = paired + 1 /\ paired' = paired + 1
    BY <1>2, <1>5, <1>7
  <2>5. \A i \in InUnit' : core'[i][2] \in left + 1 .. paired'
    BY <1>1, <1>7, <2>1, <2>3, <2>4
  <2>6. ASSUME NEW n \in left + 1 .. paired' PROVE \E i \in InUnit' : core'[i][2] = n
    <3>1. CASE n <= paired
      <4>1. n \in last + 1 .. paired
        BY <1>1, <1>7, <3>1
      <4>2. PICK i \in InUnit : core[i][2] = n
        BY <1>4, <4>1
      <4>3. ~(fp_valid /\ i = L)
        BY <1>1, <2>1, <4>2
      <4>4. i < L /\ i \in 1 .. L /\ register[i]
        BY <1>2, <2>2, <4>3
      <4>5. i + 1 \in 1 .. L /\ i + 1 # 1 /\ (i + 1) - 1 = i
        BY <1>1, <4>4
      <4>6. i + 1 \in InUnit' /\ core'[i + 1] = core[i]
        BY <1>2, <1>5, <4>4, <4>5
      <4> QED BY <4>2, <4>6
    <3>2. CASE n > paired
      <4>1. join_valid /\ n = paired + 1
        BY <1>1, <1>7, <3>2
      <4>2. 1 \in 1 .. L
        BY <1>1, <1>9
      <4>3. 1 \in InUnit' /\ core'[1][2] = paired + 1
        BY <1>2, <1>5, <4>1, <4>2
      <4> QED BY <4>1, <4>3
    <3> QED BY <1>1, <1>7, <3>1, <3>2
  <2>7. ASSUME NEW i \in InUnit', NEW j \in InUnit', i < j PROVE core'[i][2] > core'[j][2]
    <3>1. i \in Nat /\ j \in Nat /\ i >= 1 /\ j # 1
      BY <1>1, <1>2, <2>7
    <3>2. j - 1 \in InUnit /\ core'[j] = core[j - 1] /\ core'[j][2] \in left + 1 .. paired
      BY <2>3, <3>1
    <3>3. CASE i = 1
      BY <1>1, <2>4, <3>2, <3>3
    <3>4. CASE i # 1
      <4>1. i - 1 \in InUnit /\ core'[i] = core[i - 1] /\ i - 1 < j - 1
        BY <2>3, <2>7, <3>1, <3>4
      <4> QED BY <1>4, <3>2, <4>1
    <3> QED BY <3>3, <3>4
  <2> QED BY <1>1, <1>6, <1>7, <1>9, <2>1, <2>5, <2>6, <2>7 DEF last, L
<1> QED BY <1>8, <1>9

LEMMA ExactStep ==
  ASSUME PEInv, wiring # "accumulate", Numbered, Exact, pass = FALSE,
         join_valid => (fp_stop_upstream <=> out_stop),
         NEW stops \in SUBSET Outputs, NEW offered \in BOOLEAN,
         NEW arriving \in Arrivals, PEClock(stops, arriving, offered)
  PROVE  Exact'
<1> DEFINE last == consumed + waiting
<1>1. Unit /\ Feed(arriving) /\ wiring' = wiring /\ opcode' = opcode
  BY DEF PEClock
<1>2. /\ Released(stops) \in 0 .. 1 /\ Pushed \in 0 .. 1
      /\ buffOut \in Seq(Results) /\ buffOut' \in Seq(Results)
      /\ waiting' = waiting - Released(stops) + Pushed
      /\ consumed' = consumed + Released(stops)
      /\ Len(buffOut) = waiting /\ Len(buffOut') = waiting'
      /\ \A n \in 1 .. waiting - Released(stops) : buffOut'[n] = buffOut[n + Released(stops)]
      /\ Pushed = 1 => buffOut'[waiting'] = data_out
  BY BuffOutStep DEF PEInv, PETypeOK
<1>3. waiting \in Nat /\ waiting' \in Nat /\ consumed \in Nat /\ paired \in Nat
  BY <1>2, LenProperties DEF PEInv, PETypeOK, IInv, TypeOK
<1>4. consumed' + waiting' = last + Pushed
  BY <1>2, <1>3
<1>5. Pushed = (IF fp_valid /\ ~out_stop THEN 1 ELSE 0) /\ (fp_valid => data_out = fp_out)
  BY DEF Pushed, data_out_valid, data_out
<1>6. paired' = IF join_valid /\ ~fp_stop_upstream THEN paired + 1 ELSE paired
  BY <1>1 DEF Feed
<1>7. /\ last + Pushed <= paired'
      /\ Pushed = 1 => data_out[2] = last + 1
      /\ \A i \in InUnit' : core'[i][2] \in last + Pushed + 1 .. paired'
      /\ \A n \in last + Pushed + 1 .. paired' : \E i \in InUnit' : core'[i][2] = n
      /\ \A i, j \in InUnit' : i < j => core'[i][2] > core'[j][2]
  <2>1. CASE out_stop
    <3>1. Pushed = 0 /\ paired' = paired
      BY <1>5, <1>6, <2>1
    <3>2. InUnit' = InUnit /\ core' = core
      BY <1>1, <2>1, UnitStep DEF InUnit
    <3> QED BY <1>3, <3>1, <3>2 DEF Exact
  <2>2. CASE ~out_stop
    <3>1. Pushed = IF fp_valid THEN 1 ELSE 0
      BY <1>5, <2>2
    <3>2. paired' = paired + (IF join_valid THEN 1 ELSE 0)
      BY <1>3, <1>6, <2>2
    <3>3. /\ fp_valid => fp_out[2] = last + 1 /\ last + 1 <= paired'
          /\ ~fp_valid => last <= paired'
          /\ \A i \in InUnit' :
               core'[i][2] \in last + (IF fp_valid THEN 1 ELSE 0) + 1 .. paired'
          /\ \A n \in last + (IF fp_valid THEN 1 ELSE 0) + 1 .. paired' :
               \E i \in InUnit' : core'[i][2] = n
          /\ \A i, j \in InUnit' : i < j => core'[i][2] > core'[j][2]
      BY <1>1, <2>2, <3>2, UnitMoves
    <3> HIDE DEF last
    <3>4. /\ \A i \in InUnit' : core'[i][2] \in last + Pushed + 1 .. paired'
          /\ \A n \in last + Pushed + 1 .. paired' : \E i \in InUnit' : core'[i][2] = n
      BY <3>1, <3>3
    <3>5. last + Pushed <= paired' /\ (Pushed = 1 => data_out[2] = last + 1)
      <4>1. last \in Nat
        BY <1>3 DEF last
      <4>2. CASE fp_valid
        BY <1>5, <3>1, <3>3, <4>1, <4>2
      <4>3. CASE ~fp_valid
        BY <3>1, <3>3, <4>1, <4>3
      <4> QED BY <4>2, <4>3
    <3> QED BY <3>3, <3>4, <3>5
  <2> QED BY <2>1, <2>2
<1>8. ASSUME NEW k \in 1 .. Len(buffOut') PROVE buffOut'[k][2] = consumed' + k
  <2>1. CASE k <= waiting - Released(stops)
    <3>1. k \in 1 .. waiting - Released(stops) /\ k + Released(stops) \in 1 .. Len(buffOut)
      BY ONLY <1>2, <1>3, <1>8, <2>1
    <3>2. buffOut'[k][2] = consumed + (k + Released(stops))
      BY <1>2, <3>1 DEF Exact
    <3> QED BY <1>2, <1>3, <3>2
  <2>2. CASE k > waiting - Released(stops)
    <3>1. k = waiting' /\ Pushed = 1
      BY <1>2, <1>3, <2>2
    <3> QED BY <1>2, <1>3, <1>4, <1>7, <3>1
  <2> QED BY <1>2, <1>3, <2>1, <2>2
<1> HIDE DEF last
<1>9. /\ consumed' + waiting' <= paired'
      /\ \A i \in InUnit' : core'[i][2] \in consumed' + waiting' + 1 .. paired'
      /\ \A n \in consumed' + waiting' + 1 .. paired' : \E i \in InUnit' : core'[i][2] = n
      /\ \A i, j \in InUnit' : i < j => core'[i][2] > core'[j][2]
  BY <1>4, <1>7
<1> QED BY <1>8, <1>9 DEF Exact, InUnit

LEMMA OrderInit == ASSUME PEInit PROVE OrderInv
<1>1. PEInv
  BY PEInitInv
<1>2. Len(<<>>) = 0 /\ DOMAIN <<>> = {} /\ enable \subseteq Operands
  BY DEF enable, Operands
<1>3. Numbered
  BY <1>2 DEF PEInit, Numbered
<1>4. PairsMatch
  BY <1>2 DEF PEInit, PairsMatch, Matched
<1>5. InUnit = {}
  BY <1>1, UnitAssumption DEF PEInit, InUnit, Ages, PEInv, PETypeOK
<1>6. Exact
  BY <1>2, <1>5 DEF PEInit, Init, Exact
<1> QED BY <1>3, <1>4, <1>6 DEF PEInit, OrderInv

LEMMA OrderReset == ASSUME PEInv, PEReset PROVE OrderInv'
<1>1. Len(<<>>) = 0 /\ DOMAIN <<>> = {} /\ enable' \subseteq Operands
  BY DEF enable, Operands
<1>2. Numbered'
  BY <1>1 DEF PEReset, Numbered
<1>3. PairsMatch'
  BY <1>1 DEF PEReset, PairsMatch, Matched, Induced, Ages
<1>4. InUnit' = {}
  BY UnitAssumption DEF PEReset, InUnit, Ages, PEInv, PETypeOK
<1>5. Exact'
  BY <1>1, <1>4 DEF PEReset, Reset, Exact
<1> QED BY <1>2, <1>3, <1>5 DEF PEReset, OrderInv

LEMMA OrderClock ==
  ASSUME PEInv, OrderInv, NEW stops \in SUBSET Outputs, NEW offered \in BOOLEAN,
         NEW arriving \in Arrivals, PEClock(stops, arriving, offered)
  PROVE  OrderInv'
<1> SUFFICES ASSUME wiring' # "accumulate"
             PROVE  Numbered' /\ PairsMatch' /\ pass' = FALSE /\ (slipped' = FALSE => Exact')
  BY DEF OrderInv
<1>1. /\ Feed(arriving) /\ Inducer /\ wiring' = wiring
      /\ slipped' = (slipped \/ (join_valid /\ fp_stop_upstream # out_stop))
  BY DEF PEClock
<1>2. Numbered /\ PairsMatch /\ pass = FALSE /\ (slipped = FALSE => Exact)
  BY <1>1 DEF OrderInv
<1>3. pass' = FALSE
  BY <1>1, <1>2 DEF Inducer, NextPass, token
<1>4. ASSUME slipped' = FALSE PROVE Exact'
  <2>1. slipped = FALSE /\ (join_valid => (fp_stop_upstream <=> out_stop))
    BY <1>1, <1>4 DEF PEInv, PETypeOK, out_stop
  <2> QED BY <1>1, <1>2, <2>1, ExactStep
<1>5. Matched(operands)
  BY <1>1, <1>2, Joined DEF Matched, operands, Induced
<1> QED BY <1>1, <1>2, <1>3, <1>4, <1>5, NumberedStep, PairsMatchStep

LEMMA OrderInvariance == PESpec => []OrderInv
<1>1. PEInv /\ OrderInv /\ [PENext]_all_vars => OrderInv'
  <2>1. ASSUME OrderInv, UNCHANGED all_vars PROVE OrderInv'
    BY <2>1 DEF OrderInv, Numbered, PairsMatch, Matched, LoopHasRoom, Exact, InUnit, enable,
         Induced, Ages, all_vars, fork_vars, vars, pe_vars
  <2> QED BY <2>1, OrderClock, OrderReset DEF PENext, PETick
<1> QED BY <1>1, OrderInit, PEInvariance, PTL DEF PESpec

-----------------------------------------------------------------------------
(* In a loop the one token that goes round is at one place: not yet made   *)
(* by the inducer, in buffA, at a stage of the unit, or in the output      *)
(* buffer and not yet taken back.  Its number is that of the last pair.    *)
Sent == consumed + waiting

AtInducer ==
  InducerDue /\ fifo["A"] = <<>> /\ InUnit = {} /\ got[ToA] = 0 /\ Sent = 0 /\ paired = 0
AtJoin ==
  /\ ~InducerDue /\ Len(fifo["A"]) = 1 /\ fifo["A"][1] = paired /\ InUnit = {}
  /\ got[ToA] = Sent /\ Sent = paired + 1
  /\ Capacity > 1 => ~fp_stop_upstream
AtStage(i) ==
  /\ ~InducerDue /\ fifo["A"] = <<>> /\ i \in 1 .. Latency[opcode] /\ InUnit = {i}
  /\ core[i][2] = paired /\ got[ToA] = Sent /\ Sent = paired
AtOutput ==
  ~InducerDue /\ fifo["A"] = <<>> /\ InUnit = {} /\ got[ToA] = paired /\ Sent = paired + 1

Somewhere == AtInducer \/ AtJoin \/ AtOutput \/ \E i \in Ages : AtStage(i)
SentInOrder == \A k \in 1 .. Len(buffOut) : buffOut[k][2] = consumed + k - 1
StreamNumbered ==
  /\ fed["B"] = paired + Len(fifo["B"])
  /\ \A k \in 1 .. Len(fifo["B"]) : fifo["B"][k] = paired + k

LoopInv ==
  wiring = "accumulate" =>
    /\ StreamNumbered
    /\ counter = 0 => pass = FALSE
    /\ PairsMatch
    /\ slipped = FALSE \/ Capacity > 1 => Somewhere /\ SentInOrder

LEMMA JoinedInLoop ==
  ASSUME PEInv, wiring = "accumulate", StreamNumbered
  PROVE  /\ join_valid => fifo["A"] # <<>> /\ operands = <<fifo["A"][1], paired + 1>>
         /\ \A o \in Operands : popped(o) <=> join_valid /\ ~fp_stop_upstream
<1>1. enable = Operands /\ "A" \in Operands /\ "B" \in Operands
  BY DEF enable, Operands
<1>2. join_valid <=> fifo["A"] # <<>> /\ fifo["B"] # <<>>
  BY <1>1, Combinational DEF Operands
<1>3. ASSUME NEW o \in Operands PROVE popped(o) <=> join_valid /\ ~fp_stop_upstream
  BY <1>1, <1>2, <1>3 DEF popped, join_stop, masked_valid, Operands
<1>4. ASSUME join_valid PROVE operands = <<fifo["A"][1], paired + 1>>
  <2>1. fifo["A"] \in Seq(Nat) /\ fifo["B"] \in Seq(Nat)
    BY <1>1 DEF PEInv, PETypeOK
  <2>2. Head(fifo["A"]) = fifo["A"][1] /\ Head(fifo["B"]) = fifo["B"][1] /\ 1 \in 1 .. Len(fifo["B"])
    BY <1>2, <1>4, <2>1, EmptySeq
  <2>3. fifo["B"][1] = paired + 1
    BY <2>2 DEF StreamNumbered
  <2> QED BY <1>1, <1>4, <2>2, <2>3 DEF operands
<1> QED BY <1>2, <1>3, <1>4

(* What leaves the unit is at its last stage, and what stands at a stage   *)
(* moves to the next one unless the output is stopped.                     *)
LEMMA UnitLeaves ==
  ASSUME PEInv
  PROVE  LET L == Latency[opcode]
         IN  /\ L = 0 => (fp_valid <=> join_valid) /\ fp_out = operands
             /\ L # 0 => (fp_valid <=> L \in InUnit) /\ fp_out = core[L]
<1> DEFINE L == Latency[opcode]
<1>1. L \in Nat /\ (L # 0 => L \in Ages)
  BY AgesOfUnit DEF PEInv, PETypeOK
<1>2. fp_valid <=> fp_out # Induced
  BY Combinational
<1>3. L = 0 => fp_out = operands
  BY DEF fp_out
<1>4. L # 0 => fp_out = core[L] /\ (register[L] <=> core[L] # Induced)
  BY <1>1 DEF fp_out, PEInv, LinesInStep
<1>5. L # 0 => (register[L] <=> L \in InUnit)
  BY <1>1 DEF InUnit
<1> QED BY <1>2, <1>3, <1>4, <1>5, Combinational

LEMMA UnitShifts ==
  ASSUME PEInv, Unit, UNCHANGED opcode
  PROVE  LET L == Latency[opcode]
         IN  /\ InUnit = {} /\ ~join_valid => InUnit' = {}
             /\ out_stop => InUnit' = InUnit /\ core' = core
             /\ InUnit = {} /\ join_valid /\ ~out_stop =>
                  (IF L = 0 THEN InUnit' = {} ELSE InUnit' = {1} /\ core'[1] = operands)
             /\ \A i \in 1 .. L : InUnit = {i} /\ ~join_valid /\ ~out_stop =>
                  (IF i = L THEN InUnit' = {} ELSE InUnit' = {i + 1} /\ core'[i + 1] = core[i])
<1> DEFINE L == Latency[opcode]
<1>1. L \in Nat /\ (L # 0 => L \in Ages) /\ 1 .. L \subseteq Ages
  BY AgesOfUnit, UnitAssumption DEF PEInv, PETypeOK, Ages
<1>2. InUnit = {i \in 1 .. L : register[i]} /\ InUnit' = {i \in 1 .. L : register'[i]}
  BY DEF InUnit
<1> HIDE DEF L
<1>3. out_stop => InUnit' = InUnit /\ core' = core
  BY <1>2, UnitStep
<1>4. ASSUME ~out_stop
      PROVE  /\ \A i \in 1 .. L : IF i = 1 THEN register'[i] = join_valid /\ core'[i] = operands
                                  ELSE register'[i] = register[i - 1] /\ core'[i] = core[i - 1]
             /\ \A i \in 1 .. L : i # 1 => i - 1 \in 1 .. L
  BY <1>1, <1>4, UnitStep
<1>5. ASSUME InUnit = {}, ~join_valid PROVE InUnit' = {}
  <2>1. CASE out_stop
    BY <1>3, <1>5, <2>1
  <2>2. CASE ~out_stop
    <3>1. ASSUME NEW i \in 1 .. L PROVE ~register'[i]
      BY <1>2, <1>4, <1>5, <2>2
    <3> QED BY <1>2, <3>1
  <2> QED BY <2>1, <2>2
<1>6. ASSUME InUnit = {}, join_valid, ~out_stop
      PROVE  IF L = 0 THEN InUnit' = {} ELSE InUnit' = {1} /\ core'[1] = operands
  <2>1. CASE L = 0
    BY <1>2, <2>1
  <2>2. CASE L # 0
    <3>1. 1 \in 1 .. L
      BY <1>1, <2>2
    <3>2. register'[1] /\ core'[1] = operands
      BY <1>4, <1>6, <3>1
    <3>3. ASSUME NEW i \in 1 .. L, i # 1 PROVE ~register'[i]
      BY <1>2, <1>4, <1>6, <3>3
    <3>4. InUnit' = {1}
      BY <1>2, <3>1, <3>2, <3>3
    <3> QED BY <2>2, <3>2, <3>4
  <2> QED BY <2>1, <2>2
<1>7. ASSUME NEW i \in 1 .. L, InUnit = {i}, ~join_valid, ~out_stop
      PROVE  IF i = L THEN InUnit' = {} ELSE InUnit' = {i + 1} /\ core'[i + 1] = core[i]
  <2>1. ASSUME NEW j \in 1 .. L PROVE register'[j] <=> j = i + 1
    <3>1. CASE j = 1
      BY <1>4, <1>7, <3>1
    <3>2. CASE j # 1
      <4>1. register'[j] = register[j - 1] /\ j - 1 \in 1 .. L
        BY <1>4, <1>7, <3>2
      <4>2. register[j - 1] <=> j - 1 = i
        BY <1>2, <1>7, <4>1
      <4> QED BY <1>1, <4>1, <4>2
    <3> QED BY <3>1, <3>2
  <2>2. CASE i = L
    <3>1. \A j \in 1 .. L : j # i + 1
      BY <1>1, <2>2
    <3>2. InUnit' = {}
      BY <1>2, <2>1, <3>1
    <3> QED BY <2>2, <3>2
  <2>3. CASE i # L
    <3>1. i + 1 \in 1 .. L /\ i + 1 # 1 /\ (i + 1) - 1 = i
      BY <1>1, <2>3
    <3>2. InUnit' = {i + 1}
      BY <1>2, <2>1, <3>1
    <3>3. core'[i + 1] = core[(i + 1) - 1]
      BY ONLY <1>4, <1>7, <3>1
    <3> QED BY <2>3, <3>1, <3>2, <3>3
  <2> QED BY <2>2, <2>3
<1> QED BY <1>3, <1>5, <1>6, <1>7 DEF L

(* What an edge does to the wire from the fork back into buffA: the token  *)
(* is taken when it is offered and buffA has room.                         *)
Back == IF waiting > 0 /\ got[ToA] = consumed /\ ~full("A") THEN 1 ELSE 0
Joins == IF join_valid /\ ~fp_stop_upstream THEN 1 ELSE 0

Turns ==
  /\ waiting \in Nat /\ consumed \in Nat /\ paired \in Nat /\ got[ToA] \in Nat
  /\ waiting = 0 => got[ToA] = consumed
  /\ Back \in 0 .. 1 /\ Joins \in 0 .. 1 /\ Pushed \in 0 .. 1
  /\ got'[ToA] = got[ToA] + Back
  /\ Sent' = Sent + Pushed
  /\ paired' = paired + Joins
  /\ fifo["A"] \in Seq(Nat) /\ fifo'["A"] \in Seq(Nat)
  /\ Len(fifo'["A"]) = Len(fifo["A"]) - Joins + Back
  /\ Joins = 0 /\ Len(fifo["A"]) = 1 => fifo'["A"][1] = fifo["A"][1]
  /\ Back = 1 => fifo'["A"][Len(fifo'["A"])] = buffOut[1][2]
  /\ fp_stop_upstream' = out_stop
  /\ Latency' = Latency /\ opcode' = opcode

LEMMA LoopTurns ==
  ASSUME PEInv, wiring = "accumulate", StreamNumbered,
         NEW stops \in SUBSET Outputs, NEW offered \in BOOLEAN,
         NEW arriving \in Arrivals, PEClock(stops, arriving, offered)
  PROVE  Turns /\ StreamNumbered'
<1> DEFINE stop_downstream == (stops \ {ToA}) \cup {o \in {ToA} : full("A")}
<1>1. /\ Clock(stop_downstream, data_out_valid /\ ~out_stop) /\ Feed(arriving) /\ Unit
      /\ wiring' = wiring /\ opcode' = opcode
  BY DEF PEClock
<1>2. /\ waiting \in Nat /\ consumed \in Nat /\ paired \in Nat /\ got \in [Outputs -> Nat]
      /\ ToA \in Outputs /\ ToA \in Enabled
  BY WiresAssumption DEF PEInv, PETypeOK, IInv, TypeOK
<1>3. /\ waiting = 0 => got[ToA] = consumed
      /\ ToA \in valid_downstream <=> waiting > 0 /\ got[ToA] = consumed
  <2>1. CASE JustReset
    BY <1>2, <2>1 DEF JustReset, valid_downstream, valid_upstream
  <2>2. CASE RegistersTrack
    BY <1>2, <2>2 DEF RegistersTrack, valid_downstream, valid_upstream, masked_state_regs
  <2> QED BY <2>1, <2>2 DEF PEInv, IInv
<1>4. ToA \in stop_downstream <=> full("A")
  OBVIOUS
<1> HIDE DEF stop_downstream
<1>5. got'[ToA] = got[ToA] + Back
  BY <1>1, <1>2, <1>3, <1>4 DEF Clock, Back
<1>6. "A" \in arriving <=> Back = 1
  BY <1>3 DEF Arrivals, Back
<1>7. /\ Pushed \in 0 .. 1 /\ Sent' = Sent + Pushed
  <2>1. /\ Released(stops) \in 0 .. 1 /\ Pushed \in 0 .. 1
        /\ waiting' = waiting - Released(stops) + Pushed
        /\ consumed' = consumed + Released(stops)
    BY BuffOutStep
  <2>2. consumed' + waiting' = (consumed + waiting) + Pushed
    BY ONLY <1>2, <2>1
  <2> QED BY <2>1, <2>2 DEF Sent
<1>8. Back \in 0 .. 1 /\ Joins \in 0 .. 1
  BY DEF Back, Joins
<1>9. paired' = paired + Joins
  BY <1>1, <1>2 DEF Feed, Joins
<1>10. \A o \in Operands : Popped(o) = Joins
  BY JoinedInLoop DEF Popped, Joins
<1>11. Came("A", arriving) = Back
  BY <1>6, <1>8 DEF Came
<1>12. ASSUME NEW o \in Operands
       PROVE  /\ fifo[o] \in Seq(Nat) /\ fifo'[o] \in Seq(Nat)
              /\ Came(o, arriving) \in 0 .. 1
              /\ Len(fifo[o]) \in Nat /\ Len(fifo'[o]) \in Nat
              /\ Len(fifo'[o]) = Len(fifo[o]) - Joins + Came(o, arriving)
              /\ \A k \in 1 .. Len(fifo[o]) - Joins : fifo'[o][k] = fifo[o][k + Joins]
              /\ o \in arriving => fifo'[o][Len(fifo'[o])] = TokenIn(o)
  BY <1>1, <1>10, FeedStep, LenProperties
<1>13. "A" \in Operands /\ "B" \in Operands
  BY DEF Operands
<1>14. Back = 1 => TokenIn("A") = buffOut[1][2]
  <2> SUFFICES ASSUME Back = 1 PROVE TokenIn("A") = buffOut[1][2]
    OBVIOUS
  <2>1. waiting > 0 /\ buffOut \in Seq(Results) /\ Len(buffOut) = waiting
    BY DEF Back, PEInv, PETypeOK
  <2>2. buffOut # <<>>
    BY <1>2, <2>1, EmptySeq
  <2> QED BY <2>1, <2>2 DEF TokenIn
<1>15. Turns
  <2>1. Joins = 0 /\ Len(fifo["A"]) = 1 => fifo'["A"][1] = fifo["A"][1]
    <3> SUFFICES ASSUME Joins = 0, Len(fifo["A"]) = 1 PROVE fifo'["A"][1] = fifo["A"][1]
      OBVIOUS
    <3>1. 1 \in 1 .. Len(fifo["A"]) - Joins /\ 1 + Joins = 1
      OBVIOUS
    <3>2. \A k \in 1 .. Len(fifo["A"]) - Joins : fifo'["A"][k] = fifo["A"][k + Joins]
      BY <1>12, <1>13
    <3> HIDE DEF Joins
    <3> QED BY ONLY <3>1, <3>2
  <2>2. Back = 1 => fifo'["A"][Len(fifo'["A"])] = buffOut[1][2]
    BY <1>6, <1>12, <1>13, <1>14
  <2>3. /\ fifo["A"] \in Seq(Nat) /\ fifo'["A"] \in Seq(Nat)
        /\ Len(fifo'["A"]) = Len(fifo["A"]) - Joins + Back
    BY <1>11, <1>12, <1>13
  <2>4. fp_stop_upstream' = out_stop
    BY <1>1 DEF Unit
  <2> QED BY <1>1, <1>2, <1>3, <1>5, <1>7, <1>8, <1>9, <2>1, <2>2, <2>3, <2>4 DEF Turns
<1>16. StreamNumbered'
  <2>1. /\ fed["B"] \in Nat /\ fed'["B"] = fed["B"] + Came("B", arriving) /\ TokenIn("B") = fed["B"] + 1
    BY <1>1, <1>13 DEF Feed, Came, TokenIn, PEInv, PETypeOK
  <2>2. /\ fed["B"] = paired + Len(fifo["B"])
        /\ \A k \in 1 .. Len(fifo["B"]) : fifo["B"][k] = paired + k
    BY DEF StreamNumbered
  <2> DEFINE m == Len(fifo["B"])
             n == Len(fifo'["B"])
             e == Came("B", arriving)
  <2>3. /\ m \in Nat /\ n \in Nat /\ e \in 0 .. 1 /\ n = m - Joins + e
        /\ \A k \in 1 .. m - Joins : fifo'["B"][k] = fifo["B"][k + Joins]
        /\ e = 1 => fifo'["B"][n] = fed["B"] + 1
    BY <1>12, <1>13, <2>1 DEF Came
  <2>4. m - Joins >= 0
    <3>1. Joins = 1 => fifo["B"] # <<>>
      BY <1>10, <1>13 DEF Popped, popped
    <3>2. fifo["B"] # <<>> => m # 0
      BY <1>12, <1>13, EmptySeq
    <3> QED BY <1>8, <2>3, <3>1, <3>2
  <2>5. \A k \in 1 .. m : fifo["B"][k] = paired + k
    BY <2>2
  <2>6. fed["B"] = paired + m
    BY <2>2
  <2> HIDE DEF m, n, e
  <2>7. fed'["B"] = paired' + n
    BY <1>2, <1>8, <1>9, <2>1, <2>3, <2>6 DEF e
  <2>8. ASSUME NEW k \in 1 .. n PROVE fifo'["B"][k] = paired' + k
    <3>1. CASE k <= m - Joins
      <4>1. k \in 1 .. m - Joins /\ k + Joins \in 1 .. m
        BY <1>8, <2>3, <2>4, <3>1
      <4>2. fifo'["B"][k] = paired + (k + Joins)
        BY <2>3, <2>5, <4>1
      <4> QED BY <1>2, <1>8, <1>9, <2>3, <4>2
    <3>2. CASE k > m - Joins
      <4>1. e = 1 /\ k = n /\ n = (m - Joins) + 1
        BY <1>8, <2>3, <2>4, <3>2
      <4>2. fifo'["B"][k] = (paired + m) + 1
        BY <2>3, <2>6, <4>1
      <4> QED BY <1>2, <1>8, <1>9, <2>3, <4>1, <4>2
    <3> QED BY <1>8, <2>3, <3>1, <3>2
  <2> QED BY <2>7, <2>8 DEF StreamNumbered, n
<1> QED BY <1>15, <1>16

LEMMA InducerTurns ==
  ASSUME PEInv, wiring = "accumulate", counter = 0 => pass = FALSE, Inducer, UNCHANGED wiring
  PROVE  /\ counter' = 0 => pass' = FALSE
         /\ ~InducerDue => ~InducerDue' /\ ~pass
         /\ InducerDue /\ ~out_stop => (InducerDue' <=> ~pass)
<1>1. counter \in 0 .. 1 /\ pass \in BOOLEAN
  BY DEF PEInv, PETypeOK
<1>2. token /\ token'
  BY DEF token
<1>3. CASE out_stop
  BY <1>1, <1>2, <1>3 DEF Inducer, InducerDue
<1>4. CASE ~out_stop
  <2>1. /\ pass' = (IF counter = 1 THEN FALSE ELSE TRUE)
        /\ counter' = (IF counter = 1 THEN counter ELSE counter + 1)
    BY <1>2, <1>4 DEF Inducer, NextPass, token
  <2>2. counter = 0 \/ counter = 1
    BY <1>1
  <2>3. counter' = 1
    BY <2>1, <2>2
  <2> QED BY <1>1, <1>2, <1>4, <2>1, <2>2, <2>3 DEF InducerDue
<1> QED BY <1>3, <1>4

(* The four places and what an edge makes of each.  A result that leaves   *)
(* has the number that comes next.                                         *)
Proceeds == Somewhere' /\ (Pushed = 1 => data_out[2] = Sent)

LEMMA FromInducer ==
  ASSUME PEInv, wiring = "accumulate", Turns, Unit, UNCHANGED <<wiring, opcode>>, Inducer,
         counter = 0 => pass = FALSE, AtInducer, ~join_valid
  PROVE  Proceeds
<1>1. waiting = 0 /\ consumed = 0 /\ ~out_stop
  <2>1. waiting = 0 /\ consumed = 0
    BY DEF AtInducer, Sent, Turns
  <2> QED BY <2>1, BoundsAssumption DEF out_stop
<1>2. ~fp_valid
  BY UnitLeaves DEF AtInducer
<1>3. Joins = 0 /\ Back = 0
  BY <1>1 DEF Joins, Back
<1>4. InUnit' = {}
  BY UnitShifts DEF AtInducer
<1>5. fifo'["A"] = <<>>
  <2>1. Len(fifo'["A"]) = 0 /\ fifo'["A"] \in Seq(Nat)
    BY <1>3 DEF Turns, AtInducer
  <2> QED BY <2>1, EmptySeq
<1>6. got'[ToA] = 0 /\ paired' = 0 /\ Sent' = Pushed /\ Pushed \in 0 .. 1
  BY <1>3 DEF Turns, AtInducer
<1>7. CASE pass
  <2>1. Pushed = 1 /\ data_out = Induced
    BY <1>1, <1>2, <1>7 DEF Pushed, data_out_valid, data_out
  <2>2. ~InducerDue'
    BY <1>1, <1>7, InducerTurns DEF AtInducer
  <2>3. AtOutput'
    BY <1>4, <1>5, <1>6, <2>1, <2>2 DEF AtOutput
  <2>4. data_out[2] = Sent
    BY <2>1 DEF Induced, AtInducer
  <2> QED BY <2>3, <2>4 DEF Proceeds, Somewhere
<1>8. CASE ~pass
  <2>1. Pushed = 0
    BY <1>2, <1>8 DEF Pushed, data_out_valid
  <2>2. InducerDue'
    BY <1>1, <1>8, InducerTurns DEF AtInducer
  <2>3. AtInducer'
    BY <1>4, <1>5, <1>6, <2>1, <2>2 DEF AtInducer
  <2> QED BY <2>1, <2>3 DEF Proceeds, Somewhere
<1> QED BY <1>7, <1>8

LEMMA FromOutput ==
  ASSUME PEInv, wiring = "accumulate", Turns, Unit, UNCHANGED <<wiring, opcode>>, Inducer,
         counter = 0 => pass = FALSE, AtOutput, SentInOrder, ~join_valid
  PROVE  Proceeds
<1>1. ~fp_valid /\ ~pass /\ ~InducerDue'
  BY UnitLeaves, InducerTurns DEF AtOutput
<1>2. Pushed = 0 /\ Joins = 0
  BY <1>1 DEF Pushed, data_out_valid, Joins
<1>3. InUnit' = {}
  BY UnitShifts DEF AtOutput
<1>4. /\ paired' = paired /\ Sent' = Sent /\ Sent = paired + 1 /\ got[ToA] = paired
      /\ got'[ToA] = paired + Back /\ fifo'["A"] \in Seq(Nat) /\ Len(fifo'["A"]) = Back
      /\ Back = 1 => fifo'["A"][Len(fifo'["A"])] = buffOut[1][2]
      /\ waiting \in Nat /\ consumed \in Nat /\ paired \in Nat
      /\ fp_stop_upstream' = out_stop
  BY <1>2 DEF Turns, AtOutput
<1>5. CASE Back = 1
  <2>1. paired = consumed /\ waiting = 1
    BY <1>4, <1>5 DEF Back, Sent
  <2>2. Len(buffOut) = 1
    BY <2>1 DEF PEInv, PETypeOK
  <2>3. buffOut[1][2] = paired
    BY <1>4, <2>1, <2>2 DEF SentInOrder
  <2>4. Len(fifo'["A"]) = 1 /\ fifo'["A"][1] = paired
    BY <1>4, <1>5, <2>3
  <2>5. Capacity > 1 => ~fp_stop_upstream'
    <3>1. Capacity > 1 => ~out_stop
      BY <2>1, BoundsAssumption DEF out_stop
    <3> HIDE DEF out_stop
    <3> QED BY <1>4, <3>1
  <2>6. AtJoin'
    BY <1>1, <1>3, <1>4, <1>5, <2>4, <2>5 DEF AtJoin
  <2> QED BY <1>2, <2>6 DEF Proceeds, Somewhere
<1>6. CASE Back # 1
  <2>1. Back = 0
    BY <1>6 DEF Back
  <2>2. fifo'["A"] = <<>>
    BY <1>4, <2>1, EmptySeq
  <2>3. AtOutput'
    BY <1>1, <1>3, <1>4, <2>1, <2>2 DEF AtOutput
  <2> QED BY <1>2, <2>3 DEF Proceeds, Somewhere
<1> QED BY <1>5, <1>6

LEMMA FromJoin ==
  ASSUME PEInv, wiring = "accumulate", StreamNumbered, Turns, Unit, UNCHANGED <<wiring, opcode>>,
         Inducer, counter = 0 => pass = FALSE, AtJoin,
         Capacity = 1 /\ join_valid => (fp_stop_upstream <=> out_stop)
  PROVE  Proceeds
<1>1. /\ got[ToA] = Sent /\ Sent = paired + 1 /\ Len(fifo["A"]) = 1 /\ fifo["A"][1] = paired
      /\ waiting \in Nat /\ consumed \in Nat /\ paired \in Nat
  BY DEF AtJoin, Turns
<1>2. got[ToA] = consumed \/ got[ToA] = consumed + 1
  BY WiresAssumption DEF PEInv, IInv, TypeOK, JustReset, RegistersTrack
<1>3. waiting <= 1 /\ Back = 0
  BY <1>1, <1>2 DEF Sent, Back
<1>4. join_valid => (fp_stop_upstream <=> out_stop)
  <2>1. Capacity > 1 => ~out_stop
    BY <1>1, <1>3, BoundsAssumption DEF out_stop
  <2>2. Capacity = 1 \/ Capacity > 1
    BY BoundsAssumption
  <2> QED BY <2>1, <2>2 DEF AtJoin
<1>5. Capacity > 1 => ~fp_stop_upstream'
  <2>1. Capacity > 1 => ~out_stop
    BY <1>1, <1>3, BoundsAssumption DEF out_stop
  <2>2. fp_stop_upstream' = out_stop
    BY DEF Turns
  <2> HIDE DEF out_stop
  <2> QED BY <2>1, <2>2
<1>6. ~pass /\ ~InducerDue'
  BY InducerTurns DEF AtJoin
<1>7. /\ got'[ToA] = paired + 1 /\ Sent' = (paired + 1) + Pushed /\ paired' = paired + Joins
      /\ fifo'["A"] \in Seq(Nat) /\ Len(fifo'["A"]) = 1 - Joins
      /\ Joins = 0 => fifo'["A"][1] = paired
  BY <1>1, <1>3 DEF Turns
<1>8. Latency[opcode] \in Nat /\ (Latency[opcode] # 0 => 1 \in 1 .. Latency[opcode] /\ 1 \in Ages)
  BY AgesOfUnit DEF PEInv, PETypeOK
<1>9. CASE join_valid /\ ~out_stop
  <2>1. Joins = 1 /\ operands[2] = paired + 1
    BY <1>4, <1>9, JoinedInLoop DEF Joins
  <2>2. fifo'["A"] = <<>>
    BY <1>7, <2>1, EmptySeq
  <2>3. CASE Latency[opcode] = 0
    <3>1. fp_valid /\ fp_out = operands /\ InUnit' = {}
      BY <1>9, <2>3, UnitLeaves, UnitShifts DEF AtJoin
    <3>2. Pushed = 1 /\ data_out[2] = Sent
      BY <1>1, <1>9, <2>1, <3>1 DEF Pushed, data_out_valid, data_out
    <3>3. AtOutput'
      BY <1>1, <1>6, <1>7, <2>1, <2>2, <3>1, <3>2 DEF AtOutput
    <3> QED BY <3>2, <3>3 DEF Proceeds, Somewhere
  <2>4. CASE Latency[opcode] # 0
    <3>1. ~fp_valid
      BY <2>4, UnitLeaves DEF AtJoin
    <3>2. Pushed = 0
      BY <1>6, <3>1 DEF Pushed, data_out_valid
    <3>3. InUnit' = {1} /\ core'[1] = operands
      BY <1>9, <2>4, UnitShifts DEF AtJoin
    <3>4. 1 \in 1 .. Latency'[opcode']
      BY <1>8, <2>4 DEF Turns
    <3>5. AtStage(1)'
      BY <1>1, <1>6, <1>7, <2>1, <2>2, <3>2, <3>3, <3>4 DEF AtStage
    <3> QED BY <1>8, <2>4, <3>2, <3>5 DEF Proceeds, Somewhere, Ages
  <2> QED BY <2>3, <2>4
<1>10. CASE ~(join_valid /\ ~out_stop)
  <2>1. Joins = 0
    BY <1>4, <1>10 DEF Joins
  <2>2. InUnit' = {}
    BY <1>10, UnitShifts DEF AtJoin
  <2>3. Pushed = 0
    <3>1. fp_valid => join_valid
      BY UnitLeaves DEF AtJoin
    <3> QED BY <1>6, <1>10, <3>1 DEF Pushed, data_out_valid
  <2>4. AtJoin'
    BY <1>1, <1>5, <1>6, <1>7, <2>1, <2>2, <2>3 DEF AtJoin
  <2> QED BY <2>3, <2>4 DEF Proceeds, Somewhere
<1> QED BY <1>9, <1>10

LEMMA FromStage ==
  ASSUME PEInv, wiring = "accumulate", Turns, Unit, UNCHANGED <<wiring, opcode>>, Inducer,
         counter = 0 => pass = FALSE, NEW i \in Ages, AtStage(i), ~join_valid
  PROVE  Proceeds
<1> DEFINE L == Latency[opcode]
<1>1. /\ got[ToA] = Sent /\ Sent = paired /\ i \in 1 .. L /\ InUnit = {i} /\ core[i][2] = paired
      /\ waiting \in Nat /\ consumed \in Nat /\ paired \in Nat /\ L \in Nat /\ 1 .. L \subseteq Ages
  BY UnitAssumption DEF AtStage, Turns, PEInv, PETypeOK, Ages
<1>2. Joins = 0 /\ Back = 0
  BY <1>1 DEF Sent, Back, Joins
<1>3. ~pass /\ ~InducerDue'
  BY InducerTurns DEF AtStage
<1>4. /\ got'[ToA] = paired /\ Sent' = paired + Pushed /\ paired' = paired
      /\ fifo'["A"] \in Seq(Nat) /\ Len(fifo'["A"]) = 0 /\ Latency'[opcode'] = L
  BY <1>1, <1>2 DEF Turns, AtStage
<1>5. fifo'["A"] = <<>>
  BY <1>4, EmptySeq
<1>6. L # 0 /\ (fp_valid <=> i = L) /\ fp_out = core[L]
  <2>1. L # 0
    BY <1>1
  <2>2. L \in InUnit <=> i = L
    BY <1>1
  <2> QED BY <2>1, <2>2, UnitLeaves
<1>7. CASE out_stop
  <2>1. Pushed = 0 /\ InUnit' = {i} /\ core' = core
    BY <1>1, <1>7, UnitShifts DEF Pushed
  <2>2. AtStage(i)'
    BY <1>1, <1>3, <1>4, <1>5, <2>1 DEF AtStage
  <2> QED BY <2>1, <2>2 DEF Proceeds, Somewhere, Ages
<1>8. CASE ~out_stop /\ i = L
  <2>1. Pushed = 1 /\ data_out[2] = Sent
    BY <1>1, <1>6, <1>8 DEF Pushed, data_out_valid, data_out
  <2>2. InUnit' = {}
    BY <1>1, <1>8, UnitShifts
  <2>3. AtOutput'
    BY <1>3, <1>4, <1>5, <2>1, <2>2 DEF AtOutput
  <2> QED BY <2>1, <2>3 DEF Proceeds, Somewhere
<1>9. CASE ~out_stop /\ i # L
  <2>1. Pushed = 0
    BY <1>3, <1>6, <1>9 DEF Pushed, data_out_valid
  <2>2. InUnit' = {i + 1} /\ core'[i + 1] = core[i]
    BY <1>1, <1>9, UnitShifts
  <2>3. i + 1 \in 1 .. L /\ i + 1 \in Ages
    BY <1>1, <1>9
  <2>4. AtStage(i + 1)'
    BY <1>1, <1>3, <1>4, <1>5, <2>1, <2>2, <2>3 DEF AtStage
  <2> QED BY <2>1, <2>3, <2>4 DEF Proceeds, Somewhere, Ages
<1> QED BY <1>7, <1>8, <1>9

LEMMA LoopProceeds ==
  ASSUME PEInv, wiring = "accumulate", StreamNumbered, counter = 0 => pass = FALSE,
         Somewhere, SentInOrder, Capacity = 1 /\ join_valid => (fp_stop_upstream <=> out_stop),
         NEW stops \in SUBSET Outputs, NEW offered \in BOOLEAN,
         NEW arriving \in Arrivals, PEClock(stops, arriving, offered)
  PROVE  Somewhere' /\ SentInOrder'
<1>1. Turns /\ Unit /\ UNCHANGED <<wiring, opcode>> /\ Inducer
  BY LoopTurns DEF PEClock
<1>2. join_valid => fifo["A"] # <<>>
  BY Combinational
<1>3. Proceeds
  <2>1. CASE AtInducer
    BY <1>1, <1>2, <2>1, FromInducer DEF AtInducer
  <2>2. CASE AtOutput
    BY <1>1, <1>2, <2>2, FromOutput DEF AtOutput
  <2>3. CASE AtJoin
    BY <1>1, <2>3, FromJoin
  <2>4. ASSUME NEW i \in Ages, AtStage(i) PROVE Proceeds
    <3>1. ~join_valid
      BY <1>2, <2>4 DEF AtStage
    <3> QED BY <1>1, <2>4, <3>1, FromStage
  <2> QED BY <2>1, <2>2, <2>3, <2>4 DEF Somewhere
<1>4. /\ Released(stops) \in 0 .. 1 /\ Pushed \in 0 .. 1
      /\ waiting' = waiting - Released(stops) + Pushed
      /\ consumed' = consumed + Released(stops)
      /\ Len(buffOut) = waiting /\ Len(buffOut') = waiting'
      /\ \A k \in 1 .. waiting - Released(stops) : buffOut'[k] = buffOut[k + Released(stops)]
      /\ Pushed = 1 => buffOut'[waiting'] = data_out
  BY BuffOutStep DEF PEInv, PETypeOK
<1>5. /\ waiting \in Nat /\ consumed \in Nat /\ waiting' \in Nat
      /\ \A k \in 1 .. waiting : buffOut[k][2] = consumed + k - 1
      /\ Pushed = 1 => data_out[2] = consumed + waiting
  <2>1. waiting \in Nat /\ consumed \in Nat
    BY <1>4 DEF PEInv, IInv, TypeOK
  <2>2. waiting' \in Nat
    BY <1>4, BuffOutStep, LenProperties
  <2> QED BY <1>3, <1>4, <2>1, <2>2 DEF SentInOrder, Proceeds, Sent
<1> DEFINE r == Released(stops)
<1> HIDE DEF r
<1>6. /\ r \in 0 .. 1 /\ Pushed \in 0 .. 1 /\ waiting' = waiting - r + Pushed
      /\ consumed' = consumed + r /\ Len(buffOut') = waiting'
      /\ \A k \in 1 .. waiting - r : buffOut'[k] = buffOut[k + r]
      /\ Pushed = 1 => buffOut'[waiting'] = data_out
  BY <1>4 DEF r
<1>7. ASSUME NEW k \in 1 .. Len(buffOut') PROVE buffOut'[k][2] = consumed' + k - 1
  <2>1. CASE k <= waiting - r
    <3>1. k \in 1 .. waiting - r /\ k + r \in 1 .. waiting
      BY ONLY <1>5, <1>6, <1>7, <2>1
    <3>2. buffOut'[k][2] = consumed + (k + r) - 1
      BY <1>5, <1>6, <3>1
    <3> QED BY ONLY <1>5, <1>6, <1>7, <3>2
  <2>2. CASE k > waiting - r
    <3>1. k = waiting' /\ Pushed = 1
      BY ONLY <1>5, <1>6, <1>7, <2>2
    <3>2. buffOut'[k][2] = consumed + waiting
      BY <1>5, <1>6, <3>1
    <3> QED BY ONLY <1>5, <1>6, <1>7, <3>1, <3>2
  <2> QED BY ONLY <1>5, <1>6, <1>7, <2>1, <2>2
<1> QED BY <1>3, <1>7 DEF Proceeds, SentInOrder

LEMMA LoopClock ==
  ASSUME PEInv, LoopInv, NEW stops \in SUBSET Outputs, NEW offered \in BOOLEAN,
         NEW arriving \in Arrivals, PEClock(stops, arriving, offered)
  PROVE  LoopInv'
<1> SUFFICES ASSUME wiring' = "accumulate"
             PROVE  /\ StreamNumbered' /\ (counter' = 0 => pass' = FALSE) /\ PairsMatch'
                    /\ slipped' = FALSE \/ Capacity > 1 => Somewhere' /\ SentInOrder'
  BY DEF LoopInv
<1>1. /\ wiring = "accumulate" /\ Inducer /\ wiring' = wiring
      /\ slipped' = (slipped \/ (join_valid /\ fp_stop_upstream # out_stop))
  BY DEF PEClock
<1>2. /\ StreamNumbered /\ (counter = 0 => pass = FALSE) /\ PairsMatch
      /\ slipped = FALSE \/ Capacity > 1 => Somewhere /\ SentInOrder
  BY <1>1 DEF LoopInv
<1>3. StreamNumbered'
  BY <1>1, <1>2, LoopTurns
<1>4. counter' = 0 => pass' = FALSE
  BY <1>1, <1>2, InducerTurns
<1>5. ASSUME slipped' = FALSE \/ Capacity > 1 PROVE Somewhere' /\ SentInOrder'
  <2>1. slipped' = FALSE => slipped = FALSE /\ (join_valid => (fp_stop_upstream <=> out_stop))
    BY <1>1 DEF PEInv, PETypeOK, out_stop
  <2>2. Capacity = 1 => ~(Capacity > 1)
    OBVIOUS
  <2>3. Capacity = 1 /\ join_valid => (fp_stop_upstream <=> out_stop)
    BY <1>5, <2>1, <2>2
  <2>4. Somewhere /\ SentInOrder
    BY <1>2, <1>5, <2>1
  <2> QED BY <1>1, <1>2, <2>3, <2>4, LoopProceeds
<1>6. PairsMatch'
  <2>1. Matched(operands)
    <3>1. CASE join_valid /\ Capacity > 1
      <4>1. operands = <<fifo["A"][1], paired + 1>> /\ fifo["A"] # <<>>
        BY <1>1, <1>2, <3>1, JoinedInLoop
      <4>2. fifo["A"][1] = paired
        BY <1>2, <3>1, <4>1 DEF Somewhere, AtInducer, AtOutput, AtStage, AtJoin
      <4> QED BY <1>1, <4>1, <4>2 DEF Matched
    <3>2. CASE ~join_valid
      BY <3>2 DEF operands, Matched
    <3>3. CASE ~(Capacity > 1)
      BY <1>1, <3>3 DEF Matched, LoopHasRoom
    <3> QED BY <3>1, <3>2, <3>3
  <2> QED BY <1>2, <2>1, PairsMatchStep
<1> QED BY <1>3, <1>4, <1>5, <1>6

LEMMA LoopInit == ASSUME PEInit PROVE LoopInv
<1>1. PEInv
  BY PEInitInv
<1>2. Len(<<>>) = 0 /\ "A" \in Operands /\ "B" \in Operands
  BY DEF Operands
<1>3. StreamNumbered
  BY <1>2 DEF PEInit, StreamNumbered
<1>4. PairsMatch
  BY <1>2 DEF PEInit, PairsMatch, Matched
<1>5. InUnit = {}
  BY <1>1, UnitAssumption DEF PEInit, InUnit, Ages, PEInv, PETypeOK
<1>6. wiring = "accumulate" => AtInducer
  BY <1>2, <1>5, WiresAssumption DEF PEInit, Init, AtInducer, InducerDue, token, Sent
<1>7. SentInOrder
  BY <1>2 DEF PEInit, SentInOrder
<1> QED BY <1>3, <1>4, <1>6, <1>7 DEF PEInit, LoopInv, Somewhere

LEMMA LoopReset == ASSUME PEInv, PEReset PROVE LoopInv'
<1>1. Len(<<>>) = 0 /\ "A" \in Operands /\ "B" \in Operands
  BY DEF Operands
<1>2. StreamNumbered'
  BY <1>1 DEF PEReset, StreamNumbered
<1>3. PairsMatch'
  BY <1>1 DEF PEReset, PairsMatch, Matched, Induced, Ages
<1>4. InUnit' = {}
  BY UnitAssumption DEF PEReset, InUnit, Ages, PEInv, PETypeOK
<1>5. wiring' = "accumulate" => AtInducer'
  BY <1>1, <1>4, WiresAssumption DEF PEReset, Reset, AtInducer, InducerDue, token, Sent
<1>6. SentInOrder'
  BY <1>1 DEF PEReset, SentInOrder
<1> QED BY <1>2, <1>3, <1>5, <1>6 DEF PEReset, LoopInv, Somewhere

LEMMA LoopInvariance == PESpec => []LoopInv
<1>1. PEInv /\ LoopInv /\ [PENext]_all_vars => LoopInv'
  <2>1. ASSUME LoopInv, UNCHANGED all_vars PROVE LoopInv'
    <3>1. UNCHANGED vars /\ UNCHANGED pe_vars
      BY <2>1 DEF all_vars, fork_vars
    <3>2. /\ StreamNumbered' <=> StreamNumbered
          /\ SentInOrder' <=> SentInOrder
          /\ PairsMatch' <=> PairsMatch
      BY <3>1 DEF vars, pe_vars, StreamNumbered, SentInOrder, PairsMatch, Matched, LoopHasRoom,
           Induced, Ages
    <3>3. InUnit' = InUnit /\ InducerDue' = InducerDue /\ Sent' = Sent
      BY <3>1 DEF vars, pe_vars, InUnit, InducerDue, token, Sent
    <3>4. AtInducer => AtInducer'
      BY <3>1, <3>3 DEF vars, pe_vars, AtInducer
    <3>5. AtJoin => AtJoin'
      BY <3>1, <3>3 DEF vars, pe_vars, AtJoin
    <3>6. AtOutput => AtOutput'
      BY <3>1, <3>3 DEF vars, pe_vars, AtOutput
    <3>7. \A i \in Ages : AtStage(i) => AtStage(i)'
      BY <3>1, <3>3 DEF vars, pe_vars, AtStage
    <3>8. Somewhere => Somewhere'
      BY <3>4, <3>5, <3>6, <3>7 DEF Somewhere, Ages
    <3>9. UNCHANGED <<wiring, counter, pass, slipped>>
      BY <3>1 DEF pe_vars
    <3> QED BY <2>1, <3>2, <3>8, <3>9 DEF LoopInv
  <2> QED BY <2>1, LoopClock, LoopReset DEF PENext, PETick
<1> QED BY <1>1, LoopInit, PEInvariance, PTL DEF PESpec

(* Outside a loop the operands of a result always have the same number; in *)
(* one whose output buffer has room for two words, operand B meets the     *)
(* result before it.                                                       *)
THEOREM PairsStayTogether == PESpec => []PairsMatch
<1>1. OrderInv /\ LoopInv => PairsMatch
  BY DEF OrderInv, LoopInv
<1> QED BY <1>1, OrderInvariance, LoopInvariance, PTL

(* As long as no operands met a stop of the wrapper that is not that of    *)
(* the output, and always in a loop with room for two words, the results   *)
(* on their way are those of the pairs the join released, each once and in *)
(* order.                                                                  *)
THEOREM ResultsAreExact == PESpec => []ExactUnlessSlipped
<1>1. ASSUME PEInv, OrderInv, wiring # "accumulate" PROVE ExactUnlessSlipped
  <2> SUFFICES ASSUME slipped = FALSE PROVE InOrder
    BY <1>1 DEF ExactUnlessSlipped, LoopHasRoom, PEInv, PETypeOK
  <2>1. Exact
    BY <1>1 DEF OrderInv
  <2>2. ~InducerDue /\ FirstNumber = consumed + 1
    BY <1>1 DEF InducerDue, token, FirstNumber
  <2>3. /\ waiting \in Nat /\ consumed \in Nat /\ Len(buffOut) = waiting
        /\ DOMAIN buffOut = 1 .. Len(buffOut)
    BY <1>1, LenProperties DEF PEInv, PETypeOK, IInv, TypeOK
  <2>4. \A k \in DOMAIN buffOut : buffOut[k][2] = FirstNumber + k - 1
    BY <2>1, <2>2, <2>3 DEF Exact
  <2>5. {core[i][2] : i \in InUnit} = consumed + waiting + 1 .. paired
    BY <2>1 DEF Exact
  <2>6. FirstNumber + Len(buffOut) = consumed + waiting + 1
    BY <2>2, <2>3
  <2> QED BY <2>1, <2>2, <2>4, <2>5, <2>6 DEF InOrder, Exact
<1>2. ASSUME PEInv, LoopInv, wiring = "accumulate" PROVE ExactUnlessSlipped
  <2> SUFFICES ASSUME slipped = FALSE \/ Capacity > 1 PROVE InOrder
    BY <1>2 DEF ExactUnlessSlipped, LoopHasRoom, PEInv, PETypeOK
  <2>1. Somewhere /\ SentInOrder
    BY <1>2 DEF LoopInv
  <2>2. /\ waiting \in Nat /\ consumed \in Nat /\ paired \in Nat /\ Len(buffOut) = waiting
        /\ DOMAIN buffOut = 1 .. Len(buffOut) /\ FirstNumber = consumed
    BY <1>2, LenProperties DEF PEInv, PETypeOK, IInv, TypeOK, FirstNumber
  <2>3. \A k \in DOMAIN buffOut : buffOut[k][2] = FirstNumber + k - 1
    BY <2>1, <2>2 DEF SentInOrder
  <2>4. FirstNumber + Len(buffOut) = Sent
    BY <2>2 DEF Sent
  <2>5. /\ \A i, j \in InUnit : i < j => core[i][2] > core[j][2]
        /\ {core[i][2] : i \in InUnit} = IF InducerDue THEN {} ELSE Sent .. paired
    <3>1. CASE AtInducer
      BY <3>1 DEF AtInducer
    <3>2. CASE AtJoin \/ AtOutput
      <4>1. InUnit = {} /\ ~InducerDue /\ Sent = paired + 1
        BY <3>2 DEF AtJoin, AtOutput
      <4>2. Sent .. paired = {}
        BY <2>2, <4>1
      <4> QED BY <4>1, <4>2
    <3>3. ASSUME NEW s \in Ages, AtStage(s)
          PROVE  /\ \A i, j \in InUnit : i < j => core[i][2] > core[j][2]
                 /\ {core[i][2] : i \in InUnit} = IF InducerDue THEN {} ELSE Sent .. paired
      <4>1. /\ InUnit = {s} /\ ~InducerDue /\ Sent = paired /\ core[s][2] = paired
            /\ s \in 1 .. Latency[opcode]
        BY <3>3 DEF AtStage
      <4>2. Sent .. paired = {paired} /\ ~(s < s)
        BY <2>2, <4>1
      <4> QED BY <4>1, <4>2
    <3> QED BY <2>1, <3>1, <3>2, <3>3 DEF Somewhere
  <2> QED BY <2>3, <2>4, <2>5 DEF InOrder
<1>3. PEInv /\ OrderInv /\ LoopInv => ExactUnlessSlipped
  BY <1>1, <1>2
<1> QED BY <1>3, PEInvariance, OrderInvariance, LoopInvariance, PTL
=============================================================================
