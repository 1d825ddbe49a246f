------------------------------ MODULE ElasticPE ------------------------------
(***************************************************************************)
(* One half of the elastic processing element RIKEN_PE_Elastic: the input  *)
(* buffers buffA and buffB, the join and the floating-point unit of        *)
(* ElasticFPUnit with its wrapper and its token inducer, the output buffer *)
(* buffOut, and the crossbar fork behind it.                               *)
(*                                                                         *)
(* buffOut and its fork are the buffer and the fork of EagerFork, which    *)
(* this module extends; ForkTree shows that the crossbar's fork is that    *)
(* fork, and ElasticBuffer that a buffer is the queue used here.  One step *)
(* is one rising edge of CGRA_Clock.                                       *)
(***************************************************************************)
EXTENDS EagerFork, Sequences

CONSTANTS
  Out, ToA,      (* the fork's outputs: to a neighbour, and to the crossbar *)
                 (* wire that can be routed back into buffA                 *)
  Opcodes,       (* the supported modes of the unit                         *)
  Opcode0,       (* the mode with code 0, the reset value of curr_opcode    *)
  Latency,       (* edges from the operands to the result, for each mode    *)
  max_latency,   (* the wrapper's shift register has bits max_latency .. 0  *)
  Depth,         (* depth of buffA and buffB                                *)
  MaxOperands    (* bound on the operands that arrive between two resets    *)

ASSUME UnitAssumption ==
  /\ Opcode0 \in Opcodes
  /\ max_latency \in Nat
  /\ Latency \in [Opcodes -> 0 .. max_latency]
ASSUME WiresAssumption ==
  Out # ToA /\ {Out, ToA} \subseteq Outputs /\ {Out, ToA} \subseteq Enabled
ASSUME DepthAssumption == Depth \in Nat \ {0} /\ MaxOperands \in Nat

Operands == {"A", "B"}

(* How the crossbars are configured: both operands are streams of their    *)
(* own; one stream is forked into both; the unit has one operand (or its   *)
(* other one is the immediate value, which is always valid); or operand A  *)
(* is the unit's own last result.                                          *)
Wirings == {"streams", "square", "unary", "accumulate"}

VARIABLES
  wiring, opcode,    (* the configuration, constant while a kernel runs     *)
  fifo,              (* buffA and buffB: numbers of operands, oldest first  *)
  fed,               (* history: operands each buffer has taken since reset *)
  at_fork, fork_regs,(* square: a token is at the input fork; its registers *)
  fp_stop_upstream,  (* the wrapper's output register                       *)
  curr_opcode,       (* the wrapper's register for the current mode         *)
  register,          (* the wrapper's valid bits, by age: bit               *)
                     (* max_latency - i + 1 is that of i edges ago          *)
  core,              (* the operands in the FloPoCo pipeline, by age        *)
  pass, counter,     (* the token inducer                                   *)
  buffOut,           (* the results in the output buffer, oldest first      *)
  paired,            (* history: operands, or pairs, the join has released  *)
  slipped            (* history: since reset, operands stood at the join in *)
                     (* a period in which the wrapper's stop was not that   *)
                     (* of the output                                       *)

fork_vars == vars
pe_vars == <<wiring, opcode, fifo, fed, at_fork, fork_regs, fp_stop_upstream, curr_opcode,
             register, core, pass, counter, buffOut, paired, slipped>>
all_vars == <<fork_vars, pe_vars>>

Ages == 1 .. max_latency + 1

(* A result is known by the numbers of its operands; Induced is the token  *)
(* that stands for the result before the first.                            *)
Results == Nat \X Nat
Induced == <<0, 0>>

-----------------------------------------------------------------------------
(* ElasticJoin, with its enable bits.                                      *)
enable == IF wiring = "unary" THEN {"A"} ELSE Operands
full(o) == Len(fifo[o]) = Depth
masked_valid(o) == o \in enable => fifo[o] # <<>>
join_valid == \A o \in Operands : masked_valid(o)
JoinStopForWrapperOnly(o) == fp_stop_upstream
join_stop(o) == fp_stop_upstream \/ (masked_valid(o) /\ ~join_valid)
operands ==
  IF ~join_valid THEN Induced
  ELSE <<Head(fifo["A"]), IF "B" \in enable THEN Head(fifo["B"]) ELSE Head(fifo["A"])>>
popped(o) == fifo[o] # <<>> /\ ~join_stop(o)

(* FPUnit_wrapper and the pipeline of the unit.                            *)
out_stop == waiting = Capacity
FpValidLate == register[Latency[curr_opcode] + 1]
fp_valid ==
  IF Latency[curr_opcode] = 0 THEN join_valid ELSE register[Latency[curr_opcode]]
fp_out == IF Latency[opcode] = 0 THEN operands ELSE core[Latency[opcode]]
Shifted(line, in) == [i \in Ages |-> IF i = 1 THEN in ELSE line[i - 1]]

(* The always block assigns stop_upstream twice, and the second assignment *)
(* is unconditional: a mode change that should drain the unit stops nobody.*)
(* The new mode is taken over when no valid bit is left.                   *)
NextOpcode == IF \E i \in Ages : register[i] THEN curr_opcode ELSE opcode

(* ElasticTokenInducer (one context): the token bit is set on a cycle.     *)
token == wiring = "accumulate"
data_out_valid == fp_valid \/ pass
data_out == IF fp_valid THEN fp_out ELSE Induced
NextPassShort == IF counter < 2 THEN FALSE ELSE token
NextPass == IF counter = 1 THEN FALSE ELSE token

-----------------------------------------------------------------------------
(* The fork in the crossbar that feeds both operands from one stream.      *)
InFork == INSTANCE EagerFork WITH
  Outputs <- Operands, First <- "A", Enabled <- Operands, Capacity <- 1, MaxTokens <- MaxOperands,
  state_regs <- fork_regs, waiting <- IF at_fork THEN 1 ELSE 0,
  consumed <- 0, got <- [o \in Operands |-> 0], stalled <- {}

fork_stops == {o \in Operands : full(o)}

(* The operands whose buffer takes a token in: each on its own; both or    *)
(* one through the input fork; or A from the crossbar fork.                *)
Arrivals ==
  IF wiring = "square" THEN {InFork!valid_downstream \ fork_stops}
  ELSE IF wiring = "accumulate"
  THEN LET back == IF ToA \in valid_downstream /\ ~full("A") THEN {"A"} ELSE {}
       IN  {back, back \cup {"B"}}
  ELSE SUBSET enable

TokenIn(o) == IF wiring = "accumulate" /\ o = "A" THEN Head(buffOut)[2] ELSE fed[o] + 1

Bounded(arriving) ==
  \A o \in arriving : ~full(o) /\ (fed[o] < MaxOperands \/ (wiring = "accumulate" /\ o = "A"))

-----------------------------------------------------------------------------
PEInit ==
  /\ Init
  /\ wiring \in Wirings
  /\ opcode \in Opcodes
  /\ fifo = [o \in Operands |-> <<>>]
  /\ fed = [o \in Operands |-> 0]
  /\ at_fork = FALSE
  /\ fork_regs = {"A"}
  /\ fp_stop_upstream = FALSE
  /\ curr_opcode = Opcode0
  /\ register = [i \in Ages |-> FALSE]
  /\ core = [i \in Ages |-> Induced]
  /\ pass = FALSE
  /\ counter = 0
  /\ buffOut = <<>>
  /\ paired = 0
  /\ slipped = FALSE

(* CGRA_Reset reaches all modules at the same edge; the stop register is   *)
(* overwritten by the unconditional assignment here too.                   *)
PEReset ==
  /\ Reset
  /\ fifo' = [o \in Operands |-> <<>>]
  /\ fed' = [o \in Operands |-> 0]
  /\ at_fork' = FALSE
  /\ fork_regs' = {"A"}
  /\ fp_stop_upstream' = out_stop
  /\ curr_opcode' = Opcode0
  /\ register' = [i \in Ages |-> FALSE]
  /\ core' = [i \in Ages |-> Induced]
  /\ pass' = FALSE
  /\ counter' = 0
  /\ buffOut' = <<>>
  /\ paired' = 0
  /\ slipped' = FALSE
  /\ UNCHANGED <<wiring, opcode>>

(* Into the buffers: what arrives, less what the join releases.            *)
Feed(arriving) ==
  /\ Bounded(arriving)
  /\ fifo' = [o \in Operands |->
       (IF popped(o) THEN Tail(fifo[o]) ELSE fifo[o])
         \o (IF o \in arriving THEN <<TokenIn(o)>> ELSE <<>>)]
  /\ fed' = [o \in Operands |-> IF o \in arriving THEN fed[o] + 1 ELSE fed[o]]
  /\ paired' = IF join_valid /\ ~fp_stop_upstream THEN paired + 1 ELSE paired

(* The stream behind the input fork moves on when both buffers are served. *)
InputFork(offered) ==
  IF wiring = "square"
  THEN
       /\ fork_regs' = InFork!NextState(fork_stops)
       /\ at_fork' = IF at_fork /\ InFork!stop_upstream(fork_stops) THEN TRUE ELSE offered
       /\ offered => fed["A"] + (IF at_fork /\ "A" \in fork_regs THEN 1 ELSE 0) < MaxOperands
  ELSE UNCHANGED <<at_fork, fork_regs>> /\ ~offered

(* The unit: valid bits and pipeline move while the output is not stopped. *)
UnitClockedByStop ==
  /\ register' = IF out_stop THEN register ELSE Shifted(register, join_valid)
  /\ core' = IF fp_stop_upstream THEN core ELSE Shifted(core, operands)
  /\ fp_stop_upstream' = out_stop
  /\ curr_opcode' = NextOpcode
Unit ==
  /\ register' = IF out_stop THEN register ELSE Shifted(register, join_valid)
  /\ core' = IF out_stop THEN core ELSE Shifted(core, operands)
  /\ fp_stop_upstream' = out_stop
  /\ curr_opcode' = NextOpcode

Inducer ==
  /\ pass' = IF out_stop THEN pass ELSE NextPass
  /\ counter' = IF out_stop \/ counter = 1 THEN counter ELSE counter + 1

(* An edge at which the consumers outside the PE stall the outputs in      *)
(* stops, the operands in arriving come in, and offered says whether a new *)
(* token comes to the input fork when it is free.                          *)
PEClock(stops, arriving, offered) ==
  LET feedback == IF wiring = "accumulate" THEN {ToA} ELSE {}
      stop_downstream == (stops \ feedback) \cup {o \in feedback : full("A")}
      pushed == data_out_valid /\ ~out_stop
      released == valid_upstream /\ ~stop_upstream(stop_downstream)
  IN  /\ stops \cap feedback = {}
      /\ Clock(stop_downstream, pushed)
      /\ buffOut' = (IF released THEN Tail(buffOut) ELSE buffOut)
                    \o (IF pushed THEN <<data_out>> ELSE <<>>)
      /\ Feed(arriving)
      /\ InputFork(offered)
      /\ Unit
      /\ Inducer
      /\ slipped' = (slipped \/ (join_valid /\ fp_stop_upstream # out_stop))
      /\ UNCHANGED <<wiring, opcode>>

PETick == \E stops \in SUBSET Outputs, offered \in BOOLEAN :
            \E arriving \in Arrivals : PEClock(stops, arriving, offered)

PENext == PETick \/ PEReset

PESpec == PEInit /\ [][PENext]_all_vars

(* The clock runs for ever and no consumer stalls for ever.                *)
PEServed(o) == \E stops \in SUBSET (Outputs \ {o}), offered \in BOOLEAN :
                 \E arriving \in Arrivals : PEClock(stops, arriving, offered)
PEFairSpec ==
  /\ PESpec
  /\ WF_all_vars(PETick)
  /\ \A o \in Outputs : SF_all_vars(o \in valid_downstream /\ PEServed(o))

-----------------------------------------------------------------------------
PETypeOK ==
  /\ TypeOK
  /\ wiring \in Wirings /\ opcode \in Opcodes /\ curr_opcode \in Opcodes
  /\ fifo \in [Operands -> Seq(Nat)]
  /\ fed \in [Operands -> Nat]
  /\ at_fork \in BOOLEAN /\ fork_regs \subseteq Operands
  /\ fp_stop_upstream \in BOOLEAN /\ pass \in BOOLEAN /\ counter \in 0 .. 1
  /\ register \in [Ages -> BOOLEAN]
  /\ core \in [Ages -> Results]
  /\ buffOut \in Seq(Results) /\ Len(buffOut) = waiting
  /\ paired \in Nat /\ slipped \in BOOLEAN

(* The wrapper's valid bits and the pipeline of the unit are two lines that *)
(* are clocked apart: at any age the bit is set exactly if the stage holds  *)
(* operands, and a result leaves with its own valid bit, also right after a *)
(* change of the mode.                                                      *)
StageInStep ==
  /\ \A i \in Ages : register[i] <=> core[i] # Induced
  /\ fp_valid <=> fp_out # Induced

(* The join never mixes operands of different tokens, however unevenly they *)
(* arrive and however often the unit is stalled: a result's operands have   *)
(* the same number, and in a loop whose output buffer has room for two      *)
(* words operand B meets the result before it.                              *)
LoopHasRoom == wiring = "accumulate" /\ Capacity > 1
Matched(pair) ==
  \/ pair = Induced
  \/ wiring # "accumulate" /\ pair[2] = pair[1]
  \/ wiring = "accumulate" /\ (LoopHasRoom => pair[2] = pair[1] + 1)
PairsMatch ==
  /\ \A i \in Ages : Matched(core[i])
  /\ \A k \in DOMAIN buffOut : Matched(buffOut[k])

(* The results on their way, oldest first: those in the output buffer, then *)
(* those still in the unit.                                                 *)
InUnit == {i \in 1 .. Latency[opcode] : register[i]}
InducerDue == token /\ (counter = 0 \/ pass)
FirstNumber == IF wiring = "accumulate" THEN consumed ELSE consumed + 1
InOrder ==
  /\ \A k \in DOMAIN buffOut : buffOut[k][2] = FirstNumber + k - 1
  /\ \A i, j \in InUnit : i < j => core[i][2] > core[j][2]
  /\ {core[i][2] : i \in InUnit} =
       (IF InducerDue THEN {} ELSE (FirstNumber + Len(buffOut)) .. paired)

(* As long as no operands meet a stop of the wrapper that is not that of    *)
(* the output, every pair the join releases leaves the unit exactly once    *)
(* and in order; and always in a loop, where the one token that goes round  *)
(* waits in the output buffer until the unit can take it again.             *)
ExactUnlessSlipped == ~slipped \/ LoopHasRoom => InOrder

(* Operands that have reached the buffers are joined, although the join     *)
(* holds the one that came first, and although the input fork hands the     *)
(* copies of one token over in different periods.                           *)
Supplied(n) ==
  CASE wiring = "streams" -> fed["A"] >= n /\ fed["B"] >= n
    [] wiring = "square" -> fed["A"] >= n \/ fed["B"] >= n
    [] wiring = "unary" -> fed["A"] >= n
    [] wiring = "accumulate" -> fed["B"] >= n
EveryOperandJoined ==
  \A n \in 1 .. MaxOperands : Supplied(n) ~> (paired >= n \/ ~Supplied(n))

(* The wrapper "is needed because the FloPoCo FP units are non-elastic":    *)
(* behind it every pair that was joined is one result, in order.            *)
UnitIsElastic == InOrder
=============================================================================
