---------------------------- MODULE HybridControl ----------------------------
(***************************************************************************)
(* The control unit and the data memory that core/Control.cpp generates    *)
(* for the hybrid system (modules hybrid_wrapper and mm_ram, with the      *)
(* banks of dp_ram.sv), between a RISC-V processor that runs the firmware  *)
(* and the CGRA.  The firmware starts the CGRA by writing the number of    *)
(* cycles to counter, or by writing to endport, whereupon the run ends     *)
(* when the selected output of the CGRA shows 1.  It then polls the        *)
(* register it has written until it reads 1, and goes on.                  *)
(*                                                                         *)
(* One step is one rising clock edge.  A bank stands for one of its words. *)
(***************************************************************************)
EXTENDS Integers

CONSTANTS
  Banks,       (* the memory banks                                         *)
  FirstBank,   (* the bank of address 0                                    *)
  Ports,       (* the outputs of the CGRA                                  *)
  FirstPort,   (* cgra_io[0]                                               *)
  Data,        (* the values of a word                                     *)
  MaxCount,    (* bound on the cycles the firmware asks for                *)
  Latency,     (* cycles between an answer that ends a poll and the next   *)
               (* access                                                   *)
  StartLatency (* cycles between such an answer and the next start of a run *)

Polled == {"counter", "endport"}
Registers == Polled \cup {"reset", "selport"}

ASSUME AddressAssumption ==
  /\ FirstBank \in Banks /\ FirstPort \in Ports
  /\ Banks \cap (Ports \cup Registers \cup {"none", "write"}) = {}
  /\ Ports \cap (Registers \cup {"none", "write"}) = {}
ASSUME DataAssumption == {0, 1} \subseteq Data
ASSUME CountAssumption == MaxCount \in Nat
(* The branch that tests the answer takes one cycle; firmware/counter/knn4.S *)
(* and others access the bus directly after it.  No firmware starts a run   *)
(* directly after it: between the two lies one instruction at least.        *)
ASSUME LatencyAssumption ==
  /\ {Latency, StartLatency} \subseteq Nat
  /\ 1 <= Latency /\ 2 <= StartLatency /\ Latency <= StartLatency

VARIABLES
  (* hybrid_wrapper *)
  counter, CGRA_Enable, use_counter, end_cgra, CGRA_Reset_Control,
  select_port, data_rdata_port,
  (* mm_ram and the banks *)
  state_valid_q, data_rvalid_q, select_rdata_q, data_addr_dec_q, mem,
  ram_data_rdata_tmp,   (* the read register of each bank                  *)
  (* the processor *)
  pending,     (* the access the LSU waits for: an address read, a write   *)
  phase,       (* how the run ends that the firmware waits for, or idle    *)
  pause,       (* cycles until the firmware may start a run                *)
  (* history *)
  left,        (* enabled cycles that the counted run still has to get     *)
  expected,    (* the word in memory when the pending load was granted     *)
  stale        (* an endport run was started with end_cgra still set       *)

wrapper == <<counter, CGRA_Enable, use_counter, end_cgra, CGRA_Reset_Control,
             select_port, data_rdata_port>>
ram == <<state_valid_q, data_rvalid_q, select_rdata_q, data_addr_dec_q, mem,
         ram_data_rdata_tmp>>
vars == <<wrapper, ram, pending, phase, pause, left, expected, stale>>

-----------------------------------------------------------------------------
(* Requests on the data bus.                                               *)

None == [at |-> "none", we |-> FALSE, wdata |-> 0]
Read(a) == [at |-> a, we |-> FALSE, wdata |-> 0]
Write(a, w) == [at |-> a, we |-> TRUE, wdata |-> w]
ToRam(req) == req.at \in Banks
Writes(req, a) == req.we /\ req.at = a

Requests ==
  {Read(a) : a \in Banks \cup Ports \cup Polled}
    \cup {Write(b, d) : b \in Banks, d \in Data}
    \cup {Write("counter", n) : n \in 0 .. MaxCount}
    \cup {Write("endport", 1)}
    \cup {Write("reset", b) : b \in BOOLEAN}
    \cup {Write("selport", p) : p \in Ports}

(* mm_ram: the handshake.  data_req_dec is the grant of the RAM as well.   *)
data_req_dec(req) == ToRam(req)

riscv_rvalid_o ==
  \/ state_valid_q = "PERIPHEARL_VALID"
  \/ state_valid_q = "WAIT_RAM_VALID" /\ data_rvalid_q

riscv_gnt_o(req) ==
  /\ req # None
  /\ state_valid_q = "WAIT_RAM_GNT" => data_req_dec(req)
  /\ state_valid_q = "WAIT_RAM_VALID" => data_rvalid_q

Accept(req) ==
  IF req = None THEN "IDLE"
  ELSE IF data_req_dec(req) THEN "WAIT_RAM_VALID" ELSE "PERIPHEARL_VALID"

(* A state in which the request that comes with an answer is not seen.     *)
ValidForgetsPipelined(req) ==
  IF state_valid_q = "WAIT_RAM_VALID" THEN "IDLE" ELSE Accept(req)
state_valid_n(req) ==
  CASE state_valid_q = "WAIT_RAM_VALID" /\ ~data_rvalid_q -> "WAIT_RAM_VALID"
    [] state_valid_q = "WAIT_RAM_GNT" /\ req # None /\ ~data_req_dec(req) -> "WAIT_RAM_GNT"
    [] OTHER -> Accept(req)

select_rdata_d(req) ==
  IF req # None /\ ~req.we /\ ~ToRam(req) THEN "ERR" ELSE "RAM"

BankAlwaysFirst(req) == FirstBank
data_addr_dec(req) == IF ToRam(req) THEN req.at ELSE FirstBank

(* The answer the processor sees, by the window of the address on the bus  *)
(* in the cycle of the answer.                                             *)
riscv_rdata_o == IF select_rdata_q = "RAM" THEN ram_data_rdata_tmp[data_addr_dec_q] ELSE 0
data_rdata(inRam) == IF inRam THEN riscv_rdata_o ELSE data_rdata_port

-----------------------------------------------------------------------------
(* hybrid_wrapper: a write first, then the countdown or the end port, whose *)
(* assignments to counter and CGRA_Enable win.                             *)
end_port(cgra_io) == cgra_io[select_port] = 1

RunEndsOneEarly(cgra_io) ==
  CGRA_Enable /\ IF use_counter THEN counter <= 1 ELSE end_port(cgra_io)
RunEnds(cgra_io) ==
  CGRA_Enable /\ IF use_counter THEN counter = 0 ELSE end_port(cgra_io)

NextCounter(req) ==
  IF use_counter /\ CGRA_Enable /\ counter # 0 THEN counter - 1
  ELSE IF Writes(req, "counter") THEN req.wdata ELSE counter

(* What a read of a register or of an output of the CGRA returns.          *)
PortReadMargin4(a, cgra_io) ==
  CASE a = "counter" -> IF counter <= 4 THEN 1 ELSE 0
    [] a = "endport" -> IF end_cgra THEN 1 ELSE 0
    [] OTHER -> cgra_io[a]
PortReadAt3(a, cgra_io) ==
  CASE a = "counter" -> IF counter = 3 THEN 1 ELSE 0
    [] a = "endport" -> IF end_cgra THEN 1 ELSE 0
    [] OTHER -> cgra_io[a]
PortRead(a, cgra_io) ==
  CASE a = "counter" -> IF counter <= 3 THEN 1 ELSE 0
    [] a = "endport" -> IF end_cgra THEN 1 ELSE 0
    [] OTHER -> cgra_io[a]

ClockWrapper(req, cgra_io) ==
  /\ counter' = NextCounter(req)
  /\ CGRA_Enable' =
       (~RunEnds(cgra_io) /\ (CGRA_Enable \/ \E a \in Polled : Writes(req, a)))
  /\ use_counter' =
       ((use_counter \/ Writes(req, "counter")) /\ ~Writes(req, "endport"))
  /\ end_cgra' = (end_cgra \/ (RunEnds(cgra_io) /\ ~use_counter))
  /\ CGRA_Reset_Control' = IF Writes(req, "reset") THEN req.wdata ELSE CGRA_Reset_Control
  /\ select_port' = IF Writes(req, "selport") THEN req.wdata ELSE select_port
  /\ data_rdata_port' =
       IF req.at \in Polled \cup Ports /\ ~req.we THEN PortRead(req.at, cgra_io)
       ELSE data_rdata_port

cgra_bank_enable == IF CGRA_Enable THEN Banks ELSE {}

(* The banks.  While the CGRA is reset they serve neither side; a store of *)
(* the CGRA to the word the processor accesses is dropped.  stores gives   *)
(* the words the CGRA would store, for the enabled banks it stores to.     *)
ClockMemory(req, stores) ==
  /\ state_valid_q' = state_valid_n(req)
  /\ data_rvalid_q' = data_req_dec(req)
  /\ select_rdata_q' = select_rdata_d(req)
  /\ data_addr_dec_q' = data_addr_dec(req)
  /\ mem' = [b \in Banks |->
       IF CGRA_Reset_Control THEN mem[b]
       ELSE IF req.at = b THEN (IF req.we THEN req.wdata ELSE mem[b])
       ELSE IF b \in DOMAIN stores THEN stores[b] ELSE mem[b]]
  /\ ram_data_rdata_tmp' = [b \in Banks |->
       IF req.at = b /\ ~req.we /\ ~CGRA_Reset_Control THEN mem[b]
       ELSE ram_data_rdata_tmp[b]]

(* A clock edge with the request req (or None) on the bus.                 *)
Edge(req, cgra_io, stores) ==
  /\ pending' = IF ~riscv_gnt_o(req) THEN "none" ELSE IF req.we THEN "write" ELSE req.at
  /\ ClockWrapper(req, cgra_io)
  /\ ClockMemory(req, stores)
  /\ left' = IF Writes(req, "counter") THEN req.wdata + 1
             ELSE IF CGRA_Enable /\ use_counter THEN left - 1 ELSE left
  /\ expected' = IF ToRam(req) /\ ~req.we THEN mem[req.at] ELSE 0

SomeEdge(req) ==
  \E cgra_io \in [Ports -> Data], S \in SUBSET cgra_bank_enable :
    \E stores \in [S -> Data] : Edge(req, cgra_io, stores)

-----------------------------------------------------------------------------
(* The processor.  The LSU sends a request when nothing is pending, or in  *)
(* the cycle of the answer; the firmware waits for the answer of a poll;   *)
(* after one that ends the polling it goes on Latency cycles later, and    *)
(* may start the next run StartLatency cycles later.                       *)
LsuReady == pending = "none" \/ riscv_rvalid_o
MayRequest == LsuReady /\ pending \notin Polled /\ pause + Latency <= StartLatency
GoesOn == MayRequest /\ phase = "idle"
MayStart == GoesOn /\ pause = 0 /\ ~CGRA_Reset_Control
Elapse == pause' = IF pause > 0 THEN pause - 1 ELSE 0

Init ==
  /\ counter = 0
  /\ CGRA_Enable = FALSE
  /\ use_counter = TRUE
  /\ end_cgra = FALSE
  /\ CGRA_Reset_Control = FALSE
  /\ select_port = FirstPort
  /\ data_rdata_port = 0
  /\ state_valid_q = "IDLE"
  /\ data_rvalid_q = FALSE
  /\ select_rdata_q = "RAM"
  /\ data_addr_dec_q = FirstBank
  /\ mem \in [Banks -> Data]
  /\ ram_data_rdata_tmp = [b \in Banks |-> 0]
  /\ pending = "none"
  /\ phase = "idle"
  /\ pause = 0
  /\ left = 0
  /\ expected = 0
  /\ stale = FALSE

(* A cycle without a request.  In the cycle of a poll's answer the address *)
(* of the poll is still on the bus: the branch that needs it stalls.       *)
PollDone == pending \in Polled /\ riscv_rvalid_o /\ data_rdata(FALSE) = 1
Quiet ==
  /\ SomeEdge(None)
  /\ phase' = IF PollDone THEN "idle" ELSE phase
  /\ IF PollDone THEN pause' = StartLatency ELSE Elapse
  /\ UNCHANGED stale

StartCounted(n) ==
  /\ MayStart
  /\ SomeEdge(Write("counter", n))
  /\ phase' = "counter"
  /\ UNCHANGED <<pause, stale>>

StartToEnd ==
  /\ MayStart
  /\ SomeEdge(Write("endport", 1))
  /\ phase' = "endport"
  /\ stale' = (stale \/ end_cgra)
  /\ UNCHANGED pause

Poll ==
  /\ MayRequest /\ phase # "idle"
  /\ SomeEdge(Read(phase))
  /\ UNCHANGED <<phase, pause, stale>>

(* Between runs the firmware resets the CGRA (without other accesses until *)
(* the reset is taken back), selects the end port, reads results.          *)
ResetCGRA(b) ==
  /\ GoesOn
  /\ SomeEdge(Write("reset", b))
  /\ Elapse /\ UNCHANGED <<phase, stale>>

SelectPort(p) ==
  /\ GoesOn /\ ~CGRA_Reset_Control
  /\ SomeEdge(Write("selport", p))
  /\ Elapse /\ UNCHANGED <<phase, stale>>

ReadPort(p) ==
  /\ MayRequest
  /\ SomeEdge(Read(p))
  /\ Elapse /\ UNCHANGED <<phase, stale>>

LoadWord(b) ==
  /\ MayRequest /\ ~CGRA_Reset_Control
  /\ SomeEdge(Read(b))
  /\ Elapse /\ UNCHANGED <<phase, stale>>

StoreWord(b, d) ==
  /\ MayRequest /\ ~CGRA_Reset_Control
  /\ SomeEdge(Write(b, d))
  /\ Elapse /\ UNCHANGED <<phase, stale>>

Next ==
  \/ Quiet
  \/ \E n \in 0 .. MaxCount : StartCounted(n)
  \/ StartToEnd
  \/ Poll
  \/ \E b \in BOOLEAN : ResetCGRA(b)
  \/ \E p \in Ports : SelectPort(p) \/ ReadPort(p)
  \/ \E b \in Banks : LoadWord(b) \/ \E d \in Data : StoreWord(b, d)

Spec == Init /\ [][Next]_vars

(* The clock runs, and there are cycles without a request (the branch of a *)
(* loop is one); the firmware polls again and again; and a run to the end  *)
(* port makes the selected output show 1 if it goes on for ever.           *)
EndPortFires == CGRA_Enable /\ ~use_counter /\ Quiet /\ ~CGRA_Enable'
FairSpec == Spec /\ WF_vars(Quiet) /\ WF_vars(Poll) /\ SF_vars(EndPortFires)

-----------------------------------------------------------------------------
TypeOK ==
  /\ counter \in 0 .. MaxCount
  /\ CGRA_Enable \in BOOLEAN /\ use_counter \in BOOLEAN /\ end_cgra \in BOOLEAN
  /\ CGRA_Reset_Control \in BOOLEAN
  /\ select_port \in Ports
  /\ data_rdata_port \in Data
  /\ state_valid_q \in {"IDLE", "PERIPHEARL_VALID", "WAIT_RAM_GNT", "WAIT_RAM_VALID"}
  /\ data_rvalid_q \in BOOLEAN
  /\ select_rdata_q \in {"RAM", "ERR"}
  /\ data_addr_dec_q \in Banks
  /\ mem \in [Banks -> Data]
  /\ ram_data_rdata_tmp \in [Banks -> Data]
  /\ pending \in Banks \cup Ports \cup Polled \cup {"none", "write"}
  /\ phase \in Polled \cup {"idle"}
  /\ pause \in 0 .. StartLatency
  /\ left \in Int
  /\ expected \in Data
  /\ stale \in BOOLEAN

(* The bus and the LSU stay in step: there is an answer in exactly the     *)
(* cycles in which one is pending (the assertions of the LSU), and every   *)
(* request the LSU can send is granted at once.                            *)
BusInStep ==
  /\ riscv_rvalid_o <=> pending # "none"
  /\ LsuReady => \A req \in Requests : riscv_gnt_o(req)

(* A load that is answered while the address on the bus is in the RAM gets *)
(* the word that was in its bank when the request was granted.             *)
LoadsReturnTheWord == pending \in Banks => data_rdata(TRUE) = expected

(* A counted run of n cycles enables the CGRA in exactly n + 1 cycles: no  *)
(* start is lost to the countdown of the run before, none is cut short.    *)
CountedRunExact ==
  ~stale => left = IF use_counter /\ CGRA_Enable THEN counter + 1 ELSE 0

(* Although a poll answers while up to three cycles are left, the cycles    *)
(* the firmware asked for are over when it goes on: at most the one beyond  *)
(* them is left, and that only for an access directly after the poll's      *)
(* branch; and when it may start the next run, none is.  A run to the end   *)
(* port is over in any case, unless the firmware was told so by the end of  *)
(* an earlier one.                                                          *)
GoesOnAfterEnd ==
  GoesOn /\ ~stale /\ CGRA_Enable => use_counter /\ counter + Latency <= 1 /\ pause > 0

(* The firmware learns of the end of every run.                            *)
EveryRunEnds == phase # "idle" ~> (phase = "idle" \/ stale)
=============================================================================
