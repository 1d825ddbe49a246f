------------------------- MODULE HybridControl_proofs -------------------------
(***************************************************************************)
(* Proofs for HybridControl, for any banks, ports, words, run lengths and  *)
(* any time the firmware takes to go on after a poll.                      *)
(***************************************************************************)
EXTENDS HybridControl, TLAPS

(* The two registers of the handshake agree, and with the LSU.             *)
InStep ==
  /\ state_valid_q # "WAIT_RAM_GNT"
  /\ state_valid_q = "WAIT_RAM_VALID" <=> data_rvalid_q
  /\ state_valid_q = "IDLE" <=> pending = "none"

(* The stages behind the banks hold what the pending load asked for.       *)
LoadInFlight ==
  pending \in Banks =>
    /\ select_rdata_q = "RAM"
    /\ data_addr_dec_q = pending
    /\ ram_data_rdata_tmp[pending] = expected

(* What the firmware waits for is what the wrapper does.                   *)
Waiting ==
  /\ pending \in Polled => pending = phase
  /\ pause > 0 => phase = "idle" /\ pending \notin Polled
  /\ phase = "counter" => use_counter
  /\ phase = "endport" => ~use_counter

(* The end of the run is near enough when the firmware believes in it:     *)
(* from its answer on, the counter falls as fast as the pause, which began *)
(* at StartLatency with a counter of at most 1.                            *)
Margin ==
  ~stale =>
    /\ phase = "endport" /\ end_cgra => ~CGRA_Enable
    /\ phase = "idle" /\ CGRA_Enable => use_counter /\ counter + StartLatency <= pause + 1
    /\ pending = "counter" /\ data_rdata_port = 1 /\ CGRA_Enable => counter <= 2
    /\ pending = "endport" /\ data_rdata_port = 1 => end_cgra

IInv == TypeOK /\ InStep /\ LoadInFlight /\ Waiting /\ Margin /\ CountedRunExact

-----------------------------------------------------------------------------
(* What a request, or none, can be.                                        *)
LEMMA RequestForm ==
  ASSUME NEW req \in Requests \cup {None}
  PROVE  /\ req.at \in Banks \cup Ports \cup Registers \cup {"none"}
         /\ req.we \in BOOLEAN
         /\ req = None <=> req.at = "none"
         /\ req.at = "none" => ~req.we
         /\ ~req.we => req.at \in Banks \cup Ports \cup Polled \cup {"none"}
         /\ Writes(req, "counter") => req.wdata \in 0 .. MaxCount
         /\ req.at \in Banks /\ req.we => req.wdata \in Data
         /\ Writes(req, "reset") => req.wdata \in BOOLEAN
         /\ Writes(req, "selport") => req.wdata \in Ports
<1>1. CASE req = None
  BY <1>1, AddressAssumption DEF None, Writes
<1>2. CASE \E a \in Banks \cup Ports \cup Polled : req = Read(a)
  BY <1>2, AddressAssumption DEF Read, Writes, Registers, Polled, None
<1>3. CASE \E b \in Banks, d \in Data : req = Write(b, d)
  BY <1>3, AddressAssumption DEF Write, Writes, Registers, Polled, None
<1>4. CASE \E n \in 0 .. MaxCount : req = Write("counter", n)
  BY <1>4, AddressAssumption DEF Write, Writes, Registers, Polled, None
<1>5. CASE req = Write("endport", 1)
  BY <1>5, AddressAssumption DEF Write, Writes, Registers, Polled, None
<1>6. CASE \E b \in BOOLEAN : req = Write("reset", b)
  BY <1>6, AddressAssumption DEF Write, Writes, Registers, Polled, None
<1>7. CASE \E p \in Ports : req = Write("selport", p)
  BY <1>7, AddressAssumption DEF Write, Writes, Registers, Polled, None
<1>. QED
  BY <1>1, <1>2, <1>3, <1>4, <1>5, <1>6, <1>7 DEF Requests

(* A request the LSU may send is granted, and then pending.                *)
LEMMA Granted ==
  ASSUME TypeOK, InStep, LsuReady, NEW req \in Requests
  PROVE  riscv_gnt_o(req)
<1>1. req # None
  BY RequestForm, AddressAssumption DEF Requests, None, Read, Write, Polled
<1>. QED
  BY <1>1 DEF TypeOK, InStep, LsuReady, riscv_gnt_o, riscv_rvalid_o

(* pending after an edge.                                                  *)
LEMMA PendingNext ==
  ASSUME TypeOK, InStep, NEW req \in Requests \cup {None}, req # None => LsuReady,
         SomeEdge(req)
  PROVE  pending' = IF req = None THEN "none" ELSE IF req.we THEN "write" ELSE req.at
<1>1. pending' = IF ~riscv_gnt_o(req) THEN "none" ELSE IF req.we THEN "write" ELSE req.at
  BY DEF SomeEdge, Edge
<1>2. CASE req = None
  BY <1>1, <1>2 DEF riscv_gnt_o
<1>3. CASE req # None
  <2>1. riscv_gnt_o(req)
    BY <1>3, Granted
  <2>. QED  BY <1>1, <1>3, <2>1
<1>. QED  BY <1>2, <1>3

(* The types of the wrapper, of the memory and of the history are kept.    *)
LEMMA EdgeTypes ==
  ASSUME TypeOK, InStep, NEW req \in Requests \cup {None}, req # None => LsuReady,
         SomeEdge(req)
  PROVE  /\ counter' \in 0 .. MaxCount
         /\ CGRA_Enable' \in BOOLEAN /\ use_counter' \in BOOLEAN /\ end_cgra' \in BOOLEAN
         /\ CGRA_Reset_Control' \in BOOLEAN
         /\ select_port' \in Ports
         /\ data_rdata_port' \in Data
         /\ state_valid_q' \in {"IDLE", "PERIPHEARL_VALID", "WAIT_RAM_GNT", "WAIT_RAM_VALID"}
         /\ data_rvalid_q' \in BOOLEAN
         /\ select_rdata_q' \in {"RAM", "ERR"}
         /\ data_addr_dec_q' \in Banks
         /\ mem' \in [Banks -> Data]
         /\ ram_data_rdata_tmp' \in [Banks -> Data]
         /\ pending' \in Banks \cup Ports \cup Polled \cup {"none", "write"}
         /\ left' \in Int
         /\ expected' \in Data
<1>0. PICK cgra_io \in [Ports -> Data], S \in SUBSET cgra_bank_enable :
        \E stores \in [S -> Data] : Edge(req, cgra_io, stores)
  BY DEF SomeEdge
<1>1. PICK stores \in [S -> Data] : Edge(req, cgra_io, stores)
  BY <1>0
<1>2. counter' \in 0 .. MaxCount /\ left' \in Int
  BY <1>1, RequestForm, CountAssumption DEF TypeOK, Edge, ClockWrapper, NextCounter
<1>3. CGRA_Enable' \in BOOLEAN /\ use_counter' \in BOOLEAN /\ end_cgra' \in BOOLEAN
  BY <1>1 DEF Edge, ClockWrapper
<1>4. CGRA_Reset_Control' \in BOOLEAN /\ select_port' \in Ports
  BY <1>1, RequestForm DEF TypeOK, Edge, ClockWrapper
<1>5. data_rdata_port' \in Data
  <2>1. ASSUME NEW a \in Polled \cup Ports
        PROVE  PortRead(a, cgra_io) \in Data
    BY DataAssumption, AddressAssumption DEF PortRead, Polled, Registers
  <2>. QED  BY <1>1, <2>1 DEF TypeOK, Edge, ClockWrapper
<1>6. /\ state_valid_q' \in {"IDLE", "PERIPHEARL_VALID", "WAIT_RAM_GNT", "WAIT_RAM_VALID"}
      /\ data_rvalid_q' \in BOOLEAN
      /\ select_rdata_q' \in {"RAM", "ERR"}
  BY <1>1 DEF Edge, ClockMemory, state_valid_n, Accept, data_req_dec, ToRam, select_rdata_d
<1>7. data_addr_dec_q' \in Banks
  BY <1>1, AddressAssumption DEF Edge, ClockMemory, data_addr_dec, ToRam
<1>8. mem' \in [Banks -> Data]
  <2>. DEFINE word(b) ==
         IF CGRA_Reset_Control THEN mem[b]
         ELSE IF req.at = b THEN (IF req.we THEN req.wdata ELSE mem[b])
         ELSE IF b \in DOMAIN stores THEN stores[b] ELSE mem[b]
  <2>1. mem' = [b \in Banks |-> word(b)]
    BY <1>1 DEF Edge, ClockMemory
  <2>2. ASSUME NEW b \in Banks
        PROVE  word(b) \in Data
    BY RequestForm DEF TypeOK
  <2>. HIDE DEF word
  <2>. QED  BY <2>1, <2>2
<1>9. ram_data_rdata_tmp' \in [Banks -> Data]
  BY <1>1 DEF TypeOK, Edge, ClockMemory
<1>10. pending' \in Banks \cup Ports \cup Polled \cup {"none", "write"}
  BY PendingNext, RequestForm
<1>11. expected' \in Data
  BY <1>1, DataAssumption DEF TypeOK, Edge, ToRam
<1>. QED
  BY <1>2, <1>3, <1>4, <1>5, <1>6, <1>7, <1>8, <1>9, <1>10, <1>11

(* The handshake stays in step at every edge.                              *)
LEMMA EdgeInStep ==
  ASSUME TypeOK, InStep, NEW req \in Requests \cup {None}, req # None => LsuReady,
         SomeEdge(req)
  PROVE  InStep'
<1>1. state_valid_q' = state_valid_n(req) /\ data_rvalid_q' = data_req_dec(req)
  BY DEF SomeEdge, Edge, ClockMemory
<1>2. state_valid_q' = Accept(req)
  BY <1>1 DEF InStep, state_valid_n
<1>3. pending' = "none" <=> req = None
  BY PendingNext, RequestForm, AddressAssumption DEF Registers, Polled
<1>4. req = None => ~data_req_dec(req)
  BY AddressAssumption DEF None, data_req_dec, ToRam
<1>. QED
  BY <1>1, <1>2, <1>3, <1>4 DEF InStep, Accept

(* A load granted by an edge outside a reset of the CGRA is in flight.     *)
LEMMA EdgeLoads ==
  ASSUME TypeOK, InStep, NEW req \in Requests \cup {None}, req # None => LsuReady,
         ToRam(req) => ~CGRA_Reset_Control,
         SomeEdge(req)
  PROVE  LoadInFlight'
<1>. SUFFICES ASSUME pending' \in Banks
              PROVE  /\ select_rdata_q' = "RAM"
                     /\ data_addr_dec_q' = pending'
                     /\ ram_data_rdata_tmp'[pending'] = expected'
  BY DEF LoadInFlight
<1>1. req.at = pending' /\ ~req.we /\ ToRam(req)
  BY PendingNext, RequestForm, AddressAssumption DEF ToRam
<1>2. select_rdata_q' = "RAM" /\ data_addr_dec_q' = pending'
  BY <1>1 DEF SomeEdge, Edge, ClockMemory, select_rdata_d, data_addr_dec
<1>3. expected' = mem[req.at]
  BY <1>1 DEF SomeEdge, Edge
<1>4. ram_data_rdata_tmp'[req.at] = mem[req.at]
  BY <1>1 DEF SomeEdge, Edge, ClockMemory, ToRam
<1>. QED  BY <1>1, <1>2, <1>3, <1>4

-----------------------------------------------------------------------------
(* How the countdown and the end port move a run that nothing starts.      *)
RunMoves ==
  /\ use_counter' = use_counter
  /\ CGRA_Enable' => CGRA_Enable
  /\ use_counter /\ CGRA_Enable /\ counter = 0 =>
       ~CGRA_Enable' /\ counter' = 0 /\ left' = left - 1
  /\ use_counter /\ CGRA_Enable /\ counter # 0 =>
       CGRA_Enable' /\ counter' = counter - 1 /\ left' = left - 1
  /\ ~(use_counter /\ CGRA_Enable) => counter' = counter /\ left' = left
  /\ end_cgra => end_cgra'
  /\ end_cgra' => end_cgra \/ (~use_counter /\ ~CGRA_Enable')

LEMMA RunNext ==
  ASSUME TypeOK, NEW req \in Requests \cup {None}, SomeEdge(req), req.at \notin Polled \/ ~req.we
  PROVE  RunMoves
<1>1. PICK cgra_io \in [Ports -> Data] : ClockWrapper(req, cgra_io)
  BY DEF SomeEdge, Edge
<1>2. left' = IF CGRA_Enable /\ use_counter THEN left - 1 ELSE left
  BY DEF SomeEdge, Edge, Writes, Polled
<1>3. ~Writes(req, "counter") /\ ~Writes(req, "endport")
  BY DEF Writes, Polled
<1>. QED
  BY <1>1, <1>2, <1>3 DEF RunMoves, ClockWrapper, NextCounter, RunEnds, Polled, TypeOK

(* What the read register of the wrapper holds after a poll.               *)
LEMMA PollNext ==
  ASSUME TypeOK, NEW req \in Requests \cup {None}, SomeEdge(req), ~req.we
  PROVE  /\ req.at = "counter" /\ data_rdata_port' = 1 => counter <= 3
         /\ req.at = "endport" /\ data_rdata_port' = 1 => end_cgra
         /\ req = None => data_rdata_port' = data_rdata_port
<1>1. PICK cgra_io \in [Ports -> Data] : ClockWrapper(req, cgra_io)
  BY DEF SomeEdge, Edge
<1>2. PortRead("counter", cgra_io) = 1 => counter <= 3
  BY DEF PortRead
<1>3. PortRead("endport", cgra_io) = 1 => end_cgra
  BY DEF PortRead
<1>4. None.at \notin Polled \cup Ports
  BY AddressAssumption DEF None, Polled
<1>. QED
  BY <1>1, <1>2, <1>3, <1>4 DEF ClockWrapper, Polled

(* An access that leaves the firmware's view alone.                        *)
LEMMA AccessKeeps ==
  ASSUME IInv, NEW req \in Requests, MayRequest, SomeEdge(req),
         req.at \notin Polled,
         ToRam(req) => ~CGRA_Reset_Control,
         Elapse, UNCHANGED <<phase, stale>>
  PROVE  IInv'
<1>1. req # None => LsuReady
  BY DEF MayRequest
<1>0. pause' \in 0 .. StartLatency
  BY LatencyAssumption DEF Elapse, IInv, TypeOK
<1>2. TypeOK'
  BY <1>0, <1>1, EdgeTypes DEF IInv, TypeOK
<1>3. InStep' /\ LoadInFlight'
  BY <1>1, EdgeInStep, EdgeLoads DEF IInv
<1>4. pending' \notin Polled
  BY <1>1, PendingNext, RequestForm, AddressAssumption DEF IInv, Polled, Registers
<1>5. RunMoves
  BY RunNext DEF IInv
<1>6. Waiting'
  BY <1>4, <1>5 DEF IInv, TypeOK, Waiting, RunMoves, Elapse
<1>7. Margin'
  <2>. SUFFICES ASSUME ~stale
                PROVE  /\ phase = "endport" /\ end_cgra' => ~CGRA_Enable'
                       /\ phase = "idle" /\ CGRA_Enable' =>
                            use_counter' /\ counter' + StartLatency <= pause' + 1
    BY <1>4 DEF Margin, Polled
  <2>1. phase = "endport" /\ end_cgra' => ~CGRA_Enable'
    BY <1>5 DEF IInv, Margin, RunMoves
  <2>2. phase = "idle" /\ CGRA_Enable' => use_counter' /\ counter' + StartLatency <= pause' + 1
    BY <1>5, LatencyAssumption DEF IInv, TypeOK, Margin, RunMoves, Elapse
  <2>. QED  BY <2>1, <2>2
<1>8. CountedRunExact'
  BY <1>5 DEF IInv, TypeOK, CountedRunExact, RunMoves
<1>. QED
  BY <1>2, <1>3, <1>6, <1>7, <1>8 DEF IInv

(* A cycle without a request: the countdown comes nearer to 0 as fast as   *)
(* the firmware's pause ends, and a poll's answer starts the pause.        *)
LEMMA QuietKeeps == IInv /\ Quiet => IInv'
<1>. SUFFICES ASSUME IInv, Quiet
              PROVE  IInv'
  OBVIOUS
<1>. DEFINE req == None
<1>0. req \in Requests \cup {None} /\ SomeEdge(req) /\ ~ToRam(req) /\ ~req.we
  BY AddressAssumption DEF Quiet, ToRam, None
<1>. HIDE DEF req
<1>1. phase' = (IF PollDone THEN "idle" ELSE phase) /\ stale' = stale
  BY DEF Quiet
<1>2. pause' = IF PollDone THEN StartLatency ELSE IF pause > 0 THEN pause - 1 ELSE 0
  BY DEF Quiet, Elapse
<1>3. phase' \in Polled \cup {"idle"} /\ pause' \in 0 .. StartLatency
  BY <1>1, <1>2, LatencyAssumption DEF IInv, TypeOK
<1>4. req = None
  BY DEF req
<1>5. TypeOK'
  BY <1>0, <1>1, <1>3, <1>4, EdgeTypes DEF IInv, TypeOK
<1>6. InStep' /\ LoadInFlight'
  BY <1>0, <1>4, EdgeInStep, EdgeLoads DEF IInv
<1>7. pending' = "none"
  BY <1>0, <1>4, PendingNext DEF IInv
<1>8. RunMoves
  BY <1>0, RunNext DEF IInv
<1>9. PollDone => pending \in Polled /\ pending = phase /\ data_rdata_port = 1 /\ pause = 0
  BY DEF PollDone, data_rdata, IInv, Waiting, TypeOK
<1>10. Waiting'
  BY <1>1, <1>2, <1>7, <1>8, <1>9, LatencyAssumption DEF IInv, TypeOK, Waiting, RunMoves, Polled
<1>11. Margin'
  <2>. SUFFICES ASSUME ~stale
                PROVE  /\ phase' = "endport" /\ end_cgra' => ~CGRA_Enable'
                       /\ phase' = "idle" /\ CGRA_Enable' =>
                            use_counter' /\ counter' + StartLatency <= pause' + 1
    BY <1>1, <1>7 DEF Margin
  <2>1. phase' = "endport" /\ end_cgra' => ~CGRA_Enable'
    BY <1>1, <1>8 DEF IInv, Margin, RunMoves
  <2>2. CASE PollDone /\ pending = "counter"
    <3>1. CGRA_Enable' => use_counter' /\ counter' <= 1
      BY <1>8, <1>9, <2>2 DEF IInv, TypeOK, Margin, Waiting, RunMoves
    <3>2. pause' = StartLatency /\ counter' \in Nat
      BY <1>2, <1>5, <2>2 DEF TypeOK
    <3>. QED  BY <2>1, <3>1, <3>2, LatencyAssumption
  <2>3. CASE PollDone /\ pending = "endport"
    <3>1. end_cgra /\ phase = "endport"
      BY <1>9, <2>3 DEF IInv, Margin
    <3>2. ~CGRA_Enable'
      BY <1>8, <3>1 DEF IInv, Margin, RunMoves
    <3>. QED  BY <3>2
  <2>4. CASE ~PollDone
    <3>1. phase = "idle" /\ CGRA_Enable' =>
            use_counter' /\ counter' + StartLatency <= pause' + 1
      BY <1>2, <1>8, <2>4, LatencyAssumption DEF IInv, TypeOK, Margin, RunMoves
    <3>. QED  BY <1>1, <2>1, <2>4, <3>1
  <2>. QED  BY <1>9, <2>2, <2>3, <2>4 DEF Polled
<1>12. CountedRunExact'
  BY <1>1, <1>8 DEF IInv, TypeOK, CountedRunExact, RunMoves
<1>. QED
  BY <1>5, <1>6, <1>10, <1>11, <1>12 DEF IInv

(* A start: nothing is running, unless a stale end was believed.           *)
LEMMA StartKeeps ==
  ASSUME IInv, MayStart, NEW req \in Requests, req.we, SomeEdge(req),
         req.at \in Polled, phase' = req.at, pause' = pause,
         stale' = (stale \/ (req.at = "endport" /\ end_cgra))
  PROVE  IInv'
<1>1. LsuReady /\ phase = "idle" /\ pause = 0 /\ ~ToRam(req)
  BY AddressAssumption DEF MayStart, GoesOn, MayRequest, ToRam, Registers
<1>2. TypeOK'
  BY <1>1, EdgeTypes DEF IInv, TypeOK
<1>3. InStep' /\ LoadInFlight'
  BY <1>1, EdgeInStep, EdgeLoads DEF IInv
<1>4. pending' \notin Polled
  <2>1. req # None
    BY RequestForm, AddressAssumption DEF Polled
  <2>. QED  BY <1>1, <2>1, PendingNext DEF IInv, Polled
<1>5. PICK cgra_io \in [Ports -> Data] : ClockWrapper(req, cgra_io)
  BY DEF SomeEdge, Edge
<1>6. use_counter' <=> req.at = "counter"
  BY <1>5 DEF ClockWrapper, Writes, Polled, IInv, TypeOK
<1>7. Waiting'
  BY <1>1, <1>4, <1>6 DEF Waiting, IInv, TypeOK
<1>8. ASSUME ~stale
      PROVE  ~CGRA_Enable /\ left = 0
  <2>1. ~CGRA_Enable
    BY <1>1, <1>8, LatencyAssumption DEF IInv, Margin, TypeOK
  <2>. QED  BY <1>8, <2>1 DEF IInv, CountedRunExact
<1>9. ASSUME ~stale
      PROVE  CGRA_Enable' /\ (end_cgra' <=> end_cgra)
  BY <1>5, <1>8, <1>9 DEF ClockWrapper, RunEnds, Writes, IInv, TypeOK
<1>10. Margin'
  BY <1>1, <1>4, <1>9 DEF Margin, Polled
<1>11. CountedRunExact'
  <2>. SUFFICES ASSUME ~stale'
                PROVE  left' = IF use_counter' THEN counter' + 1 ELSE 0
    BY <1>9 DEF CountedRunExact
  <2>1. ~CGRA_Enable /\ left = 0
    BY <1>8
  <2>2. CASE req.at = "counter"
    <3>1. counter' = req.wdata /\ left' = req.wdata + 1
      BY <1>5, <2>1, <2>2 DEF ClockWrapper, NextCounter, Writes, SomeEdge, Edge
    <3>. QED  BY <1>6, <2>2, <3>1
  <2>3. CASE req.at = "endport"
    <3>1. left' = left
      BY <2>1, <2>3 DEF Writes, SomeEdge, Edge
    <3>. QED  BY <1>6, <2>1, <2>3, <3>1
  <2>. QED  BY <2>2, <2>3 DEF Polled
<1>. QED
  BY <1>2, <1>3, <1>7, <1>10, <1>11 DEF IInv

(* A poll: what it reads is near the truth by the time it is answered.     *)
LEMMA PollKeeps == IInv /\ Poll => IInv'
<1>. SUFFICES ASSUME IInv, Poll
              PROVE  IInv'
  OBVIOUS
<1>. DEFINE req == Read(phase)
<1>0. phase \in Polled
  BY DEF Poll, IInv, TypeOK
<1>1. /\ req \in Requests /\ SomeEdge(req) /\ ~req.we /\ req.at = phase
      /\ ~ToRam(req) /\ req # None
  <2>1. req \in Requests /\ SomeEdge(req)
    BY <1>0 DEF Poll, Requests
  <2>2. ~req.we /\ req.at = phase
    BY DEF Read
  <2>. HIDE DEF req
  <2>3. ~ToRam(req) /\ req # None
    BY <1>0, <2>2, AddressAssumption DEF ToRam, None, Registers, Polled
  <2>. QED  BY <2>1, <2>2, <2>3
<1>. HIDE DEF req
<1>2. LsuReady /\ pending \notin Polled /\ pause = 0 /\ UNCHANGED <<phase, pause, stale>>
  BY <1>0 DEF Poll, MayRequest, IInv, TypeOK, Waiting, Polled
<1>3. TypeOK'
  BY <1>1, <1>2, EdgeTypes DEF IInv, TypeOK
<1>4. InStep' /\ LoadInFlight'
  BY <1>1, <1>2, EdgeInStep, EdgeLoads DEF IInv
<1>5. pending' = phase
  BY <1>1, <1>2, PendingNext DEF IInv
<1>6. RunMoves
  BY <1>1, RunNext DEF IInv
<1>7. Waiting'
  BY <1>2, <1>5, <1>6 DEF IInv, Waiting, RunMoves
<1>8. Margin'
  <2>. SUFFICES ASSUME ~stale
                PROVE  /\ phase = "endport" /\ end_cgra' => ~CGRA_Enable'
                       /\ phase = "counter" /\ data_rdata_port' = 1 /\ CGRA_Enable' => counter' <= 2
                       /\ phase = "endport" /\ data_rdata_port' = 1 => end_cgra'
    BY <1>0, <1>2, <1>5 DEF Margin, Polled
  <2>1. phase = "endport" /\ end_cgra' => ~CGRA_Enable'
    BY <1>6 DEF IInv, Margin, RunMoves
  <2>2. ASSUME phase = "counter", data_rdata_port' = 1, CGRA_Enable'
        PROVE  counter' <= 2
    <3>1. counter <= 3
      BY <1>1, <2>2, PollNext DEF IInv
    <3>. QED  BY <1>6, <2>2, <3>1 DEF IInv, TypeOK, Waiting, RunMoves
  <2>3. phase = "endport" /\ data_rdata_port' = 1 => end_cgra'
    BY <1>1, <1>6, PollNext DEF IInv, RunMoves
  <2>. QED  BY <2>1, <2>2, <2>3
<1>9. CountedRunExact'
  BY <1>2, <1>6 DEF IInv, TypeOK, CountedRunExact, RunMoves
<1>. QED
  BY <1>3, <1>4, <1>7, <1>8, <1>9 DEF IInv

-----------------------------------------------------------------------------
LEMMA InitInv == Init => IInv
<1>. SUFFICES ASSUME Init
              PROVE  IInv
  OBVIOUS
<1>1. TypeOK
  <2>1. counter \in 0 .. MaxCount /\ pause \in 0 .. StartLatency /\ left \in Int
    BY CountAssumption, LatencyAssumption DEF Init
  <2>2. data_rdata_port \in Data /\ expected \in Data /\ ram_data_rdata_tmp \in [Banks -> Data]
    BY DataAssumption DEF Init
  <2>3. select_port \in Ports /\ data_addr_dec_q \in Banks /\ mem \in [Banks -> Data]
    BY AddressAssumption DEF Init
  <2>4. /\ CGRA_Enable \in BOOLEAN /\ use_counter \in BOOLEAN /\ end_cgra \in BOOLEAN
        /\ CGRA_Reset_Control \in BOOLEAN /\ data_rvalid_q \in BOOLEAN /\ stale \in BOOLEAN
    BY DEF Init
  <2>. QED
    BY <2>1, <2>2, <2>3, <2>4 DEF Init, TypeOK
<1>2. pending = "none" /\ pending \notin Banks
  BY AddressAssumption DEF Init
<1>3. InStep
  BY DEF Init, InStep
<1>4. LoadInFlight
  BY <1>2 DEF LoadInFlight
<1>5. Waiting
  BY DEF Init, Waiting, Polled
<1>6. Margin
  BY DEF Init, Margin
<1>7. CountedRunExact
  BY DEF Init, CountedRunExact
<1>. QED  BY <1>1, <1>3, <1>4, <1>5, <1>6, <1>7 DEF IInv

LEMMA NextInv == IInv /\ [Next]_vars => IInv'
<1>. SUFFICES ASSUME IInv, [Next]_vars
              PROVE  IInv'
  OBVIOUS
<1>1. CASE Quiet
  BY <1>1, QuietKeeps
<1>2. ASSUME NEW n \in 0 .. MaxCount, StartCounted(n)
      PROVE  IInv'
  <2>. DEFINE req == Write("counter", n)
  <2>1. req \in Requests
    BY DEF Requests
  <2>2. req.we /\ req.at = "counter"
    BY DEF Write
  <2>3. MayStart /\ SomeEdge(req) /\ phase' = "counter" /\ pause' = pause /\ stale' = stale
    BY <1>2 DEF StartCounted
  <2>. HIDE DEF req
  <2>4. stale' = (stale \/ (req.at = "endport" /\ end_cgra))
    BY <2>2, <2>3 DEF IInv, TypeOK
  <2>. QED  BY <2>1, <2>2, <2>3, <2>4, StartKeeps DEF Polled
<1>3. CASE StartToEnd
  <2>. DEFINE req == Write("endport", 1)
  <2>1. req \in Requests
    BY DEF Requests
  <2>3. req.we /\ req.at = "endport"
    BY DEF Write
  <2>2. MayStart /\ SomeEdge(req) /\ phase' = "endport" /\ pause' = pause /\ stale' = (stale \/ end_cgra)
    BY <1>3 DEF StartToEnd
  <2>. HIDE DEF req
  <2>. QED  BY <2>1, <2>2, <2>3, StartKeeps DEF Polled
<1>4. CASE Poll
  BY <1>4, PollKeeps
<1>5. ASSUME NEW b \in BOOLEAN, ResetCGRA(b)
      PROVE  IInv'
  <2>1. Write("reset", b) \in Requests
    BY DEF Requests
  <2>2. Write("reset", b).at \notin Polled /\ ~ToRam(Write("reset", b))
    BY AddressAssumption DEF Write, Polled, Registers, ToRam
  <2>. QED  BY <1>5, <2>1, <2>2, AccessKeeps DEF ResetCGRA, GoesOn
<1>6. ASSUME NEW p \in Ports, SelectPort(p)
      PROVE  IInv'
  <2>1. Write("selport", p) \in Requests
    BY DEF Requests
  <2>2. Write("selport", p).at \notin Polled /\ ~ToRam(Write("selport", p))
    BY AddressAssumption DEF Write, Polled, Registers, ToRam
  <2>. QED  BY <1>6, <2>1, <2>2, AccessKeeps DEF SelectPort, GoesOn
<1>7. ASSUME NEW p \in Ports, ReadPort(p)
      PROVE  IInv'
  <2>1. Read(p) \in Requests
    BY DEF Requests
  <2>2. Read(p).at \notin Polled /\ ~ToRam(Read(p))
    BY AddressAssumption DEF Read, Polled, Registers, ToRam
  <2>. QED  BY <1>7, <2>1, <2>2, AccessKeeps DEF ReadPort
<1>8. ASSUME NEW b \in Banks, LoadWord(b)
      PROVE  IInv'
  <2>1. Read(b) \in Requests
    BY DEF Requests
  <2>2. Read(b).at \notin Polled
    BY AddressAssumption DEF Read, Polled, Registers
  <2>. QED  BY <1>8, <2>1, <2>2, AccessKeeps DEF LoadWord
<1>9. ASSUME NEW b \in Banks, NEW d \in Data, StoreWord(b, d)
      PROVE  IInv'
  <2>1. Write(b, d) \in Requests
    BY DEF Requests
  <2>2. Write(b, d).at \notin Polled
    BY AddressAssumption DEF Write, Polled, Registers
  <2>. QED  BY <1>9, <2>1, <2>2, AccessKeeps DEF StoreWord
<1>10. CASE UNCHANGED vars
  BY <1>10 DEF vars, wrapper, ram, IInv, TypeOK, InStep, LoadInFlight, Waiting, Margin, CountedRunExact
<1>. QED
  BY <1>1, <1>2, <1>3, <1>4, <1>5, <1>6, <1>7, <1>8, <1>9, <1>10 DEF Next

LEMMA Invariant == Spec => []IInv
  BY InitInv, NextInv, PTL DEF Spec

(* Bus and LSU stay in step, and no request has to wait.                   *)
THEOREM BusAnswersAtOnce == Spec => []BusInStep
<1>1. IInv => BusInStep
  BY Granted DEF IInv, TypeOK, InStep, BusInStep, riscv_rvalid_o
<1>. QED  BY <1>1, Invariant, PTL

(* Every load that keeps its address window gets its word.                 *)
THEOREM LoadsCorrect == Spec => []LoadsReturnTheWord
<1>1. IInv => LoadsReturnTheWord
  BY DEF IInv, LoadInFlight, LoadsReturnTheWord, data_rdata, riscv_rdata_o
<1>. QED  BY <1>1, Invariant, PTL

(* A counted run of n lasts n + 1 cycles, whatever the firmware does       *)
(* around it.                                                              *)
THEOREM CountedRuns == Spec => []CountedRunExact
<1>1. IInv => CountedRunExact
  BY DEF IInv
<1>. QED  BY <1>1, Invariant, PTL

(* The early answer of the counter comes no earlier than the firmware can  *)
(* bear: an access directly after the poll falls at most into the one      *)
(* enabled cycle beyond those asked for, a later one into none, and a start *)
(* into none.                                                              *)
THEOREM EarlyAnswerSafe == Spec => []GoesOnAfterEnd
<1>1. IInv => GoesOnAfterEnd
  BY LatencyAssumption DEF IInv, TypeOK, Margin, GoesOnAfterEnd, GoesOn, MayRequest
<1>. QED  BY <1>1, Invariant, PTL
=============================================================================
