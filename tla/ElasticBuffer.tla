---------------------------- MODULE ElasticBuffer ----------------------------
(***************************************************************************)
(* The elastic buffer of the generated fabric: the Verilog that            *)
(* ElasticBufferFifo::CoreIRGenFunctionality emits around the fwft_fifo    *)
(* ring buffer of ip/elastic_modules.  One step is one rising clock edge.  *)
(*                                                                         *)
(* The register sample_data of fwft_fifo is written in two FSM branches    *)
(* and read nowhere; it is left out.                                       *)
(***************************************************************************)
EXTENDS Naturals, Sequences

CONSTANTS
  DEPTH,      (* words in the ring; the emitted ADDRESS_WIDTH is $clog2(DEPTH), *)
              (* so every address and the word count fit their registers        *)
  Data,       (* the words the channel carries                                  *)
  NoData      (* the value of the output while it is not valid                  *)

ASSUME DepthAssumption == DEPTH \in Nat \ {0}
ASSUME DataAssumption == NoData \notin Data

VARIABLES
  usedw,            (* words stored                                         *)
  write_address,    (* ring slot the next word is written to                *)
  read_address,     (* ring slot of the oldest word                         *)
  ram,              (* the ring                                             *)
  state,            (* the four-state FSM beside the counters               *)
  eb_enable,        (* configuration bit, constant while a kernel runs      *)
  received,         (* history: the words, at most one, that the last edge  *)
                    (* took over from upstream (valid and not stopped)      *)
  sent              (* history: the word the last edge handed downstream    *)

vars == <<usedw, write_address, read_address, ram, state, eb_enable, received, sent>>

Addr == 0 .. DEPTH - 1
FsmState == {"EMPTY", "FALL_THRU", "LEFT_OVER", "STEADY"}

-----------------------------------------------------------------------------
(* The combinational part.                                                 *)

full == usedw = DEPTH
empty == usedw = 0

data_in_stop_upstream == full
data_out_valid_downstream == ~empty
data_out == IF empty THEN NoData ELSE ram[read_address]

fifo_write_en(valid_upstream) == valid_upstream /\ eb_enable /\ ~full
fifo_read_en(stop_downstream) == ~empty /\ ~stop_downstream

incrementShort(address) == IF address = DEPTH - 2 THEN 0 ELSE address + 1
increment(address) == IF address = DEPTH - 1 THEN 0 ELSE address + 1

(* fwft_fifo's FSM.  No output is computed from it.                        *)
NextState(write_en, read_en) ==
  IF state = "EMPTY" THEN IF write_en THEN "FALL_THRU" ELSE "EMPTY"
  ELSE IF ~read_en THEN IF state = "FALL_THRU" THEN "STEADY" ELSE "LEFT_OVER"
  ELSE IF state # "FALL_THRU" /\ usedw # 1 THEN "STEADY"
  ELSE IF write_en THEN "FALL_THRU" ELSE "EMPTY"

-----------------------------------------------------------------------------
(* The RAM is not reset, and outside simulation holds anything at power-up *)
Init ==
  /\ usedw = 0
  /\ write_address = 0
  /\ read_address = 0
  /\ ram \in [Addr -> Data]
  /\ state = "EMPTY"
  /\ eb_enable \in BOOLEAN
  /\ received = <<>>
  /\ sent = NoData

(* A rising edge of CGRA_Clock with CGRA_Reset high.                       *)
Reset ==
  /\ usedw' = 0
  /\ write_address' = 0
  /\ read_address' = 0
  /\ state' = "EMPTY"
  /\ received' = <<>>
  /\ sent' = NoData
  /\ UNCHANGED <<ram, eb_enable>>

(* Mutant: a period that both writes and reads counts as a write.          *)
ClockCountsWriteOnly(valid_upstream, data_in, stop_downstream) ==
  LET write_en == fifo_write_en(valid_upstream)
      read_en == fifo_read_en(stop_downstream)
  IN  /\ ram' = IF write_en THEN [ram EXCEPT ![write_address] = data_in] ELSE ram
      /\ write_address' = IF write_en THEN increment(write_address) ELSE write_address
      /\ read_address' = IF read_en THEN increment(read_address) ELSE read_address
      /\ usedw' = IF write_en THEN usedw + 1 ELSE IF read_en THEN usedw - 1 ELSE usedw
      /\ state' = NextState(write_en, read_en)
      /\ received' = IF valid_upstream /\ ~data_in_stop_upstream THEN <<data_in>> ELSE <<>>
      /\ sent' = IF read_en THEN data_out ELSE NoData
      /\ UNCHANGED eb_enable

(* A rising edge of CGRA_Clock with CGRA_Reset low, while the producer     *)
(* drives valid_upstream and data_in and the consumer drives               *)
(* stop_downstream.                                                        *)
Clock(valid_upstream, data_in, stop_downstream) ==
  LET write_en == fifo_write_en(valid_upstream)
      read_en == fifo_read_en(stop_downstream)
  IN  /\ ram' = IF write_en THEN [ram EXCEPT ![write_address] = data_in] ELSE ram
      /\ write_address' = IF write_en THEN increment(write_address) ELSE write_address
      /\ read_address' = IF read_en THEN increment(read_address) ELSE read_address
      /\ usedw' = IF write_en /\ read_en THEN usedw
                  ELSE IF write_en THEN usedw + 1
                  ELSE IF read_en THEN usedw - 1
                  ELSE usedw
      /\ state' = NextState(write_en, read_en)
      /\ received' = IF valid_upstream /\ ~data_in_stop_upstream THEN <<data_in>> ELSE <<>>
      /\ sent' = IF read_en THEN data_out ELSE NoData
      /\ UNCHANGED eb_enable

Tick == \E v, stop \in BOOLEAN, d \in Data : Clock(v, d, stop)

Next == Tick \/ Reset

Spec == Init /\ [][Next]_vars

(* The clock never stops, and a consumer that is stalled for a while is    *)
(* ready again and again: elastic modules only stall while they hold words *)
(* that they could not pass on.                                            *)
ServedTick == \E v \in BOOLEAN, d \in Data : Clock(v, d, FALSE)
FairSpec == Spec /\ WF_vars(Tick) /\ SF_vars(ServedTick /\ ~empty)

-----------------------------------------------------------------------------
TypeOK ==
  /\ usedw \in 0 .. DEPTH
  /\ write_address \in Addr
  /\ read_address \in Addr
  /\ ram \in [Addr -> Data]
  /\ state \in FsmState
  /\ eb_enable \in BOOLEAN
  /\ received \in {<<>>} \cup {<<d>> : d \in Data}
  /\ sent \in Data \cup {NoData}

(* The k-th oldest stored word, 1 <= k <= usedw, lies in slot Slot(k).     *)
Slot(k) == LET a == read_address + k - 1 IN IF a < DEPTH THEN a ELSE a - DEPTH

(* The two pointers and the counter are three registers updated by two     *)
(* always blocks from the same enables: the distance from the read pointer *)
(* to the write pointer, around the ring, is the word count.               *)
PointersAgree ==
  \/ usedw < DEPTH /\ write_address = Slot(usedw + 1)
  \/ usedw = DEPTH /\ write_address = read_address

(* The FSM, which duplicates the counter, agrees with it about emptiness   *)
(* and about the word that has just fallen through.                        *)
FsmTracksCount ==
  /\ state = "EMPTY" <=> empty
  /\ state = "FALL_THRU" => usedw = 1

(* The words held, oldest first.                                           *)
contents == [k \in 1 .. usedw |-> ram[Slot(k)]]

(* A buffer whose enable bit is low acknowledges words and drops them; the *)
(* mapper leaves the bit low only on buffers that carry no value, and to   *)
(* the queue such a buffer has received nothing.                           *)
Fifo == INSTANCE BoundedFifo WITH
  Capacity <- DEPTH, queue <- contents, received <- IF eb_enable THEN received ELSE <<>>

(* The ring buffer implements the queue: every word acknowledged upstream  *)
(* is stored behind the others, and words leave in that order, through     *)
(* wrap-around, simultaneous reads and writes, and resets.                 *)
FifoSpec == Fifo!Spec

(* Every stored word is eventually the one handed downstream, or a reset   *)
(* clears it: no pointer gets stuck.                                       *)
EveryWordLeaves ==
  \A d \in Data : (\E k \in DOMAIN contents : contents[k] = d) ~> (sent = d \/ empty)
=============================================================================
