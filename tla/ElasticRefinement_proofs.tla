------------------------ MODULE ElasticRefinement_proofs ------------------------
(***************************************************************************)
(* The two parts of the elastic fabric that implement an abstract one: the *)
(* ring buffer of ElasticBuffer is the queue of BoundedFifo, for every     *)
(* depth and every set of words, and the tree of ForkTree is the unit fork *)
(* of EagerFork, for every fanout, unit fanout and configuration.          *)
(***************************************************************************)
EXTENDS ElasticBuffer, ForkTree, SequenceTheorems, WellFoundedInduction, TLAPS

(* The inductive invariant: the registers are in range, the pointers agree *)
(* with the counter, and so does the FSM.                                  *)
IInv == TypeOK /\ PointersAgree /\ FsmTracksCount

LEMMA InitInv == Init => IInv
  BY DepthAssumption DEF Init, IInv, TypeOK, PointersAgree, FsmTracksCount, Addr, FsmState,
       Slot, empty

LEMMA ClockInv ==
  ASSUME IInv, NEW v \in BOOLEAN, NEW d \in Data, NEW stop \in BOOLEAN, Clock(v, d, stop)
  PROVE  IInv'
<1> DEFINE w == fifo_write_en(v)
           r == fifo_read_en(stop)
<1> USE DepthAssumption
<1>1. /\ w => usedw < DEPTH
      /\ r => usedw > 0
  BY DEF IInv, TypeOK, fifo_write_en, fifo_read_en, full, empty
<1>2. TypeOK'
  <2>1. usedw' \in 0 .. DEPTH
    BY <1>1 DEF IInv, TypeOK, Clock
  <2>2. write_address' \in Addr /\ read_address' \in Addr
    BY DEF IInv, TypeOK, Clock, increment, Addr
  <2>3. ram' \in [Addr -> Data]
    BY DEF IInv, TypeOK, Clock
  <2>4. state' \in FsmState
    BY DEF IInv, TypeOK, Clock, NextState, FsmState
  <2>5. sent' \in Data \cup {NoData}
    BY DEF IInv, TypeOK, Clock, data_out
  <2>6. received' \in {<<>>} \cup {<<x>> : x \in Data}
    BY DEF IInv, TypeOK, Clock
  <2> QED BY <2>1, <2>2, <2>3, <2>4, <2>5, <2>6 DEF IInv, TypeOK, Clock
<1>3. PointersAgree'
  <2>1. /\ usedw' = IF w /\ r THEN usedw ELSE IF w THEN usedw + 1 ELSE IF r THEN usedw - 1 ELSE usedw
        /\ write_address' = IF w THEN increment(write_address) ELSE write_address
        /\ read_address' = IF r THEN increment(read_address) ELSE read_address
    BY DEF Clock
  <2>2. usedw \in 0 .. DEPTH /\ write_address \in Addr /\ read_address \in Addr
    BY DEF IInv, TypeOK
  <2>3. PointersAgree
    BY DEF IInv
  <2> HIDE DEF w, r
  <2>4. CASE w /\ r
    BY <1>1, <2>1, <2>2, <2>3, <2>4 DEF PointersAgree, Slot, increment, Addr
  <2>5. CASE w /\ ~r
    BY <1>1, <2>1, <2>2, <2>3, <2>5 DEF PointersAgree, Slot, increment, Addr
  <2>6. CASE ~w /\ r
    BY <1>1, <2>1, <2>2, <2>3, <2>6 DEF PointersAgree, Slot, increment, Addr
  <2>7. CASE ~w /\ ~r
    BY <1>1, <2>1, <2>2, <2>3, <2>7 DEF PointersAgree, Slot, increment, Addr
  <2> QED BY <2>4, <2>5, <2>6, <2>7
<1>4. FsmTracksCount'
  <2>1. state' = NextState(w, r)
    BY DEF Clock
  <2>2. usedw' = IF w /\ r THEN usedw ELSE IF w THEN usedw + 1 ELSE IF r THEN usedw - 1 ELSE usedw
    BY DEF Clock
  <2>3. usedw \in 0 .. DEPTH /\ state \in FsmState
    BY DEF IInv, TypeOK
  <2> HIDE DEF w, r
  <2> QED BY <1>1, <2>1, <2>2, <2>3 DEF IInv, FsmTracksCount, NextState, FsmState, empty
<1> QED BY <1>2, <1>3, <1>4 DEF IInv

LEMMA ResetInv ==
  ASSUME IInv, Reset
  PROVE  IInv'
  BY DepthAssumption DEF IInv, TypeOK, PointersAgree, FsmTracksCount, Reset, Addr, FsmState,
       Slot, empty

(* The registers stay in range, and pointers and FSM agree with the word   *)
(* counter, in every reachable state.                                      *)
THEOREM BufferInvariant == Spec => [](TypeOK /\ PointersAgree /\ FsmTracksCount)
<1>1. Init => IInv
  BY InitInv
<1>2. IInv /\ [Next]_vars => IInv'
  <2>1. ASSUME IInv, Tick PROVE IInv'
    BY <2>1, ClockInv DEF Tick
  <2>2. ASSUME IInv, Reset PROVE IInv'
    BY <2>2, ResetInv
  <2>3. ASSUME IInv, UNCHANGED vars PROVE IInv'
    BY <2>3 DEF IInv, TypeOK, PointersAgree, FsmTracksCount, vars, Slot, empty
  <2> QED BY <2>1, <2>2, <2>3 DEF Next
<1>3. IInv => TypeOK /\ PointersAgree /\ FsmTracksCount
  BY DEF IInv
<1> QED BY <1>1, <1>2, <1>3, PTL DEF Spec
-----------------------------------------------------------------------------
(* The refinement.  The queue is the sequence contents: the words of the n *)
(* slots of the ring m that begin at slot r.                               *)
Place(r, j) == LET a == r + j - 1 IN IF a < DEPTH THEN a ELSE a - DEPTH
Words(m, r, n) == [j \in 1 .. n |-> m[Place(r, j)]]

LEMMA PlaceInjective ==
  ASSUME NEW r \in Addr, NEW j \in 1 .. DEPTH, NEW l \in 1 .. DEPTH
  PROVE  /\ Place(r, j) \in Addr
         /\ Place(r, j) = Place(r, l) => j = l
  BY DepthAssumption DEF Addr, Place

(* Advancing the first slot renumbers the slots by one.                    *)
LEMMA PlaceShift ==
  ASSUME NEW r \in Addr, NEW j \in 1 .. DEPTH - 1
  PROVE  Place(increment(r), j) = Place(r, j + 1) /\ increment(r) \in Addr
  BY DepthAssumption DEF Addr, Place, increment

LEMMA WordsAreSequence ==
  ASSUME NEW m \in [Addr -> Data], NEW r \in Addr, NEW n \in 0 .. DEPTH
  PROVE  /\ Words(m, r, n) \in Seq(Data)
         /\ Len(Words(m, r, n)) = n
         /\ \A j \in 1 .. n : Words(m, r, n)[j] = m[Place(r, j)]
<1>1. \A j \in 1 .. n : Place(r, j) \in Addr
  BY PlaceInjective, DepthAssumption
<1>2. n \in Nat
  BY DepthAssumption
<1>3. \A j \in 1 .. n : m[Place(r, j)] \in Data
  BY <1>1
<1> QED
  BY <1>2, <1>3 DEF Words

(* A word written behind the others is appended to them.                   *)
LEMMA WordsWrite ==
  ASSUME NEW m \in [Addr -> Data], NEW r \in Addr, NEW n \in 0 .. DEPTH - 1, NEW d \in Data
  PROVE  Words([m EXCEPT ![Place(r, n + 1)] = d], r, n + 1) = Words(m, r, n) \o <<d>>
<1> DEFINE p == Place(r, n + 1)
           after == [m EXCEPT ![p] = d]
           old == Words(m, r, n)
           new == Words(after, r, n + 1)
<1>1. n \in 0 .. DEPTH /\ n + 1 \in 1 .. DEPTH /\ n + 1 \in 0 .. DEPTH
  BY DepthAssumption
<1>2. p \in Addr /\ after \in [Addr -> Data]
  BY <1>1, PlaceInjective
<1>3. old \in Seq(Data) /\ Len(old) = n /\ \A j \in 1 .. n : old[j] = m[Place(r, j)]
  BY <1>1, WordsAreSequence
<1>4. /\ new \in Seq(Data) /\ Len(new) = n + 1
      /\ \A j \in 1 .. n + 1 : new[j] = after[Place(r, j)]
  <2> HIDE DEF after
  <2> QED
    BY <1>1, <1>2, WordsAreSequence
<1>5. \A j \in 1 .. n : new[j] = old[j]
  <2> TAKE j \in 1 .. n
  <2>1. j \in 1 .. DEPTH /\ j \in 1 .. n + 1 /\ j # n + 1
    BY <1>1, DepthAssumption
  <2>2. Place(r, j) \in Addr /\ Place(r, j) # p
    BY <1>1, <2>1, PlaceInjective
  <2>3. after[Place(r, j)] = m[Place(r, j)]
    BY <2>2
  <2> QED
    BY <1>3, <1>4, <2>1, <2>3
<1>6. new[n + 1] = d
  <2>1. after[p] = d
    BY <1>2
  <2>2. n + 1 \in 1 .. n + 1
    BY <1>1
  <2> QED
    BY <1>4, <2>1, <2>2
<1> HIDE DEF old, new, after
<1>7. <<d>> \in Seq(Data) /\ Len(<<d>>) = 1 /\ <<d>>[1] = d
  OBVIOUS
<1>8. /\ old \o <<d>> \in Seq(Data)
      /\ Len(old \o <<d>>) = n + 1
      /\ \A j \in 1 .. n + 1 : (old \o <<d>>)[j] = IF j <= n THEN old[j] ELSE <<d>>[j - n]
  BY <1>3, <1>7, ConcatProperties
<1>9. \A j \in 1 .. n + 1 : new[j] = (old \o <<d>>)[j]
  BY <1>1, <1>5, <1>6, <1>7, <1>8
<1>10. new = old \o <<d>>
  BY <1>4, <1>8, <1>9, SeqEqual
<1> QED
  BY <1>10 DEF old, new, after

(* Advancing the first slot drops the first word.                          *)
LEMMA WordsRead ==
  ASSUME NEW m \in [Addr -> Data], NEW r \in Addr, NEW n \in 1 .. DEPTH
  PROVE  /\ Words(m, increment(r), n - 1) = Tail(Words(m, r, n))
         /\ Head(Words(m, r, n)) = m[r]
         /\ Words(m, r, n) # <<>>
<1> DEFINE old == Words(m, r, n)
           new == Words(m, increment(r), n - 1)
<1>1. n \in 0 .. DEPTH /\ n - 1 \in 0 .. DEPTH /\ 1 \in 1 .. n /\ n \in Nat /\ n > 0
  BY DepthAssumption
<1>2. increment(r) \in Addr
  BY DepthAssumption DEF increment, Addr
<1>3. old \in Seq(Data) /\ Len(old) = n /\ \A j \in 1 .. n : old[j] = m[Place(r, j)]
  BY <1>1, WordsAreSequence
<1>4. /\ new \in Seq(Data) /\ Len(new) = n - 1
      /\ \A j \in 1 .. n - 1 : new[j] = m[Place(increment(r), j)]
  BY <1>1, <1>2, WordsAreSequence
<1>5. Place(r, 1) = r
  BY DepthAssumption DEF Place, Addr
<1>6. \A j \in 1 .. n - 1 : new[j] = old[j + 1]
  <2> TAKE j \in 1 .. n - 1
  <2>1. j \in 1 .. DEPTH - 1 /\ j + 1 \in 1 .. n
    BY <1>1, DepthAssumption
  <2> QED
    BY <1>3, <1>4, <2>1, PlaceShift
<1> HIDE DEF old, new
<1>7. old # <<>>
  BY <1>1, <1>3
<1>8. /\ Tail(old) \in Seq(Data) /\ Len(Tail(old)) = n - 1
      /\ \A j \in 1 .. n - 1 : Tail(old)[j] = old[j + 1]
  BY <1>3, <1>7, HeadTailProperties
<1>9. new = Tail(old)
  BY <1>4, <1>6, <1>8, SeqEqual
<1>10. Head(old) = old[1]
  BY <1>3, <1>7
<1> QED
  BY <1>1, <1>3, <1>5, <1>7, <1>9, <1>10 DEF old, new

LEMMA ContentsAreWords ==
  /\ contents = Words(ram, read_address, usedw)
  /\ contents' = Words(ram', read_address', usedw')
  BY DEF contents, Slot, Words, Place

(* A period: the oldest word leaves if it is read, and a written word      *)
(* joins the tail.                                                         *)
LEMMA ClockQueue ==
  ASSUME IInv, NEW v \in BOOLEAN, NEW d \in Data, NEW stop \in BOOLEAN, Clock(v, d, stop)
  PROVE  contents' = (IF fifo_read_en(stop) THEN Tail(contents) ELSE contents)
                       \o (IF fifo_write_en(v) THEN <<d>> ELSE <<>>)
<1> DEFINE w == fifo_write_en(v)
           r == fifo_read_en(stop)
           first == IF r THEN increment(read_address) ELSE read_address
           kept == IF r THEN usedw - 1 ELSE usedw
           left == IF r THEN Tail(contents) ELSE contents
<1>1. /\ w => usedw < DEPTH
      /\ r => usedw > 0
      /\ usedw \in 0 .. DEPTH
      /\ read_address \in Addr /\ ram \in [Addr -> Data]
  BY DepthAssumption DEF IInv, TypeOK, fifo_write_en, fifo_read_en, full, empty
<1>2. /\ read_address' = first
      /\ usedw' = IF w THEN kept + 1 ELSE kept
      /\ ram' = IF w THEN [ram EXCEPT ![write_address] = d] ELSE ram
  BY <1>1 DEF Clock
<1>3. first \in Addr /\ kept \in 0 .. DEPTH
  BY <1>1, DepthAssumption DEF increment, Addr
<1>4. w => kept \in 0 .. DEPTH - 1
  BY <1>1, DepthAssumption
<1>5. left = Words(ram, first, kept)
  <2>1. CASE r
    <3>1. usedw \in 1 .. DEPTH
      BY <1>1, <2>1, DepthAssumption
    <3> QED
      BY <1>1, <2>1, <3>1, WordsRead, ContentsAreWords
  <2>2. CASE ~r
    BY <2>2, ContentsAreWords
  <2> QED
    BY <2>1, <2>2
<1>6. w => write_address = Place(first, kept + 1)
  <2> SUFFICES ASSUME w PROVE write_address = Place(first, kept + 1)
    OBVIOUS
  <2>1. write_address = Slot(usedw + 1)
    BY <1>1, DepthAssumption DEF IInv, PointersAgree
  <2> QED
    BY <1>1, <2>1, DepthAssumption DEF Slot, Place, increment, Addr
<1>7. CASE w
  <2>1. contents' = Words([ram EXCEPT ![Place(first, kept + 1)] = d], first, kept + 1)
    BY <1>2, <1>6, <1>7, ContentsAreWords
  <2>2. contents' = Words(ram, first, kept) \o <<d>>
    <3> HIDE DEF first, kept
    <3> QED
      BY <1>1, <1>3, <1>4, <1>7, <2>1, WordsWrite
  <2> QED
    BY <1>5, <1>7, <2>2
<1>8. CASE ~w
  <2>1. contents' = Words(ram, first, kept)
    BY <1>2, <1>8, ContentsAreWords
  <2>2. left \in Seq(Data)
    <3> HIDE DEF first, kept, left
    <3> QED
      BY <1>1, <1>3, <1>5, WordsAreSequence
  <2>3. left \o <<>> = left
    <3> HIDE DEF left
    <3> QED
      BY <2>2, ConcatEmptySeq
  <2> QED
    BY <1>5, <1>8, <2>1, <2>3
<1> QED
  BY <1>7, <1>8

(* Every step of the ring buffer is a period of the queue or its clearing. *)
LEMMA StepRefines ==
  ASSUME IInv, [Next]_vars
  PROVE  [Fifo!Next]_(Fifo!vars)
<1>1. ASSUME NEW v \in BOOLEAN, NEW d \in Data, NEW stop \in BOOLEAN, Clock(v, d, stop)
      PROVE  Fifo!Next
  <2> DEFINE w == fifo_write_en(v)
             r == fifo_read_en(stop)
             came == IF w THEN <<d>> ELSE <<>>
  <2>1. /\ w <=> v /\ eb_enable /\ usedw # DEPTH
        /\ r => usedw > 0
        /\ usedw \in 0 .. DEPTH /\ read_address \in Addr /\ ram \in [Addr -> Data]
        /\ eb_enable \in BOOLEAN
    BY DEF IInv, TypeOK, fifo_write_en, fifo_read_en, full, empty
  <2>2. contents \in Seq(Data) /\ Len(contents) = usedw
    BY <2>1, WordsAreSequence, ContentsAreWords
  <2>3. r => contents # <<>> /\ Head(contents) = ram[read_address]
    <3> SUFFICES ASSUME r PROVE contents # <<>> /\ Head(contents) = ram[read_address]
      OBVIOUS
    <3>1. usedw \in 1 .. DEPTH
      BY <2>1, DepthAssumption
    <3> QED
      BY <2>1, <3>1, WordsRead, ContentsAreWords
  <2>4. contents' = (IF r THEN Tail(contents) ELSE contents) \o came
    BY <1>1, ClockQueue
  <2>5. sent' = IF r THEN Head(contents) ELSE NoData
    BY <1>1, <2>1, <2>3 DEF Clock, data_out, empty
  <2>6. (IF eb_enable THEN received ELSE <<>>)' = came
    BY <1>1, <2>1 DEF Clock, data_in_stop_upstream, full
  <2>7. r \in BOOLEAN /\ came \in {<<>>} \cup {<<x>> : x \in Data}
    BY DEF fifo_read_en
  <2>8. came # <<>> => Len(contents) < DEPTH
    BY <2>1, <2>2, DepthAssumption
  <2> HIDE DEF r, came
  <2>9. Fifo!Period(r, came)
    BY <2>3, <2>4, <2>5, <2>6, <2>8 DEF Fifo!Period
  <2> QED
    BY <2>7, <2>9 DEF Fifo!Next
<1>2. ASSUME Reset PROVE Fifo!Next
  <2>1. contents' = <<>>
    <3>1. usedw' = 0
      BY <1>2 DEF Reset
    <3>2. contents' = [j \in 1 .. 0 |-> ram'[Place(read_address', j)]]
      BY <3>1, ContentsAreWords DEF Words
    <3> QED
      BY <3>2
  <2> QED
    BY <1>2, <2>1 DEF Reset, Fifo!Next, Fifo!Clear
<1>3. ASSUME UNCHANGED vars PROVE UNCHANGED Fifo!vars
  BY <1>3 DEF vars, Fifo!vars, contents, Slot
<1> QED
  BY <1>1, <1>2, <1>3 DEF Next, Tick

(* The elastic buffer is a bounded first-in first-out queue: what upstream *)
(* was acknowledged is handed downstream once, in order, unless the fabric *)
(* is reset in between.                                                    *)
THEOREM BufferIsFifo == Spec => FifoSpec
<1>1. Init => Fifo!Init
  <2> SUFFICES ASSUME Init PROVE Fifo!Init
    OBVIOUS
  <2>1. contents = [j \in 1 .. 0 |-> ram[Place(read_address, j)]]
    BY ContentsAreWords DEF Init, Words
  <2>2. contents = <<>>
    BY <2>1
  <2> QED
    BY <2>2 DEF Init, Fifo!Init
<1>2. IInv /\ [Next]_vars => [Fifo!Next]_(Fifo!vars)
  BY StepRefines
<1>3. Spec => []IInv
  <2>1. IInv <=> TypeOK /\ PointersAgree /\ FsmTracksCount
    BY DEF IInv
  <2> QED
    BY <2>1, BufferInvariant, PTL
<1> QED
  BY <1>1, <1>2, <1>3, PTL DEF Spec, FifoSpec, Fifo!Spec

-----------------------------------------------------------------------------
(* Induction, as the existence of a least counterexample.                  *)
LEMMA LeastNat ==
  ASSUME NEW T, T \subseteq Nat, T # {}
  PROVE  \E n \in T : \A m \in T : n <= m
<1> DEFINE R == {p \in Nat \X Nat : p[1] < p[2]}
<1>1. IsWellFoundedOn(R, Nat)
  BY NatLessThanWellFounded DEF OpToRel
<1> HIDE DEF R
<1>2. PICK n \in T : \A m \in T : ~(<<m, n>> \in R)
  BY <1>1, WFMin
<1>3. \A m \in T : m \in Nat /\ n \in Nat /\ ~(m < n)
  BY <1>2 DEF R
<1> QED BY <1>3

(* A set of numbers that holds 0 and, with each, the next, holds all up to *)
(* n.                                                                      *)
LEMMA UpTo ==
  ASSUME NEW n \in Nat, NEW S, 0 \in S, \A i \in 0 .. n : i # n /\ i \in S => i + 1 \in S
  PROVE  0 .. n \subseteq S
<1> DEFINE T == {i \in 0 .. n : i \notin S}
<1> SUFFICES ASSUME T # {} PROVE FALSE
  OBVIOUS
<1>1. T \subseteq Nat
  OBVIOUS
<1>2. PICK i \in T : \A j \in T : i <= j
  <2> HIDE DEF T
  <2> QED BY <1>1, LeastNat
<1>3. i \in 0 .. n /\ i \notin S /\ i # 0
  OBVIOUS
<1>4. i - 1 \in 0 .. n /\ i - 1 # n /\ (i - 1) + 1 = i /\ ~(i <= i - 1)
  BY <1>3
<1>5. i - 1 \in S
  BY <1>2, <1>4
<1>6. (i - 1) + 1 \in S
  BY ONLY <1>4, <1>5, \A k \in 0 .. n : k # n /\ k \in S => k + 1 \in S
<1> QED BY <1>3, <1>4, <1>6

(* f is the first n + 1 iterates of g from a.                              *)
Iterates(f, a, g, n) == f \in [0 .. n -> Nat] /\ f[0] = a /\ \A i \in 1 .. n : f[i] = g[f[i - 1]]

LEMMA Iterated ==
  ASSUME NEW n \in Nat, NEW a \in Nat, NEW g \in [Nat -> Nat]
  PROVE  \E f : Iterates(f, a, g, n)
<1> DEFINE S == {k \in Nat : \E f : Iterates(f, a, g, k)}
<1>1. 0 \in S
  <2>1. Iterates([i \in 0 .. 0 |-> a], a, g, 0)
    BY DEF Iterates
  <2> QED BY <2>1
<1>2. ASSUME NEW k \in 0 .. n, k # n, k \in S PROVE k + 1 \in S
  <2>1. PICK f : Iterates(f, a, g, k)
    BY <1>2
  <2> DEFINE h == [i \in 0 .. k + 1 |-> IF i = k + 1 THEN g[f[k]] ELSE f[i]]
  <2>2. f \in [0 .. k -> Nat] /\ f[0] = a /\ \A i \in 1 .. k : f[i] = g[f[i - 1]]
    BY <2>1 DEF Iterates
  <2>3. f[k] \in Nat /\ g[f[k]] \in Nat
    BY <2>2
  <2>4. h \in [0 .. k + 1 -> Nat] /\ h[0] = a /\ h[k + 1] = g[f[k]] /\ \A i \in 0 .. k : h[i] = f[i]
    <3>1. \A i \in 0 .. k : i \in 0 .. k + 1 /\ i # k + 1
      OBVIOUS
    <3>2. h[k + 1] = g[f[k]] /\ \A i \in 0 .. k : h[i] = f[i]
      BY <3>1
    <3>3. h \in [0 .. k + 1 -> Nat]
      <4>1. \A i \in 0 .. k + 1 : i = k + 1 \/ i \in 0 .. k
        OBVIOUS
      <4> QED BY <2>2, <2>3, <4>1
    <3>4. h[0] = a
      <4>1. 0 \in 0 .. k
        OBVIOUS
      <4> QED BY ONLY <2>2, <3>2, <4>1
    <3> QED BY ONLY <3>2, <3>3, <3>4
  <2> HIDE DEF h
  <2>5. ASSUME NEW i \in 1 .. k + 1 PROVE h[i] = g[h[i - 1]]
    <3>1. CASE i = k + 1
      <4>1. i - 1 = k /\ k \in 0 .. k
        BY <3>1
      <4> QED BY <2>4, <3>1, <4>1
    <3>2. CASE i # k + 1
      <4>1. i \in 1 .. k /\ i \in 0 .. k /\ i - 1 \in 0 .. k
        BY <3>2
      <4> QED BY <2>2, <2>4, <4>1
    <3> QED BY <3>1, <3>2
  <2>6. Iterates(h, a, g, k + 1)
    BY <2>4, <2>5 DEF Iterates
  <2>7. k + 1 \in Nat
    OBVIOUS
  <2> QED BY <2>6, <2>7
<1> HIDE DEF S
<1>3. 0 .. n \subseteq S
  BY <1>1, <1>2, UpTo
<1>4. n \in S
  BY <1>3
<1> QED BY <1>4 DEF S

-----------------------------------------------------------------------------
(* The shape of the tree.                                                  *)
LEMMA Ceiling ==
  ASSUME NEW v \in Nat, NEW u \in Nat, u > 1
  PROVE  /\ (v + u - 1) \div u \in Nat
         /\ v # 0 => (v + u - 1) \div u # 0
         /\ \A k \in Nat : k < v => k \div u \in Nat /\ k \div u < (v + u - 1) \div u
         /\ \A w \in Nat : v <= u * w => (v + u - 1) \div u <= w
<1>1. (v + u - 1) \div u \in Nat
  OBVIOUS
<1>2. ASSUME v # 0 PROVE (v + u - 1) \div u # 0
  BY <1>2
<1>3. ASSUME NEW k \in Nat, k < v PROVE k \div u \in Nat /\ k \div u < (v + u - 1) \div u
  BY <1>3
<1>4. ASSUME NEW w \in Nat, v <= u * w PROVE (v + u - 1) \div u <= w
  BY <1>4
<1> QED BY <1>1, <1>2, <1>3, <1>4

LEMMA Widths ==
  /\ width \in [0 .. Layers -> Nat] /\ width[0] = 1
  /\ \A i \in 1 .. Layers : width[i] = UnitFanout * width[i - 1]
<1> DEFINE g == [x \in Nat |-> UnitFanout * x]
<1>1. Layers \in Nat /\ UnitFanout \in Nat /\ g \in [Nat -> Nat]
  BY LayersAssumption
<1>2. PICK f : f \in [0 .. Layers -> Nat] /\ f[0] = 1 /\ \A i \in 1 .. Layers : f[i] = g[f[i - 1]]
  <2> HIDE DEF g
  <2>1. \E f : Iterates(f, 1, g, Layers)
    BY <1>1, Iterated
  <2> QED BY <2>1 DEF Iterates
<1>3. ASSUME NEW i \in 0 .. Layers PROVE f[i] = IF i = 0 THEN 1 ELSE UnitFanout * f[i - 1]
  <2>1. i # 0 => i \in 1 .. Layers /\ i - 1 \in 0 .. Layers
    BY <1>1
  <2> QED BY <1>2, <2>1
<1>4. f = [i \in 0 .. Layers |-> IF i = 0 THEN 1 ELSE UnitFanout * f[i - 1]]
  BY <1>2, <1>3
<1>5. width = [i \in 0 .. Layers |-> IF i = 0 THEN 1 ELSE UnitFanout * width[i - 1]]
  <2>1. \E w : w = [i \in 0 .. Layers |-> IF i = 0 THEN 1 ELSE UnitFanout * w[i - 1]]
    BY <1>4
  <2> QED BY <2>1 DEF width
<1> DEFINE w == width
<1>6. w = [i \in 0 .. Layers |-> IF i = 0 THEN 1 ELSE UnitFanout * w[i - 1]]
  BY <1>5
<1> HIDE DEF w
<1>7. w[0] = 1 /\ \A i \in 1 .. Layers : w[i] = UnitFanout * w[i - 1]
  <2>1. \A i \in 0 .. Layers : w[i] = IF i = 0 THEN 1 ELSE UnitFanout * w[i - 1]
    BY <1>6
  <2> QED BY <1>1, <2>1
<1>8. \A i \in 0 .. Layers : w[i] \in Nat
  <2> DEFINE S == {i \in 0 .. Layers : w[i] \in Nat}
  <2>1. 0 \in S
    BY <1>1, <1>7
  <2>2. ASSUME NEW i \in 0 .. Layers, i # Layers, i \in S PROVE i + 1 \in S
    <3>1. i + 1 \in 1 .. Layers /\ (i + 1) - 1 = i
      BY <1>1, <2>2
    <3>2. w[i + 1] = UnitFanout * w[i] /\ w[i] \in Nat
      BY <1>7, <2>2, <3>1
    <3> QED BY <1>1, <3>1, <3>2
  <2> HIDE DEF S
  <2>3. 0 .. Layers \subseteq S
    BY <1>1, <2>1, <2>2, UpTo
  <2> QED BY <2>3 DEF S
<1>9. w \in [0 .. Layers -> Nat]
  BY <1>6, <1>8
<1> QED BY <1>7, <1>9 DEF w

LEMMA Shape ==
  /\ Layers \in Nat /\ Layers # 0
  /\ valid_points[0] = Fanout /\ valid_points[Layers] = 1
  /\ \A i \in 0 .. Layers : valid_points[i] \in Nat
  /\ \A i \in 1 .. Layers :
       valid_points[i] = (valid_points[i - 1] + UnitFanout - 1) \div UnitFanout
<1> DEFINE up(v) == (v + UnitFanout - 1) \div UnitFanout
           g == [x \in Nat |-> up(x)]
           vp == valid_points
           w == width
<1>1. /\ Layers \in Nat /\ UnitFanout \in Nat /\ UnitFanout > 1 /\ Fanout \in Nat /\ Fanout > 1
      /\ w[Layers] >= Fanout
  BY LayersAssumption
<1>2. w \in [0 .. Layers -> Nat] /\ w[0] = 1 /\ \A i \in 1 .. Layers : w[i] = UnitFanout * w[i - 1]
  BY Widths
<1> HIDE DEF w
<1>3. \A v \in Nat : up(v) \in Nat /\ (v # 0 => up(v) # 0) /\ \A x \in Nat : v <= UnitFanout * x => up(v) <= x
  BY <1>1, Ceiling
<1> HIDE DEF up
<1>4. g \in [Nat -> Nat] /\ \A v \in Nat : g[v] = up(v)
  BY <1>3
<1> HIDE DEF g
<1>5. vp = [i \in 0 .. Layers |-> IF i = 0 THEN Fanout ELSE up(vp[i - 1])]
  <2>1. PICK f : f \in [0 .. Layers -> Nat] /\ f[0] = Fanout /\ \A i \in 1 .. Layers : f[i] = g[f[i - 1]]
    <3>1. \E f : Iterates(f, Fanout, g, Layers)
      BY <1>1, <1>4, Iterated
    <3> QED BY <3>1 DEF Iterates
  <2>2. ASSUME NEW i \in 0 .. Layers PROVE f[i] = IF i = 0 THEN Fanout ELSE up(f[i - 1])
    <3>1. i # 0 => i \in 1 .. Layers /\ i - 1 \in 0 .. Layers
      BY <1>1
    <3> QED BY <1>4, <2>1, <3>1
  <2>3. f = [i \in 0 .. Layers |-> IF i = 0 THEN Fanout ELSE up(f[i - 1])]
    BY <2>1, <2>2
  <2> QED BY <2>3 DEF valid_points, up
<1> HIDE DEF vp
<1>6. vp[0] = Fanout /\ \A i \in 1 .. Layers : vp[i] = up(vp[i - 1])
  <2>1. \A i \in 0 .. Layers : vp[i] = IF i = 0 THEN Fanout ELSE up(vp[i - 1])
    BY <1>5
  <2> QED BY <1>1, <2>1
<1> DEFINE S == {i \in 0 .. Layers : vp[i] \in Nat /\ vp[i] # 0 /\ vp[i] <= w[Layers - i]}
<1>7. 0 \in S
  BY <1>1, <1>6
<1>8. ASSUME NEW i \in 0 .. Layers, i # Layers, i \in S PROVE i + 1 \in S
  <2>1. i + 1 \in 1 .. Layers /\ i + 1 \in 0 .. Layers /\ (i + 1) - 1 = i
    BY <1>1, <1>8
  <2>2. /\ Layers - i \in 1 .. Layers /\ (Layers - i) - 1 = Layers - (i + 1)
        /\ Layers - (i + 1) \in 0 .. Layers
    BY <1>1, <1>8
  <2>3. w[Layers - i] = UnitFanout * w[Layers - (i + 1)] /\ w[Layers - (i + 1)] \in Nat
    BY <1>2, <2>2
  <2>4. vp[i + 1] = up(vp[i])
    BY <1>6, <2>1
  <2>5. vp[i] \in Nat /\ vp[i] # 0 /\ vp[i] <= UnitFanout * w[Layers - (i + 1)]
    BY <1>8, <2>3
  <2>6. vp[i + 1] \in Nat /\ vp[i + 1] # 0 /\ vp[i + 1] <= w[Layers - (i + 1)]
    BY <1>3, <2>3, <2>4, <2>5
  <2> QED BY <2>1, <2>6
<1> HIDE DEF S
<1>9. 0 .. Layers \subseteq S
  BY <1>1, <1>7, <1>8, UpTo
<1>10. \A i \in 0 .. Layers : vp[i] \in Nat /\ vp[i] # 0 /\ vp[i] <= w[Layers - i]
  BY <1>9 DEF S
<1>11. vp[Layers] = 1
  <2>1. Layers \in 0 .. Layers /\ Layers - Layers = 0
    BY <1>1
  <2> QED BY <1>2, <1>10, <2>1
<1>12. Layers # 0
  BY <1>1, <1>6, <1>11
<1> QED BY <1>1, <1>6, <1>10, <1>11, <1>12 DEF vp, up

(* A point lies on a layer, and below every point but the root is one.     *)
LEMMA TreePoints ==
  /\ Root \in Points /\ Root[1] = Layers /\ Root[2] = 0
  /\ \A p \in Points :
       /\ p[1] \in 0 .. Layers /\ p[2] \in Nat
       /\ p = <<p[1], p[2]>>
       /\ p[1] = Layers => p = Root
       /\ p[1] = 0 => p[2] \in 0 .. Fanout - 1
  /\ \A p \in Inner :
       Parent(p) \in Points /\ Parent(p)[1] = p[1] + 1 /\ p[1] # Layers
  /\ \A o \in 0 .. Fanout - 1 : <<0, o>> \in Inner
<1> DEFINE vp == valid_points
<1>1. /\ Layers \in Nat /\ Layers # 0 /\ vp[0] = Fanout /\ vp[Layers] = 1
      /\ \A i \in 0 .. Layers : vp[i] \in Nat
      /\ \A i \in 1 .. Layers : vp[i] = (vp[i - 1] + UnitFanout - 1) \div UnitFanout
  BY Shape
<1>2. UnitFanout \in Nat /\ UnitFanout > 1 /\ Fanout \in Nat
  BY LayersAssumption
<1>3. \A p : p \in Points <=> \E i \in 0 .. Layers : \E k \in 0 .. vp[i] - 1 : p = <<i, k>>
  BY DEF Points
<1> HIDE DEF vp
<1>4. Root \in Points /\ Root[1] = Layers /\ Root[2] = 0
  <2>1. Layers \in 0 .. Layers /\ 0 \in 0 .. vp[Layers] - 1
    BY <1>1
  <2> QED BY <1>3, <2>1 DEF Root
<1>5. ASSUME NEW p \in Points
      PROVE  /\ p[1] \in 0 .. Layers /\ p[2] \in 0 .. vp[p[1]] - 1 /\ p[2] \in Nat
             /\ p = <<p[1], p[2]>>
             /\ p[1] = Layers => p = Root
             /\ p[1] = 0 => p[2] \in 0 .. Fanout - 1
  <2>1. PICK i \in 0 .. Layers : \E k \in 0 .. vp[i] - 1 : p = <<i, k>>
    BY <1>3
  <2>0. PICK k \in 0 .. vp[i] - 1 : p = <<i, k>>
    BY <2>1
  <2>2. p[1] = i /\ p[2] = k /\ k \in Nat
    BY <1>1, <2>0
  <2>3. i = Layers => k = 0
    BY <1>1
  <2>4. i = 0 => k \in 0 .. Fanout - 1
    BY <1>1
  <2> QED BY <2>0, <2>2, <2>3, <2>4 DEF Root
<1>6. ASSUME NEW p \in Inner
      PROVE  Parent(p) \in Points /\ Parent(p)[1] = p[1] + 1 /\ p[1] # Layers
  <2>1. p \in Points /\ p[1] # Layers
    BY <1>5 DEF Inner
  <2>2. p[1] \in 0 .. Layers /\ p[2] \in 0 .. vp[p[1]] - 1 /\ p[1] # Layers
    BY <1>5, <2>1
  <2> DEFINE i == p[1]
             k == p[2]
             up == (vp[i] + UnitFanout - 1) \div UnitFanout
  <2>3. Parent(p) = <<i + 1, k \div UnitFanout>>
    BY DEF Parent
  <2>4. i \in 0 .. Layers /\ k \in 0 .. vp[i] - 1 /\ i # Layers
    BY <2>2
  <2> HIDE DEF i, k
  <2>5. i + 1 \in 1 .. Layers /\ i + 1 \in 0 .. Layers /\ (i + 1) - 1 = i
    BY <1>1, <2>4
  <2>6. vp[i] \in Nat /\ k \in Nat /\ k < vp[i]
    BY <1>1, <2>4
  <2>7. k \div UnitFanout \in Nat /\ k \div UnitFanout < up /\ up \in Nat
    BY <1>2, <2>6, Ceiling
  <2>8. vp[i + 1] = up
    BY <1>1, <2>5
  <2> HIDE DEF up
  <2>9. k \div UnitFanout \in 0 .. vp[i + 1] - 1
    <3> DEFINE q == k \div UnitFanout
    <3> HIDE DEF q
    <3> SUFFICES q \in 0 .. vp[i + 1] - 1
      BY DEF q
    <3>1. q \in Nat /\ q < up /\ up \in Nat
      BY <2>7 DEF q
    <3> QED BY <2>8, <3>1
  <2>10. Parent(p)[1] = i + 1
    BY <2>3
  <2> QED BY <1>3, <2>1, <2>3, <2>5, <2>9, <2>10 DEF i
<1>7. ASSUME NEW o \in 0 .. Fanout - 1 PROVE <<0, o>> \in Inner
  <2>1. 0 \in 0 .. Layers /\ o \in 0 .. vp[0] - 1
    BY <1>1
  <2>2. <<0, o>> \in Points
    BY <1>3, <2>1
  <2>3. <<0, o>> # <<Layers, 0>>
    BY <1>1
  <2> QED BY <2>2, <2>3 DEF Inner, Root
<1> QED BY <1>4, <1>5, <1>6, <1>7

(* Induction from the root to the outputs, and back.                       *)
LEMMA TopDown ==
  ASSUME NEW S, Root \in S,
         \A p \in Inner : Parent(p) \in S => p \in S
  PROVE  Points \subseteq S
<1> DEFINE T == {i \in 0 .. Layers : \A p \in Points : p[1] = Layers - i => p \in S}
<1>1. Layers \in Nat
  BY LayersAssumption
<1>2. 0 \in T
  <2>1. 0 \in 0 .. Layers /\ Layers - 0 = Layers
    BY <1>1
  <2> QED BY <2>1, TreePoints
<1>3. ASSUME NEW i \in 0 .. Layers, i # Layers, i \in T PROVE i + 1 \in T
  <2>1. i + 1 \in 0 .. Layers /\ Layers - (i + 1) # Layers /\ (Layers - (i + 1)) + 1 = Layers - i
    BY <1>1, <1>3
  <2>2. ASSUME NEW p \in Points, p[1] = Layers - (i + 1) PROVE p \in S
    <3>1. p \in Inner
      BY <2>1, <2>2, TreePoints DEF Inner
    <3>2. Parent(p) \in Points /\ Parent(p)[1] = Layers - i
      BY <2>1, <2>2, <3>1, TreePoints
    <3> QED BY <1>3, <3>1, <3>2
  <2> QED BY <2>1, <2>2
<1> HIDE DEF T
<1>4. 0 .. Layers \subseteq T
  BY <1>1, <1>2, <1>3, UpTo
<1>5. ASSUME NEW p \in Points PROVE p \in S
  <2>1. p[1] \in 0 .. Layers
    BY TreePoints
  <2>2. Layers - p[1] \in 0 .. Layers /\ Layers - (Layers - p[1]) = p[1]
    BY <1>1, <2>1
  <2>3. Layers - p[1] \in T
    BY <1>4, <2>2
  <2> QED BY <2>2, <2>3 DEF T
<1> QED BY <1>5

LEMMA BottomUp ==
  ASSUME NEW S,
         \A p \in Points : Children(p) \subseteq S => p \in S
  PROVE  Points \subseteq S
<1> DEFINE T == {i \in 0 .. Layers : \A p \in Points : p[1] = i => p \in S}
<1>1. Layers \in Nat
  BY LayersAssumption
<1>2. ASSUME NEW p \in Points, NEW c \in Children(p)
      PROVE  c \in Points /\ c[1] \in 0 .. Layers /\ c[1] + 1 = p[1]
  <2>1. c \in Inner /\ c \in Points /\ Parent(c) = p
    BY DEF Children, Inner
  <2> QED BY <2>1, TreePoints
<1>3. 0 \in T
  <2>1. ASSUME NEW p \in Points, p[1] = 0, NEW c \in Children(p) PROVE FALSE
    BY <1>2, <2>1
  <2> QED BY <1>1, <2>1
<1>4. ASSUME NEW i \in 0 .. Layers, i # Layers, i \in T PROVE i + 1 \in T
  <2>1. i + 1 \in 0 .. Layers
    BY <1>1, <1>4
  <2>2. ASSUME NEW p \in Points, p[1] = i + 1, NEW c \in Children(p) PROVE c \in S
    <3>1. c \in Points /\ c[1] = i
      BY <1>2, <2>2
    <3> QED BY <1>4, <3>1
  <2> QED BY <2>1, <2>2
<1> HIDE DEF T
<1>5. 0 .. Layers \subseteq T
  BY <1>1, <1>3, <1>4, UpTo
<1>6. ASSUME NEW p \in Points PROVE p \in S
  BY <1>5, TreePoints DEF T
<1> QED BY <1>6

(* A recursion through the sets E[p] has a solution: the least set of      *)
(* points closed under it.                                                 *)
Reached(S, P, A, B, E) ==
  S \in SUBSET P /\ \A p \in P : p \in S <=> p \in A \/ (p \in B /\ E[p] \cap S # {})

LEMMA Reaches ==
  ASSUME NEW P, NEW A, NEW B, NEW E \in [P -> SUBSET P]
  PROVE  \E S : Reached(S, P, A, B, E)
<1> DEFINE Step(C) == {p \in P : p \in A \/ (p \in B /\ E[p] \cap C # {})}
           Closed == {C \in SUBSET P : Step(C) \subseteq C}
           S == {p \in P : \A C \in Closed : p \in C}
<1>1. \A C, D : C \subseteq D => Step(C) \subseteq Step(D)
  OBVIOUS
<1>2. S \in SUBSET P /\ \A C \in Closed : S \subseteq C
  OBVIOUS
<1> HIDE DEF S
<1>3. Step(S) \subseteq S
  <2>1. ASSUME NEW p \in Step(S), NEW C \in Closed PROVE p \in C
    <3>1. Step(S) \subseteq Step(C)
      BY <1>1, <1>2
    <3>2. Step(C) \subseteq C
      OBVIOUS
    <3> HIDE DEF Step
    <3> QED BY <2>1, <3>1, <3>2
  <2> QED BY <2>1 DEF S
<1>4. Step(S) \in Closed
  <2>1. Step(Step(S)) \subseteq Step(S)
    <3> DEFINE R == Step(S)
    <3>1. R \subseteq S
      BY <1>3
    <3> HIDE DEF R
    <3>2. Step(R) \subseteq Step(S)
      BY <1>1, <3>1
    <3> QED BY <3>2 DEF R
  <2> QED BY <2>1
<1>5. S \subseteq Step(S)
  <2> HIDE DEF Step, Closed
  <2> QED BY <1>2, <1>4
<1> QED BY <1>2, <1>3, <1>5 DEF Reached

(* f[p] tells whether all points from p up to the root lie in A, and r     *)
(* holds at the root.                                                      *)
Descends(f, A, r) ==
  \A p \in Points :
    f[p] <=> (p = Root /\ r) \/ (p # Root /\ p \in A /\ f[Parent(p)])

LEMMA Descent ==
  ASSUME NEW A, NEW r \in BOOLEAN
  PROVE  \E f : f = [p \in Points |->
                       IF p = Root THEN r ELSE p \in A /\ f[Parent(p)]]
<1> DEFINE P == Points
           up(p) == IF p = Root THEN {} ELSE {Parent(p)}
           E == [p \in P |-> up(p)]
           Top == IF r THEN {Root} ELSE {}
<1>1. E \in [P -> SUBSET P]
  <2>1. \A p \in P : up(p) \subseteq P
    BY TreePoints DEF Inner
  <2> QED BY <2>1
<1>2. PICK S : S \in SUBSET P /\ \A p \in P : p \in S <=> p \in Top \/ (p \in A /\ E[p] \cap S # {})
  <2> HIDE DEF E, P, Top
  <2>1. \E S : Reached(S, P, Top, A, E)
    BY <1>1, Reaches
  <2> QED BY <2>1 DEF Reached
<1> DEFINE f == [p \in P |-> IF p \in S THEN TRUE ELSE FALSE]
<1>3. ASSUME NEW p \in P PROVE f[p] = IF p = Root THEN r ELSE p \in A /\ f[Parent(p)]
  <2>1. CASE p = Root
    <3>1. E[p] = {}
      BY <2>1
    <3>2. p \in Top <=> r
      BY <2>1
    <3>3. p \in S <=> r
      BY <1>2, <3>1, <3>2
    <3> QED BY <2>1, <3>3
  <2>2. CASE p # Root
    <3>1. E[p] = {Parent(p)} /\ p \notin Top
      BY <2>2
    <3>2. Parent(p) \in P
      BY <2>2, TreePoints DEF Inner
    <3>3. p \in S <=> p \in A /\ Parent(p) \in S
      BY <1>2, <3>1
    <3>4. /\ f[Parent(p)] = IF Parent(p) \in S THEN TRUE ELSE FALSE
          /\ f[p] = IF p \in S THEN TRUE ELSE FALSE
      BY <3>2
    <3>5. CASE p \in S
      BY <2>2, <3>3, <3>4, <3>5
    <3>6. CASE p \notin S
      <4>1. ~(p \in A /\ f[Parent(p)]) /\ f[p] = FALSE
        BY <3>3, <3>4, <3>6
      <4>2. (p \in A /\ f[Parent(p)]) = FALSE
        BY ONLY <4>1
      <4> QED BY ONLY <2>2, <4>1, <4>2
    <3> QED BY <3>5, <3>6
  <2> QED BY <2>1, <2>2
<1> HIDE DEF f
<1>4. f = [p \in P |-> IF p = Root THEN r ELSE p \in A /\ f[Parent(p)]]
  <2>1. f = [p \in P |-> f[p]]
    BY DEF f
  <2> QED BY <1>3, <2>1
<1> QED BY <1>4

(* The outputs and points still to be served, and the valid wires.         *)
LEMMA ToServe == Descends(toServe, armed, TRUE)
<1>1. \E f : f = [p \in Points |-> p = Root \/ (p \in armed /\ f[Parent(p)])]
  <2>1. PICK f : f = [p \in Points |-> IF p = Root THEN TRUE ELSE p \in armed /\ f[Parent(p)]]
    BY Descent
  <2>2. f = [p \in Points |-> p = Root \/ (p \in armed /\ f[Parent(p)])]
    BY <2>1
  <2> QED BY <2>2
<1> DEFINE t == toServe
<1>2. t = [p \in Points |-> p = Root \/ (p \in armed /\ t[Parent(p)])]
  BY <1>1 DEF toServe
<1> HIDE DEF t
<1>3. \A p \in Points : t[p] = (p = Root \/ (p \in armed /\ t[Parent(p)]))
  BY <1>2
<1>4. Descends(t, armed, TRUE)
  BY <1>3 DEF Descends
<1> QED BY <1>4 DEF t

LEMMA ToServeNext == Descends(toServe', armed', TRUE)
<1>1. \E f : f = [p \in Points |-> p = Root \/ (p \in armed' /\ f[Parent(p)])]
  <2>1. PICK f : f = [p \in Points |-> IF p = Root THEN TRUE ELSE p \in armed' /\ f[Parent(p)]]
    BY Descent
  <2>2. f = [p \in Points |-> p = Root \/ (p \in armed' /\ f[Parent(p)])]
    BY <2>1
  <2> QED BY <2>2
<1> DEFINE t == toServe'
<1>2. t = [p \in Points |-> p = Root \/ (p \in armed' /\ t[Parent(p)])]
  BY <1>1 DEF toServe
<1> HIDE DEF t
<1>3. \A p \in Points : t[p] = (p = Root \/ (p \in armed' /\ t[Parent(p)]))
  BY <1>2
<1>4. Descends(t, armed', TRUE)
  BY <1>3 DEF Descends
<1> QED BY <1>4 DEF t

LEMMA ValidWires ==
  Descends(internal_valid_wire, masked_state_regs, valid_upstream)
<1> DEFINE v == internal_valid_wire
           u == valid_upstream
           M == masked_state_regs
<1>1. v = [p \in Points |-> IF p = Root THEN u ELSE p \in M /\ v[Parent(p)]]
  <2>1. u \in BOOLEAN
    BY DEF valid_upstream
  <2>2. \E f : f = [p \in Points |-> IF p = Root THEN u ELSE p \in M /\ f[Parent(p)]]
    <3> HIDE DEF u, M
    <3> QED BY <2>1, Descent
  <2> QED BY <2>2 DEF internal_valid_wire
<1> HIDE DEF v, u, M
<1>2. \A p \in Points : v[p] = IF p = Root THEN u ELSE p \in M /\ v[Parent(p)]
  BY <1>1
<1>3. Descends(v, M, u)
  BY <1>2 DEF Descends
<1> QED BY <1>3 DEF v, u, M

(* The stop wires.                                                         *)
Stops(stop, M, stop_downstream) ==
  \A p \in Points :
    stop[p] <=> \/ p[1] = 0 /\ p[2] \in stop_downstream
                \/ p[1] # 0 /\ \E c \in Children(p) : c \in M /\ stop[c]

LEMMA StopWires ==
  ASSUME NEW s
  PROVE  Stops(internal_stop_wire(s), masked_state_regs, s)
<1> DEFINE M == masked_state_regs
           P == Points
           stop == internal_stop_wire(s)
           E == [p \in P |-> Children(p) \cap M]
           A == {p \in P : p[1] = 0 /\ p[2] \in s}
           B == {p \in P : p[1] # 0}
<1>1. E \in [P -> SUBSET P]
  BY DEF Children, Inner
<1>2. PICK S : S \in SUBSET P /\ \A p \in P : p \in S <=> p \in A \/ (p \in B /\ E[p] \cap S # {})
  <2> HIDE DEF E, P, A, B
  <2>1. \E S : Reached(S, P, A, B, E)
    BY <1>1, Reaches
  <2> QED BY <2>1 DEF Reached
<1> DEFINE f == [p \in P |-> IF p \in S THEN TRUE ELSE FALSE]
           body(g, p) == IF p[1] = 0 THEN p[2] \in s ELSE \E c \in Children(p) : c \in M /\ g[c]
<1>3. ASSUME NEW p \in P PROVE f[p] = body(f, p)
  <2>1. \A c \in Children(p) : c \in P
    BY DEF Children, Inner
  <2>2. CASE p[1] = 0
    <3>1. p \notin B /\ (p \in A <=> p[2] \in s)
      BY <2>2
    <3>2. p \in S <=> p[2] \in s
      <4> HIDE DEF A, B, E
      <4> QED BY <1>2, <3>1
    <3>3. body(f, p) = (p[2] \in s)
      BY <2>2
    <3>4. f[p] = IF p \in S THEN TRUE ELSE FALSE
      OBVIOUS
    <3> HIDE DEF f, body
    <3>5. CASE p \in S
      BY <3>2, <3>3, <3>4, <3>5
    <3>6. CASE p \notin S
      <4> DEFINE stalls == p[2] \in s
      <4>1. ~stalls /\ f[p] = FALSE /\ body(f, p) = stalls
        BY <3>2, <3>3, <3>4, <3>6
      <4> HIDE DEF stalls
      <4>2. stalls = FALSE
        BY <4>1
      <4> QED BY ONLY <4>1, <4>2
    <3> QED BY <3>5, <3>6
  <2>3. CASE p[1] # 0
    <3>1. p \notin A /\ p \in B /\ E[p] = Children(p) \cap M
      BY <2>3
    <3>2. p \in S <=> \E c \in Children(p) : c \in M /\ c \in S
      <4> HIDE DEF A, B, E
      <4> QED BY <1>2, <3>1
    <3>3. p \in S <=> \E c \in Children(p) : c \in M /\ f[c]
      BY <2>1, <3>2
    <3>4. f[p] = IF p \in S THEN TRUE ELSE FALSE
      OBVIOUS
    <3> HIDE DEF f
    <3>5. CASE p \in S
      BY <2>3, <3>3, <3>4, <3>5
    <3>6. CASE p \notin S
      <4> DEFINE some == \E c \in Children(p) : c \in M /\ f[c]
      <4>1. ~some /\ f[p] = FALSE
        BY <3>3, <3>4, <3>6
      <4>2. body(f, p) = some
        BY <2>3
      <4> HIDE DEF some, body
      <4>3. some = FALSE
        BY <4>1
      <4> QED BY ONLY <4>1, <4>2, <4>3
    <3> QED BY <3>5, <3>6
  <2> QED BY <2>2, <2>3
<1>4. f = [p \in P |-> body(f, p)]
  <2>1. f = [p \in P |-> f[p]]
    OBVIOUS
  <2> HIDE DEF f, body
  <2> QED BY <1>3, <2>1
<1>5. stop = [p \in P |-> body(stop, p)]
  <2>1. \E g : g = [p \in P |-> body(g, p)]
    BY <1>4
  <2> QED BY <2>1 DEF internal_stop_wire
<1> HIDE DEF stop
<1>6. \A p \in P : stop[p] = body(stop, p)
  <2> HIDE DEF body
  <2> QED BY <1>5
<1>7. Stops(stop, M, s)
  BY <1>6 DEF Stops
<1> QED BY <1>7 DEF stop

-----------------------------------------------------------------------------
(* The tree and the flat fork.                                             *)
Configured(p) == p[1] = 0 => p[2] \in Enabled

LEMMA Masked == \A p : p \in masked_state_regs <=> p \in armed /\ Configured(p)
BY DEF masked_state_regs, Configured

LEMMA UpperConfigured ==
  Configured(Root) /\ \A p \in Inner : Configured(Parent(p))
<1>1. Layers \in Nat /\ Layers # 0
  BY Shape
<1>2. Configured(Root)
  BY <1>1, TreePoints DEF Configured
<1>3. ASSUME NEW p \in Inner PROVE Configured(Parent(p))
  <2>1. p[1] \in 0 .. Layers /\ Parent(p)[1] = p[1] + 1
    BY TreePoints DEF Inner
  <2> QED BY <1>1, <2>1 DEF Configured
<1> QED BY <1>2, <1>3

(* A wire is valid where a token waits and has yet to be taken.            *)
LEMMA ValidIsToServe ==
  ASSUME NEW p \in Points
  PROVE  internal_valid_wire[p] <=> valid_upstream /\ toServe[p] /\ Configured(p)
<1> DEFINE v == internal_valid_wire
           t == toServe
           u == valid_upstream
           S == {q \in Points : v[q] <=> u /\ t[q] /\ Configured(q)}
<1>1. Descends(v, masked_state_regs, u) /\ Descends(t, armed, TRUE)
  BY ValidWires, ToServe
<1> HIDE DEF v, t, u
<1>2. Root \in S
  BY <1>1, TreePoints, UpperConfigured DEF Descends
<1>3. ASSUME NEW q \in Inner, Parent(q) \in S PROVE q \in S
  <2>1. q \in Points /\ q # Root
    BY DEF Inner
  <2>2. v[q] <=> q \in masked_state_regs /\ v[Parent(q)]
    BY <1>1, <2>1 DEF Descends
  <2>3. t[q] <=> q \in armed /\ t[Parent(q)]
    BY <1>1, <2>1 DEF Descends
  <2>4. v[Parent(q)] <=> u /\ t[Parent(q)]
    BY <1>3, UpperConfigured
  <2>5. v[q] <=> u /\ t[q] /\ Configured(q)
    BY <2>2, <2>3, <2>4, Masked
  <2> QED BY <2>1, <2>5
<1> HIDE DEF S
<1>4. Points \subseteq S
  BY <1>2, <1>3, TopDown
<1> QED BY <1>4 DEF S, v, t, u

(* Stops run up through the masked points.                                 *)
LEMMA StopUp ==
  ASSUME NEW s, NEW p \in Inner, p \in masked_state_regs,
         internal_stop_wire(s)[p]
  PROVE  internal_stop_wire(s)[Parent(p)]
<1> DEFINE stop == internal_stop_wire(s)
<1>1. Stops(stop, masked_state_regs, s) /\ stop[p]
  BY StopWires
<1> HIDE DEF stop
<1>2. Parent(p) \in Points /\ Parent(p)[1] # 0
  <2>1. p[1] \in 0 .. Layers /\ Parent(p) \in Points /\ Parent(p)[1] = p[1] + 1
    BY TreePoints DEF Inner
  <2>2. Layers \in Nat
    BY Shape
  <2> QED BY <2>1, <2>2
<1>3. p \in Children(Parent(p))
  BY DEF Children
<1>4. stop[Parent(p)]
  BY <1>1, <1>2, <1>3 DEF Stops
<1> QED BY <1>4 DEF stop

(* A point stops only for an enabled output below that stalls, and while   *)
(* it is to be served so is the output.                                    *)
LEMMA StopHasOutput ==
  ASSUME NEW s, NEW p \in Points,
         internal_stop_wire(s)[p], toServe[p], Configured(p)
  PROVE  \E o \in 0 .. Fanout - 1 : o \in s /\ o \in Enabled /\ toServe[<<0, o>>]
<1> DEFINE stop == internal_stop_wire(s)
           t == toServe
           Found == \E o \in 0 .. Fanout - 1 : o \in s /\ o \in Enabled /\ t[<<0, o>>]
           S == {q \in Points : stop[q] /\ t[q] /\ Configured(q) => Found}
<1>1. Stops(stop, masked_state_regs, s) /\ Descends(t, armed, TRUE)
  BY StopWires, ToServe
<1> HIDE DEF stop, t
<1>2. ASSUME NEW q \in Points, Children(q) \subseteq S, stop[q], t[q], Configured(q)
      PROVE  Found
  <2>1. CASE q[1] = 0
    <3>1. q[2] \in s /\ q[2] \in Enabled
      BY <1>1, <1>2, <2>1 DEF Stops, Configured
    <3>2. q[2] \in 0 .. Fanout - 1 /\ q = <<0, q[2]>>
      BY <2>1, TreePoints
    <3> QED BY <1>2, <3>1, <3>2
  <2>2. CASE q[1] # 0
    <3>1. PICK c \in Children(q) : c \in masked_state_regs /\ stop[c]
      BY <1>1, <1>2, <2>2 DEF Stops
    <3>2. c \in Points /\ c # Root /\ Parent(c) = q
      BY DEF Children, Inner
    <3>3. c \in armed /\ Configured(c)
      BY <3>1, Masked
    <3>4. t[c]
      BY <1>1, <1>2, <3>2, <3>3 DEF Descends
    <3>5. c \in S
      BY <1>2
    <3> QED BY <3>1, <3>3, <3>4, <3>5
  <2> QED BY <2>1, <2>2
<1>3. \A q \in Points : Children(q) \subseteq S => q \in S
  BY <1>2
<1> HIDE DEF S, Found
<1>4. Points \subseteq S
  BY <1>3, BottomUp
<1>5. stop[p] /\ t[p]
  BY DEF stop, t
<1>6. Found
  BY <1>4, <1>5 DEF S
<1> QED BY <1>6 DEF Found, t

(* Such an output stops the input.                                         *)
LEMMA OutputStops ==
  ASSUME NEW s, NEW p \in Points,
         internal_stop_wire(s)[p], toServe[p], Configured(p)
  PROVE  internal_stop_wire(s)[Root]
<1> DEFINE stop == internal_stop_wire(s)
           t == toServe
           S == {q \in Points : stop[q] /\ t[q] /\ Configured(q) => stop[Root]}
<1>1. Descends(t, armed, TRUE)
  BY ToServe
<1>2. ASSUME NEW q \in Inner, q \in masked_state_regs, stop[q]
      PROVE  stop[Parent(q)]
  BY <1>2, StopUp
<1> HIDE DEF stop, t
<1>3. Root \in S
  BY TreePoints
<1>4. ASSUME NEW q \in Inner, Parent(q) \in S PROVE q \in S
  <2>1. q \in Points /\ q # Root
    BY DEF Inner
  <2>2. t[q] <=> q \in armed /\ t[Parent(q)]
    BY <1>1, <2>1 DEF Descends
  <2>3. ASSUME stop[q], t[q], Configured(q) PROVE stop[Root]
    <3>1. q \in masked_state_regs
      BY <2>2, <2>3, Masked
    <3>2. stop[Parent(q)]
      BY <1>2, <2>3, <3>1
    <3> QED BY <1>4, <2>2, <2>3, <3>2, UpperConfigured
  <2> QED BY <2>1, <2>3
<1> HIDE DEF S
<1>5. Points \subseteq S
  BY <1>3, <1>4, TopDown
<1>6. stop[p] /\ t[p]
  BY DEF stop, t
<1>7. stop[Root]
  BY <1>5, <1>6 DEF S
<1> QED BY <1>7 DEF stop

LEMMA Remainder ==
  ASSUME NEW k \in Nat, NEW u \in Nat, u > 1
  PROVE  k % u = 0 /\ k \div u = 0 <=> k = 0
<1>1. k = 0 => k % u = 0 /\ k \div u = 0
  OBVIOUS
<1>2. k \div u = 0 => k < u
  OBVIOUS
<1>3. k < u => k % u = k
  OBVIOUS
<1> QED BY <1>1, <1>2, <1>3

LEMMA RootStops ==
  ASSUME NEW s
  PROVE  internal_stop_wire(s)[Root] <=>
           \E o \in 0 .. Fanout - 1 : o \in s /\ o \in Enabled /\ toServe[<<0, o>>]
<1> DEFINE stop == internal_stop_wire(s)
           t == toServe
<1>1. ASSUME stop[Root]
      PROVE  \E o \in 0 .. Fanout - 1 : o \in s /\ o \in Enabled /\ t[<<0, o>>]
  <2>1. t[Root]
    BY ToServe, TreePoints DEF Descends
  <2> QED BY <1>1, <2>1, StopHasOutput, TreePoints, UpperConfigured
<1>2. ASSUME NEW o \in 0 .. Fanout - 1, o \in s, o \in Enabled, t[<<0, o>>]
      PROVE  stop[Root]
  <2>1. <<0, o>> \in Points
    BY TreePoints DEF Inner
  <2>2. Stops(stop, masked_state_regs, s)
    BY StopWires
  <2>3. stop[<<0, o>>]
    <3> HIDE DEF stop
    <3> QED BY <1>2, <2>1, <2>2 DEF Stops
  <2>4. Configured(<<0, o>>)
    BY <1>2 DEF Configured
  <2> QED BY <1>2, <2>1, <2>3, <2>4, OutputStops
<1> QED BY <1>1, <1>2

(* After an edge everyone is to be served when the input is released or    *)
(* was not valid, and otherwise whoever was and stops.                     *)
LEMMA ToServeStep ==
  ASSUME NEW s, NEW p \in Points,
         armed' = TreeNextState(internal_stop_wire(s), internal_valid_wire)
  PROVE  toServe'[p] <=>
           (internal_stop_wire(s)[Root] /\ valid_upstream =>
              toServe[p] /\ internal_stop_wire(s)[p] /\ Configured(p))
<1> DEFINE stop == internal_stop_wire(s)
           v == internal_valid_wire
           t == toServe
           u == valid_upstream
           n == toServe'
           held == stop[Root] /\ u
           S == {q \in Points : n[q] <=> (held => t[q] /\ stop[q] /\ Configured(q))}
<1>1. Descends(t, armed, TRUE) /\ Descends(n, armed', TRUE)
  BY ToServe, ToServeNext
<1>2. \A q \in Points : v[q] <=> u /\ t[q] /\ Configured(q)
  BY ValidIsToServe
<1>3. \A q \in Points : stop[q] /\ t[q] /\ Configured(q) => stop[Root]
  BY OutputStops
<1>4. \A q \in Inner : q \in masked_state_regs /\ stop[q] => stop[Parent(q)]
  BY StopUp
<1>5. \A q \in Inner : q \in armed' <=>
        (q \in masked_state_regs /\ stop[q]) \/ ~(stop[Parent(q)] /\ v[Parent(q)])
  BY DEF TreeNextState
<1> HIDE DEF stop, v, t, u, n
<1>6. t[Root] /\ n[Root] /\ Root \in Points
  BY <1>1, TreePoints DEF Descends
<1>7. Root \in S
  BY <1>6, UpperConfigured
<1>8. ASSUME NEW q \in Inner, Parent(q) \in S PROVE q \in S
  <2>1. q \in Points /\ q # Root /\ Parent(q) \in Points
    BY TreePoints DEF Inner
  <2>2. (t[q] <=> q \in armed /\ t[Parent(q)]) /\ (n[q] <=> q \in armed' /\ n[Parent(q)])
    BY <1>1, <2>1 DEF Descends
  <2>3. Configured(Parent(q))
    BY UpperConfigured
  <2>4. CASE ~held
    <3>1. n[Parent(q)]
      BY <1>8, <2>4
    <3>2. ~(stop[Parent(q)] /\ v[Parent(q)])
      BY <1>2, <1>3, <2>1, <2>4
    <3> QED BY <1>5, <2>1, <2>2, <2>4, <3>1, <3>2
  <2>5. CASE held
    <3>1. n[Parent(q)] <=> t[Parent(q)] /\ stop[Parent(q)]
      BY <1>8, <2>3, <2>5
    <3>2. n[Parent(q)] => v[Parent(q)] /\ stop[Parent(q)]
      BY <1>2, <2>1, <2>3, <2>5, <3>1
    <3>3. n[q] <=> q \in masked_state_regs /\ stop[q] /\ n[Parent(q)]
      BY <1>5, <2>2, <3>2
    <3>4. n[q] <=> t[q] /\ stop[q] /\ Configured(q)
      BY <1>4, <2>2, <3>1, <3>3, Masked
    <3> QED BY <2>1, <2>5, <3>4
  <2> QED BY <2>4, <2>5
<1> HIDE DEF S, held
<1>9. Points \subseteq S
  BY <1>7, <1>8, TopDown
<1>10. p \in S
  BY <1>9
<1> QED BY <1>10 DEF S, held, stop, t, u, n

(* The registers of the flat fork: the outputs still to be served.         *)
flat_regs == {o \in 0 .. Fanout - 1 : toServe[<<0, o>>]}

(* Reset sets the way to output 0 alone.                                   *)
LEMMA FlatReset ==
  ASSUME armed' = ResetValue
  PROVE  flat_regs' = {0}
<1> DEFINE n == toServe'
           S == {p \in Points : n[p] <=> p[2] = 0}
<1>1. Descends(n, armed', TRUE)
  BY ToServeNext
<1> HIDE DEF n
<1>2. UnitFanout \in Nat /\ UnitFanout > 1 /\ Fanout \in Nat /\ Fanout > 1
  BY LayersAssumption
<1>3. Root \in S
  BY <1>1, TreePoints DEF Descends
<1>4. ASSUME NEW p \in Inner, Parent(p) \in S PROVE p \in S
  <2>1. p \in Points /\ p # Root /\ p[2] \in Nat
    BY TreePoints DEF Inner
  <2>2. n[p] <=> p \in armed' /\ n[Parent(p)]
    BY <1>1, <2>1 DEF Descends
  <2>3. p \in armed' <=> p[2] % UnitFanout = 0
    BY DEF ResetValue
  <2>4. n[Parent(p)] <=> p[2] \div UnitFanout = 0
    BY <1>4 DEF Parent
  <2>5. p[2] % UnitFanout = 0 /\ p[2] \div UnitFanout = 0 <=> p[2] = 0
    BY <1>2, <2>1, Remainder
  <2> QED BY <2>1, <2>2, <2>3, <2>4, <2>5
<1> HIDE DEF S
<1>5. Points \subseteq S
  BY <1>3, <1>4, TopDown
<1>6. ASSUME NEW o \in 0 .. Fanout - 1 PROVE n[<<0, o>>] <=> o = 0
  <2>1. <<0, o>> \in S
    BY <1>5, TreePoints DEF Inner
  <2> QED BY <2>1 DEF S
<1>7. 0 \in 0 .. Fanout - 1
  BY <1>2
<1> QED BY <1>6, <1>7 DEF flat_regs, n

LEMMA FlatInit == TreeInit => Flat!Init
<1> SUFFICES ASSUME TreeInit PROVE Flat!Init
  OBVIOUS
<1> DEFINE t == toServe
           S == {p \in Points : t[p] <=> p[2] = 0}
<1>1. Descends(t, armed, TRUE)
  BY ToServe
<1> HIDE DEF t
<1>2. UnitFanout \in Nat /\ UnitFanout > 1 /\ Fanout \in Nat /\ Fanout > 1
  BY LayersAssumption
<1>3. Root \in S
  BY <1>1, TreePoints DEF Descends
<1>4. ASSUME NEW p \in Inner, Parent(p) \in S PROVE p \in S
  <2>1. p \in Points /\ p # Root /\ p[2] \in Nat
    BY TreePoints DEF Inner
  <2>2. t[p] <=> p \in armed /\ t[Parent(p)]
    BY <1>1, <2>1 DEF Descends
  <2>3. p \in armed <=> p[2] % UnitFanout = 0
    BY DEF TreeInit, ResetValue
  <2>4. t[Parent(p)] <=> p[2] \div UnitFanout = 0
    BY <1>4 DEF Parent
  <2>5. p[2] % UnitFanout = 0 /\ p[2] \div UnitFanout = 0 <=> p[2] = 0
    BY <1>2, <2>1, Remainder
  <2> QED BY <2>1, <2>2, <2>3, <2>4, <2>5
<1> HIDE DEF S
<1>5. Points \subseteq S
  BY <1>3, <1>4, TopDown
<1>6. ASSUME NEW o \in 0 .. Fanout - 1 PROVE t[<<0, o>>] <=> o = 0
  <2>1. <<0, o>> \in S
    BY <1>5, TreePoints DEF Inner
  <2> QED BY <2>1 DEF S
<1>7. 0 \in 0 .. Fanout - 1
  BY <1>2
<1>8. flat_regs = {0}
  BY <1>6, <1>7 DEF flat_regs, t
<1> QED BY <1>8 DEF TreeInit, Flat!Init, flat_regs

(* An edge of the tree is an edge of the flat fork.                        *)
LEMMA FlatClock ==
  ASSUME NEW s \in SUBSET (0 .. Fanout - 1), NEW arrives \in BOOLEAN,
         TreeClock(s, arrives)
  PROVE  Flat!Clock(s, arrives)
<1> DEFINE stop == internal_stop_wire(s)
           v == internal_valid_wire
           t == toServe
           u == valid_upstream
           O == 0 .. Fanout - 1
           n == toServe'
<1>1. stop[Root] <=> Flat!stop_upstream(s)
  BY RootStops DEF Flat!stop_upstream, Flat!internal_stops, Flat!masked_state_regs
<1>2. u <=> Flat!valid_upstream
  BY DEF valid_upstream, Flat!valid_upstream
<1>3. \A o \in O : <<0, o>> \in Points
  BY TreePoints DEF Inner
<1>4. \A o \in O : v[<<0, o>>] <=> o \in Flat!valid_downstream
  <2>1. \A o \in O : v[<<0, o>>] <=> u /\ t[<<0, o>>] /\ o \in Enabled
    BY <1>3, ValidIsToServe DEF Configured
  <2> QED BY <1>2, <2>1 DEF Flat!valid_downstream, Flat!masked_state_regs
<1>5. flat_regs' = Flat!NextState(s)
  <2>1. armed' = TreeNextState(stop, v)
    BY DEF TreeClock
  <2>2. \A o \in O : n[<<0, o>>] <=>
          (stop[Root] /\ u => t[<<0, o>>] /\ stop[<<0, o>>] /\ Configured(<<0, o>>))
    BY <1>3, <2>1, ToServeStep
  <2>3. \A o \in O : stop[<<0, o>>] <=> o \in s
    <3>1. Stops(stop, masked_state_regs, s)
      BY StopWires
    <3> HIDE DEF stop
    <3> QED BY <1>3, <3>1 DEF Stops
  <2>4. \A o \in O : Configured(<<0, o>>) <=> o \in Enabled
    BY DEF Configured
  <2> HIDE DEF stop, t, u, n
  <2>5. flat_regs' = {o \in O : n[<<0, o>>]}
    BY DEF flat_regs, n
  <2>6. Flat!internal_stops(s) = {o \in O : o \in s /\ t[<<0, o>>] /\ o \in Enabled}
    BY DEF Flat!internal_stops, Flat!masked_state_regs, t
  <2>7. CASE stop[Root] /\ u
    <3>1. Flat!NextState(s) = Flat!internal_stops(s)
      BY <1>1, <1>2, <2>7 DEF Flat!NextState
    <3> QED BY <2>2, <2>3, <2>4, <2>5, <2>6, <2>7, <3>1
  <2>8. CASE ~(stop[Root] /\ u)
    <3>1. Flat!NextState(s) = O
      BY <1>1, <1>2, <2>8 DEF Flat!NextState
    <3> QED BY <2>2, <2>5, <2>8, <3>1
  <2> QED BY <2>7, <2>8
<1>6. got' = [o \in O |-> IF o \in Flat!valid_downstream \ s THEN got[o] + 1 ELSE got[o]]
  BY <1>4 DEF TreeClock
<1> QED BY <1>1, <1>2, <1>5, <1>6 DEF TreeClock, Flat!Clock, flat_regs

LEMMA FlatNext == [TreeNext]_tree_vars => [Flat!Next]_(Flat!vars)
<1> SUFFICES ASSUME [TreeNext]_tree_vars
             PROVE  [Flat!Next]_(Flat!vars)
  OBVIOUS
<1>1. CASE TreeReset
  BY <1>1, FlatReset DEF TreeReset, Flat!Reset, Flat!Next, flat_regs
<1>2. ASSUME NEW s \in SUBSET (0 .. Fanout - 1), NEW arrives \in BOOLEAN, TreeClock(s, arrives)
      PROVE  Flat!Next
  BY <1>2, FlatClock DEF Flat!Next, Flat!Tick
<1>3. CASE UNCHANGED tree_vars
  <2>1. armed' = armed
    BY <1>3 DEF tree_vars
  <2>2. toServe' = toServe
    BY <2>1 DEF toServe
  <2> QED BY <1>3, <2>2 DEF tree_vars, Flat!vars
<1> QED BY <1>1, <1>2, <1>3 DEF TreeNext

(* A tree of unit forks is, cycle for cycle, the unit fork of the full     *)
(* fanout whose registers are the outputs with no clear register on the    *)
(* way from the root: no unit fork on the way loses a token or serves an   *)
(* output twice.                                                           *)
THEOREM TreeIsFlat ==
  TreeSpec => FlatForkSpec
<1>1. TreeInit => Flat!Init
  BY FlatInit
<1>2. [TreeNext]_tree_vars => [Flat!Next]_(Flat!vars)
  BY FlatNext
<1> QED BY <1>1, <1>2, PTL DEF TreeSpec, FlatForkSpec, Flat!Spec
=============================================================================
