-------------------------- MODULE AnnealPlacer_proofs --------------------------
(***************************************************************************)
(* The placer's counters agree with its mapping, every op stays placed, a  *)
(* rejected move is undone exactly, a returned placement is legal, and     *)
(* supported where displaced ops can go anywhere, fixed ops stay and a     *)
(* lone cluster of several ops stays at one location: for every op graph,  *)
(* architecture and clustering.                                            *)
(***************************************************************************)
EXTENDS AnnealPlacer, FiniteSetTheorems, TLAPS

Placements == [Ops -> FUs \cup {NoFU}]
OpsAt(mapping, n) == {op \in Ops : mapping[op] = n}

(* A mapping and counters that agree with it.                              *)
Consistent(s) ==
  /\ s \in [mapping : Placements, occupancy : [FUs -> Int]]
  /\ \A n \in FUs : s.occupancy[n] = Cardinality(OpsAt(s.mapping, n))

LEMMA OpsAtFinite ==
  ASSUME NEW mapping, NEW n
  PROVE  IsFiniteSet(OpsAt(mapping, n))
<1>1. OpsAt(mapping, n) \subseteq Ops
  BY DEF OpsAt
<1> QED
  BY <1>1, OpsAssumption, FS_Subset

(* Ripping an op up unmaps it alone and keeps the counters right.          *)
LEMMA RipUp ==
  ASSUME NEW s, Consistent(s), NEW op \in Ops
  PROVE  /\ Consistent(ripUpOp(s, op))
         /\ ripUpOp(s, op).mapping = [s.mapping EXCEPT ![op] = NoFU]
<1>1. CASE s.mapping[op] = NoFU
  <2>1. ripUpOp(s, op) = s
    BY <1>1 DEF ripUpOp
  <2>2. s.mapping = [s.mapping EXCEPT ![op] = NoFU]
    BY <1>1 DEF Consistent, Placements
  <2> QED
    BY <2>1, <2>2
<1>2. CASE s.mapping[op] # NoFU
  <2> DEFINE m == s.mapping[op]
             t == ripUpOp(s, op)
  <2>1. m \in FUs
    BY <1>2 DEF Consistent, Placements
  <2>2. t = [mapping |-> [s.mapping EXCEPT ![op] = NoFU],
             occupancy |-> [s.occupancy EXCEPT ![m] = @ - 1]]
    BY <1>2 DEF ripUpOp
  <2>3. t \in [mapping : Placements, occupancy : [FUs -> Int]]
    BY <2>1, <2>2 DEF Consistent, Placements
  <2>4. ASSUME NEW n \in FUs
        PROVE  t.occupancy[n] = Cardinality(OpsAt(t.mapping, n))
    <3>1. CASE n = m
      <4>1. OpsAt(t.mapping, n) = OpsAt(s.mapping, n) \ {op}
        BY <2>2, <3>1, OpsAssumption DEF OpsAt, Consistent, Placements
      <4>2. op \in OpsAt(s.mapping, n)
        BY <3>1 DEF OpsAt
      <4>3. Cardinality(OpsAt(t.mapping, n)) = Cardinality(OpsAt(s.mapping, n)) - 1
        BY <4>1, <4>2, OpsAtFinite, FS_RemoveElement
      <4> QED
        BY <4>3, <2>2, <3>1 DEF Consistent
    <3>2. CASE n # m
      <4>1. OpsAt(t.mapping, n) = OpsAt(s.mapping, n)
        BY <2>2, <3>2, OpsAssumption DEF OpsAt, Consistent, Placements
      <4> QED
        BY <4>1, <2>2, <3>2 DEF Consistent
    <3> QED
      BY <3>1, <3>2
  <2> QED
    BY <2>2, <2>3, <2>4 DEF Consistent
<1> QED
  BY <1>1, <1>2

(* Placing an unplaced op maps it alone and keeps the counters right.      *)
LEMMA Place ==
  ASSUME NEW s, Consistent(s), NEW op \in Ops, NEW n \in FUs
  PROVE  /\ Consistent(placeOp(s, op, n))
         /\ s.mapping[op] = NoFU => placeOp(s, op, n).mapping = [s.mapping EXCEPT ![op] = n]
         /\ s.mapping[op] # NoFU => placeOp(s, op, n).mapping = s.mapping
<1>1. CASE s.mapping[op] # NoFU
  BY <1>1 DEF placeOp
<1>2. CASE s.mapping[op] = NoFU
  <2> DEFINE t == placeOp(s, op, n)
  <2>1. t = [mapping |-> [s.mapping EXCEPT ![op] = n],
             occupancy |-> [s.occupancy EXCEPT ![n] = @ + 1]]
    BY <1>2 DEF placeOp
  <2>2. t \in [mapping : Placements, occupancy : [FUs -> Int]]
    BY <2>1 DEF Consistent, Placements
  <2>3. ASSUME NEW k \in FUs
        PROVE  t.occupancy[k] = Cardinality(OpsAt(t.mapping, k))
    <3>1. CASE k = n
      <4>1. OpsAt(t.mapping, k) = OpsAt(s.mapping, k) \cup {op}
        BY <2>1, <3>1 DEF OpsAt, Consistent, Placements
      <4>2. op \notin OpsAt(s.mapping, k)
        BY <1>2, OpsAssumption DEF OpsAt
      <4>3. Cardinality(OpsAt(t.mapping, k)) = Cardinality(OpsAt(s.mapping, k)) + 1
        BY <4>1, <4>2, OpsAtFinite, FS_AddElement
      <4> QED
        BY <4>3, <2>1, <3>1 DEF Consistent
    <3>2. CASE k # n
      <4>1. OpsAt(t.mapping, k) = OpsAt(s.mapping, k)
        BY <1>2, <2>1, <3>2, OpsAssumption DEF OpsAt, Consistent, Placements
      <4> QED
        BY <4>1, <2>1, <3>2 DEF Consistent
    <3> QED
      BY <3>1, <3>2
  <2> QED
    BY <1>2, <2>1, <2>2, <2>3 DEF Consistent
<1> QED
  BY <1>1, <1>2

(* A move changes the place of one op.                                     *)
LEMMA MoveOp ==
  ASSUME NEW s, Consistent(s), NEW op \in Ops, NEW n \in FUs
  PROVE  /\ Consistent(moveOp(s, op, n))
         /\ moveOp(s, op, n).mapping = [s.mapping EXCEPT ![op] = n]
<1> DEFINE r == ripUpOp(s, op)
<1>1. Consistent(r) /\ r.mapping = [s.mapping EXCEPT ![op] = NoFU]
  BY RipUp
<1>2. r.mapping[op] = NoFU
  BY <1>1 DEF Consistent, Placements
<1>3. /\ Consistent(placeOp(r, op, n))
      /\ placeOp(r, op, n).mapping = [r.mapping EXCEPT ![op] = n]
  BY <1>1, <1>2, Place
<1>4. [r.mapping EXCEPT ![op] = n] = [s.mapping EXCEPT ![op] = n]
  BY <1>1 DEF Consistent, Placements
<1> QED
  BY <1>3, <1>4 DEF moveOp

(* An exchange changes the places of two ops, or of one with itself.       *)
LEMMA Exchange ==
  ASSUME NEW s, Consistent(s), NEW op \in Ops, NEW n \in FUs, NEW other \in Ops, NEW m \in FUs
  PROVE  /\ Consistent(exchange(s, op, n, other, m))
         /\ op # other => exchange(s, op, n, other, m).mapping
                            = [s.mapping EXCEPT ![op] = n, ![other] = m]
         /\ op = other => exchange(s, op, n, other, m).mapping = [s.mapping EXCEPT ![op] = n]
<1> DEFINE a == ripUpOp(s, op)
           b == ripUpOp(a, other)
           c == placeOp(b, op, n)
           d == placeOp(c, other, m)
<1> HIDE DEF a, b, c, d
<1>1. Consistent(a) /\ a.mapping = [s.mapping EXCEPT ![op] = NoFU]
  BY RipUp DEF a
<1>2. Consistent(b) /\ b.mapping = [a.mapping EXCEPT ![other] = NoFU]
  BY <1>1, RipUp DEF b
<1>3. b.mapping[op] = NoFU /\ b.mapping[other] = NoFU
  BY <1>1, <1>2 DEF Consistent, Placements
<1>4. Consistent(c) /\ c.mapping = [b.mapping EXCEPT ![op] = n]
  BY <1>2, <1>3, Place DEF c
<1>5. Consistent(d)
  BY <1>4, Place DEF d
<1>6. ASSUME op # other
      PROVE  d.mapping = [s.mapping EXCEPT ![op] = n, ![other] = m]
  <2>1. c.mapping[other] = NoFU
    BY <1>2, <1>3, <1>4, <1>6 DEF Consistent, Placements
  <2>2. d.mapping = [c.mapping EXCEPT ![other] = m]
    BY <2>1, <1>4, Place DEF d
  <2> QED
    BY <2>2, <1>1, <1>2, <1>4, <1>6 DEF Consistent, Placements
<1>7. ASSUME op = other
      PROVE  d.mapping = [s.mapping EXCEPT ![op] = n]
  <2>1. c.mapping[other] # NoFU
    BY <1>2, <1>4, <1>7, OpsAssumption DEF Consistent, Placements
  <2>2. d.mapping = c.mapping
    BY <2>1, <1>4, Place DEF d
  <2> QED
    BY <2>2, <1>1, <1>2, <1>4, <1>7 DEF Consistent, Placements
<1> QED
  BY <1>5, <1>6, <1>7 DEF exchange, a, b, c, d

-------------------------------------------------------------------------------
(* The inductive invariant.  In the initial phase every op of a cluster    *)
(* taken up is placed or about to be; afterwards every op is placed; and   *)
(* during a move old_placement records where the moved ops were before.    *)
running == phase \in {"perturb", "anneal", "trial", "restore", "placed"}

Types ==
  /\ Consistent(State)
  /\ old_placement \in Placements /\ before \in Placements
  /\ phase \in Phases
  /\ placed_clusters \in 0 .. Len(l_clusters)
  /\ todo \in Seq(Ops \X FUs) /\ evicted \in Seq(Ops)

InitialProgress ==
  phase = "initial" =>
    \A c \in 1 .. placed_clusters : \A i \in DOMAIN l_clusters[c] :
      \/ l_mapping[l_clusters[c][i]] # NoFU
      \/ \E j \in DOMAIN todo : todo[j][1] = l_clusters[c][i]

Covered == running => isOpgraphCovered

Legal == phase = "placed" => checkOveruse

Undoable(old, mapping) ==
  \A op \in Ops :
    /\ before[op] \in FUs
    /\ mapping[op] = before[op] \/ old[op] = before[op]
    /\ old[op] \in {NoFU, before[op]}

Undo == phase \in {"trial", "restore"} => Undoable(old_placement, l_mapping)

Inv == Types /\ InitialProgress /\ Covered /\ Legal /\ Undo

LEMMA InitInv == Init => Inv
<1> SUFFICES ASSUME Init PROVE Inv
  OBVIOUS
<1>1. State.mapping = Nowhere /\ State.occupancy = [n \in FUs |-> 0]
  BY DEF Init, State
<1>2. ASSUME NEW n \in FUs
      PROVE  Cardinality(OpsAt(Nowhere, n)) = 0
  <2>1. OpsAt(Nowhere, n) = {}
    BY OpsAssumption DEF OpsAt, Nowhere
  <2> QED
    BY <2>1, FS_EmptySet
<1>3. Consistent(State)
  BY <1>1, <1>2 DEF Consistent, Placements, Nowhere, State
<1>4. Types
  BY <1>3, ClusterAssumption DEF Init, Types, Placements, Nowhere, Phases
<1> QED
  BY <1>4 DEF Init, Inv, InitialProgress, Covered, Legal, Undo, running

(* What Become does to the placement.                                      *)
LEMMA Becomes ==
  ASSUME NEW t, Consistent(t), Become(t)
  PROVE  Consistent(State') /\ l_mapping' = t.mapping
BY DEF Become, Consistent, State

(* getRandomFUs proposes one FU per op, so that Moves is well-typed.       *)
LEMMA ProposedMoves ==
  ASSUME NEW c \in DOMAIN l_clusters, NEW occupied,
         NEW fus \in getRandomFUs(l_clusters[c], occupied)
  PROVE  /\ Moves(l_clusters[c], fus) \in Seq(Ops \X FUs)
         /\ DOMAIN Moves(l_clusters[c], fus) = DOMAIN l_clusters[c]
         /\ \A i \in DOMAIN l_clusters[c] : Moves(l_clusters[c], fus)[i][1] = l_clusters[c][i]
<1>1. fus \in [DOMAIN l_clusters[c] -> FUs]
  BY DEF getRandomFUs
<1>2. l_clusters[c] \in Seq(Ops)
  BY ClusterAssumption
<1> QED
  BY <1>1, <1>2 DEF Moves

(* Recording a moved op keeps a move undoable.                             *)
LEMMA EmplaceUndoable ==
  ASSUME NEW old \in Placements, NEW mapping \in Placements, NEW op \in Ops, NEW n,
         Undoable(old, mapping)
  PROVE  /\ emplace(old, op, mapping[op]) \in Placements
         /\ Undoable(emplace(old, op, mapping[op]), [mapping EXCEPT ![op] = n])
         /\ Undoable(emplace(old, op, mapping[op]), mapping)
BY OpsAssumption DEF Undoable, emplace, Placements

LEMMA EmplaceType ==
  ASSUME NEW old \in Placements, NEW op \in Ops, NEW n \in FUs
  PROVE  emplace(old, op, n) \in Placements
BY DEF emplace, Placements

-------------------------------------------------------------------------------
LEMMA SetupInv == Inv /\ Setup => Inv'
<1> SUFFICES ASSUME Inv, Setup PROVE Inv'
  OBVIOUS
<1> USE DEF Inv
<1>1. CASE InitialChoose
  <2>1. placed_clusters + 1 \in DOMAIN l_clusters
    BY <1>1, ClusterAssumption DEF InitialChoose, Types
  <2>2. PICK fus \in getRandomFUs(nextCluster, FALSE) : todo' = Moves(nextCluster, fus)
    BY <1>1 DEF InitialChoose
  <2>3. /\ todo' \in Seq(Ops \X FUs)
        /\ DOMAIN todo' = DOMAIN nextCluster
        /\ \A i \in DOMAIN nextCluster : todo'[i][1] = nextCluster[i]
    BY <2>1, <2>2, ProposedMoves DEF nextCluster
  <2>4. Types'
    BY <1>1, <2>1, <2>3, ClusterAssumption DEF InitialChoose, Types, State, placement
  <2>5. InitialProgress'
    <3> SUFFICES ASSUME NEW c \in 1 .. placed_clusters', NEW i \in DOMAIN l_clusters[c]
                 PROVE  \/ l_mapping'[l_clusters[c][i]] # NoFU
                        \/ \E j \in DOMAIN todo' : todo'[j][1] = l_clusters[c][i]
      BY DEF InitialProgress
    <3>1. CASE c = placed_clusters + 1
      BY <2>3, <3>1 DEF nextCluster
    <3>2. CASE c # placed_clusters + 1
      <4>1. c \in 1 .. placed_clusters
        BY <1>1, <3>2 DEF InitialChoose, Types
      <4>2. todo = <<>> /\ phase = "initial" /\ l_mapping' = l_mapping
        BY <1>1 DEF InitialChoose, placement
      <4> QED
        BY <4>1, <4>2 DEF InitialProgress
    <3> QED
      BY <3>1, <3>2
  <2> QED
    BY <1>1, <2>4, <2>5 DEF InitialChoose, Covered, Legal, Undo, running
<1>2. CASE InitialPlace
  <2> DEFINE op == Head(todo)[1]
             n == Head(todo)[2]
  <2>1. op \in Ops /\ n \in FUs /\ Tail(todo) \in Seq(Ops \X FUs)
    BY <1>2 DEF InitialPlace, Types
  <2>2. Consistent(State) /\ Become(placeOp(State, op, n))
    BY <1>2 DEF InitialPlace, Types
  <2>3. /\ Consistent(placeOp(State, op, n))
        /\ l_mapping[op] = NoFU => placeOp(State, op, n).mapping = [l_mapping EXCEPT ![op] = n]
        /\ l_mapping[op] # NoFU => placeOp(State, op, n).mapping = l_mapping
    BY <2>1, <2>2, Place DEF State
  <2>4. Consistent(State') /\ l_mapping' = placeOp(State, op, n).mapping
    BY <2>2, <2>3, Becomes
  <2>5. Types'
    BY <1>2, <2>1, <2>4 DEF InitialPlace, Types, Phases
  <2>6. InitialProgress'
    <3> SUFFICES ASSUME phase' = "initial",
                        NEW c \in 1 .. placed_clusters, NEW i \in DOMAIN l_clusters[c]
                 PROVE  \/ l_mapping'[l_clusters[c][i]] # NoFU
                        \/ \E j \in DOMAIN todo' : todo'[j][1] = l_clusters[c][i]
      BY <1>2 DEF InitialProgress, InitialPlace
    <3> DEFINE o == l_clusters[c][i]
    <3>1. l_mapping[op] = NoFU
      BY <1>2 DEF InitialPlace
    <3>2. l_mapping' = [l_mapping EXCEPT ![op] = n] /\ l_mapping \in Placements
      BY <3>1, <2>2, <2>3, <2>4 DEF Consistent, State
    <3>3. o \in Ops
      BY ClusterAssumption DEF Types
    <3>4. CASE l_mapping[o] # NoFU
      BY <3>2, <3>3, <3>4, <2>1, OpsAssumption DEF Placements
    <3>5. CASE \E j \in DOMAIN todo : todo[j][1] = o
      <4>1. PICK j \in DOMAIN todo : todo[j][1] = o
        BY <3>5
      <4>2. CASE j = 1
        BY <4>1, <4>2, <3>2, <2>1, OpsAssumption DEF Placements, Types
      <4>3. CASE j # 1
        <5>1. j - 1 \in DOMAIN Tail(todo) /\ Tail(todo)[j - 1] = todo[j]
          BY <1>2, <4>1, <4>3 DEF Types, InitialPlace
        <5> QED
          BY <5>1, <4>1, <1>2 DEF InitialPlace
      <4> QED
        BY <4>2, <4>3
    <3>6. l_mapping[o] # NoFU \/ \E j \in DOMAIN todo : todo[j][1] = o
      BY <1>2 DEF InitialProgress, InitialPlace
    <3> QED
      BY <3>4, <3>5, <3>6
  <2> QED
    BY <1>2, <2>5, <2>6 DEF InitialPlace, Covered, Legal, Undo, running
<1>3. CASE InitialThrow \/ InitialSpin
  <2>1. Types'
    BY <1>3 DEF InitialThrow, InitialSpin, Throw, Types, State, placement, Phases
  <2> QED
    BY <1>3, <2>1 DEF InitialThrow, InitialSpin, Throw, InitialProgress, Covered, Legal, Undo, running
<1> QED
  BY <1>1, <1>2, <1>3 DEF Setup

LEMMA PhaseInv == Inv /\ (StartPerturbing \/ StartAnnealing) => Inv'
<1> SUFFICES ASSUME Inv, StartPerturbing \/ StartAnnealing PROVE Inv'
  OBVIOUS
<1> USE DEF Inv
<1>1. Types'
  BY DEF StartPerturbing, StartAnnealing, Types, State, placement, Phases
<1>2. isOpgraphCovered
  <2>1. CASE phase = "initial"
    <3> SUFFICES ASSUME NEW op \in Ops PROVE l_mapping[op] # NoFU
      BY DEF isOpgraphCovered
    <3>1. PICK c \in DOMAIN l_clusters : \E i \in DOMAIN l_clusters[c] : l_clusters[c][i] = op
      BY CoverAssumption
    <3>2. todo = <<>> /\ placed_clusters = Len(l_clusters)
      BY <2>1 DEF StartPerturbing, StartAnnealing
    <3>3. c \in 1 .. placed_clusters
      BY <3>2, ClusterAssumption
    <3> QED
      BY <2>1, <3>1, <3>2, <3>3 DEF InitialProgress
  <2>2. CASE phase # "initial"
    BY <2>2 DEF StartPerturbing, StartAnnealing, Covered, running
  <2> QED
    BY <2>1, <2>2
<1> QED
  BY <1>1, <1>2 DEF StartPerturbing, StartAnnealing, placement, InitialProgress, Covered, Legal, Undo,
     isOpgraphCovered

LEMMA PickInv == Inv /\ (\E c \in DOMAIN l_clusters : Pick(c)) => Inv'
<1> SUFFICES ASSUME Inv, NEW c \in DOMAIN l_clusters, Pick(c) PROVE Inv'
  OBVIOUS
<1> USE DEF Inv
<1>1. l_mapping \in Placements /\ isOpgraphCovered
  BY DEF Types, Consistent, State, Pick, Covered, running
<1>2. \A op \in Ops : l_mapping[op] \in FUs
  BY <1>1 DEF Placements, isOpgraphCovered
<1>3. todo' \in Seq(Ops \X FUs)
  BY ProposedMoves DEF Pick
<1>4. Types'
  BY <1>1, <1>3 DEF Pick, Types, State, placement, Phases, Nowhere, Placements
<1>5. Undoable(old_placement, l_mapping)'
  BY <1>1, <1>2 DEF Undoable, Pick, Nowhere, placement
<1> QED
  BY <1>4, <1>5 DEF Pick, placement, InitialProgress, Covered, Legal, Undo, running, isOpgraphCovered

-------------------------------------------------------------------------------
(* A step that moves placed ops to FUs, recording where they were, keeps   *)
(* the invariant.                                                          *)
LEMMA RelocationInv ==
  ASSUME Inv, phase \in {"perturb", "trial"}, phase' = phase, placed_clusters' = placed_clusters,
         before' = before, todo' \in Seq(Ops \X FUs), evicted' \in Seq(Ops),
         Consistent(State'), \A op \in Ops : l_mapping'[op] # NoFU,
         old_placement' \in Placements,
         Undoable(old_placement, l_mapping) => Undoable(old_placement', l_mapping')
  PROVE  Inv'
<1>1. Types'
  BY DEF Inv, Types
<1>2. Undo'
  BY DEF Inv, Undo, Undoable
<1> QED
  BY <1>1, <1>2 DEF Inv, InitialProgress, Covered, Legal, running, isOpgraphCovered

LEMMA MoveOneInv ==
  ASSUME Inv, phase \in {"perturb", "trial"}, NEW op \in Ops, NEW n \in FUs,
         Become(moveOp(State, op, n)),
         old_placement' = emplace(old_placement, op, l_mapping[op]),
         todo' \in Seq(Ops \X FUs), evicted' \in Seq(Ops),
         UNCHANGED <<phase, placed_clusters, before>>
  PROVE  Inv'
<1>1. /\ Consistent(State) /\ l_mapping \in Placements /\ old_placement \in Placements
      /\ \A o \in Ops : l_mapping[o] # NoFU
  BY DEF Inv, Types, Consistent, State, Covered, running, isOpgraphCovered
<1>2. Consistent(State') /\ l_mapping' = [l_mapping EXCEPT ![op] = n]
  <2> DEFINE t == moveOp(State, op, n)
  <2>1. Consistent(t) /\ t.mapping = [State.mapping EXCEPT ![op] = n]
    BY <1>1, MoveOp
  <2>2. Consistent(State') /\ l_mapping' = t.mapping
    BY <2>1, Becomes
  <2> QED
    BY <2>1, <2>2 DEF State
<1>3. \A o \in Ops : l_mapping'[o] # NoFU
  BY <1>1, <1>2, OpsAssumption DEF Placements
<1>4. old_placement' \in Placements
  BY <1>1, EmplaceType DEF Placements
<1>5. ASSUME Undoable(old_placement, l_mapping)
      PROVE  Undoable(old_placement, l_mapping)'
  <2>1. Undoable(emplace(old_placement, op, l_mapping[op]), [l_mapping EXCEPT ![op] = n])
    BY <1>1, <1>5, EmplaceUndoable
  <2> QED
    BY <2>1, <1>2 DEF Undoable
<1> QED
  BY <1>2, <1>3, <1>4, <1>5, RelocationInv DEF Undoable

LEMMA ExchangeInv ==
  ASSUME Inv, phase \in {"perturb", "trial"}, NEW op \in Ops, NEW n \in FUs, NEW other \in Ops,
         l_mapping[other] = n,
         Become(exchange(State, op, n, other, l_mapping[op])),
         old_placement' = emplace(emplace(old_placement, op, l_mapping[op]), other, n),
         todo' \in Seq(Ops \X FUs), evicted' \in Seq(Ops),
         UNCHANGED <<phase, placed_clusters, before>>
  PROVE  Inv'
<1> DEFINE m == l_mapping[op]
           old1 == emplace(old_placement, op, m)
<1>1. /\ Consistent(State) /\ l_mapping \in Placements /\ old_placement \in Placements
      /\ \A o \in Ops : l_mapping[o] # NoFU
  BY DEF Inv, Types, Consistent, State, Covered, running, isOpgraphCovered
<1>2. m \in FUs
  BY <1>1 DEF Placements
<1>3. /\ Consistent(State')
      /\ op # other => l_mapping' = [l_mapping EXCEPT ![op] = n, ![other] = m]
      /\ op = other => l_mapping' = [l_mapping EXCEPT ![op] = n]
  <2> DEFINE t == exchange(State, op, n, other, m)
  <2>1. /\ Consistent(t)
        /\ op # other => t.mapping = [State.mapping EXCEPT ![op] = n, ![other] = m]
        /\ op = other => t.mapping = [State.mapping EXCEPT ![op] = n]
    BY <1>1, <1>2, Exchange
  <2>2. Consistent(State') /\ l_mapping' = t.mapping
    BY <2>1, Becomes
  <2> QED
    BY <2>1, <2>2 DEF State
<1>4. \A o \in Ops : l_mapping'[o] # NoFU
  BY <1>1, <1>2, <1>3, OpsAssumption DEF Placements
<1>5. old_placement' \in Placements
  BY <1>1, <1>2, EmplaceType
<1>6. ASSUME Undoable(old_placement, l_mapping)
      PROVE  Undoable(old_placement, l_mapping)'
  <2>1. old1 \in Placements /\ Undoable(old1, l_mapping)
    BY <1>1, <1>6, EmplaceUndoable
  <2>2. CASE op = other
    <3>1. l_mapping' = l_mapping
      BY <1>1, <1>3, <2>2 DEF Placements
    <3>2. Undoable(emplace(old1, other, l_mapping[other]), l_mapping)
      BY <1>1, <2>1, EmplaceUndoable
    <3> QED
      BY <3>1, <3>2 DEF Undoable
  <2>3. CASE op # other
    <3> DEFINE mapping1 == [l_mapping EXCEPT ![op] = n]
    <3>1. mapping1 \in Placements /\ mapping1[other] = n
      BY <1>1, <2>3 DEF Placements
    <3>2. Undoable(old1, mapping1)
      BY <1>1, <1>6, EmplaceUndoable
    <3>3. Undoable(emplace(old1, other, mapping1[other]), [mapping1 EXCEPT ![other] = m])
      BY <2>1, <3>1, <3>2, EmplaceUndoable
    <3>4. l_mapping' = [mapping1 EXCEPT ![other] = m]
      BY <1>1, <1>3, <2>3 DEF Placements
    <3> QED
      BY <3>1, <3>3, <3>4 DEF Undoable
  <2> QED
    BY <2>2, <2>3
<1> QED
  BY <1>3, <1>4, <1>5, <1>6, RelocationInv DEF Undoable

LEMMA ThrowInv == Inv /\ Throw => Inv'
BY DEF Inv, Throw, Types, State, placement, Phases, InitialProgress, Covered, Legal, Undo, running

LEMMA MoveInv == Inv /\ Move => Inv'
<1> SUFFICES ASSUME Inv, Move PROVE Inv'
  OBVIOUS
<1>1. CASE MoveThrows
  BY <1>1, ThrowInv DEF MoveThrows
<1>2. CASE ~MoveThrows
  <2>1. moving
    BY <1>2 DEF Move, MoveToFree, SwapWithItself, SwapOps, SwapCluster
  <2>2. /\ movingOp \in Ops /\ movingTo \in FUs /\ Tail(todo) \in Seq(Ops \X FUs)
        /\ evicted \in Seq(Ops) /\ phase \in {"perturb", "trial"}
    BY <2>1 DEF moving, movingOp, movingTo, Inv, Types
  <2>3. CASE MoveToFree
    BY <2>2, <2>3, MoveOneInv DEF MoveToFree
  <2>4. CASE SwapOps
    <3>1. PICK second_op \in OpsMapedAt(movingTo) :
            /\ old_placement' = emplace(emplace(old_placement, movingOp, l_mapping[movingOp]),
                                        second_op, movingTo)
            /\ Become(exchange(State, movingOp, movingTo, second_op, l_mapping[movingOp]))
      BY <2>4 DEF SwapOps
    <3>2. second_op \in Ops /\ l_mapping[second_op] = movingTo
      BY DEF OpsMapedAt
    <3> QED
      BY <2>2, <2>4, <3>1, <3>2, ExchangeInv DEF SwapOps
  <2>5. CASE SwapWithItself \/ SwapCluster
    <3>1. evicted' \in Seq(Ops)
      BY <2>2, <2>5, ClusterAssumption DEF SwapWithItself, SwapCluster, clusterOf, OpsMapedAt
    <3>2. Types'
      BY <2>2, <2>5, <3>1 DEF SwapWithItself, SwapCluster, Inv, Types, State, placement
    <3> QED
      BY <2>2, <2>5, <3>2 DEF SwapWithItself, SwapCluster, placement, Inv, InitialProgress,
         Covered, Legal, Undo, Undoable, running, isOpgraphCovered
  <2> QED
    BY <1>2, <2>3, <2>4, <2>5 DEF Move
<1> QED
  BY <1>1, <1>2

LEMMA EvictInv == Inv /\ Evict => Inv'
<1> SUFFICES ASSUME Inv, Evict PROVE Inv'
  OBVIOUS
<1>1. CASE EvictThrows
  BY <1>1, ThrowInv DEF EvictThrows
<1>2. CASE ~EvictThrows
  <2>1. evicting
    BY <1>2 DEF Evict, EvictToFree, EvictBySwap
  <2>2. /\ evictedOp \in Ops /\ Tail(evicted) \in Seq(Ops) /\ todo \in Seq(Ops \X FUs)
        /\ phase \in {"perturb", "trial"}
        /\ getFUForOpAtLoc(evictedOp, home) \subseteq FUs
    BY <2>1, ArchAssumption DEF evicting, evictedOp, Inv, Types, getFUForOpAtLoc
  <2>3. CASE EvictToFree
    <3>1. PICK n \in getFUForOpAtLoc(evictedOp, home) : Become(moveOp(State, evictedOp, n))
      BY <2>3 DEF EvictToFree
    <3> QED
      BY <2>2, <2>3, <3>1, MoveOneInv DEF EvictToFree
  <2>4. CASE EvictBySwap
    <3>1. PICK n \in getFUForOpAtLoc(evictedOp, home), s_op \in Ops :
            /\ s_op \in OpsMapedAt(n)
            /\ old_placement' = emplace(emplace(old_placement, evictedOp, l_mapping[evictedOp]), s_op, n)
            /\ Become(exchange(State, evictedOp, n, s_op, l_mapping[evictedOp]))
      BY <2>4 DEF EvictBySwap, OpsMapedAt
    <3>2. l_mapping[s_op] = n
      BY <3>1 DEF OpsMapedAt
    <3> QED
      BY <2>2, <2>4, <3>1, <3>2, ExchangeInv DEF EvictBySwap
  <2> QED
    BY <1>2, <2>3, <2>4 DEF Evict
<1> QED
  BY <1>1, <1>2

LEMMA DecideInv == Inv /\ Decide => Inv'
<1> SUFFICES ASSUME Inv, Decide PROVE Inv'
  OBVIOUS
<1> USE DEF Inv
<1>1. CASE Accept \/ Reject \/ Restored \/ EndIteration
  <2>1. Types'
    BY <1>1 DEF Accept, Reject, Restored, EndIteration, Types, State, placement, Phases
  <2> QED
    BY <1>1, <2>1 DEF Accept, Reject, Restored, EndIteration, placement, InitialProgress,
       Covered, Legal, Undo, Undoable, running, isOpgraphCovered, checkOveruse
<1>2. ASSUME NEW op \in Ops, Restore(op)
      PROVE  Inv'
  <2> DEFINE n == old_placement[op]
  <2>1. n \in FUs /\ Consistent(State) /\ phase = "restore" /\ l_mapping \in Placements
    BY <1>2 DEF Restore, Types, Placements, Consistent, State
  <2>1a. Consistent(moveOp(State, op, n)) /\ moveOp(State, op, n).mapping = [State.mapping EXCEPT ![op] = n]
    BY <2>1, MoveOp
  <2>2. Consistent(State') /\ l_mapping' = [l_mapping EXCEPT ![op] = n]
    <3>1. Become(moveOp(State, op, n))
      BY <1>2 DEF Restore
    <3>2. Consistent(State') /\ l_mapping' = moveOp(State, op, n).mapping
      BY <2>1a, <3>1, Becomes
    <3> QED
      BY <2>1a, <3>2 DEF State
  <2>3. Types'
    BY <1>2, <2>2 DEF Restore, Types, Placements
  <2>4. isOpgraphCovered'
    BY <2>1, <2>2, OpsAssumption DEF Covered, running, isOpgraphCovered, Placements
  <2>5. Undoable(old_placement, l_mapping)'
    BY <1>2, <2>1, <2>2, OpsAssumption DEF Restore, Undo, Undoable, Types, Placements
  <2> QED
    BY <1>2, <2>3, <2>4, <2>5 DEF Restore, InitialProgress, Covered, Legal, Undo, running
<1> QED
  BY <1>1, <1>2 DEF Decide

LEMMA StutterInv == Inv /\ UNCHANGED vars => Inv'
<1> SUFFICES ASSUME Inv, UNCHANGED vars PROVE Inv'
  OBVIOUS
<1> QED
  BY DEF Inv, vars, Types, State, InitialProgress, Covered, Legal, Undo, Undoable, running,
     isOpgraphCovered, checkOveruse

LEMMA NextInv == Inv /\ [Next]_vars => Inv'
<1>1. Stopped => UNCHANGED vars
  BY DEF Stopped, vars, placement
<1> QED
  BY <1>1, SetupInv, PhaseInv, PickInv, MoveInv, EvictInv, DecideInv, StutterInv DEF Next

LEMMA Invariance == Spec => []Inv
<1> QED
  BY InitInv, NextInv, PTL DEF Spec

-------------------------------------------------------------------------------
LEMMA ArchitectureStays == Spec => [](canMapOp \in Architectures)
<1>1. Init => canMapOp \in Architectures
  BY DEF Init
<1>2. canMapOp \in Architectures /\ [Next]_vars => (canMapOp \in Architectures)'
  BY DEF Next, vars, Setup, Move, Evict, Decide, Throw,
     InitialChoose, InitialPlace, InitialThrow, InitialSpin, StartPerturbing, StartAnnealing, Pick,
     MoveToFree, MoveThrows, SwapWithItself, SwapOps, SwapCluster, EvictThrows, EvictToFree,
     EvictBySwap, Accept, Reject, Restore, Restored, EndIteration, Stopped
<1> QED
  BY <1>1, <1>2, PTL DEF Spec

LEMMA InvImplies ==
  ASSUME Inv, canMapOp \in Architectures
  PROVE  TypeOK /\ OccupancyIsMapping /\ EveryOpPlaced /\ PlacedIsLegal /\ RejectRestores
<1>1. /\ l_mapping \in Placements /\ occupancy \in [FUs -> Int]
      /\ \A n \in FUs : occupancy[n] = Cardinality(OpsAt(l_mapping, n))
  BY DEF Inv, Types, Consistent, State
<1>2. OccupancyIsMapping
  BY <1>1 DEF OccupancyIsMapping, OpsAt
<1>3. ASSUME NEW n \in FUs
      PROVE  occupancy[n] \in 0 .. Cardinality(Ops)
  <2>1. OpsAt(l_mapping, n) \subseteq Ops
    BY DEF OpsAt
  <2>2. /\ Cardinality(OpsAt(l_mapping, n)) <= Cardinality(Ops)
        /\ Cardinality(OpsAt(l_mapping, n)) \in Nat /\ Cardinality(Ops) \in Nat
    BY <2>1, OpsAtFinite, OpsAssumption, FS_Subset, FS_CardinalityType
  <2> QED
    BY <1>1, <2>2
<1>4. TypeOK
  BY <1>1, <1>3 DEF Inv, Types, TypeOK, Placements
<1>5. EveryOpPlaced
  BY DEF Inv, Covered, running, EveryOpPlaced
<1>6. PlacedIsLegal
  <2> SUFFICES ASSUME phase = "placed", NEW op \in Ops, NEW other \in Ops, op # other,
                      l_mapping[op] = l_mapping[other]
               PROVE  FALSE
    BY DEF PlacedIsLegal
  <2> DEFINE n == l_mapping[op]
  <2>1. n \in FUs /\ occupancy[n] <= 1
    BY <1>1 DEF Inv, Covered, Legal, running, isOpgraphCovered, checkOveruse, Placements
  <2>2. op \in OpsAt(l_mapping, n) /\ other \in OpsAt(l_mapping, n) \ {op}
    BY DEF OpsAt
  <2>3. /\ IsFiniteSet(OpsAt(l_mapping, n) \ {op})
        /\ Cardinality(OpsAt(l_mapping, n) \ {op}) = Cardinality(OpsAt(l_mapping, n)) - 1
    BY <2>2, OpsAtFinite, FS_RemoveElement
  <2>4. Cardinality(OpsAt(l_mapping, n) \ {op}) # 0
    BY <2>2, <2>3, FS_EmptySet
  <2>5. Cardinality(OpsAt(l_mapping, n)) \in Nat /\ Cardinality(OpsAt(l_mapping, n) \ {op}) \in Nat
    BY <2>3, OpsAtFinite, FS_CardinalityType
  <2> QED
    BY <1>1, <2>1, <2>3, <2>4, <2>5
<1>7. RejectRestores
  <2> SUFFICES ASSUME phase = "restore", old_placement = Nowhere
               PROVE  l_mapping = before
    BY DEF RejectRestores
  <2>1. \A op \in Ops : l_mapping[op] = before[op]
    BY OpsAssumption DEF Inv, Undo, Undoable, Nowhere
  <2>2. before \in Placements
    BY DEF Inv, Types
  <2> QED
    BY <1>1, <2>1, <2>2 DEF Placements
<1> QED
  BY <1>2, <1>4, <1>5, <1>6, <1>7

(* The occupancy counters agree with the mapping at all times, and hence   *)
(* stay between zero and the number of ops.                                *)
THEOREM CountersAgree == Spec => [](TypeOK /\ OccupancyIsMapping)
<1>1. Inv /\ canMapOp \in Architectures => TypeOK /\ OccupancyIsMapping
  BY InvImplies
<1> QED
  BY <1>1, Invariance, ArchitectureStays, PTL

(* Every op has an FU whenever a cost is computed, and the placements that *)
(* are returned give every op an FU of its own.                            *)
THEOREM PlacementsLegal == Spec => [](EveryOpPlaced /\ PlacedIsLegal)
<1>1. Inv /\ canMapOp \in Architectures => EveryOpPlaced /\ PlacedIsLegal
  BY InvImplies
<1> QED
  BY <1>1, Invariance, ArchitectureStays, PTL

(* Undoing a rejected move restores the placement it began with.           *)
THEOREM RejectionsRestore == Spec => []RejectRestores
<1>1. Inv /\ canMapOp \in Architectures => RejectRestores
  BY InvImplies
<1> QED
  BY <1>1, Invariance, ArchitectureStays, PTL

-------------------------------------------------------------------------------
(* Where an op that is displaced can go wherever the op that takes its     *)
(* place can, every op is, was and is about to be on FUs that can execute  *)
(* it.                                                                     *)
Fits(mapping) == \A op \in Ops : mapping[op] \in canMapOp[op] \cup {NoFU}

Supported ==
  /\ Fits(l_mapping) /\ Fits(old_placement)
  /\ \A i \in DOMAIN todo : todo[i][2] \in canMapOp[todo[i][1]]
  /\ \A i \in DOMAIN evicted : Len(clusterOf(evicted[i])) > 1

UniformInv == Uniform => Supported

LEMMA ProposalsSupported ==
  ASSUME NEW c \in DOMAIN l_clusters, NEW occupied,
         NEW fus \in getRandomFUs(l_clusters[c], occupied)
  PROVE  \A i \in DOMAIN Moves(l_clusters[c], fus) :
           Moves(l_clusters[c], fus)[i][2] \in canMapOp[Moves(l_clusters[c], fus)[i][1]]
BY DEF getRandomFUs, getFUForOpAtLoc, Moves

LEMMA EmplaceFits ==
  ASSUME NEW old \in Placements, Fits(old), NEW op \in Ops, NEW n \in FUs, n \in canMapOp[op]
  PROVE  Fits(emplace(old, op, n))
BY DEF Fits, emplace, Placements

LEMMA MoveFits ==
  ASSUME Inv, Fits(l_mapping), NEW op \in Ops, NEW n \in FUs, n \in canMapOp[op],
         Become(moveOp(State, op, n))
  PROVE  Fits(l_mapping')
<1>1. Consistent(State) /\ l_mapping \in Placements
  BY DEF Inv, Types, Consistent, State
<1>2. /\ Consistent(moveOp(State, op, n))
      /\ moveOp(State, op, n).mapping = [State.mapping EXCEPT ![op] = n]
  BY <1>1, MoveOp
<1>3. l_mapping' = [l_mapping EXCEPT ![op] = n]
  BY <1>2, Becomes DEF State
<1> QED
  BY <1>1, <1>3 DEF Fits, Placements

LEMMA ExchangeFits ==
  ASSUME Inv, phase \in {"perturb", "trial"}, Fits(l_mapping), Fits(old_placement),
         NEW op \in Ops, NEW n \in FUs, n \in canMapOp[op],
         NEW other \in Ops, l_mapping[other] = n, canMapOp[op] \subseteq canMapOp[other],
         Become(exchange(State, op, n, other, l_mapping[op])),
         old_placement' = emplace(emplace(old_placement, op, l_mapping[op]), other, n)
  PROVE  Fits(l_mapping') /\ Fits(old_placement')
<1> DEFINE m == l_mapping[op]
<1>1. Consistent(State) /\ l_mapping \in Placements /\ old_placement \in Placements
  BY DEF Inv, Types, Consistent, State
<1>2. m \in FUs /\ m \in canMapOp[op] /\ m \in canMapOp[other]
  BY <1>1 DEF Inv, Covered, running, isOpgraphCovered, Placements, Fits
<1>3. /\ Consistent(exchange(State, op, n, other, m))
      /\ op # other => exchange(State, op, n, other, m).mapping
                         = [State.mapping EXCEPT ![op] = n, ![other] = m]
      /\ op = other => exchange(State, op, n, other, m).mapping = [State.mapping EXCEPT ![op] = n]
  BY <1>1, <1>2, Exchange
<1>4. /\ op # other => l_mapping' = [l_mapping EXCEPT ![op] = n, ![other] = m]
      /\ op = other => l_mapping' = [l_mapping EXCEPT ![op] = n]
  BY <1>3, Becomes DEF State
<1>5. Fits(l_mapping')
  BY <1>1, <1>2, <1>4 DEF Fits, Placements
<1>6. n \in canMapOp[other]
  OBVIOUS
<1>7. Fits(emplace(old_placement, op, m)) /\ emplace(old_placement, op, m) \in Placements
  BY <1>1, <1>2, EmplaceFits, EmplaceType
<1>8. Fits(old_placement')
  BY <1>6, <1>7, EmplaceFits
<1> QED
  BY <1>5, <1>8

LEMMA SupportedInit == Init => UniformInv
<1> SUFFICES ASSUME Init PROVE Supported
  BY DEF UniformInv
<1>1. l_mapping = Nowhere /\ old_placement = Nowhere /\ todo = <<>> /\ evicted = <<>>
  BY DEF Init
<1> QED
  BY <1>1 DEF Supported, Fits, Nowhere

LEMMA SupportedSetup ==
  ASSUME Inv, Supported, Setup
  PROVE  Supported'
<1>1. CASE InitialChoose
  <2>1. placed_clusters + 1 \in DOMAIN l_clusters
    BY <1>1, ClusterAssumption DEF InitialChoose, Inv, Types
  <2>2. PICK fus \in getRandomFUs(nextCluster, FALSE) : todo' = Moves(nextCluster, fus)
    BY <1>1 DEF InitialChoose
  <2>3. \A i \in DOMAIN todo' : todo'[i][2] \in canMapOp[todo'[i][1]]
    BY <2>1, <2>2, ProposalsSupported DEF nextCluster
  <2> QED
    BY <1>1, <2>3 DEF InitialChoose, Supported, Fits, placement, clusterOf
<1>2. CASE InitialPlace
  <2> DEFINE op == Head(todo)[1]
             n == Head(todo)[2]
  <2>1. op \in Ops /\ n \in FUs /\ n \in canMapOp[op]
    BY <1>2 DEF InitialPlace, Inv, Types, Supported
  <2>2. Consistent(State) /\ Become(placeOp(State, op, n)) /\ l_mapping \in Placements
    BY <1>2 DEF InitialPlace, Inv, Types, Consistent, State
  <2>3. /\ Consistent(placeOp(State, op, n))
        /\ l_mapping[op] = NoFU => placeOp(State, op, n).mapping = [l_mapping EXCEPT ![op] = n]
        /\ l_mapping[op] # NoFU => placeOp(State, op, n).mapping = l_mapping
    BY <2>1, <2>2, Place DEF State
  <2>4. l_mapping' = placeOp(State, op, n).mapping
    BY <2>2, <2>3, Becomes
  <2>5. Fits(l_mapping')
    BY <2>1, <2>2, <2>3, <2>4 DEF Supported, Fits, Placements
  <2>6. \A i \in DOMAIN Tail(todo) : Tail(todo)[i][2] \in canMapOp[Tail(todo)[i][1]]
    BY <1>2 DEF InitialPlace, Inv, Types, Supported
  <2> QED
    BY <1>2, <2>5, <2>6 DEF InitialPlace, Supported, Fits, clusterOf
<1>3. CASE InitialThrow \/ InitialSpin
  BY <1>3 DEF InitialThrow, InitialSpin, Throw, Supported, Fits, placement, clusterOf
<1> QED
  BY <1>1, <1>2, <1>3 DEF Setup

LEMMA SupportedPick ==
  ASSUME Supported, NEW c \in DOMAIN l_clusters, Pick(c)
  PROVE  Supported'
<1>1. \A i \in DOMAIN todo' : todo'[i][2] \in canMapOp[todo'[i][1]]
  BY ProposalsSupported DEF Pick
<1>2. Fits(old_placement')
  BY DEF Pick, Fits, Nowhere
<1> QED
  BY <1>1, <1>2 DEF Pick, Supported, Fits, placement, clusterOf

LEMMA SupportedMove ==
  ASSUME Inv, Uniform, Supported, Move
  PROVE  Supported'
<1>1. CASE MoveThrows
  BY <1>1 DEF MoveThrows, Throw, Supported, Fits, placement, clusterOf
<1>2. CASE ~MoveThrows
  <2>1. moving
    BY <1>2 DEF Move, MoveToFree, SwapWithItself, SwapOps, SwapCluster
  <2>2. /\ movingOp \in Ops /\ movingTo \in FUs /\ movingTo \in canMapOp[movingOp]
        /\ phase \in {"perturb", "trial"} /\ evicted = <<>>
        /\ l_mapping \in Placements /\ old_placement \in Placements
        /\ l_mapping[movingOp] \in FUs /\ l_mapping[movingOp] \in canMapOp[movingOp]
    BY <2>1 DEF moving, movingOp, movingTo, Inv, Types, Supported, Fits, Covered, running,
       isOpgraphCovered, Consistent, State, Placements
  <2>3. \A i \in DOMAIN Tail(todo) : Tail(todo)[i][2] \in canMapOp[Tail(todo)[i][1]]
    BY <2>1 DEF moving, Inv, Types, Supported
  <2>4. CASE MoveToFree
    <3>1. Fits(l_mapping')
      BY <2>2, <2>4, MoveFits DEF MoveToFree, Supported
    <3>2. Fits(old_placement')
      BY <2>2, <2>4, EmplaceFits DEF MoveToFree, Supported
    <3> QED
      BY <2>3, <2>4, <3>1, <3>2 DEF MoveToFree, Supported, Fits, clusterOf
  <2>5. CASE SwapOps
    <3>1. PICK second_op \in OpsMapedAt(movingTo) :
            /\ Len(clusterOf(second_op)) <= 1
            /\ old_placement' = emplace(emplace(old_placement, movingOp, l_mapping[movingOp]),
                                        second_op, movingTo)
            /\ Become(exchange(State, movingOp, movingTo, second_op, l_mapping[movingOp]))
      BY <2>5 DEF SwapOps
    <3>2. second_op \in Ops /\ l_mapping[second_op] = movingTo
      BY DEF OpsMapedAt
    <3>3. movingTo \in canMapOp[second_op]
      BY <2>2, <3>2, OpsAssumption DEF Supported, Fits
    <3>4. Len(clusterOf(second_op)) = 1
      <4>1. clusterOf(second_op) \in Seq(Ops) /\ clusterOf(second_op) # <<>>
        BY <3>2, ClusterAssumption DEF clusterOf
      <4> DEFINE length == Len(clusterOf(second_op))
      <4>2. length \in Nat \ {0}
        BY <4>1
      <4>3. length <= 1
        BY <3>1, Zenon
      <4> HIDE DEF length
      <4>4. length = 1
        BY <4>2, <4>3
      <4> QED
        BY <4>4 DEF length
    <3>5. canMapOp[movingOp] \subseteq canMapOp[second_op]
      BY <2>2, <3>2, <3>3, <3>4 DEF Uniform
    <3>6. Fits(l_mapping') /\ Fits(old_placement')
      BY <2>2, <3>1, <3>2, <3>5, ExchangeFits DEF Supported
    <3> QED
      BY <2>3, <2>5, <3>6 DEF SwapOps, Supported, Fits, clusterOf
  <2>6. CASE SwapWithItself
    BY <2>3, <2>6 DEF SwapWithItself, Supported, Fits, placement, clusterOf
  <2>7. CASE SwapCluster
    <3>1. PICK second_op \in OpsMapedAt(movingTo) :
            Len(clusterOf(second_op)) > 1 /\ evicted' = clusterOf(second_op)
      BY <2>7 DEF SwapCluster
    <3>2. l_op_cluster_index[second_op] \in DOMAIN l_clusters
      BY ClusterAssumption DEF OpsMapedAt
    <3>3. \A i \in DOMAIN evicted' : clusterOf(evicted'[i]) = clusterOf(second_op)
      BY <3>1, <3>2, IndexAssumption DEF clusterOf
    <3> QED
      BY <2>3, <2>7, <3>1, <3>3 DEF SwapCluster, Supported, Fits, placement, clusterOf
  <2> QED
    BY <1>2, <2>4, <2>5, <2>6, <2>7 DEF Move
<1> QED
  BY <1>1, <1>2

LEMMA SupportedEvict ==
  ASSUME Inv, Uniform, Supported, Evict
  PROVE  Supported'
<1>1. CASE EvictThrows
  BY <1>1 DEF EvictThrows, Throw, Supported, Fits, placement, clusterOf
<1>2. CASE ~EvictThrows
  <2>1. evicting
    BY <1>2 DEF Evict, EvictToFree, EvictBySwap
  <2>2. /\ evictedOp \in Ops /\ Len(clusterOf(evictedOp)) > 1
        /\ phase \in {"perturb", "trial"}
        /\ l_mapping \in Placements /\ old_placement \in Placements
        /\ l_mapping[evictedOp] \in FUs /\ l_mapping[evictedOp] \in canMapOp[evictedOp]
    BY <2>1 DEF evicting, evictedOp, Inv, Types, Supported, Fits, Covered, running,
       isOpgraphCovered, Consistent, State, Placements
  <2>3. \A i \in DOMAIN Tail(evicted) : Len(clusterOf(Tail(evicted)[i])) > 1
    BY <2>1 DEF evicting, Inv, Types, Supported
  <2>4. \A n \in getFUForOpAtLoc(evictedOp, home) : n \in FUs /\ n \in canMapOp[evictedOp]
    BY DEF getFUForOpAtLoc
  <2>5. CASE EvictToFree
    <3>1. PICK n \in getFUForOpAtLoc(evictedOp, home) : Become(moveOp(State, evictedOp, n))
      BY <2>5 DEF EvictToFree
    <3>2. Fits(l_mapping')
      BY <2>2, <2>4, <3>1, MoveFits DEF Supported
    <3>3. Fits(old_placement')
      BY <2>2, <2>5, EmplaceFits DEF EvictToFree, Supported
    <3> QED
      BY <2>3, <2>5, <3>2, <3>3 DEF EvictToFree, Supported, Fits, clusterOf
  <2>6. CASE EvictBySwap
    <3>1. PICK n \in getFUForOpAtLoc(evictedOp, home), s_op \in Ops :
            /\ s_op \in OpsMapedAt(n)
            /\ old_placement' = emplace(emplace(old_placement, evictedOp, l_mapping[evictedOp]), s_op, n)
            /\ Become(exchange(State, evictedOp, n, s_op, l_mapping[evictedOp]))
      BY <2>6 DEF EvictBySwap, OpsMapedAt
    <3>2. l_mapping[s_op] = n
      BY <3>1 DEF OpsMapedAt
    <3>3. n \in canMapOp[s_op]
      BY <2>4, <3>2, OpsAssumption DEF Supported, Fits
    <3>4. canMapOp[evictedOp] \subseteq canMapOp[s_op]
      BY <2>2, <2>4, <3>3 DEF Uniform
    <3>5. Fits(l_mapping') /\ Fits(old_placement')
      BY <2>2, <2>4, <3>1, <3>2, <3>4, ExchangeFits DEF Supported
    <3> QED
      BY <2>3, <2>6, <3>5 DEF EvictBySwap, Supported, Fits, clusterOf
  <2> QED
    BY <1>2, <2>5, <2>6 DEF Evict
<1> QED
  BY <1>1, <1>2

LEMMA SupportedDecide ==
  ASSUME Inv, Supported, Decide
  PROVE  Supported'
<1>1. CASE Accept \/ Reject \/ Restored \/ EndIteration
  BY <1>1 DEF Accept, Reject, Restored, EndIteration, Supported, Fits, placement, clusterOf
<1>2. ASSUME NEW op \in Ops, Restore(op)
      PROVE  Supported'
  <2> DEFINE n == old_placement[op]
  <2>1. n \in FUs /\ n \in canMapOp[op] /\ old_placement \in Placements
    BY <1>2 DEF Restore, Inv, Types, Placements, Supported, Fits
  <2>2. Fits(l_mapping')
    BY <1>2, <2>1, MoveFits DEF Restore, Supported
  <2>3. Fits(old_placement')
    BY <1>2, <2>1 DEF Restore, Supported, Fits, Placements
  <2> QED
    BY <1>2, <2>2, <2>3 DEF Restore, Supported, Fits, clusterOf
<1> QED
  BY <1>1, <1>2 DEF Decide

LEMMA SupportedNext == Inv /\ UniformInv /\ [Next]_vars => UniformInv'
<1> SUFFICES ASSUME Inv, UniformInv, [Next]_vars, Uniform'
             PROVE  Supported'
  BY DEF UniformInv
<1>1. canMapOp' = canMapOp
  BY DEF Next, vars, Setup, Move, Evict, Decide, Throw,
     InitialChoose, InitialPlace, InitialThrow, InitialSpin, StartPerturbing, StartAnnealing, Pick,
     MoveToFree, MoveThrows, SwapWithItself, SwapOps, SwapCluster, EvictThrows, EvictToFree,
     EvictBySwap, Accept, Reject, Restore, Restored, EndIteration, Stopped
<1>2. Uniform /\ Supported
  BY <1>1 DEF UniformInv, Uniform, clusterOf
<1>3. CASE UNCHANGED vars \/ Stopped \/ StartPerturbing \/ StartAnnealing
  BY <1>2, <1>3 DEF vars, Stopped, StartPerturbing, StartAnnealing, Supported, Fits, placement, clusterOf
<1> QED
  BY <1>2, <1>3, SupportedSetup, SupportedPick, SupportedMove, SupportedEvict, SupportedDecide DEF Next

(* Wherever an op that is displaced can go where the op that takes its     *)
(* place can, a placement that is returned puts every op on an FU that can *)
(* execute it.                                                             *)
THEOREM PlacementsSupported == Spec => []UniformSupportsOp
<1>1. Inv /\ UniformInv => UniformSupportsOp
  BY DEF Inv, UniformInv, UniformSupportsOp, FUSupportsOp, Supported, Fits, Covered, running,
     isOpgraphCovered
<1> QED
  BY <1>1, SupportedInit, SupportedNext, Invariance, PTL DEF Spec

-------------------------------------------------------------------------------
(* Where the ops that are fixed are alone, they are never moved by choice, *)
(* and no other op is, was or is about to be at a port one is fixed to, so *)
(* that none can displace it there.                                        *)
Ports == l_fixed_mrrg_nodes

PortsKept(mapping, old) ==
  \A op \in Ops : IF isFixed(op) THEN mapping[op] \in Ports => old[op] = NoFU
                  ELSE mapping[op] \notin Ports /\ old[op] \notin Ports

Guarded ==
  /\ running => \A i \in DOMAIN todo : ~isFixed(todo[i][1])
  /\ \A i \in DOMAIN todo : isFixed(todo[i][1]) \/ todo[i][2] \notin Ports
  /\ \A i \in DOMAIN evicted : ~isFixed(evicted[i])
  /\ phase = "initial" => old_placement = Nowhere
  /\ PortsKept(l_mapping, old_placement)

GuardedInv == FixedAreAlone => Guarded

Stay ==
  \A op \in Ops : isFixed(op) /\ l_mapping[op] = l_fix_ports[op] => l_mapping'[op] = l_mapping[op]

LEMMA PortFacts ==
  /\ NoFU \notin Ports
  /\ \A op \in Ops : isFixed(op) => l_fix_ports[op] \in Ports
BY DEF Ports, l_fixed_mrrg_nodes, isFixed

LEMMA ProposalsGuarded ==
  ASSUME NEW c \in DOMAIN l_clusters, NEW occupied,
         NEW fus \in getRandomFUs(l_clusters[c], occupied)
  PROVE  /\ \A i \in DOMAIN Moves(l_clusters[c], fus) :
              \/ isFixed(Moves(l_clusters[c], fus)[i][1])
              \/ Moves(l_clusters[c], fus)[i][2] \notin Ports
         /\ ~isClusterFixed(l_clusters[c]) =>
              \A i \in DOMAIN Moves(l_clusters[c], fus) : ~isFixed(Moves(l_clusters[c], fus)[i][1])
BY DEF getRandomFUs, getFUForOpAtLoc, Moves, Ports, isClusterFixed

LEMMA MoveGuarded ==
  ASSUME Inv, PortsKept(l_mapping, old_placement), NEW op \in Ops, ~isFixed(op),
         NEW n \in FUs, n \notin Ports, Become(moveOp(State, op, n)),
         old_placement' = emplace(old_placement, op, l_mapping[op])
  PROVE  PortsKept(l_mapping', old_placement') /\ Stay
<1>1. Consistent(State) /\ l_mapping \in Placements /\ old_placement \in Placements
  BY DEF Inv, Types, Consistent, State
<1>2. /\ Consistent(moveOp(State, op, n))
      /\ moveOp(State, op, n).mapping = [State.mapping EXCEPT ![op] = n]
  BY <1>1, MoveOp
<1>3. l_mapping' = [l_mapping EXCEPT ![op] = n]
  BY <1>2, Becomes DEF State
<1>4. Stay
  BY <1>1, <1>3 DEF Stay, Placements
<1>5. PortsKept(l_mapping', old_placement')
  BY <1>1, <1>3 DEF PortsKept, emplace, Placements
<1> QED
  BY <1>4, <1>5

LEMMA ExchangeGuarded ==
  ASSUME Inv, phase \in {"perturb", "trial"}, PortsKept(l_mapping, old_placement),
         NEW op \in Ops, ~isFixed(op), NEW n \in FUs, n \notin Ports,
         NEW other \in Ops, l_mapping[other] = n,
         Become(exchange(State, op, n, other, l_mapping[op])),
         old_placement' = emplace(emplace(old_placement, op, l_mapping[op]), other, n)
  PROVE  PortsKept(l_mapping', old_placement') /\ Stay
<1> DEFINE m == l_mapping[op]
<1>1. Consistent(State) /\ l_mapping \in Placements /\ old_placement \in Placements
  BY DEF Inv, Types, Consistent, State
<1>2. m \in FUs /\ m \notin Ports
  BY <1>1 DEF Inv, Covered, running, isOpgraphCovered, Placements, PortsKept
<1>3. /\ Consistent(exchange(State, op, n, other, m))
      /\ op # other => exchange(State, op, n, other, m).mapping
                         = [State.mapping EXCEPT ![op] = n, ![other] = m]
      /\ op = other => exchange(State, op, n, other, m).mapping = [State.mapping EXCEPT ![op] = n]
  BY <1>1, <1>2, Exchange
<1>4. /\ op # other => l_mapping' = [l_mapping EXCEPT ![op] = n, ![other] = m]
      /\ op = other => l_mapping' = [l_mapping EXCEPT ![op] = n]
  BY <1>3, Becomes DEF State
<1>5. Stay
  BY <1>1, <1>4, PortFacts DEF Stay, Placements
<1>6. \A o \in Ops : l_mapping'[o] # l_mapping[o] => l_mapping'[o] \notin Ports
  BY <1>1, <1>2, <1>4 DEF Placements
<1>7. \A o \in Ops : \/ old_placement'[o] = old_placement[o]
                      \/ /\ o \in {op, other} /\ old_placement'[o] \notin Ports
                         /\ l_mapping'[o] \notin Ports
  <2>1. emplace(old_placement, op, m) \in Placements
    BY <1>1, <1>2, EmplaceType
  <2>2. \A o \in Ops : emplace(old_placement, op, m)[o] = old_placement[o]
                        \/ (o = op /\ emplace(old_placement, op, m)[o] = m)
    BY <1>1 DEF emplace, Placements
  <2>3. \A o \in Ops : old_placement'[o] = emplace(old_placement, op, m)[o]
                        \/ (o = other /\ old_placement'[o] = n)
    BY <2>1 DEF emplace, Placements
  <2>4. l_mapping'[op] \notin Ports /\ l_mapping'[other] \notin Ports
    BY <1>1, <1>2, <1>4 DEF Placements
  <2> QED
    BY <1>2, <2>2, <2>3, <2>4
<1>8. PortsKept(l_mapping', old_placement')
  BY <1>6, <1>7 DEF PortsKept
<1> QED
  BY <1>5, <1>8

LEMMA GuardedInit == Init => GuardedInv
<1> SUFFICES ASSUME Init PROVE Guarded
  BY DEF GuardedInv
<1>1. /\ l_mapping = Nowhere /\ old_placement = Nowhere /\ todo = <<>> /\ evicted = <<>>
      /\ phase = "initial"
  BY DEF Init
<1>2. PortsKept(Nowhere, Nowhere)
  BY PortFacts DEF PortsKept, Nowhere
<1> QED
  BY <1>1, <1>2 DEF Guarded, running

LEMMA GuardedSetup ==
  ASSUME Inv, Guarded, Setup
  PROVE  Guarded' /\ Stay
<1>1. CASE InitialChoose
  <2>1. placed_clusters + 1 \in DOMAIN l_clusters
    BY <1>1, ClusterAssumption DEF InitialChoose, Inv, Types
  <2>2. PICK fus \in getRandomFUs(nextCluster, FALSE) : todo' = Moves(nextCluster, fus)
    BY <1>1 DEF InitialChoose
  <2>3. \A i \in DOMAIN todo' : isFixed(todo'[i][1]) \/ todo'[i][2] \notin Ports
    BY <2>1, <2>2, ProposalsGuarded DEF nextCluster
  <2> QED
    BY <1>1, <2>3 DEF InitialChoose, Guarded, PortsKept, Stay, placement, running
<1>2. CASE InitialPlace
  <2> DEFINE op == Head(todo)[1]
             n == Head(todo)[2]
  <2>1. op \in Ops /\ n \in FUs /\ (isFixed(op) \/ n \notin Ports)
    BY <1>2 DEF InitialPlace, Inv, Types, Guarded
  <2>2. Consistent(State) /\ Become(placeOp(State, op, n)) /\ l_mapping \in Placements
    BY <1>2 DEF InitialPlace, Inv, Types, Consistent, State
  <2>3. /\ Consistent(placeOp(State, op, n))
        /\ l_mapping[op] = NoFU => placeOp(State, op, n).mapping = [l_mapping EXCEPT ![op] = n]
        /\ l_mapping[op] # NoFU => placeOp(State, op, n).mapping = l_mapping
    BY <2>1, <2>2, Place DEF State
  <2>4. l_mapping' = placeOp(State, op, n).mapping
    BY <2>2, <2>3, Becomes
  <2>5. Stay
    BY <2>2, <2>3, <2>4, PortFacts DEF Stay, Placements
  <2>6. old_placement = Nowhere /\ old_placement' = Nowhere
    BY <1>2 DEF InitialPlace, Guarded
  <2>7. PortsKept(l_mapping', old_placement')
    BY <2>1, <2>2, <2>3, <2>4, <2>6, PortFacts DEF Guarded, PortsKept, Placements, Nowhere
  <2>8. \A i \in DOMAIN Tail(todo) : isFixed(Tail(todo)[i][1]) \/ Tail(todo)[i][2] \notin Ports
    BY <1>2 DEF InitialPlace, Inv, Types, Guarded
  <2>9. ~running'
    BY <1>2 DEF InitialPlace, running
  <2> QED
    BY <1>2, <2>5, <2>6, <2>7, <2>8, <2>9 DEF InitialPlace, Guarded, PortsKept
<1>3. CASE InitialThrow \/ InitialSpin
  BY <1>3 DEF InitialThrow, InitialSpin, Throw, Guarded, PortsKept, Stay, placement, running
<1> QED
  BY <1>1, <1>2, <1>3 DEF Setup

LEMMA GuardedPick ==
  ASSUME Guarded, NEW c \in DOMAIN l_clusters, Pick(c)
  PROVE  Guarded' /\ Stay
<1>1. \A i \in DOMAIN todo' : ~isFixed(todo'[i][1]) /\ todo'[i][2] \notin Ports
  BY ProposalsGuarded DEF Pick
<1>2. PortsKept(l_mapping', old_placement')
  BY PortFacts DEF Pick, Guarded, PortsKept, Nowhere, placement
<1>3. phase' # "initial"
  BY DEF Pick
<1> QED
  BY <1>1, <1>2, <1>3 DEF Pick, Guarded, PortsKept, Stay, placement, running

LEMMA GuardedMove ==
  ASSUME Inv, FixedAreAlone, Guarded, Move
  PROVE  Guarded' /\ Stay
<1>1. CASE MoveThrows
  BY <1>1 DEF MoveThrows, Throw, Guarded, PortsKept, Stay, placement, running
<1>2. CASE ~MoveThrows
  <2>1. moving
    BY <1>2 DEF Move, MoveToFree, SwapWithItself, SwapOps, SwapCluster
  <2>2. /\ movingOp \in Ops /\ movingTo \in FUs
        /\ ~isFixed(movingOp) /\ movingTo \notin Ports
        /\ phase \in {"perturb", "trial"} /\ evicted = <<>>
    BY <2>1 DEF moving, movingOp, movingTo, Inv, Types, Guarded, running
  <2>3. \A i \in DOMAIN Tail(todo) : ~isFixed(Tail(todo)[i][1]) /\ Tail(todo)[i][2] \notin Ports
    BY <2>1, <2>2 DEF moving, Inv, Types, Guarded, running
  <2>4. CASE MoveToFree
    <3>1. PortsKept(l_mapping', old_placement') /\ Stay
      BY <2>2, <2>4, MoveGuarded DEF MoveToFree, Guarded
    <3> QED
      BY <2>2, <2>3, <2>4, <3>1 DEF MoveToFree, Guarded, PortsKept
  <2>5. CASE SwapOps
    <3>1. PICK second_op \in OpsMapedAt(movingTo) :
            /\ old_placement' = emplace(emplace(old_placement, movingOp, l_mapping[movingOp]),
                                        second_op, movingTo)
            /\ Become(exchange(State, movingOp, movingTo, second_op, l_mapping[movingOp]))
      BY <2>5 DEF SwapOps
    <3>2. second_op \in Ops /\ l_mapping[second_op] = movingTo
      BY DEF OpsMapedAt
    <3>3. PortsKept(l_mapping', old_placement') /\ Stay
      BY <2>2, <3>1, <3>2, ExchangeGuarded DEF Guarded
    <3> QED
      BY <2>2, <2>3, <2>5, <3>3 DEF SwapOps, Guarded, PortsKept
  <2>6. CASE SwapWithItself
    BY <2>2, <2>3, <2>6 DEF SwapWithItself, Guarded, PortsKept, Stay, placement
  <2>7. CASE SwapCluster
    <3>1. PICK second_op \in OpsMapedAt(movingTo) :
            Len(clusterOf(second_op)) > 1 /\ evicted' = clusterOf(second_op)
      BY <2>7 DEF SwapCluster
    <3>2. l_op_cluster_index[second_op] \in DOMAIN l_clusters
      BY ClusterAssumption DEF OpsMapedAt
    <3>3. \A i \in DOMAIN evicted' : /\ evicted'[i] \in Ops
                                     /\ clusterOf(evicted'[i]) = clusterOf(second_op)
      BY <3>1, <3>2, IndexAssumption, ClusterAssumption DEF clusterOf
    <3>4. ASSUME NEW i \in DOMAIN evicted' PROVE ~isFixed(evicted'[i])
      <4> DEFINE length == Len(clusterOf(second_op))
      <4>1. length > 1
        BY <3>1, Zenon
      <4> HIDE DEF length
      <4>2. length # 1
        BY <4>1
      <4> QED
        BY <3>3, <4>2 DEF FixedAreAlone, length
    <3> QED
      BY <2>2, <2>3, <2>7, <3>4 DEF SwapCluster, Guarded, PortsKept, Stay, placement
  <2> QED
    BY <1>2, <2>4, <2>5, <2>6, <2>7 DEF Move
<1> QED
  BY <1>1, <1>2

LEMMA GuardedEvict ==
  ASSUME Inv, Guarded, Evict
  PROVE  Guarded' /\ Stay
<1>1. CASE EvictThrows
  BY <1>1 DEF EvictThrows, Throw, Guarded, PortsKept, Stay, placement, running
<1>2. CASE ~EvictThrows
  <2>1. evicting
    BY <1>2 DEF Evict, EvictToFree, EvictBySwap
  <2>2. evictedOp \in Ops /\ ~isFixed(evictedOp) /\ phase \in {"perturb", "trial"}
    BY <2>1 DEF evicting, evictedOp, Inv, Types, Guarded
  <2>3. \A i \in DOMAIN Tail(evicted) : ~isFixed(Tail(evicted)[i])
    BY <2>1 DEF evicting, Inv, Types, Guarded
  <2>4. \A n \in getFUForOpAtLoc(evictedOp, home) : n \in FUs /\ n \notin Ports
    BY <2>2 DEF getFUForOpAtLoc, Ports
  <2>5. CASE EvictToFree
    <3>1. PICK n \in getFUForOpAtLoc(evictedOp, home) : Become(moveOp(State, evictedOp, n))
      BY <2>5 DEF EvictToFree
    <3>2. PortsKept(l_mapping', old_placement') /\ Stay
      BY <2>2, <2>4, <2>5, <3>1, MoveGuarded DEF EvictToFree, Guarded
    <3> QED
      BY <2>2, <2>3, <2>5, <3>2 DEF EvictToFree, Guarded, PortsKept, running
  <2>6. CASE EvictBySwap
    <3>1. PICK n \in getFUForOpAtLoc(evictedOp, home), s_op \in Ops :
            /\ s_op \in OpsMapedAt(n)
            /\ old_placement' = emplace(emplace(old_placement, evictedOp, l_mapping[evictedOp]), s_op, n)
            /\ Become(exchange(State, evictedOp, n, s_op, l_mapping[evictedOp]))
      BY <2>6 DEF EvictBySwap, OpsMapedAt
    <3>2. l_mapping[s_op] = n
      BY <3>1 DEF OpsMapedAt
    <3>3. PortsKept(l_mapping', old_placement') /\ Stay
      BY <2>2, <2>4, <3>1, <3>2, ExchangeGuarded DEF Guarded
    <3> QED
      BY <2>2, <2>3, <2>6, <3>3 DEF EvictBySwap, Guarded, PortsKept, running
  <2> QED
    BY <1>2, <2>5, <2>6 DEF Evict
<1> QED
  BY <1>1, <1>2

LEMMA GuardedDecide ==
  ASSUME Inv, Guarded, Decide
  PROVE  Guarded' /\ Stay
<1>1. CASE Accept \/ Reject \/ Restored \/ EndIteration
  BY <1>1 DEF Accept, Reject, Restored, EndIteration, Guarded, PortsKept, Stay, placement, running
<1>2. ASSUME NEW op \in Ops, Restore(op)
      PROVE  Guarded' /\ Stay
  <2> DEFINE n == old_placement[op]
  <2>1. n \in FUs /\ l_mapping \in Placements /\ old_placement \in Placements /\ Consistent(State)
    BY <1>2 DEF Restore, Inv, Types, Placements, Consistent, State
  <2>2. /\ Consistent(moveOp(State, op, n))
        /\ moveOp(State, op, n).mapping = [State.mapping EXCEPT ![op] = n]
    BY <2>1, MoveOp
  <2>3. Become(moveOp(State, op, n))
    BY <1>2 DEF Restore
  <2>4. l_mapping' = [l_mapping EXCEPT ![op] = n]
    BY <2>2, <2>3, Becomes DEF State
  <2>5. n # NoFU /\ old_placement' = [old_placement EXCEPT ![op] = NoFU]
    BY <1>2 DEF Restore
  <2>6. Stay
    BY <2>1, <2>4, <2>5, PortFacts DEF Stay, Guarded, PortsKept, Placements
  <2>7. PortsKept(l_mapping', old_placement')
    BY <2>1, <2>4, <2>5, PortFacts DEF Guarded, PortsKept, Placements
  <2> QED
    BY <1>2, <2>6, <2>7 DEF Restore, Guarded, PortsKept, running
<1> QED
  BY <1>1, <1>2 DEF Decide

LEMMA GuardedNext ==
  ASSUME Inv, GuardedInv, [Next]_vars
  PROVE  GuardedInv' /\ (FixedAreAlone => Stay)
<1>1. FixedAreAlone' = FixedAreAlone
  BY DEF FixedAreAlone, isFixed, clusterOf
<1> SUFFICES ASSUME FixedAreAlone PROVE Guarded' /\ Stay
  BY <1>1 DEF GuardedInv
<1>2. Guarded
  BY DEF GuardedInv
<1>3. CASE UNCHANGED vars \/ Stopped
  BY <1>2, <1>3 DEF vars, Stopped, Guarded, PortsKept, Stay, placement, running
<1>4. CASE StartPerturbing \/ StartAnnealing
  BY <1>2, <1>4 DEF StartPerturbing, StartAnnealing, Guarded, PortsKept, Stay, placement, running
<1> QED
  BY <1>2, <1>3, <1>4, GuardedSetup, GuardedPick, GuardedMove, GuardedEvict, GuardedDecide DEF Next

(* Where the ops that are fixed are alone in their clusters, one that is   *)
(* at its port stays there.                                                *)
THEOREM FixedStay == Spec => LoneFixedOpsStay
<1>1. Inv /\ GuardedInv /\ [Next]_vars =>
        [\A op \in Ops : FixedAreAlone /\ isFixed(op) /\ l_mapping[op] = l_fix_ports[op]
           => l_mapping'[op] = l_mapping[op]]_vars
  BY GuardedNext DEF Stay
<1>2. Inv /\ GuardedInv /\ [Next]_vars => GuardedInv'
  BY GuardedNext
<1> QED
  BY <1>1, <1>2, GuardedInit, Invariance, PTL DEF Spec, LoneFixedOpsStay

-------------------------------------------------------------------------------
(* A cluster of several ops that do not compete stays at one location when *)
(* no other cluster has several: its ops are, or are about to be, at one,  *)
(* the evicted ones at home; no op can displace one of them alone; and a   *)
(* move that is rejected began with them together.                         *)
Members(c) == {l_clusters[c][i] : i \in DOMAIN l_clusters[c]}

Lone(c) ==
  /\ c \in DOMAIN l_clusters /\ Len(l_clusters[c]) > 1 /\ ~Competing(l_clusters[c])
  /\ \A d \in DOMAIN l_clusters \ {c} : ~(Len(l_clusters[d]) > 1)

Gathered(c, loc) ==
  /\ \A op \in Members(c) :
       \/ l_mapping[op] = NoFU
       \/ Location[l_mapping[op]] = loc
       \/ \E k \in DOMAIN todo : todo[k][1] = op
       \/ \E k \in DOMAIN evicted : evicted[k] = op
  /\ \A k \in DOMAIN todo : todo[k][1] \in Members(c) => Location[todo[k][2]] = loc
  /\ evicted # <<>> => home = loc

MembersFit(c) ==
  /\ \A op \in Members(c) : l_mapping[op] \in canMapOp[op] \cup {NoFU}
  /\ \A k \in DOMAIN todo : todo[k][2] \in canMapOp[todo[k][1]]
  /\ \A k, m \in DOMAIN todo : l_op_cluster_index[todo[k][1]] = l_op_cluster_index[todo[m][1]]
  /\ \A k \in DOMAIN evicted : evicted[k] \in Members(c)

BeganTogether(c) ==
  \E loc : \A op \in Members(c) : Location[before[op]] = loc /\ before[op] \in canMapOp[op]

TogetherInv(c) ==
  /\ phase \in {"initial", "perturb", "anneal", "trial", "placed"} =>
       (\E loc : Gathered(c, loc)) /\ MembersFit(c)
  /\ phase \in {"trial", "restore"} => BeganTogether(c)
  /\ phase \in {"anneal", "restore", "placed"} => idle
  /\ phase = "initial" =>
       /\ evicted = <<>>
       /\ \A op \in Ops : l_mapping[op] # NoFU => l_op_cluster_index[op] <= placed_clusters
       /\ \A k \in DOMAIN todo : l_op_cluster_index[todo[k][1]] <= placed_clusters

LoneInv == \A c : Lone(c) => TogetherInv(c)

(* Every op is in the cluster that the index names, and in no other.       *)
LEMMA InCluster ==
  ASSUME NEW op \in Ops, NEW c \in DOMAIN l_clusters
  PROVE  /\ l_op_cluster_index[op] \in DOMAIN l_clusters
         /\ op \in Members(l_op_cluster_index[op])
         /\ op \in Members(c) <=> l_op_cluster_index[op] = c
         /\ Members(c) \subseteq Ops
<1>1. l_op_cluster_index[op] \in DOMAIN l_clusters /\ l_clusters[c] \in Seq(Ops)
  BY ClusterAssumption
<1>2. PICK d \in DOMAIN l_clusters : \E i \in DOMAIN l_clusters[d] : l_clusters[d][i] = op
  BY CoverAssumption
<1>3. l_op_cluster_index[op] = d /\ op \in Members(d)
  BY <1>2, IndexAssumption DEF Members
<1>4. op \in Members(c) => l_op_cluster_index[op] = c
  BY IndexAssumption DEF Members
<1> QED
  BY <1>1, <1>3, <1>4 DEF Members

(* Two ops of a lone cluster have no FU in common.                         *)
LEMMA NotShared ==
  ASSUME NEW c, Lone(c), NEW p \in Members(c), NEW q \in Members(c), p # q, NEW n,
         n \in canMapOp[p], n \in canMapOp[q]
  PROVE  FALSE
BY DEF Lone, Competing, Members

(* It is the one that can be evicted.                                      *)
LEMMA OnlyCluster ==
  ASSUME NEW c, Lone(c), NEW op \in Ops
  PROVE  /\ op \in Members(c) => clusterOf(op) = l_clusters[c] /\ Len(clusterOf(op)) > 1
         /\ Len(clusterOf(op)) > 1 => op \in Members(c) /\ clusterOf(op) = l_clusters[c]
<1>1. c \in DOMAIN l_clusters /\ Len(l_clusters[c]) > 1
  BY DEF Lone
<1>2. op \in Members(c) => l_op_cluster_index[op] = c
  BY <1>1, InCluster
<1>3. ASSUME Len(clusterOf(op)) > 1 PROVE op \in Members(c) /\ clusterOf(op) = l_clusters[c]
  <2>1. l_op_cluster_index[op] \in DOMAIN l_clusters
    BY <1>1, InCluster
  <2>2. l_op_cluster_index[op] = c
    BY <1>3, <2>1 DEF Lone, clusterOf
  <2> QED
    BY <1>1, <2>2, InCluster DEF clusterOf
<1> QED
  BY <1>1, <1>2, <1>3 DEF clusterOf

LEMMA TailElements ==
  ASSUME NEW S, NEW s \in Seq(S), s # <<>>
  PROVE  \A k \in DOMAIN Tail(s) : \E m \in DOMAIN s : Tail(s)[k] = s[m]
<1>1. ASSUME NEW k \in DOMAIN Tail(s) PROVE k + 1 \in DOMAIN s /\ Tail(s)[k] = s[k + 1]
  BY <1>1
<1> QED
  BY <1>1

LEMMA TailKeeps ==
  ASSUME NEW S, NEW s \in Seq(S), s # <<>>, NEW k \in DOMAIN s
  PROVE  s[k] = Head(s) \/ \E m \in DOMAIN Tail(s) : Tail(s)[m] = s[k]
<1>1. k # 1 => k - 1 \in DOMAIN Tail(s) /\ Tail(s)[k - 1] = s[k]
  OBVIOUS
<1>2. k = 1 => s[k] = Head(s)
  OBVIOUS
<1> QED
  BY <1>1, <1>2

(* One op has been placed at its destination.                              *)
Arrives(c, loc, op, n) ==
  /\ op \in Members(c) => Location[n] = loc /\ n \in canMapOp[op]
  /\ \A o \in Members(c) : l_mapping'[o] = IF o = op THEN n ELSE l_mapping[o]
  /\ canMapOp' = canMapOp /\ home' = home
  /\ \/ todo # <<>> /\ Head(todo)[1] = op /\ todo' = Tail(todo) /\ evicted' = evicted
     \/ evicted # <<>> /\ Head(evicted) = op /\ evicted' = Tail(evicted) /\ todo' = todo

LEMMA Gathers ==
  ASSUME NEW c, NEW loc, Gathered(c, loc), MembersFit(c),
         todo \in Seq(Ops \X FUs), evicted \in Seq(Ops), NEW op, NEW n, Arrives(c, loc, op, n)
  PROVE  Gathered(c, loc)' /\ MembersFit(c)'
<1> /\ op \in Members(c) => Location[n] = loc /\ n \in canMapOp[op]
    /\ \A o \in Members(c) : l_mapping'[o] = IF o = op THEN n ELSE l_mapping[o]
    /\ canMapOp' = canMapOp /\ home' = home
    /\ \/ todo # <<>> /\ Head(todo)[1] = op /\ todo' = Tail(todo) /\ evicted' = evicted
       \/ evicted # <<>> /\ Head(evicted) = op /\ evicted' = Tail(evicted) /\ todo' = todo
  BY DEF Arrives
<1>1. /\ todo' = todo \/ (todo # <<>> /\ todo' = Tail(todo) /\ Head(todo)[1] = op)
      /\ evicted' = evicted \/ (evicted # <<>> /\ evicted' = Tail(evicted) /\ Head(evicted) = op)
  OBVIOUS
<1>2. /\ \A k \in DOMAIN todo' : \E m \in DOMAIN todo : todo'[k] = todo[m]
      /\ \A k \in DOMAIN todo : todo[k][1] = op \/ \E m \in DOMAIN todo' : todo'[m] = todo[k]
  <2>1. CASE todo' = todo
    BY <2>1
  <2>2. CASE todo # <<>> /\ todo' = Tail(todo) /\ Head(todo)[1] = op
    <3>1. \A k \in DOMAIN Tail(todo) : \E m \in DOMAIN todo : Tail(todo)[k] = todo[m]
      BY ONLY todo \in Seq(Ops \X FUs), <2>2, TailElements
    <3>2. \A k \in DOMAIN todo : todo[k] = Head(todo) \/ \E m \in DOMAIN Tail(todo) : Tail(todo)[m] = todo[k]
      BY ONLY todo \in Seq(Ops \X FUs), <2>2, TailKeeps
    <3> QED
      BY ONLY <2>2, <3>1, <3>2
  <2> QED
    BY <1>1, <2>1, <2>2
<1>3. \A k \in DOMAIN evicted : evicted[k] = op \/ \E m \in DOMAIN evicted' : evicted'[m] = evicted[k]
  <2>1. CASE evicted' = evicted
    BY <2>1
  <2>2. CASE evicted # <<>> /\ evicted' = Tail(evicted) /\ Head(evicted) = op
    <3>1. \A k \in DOMAIN evicted :
            evicted[k] = Head(evicted) \/ \E m \in DOMAIN Tail(evicted) : Tail(evicted)[m] = evicted[k]
      BY ONLY evicted \in Seq(Ops), <2>2, TailKeeps
    <3> QED
      BY ONLY <2>2, <3>1
  <2> QED
    BY <1>1, <2>1, <2>2
<1>3a. /\ \A k \in DOMAIN evicted' : \E m \in DOMAIN evicted : evicted'[k] = evicted[m]
       /\ evicted' # <<>> => evicted # <<>>
  <2>1. CASE evicted' = evicted
    BY <2>1
  <2>2. CASE evicted # <<>> /\ evicted' = Tail(evicted) /\ Head(evicted) = op
    <3>1. \A k \in DOMAIN Tail(evicted) : \E m \in DOMAIN evicted : Tail(evicted)[k] = evicted[m]
      BY ONLY evicted \in Seq(Ops), <2>2, TailElements
    <3> QED
      BY ONLY <2>2, <3>1
  <2> QED
    BY <1>1, <2>1, <2>2
<1>4. Members(c)' = Members(c)
  BY DEF Members
<1>5. ASSUME NEW o \in Members(c)
      PROVE  \/ l_mapping'[o] = NoFU
             \/ Location[l_mapping'[o]] = loc
             \/ \E k \in DOMAIN todo' : todo'[k][1] = o
             \/ \E k \in DOMAIN evicted' : evicted'[k] = o
  <2>1. CASE o = op
    BY <2>1
  <2>2. CASE o # op
    <3>1. \/ l_mapping[o] = NoFU
          \/ Location[l_mapping[o]] = loc
          \/ \E k \in DOMAIN todo : todo[k][1] = o
          \/ \E k \in DOMAIN evicted : evicted[k] = o
      BY DEF Gathered
    <3>2. (\E k \in DOMAIN todo : todo[k][1] = o) => \E k \in DOMAIN todo' : todo'[k][1] = o
      BY ONLY <1>2, <2>2
    <3>3. (\E k \in DOMAIN evicted : evicted[k] = o) => \E k \in DOMAIN evicted' : evicted'[k] = o
      BY ONLY <1>3, <2>2
    <3>4. l_mapping'[o] = l_mapping[o]
      BY <2>2
    <3> QED
      BY ONLY <3>1, <3>2, <3>3, <3>4
  <2> QED
    BY <2>1, <2>2
<1>6. \A k \in DOMAIN todo' : todo'[k][1] \in Members(c) => Location[todo'[k][2]] = loc
  BY <1>2 DEF Gathered
<1>7. Gathered(c, loc)'
  BY <1>3a, <1>4, <1>5, <1>6 DEF Gathered
<1>8. \A o \in Members(c) : l_mapping'[o] \in canMapOp'[o] \cup {NoFU}
  BY DEF MembersFit
<1>9. /\ \A k \in DOMAIN todo' : todo'[k][2] \in canMapOp[todo'[k][1]]
      /\ \A k, m \in DOMAIN todo' : l_op_cluster_index[todo'[k][1]] = l_op_cluster_index[todo'[m][1]]
      /\ \A k \in DOMAIN evicted' : evicted'[k] \in Members(c)
  <2>1. \A k \in DOMAIN todo' : todo'[k][2] \in canMapOp[todo'[k][1]]
    BY ONLY MembersFit(c), <1>2 DEF MembersFit
  <2>2. \A k, m \in DOMAIN todo' : l_op_cluster_index[todo'[k][1]] = l_op_cluster_index[todo'[m][1]]
    BY ONLY MembersFit(c), <1>2 DEF MembersFit
  <2>3. \A k \in DOMAIN evicted' : evicted'[k] \in Members(c)
    BY ONLY MembersFit(c), <1>3a DEF MembersFit
  <2> QED
    BY <2>1, <2>2, <2>3
<1>10. MembersFit(c)'
  <2>1. \A o \in Members(c)' : l_mapping'[o] \in canMapOp'[o] \cup {NoFU}
    BY <1>4, <1>8
  <2>2. \A k \in DOMAIN todo' : todo'[k][2] \in canMapOp'[todo'[k][1]]
    BY <1>9
  <2>3. \A k \in DOMAIN evicted' : evicted'[k] \in Members(c)'
    BY <1>4, <1>9
  <2> QED
    BY ONLY <1>9, <2>1, <2>2, <2>3 DEF MembersFit
<1> QED
  BY <1>7, <1>10

(* What a move and an exchange do to the places of the ops.                *)
LEMMA Moved ==
  ASSUME Inv, NEW op \in Ops, NEW n \in FUs, Become(moveOp(State, op, n))
  PROVE  l_mapping' = [l_mapping EXCEPT ![op] = n] /\ l_mapping \in Placements
<1>1. Consistent(State) /\ l_mapping \in Placements
  BY DEF Inv, Types, Consistent, State
<1>2. /\ Consistent(moveOp(State, op, n))
      /\ moveOp(State, op, n).mapping = [State.mapping EXCEPT ![op] = n]
  BY <1>1, MoveOp
<1> QED
  BY <1>1, <1>2, Becomes DEF State

LEMMA Exchanged ==
  ASSUME Inv, NEW op \in Ops, NEW n \in FUs, NEW other \in Ops, NEW m \in FUs,
         Become(exchange(State, op, n, other, m))
  PROVE  /\ l_mapping \in Placements
         /\ l_mapping'[op] = n
         /\ \A o \in Ops \ {op, other} : l_mapping'[o] = l_mapping[o]
<1>1. Consistent(State) /\ l_mapping \in Placements
  BY DEF Inv, Types, Consistent, State
<1> DEFINE t == exchange(State, op, n, other, m)
<1>2. /\ Consistent(t)
      /\ op # other => t.mapping = [State.mapping EXCEPT ![op] = n, ![other] = m]
      /\ op = other => t.mapping = [State.mapping EXCEPT ![op] = n]
  BY <1>1, Exchange
<1> HIDE DEF t
<1>3. l_mapping' = t.mapping /\ State.mapping = l_mapping
  BY <1>2, Becomes DEF t, State
<1> QED
  BY <1>1, <1>2, <1>3 DEF Placements

(* Where ops are taken up, they are of one cluster and for one location.   *)
LEMMA ProposedTogether ==
  ASSUME NEW d \in DOMAIN l_clusters, NEW occupied,
         NEW fus \in getRandomFUs(l_clusters[d], occupied),
         todo' = Moves(l_clusters[d], fus)
  PROVE  /\ \E loc : \A k \in DOMAIN todo' : Location[todo'[k][2]] = loc
         /\ \A k \in DOMAIN todo' : /\ todo'[k][1] \in Ops
                                    /\ todo'[k][2] \in canMapOp[todo'[k][1]]
                                    /\ l_op_cluster_index[todo'[k][1]] = d
         /\ \A op \in Members(d) : \E k \in DOMAIN todo' : todo'[k][1] = op
<1>1. PICK loc : /\ fus \in [DOMAIN l_clusters[d] -> FUs]
                 /\ \A i \in DOMAIN l_clusters[d] : fus[i] \in getFUForOpAtLoc(l_clusters[d][i], loc)
  BY DEF getRandomFUs
<1>2. l_clusters[d] \in Seq(Ops)
  BY ClusterAssumption
<1>3. DOMAIN todo' = DOMAIN l_clusters[d] /\ \A k \in DOMAIN todo' : todo'[k] = <<l_clusters[d][k], fus[k]>>
  BY DEF Moves
<1>4. ASSUME NEW k \in DOMAIN todo'
      PROVE  /\ todo'[k][1] \in Ops /\ todo'[k][2] \in canMapOp[todo'[k][1]]
             /\ Location[todo'[k][2]] = loc /\ l_op_cluster_index[todo'[k][1]] = d
  <2>1. /\ k \in DOMAIN l_clusters[d] /\ todo'[k][1] = l_clusters[d][k] /\ todo'[k][2] = fus[k]
        /\ l_clusters[d][k] \in Ops
    BY <1>2, <1>3
  <2> QED
    BY <1>1, <2>1, IndexAssumption DEF getFUForOpAtLoc
<1>5. ASSUME NEW op \in Members(d) PROVE \E k \in DOMAIN todo' : todo'[k][1] = op
  BY <1>3 DEF Members
<1> QED
  BY <1>4, <1>5

LEMMA StaysTogether ==
  ASSUME NEW c, TogetherInv(c), phase \in {"perturb", "trial"}, phase' = phase, before' = before,
         canMapOp' = canMapOp, NEW loc, Gathered(c, loc)', MembersFit(c)'
  PROVE  TogetherInv(c)'
<1>1. Members(c)' = Members(c)
  BY DEF Members
<1>2. phase' \in {"trial", "restore"} => BeganTogether(c)'
  BY <1>1 DEF TogetherInv, BeganTogether
<1> QED
  BY <1>2 DEF TogetherInv

LEMMA TogetherMove ==
  ASSUME Inv, NEW c, Lone(c), TogetherInv(c), Move
  PROVE  TogetherInv(c)'
<1>1. CASE MoveThrows
  BY <1>1 DEF MoveThrows, Throw, TogetherInv
<1>2. CASE ~MoveThrows
  <2>1. moving
    BY <1>2 DEF Move, MoveToFree, SwapWithItself, SwapOps, SwapCluster
  <2>2. /\ phase \in {"perturb", "trial"} /\ todo # <<>> /\ evicted = <<>>
        /\ todo \in Seq(Ops \X FUs) /\ evicted \in Seq(Ops) /\ MembersFit(c)
        /\ c \in DOMAIN l_clusters
        /\ l_mapping \in Placements
        /\ \A o \in Ops : l_mapping[o] \in FUs
    BY <2>1 DEF moving, Inv, Types, TogetherInv, Covered, running, isOpgraphCovered, Consistent,
       State, Placements, Lone
  <2>3. PICK loc : Gathered(c, loc)
    BY <2>2 DEF TogetherInv
  <2>4. /\ movingOp \in Ops /\ movingTo \in FUs /\ movingTo \in canMapOp[movingOp]
        /\ movingOp \in Members(c) => Location[movingTo] = loc
        /\ Head(todo)[1] = movingOp
    <3>1. 1 \in DOMAIN todo /\ todo[1] = Head(todo) /\ Head(todo) \in Ops \X FUs
      BY <2>2
    <3> QED
      BY <2>2, <2>3, <3>1 DEF movingOp, movingTo, Gathered, MembersFit
  <2>5. Members(c) \subseteq Ops
    BY <2>2, <2>4, InCluster
  <2>6. ASSUME canMapOp' = canMapOp, home' = home, phase' = phase, before' = before,
               todo' = Tail(todo), evicted' = evicted,
               \A o \in Members(c) : l_mapping'[o] = IF o = movingOp THEN movingTo ELSE l_mapping[o]
        PROVE  TogetherInv(c)'
    <3>1. Arrives(c, loc, movingOp, movingTo)
      BY <2>2, <2>4, <2>6 DEF Arrives
    <3>2. Gathered(c, loc)' /\ MembersFit(c)'
      BY ONLY <2>2, <2>3, <3>1, Gathers
    <3> QED
      BY <2>2, <2>6, <3>2, StaysTogether
  <2>7. CASE MoveToFree
    <3>1. l_mapping' = [l_mapping EXCEPT ![movingOp] = movingTo]
      BY <2>4, <2>7, Moved DEF MoveToFree
    <3>2. \A o \in Members(c) : l_mapping'[o] = IF o = movingOp THEN movingTo ELSE l_mapping[o]
      BY <2>2, <2>5, <3>1 DEF Placements
    <3> QED
      BY <2>6, <2>7, <3>2 DEF MoveToFree
  <2>8. CASE SwapWithItself
    <3>1. l_mapping[movingOp] = movingTo /\ l_mapping' = l_mapping
      BY <2>8 DEF SwapWithItself, OpsMapedAt, placement
    <3> QED
      BY <2>6, <2>8, <3>1 DEF SwapWithItself
  <2>9. CASE SwapOps
    <3>1. PICK second_op \in OpsMapedAt(movingTo) \ {movingOp} :
            /\ Len(clusterOf(second_op)) <= 1
            /\ Become(exchange(State, movingOp, movingTo, second_op, l_mapping[movingOp]))
      BY <2>9 DEF SwapOps
    <3>2. second_op \in Ops /\ second_op \notin Members(c)
      <4>1. second_op \in Ops
        BY DEF OpsMapedAt
      <4>2. ~(Len(clusterOf(second_op)) > 1)
        <5>1. l_op_cluster_index[second_op] \in DOMAIN l_clusters
          BY <2>2, <4>1, InCluster
        <5>2. clusterOf(second_op) \in Seq(Ops)
          BY <5>1, ClusterAssumption DEF clusterOf
        <5>3. Len(clusterOf(second_op)) \in Nat
          BY <5>2
        <5> DEFINE length == Len(clusterOf(second_op))
        <5>4. length \in Nat /\ length <= 1
          BY <3>1, <5>3
        <5> HIDE DEF length
        <5>5. ~(length > 1)
          BY <5>4
        <5> QED
          BY <5>5 DEF length
      <4> QED
        BY <4>1, <4>2, OnlyCluster
    <3>3. /\ l_mapping'[movingOp] = movingTo
          /\ \A o \in Ops \ {movingOp, second_op} : l_mapping'[o] = l_mapping[o]
      BY <2>2, <2>4, <3>1, <3>2, Exchanged
    <3>4. \A o \in Members(c) : l_mapping'[o] = IF o = movingOp THEN movingTo ELSE l_mapping[o]
      BY <2>5, <3>2, <3>3
    <3> QED
      BY <2>6, <2>9, <3>4 DEF SwapOps
  <2>10. CASE SwapCluster
    <3>1. PICK second_op \in OpsMapedAt(movingTo) \ {movingOp} :
            Len(clusterOf(second_op)) > 1 /\ evicted' = clusterOf(second_op)
      BY <2>10 DEF SwapCluster
    <3>2. second_op \in Ops /\ l_mapping[second_op] = movingTo /\ second_op # movingOp
      BY DEF OpsMapedAt
    <3>3. second_op \in Members(c) /\ evicted' = l_clusters[c]
      BY <3>1, <3>2, OnlyCluster
    <3>4. movingTo \in canMapOp[second_op]
      BY <2>2, <2>4, <3>2, <3>3, OpsAssumption DEF MembersFit
    <3>5. movingOp \notin Members(c)
      BY <2>4, <3>2, <3>3, <3>4, NotShared
    <3>6. /\ todo' = Tail(todo) /\ l_mapping' = l_mapping /\ canMapOp' = canMapOp
          /\ phase' = phase /\ before' = before
      BY <2>10 DEF SwapCluster, placement
    <3>7. \A k \in DOMAIN todo' : \E m \in DOMAIN todo : todo'[k] = todo[m]
      BY ONLY <2>2, <3>6, TailElements
    <3>8. ASSUME NEW m \in DOMAIN todo PROVE todo[m][1] \notin Members(c)
      <4>1. 1 \in DOMAIN todo /\ todo[1] = Head(todo) /\ todo[m][1] \in Ops
        BY <2>2
      <4>2. l_op_cluster_index[todo[m][1]] = l_op_cluster_index[movingOp]
        BY <2>2, <2>4, <4>1 DEF MembersFit
      <4> QED
        BY <2>2, <2>4, <3>5, <4>1, <4>2, InCluster
    <3>9. Members(c)' = Members(c)
      BY DEF Members
    <3>10. \A k \in DOMAIN todo' : todo'[k][1] \notin Members(c)
      BY <3>7, <3>8
    <3> PICK h : h = home'
      OBVIOUS
    <3>11. Gathered(c, h)'
      BY <3>3, <3>9, <3>10 DEF Gathered, Members
    <3>12. MembersFit(c)'
      <4>1. \A k \in DOMAIN evicted' : evicted'[k] \in Members(c)
        BY <3>3 DEF Members
      <4>2. /\ \A k \in DOMAIN todo' : todo'[k][2] \in canMapOp[todo'[k][1]]
            /\ \A k, m \in DOMAIN todo' : l_op_cluster_index[todo'[k][1]] = l_op_cluster_index[todo'[m][1]]
        BY <2>2, <3>7 DEF MembersFit
      <4> QED
        BY <2>2, <3>6, <3>9, <4>1, <4>2 DEF MembersFit
    <3> QED
      BY <2>2, <3>6, <3>11, <3>12, StaysTogether
  <2> QED
    BY <1>2, <2>7, <2>8, <2>9, <2>10 DEF Move
<1> QED
  BY <1>1, <1>2

LEMMA TogetherEvict ==
  ASSUME Inv, NEW c, Lone(c), TogetherInv(c), Evict
  PROVE  TogetherInv(c)'
<1>1. CASE EvictThrows
  BY <1>1 DEF EvictThrows, Throw, TogetherInv
<1>2. CASE ~EvictThrows
  <2>1. evicting
    BY <1>2 DEF Evict, EvictToFree, EvictBySwap
  <2>2. /\ phase \in {"perturb", "trial"} /\ evicted # <<>>
        /\ todo \in Seq(Ops \X FUs) /\ evicted \in Seq(Ops) /\ MembersFit(c)
        /\ c \in DOMAIN l_clusters
        /\ l_mapping \in Placements
        /\ \A o \in Ops : l_mapping[o] \in FUs
    BY <2>1 DEF evicting, Inv, Types, TogetherInv, Covered, running, isOpgraphCovered, Consistent,
       State, Placements, Lone
  <2>3. PICK loc : Gathered(c, loc)
    BY <2>2 DEF TogetherInv
  <2>4. evictedOp \in Ops /\ evictedOp \in Members(c) /\ home = loc /\ Head(evicted) = evictedOp
    <3>1. 1 \in DOMAIN evicted /\ evicted[1] = Head(evicted) /\ Head(evicted) \in Ops
      BY <2>2
    <3> QED
      BY <2>2, <2>3, <3>1 DEF evictedOp, Gathered, MembersFit
  <2>5. Members(c) \subseteq Ops
    BY <2>2, <2>4, InCluster
  <2>6. ASSUME canMapOp' = canMapOp, home' = home, phase' = phase, before' = before,
               evicted' = Tail(evicted), todo' = todo, NEW n \in getFUForOpAtLoc(evictedOp, home),
               \A o \in Members(c) : l_mapping'[o] = IF o = evictedOp THEN n ELSE l_mapping[o]
        PROVE  TogetherInv(c)'
    <3>1. Location[n] = loc /\ n \in canMapOp[evictedOp]
      BY <2>4 DEF getFUForOpAtLoc
    <3>2. Arrives(c, loc, evictedOp, n)
      BY <2>2, <2>4, <2>6, <3>1 DEF Arrives
    <3>3. Gathered(c, loc)' /\ MembersFit(c)'
      BY ONLY <2>2, <2>3, <3>2, Gathers
    <3> QED
      BY <2>2, <2>6, <3>3, StaysTogether
  <2>7. CASE EvictToFree
    <3>1. PICK n \in getFUForOpAtLoc(evictedOp, home) : Become(moveOp(State, evictedOp, n))
      BY <2>7 DEF EvictToFree
    <3>2. l_mapping' = [l_mapping EXCEPT ![evictedOp] = n]
      BY <2>4, <3>1, Moved DEF getFUForOpAtLoc
    <3>3. \A o \in Members(c) : l_mapping'[o] = IF o = evictedOp THEN n ELSE l_mapping[o]
      BY <2>2, <2>5, <3>2 DEF Placements
    <3> QED
      BY <2>6, <2>7, <3>3 DEF EvictToFree
  <2>8. CASE EvictBySwap
    <3>1. PICK n \in getFUForOpAtLoc(evictedOp, home), s_op \in Ops :
            /\ l_mapping[s_op] = n
            /\ Become(exchange(State, evictedOp, n, s_op, l_mapping[evictedOp]))
      BY <2>8 DEF EvictBySwap, OpsMapedAt
    <3>2. n \in FUs /\ n \in canMapOp[evictedOp]
      BY DEF getFUForOpAtLoc
    <3>3. s_op \in Members(c) => s_op = evictedOp
      <4>1. s_op \in Members(c) => n \in canMapOp[s_op]
        BY <2>2, <3>1, <3>2, OpsAssumption DEF MembersFit
      <4> QED
        BY <2>4, <3>2, <4>1, NotShared
    <3>4. /\ l_mapping'[evictedOp] = n
          /\ \A o \in Ops \ {evictedOp, s_op} : l_mapping'[o] = l_mapping[o]
      BY <2>2, <2>4, <3>1, <3>2, Exchanged
    <3>5. \A o \in Members(c) : l_mapping'[o] = IF o = evictedOp THEN n ELSE l_mapping[o]
      BY <2>5, <3>3, <3>4
    <3> QED
      BY <2>6, <2>8, <3>5 DEF EvictBySwap
  <2> QED
    BY <1>2, <2>7, <2>8 DEF Evict
<1> QED
  BY <1>1, <1>2

LEMMA TogetherPick ==
  ASSUME Inv, NEW c, Lone(c), TogetherInv(c), NEW d \in DOMAIN l_clusters, Pick(d)
  PROVE  TogetherInv(c)'
<1>1. /\ phase \in {"perturb", "anneal"} /\ idle /\ phase' \in {"perturb", "trial"}
      /\ canMapOp' = canMapOp /\ l_mapping' = l_mapping /\ before' = l_mapping
      /\ evicted' = evicted /\ evicted = <<>> /\ todo = <<>> /\ c \in DOMAIN l_clusters
      /\ \A op \in Ops : l_mapping[op] # NoFU
  BY DEF Pick, placement, idle, Lone, Inv, Covered, running, isOpgraphCovered
<1>2. PICK fus \in getRandomFUs(l_clusters[d], TRUE) : todo' = Moves(l_clusters[d], fus)
  BY DEF Pick
<1>3. /\ \E loc : \A k \in DOMAIN todo' : Location[todo'[k][2]] = loc
      /\ \A k \in DOMAIN todo' : /\ todo'[k][1] \in Ops
                                 /\ todo'[k][2] \in canMapOp[todo'[k][1]]
                                 /\ l_op_cluster_index[todo'[k][1]] = d
      /\ \A op \in Members(d) : \E k \in DOMAIN todo' : todo'[k][1] = op
  BY ONLY d \in DOMAIN l_clusters, <1>2, ProposedTogether
<1>4. PICK loc : Gathered(c, loc)
  BY <1>1 DEF TogetherInv
<1>5. MembersFit(c) /\ Members(c)' = Members(c)
  BY <1>1 DEF TogetherInv, Members
<1>6. \A op \in Members(c) : op \in Ops
  BY <1>1, ClusterAssumption DEF Members
<1>7. \A op \in Members(c) : Location[l_mapping[op]] = loc /\ l_mapping[op] \in canMapOp[op]
  BY <1>1, <1>4, <1>5, <1>6 DEF Gathered, MembersFit
<1>8. \A k \in DOMAIN todo' : todo'[k][1] \in Members(c) => d = c
  BY <1>1, <1>3, InCluster
<1>9. \E place : Gathered(c, place)'
  <2>1. CASE d = c
    <3>1. PICK place : \A k \in DOMAIN todo' : Location[todo'[k][2]] = place
      BY <1>3
    <3>2. Gathered(c, place)'
      BY <1>1, <1>3, <1>5, <2>1, <3>1 DEF Gathered
    <3> QED
      BY <3>2
  <2>2. CASE d # c
    <3>1. Gathered(c, loc)'
      BY <1>1, <1>5, <1>7, <1>8, <2>2 DEF Gathered
    <3> QED
      BY <3>1
  <2> QED
    BY <2>1, <2>2
<1>10. MembersFit(c)'
  <2>1. \A op \in Members(c)' : l_mapping'[op] \in canMapOp'[op] \cup {NoFU}
    BY <1>1, <1>5, <1>7
  <2>2. /\ \A k \in DOMAIN todo' : todo'[k][2] \in canMapOp'[todo'[k][1]]
        /\ \A k, m \in DOMAIN todo' : l_op_cluster_index[todo'[k][1]] = l_op_cluster_index[todo'[m][1]]
    BY <1>1, <1>3
  <2>3. \A k \in DOMAIN evicted' : evicted'[k] \in Members(c)'
    BY <1>1
  <2> QED
    BY ONLY <2>1, <2>2, <2>3 DEF MembersFit
<1>11. BeganTogether(c)'
  BY <1>1, <1>5, <1>7 DEF BeganTogether
<1> QED
  BY <1>1, <1>9, <1>10, <1>11 DEF TogetherInv

(* An op that is placed first is of a cluster that has been taken up.      *)
LEMMA TogetherChoose ==
  ASSUME Inv, NEW c, Lone(c), TogetherInv(c), InitialChoose
  PROVE  TogetherInv(c)'
<1> DEFINE d == placed_clusters + 1
<1>1. /\ phase = "initial" /\ phase' = phase /\ todo = <<>> /\ evicted = <<>> /\ evicted' = evicted
      /\ canMapOp' = canMapOp /\ l_mapping' = l_mapping /\ placed_clusters' = d
      /\ placed_clusters \in Nat /\ c \in DOMAIN l_clusters /\ d \in DOMAIN l_clusters
      /\ \A op \in Ops : l_mapping[op] # NoFU => l_op_cluster_index[op] <= placed_clusters
      /\ \E fus \in getRandomFUs(l_clusters[d], FALSE) : todo' = Moves(l_clusters[d], fus)
  <2>1. /\ phase = "initial" /\ phase' = phase /\ todo = <<>> /\ evicted' = evicted
        /\ canMapOp' = canMapOp /\ l_mapping' = l_mapping /\ placed_clusters' = d
        /\ \E fus \in getRandomFUs(l_clusters[d], FALSE) : todo' = Moves(l_clusters[d], fus)
    BY DEF InitialChoose, placement, nextCluster
  <2>2. placed_clusters \in Nat /\ d \in DOMAIN l_clusters
    BY ClusterAssumption DEF InitialChoose, Inv, Types
  <2>3. c \in DOMAIN l_clusters
    BY DEF Lone
  <2>4. /\ evicted = <<>>
        /\ \A op \in Ops : l_mapping[op] # NoFU => l_op_cluster_index[op] <= placed_clusters
    BY <2>1 DEF TogetherInv
  <2> QED
    BY <2>1, <2>2, <2>3, <2>4
<1> HIDE DEF d
<1>2. PICK fus \in getRandomFUs(l_clusters[d], FALSE) : todo' = Moves(l_clusters[d], fus)
  BY <1>1
<1>3. /\ \E loc : \A k \in DOMAIN todo' : Location[todo'[k][2]] = loc
      /\ \A k \in DOMAIN todo' : /\ todo'[k][1] \in Ops
                                 /\ todo'[k][2] \in canMapOp[todo'[k][1]]
                                 /\ l_op_cluster_index[todo'[k][1]] = d
      /\ \A op \in Members(d) : \E k \in DOMAIN todo' : todo'[k][1] = op
  BY ONLY <1>1, <1>2, ProposedTogether
<1>4. PICK loc : Gathered(c, loc)
  BY <1>1 DEF TogetherInv
<1>5. MembersFit(c) /\ Members(c)' = Members(c)
  BY <1>1 DEF TogetherInv, Members
<1>6. \A k \in DOMAIN todo' : todo'[k][1] \in Members(c) => d = c
  BY <1>1, <1>3, InCluster
<1>7. \E place : Gathered(c, place)'
  <2>1. CASE d = c
    <3>1. PICK place : \A k \in DOMAIN todo' : Location[todo'[k][2]] = place
      BY <1>3
    <3>2. Gathered(c, place)'
      BY <1>1, <1>3, <1>5, <2>1, <3>1 DEF Gathered
    <3> QED
      BY <3>2
  <2>2. CASE d # c
    <3>1. \A op \in Members(c) : l_mapping[op] = NoFU \/ Location[l_mapping[op]] = loc
      BY <1>1, <1>4 DEF Gathered
    <3>2. Gathered(c, loc)'
      BY <1>1, <1>5, <1>6, <2>2, <3>1 DEF Gathered
    <3> QED
      BY <3>2
  <2> QED
    BY <2>1, <2>2
<1>8. MembersFit(c)'
  <2>1. \A op \in Members(c)' : l_mapping'[op] \in canMapOp'[op] \cup {NoFU}
    BY <1>1, <1>5 DEF MembersFit
  <2>2. /\ \A k \in DOMAIN todo' : todo'[k][2] \in canMapOp'[todo'[k][1]]
        /\ \A k, m \in DOMAIN todo' : l_op_cluster_index[todo'[k][1]] = l_op_cluster_index[todo'[m][1]]
    BY <1>1, <1>3
  <2>3. \A k \in DOMAIN evicted' : evicted'[k] \in Members(c)'
    BY <1>1
  <2> QED
    BY ONLY <2>1, <2>2, <2>3 DEF MembersFit
<1>9. /\ \A op \in Ops : l_mapping'[op] # NoFU => l_op_cluster_index[op] <= placed_clusters'
      /\ \A k \in DOMAIN todo' : l_op_cluster_index[todo'[k][1]] <= placed_clusters'
  <2>1. \A op \in Ops : l_mapping[op] # NoFU => l_op_cluster_index[op] <= d
    <3> SUFFICES ASSUME NEW op \in Ops, l_mapping[op] # NoFU PROVE l_op_cluster_index[op] <= d
      OBVIOUS
    <3>1. l_op_cluster_index[op] <= placed_clusters /\ l_op_cluster_index[op] \in DOMAIN l_clusters
      BY <1>1, InCluster
    <3>2. l_op_cluster_index[op] \in Nat
      BY <3>1, ClusterAssumption
    <3> QED
      BY <1>1, <3>1, <3>2 DEF d
  <2>2. d <= d
    BY <1>1 DEF d
  <2> QED
    BY <1>1, <1>3, <2>1, <2>2
<1> QED
  BY <1>1, <1>7, <1>8, <1>9 DEF TogetherInv

LEMMA TogetherPlace ==
  ASSUME Inv, NEW c, Lone(c), TogetherInv(c), InitialPlace
  PROVE  TogetherInv(c)'
<1> DEFINE op == Head(todo)[1]
           n == Head(todo)[2]
<1>1. /\ phase = "initial" /\ todo # <<>> /\ evicted = <<>> /\ evicted' = evicted
      /\ todo \in Seq(Ops \X FUs) /\ evicted \in Seq(Ops) /\ l_mapping \in Placements
      /\ canMapOp' = canMapOp /\ home' = home /\ todo' = Tail(todo)
      /\ placed_clusters' = placed_clusters /\ c \in DOMAIN l_clusters /\ Consistent(State)
      /\ Become(placeOp(State, op, n))
      /\ phase' = IF l_mapping[op] # NoFU THEN "thrown" ELSE phase
  BY DEF InitialPlace, placement, Lone, Inv, Types, TogetherInv, Consistent, State
<1>2. /\ MembersFit(c)
      /\ \A o \in Ops : l_mapping[o] # NoFU => l_op_cluster_index[o] <= placed_clusters
      /\ \A k \in DOMAIN todo : l_op_cluster_index[todo[k][1]] <= placed_clusters
  BY <1>1 DEF TogetherInv
<1>3. PICK loc : Gathered(c, loc)
  BY <1>1 DEF TogetherInv
<1>4. CASE l_mapping[op] # NoFU
  BY <1>1, <1>4 DEF TogetherInv
<1>5. CASE l_mapping[op] = NoFU
  <2>1. 1 \in DOMAIN todo /\ todo[1] = Head(todo) /\ Head(todo) \in Ops \X FUs
    BY <1>1
  <2>2. /\ op \in Ops /\ n \in FUs /\ n \in canMapOp[op] /\ l_op_cluster_index[op] <= placed_clusters
        /\ op \in Members(c) => Location[n] = loc
    BY <1>2, <1>3, <2>1 DEF Gathered, MembersFit
  <2>3. l_mapping' = [l_mapping EXCEPT ![op] = n]
    <3>1. /\ Consistent(placeOp(State, op, n))
          /\ placeOp(State, op, n).mapping = [l_mapping EXCEPT ![op] = n]
      BY <1>1, <1>5, <2>2, Place DEF State
    <3> QED
      BY <1>1, <3>1, Becomes
  <2>4. Head(todo)[1] = op
    OBVIOUS
  <2> HIDE DEF op, n
  <2>5. Members(c) \subseteq Ops
    BY <1>1, <2>2, InCluster
  <2>6. Arrives(c, loc, op, n)
    <3>1. \A o \in Members(c) : l_mapping'[o] = IF o = op THEN n ELSE l_mapping[o]
      BY <1>1, <2>3, <2>5 DEF Placements
    <3> QED
      BY <1>1, <2>2, <2>4, <3>1 DEF Arrives
  <2>7. Gathered(c, loc)' /\ MembersFit(c)'
    BY ONLY <1>1, <1>2, <1>3, <2>6, Gathers
  <2>8. \A o \in Ops : l_mapping'[o] # NoFU => l_op_cluster_index[o] <= placed_clusters
    BY <1>1, <1>2, <2>2, <2>3 DEF Placements
  <2>9. \A k \in DOMAIN todo' : l_op_cluster_index[todo'[k][1]] <= placed_clusters
    <3>1. \A k \in DOMAIN Tail(todo) : \E m \in DOMAIN todo : Tail(todo)[k] = todo[m]
      BY ONLY <1>1, TailElements
    <3> QED
      BY <1>1, <1>2, <3>1
  <2> QED
    BY <1>1, <1>5, <2>7, <2>8, <2>9 DEF TogetherInv
<1> QED
  BY <1>4, <1>5

LEMMA TogetherSetup ==
  ASSUME Inv, NEW c, Lone(c), TogetherInv(c), Setup
  PROVE  TogetherInv(c)'
<1>1. CASE InitialThrow \/ InitialSpin
  BY <1>1 DEF InitialThrow, InitialSpin, Throw, TogetherInv
<1> QED
  BY <1>1, TogetherChoose, TogetherPlace DEF Setup

LEMMA TogetherPhase ==
  ASSUME NEW c, TogetherInv(c), StartPerturbing \/ StartAnnealing
  PROVE  TogetherInv(c)'
<1>1. UNCHANGED <<canMapOp, l_mapping, todo, evicted, home, before>>
  BY DEF StartPerturbing, StartAnnealing, placement
<1>2. /\ phase \in {"initial", "perturb", "placed"} /\ phase' \in {"perturb", "anneal"}
      /\ phase' = "anneal" => idle
  BY DEF StartPerturbing, StartAnnealing
<1>3. PICK loc : Gathered(c, loc) /\ MembersFit(c)
  BY <1>2 DEF TogetherInv
<1>4. Gathered(c, loc)' /\ MembersFit(c)' /\ idle' = idle
  BY <1>1, <1>3 DEF Gathered, MembersFit, Members, idle
<1> QED
  BY <1>2, <1>4 DEF TogetherInv

LEMMA TogetherDecide ==
  ASSUME Inv, NEW c, Lone(c), TogetherInv(c), Decide
  PROVE  TogetherInv(c)'
<1>1. CASE Accept \/ EndIteration
  <2>1. UNCHANGED <<canMapOp, l_mapping, todo, evicted, home, before>>
    BY <1>1 DEF Accept, EndIteration, placement
  <2>2. phase \in {"trial", "anneal"} /\ phase' \in {"anneal", "placed", "thrown"} /\ idle
    BY <1>1 DEF Accept, EndIteration, TogetherInv
  <2>3. PICK loc : Gathered(c, loc) /\ MembersFit(c)
    BY <2>2 DEF TogetherInv
  <2>4. Gathered(c, loc)' /\ MembersFit(c)' /\ idle'
    BY <2>1, <2>2, <2>3 DEF Gathered, MembersFit, Members, idle
  <2> QED
    BY <2>2, <2>4 DEF TogetherInv
<1>2. CASE Reject \/ \E op \in Ops : Restore(op)
  <2>1. UNCHANGED <<canMapOp, todo, evicted, before>> /\ phase' = "restore" /\ phase \in {"trial", "restore"}
    BY <1>2 DEF Reject, Restore
  <2>2. idle
    BY <1>2 DEF Reject, Restore, TogetherInv
  <2>3. BeganTogether(c)' /\ idle'
    BY <2>1, <2>2 DEF TogetherInv, BeganTogether, Members, idle
  <2> QED
    BY <2>1, <2>3 DEF TogetherInv
<1>3. CASE Restored
  <2>1. /\ UNCHANGED <<canMapOp, l_mapping, todo, evicted, before>> /\ phase = "restore" /\ phase' = "anneal"
        /\ old_placement = Nowhere
    BY <1>3 DEF Restored, placement
  <2>2. BeganTogether(c) /\ idle /\ todo = <<>> /\ evicted = <<>>
    BY <2>1 DEF TogetherInv, idle
  <2>3. Members(c) \subseteq Ops /\ Members(c)' = Members(c)
    BY ClusterAssumption DEF Lone, Members
  <2>4. \A op \in Ops : l_mapping[op] = before[op]
    BY <2>1, OpsAssumption DEF Inv, Undo, Undoable, Nowhere
  <2>5. PICK loc : \A op \in Members(c) : Location[before[op]] = loc /\ before[op] \in canMapOp[op]
    BY <2>2 DEF BeganTogether
  <2>6. \A op \in Members(c) : Location[l_mapping'[op]] = loc /\ l_mapping'[op] \in canMapOp'[op]
    BY <2>1, <2>3, <2>4, <2>5
  <2>7. Gathered(c, loc)' /\ MembersFit(c)'
    BY <2>1, <2>2, <2>3, <2>6 DEF Gathered, MembersFit
  <2> QED
    BY <2>1, <2>2, <2>7 DEF TogetherInv, idle
<1> QED
  BY <1>1, <1>2, <1>3 DEF Decide

LEMMA TogetherInit == Init => LoneInv
<1> SUFFICES ASSUME Init, NEW c, Lone(c) PROVE TogetherInv(c)
  BY DEF LoneInv
<1>1. Members(c) \subseteq Ops
  BY ClusterAssumption DEF Lone, Members
<1>2. \A op \in Ops : l_mapping[op] = NoFU
  BY DEF Init, Nowhere
<1>3. todo = <<>> /\ evicted = <<>> /\ phase = "initial"
  BY DEF Init
<1>4. Gathered(c, NoFU) /\ MembersFit(c)
  BY <1>1, <1>2, <1>3 DEF Gathered, MembersFit
<1> QED
  BY <1>2, <1>3, <1>4 DEF TogetherInv

LEMMA TogetherNext ==
  ASSUME Inv, LoneInv, [Next]_vars
  PROVE  LoneInv'
<1>1. canMapOp' = canMapOp
  <2>1. CASE Move \/ Evict
    BY <2>1 DEF Move, MoveToFree, MoveThrows, SwapWithItself, SwapOps, SwapCluster, Evict,
       EvictThrows, EvictToFree, EvictBySwap, Throw
  <2>2. CASE Setup \/ Decide
    BY <2>2 DEF Setup, InitialChoose, InitialPlace, InitialThrow, InitialSpin, Throw, Decide, Accept,
       Reject, Restore, Restored, EndIteration
  <2>3. CASE StartPerturbing \/ StartAnnealing \/ Stopped \/ UNCHANGED vars
    BY <2>3 DEF StartPerturbing, StartAnnealing, Stopped, vars
  <2>4. CASE \E c \in DOMAIN l_clusters : Pick(c)
    BY <2>4 DEF Pick
  <2> QED
    BY <2>1, <2>2, <2>3, <2>4 DEF Next
<1> SUFFICES ASSUME NEW c, Lone(c)' PROVE TogetherInv(c)'
  BY DEF LoneInv
<1>2. Lone(c) /\ TogetherInv(c)
  BY <1>1 DEF Lone, Competing, LoneInv
<1>3. CASE UNCHANGED vars \/ Stopped
  <2>1. /\ UNCHANGED <<canMapOp, l_mapping, todo, evicted, home, before>>
        /\ UNCHANGED <<phase, placed_clusters>>
    BY <1>3 DEF vars, Stopped, placement
  <2>2. Members(c)' = Members(c) /\ idle' = idle
    BY <2>1 DEF Members, idle
  <2>3. BeganTogether(c)' <=> BeganTogether(c)
    BY <2>1, <2>2 DEF BeganTogether
  <2>4. \A loc : Gathered(c, loc) => Gathered(c, loc)'
    BY <2>1, <2>2 DEF Gathered
  <2>5. MembersFit(c) => MembersFit(c)'
    BY <2>1, <2>2 DEF MembersFit
  <2> QED
    BY <1>2, <2>1, <2>2, <2>3, <2>4, <2>5 DEF TogetherInv
<1> QED
  BY <1>2, <1>3, TogetherSetup, TogetherPhase, TogetherPick, TogetherMove, TogetherEvict,
     TogetherDecide DEF Next

(* Between two moves the ops of a cluster share one location, unless two   *)
(* of them compete for an FU or another cluster has several ops.           *)
THEOREM ClustersTogether == Spec => []ClustersStayTogether
<1>1. Inv /\ LoneInv => ClustersStayTogether
  <2> SUFFICES ASSUME Inv, LoneInv, phase \in {"anneal", "placed"}, NEW c \in DOMAIN l_clusters,
                      NEW i \in DOMAIN l_clusters[c], NEW j \in DOMAIN l_clusters[c],
                      ~Competing(l_clusters[c]),
                      ~ \E d \in DOMAIN l_clusters \ {c} : Len(l_clusters[d]) > 1
               PROVE  Location[l_mapping[l_clusters[c][i]]] = Location[l_mapping[l_clusters[c][j]]]
    BY DEF ClustersStayTogether
  <2>1. l_clusters[c] \in Seq(Ops)
    BY ClusterAssumption
  <2>2. CASE Len(l_clusters[c]) > 1
    <3>1. TogetherInv(c)
      BY <2>2 DEF LoneInv, Lone
    <3>2. PICK loc : Gathered(c, loc)
      BY <3>1 DEF TogetherInv
    <3>3. todo = <<>> /\ evicted = <<>> /\ \A op \in Ops : l_mapping[op] # NoFU
      BY <3>1 DEF TogetherInv, idle, Inv, Covered, running, isOpgraphCovered
    <3>4. \A op \in Members(c) : op \in Ops => Location[l_mapping[op]] = loc
      BY <3>2, <3>3 DEF Gathered
    <3> QED
      BY <2>1, <3>4 DEF Members
  <2>3. CASE ~(Len(l_clusters[c]) > 1)
    <3>1. i = j
      BY <2>1, <2>3
    <3> QED
      BY <3>1
  <2> QED
    BY <2>2, <2>3
<1>2. Inv /\ LoneInv /\ [Next]_vars => LoneInv'
  BY TogetherNext
<1> QED
  BY <1>1, <1>2, TogetherInit, Invariance, PTL DEF Spec
===============================================================================
