-------------------------- MODULE LibGnome_proofs --------------------------
(***************************************************************************)
(* Three parts of the C++ library that scan arrays for what they may keep  *)
(* or take.  The records of a mover and the elements of its container stay *)
(* together, for any number of elements, any durations and any order of    *)
(* the calls.  A handle leads to its owner's block, for tables and caches  *)
(* of any size.  Of gridded data in one file the two records around the    *)
(* time asked for are loaded, whatever was asked and went wrong before.    *)
(***************************************************************************)
EXTENDS MoverUncertainty, HandleTable, TimeGrid, FiniteSetTheorems,
        SequenceTheorems, WellFoundedInduction, TLAPS

-----------------------------------------------------------------------------
(* Ranks.                                                                  *)

\* The order of the numbers, as a set of pairs.
Before == {p \in Nat \X Nat : p[1] < p[2]}

LEMMA Least ==
    ASSUME NEW T \in SUBSET Nat, T # {}
    PROVE  \E m \in T : \A i \in T : m <= i
<1>1. OpToRel(<, Nat) = Before
  BY Zenon DEF OpToRel, Before
<1>2. IsWellFoundedOn(Before, Nat)
  BY <1>1, NatLessThanWellFounded, Zenon
<1>3. PICK m \in T : \A i \in T : ~ (<<i, m>> \in Before)
  BY <1>2, WFMin, Zenon
<1>4. ASSUME NEW i \in T PROVE m <= i
  <2>1. m \in Nat /\ i \in Nat /\ <<i, m>> \notin Before
    BY <1>3
  <2>2. ~(i < m)
    BY <2>1 DEF Before
  <2> QED
    BY <2>1, <2>2
<1> QED
  BY <1>3, <1>4

LEMMA SizeOfPart ==
    ASSUME NEW N \in Nat, NEW S \in SUBSET (1 .. N), S # {}
    PROVE  Cardinality(S) \in Nat \ {0} /\ 1 \in 1 .. Cardinality(S)
<1>1. IsFiniteSet(1 .. N)
  BY FS_Interval
<1>2. IsFiniteSet(S)
  BY <1>1, FS_Subset
<1>3. Cardinality(S) \in Nat /\ Cardinality(S) # 0
  BY <1>2, FS_CardinalityType, FS_EmptySet
<1> QED
  BY <1>3

\* A set of numbers has a k-th smallest member for every k up to its size.
LEMMA NthMember ==
    ASSUME NEW N \in Nat, NEW S \in SUBSET (1 .. N), NEW k \in 1 .. Cardinality(S)
    PROVE  NthOf(S, k) \in S /\ Cardinality({j \in S : j <= NthOf(S, k)}) = k
<1> DEFINE Below(i) == {j \in S : j <= i}
           T == {i \in Nat : k <= Cardinality(Below(i))}
<1>1. IsFiniteSet(1 .. N)
  BY FS_Interval
<1>2. IsFiniteSet(S) /\ Cardinality(S) \in Nat
  BY <1>1, FS_Subset, FS_CardinalityType
<1>3. \A i \in Nat : IsFiniteSet(Below(i)) /\ Cardinality(Below(i)) \in Nat
  <2> TAKE i \in Nat
  <2>1. Below(i) \in SUBSET S
    OBVIOUS
  <2>2. IsFiniteSet(Below(i))
    BY <1>2, <2>1, FS_Subset
  <2> QED
    BY <2>2, FS_CardinalityType
<1>4. N \in T
  <2>1. \A j \in S : j <= N
    OBVIOUS
  <2>2. Below(N) = S
    BY <2>1
  <2> HIDE DEF Below
  <2> QED
    BY <1>2, <2>2
<1>5. PICK m \in T : \A i \in T : m <= i
  <2>1. T \in SUBSET Nat /\ T # {}
    BY <1>4
  <2> HIDE DEF T
  <2> QED
    BY <2>1, Least
<1>6. m # 0
  <2>1. \A j \in S : ~(j <= 0)
    OBVIOUS
  <2>3. Below(0) = {}
    BY <2>1
  <2>2. Cardinality(Below(0)) = 0
    BY <2>3, FS_EmptySet
  <2> QED
    BY <1>2, <2>2
<1>7. m \in Nat /\ m - 1 \in Nat /\ k <= Cardinality(Below(m))
  <2> HIDE DEF Below
  <2>1. m \in Nat /\ k <= Cardinality(Below(m))
    OBVIOUS
  <2> QED
    BY <1>6, <2>1
<1>8. Cardinality(Below(m - 1)) < k
  <2>1. m - 1 \notin T
    <3> HIDE DEF T
    <3> QED
      BY <1>5, <1>7
  <2> HIDE DEF Below
  <2>2. ~(k <= Cardinality(Below(m - 1)))
    BY <1>7, <2>1
  <2>3. k \in Nat /\ Cardinality(Below(m - 1)) \in Nat
    BY <1>2, <1>3, <1>7
  <2> QED
    BY <2>2, <2>3
<1>9. m \in S
  <2>1. SUFFICES ASSUME m \notin S PROVE FALSE
    OBVIOUS
  <2>2. Below(m) = Below(m - 1)
    <3>1. \A j \in S : j \in Int /\ j # m
      BY <2>1
    <3>2. \A j \in S : j <= m <=> j <= m - 1
      BY <1>7, <3>1
    <3> QED
      BY <3>2
  <2> HIDE DEF Below, T
  <2> QED
    BY <1>2, <1>3, <1>7, <1>8, <2>2
<1>10. Cardinality(Below(m)) = Cardinality(Below(m - 1)) + 1
  <2>1. Below(m) = Below(m - 1) \cup {m} /\ m \notin Below(m - 1)
    <3>1. \A j \in S : j \in Int
      OBVIOUS
    <3>2. \A j \in S : j <= m <=> j <= m - 1 \/ j = m
      BY <1>7, <3>1
    <3>3. ~(m <= m - 1)
      BY <1>7
    <3> QED
      BY <1>9, <3>2, <3>3
  <2>2. IsFiniteSet(Below(m - 1))
    BY <1>3, <1>7
  <2> HIDE DEF Below, T
  <2> QED
    BY <2>1, <2>2, FS_AddElement
<1>11. Cardinality(Below(m)) = k
  <2> HIDE DEF Below, T
  <2> QED
    BY <1>2, <1>3, <1>7, <1>8, <1>10
<1> QED
  BY <1>9, <1>11 DEF NthOf

\* What is left of a list when some of its elements are dropped.
LEMMA WithoutList ==
    ASSUME NEW A, NEW l \in Seq(A), NEW gone
    PROVE  LET kept == (1 .. Len(l)) \ gone
           IN  /\ Without(l, gone) \in Seq(A)
               /\ Cardinality(kept) \in Nat
               /\ Len(Without(l, gone)) = Cardinality(kept)
               /\ DOMAIN Without(l, gone) = 1 .. Cardinality(kept)
               /\ \A k \in 1 .. Cardinality(kept) :
                      /\ NthOf(kept, k) \in DOMAIN l
                      /\ Without(l, gone)[k] = l[NthOf(kept, k)]
<1> DEFINE kept == (1 .. Len(l)) \ gone
           w == [k \in 1 .. Cardinality(kept) |-> l[NthOf(kept, k)]]
<1>1. Len(l) \in Nat /\ DOMAIN l = 1 .. Len(l) /\ \A i \in DOMAIN l : l[i] \in A
  BY LenProperties, ElementOfSeq
<1>2. kept \in SUBSET (1 .. Len(l))
  OBVIOUS
<1>3. Cardinality(kept) \in Nat
  <2>1. IsFiniteSet(1 .. Len(l))
    BY <1>1, FS_Interval
  <2>2. IsFiniteSet(kept)
    BY <1>2, <2>1, FS_Subset
  <2> QED
    BY <2>2, FS_CardinalityType
<1>4. Without(l, gone) = w
  BY DEF Without
<1> HIDE DEF kept
<1>5. \A k \in 1 .. Cardinality(kept) : NthOf(kept, k) \in DOMAIN l
  BY <1>1, <1>2, NthMember
<1>6. \A k \in 1 .. Cardinality(kept) : w[k] \in A
  BY <1>1, <1>5
<1>7. w \in Seq(A) /\ Len(w) = Cardinality(kept) /\ DOMAIN w = 1 .. Cardinality(kept)
  <2>1. w \in [1 .. Cardinality(kept) -> A]
    BY <1>6
  <2> QED
    BY <1>3, <2>1, IsASeq
<1>8. \A k \in 1 .. Cardinality(kept) : w[k] = l[NthOf(kept, k)]
  OBVIOUS
<1> HIDE DEF w
<1> QED
  BY <1>3, <1>4, <1>5, <1>7, <1>8 DEF kept

-----------------------------------------------------------------------------
(* The list of records.                                                    *)

\* What a mover's list is at any time.
Movers == [allocated : BOOLEAN, list : Seq(Records), wasSet : Nat,
           firstStep : BOOLEAN, modelStart : Nat]

Sound(m) ==
    /\ m \in Movers
    /\ ~m.allocated => m.list = <<>>
    /\ \A i \in DOMAIN m.list : m.wasSet <= m.list[i].drawn

\* What it is in the middle of a step.
Current(m, les, elapsed) ==
    /\ m.allocated <=> elapsed >= Delay
    /\ m.allocated => /\ Len(m.list) = Len(les)
                      /\ elapsed < m.wasSet + Duration

InPlace(m, les) ==
    \A i \in DOMAIN m.list : i \in DOMAIN les /\ m.list[i].le = les[i]

Ids == Nat \ {0}

LEMMA DisposedSound ==
    ASSUME NEW m, Sound(m)
    PROVE  /\ Sound(Disposed(m)) /\ Disposed(m).list = <<>>
           /\ ~Disposed(m).allocated
           /\ Disposed(m).modelStart = m.modelStart
<1> DEFINE new == Disposed(m)
<1>0. m \in Movers /\ <<>> \in Seq(Records) /\ 0 \in Nat
  BY DEF Sound
<1>1. /\ new \in Movers /\ new.list = <<>> /\ ~new.allocated
      /\ new.modelStart = m.modelStart
  BY <1>0 DEF Movers, Disposed
<1> HIDE DEF new
<1>2. Sound(new)
  BY <1>1 DEF Sound
<1> QED
  BY <1>1, <1>2 DEF new

LEMMA DrawnSound ==
    ASSUME NEW m, Sound(m), NEW les \in Seq(Ids), NEW elapsed \in Nat,
           elapsed >= Delay
    PROVE  LET new == DrawnAfresh(m, les, elapsed)
           IN  /\ Sound(new) /\ Current(new, les, elapsed) /\ InPlace(new, les)
               /\ new.modelStart = m.modelStart
<1> USE UncertaintyAssumption
<1> DEFINE list == DrawnFor(les, elapsed)
           new == DrawnAfresh(m, les, elapsed)
<1>1. list \in Seq(Records) /\ Len(list) = Len(les) /\ DOMAIN list = DOMAIN les
  <2>1. Len(les) \in Nat /\ DOMAIN les = 1 .. Len(les)
    OBVIOUS
  <2>2. list = [i \in 1 .. Len(les) |-> [le |-> les[i], drawn |-> elapsed]]
    BY <2>1 DEF DrawnFor, Drawn
  <2>3. \A i \in 1 .. Len(les) : [le |-> les[i], drawn |-> elapsed] \in Records
    BY DEF Records, Ids
  <2>4. list \in [1 .. Len(les) -> Records]
    BY <2>2, <2>3
  <2> HIDE DEF list
  <2> QED
    BY <2>1, <2>4, IsASeq
<1>2. \A i \in DOMAIN les : list[i].le = les[i] /\ list[i].drawn = elapsed
  BY DEF DrawnFor, Drawn
<1>3. /\ new \in Movers /\ new.allocated /\ new.list = list /\ new.wasSet = elapsed
      /\ new.modelStart = m.modelStart
  BY <1>1 DEF DrawnAfresh, Sound, Movers
<1> HIDE DEF list, new
<1>4. elapsed < elapsed + Duration
  OBVIOUS
<1>5. Sound(new)
  BY <1>1, <1>2, <1>3 DEF Sound
<1>6. Current(new, les, elapsed) /\ InPlace(new, les)
  BY <1>1, <1>2, <1>3, <1>4 DEF Current, InPlace
<1> QED
  BY <1>3, <1>5, <1>6 DEF new

LEMMA ExtendedSound ==
    ASSUME NEW m, Sound(m), m.allocated, NEW les \in Seq(Ids), NEW elapsed \in Nat,
           elapsed >= Delay, m.wasSet <= elapsed, Len(m.list) <= Len(les),
           elapsed < m.wasSet + Duration
    PROVE  LET new == Extended(m, les, elapsed)
           IN  /\ Sound(new) /\ Current(new, les, elapsed)
               /\ InPlace(m, les) => InPlace(new, les)
               /\ new.modelStart = m.modelStart
<1> USE UncertaintyAssumption
<1> DEFINE list == [i \in DOMAIN les |->
                      IF i \in DOMAIN m.list THEN m.list[i] ELSE Drawn(les[i], elapsed)]
           new == Extended(m, les, elapsed)
<1>1. /\ m.list \in Seq(Records) /\ m.wasSet \in Nat
      /\ Len(m.list) \in Nat /\ DOMAIN m.list = 1 .. Len(m.list)
      /\ \A i \in DOMAIN m.list : m.list[i] \in Records /\ m.wasSet <= m.list[i].drawn
  BY DEF Sound, Movers
<1>2. Len(les) \in Nat /\ DOMAIN les = 1 .. Len(les) /\ \A i \in DOMAIN les : les[i] \in Ids
  OBVIOUS
<1>3. DOMAIN m.list \subseteq DOMAIN les
  BY <1>1, <1>2
<1>4. \A i \in DOMAIN les :
          /\ list[i] \in Records /\ m.wasSet <= list[i].drawn
          /\ i \in DOMAIN m.list => list[i] = m.list[i]
          /\ i \notin DOMAIN m.list => list[i].le = les[i]
  BY <1>1, <1>2 DEF Drawn, Records, Ids
<1>5. list \in Seq(Records) /\ Len(list) = Len(les) /\ DOMAIN list = DOMAIN les
  <2>1. list \in [1 .. Len(les) -> Records]
    BY <1>2, <1>4
  <2> HIDE DEF list
  <2> QED
    BY <1>2, <2>1, IsASeq
<1>6. /\ new \in Movers /\ new.allocated /\ new.list = list /\ new.wasSet = m.wasSet
      /\ new.modelStart = m.modelStart
  BY <1>5 DEF Extended, Sound, Movers
<1> HIDE DEF list, new
<1>7. Sound(new) /\ Current(new, les, elapsed)
  BY <1>4, <1>5, <1>6 DEF Sound, Current
<1>8. InPlace(m, les) => InPlace(new, les)
  BY <1>4, <1>5, <1>6 DEF InPlace
<1> QED
  BY <1>6, <1>7, <1>8 DEF new

\* UpdateUncertainty brings the list up to date, whatever it was.
LEMMA UpdateSound ==
    ASSUME NEW m, Sound(m), NEW les \in Seq(Ids), NEW elapsed \in Int
    PROVE  LET new == UpdateUncertainty(m, les, elapsed)
           IN  /\ Sound(new) /\ Current(new, les, elapsed)
               /\ InPlace(m, les) => InPlace(new, les)
               /\ new.modelStart = m.modelStart
<1> USE UncertaintyAssumption
<1> DEFINE new == UpdateUncertainty(m, les, elapsed)
<1>1. CASE elapsed < Delay
  <2>1. new = IF m.allocated THEN Disposed(m) ELSE m
    BY <1>1 DEF UpdateUncertainty
  <2>2. Sound(new) /\ ~new.allocated /\ new.list = <<>> /\ new.modelStart = m.modelStart
    BY <2>1, DisposedSound DEF Sound
  <2> HIDE DEF new
  <2>3. Current(new, les, elapsed)
    BY <1>1, <2>2 DEF Current
  <2>4. InPlace(new, les)
    BY <2>2 DEF InPlace
  <2> QED
    BY <2>2, <2>3, <2>4 DEF new
<1>2. CASE elapsed >= Delay /\ (NeedToReInit(m, les, elapsed) \/ elapsed >= m.wasSet + Duration)
  <2>1. new = DrawnAfresh(m, les, elapsed) /\ elapsed \in Nat
    BY <1>2 DEF UpdateUncertainty
  <2> QED
    BY <1>2, <2>1, DrawnSound
<1>3. CASE elapsed >= Delay /\ ~NeedToReInit(m, les, elapsed) /\ ~(elapsed >= m.wasSet + Duration)
  <2>1. new = Extended(m, les, elapsed) /\ elapsed \in Nat
    BY <1>3 DEF UpdateUncertainty
  <2>2. m.allocated /\ m.wasSet \in Nat /\ m.list \in Seq(Records)
    BY <1>3 DEF NeedToReInit, Sound, Movers
  <2>3. m.wasSet <= elapsed /\ Len(m.list) <= Len(les) /\ elapsed < m.wasSet + Duration
    BY <1>3, <2>1, <2>2 DEF NeedToReInit
  <2> QED
    BY <1>3, <2>1, <2>2, <2>3, ExtendedSound
<1> QED
  BY <1>1, <1>2, <1>3

\* ReallocateUncertainty keeps the records where the elements they belong to
\* end up.
LEMMA ReallocateSound ==
    ASSUME NEW m, Sound(m), NEW les \in Seq(Ids), NEW gone
    PROVE  LET new == ReallocateUncertainty(m, Len(les), gone)
           IN  /\ Sound(new)
               /\ InPlace(m, les) /\ (m.allocated => Len(m.list) = Len(les)) =>
                      InPlace(new, Without(les, gone))
<1> DEFINE n == Len(les)
           kept == (1 .. n) \ gone
           new == ReallocateUncertainty(m, n, gone)
           list == Without(m.list, gone)
<1>1. m.list \in Seq(Records) /\ m.wasSet \in Nat
  BY DEF Sound, Movers
<1>2. CASE ~m.allocated \/ Len(m.list) # n
  <2>1. new = m
    BY <1>2 DEF ReallocateUncertainty
  <2>2. ~m.allocated => m.list = <<>>
    BY DEF Sound
  <2> QED
    BY <1>2, <2>1, <2>2 DEF InPlace
<1>3. CASE m.allocated /\ Len(m.list) = n /\ kept = {}
  <2>1. new = Disposed(m)
    BY <1>3 DEF ReallocateUncertainty
  <2>2. Sound(new) /\ new.list = <<>>
    BY <2>1, DisposedSound
  <2> QED
    BY <2>2 DEF InPlace
<1>4. CASE m.allocated /\ Len(m.list) = n /\ kept # {}
  <2>1. new = [m EXCEPT !.list = list]
    BY <1>4 DEF ReallocateUncertainty
  <2>2. /\ list \in Seq(Records)
        /\ DOMAIN list = 1 .. Cardinality(kept)
        /\ \A k \in 1 .. Cardinality(kept) : /\ NthOf(kept, k) \in DOMAIN m.list
                                             /\ list[k] = m.list[NthOf(kept, k)]
    <3> DEFINE l == m.list
    <3>1. l \in Seq(Records) /\ kept = (1 .. Len(l)) \ gone
      BY <1>1, <1>4
    <3> HIDE DEF l, kept
    <3>2. /\ Without(l, gone) \in Seq(Records)
          /\ DOMAIN Without(l, gone) = 1 .. Cardinality(kept)
          /\ \A k \in 1 .. Cardinality(kept) :
                 /\ NthOf(kept, k) \in DOMAIN l
                 /\ Without(l, gone)[k] = l[NthOf(kept, k)]
      BY <3>1, WithoutList
    <3> QED
      BY <3>2 DEF l
  <2>3. /\ DOMAIN Without(les, gone) = 1 .. Cardinality(kept)
        /\ \A k \in 1 .. Cardinality(kept) :
               Without(les, gone)[k] = les[NthOf(kept, k)]
    BY WithoutList
  <2> HIDE DEF list, kept
  <2>4. new \in Movers /\ new.list = list /\ new.wasSet = m.wasSet /\ new.allocated
    BY <1>4, <2>1, <2>2 DEF Sound, Movers
  <2>5. Sound(new)
    BY <2>2, <2>4 DEF Sound
  <2>6. InPlace(m, les) => InPlace(new, Without(les, gone))
    BY <2>2, <2>3, <2>4 DEF InPlace
  <2> QED
    BY <2>5, <2>6
<1> QED
  BY <1>2, <1>3, <1>4

-----------------------------------------------------------------------------
(* The invariant.                                                          *)

\* Between the calls of a step: a sound list, up to date inside a step of an
\* active mover, and in place if the mover takes part in every step.
IInv ==
    /\ TypeOK
    /\ Sound(mover)
    /\ alwaysOn => active /\ InPlace(mover, elements)
    /\ Moving => Current(mover, elements, Elapsed)

LEMMA InvInit == Init => IInv
<1> SUFFICES ASSUME Init PROVE IInv
  OBVIOUS
<1> USE UncertaintyAssumption
<1>1. mover \in Movers /\ mover.list = <<>> /\ ~mover.allocated
  <2>1. <<>> \in Seq(Records)
    OBVIOUS
  <2> QED
    BY <2>1 DEF Init, NewMover, Movers
<1>2. Sound(mover) /\ InPlace(mover, elements)
  BY <1>1 DEF Sound, InPlace
<1>3. TypeOK
  BY <1>1 DEF Init, TypeOK, Movers
<1> QED
  BY <1>2, <1>3 DEF Init, IInv, Moving

LEMMA InvNext == IInv /\ [Next]_vars => IInv'
<1> SUFFICES ASSUME IInv, [Next]_vars PROVE IInv'
  OBVIOUS
<1> USE UncertaintyAssumption
<1>0. TypeOK /\ Sound(mover) /\ elements \in Seq(Ids) /\ mover \in Movers
  BY DEF IInv, TypeOK, Ids, Sound
<1>1. CASE PrepareForModelRun
  <2>1. /\ elements' = <<>> /\ released' = 0 /\ marked' = {} /\ clock' = 0
        /\ phase' = "released" /\ UNCHANGED <<lead, alwaysOn, active>>
    BY <1>1 DEF PrepareForModelRun
  <2>2. PICK on \in Activities :
            mover' = IF on THEN [Disposed(mover) EXCEPT !.firstStep = TRUE] ELSE mover
    BY <1>1 DEF PrepareForModelRun
  <2>3. CASE on
    <3> DEFINE d == Disposed(mover)
    <3>1. Sound(d) /\ d.list = <<>> /\ ~d.allocated
      BY <1>0, DisposedSound
    <3>2. mover' = [d EXCEPT !.firstStep = TRUE]
      BY <2>2, <2>3
    <3> HIDE DEF d
    <3>3. mover' \in Movers /\ mover'.list = <<>> /\ ~mover'.allocated
      BY <3>1, <3>2 DEF Sound, Movers
    <3>4. Sound(mover') /\ InPlace(mover', elements')
      BY <3>3 DEF Sound, InPlace
    <3>5. TypeOK'
      BY <1>0, <2>1, <3>3 DEF TypeOK, Movers
    <3> QED
      BY <2>1, <3>4, <3>5 DEF IInv, Moving
  <2>4. CASE ~on
    <3>1. mover' = mover /\ ~alwaysOn
      BY <2>2, <2>4 DEF Activities
    <3>2. TypeOK'
      BY <1>0, <2>1, <3>1 DEF TypeOK
    <3> QED
      BY <1>0, <2>1, <3>1, <3>2 DEF IInv, Moving
  <2> QED
    BY <2>3, <2>4
<1>2. CASE ReleaseElements
  <2>1. /\ elements' = Append(elements, released + 1) /\ released' = released + 1
        /\ UNCHANGED <<lead, alwaysOn, marked, clock, phase, active, mover>>
        /\ phase = "released"
    BY <1>2 DEF ReleaseElements
  <2>2. released + 1 \in Ids
    BY <1>0 DEF TypeOK, Ids
  <2>3. /\ elements' \in Seq(Ids) /\ Len(elements') = Len(elements) + 1
        /\ \A i \in DOMAIN elements : i \in DOMAIN elements' /\ elements'[i] = elements[i]
    BY <1>0, <2>1, <2>2
  <2>4. InPlace(mover, elements) => InPlace(mover', elements')
    BY <2>1, <2>3 DEF InPlace
  <2>5. TypeOK'
    BY <1>0, <2>1, <2>3 DEF TypeOK, Ids
  <2> QED
    BY <1>0, <2>1, <2>4, <2>5 DEF IInv, Moving
<1>3. CASE PrepareForModelStep
  <2> DEFINE start == IF mover.firstStep THEN clock ELSE mover.modelStart
             m == [mover EXCEPT !.modelStart = start]
             elapsed == clock + lead - start
  <2>1. /\ phase' = "prepared" /\ active' \in Activities
        /\ mover' = IF active' THEN UpdateUncertainty(m, elements, elapsed) ELSE mover
        /\ UNCHANGED <<lead, alwaysOn, elements, released, marked, clock>>
    BY <1>3 DEF PrepareForModelStep
  <2>2. CASE active'
    <3>1. start \in Nat /\ elapsed \in Int
      BY <1>0 DEF TypeOK, Movers
    <3>2. Sound(m) /\ m.modelStart = start
      <4> HIDE DEF start
      <4>1. /\ m \in Movers /\ m.list = mover.list /\ m.wasSet = mover.wasSet
            /\ m.allocated = mover.allocated /\ m.modelStart = start
        BY <1>0, <3>1 DEF Movers
      <4> HIDE DEF m
      <4> QED
        BY <1>0, <4>1 DEF Sound
    <3>3. InPlace(mover, elements) => InPlace(m, elements)
      BY <1>0 DEF InPlace, Movers
    <3>4. mover' = UpdateUncertainty(m, elements, elapsed)
      BY <2>1, <2>2
    <3> HIDE DEF m, start
    <3>5. /\ Sound(mover') /\ Current(mover', elements, elapsed)
          /\ InPlace(m, elements) => InPlace(mover', elements)
          /\ mover'.modelStart = start
      BY <1>0, <3>1, <3>2, <3>4, UpdateSound
    <3>6. Elapsed' = elapsed
      BY <2>1, <3>5 DEF Elapsed
    <3>7. TypeOK'
      BY <1>0, <2>1, <2>2, <3>5 DEF TypeOK, Sound, Movers
    <3> HIDE DEF elapsed
    <3> QED
      BY <2>1, <2>2, <3>3, <3>5, <3>6, <3>7 DEF IInv, Moving
  <2>3. CASE ~active'
    <3>1. mover' = mover /\ ~alwaysOn'
      BY <2>1, <2>3 DEF Activities
    <3>2. TypeOK'
      BY <1>0, <2>1, <2>3, <3>1 DEF TypeOK, Activities
    <3> QED
      BY <1>0, <2>1, <2>3, <3>1, <3>2 DEF IInv, Moving
  <2> QED
    BY <2>2, <2>3
<1>4. CASE MoveElements
  <2>1. /\ phase = "prepared" /\ phase' = "moved" /\ marked' \in SUBSET DOMAIN elements
        /\ UNCHANGED <<lead, alwaysOn, elements, released, clock, active, mover>>
    BY <1>4 DEF MoveElements
  <2>2. TypeOK'
    BY <1>0, <2>1 DEF TypeOK
  <2> QED
    BY <1>0, <2>1, <2>2 DEF IInv, Moving, Elapsed
<1>5. CASE StepIsDone
  <2> DEFINE m == [mover EXCEPT !.firstStep = FALSE]
             left == Without(elements, marked)
  <2>1. /\ phase = "moved" /\ phase' = "released" /\ elements' = left /\ marked' = {}
        /\ clock' = clock + 1 /\ UNCHANGED <<lead, alwaysOn, released, active>>
        /\ mover' = IF ~active THEN mover
                    ELSE IF elements = <<>> THEN m
                    ELSE ReallocateUncertainty(m, Len(elements), marked)
    BY <1>5 DEF StepIsDone
  <2>2. left \in Seq(Ids)
    BY <1>0, WithoutList
  <2>3. /\ m \in Movers /\ m.list = mover.list /\ m.wasSet = mover.wasSet
        /\ m.allocated = mover.allocated
    BY <1>0 DEF Movers
  <2> HIDE DEF m
  <2>4. Sound(m)
    BY <1>0, <2>3 DEF Sound
  <2>5. Sound(mover')
    BY <1>0, <2>1, <2>4, ReallocateSound
  <2>6. ASSUME alwaysOn PROVE InPlace(mover', elements')
    <3>1. active /\ InPlace(m, elements) /\ (m.allocated => Len(m.list) = Len(elements))
      BY <2>1, <2>3, <2>6 DEF IInv, InPlace, Moving, Current
    <3>2. CASE elements = <<>>
      <4>1. mover' = m
        BY <2>1, <3>1, <3>2
      <4>2. DOMAIN m.list = {}
        BY <3>1, <3>2 DEF InPlace
      <4> QED
        BY <4>1, <4>2 DEF InPlace
    <3>3. CASE elements # <<>>
      BY <1>0, <2>1, <2>4, <3>1, <3>3, ReallocateSound
    <3> QED
      BY <3>2, <3>3
  <2> HIDE DEF left
  <2>7. TypeOK'
    BY <1>0, <2>1, <2>2, <2>5 DEF TypeOK, Sound, Movers, Ids
  <2> QED
    BY <2>1, <2>5, <2>6, <2>7 DEF IInv, Moving
<1>6. CASE UNCHANGED vars
  BY <1>6 DEF vars, IInv, TypeOK, Moving, Elapsed
<1> QED
  BY <1>1, <1>2, <1>3, <1>4, <1>5, <1>6 DEF Next

-----------------------------------------------------------------------------
(* What a caller of AddUncertainty may rely on.                            *)

\* While elements are moved with uncertainty there is one record for each,
\* for any number of elements released, removed or kept (AddUncertainty reads
\* the list without looking at its size).
THEOREM OneRecordEach == Spec => []OneRecordPerElement
<1>1. IInv => OneRecordPerElement
  BY DEF IInv, OneRecordPerElement, Current
<1> QED
  BY <1>1, InvInit, InvNext, PTL DEF Spec

\* No element is moved with a record older than the duration, whatever the
\* duration and the delay (UpdateUncertainty).
THEOREM NoneTooOld == Spec => []NoneOutlivesDuration
<1>1. IInv => NoneOutlivesDuration
  <2> SUFFICES ASSUME IInv, Moving, mover.allocated, NEW i \in DOMAIN mover.list
               PROVE  Elapsed - mover.list[i].drawn < Duration
    BY DEF NoneOutlivesDuration
  <2>1. Elapsed \in Int /\ mover.wasSet \in Nat /\ mover.list[i].drawn \in Nat
    <3>1. clock \in Nat /\ lead \in {0, 1} /\ mover \in Movers
      BY DEF IInv, TypeOK, Movers
    <3>2. mover.modelStart \in Nat /\ mover.wasSet \in Nat /\ mover.list \in Seq(Records)
      BY <3>1 DEF Movers
    <3>3. mover.list[i] \in Records
      BY <3>2, ElementOfSeq
    <3> QED
      BY <3>1, <3>2, <3>3 DEF Elapsed, Records
  <2>2. Elapsed < mover.wasSet + Duration /\ mover.wasSet <= mover.list[i].drawn
    BY DEF IInv, Current, Sound
  <2> QED
    BY <2>1, <2>2, UncertaintyAssumption
<1> QED
  BY <1>1, InvInit, InvNext, PTL DEF Spec

\* Every state of the list, the arrays and the clock is well typed
\* (CurrentMover_c.cpp, model.py).
THEOREM TypeCorrect == Spec => []TypeOK
<1>1. IInv => TypeOK
  BY DEF IInv
<1> QED
  BY <1>1, InvInit, InvNext, PTL DEF Spec

\* The records of a mover that takes part in every step stay with the
\* elements they were drawn for, for any number of elements and removals
\* (ReallocateUncertainty, model_step_is_done).
THEOREM RecordsInPlace == Spec => []RecordsStayWithElements
<1>1. IInv => RecordsStayWithElements
  BY DEF IInv, RecordsStayWithElements, InPlace
<1> QED
  BY <1>1, InvInit, InvNext, PTL DEF Spec

-----------------------------------------------------------------------------
(* How long a record lives.                                                *)

\* The elements are different, and none is newer than the n-th released.
Apart(les, n) ==
    /\ \A i \in DOMAIN les : les[i] <= n
    /\ \A i, j \in DOMAIN les : les[i] = les[j] => i = j

\* Records of the same element are the same in two lists.
SameRecords(old, new) ==
    \A i \in DOMAIN old, j \in DOMAIN new :
        old[i].le = new[j].le => new[j] = old[i]

LEMMA WithoutApart ==
    ASSUME NEW les \in Seq(Ids), NEW n \in Nat, Apart(les, n), NEW gone
    PROVE  Apart(Without(les, gone), n)
<1> DEFINE kept == (1 .. Len(les)) \ gone
           left == Without(les, gone)
<1>1. /\ DOMAIN left = 1 .. Cardinality(kept)
      /\ \A k \in 1 .. Cardinality(kept) : /\ NthOf(kept, k) \in DOMAIN les
                                           /\ left[k] = les[NthOf(kept, k)]
  <2> HIDE DEF left
  <2>1. LET k == (1 .. Len(les)) \ gone
        IN  /\ DOMAIN Without(les, gone) = 1 .. Cardinality(k)
            /\ \A i \in 1 .. Cardinality(k) :
                   /\ NthOf(k, i) \in DOMAIN les
                   /\ Without(les, gone)[i] = les[NthOf(k, i)]
    BY WithoutList
  <2> QED
    BY <2>1 DEF left
<1>2. Len(les) \in Nat /\ kept \in SUBSET (1 .. Len(les))
  OBVIOUS
<1> HIDE DEF kept, left
<1>3. ASSUME NEW i \in DOMAIN left, NEW j \in DOMAIN left, left[i] = left[j]
      PROVE  i = j
  <2>1. NthOf(kept, i) = NthOf(kept, j)
    BY <1>1, <1>3 DEF Apart
  <2>2. /\ Cardinality({x \in kept : x <= NthOf(kept, i)}) = i
        /\ Cardinality({x \in kept : x <= NthOf(kept, j)}) = j
    BY <1>1, <1>2, NthMember
  <2> QED
    BY <2>1, <2>2
<1>4. \A i \in DOMAIN left : left[i] <= n
  BY <1>1 DEF Apart
<1> QED
  BY <1>3, <1>4 DEF Apart, left

\* Records in place of different elements are the same when they sit at the
\* same place.
LEMMA ReallocateKeeps ==
    ASSUME NEW m, Sound(m), NEW les \in Seq(Ids), NEW n \in Nat,
           Apart(les, n), InPlace(m, les), NEW gone
    PROVE  LET new == ReallocateUncertainty(m, Len(les), gone)
           IN  /\ SameRecords(m.list, new.list)
               /\ new.allocated => m.allocated /\ new.wasSet = m.wasSet
               /\ new.firstStep = m.firstStep
               /\ new.modelStart = m.modelStart
<1> DEFINE kept == (1 .. Len(les)) \ gone
           new == ReallocateUncertainty(m, Len(les), gone)
           list == Without(m.list, gone)
<1>1. m \in Movers /\ m.list \in Seq(Records)
  BY DEF Sound, Movers
<1>2. ASSUME NEW i \in DOMAIN m.list, NEW j \in DOMAIN m.list,
             m.list[i].le = m.list[j].le
      PROVE  i = j
  BY <1>2 DEF InPlace, Apart
<1>3. CASE ~m.allocated \/ Len(m.list) # Len(les)
  <2>1. new = m
    BY <1>3 DEF ReallocateUncertainty
  <2> HIDE DEF new
  <2>2. SameRecords(m.list, new.list)
    BY <1>2, <2>1 DEF SameRecords
  <2> QED
    BY <2>1, <2>2, Zenon DEF new
<1>4. CASE m.allocated /\ Len(m.list) = Len(les) /\ kept = {}
  <2>1. new = Disposed(m)
    BY <1>4 DEF ReallocateUncertainty
  <2>2. /\ new.list = <<>> /\ ~new.allocated /\ new.firstStep = m.firstStep
        /\ new.modelStart = m.modelStart
    BY <1>1, <2>1 DEF Disposed, Movers
  <2> QED
    BY <2>2 DEF SameRecords
<1>5. CASE m.allocated /\ Len(m.list) = Len(les) /\ kept # {}
  <2>1. new = [m EXCEPT !.list = list]
    BY <1>5 DEF ReallocateUncertainty
  <2> DEFINE l == m.list
  <2>2. l \in Seq(Records) /\ kept = (1 .. Len(l)) \ gone
    BY <1>1, <1>5
  <2> HIDE DEF l, kept
  <2>3. /\ DOMAIN Without(l, gone) = 1 .. Cardinality(kept)
        /\ \A k \in 1 .. Cardinality(kept) :
               /\ NthOf(kept, k) \in DOMAIN l
               /\ Without(l, gone)[k] = l[NthOf(kept, k)]
    BY <2>2, WithoutList
  <2>4. /\ DOMAIN list = 1 .. Cardinality(kept)
        /\ \A k \in DOMAIN list : /\ NthOf(kept, k) \in DOMAIN m.list
                                  /\ list[k] = m.list[NthOf(kept, k)]
    BY <2>3 DEF l
  <2> HIDE DEF list
  <2>5. SameRecords(m.list, list)
    BY <1>2, <2>4 DEF SameRecords
  <2>6. /\ new.list = list /\ new.wasSet = m.wasSet
        /\ new.firstStep = m.firstStep /\ new.modelStart = m.modelStart
    BY <1>1, <2>1 DEF Movers
  <2> QED
    BY <1>5, <2>5, <2>6
<1> QED
  BY <1>3, <1>4, <1>5

\* A list is replaced before its time only when the clock was put back or
\* elements were taken away.
LEMMA UpdateKeeps ==
    ASSUME NEW m, Sound(m), NEW les \in Seq(Ids), NEW n \in Nat,
           Apart(les, n), InPlace(m, les), NEW elapsed \in Int,
           m.allocated => m.wasSet <= elapsed
    PROVE  LET new == UpdateUncertainty(m, les, elapsed)
           IN  /\ \/ SameRecords(m.list, new.list)
                  \/ new.wasSet >= m.wasSet + Duration
               /\ new.allocated => new.wasSet <= elapsed
               /\ new.firstStep = m.firstStep
<1> USE UncertaintyAssumption
<1> DEFINE new == UpdateUncertainty(m, les, elapsed)
<1>0. m \in Movers /\ m.list \in Seq(Records) /\ m.wasSet \in Nat
  BY DEF Sound, Movers
<1>1. CASE elapsed < Delay
  <2>1. new = IF m.allocated THEN Disposed(m) ELSE m
    BY <1>1 DEF UpdateUncertainty
  <2>2. new.list = <<>> /\ ~new.allocated /\ new.firstStep = m.firstStep
    BY <1>0, <2>1 DEF Disposed, Sound, Movers
  <2> QED
    BY <2>2 DEF SameRecords
<1>2. CASE elapsed >= Delay
           /\ (NeedToReInit(m, les, elapsed) \/ elapsed >= m.wasSet + Duration)
  <2>1. new = DrawnAfresh(m, les, elapsed)
    BY <1>2 DEF UpdateUncertainty
  <2>2. new.wasSet = elapsed /\ new.firstStep = m.firstStep
    BY <1>0, <2>1 DEF DrawnAfresh, Movers
  <2>3. \/ m.list = <<>>
        \/ elapsed >= m.wasSet + Duration
    <3>1. CASE ~m.allocated
      BY <3>1 DEF Sound
    <3>2. CASE m.allocated /\ NeedToReInit(m, les, elapsed)
      <4>1. Len(les) < Len(m.list)
        BY <1>0, <3>2 DEF NeedToReInit
      <4>2. /\ Len(les) \in Nat /\ Len(m.list) \in Nat
            /\ DOMAIN les = 1 .. Len(les) /\ DOMAIN m.list = 1 .. Len(m.list)
        BY <1>0
      <4>3. Len(m.list) \in DOMAIN m.list /\ Len(m.list) \notin DOMAIN les
        BY <4>1, <4>2
      <4> QED
        BY <4>3 DEF InPlace
    <3> QED
      BY <1>2, <3>1, <3>2
  <2> QED
    BY <2>2, <2>3 DEF SameRecords
<1>3. CASE elapsed >= Delay /\ ~NeedToReInit(m, les, elapsed)
           /\ ~(elapsed >= m.wasSet + Duration)
  <2>1. new = Extended(m, les, elapsed)
    BY <1>3 DEF UpdateUncertainty
  <2>2. m.allocated /\ m.wasSet <= elapsed
    BY <1>3 DEF NeedToReInit
  <2>3. /\ new.list = [i \in DOMAIN les |->
                          IF i \in DOMAIN m.list THEN m.list[i]
                          ELSE Drawn(les[i], elapsed)]
        /\ new.wasSet = m.wasSet /\ new.firstStep = m.firstStep
    BY <1>0, <2>1 DEF Extended, Movers
  <2>4. ASSUME NEW i \in DOMAIN m.list, NEW j \in DOMAIN new.list,
               m.list[i].le = new.list[j].le
        PROVE  new.list[j] = m.list[i]
    <3>1. i \in DOMAIN les /\ j \in DOMAIN les /\ m.list[i].le = les[i]
      BY <2>3 DEF InPlace
    <3>2. new.list[j].le = les[j]
      BY <2>3, <3>1 DEF InPlace, Drawn
    <3>3. i = j
      BY <2>4, <3>1, <3>2 DEF Apart
    <3> QED
      BY <2>3, <3>1, <3>3
  <2> QED
    BY <2>2, <2>3, <2>4 DEF SameRecords
<1> QED
  BY <1>1, <1>2, <1>3

\* The list of a mover that takes part in every step was drawn in this run,
\* and the clock has not been put back since.
DrawnInRun ==
    alwaysOn /\ mover.allocated =>
        /\ mover.wasSet <= Elapsed
        /\ phase # "rewound"
        /\ phase = "released" => ~mover.firstStep

LifeInv == IInv /\ Apart(elements, released) /\ DrawnInRun

\* What a step does to the records of such a mover.
RecordsHeld ==
    alwaysOn /\ clock' # 0 =>
        \/ SameRecords(mover.list, mover'.list)
        \/ mover'.wasSet >= mover.wasSet + Duration

LEMMA LifeInit == Init => LifeInv
<1>1. Init => Apart(elements, released)
  BY DEF Init, Apart
<1>2. Init => DrawnInRun
  BY DEF Init, NewMover, DrawnInRun
<1> QED
  BY <1>1, <1>2, InvInit DEF LifeInv

LEMMA LifeNext == LifeInv /\ [Next]_vars =>
                      /\ LifeInv'
                      /\ RecordsHeld
<1> SUFFICES ASSUME LifeInv, [Next]_vars
             PROVE  Apart(elements, released)' /\ DrawnInRun' /\ RecordsHeld
  BY InvNext DEF LifeInv
<1> USE UncertaintyAssumption
<1>0. /\ TypeOK /\ Sound(mover) /\ elements \in Seq(Ids) /\ mover \in Movers
      /\ Apart(elements, released) /\ released \in Nat
      /\ clock \in Nat /\ lead \in Nat /\ mover.modelStart \in Nat
      /\ mover.wasSet \in Nat
      /\ alwaysOn => active /\ InPlace(mover, elements)
  BY DEF LifeInv, IInv, TypeOK, Ids, Sound, Movers
<1>1. ASSUME UNCHANGED mover PROVE RecordsHeld
  <2> SUFFICES ASSUME alwaysOn PROVE SameRecords(mover.list, mover'.list)
    BY DEF RecordsHeld
  <2> QED
    BY <1>0, <1>1 DEF SameRecords, InPlace, Apart
<1>2. CASE PrepareForModelRun
  <2>1. elements' = <<>> /\ released' = 0 /\ clock' = 0 /\ alwaysOn' = alwaysOn
    BY <1>2 DEF PrepareForModelRun
  <2>2. ASSUME alwaysOn PROVE ~mover'.allocated
    <3>1. mover' = [Disposed(mover) EXCEPT !.firstStep = TRUE]
      BY <1>2, <2>2 DEF PrepareForModelRun, Activities
    <3> QED
      BY <1>0, <3>1 DEF Disposed, Movers
  <2> QED
    BY <2>1, <2>2 DEF Apart, DrawnInRun, RecordsHeld
<1>3. CASE ReleaseElements
  <2>1. /\ elements' = Append(elements, released + 1) /\ released' = released + 1
        /\ UNCHANGED <<lead, alwaysOn, clock, phase, mover>>
    BY <1>3 DEF ReleaseElements
  <2>2. /\ DOMAIN elements = 1 .. Len(elements) /\ Len(elements) \in Nat
        /\ DOMAIN elements' = 1 .. (Len(elements) + 1)
        /\ elements'[Len(elements) + 1] = released + 1
        /\ \A i \in 1 .. Len(elements) : /\ elements'[i] = elements[i]
                                         /\ elements[i] \in Nat
    BY <1>0, <2>1 DEF Ids
  <2>3. \A i \in DOMAIN elements : elements[i] <= released
    BY <1>0 DEF Apart
  <2>4. \A i \in DOMAIN elements' : i \in DOMAIN elements \/ i = Len(elements) + 1
    BY <2>2
  <2>5. \A i \in DOMAIN elements : elements'[i] = elements[i]
                                   /\ elements'[i] < released + 1
    BY <1>0, <2>2, <2>3
  <2>6. Apart(elements, released)'
    <3>1. \A i \in DOMAIN elements' : elements'[i] <= released'
      BY <1>0, <2>1, <2>2, <2>4, <2>5
    <3>2. ASSUME NEW i \in DOMAIN elements', NEW j \in DOMAIN elements',
                 elements'[i] = elements'[j]
          PROVE  i = j
      <4>1. CASE i \in DOMAIN elements /\ j \in DOMAIN elements
        BY <1>0, <2>5, <3>2, <4>1 DEF Apart
      <4>2. CASE i \notin DOMAIN elements \/ j \notin DOMAIN elements
        BY <1>0, <2>2, <2>4, <2>5, <3>2, <4>2
      <4> QED
        BY <4>1, <4>2
    <3> QED
      BY <3>1, <3>2 DEF Apart
  <2>7. DrawnInRun'
    BY <2>1 DEF LifeInv, DrawnInRun, Elapsed
  <2> QED
    BY <1>1, <2>1, <2>6, <2>7
<1>4. CASE PrepareForModelStep
  <2> DEFINE start == IF mover.firstStep THEN clock ELSE mover.modelStart
             m == [mover EXCEPT !.modelStart = start]
             elapsed == clock + lead - start
  <2>1. /\ phase = "released" /\ phase' = "prepared" /\ active' \in Activities
        /\ mover' = IF active' THEN UpdateUncertainty(m, elements, elapsed)
                    ELSE mover
        /\ UNCHANGED <<lead, alwaysOn, elements, released, clock>>
    BY <1>4 DEF PrepareForModelStep
  <2>2. Apart(elements, released)'
    BY <1>0, <2>1
  <2>3. CASE alwaysOn
    <3>1. mover' = UpdateUncertainty(m, elements, elapsed)
      BY <2>1, <2>3 DEF Activities
    <3>2. start \in Nat /\ elapsed \in Int
      BY <1>0
    <3>3. mover.allocated => mover.wasSet <= elapsed
      BY <1>0, <2>1, <2>3 DEF LifeInv, DrawnInRun, Elapsed
    <3> HIDE DEF start
    <3>4. /\ m \in Movers /\ m.list = mover.list /\ m.wasSet = mover.wasSet
          /\ m.allocated = mover.allocated /\ m.modelStart = start
      BY <1>0, <3>2 DEF Movers
    <3> HIDE DEF m
    <3>5. Sound(m) /\ InPlace(m, elements)
      BY <1>0, <2>3, <3>4 DEF Sound, InPlace
    <3>6. /\ \/ SameRecords(m.list, mover'.list)
             \/ mover'.wasSet >= m.wasSet + Duration
          /\ mover'.allocated => mover'.wasSet <= elapsed
      <4> HIDE DEF elapsed
      <4> QED
        BY <1>0, <3>1, <3>2, <3>3, <3>4, <3>5, UpdateKeeps
    <3>7. mover'.modelStart = m.modelStart
      <4> HIDE DEF elapsed
      <4> QED
        BY <1>0, <3>1, <3>2, <3>5, UpdateSound
    <3>8. Elapsed' = elapsed
      BY <2>1, <3>4, <3>7 DEF Elapsed
    <3> QED
      BY <2>1, <2>2, <3>4, <3>6, <3>8 DEF DrawnInRun, RecordsHeld
  <2> QED
    BY <2>1, <2>2, <2>3 DEF DrawnInRun, RecordsHeld
<1>5. CASE MoveElements
  <2>1. UNCHANGED <<lead, alwaysOn, elements, released, clock, mover>>
        /\ phase' = "moved"
    BY <1>5 DEF MoveElements
  <2>2. DrawnInRun'
    BY <2>1 DEF LifeInv, DrawnInRun, Elapsed
  <2> QED
    BY <1>0, <1>1, <2>1, <2>2 DEF Apart
<1>6. CASE StepIsDone
  <2> DEFINE m == [mover EXCEPT !.firstStep = FALSE]
  <2>1. /\ phase = "moved" /\ phase' = "released" /\ clock' = clock + 1
        /\ elements' = Without(elements, marked)
        /\ UNCHANGED <<lead, alwaysOn, released>>
        /\ mover' = IF ~active THEN mover
                    ELSE IF elements = <<>> THEN m
                    ELSE ReallocateUncertainty(m, Len(elements), marked)
    BY <1>6 DEF StepIsDone
  <2>2. Apart(elements, released)'
    BY <1>0, <2>1, WithoutApart
  <2>3. CASE alwaysOn
    <3>1. /\ m \in Movers /\ m.list = mover.list /\ m.wasSet = mover.wasSet
          /\ m.allocated = mover.allocated /\ m.modelStart = mover.modelStart
          /\ m.firstStep = FALSE
      BY <1>0 DEF Movers
    <3> HIDE DEF m
    <3>2. Sound(m) /\ InPlace(m, elements)
      BY <1>0, <2>3, <3>1 DEF Sound, InPlace
    <3>3. /\ SameRecords(m.list, mover'.list)
          /\ mover'.allocated => m.allocated /\ mover'.wasSet = m.wasSet
          /\ mover'.firstStep = m.firstStep
          /\ mover'.modelStart = m.modelStart
      <4>1. CASE elements = <<>>
        <5>1. mover' = m /\ DOMAIN m.list = {}
          BY <1>0, <2>1, <2>3, <3>2, <4>1 DEF InPlace
        <5> QED
          BY <5>1 DEF SameRecords
      <4>2. CASE elements # <<>>
        <5>1. mover' = ReallocateUncertainty(m, Len(elements), marked)
          BY <1>0, <2>1, <2>3, <4>2
        <5> QED
          BY <1>0, <3>2, <5>1, ReallocateKeeps
      <4> QED
        BY <4>1, <4>2
    <3>4. mover'.allocated => mover.wasSet <= Elapsed
      BY <2>3, <3>1, <3>3 DEF LifeInv, DrawnInRun
    <3>5. Elapsed' = Elapsed + 1 /\ Elapsed \in Int
      BY <1>0, <2>1, <3>1, <3>3 DEF Elapsed
    <3>6. DrawnInRun'
      BY <1>0, <2>1, <3>1, <3>3, <3>4, <3>5 DEF DrawnInRun
    <3> QED
      BY <2>2, <3>1, <3>3, <3>6 DEF RecordsHeld
  <2> QED
    BY <2>1, <2>2, <2>3 DEF DrawnInRun, RecordsHeld
<1>7. CASE UNCHANGED vars
  <2>1. DrawnInRun'
    BY <1>7 DEF LifeInv, DrawnInRun, Elapsed, vars
  <2> QED
    BY <1>0, <1>1, <1>7, <2>1 DEF Apart, vars
<1> QED
  BY <1>2, <1>3, <1>4, <1>5, <1>6, <1>7 DEF Next

\* An element keeps its record until the duration has passed since the list
\* was drawn, whatever is released or removed meanwhile, when the mover takes
\* part in every step (UpdateUncertainty, ReallocateUncertainty).
THEOREM RecordsLiveTheirTime == Spec => ResetOnlyAfterDuration
<1>1. LifeInv /\ [Next]_vars =>
          [ \A i \in DOMAIN mover.list, j \in DOMAIN mover'.list :
                alwaysOn /\ clock' # 0
                    /\ mover.list[i].le = mover'.list[j].le =>
                    \/ mover'.list[j] = mover.list[i]
                    \/ mover'.wasSet >= mover.wasSet + Duration ]_vars
  BY LifeNext DEF RecordsHeld, SameRecords
<1>2. LifeInv /\ [Next]_vars => LifeInv'
  BY LifeNext
<1> QED
  BY <1>1, <1>2, LifeInit, PTL DEF Spec, ResetOnlyAfterDuration

-----------------------------------------------------------------------------
(* The table of master pointers.                                           *)

\* A cache c of free places of the first k tables, none of them in it twice;
\* b are the blocks.
GoodCache(c, k, b) ==
    /\ c \in [Slots -> Places \cup {Null}]
    /\ \A s \in Slots : c[s] # Null => c[s][1] <= k /\ b[c[s]] = Free
    /\ \A s, t \in Slots : c[s] = c[t] /\ c[s] # Null => s = t

\* The blocks are in tables that were made, and a handle leads to its
\* owner's block.
TablesHold ==
    /\ tables \in 0 .. MaxTables
    /\ block \in [Places -> Owners \cup {Free}]
    /\ handle \in [Owners -> Places \cup {Null}]
    /\ \A p \in Places : block[p] # Free => p[1] <= tables
    /\ OwnersKeepTheirBlocks

TableInv == TablesHold /\ GoodCache(cache, tables, block)

LEMMA NullNoPlace == Null \notin Places /\ Slots # {} /\ 1 \in Slots
<1>1. 0 \notin 1 .. MaxTables
  BY HandleAssumption
<1>2. 1 \in Slots
  BY HandleAssumption DEF Slots
<1> QED
  BY <1>1, <1>2 DEF Null, Places

\* The first slot of a set is one of them.
LEMMA FirstMember ==
    ASSUME NEW S \in SUBSET Slots, S # {}
    PROVE  FirstWith(S) \in S
<1>1. S \in SUBSET (1 .. CacheSize) /\ CacheSize \in Nat
  BY HandleAssumption DEF Slots
<1>2. Cardinality(S) \in Nat \ {0} /\ 1 \in 1 .. Cardinality(S)
  BY <1>1, SizeOfPart
<1> QED
  BY <1>1, <1>2, NthMember DEF FirstWith

LEMMA TableInvInit == TableInit => TableInv
<1> SUFFICES ASSUME TableInit PROVE TableInv
  OBVIOUS
<1>1. TablesHold
  BY HandleAssumption, NullNoPlace DEF TableInit, TablesHold, OwnersKeepTheirBlocks
<1>2. GoodCache(cache, tables, block)
  BY DEF TableInit, GoodCache
<1> QED
  BY <1>1, <1>2 DEF TableInv

\* What a scan finds is a good cache, and its first slot is filled.
LEMMA ScanGood ==
    ASSUME TableInv, FreeIndices(tables) # {}
    PROVE  GoodCache(Refilled, tables, block) /\ Refilled[1] # Null
<1> DEFINE F == FreeIndices(tables)
           n == Cardinality(F)
<1>1. tables \in 1 .. MaxTables /\ F \in SUBSET (1 .. TableSize)
  <2>1. tables \in 0 .. MaxTables
    BY DEF TableInv, TablesHold
  <2>2. tables # 0 /\ F \in SUBSET (1 .. TableSize)
    BY DEF FreeIndices
  <2> QED
    BY <2>1, <2>2, HandleAssumption
<1>2. n \in Nat \ {0}
  <2> HIDE DEF F
  <2>1. F # {} /\ TableSize \in Nat
    BY HandleAssumption DEF F
  <2> QED
    BY <1>1, <2>1, SizeOfPart
<1>3. \A s \in Slots : s <= n =>
        /\ NthOf(F, s) \in F
        /\ Cardinality({j \in F : j <= NthOf(F, s)}) = s
  <2> HIDE DEF F
  <2> TAKE s \in Slots
  <2> HAVE s <= n
  <2>1. s \in 1 .. Cardinality(F)
    BY <1>2 DEF Slots
  <2> QED
    BY <1>1, <2>1, HandleAssumption, NthMember
<1>4. \A s \in Slots : Refilled[s] = IF s <= n THEN <<tables, NthOf(F, s)>> ELSE Null
  BY DEF Refilled
<1>5. \A i \in F : <<tables, i>> \in Places /\ block[<<tables, i>>] = Free
  BY <1>1 DEF FreeIndices, Places
<1> HIDE DEF F
<1>6. \A s \in Slots : Refilled[s] # Null => s <= n
  BY <1>4
<1>7. Refilled \in [Slots -> Places \cup {Null}]
  BY <1>3, <1>4, <1>5 DEF Refilled
<1>8. \A s \in Slots : Refilled[s] # Null =>
        Refilled[s][1] <= tables /\ block[Refilled[s]] = Free
  <2> TAKE s \in Slots
  <2> HAVE Refilled[s] # Null
  <2>1. NthOf(F, s) \in F /\ Refilled[s] = <<tables, NthOf(F, s)>>
    BY <1>3, <1>4, <1>6
  <2>2. Refilled[s][1] = tables /\ block[Refilled[s]] = Free
    BY <1>5, <2>1
  <2> QED
    BY <1>1, <2>2
<1>9. \A s, t \in Slots : Refilled[s] = Refilled[t] /\ Refilled[s] # Null => s = t
  <2> TAKE s, t \in Slots
  <2> HAVE Refilled[s] = Refilled[t] /\ Refilled[s] # Null
  <2>1. s <= n /\ t <= n
    BY <1>6
  <2>2. <<tables, NthOf(F, s)>> = <<tables, NthOf(F, t)>>
    BY <1>4, <2>1
  <2>3. NthOf(F, s) = NthOf(F, t)
    BY <2>2
  <2> QED
    BY <1>3, <2>1, <2>3
<1>10. 1 \in Slots /\ 1 <= n
  BY <1>2, HandleAssumption DEF Slots
<1>11. Refilled[1] \in Places
  BY <1>3, <1>4, <1>5, <1>10
<1> QED
  BY <1>7, <1>8, <1>9, <1>11, NullNoPlace DEF GoodCache

\* So are the first places of a new table.
LEMMA NewTableGood ==
    ASSUME TableInv, tables < MaxTables
    PROVE  /\ GoodCache(FirstPlaces(tables + 1), tables + 1, block)
           /\ FirstPlaces(tables + 1)[1] = <<tables + 1, 1>>
           /\ <<tables + 1, 1>> # Null /\ 1 \in Slots
<1> DEFINE c == FirstPlaces(tables + 1)
<1>1. tables \in Nat /\ tables + 1 \in 1 .. MaxTables
  BY HandleAssumption DEF TableInv, TablesHold
<1>2. 1 \in Slots /\ Slots \subseteq 1 .. TableSize /\ Slots \subseteq Nat
  BY HandleAssumption DEF Slots
<1>3. \A s \in Slots : c[s] = <<tables + 1, s>> /\ c[s] \in Places
  BY <1>1, <1>2 DEF FirstPlaces, Places
<1>4. c \in [Slots -> Places \cup {Null}]
  BY <1>3 DEF FirstPlaces
<1>5. \A s \in Slots : c[s][1] <= tables + 1 /\ block[c[s]] = Free
  <2> TAKE s \in Slots
  <2>1. c[s] \in Places /\ c[s][1] = tables + 1
    BY <1>3
  <2>2. ~(c[s][1] <= tables) /\ c[s][1] <= tables + 1
    BY <1>1, <2>1
  <2> QED
    BY <2>1, <2>2 DEF TableInv, TablesHold
<1>6. \A s, t \in Slots : c[s] = c[t] => s = t
  BY <1>3
<1>7. c[1] = <<tables + 1, 1>> /\ c[1] # Null
  BY <1>2, <1>3, NullNoPlace
<1> HIDE DEF c
<1>8. GoodCache(c, tables + 1, block)
  BY <1>4, <1>5, <1>6 DEF GoodCache
<1> QED
  BY <1>2, <1>7, <1>8 DEF c

\* A place of a good cache may be handed out.
LEMMA GrantKeeps ==
    ASSUME TableInv, NEW o \in Owners, handle[o] = Null,
           NEW k \in tables .. MaxTables, NEW c, GoodCache(c, k, block),
           NEW s \in Slots, NEW p, p = c[s], p # Null, Grant(o, p, c, k)
    PROVE  TableInv'
<1> USE DEF TableInv
<1>1. p \in Places /\ p[1] <= k /\ block[p] = Free
  BY DEF GoodCache
<1>2. tables' = k /\ tables \in Nat /\ k \in 0 .. MaxTables /\ tables <= k
  BY HandleAssumption DEF Grant, TablesHold
<1>3. \A q \in Places : q[1] <= tables => q[1] <= k
  BY <1>2 DEF Places
<1>4. CASE cache' = c /\ UNCHANGED <<block, handle>>
  <2>1. TablesHold'
    BY <1>2, <1>3, <1>4 DEF TablesHold, OwnersKeepTheirBlocks
  <2> QED
    BY <1>2, <1>4, <2>1
<1>5. CASE /\ block' = [block EXCEPT ![p] = o]
           /\ handle' = [handle EXCEPT ![o] = p]
           /\ cache' = Uncached(c, p)
  <2>1. block' \in [Places -> Owners \cup {Free}] /\ block'[p] = o
        /\ \A q \in Places : q # p => block'[q] = block[q]
    BY <1>1, <1>5 DEF TablesHold
  <2>2. handle' \in [Owners -> Places \cup {Null}] /\ handle'[o] = p
        /\ \A q \in Owners : q # o => handle'[q] = handle[q]
    BY <1>1, <1>5 DEF TablesHold
  <2>3. \A q \in Places : block'[q] # Free => q[1] <= k
    BY <1>1, <1>2, <1>3, <2>1 DEF TablesHold
  <2>4. \A q \in Owners : handle'[q] # Null => block'[handle'[q]] = q
    <3> TAKE q \in Owners
    <3> HAVE handle'[q] # Null
    <3>1. CASE q = o
      BY <2>1, <2>2, <3>1
    <3>2. CASE q # o
      <4>1. handle[q] \in Places /\ handle'[q] = handle[q] /\ block[handle[q]] = q
        BY <2>2, <3>2 DEF TablesHold, OwnersKeepTheirBlocks
      <4>2. handle[q] # p
        BY <1>1, <4>1, OwnersAssumption
      <4> QED
        BY <2>1, <4>1, <4>2
    <3> QED
      BY <3>1, <3>2
  <2>5. TablesHold'
    BY <1>2, <2>1, <2>2, <2>3, <2>4 DEF TablesHold, OwnersKeepTheirBlocks
  <2>6. PICK f \in Slots : c[f] = p /\ cache' = [c EXCEPT ![f] = Null]
    <3>1. With(c, p) \in SUBSET Slots /\ With(c, p) # {}
      BY DEF With
    <3>2. FirstWith(With(c, p)) \in With(c, p)
      BY <3>1, FirstMember
    <3> QED
      BY <1>5, <3>1, <3>2 DEF Uncached, With
  <2>7. cache' \in [Slots -> Places \cup {Null}] /\ cache'[f] = Null
        /\ \A t \in Slots : t # f => cache'[t] = c[t] /\ c[t] # p
    BY <2>6 DEF GoodCache
  <2>8. \A t \in Slots : cache'[t] # Null =>
            cache'[t][1] <= k /\ block'[cache'[t]] = Free
    BY <2>1, <2>7 DEF GoodCache
  <2>9. \A t, u \in Slots : cache'[t] = cache'[u] /\ cache'[t] # Null => t = u
    BY <2>7 DEF GoodCache
  <2>10. GoodCache(cache', tables', block')
    BY <1>2, <2>7, <2>8, <2>9 DEF GoodCache
  <2> QED
    BY <2>5, <2>10 DEF GoodCache
<1> QED
  BY <1>4, <1>5 DEF Grant

LEMMA NewHandleKeeps ==
    ASSUME TableInv, NEW o \in Owners, NewHandle(o)
    PROVE  TableInv'
<1>1. handle[o] = Null /\ tables \in tables .. MaxTables /\ tables \in Nat
  BY HandleAssumption DEF NewHandle, TableInv, TablesHold
<1>2. CASE With(cache, Null) # Slots
  <2> DEFINE f == FirstWith(Slots \ With(cache, Null))
  <2>1. f \in Slots \ With(cache, Null)
    <3>1. With(cache, Null) \subseteq Slots
      BY DEF With
    <3> QED
      BY <1>2, <3>1, FirstMember
  <2>2. Grant(o, cache[f], cache, tables)
    BY <1>2 DEF NewHandle
  <2> HIDE DEF f
  <2>3. f \in Slots /\ cache[f] # Null
    BY <2>1 DEF With
  <2>4. GoodCache(cache, tables, block)
    BY DEF TableInv
  <2> QED
    BY <1>1, <2>2, <2>3, <2>4, GrantKeeps
<1>3. CASE With(cache, Null) = Slots /\ FreeIndices(tables) # {}
  <2>1. Grant(o, Refilled[1], Refilled, tables)
    BY <1>3 DEF NewHandle
  <2>2. 1 \in Slots
    BY HandleAssumption DEF Slots
  <2> QED
    BY <1>1, <1>3, <2>1, <2>2, ScanGood, GrantKeeps
<1>4. CASE With(cache, Null) = Slots /\ FreeIndices(tables) = {}
  <2>1. tables < MaxTables /\ Grant(o, <<tables + 1, 1>>, FirstPlaces(tables + 1), tables + 1)
    BY <1>4 DEF NewHandle
  <2>2. tables + 1 \in tables .. MaxTables
    BY <1>1, <2>1, HandleAssumption
  <2>3. /\ GoodCache(FirstPlaces(tables + 1), tables + 1, block)
        /\ FirstPlaces(tables + 1)[1] = <<tables + 1, 1>>
        /\ <<tables + 1, 1>> # Null /\ 1 \in Slots
    BY <2>1, NewTableGood
  <2> QED
    BY <1>1, <2>1, <2>2, <2>3, GrantKeeps
<1> QED
  BY <1>2, <1>3, <1>4

LEMMA DisposeHandleKeeps ==
    ASSUME TableInv, NEW o \in Owners, DisposeHandle(o)
    PROVE  TableInv'
<1> DEFINE p == handle[o]
<1> USE DEF TableInv
<1>1. p \in Places /\ block[p] = o /\ o # Free /\ tables' = tables
  BY OwnersAssumption DEF DisposeHandle, TablesHold, OwnersKeepTheirBlocks
<1>2. block' = [block EXCEPT ![p] = Free] /\ handle' = [handle EXCEPT ![o] = Null]
  BY DEF DisposeHandle
<1> HIDE DEF p
<1>3. block' \in [Places -> Owners \cup {Free}] /\ block'[p] = Free
      /\ \A q \in Places : q # p => block'[q] = block[q]
  BY <1>1, <1>2 DEF TablesHold
<1>4. handle' \in [Owners -> Places \cup {Null}] /\ handle'[o] = Null
      /\ \A q \in Owners : q # o => handle'[q] = handle[q]
  BY <1>2 DEF TablesHold
<1>5. TablesHold'
  <2>1. \A q \in Places : block'[q] # Free => q[1] <= tables
    BY <1>3 DEF TablesHold
  <2>2. \A q \in Owners : handle'[q] # Null => block'[handle'[q]] = q
    BY <1>1, <1>3, <1>4 DEF TablesHold, OwnersKeepTheirBlocks
  <2> QED
    BY <1>1, <1>3, <1>4, <2>1, <2>2 DEF TablesHold, OwnersKeepTheirBlocks
<1>6. \A s \in Slots : cache[s] # p
  BY <1>1, NullNoPlace DEF GoodCache
<1>7. p[1] <= tables
  BY <1>1 DEF TablesHold
<1>8. CASE With(cache, Null) = {}
  <2>1. cache' = cache
    BY <1>8 DEF DisposeHandle
  <2>2. GoodCache(cache', tables', block')
    BY <1>1, <1>3, <1>6, <2>1 DEF GoodCache
  <2> QED
    BY <1>5, <2>2 DEF GoodCache
<1>9. CASE With(cache, Null) # {}
  <2>1. PICK f \in Slots : cache' = [cache EXCEPT ![f] = p]
    <3>1. With(cache, Null) \subseteq Slots
      BY DEF With
    <3>2. FirstWith(With(cache, Null)) \in Slots
      BY <1>9, <3>1, FirstMember
    <3> QED
      BY <1>9, <3>2 DEF DisposeHandle, p
  <2>2. cache' \in [Slots -> Places \cup {Null}] /\ cache'[f] = p
        /\ \A t \in Slots : t # f => cache'[t] = cache[t]
    BY <1>1, <2>1 DEF GoodCache
  <2>3. \A t \in Slots : cache'[t] # Null =>
            cache'[t][1] <= tables /\ block'[cache'[t]] = Free
    BY <1>3, <1>6, <1>7, <2>2 DEF GoodCache
  <2>4. \A t, u \in Slots : cache'[t] = cache'[u] /\ cache'[t] # Null => t = u
    BY <1>6, <2>2 DEF GoodCache
  <2>5. GoodCache(cache', tables', block')
    BY <1>1, <2>2, <2>3, <2>4 DEF GoodCache
  <2> QED
    BY <1>5, <2>5 DEF GoodCache
<1> QED
  BY <1>8, <1>9

\* A handle leads to its owner's block, for tables and caches of any size
\* and any sequence of allocations and disposals (_NewHandle,
\* _DisposeHandleReally).
THEOREM OwnersKeepBlocks == TableSpec => []OwnersKeepTheirBlocks
<1>1. TableInv /\ [TableNext]_TableVars => TableInv'
  <2> SUFFICES ASSUME TableInv, [TableNext]_TableVars PROVE TableInv'
    OBVIOUS
  <2>1. CASE UNCHANGED TableVars
    BY <2>1 DEF TableVars, TableInv, TablesHold, GoodCache, OwnersKeepTheirBlocks
  <2>2. CASE TableNext
    BY <2>2, NewHandleKeeps, DisposeHandleKeeps DEF TableNext
  <2> QED
    BY <2>1, <2>2
<1>2. TableInv => OwnersKeepTheirBlocks
  BY DEF TableInv, TablesHold
<1> QED
  BY TableInvInit, <1>1, <1>2, PTL DEF TableSpec

-----------------------------------------------------------------------------
(* Gridded data in one file.                                               *)

\* The data of every setup is one file.
OneFileEach == \A s \in Setups : Len(s.files) = 1

\* Where there is extrapolation the clock goes forward, and no step is longer
\* than the data.
StepsWithinData(s) ==
    s.extrapolate =>
        /\ ~s.rewinds
        /\ \/ Len(s.files[1]) = 1
           \/ TimeStep <= s.files[1][Len(s.files[1])] - s.files[1][1]

SteadyEach == \A s \in Setups : StepsWithinData(s)

\* What the grids of one file have in common.
OneFile ==
    /\ setup \in Setups
    /\ Len(setup.files) = 1

Count  == Len(setup.files[1])
Rec(i) == [timeIndex |-> i, data |-> <<1, i>>]

LEMMA FileFacts ==
    ASSUME OneFile
    PROVE  /\ Count \in Nat /\ Count >= 1 /\ NumFiles = 1
           /\ Times(1) = setup.files[1]
           /\ \A i \in 1 .. Count : setup.files[1][i] \in Nat
           /\ \A i \in 1 .. Count - 1 : setup.files[1][i] < setup.files[1][i + 1]
<1>1. setup \in Setup /\ setup.files # <<>> /\ 1 \in DOMAIN setup.files
  BY SetupsAssumption DEF OneFile, Setup
<1>2. setup.files[1] \in Seq(Nat) /\ setup.files[1] # <<>>
  BY <1>1, SetupsAssumption DEF OneFile, Setup
<1>3. Count \in Nat /\ Count >= 1
  BY <1>2 DEF Count
<1>4. \A i \in 1 .. Count : setup.files[1][i] \in Nat
  BY <1>2 DEF Count
<1>5. \A i \in 1 .. Count - 1 : setup.files[1][i] < setup.files[1][i + 1]
  BY <1>1, SetupsAssumption DEF OneFile, Count
<1>6. Times(1) = setup.files[1] /\ NumFiles = 1
  BY DEF Times, NoFile, NumFiles, OneFile
<1> QED
  BY <1>3, <1>4, <1>5, <1>6

\* The times of a file increase.
LEMMA Increasing ==
    ASSUME NEW n \in Nat, NEW f, \A i \in 1 .. n : f[i] \in Nat,
           \A i \in 1 .. n - 1 : f[i] < f[i + 1],
           NEW k \in 1 .. n, NEW j \in 1 .. n, k < j
    PROVE  f[k] < f[j]
<1> SUFFICES ASSUME ~(f[k] < f[j]) PROVE FALSE
  OBVIOUS
<1> DEFINE T == {h \in 1 .. n : k < h /\ ~(f[k] < f[h])}
<1>1. PICK m \in T : \A h \in T : m <= h
  <2>1. T \in SUBSET Nat /\ j \in T
    OBVIOUS
  <2> HIDE DEF T
  <2> QED
    BY <2>1, Least
<1>2. m \in 1 .. n /\ k < m /\ ~(f[k] < f[m])
  OBVIOUS
<1>3. m - 1 \in 1 .. n - 1 /\ m - 1 \in 1 .. n /\ ~(m <= m - 1) /\ m - 1 + 1 = m
  BY <1>2
<1>4. f[m - 1] < f[m]
  BY <1>3
<1>5. m - 1 = k \/ f[k] < f[m - 1]
  <2>1. m - 1 \notin T
    BY <1>1, <1>3
  <2> QED
    BY <1>2, <1>3, <2>1
<1> QED
  BY <1>2, <1>3, <1>4, <1>5

\* A time within the data is within one of its intervals.
LEMMA Bracketed ==
    ASSUME NEW n \in Nat, n >= 2, NEW f, \A i \in 1 .. n : f[i] \in Nat,
           NEW t \in Nat, f[1] <= t, t <= f[n]
    PROVE  \E i \in 1 .. n - 1 : f[i] <= t /\ t <= f[i + 1]
<1> DEFINE T == {h \in 2 .. n : t <= f[h]}
<1>1. PICK m \in T : \A h \in T : m <= h
  <2>1. T \in SUBSET Nat /\ n \in T
    OBVIOUS
  <2> HIDE DEF T
  <2> QED
    BY <2>1, Least
<1>2. m \in 2 .. n /\ t <= f[m]
  OBVIOUS
<1>3. m - 1 \in 1 .. n - 1 /\ m - 1 \in 1 .. n /\ ~(m <= m - 1) /\ m - 1 + 1 = m
  BY <1>2
<1>4. f[m - 1] <= t
  <2>1. CASE m = 2
    BY <2>1
  <2>2. CASE m # 2
    <3>1. m - 1 \in 2 .. n /\ m - 1 \notin T
      BY <1>1, <1>2, <1>3, <2>2
    <3>2. ~(t <= f[m - 1]) /\ f[m - 1] \in Nat
      BY <1>3, <3>1
    <3> QED
      BY <3>2
  <2> QED
    BY <2>1, <2>2
<1> QED
  BY <1>2, <1>3, <1>4

-----------------------------------------------------------------------------
(* The window.                                                             *)

No == FALSE     \* unexpanded: the provers take it for a value like others

GridOf(a, b) == [file |-> 1, start |-> a, end |-> b,
                 overLap |-> No, overLapStart |-> 0]

LEMMA GridFields ==
    ASSUME NEW a, NEW b
    PROVE  /\ GridOf(a, b).file = 1 /\ GridOf(a, b).start = a /\ GridOf(a, b).end = b
           /\ GridOf(a, b).overLap = No
           /\ [GridOf(a, b) EXCEPT !.overLap = No] = GridOf(a, b)
BY DEF GridOf

LEMMA GridUnassigned ==
    ASSUME NEW a, NEW i, NEW d, NEW b, b = [timeIndex |-> i, data |-> d]
    PROVE  [GridOf(a, b) EXCEPT !.end.timeIndex = Unassigned]
             = GridOf(a, [timeIndex |-> Unassigned, data |-> d])
<1> DEFINE u == Unassigned
<1> HIDE DEF u
<1>2. [GridOf(a, b) EXCEPT !.end.timeIndex = u] = [GridOf(a, b) EXCEPT !.end = [b EXCEPT !.timeIndex = u]]
  BY DEF GridOf
<1>3. [b EXCEPT !.timeIndex = u] = [timeIndex |-> u, data |-> d]
  OBVIOUS
<1>4. [GridOf(a, b) EXCEPT !.end = [b EXCEPT !.timeIndex = u]] = GridOf(a, [b EXCEPT !.timeIndex = u])
  BY DEF GridOf
<1> QED
  BY <1>2, <1>3, <1>4 DEF u

\* Nothing is loaded, or two records next to each other, or one.
Pair(a, b) ==
    \/ a = Cleared /\ b = Cleared
    \/ \E i \in 0 .. Count - 1 :
          /\ a = Rec(i)
          /\ b = Cleared \/ (b = Rec(i + 1) /\ i + 1 < Count)

LEMMA EndNamed ==
    ASSUME OneFile, NEW a, NEW b, Pair(a, b), b.timeIndex # Unassigned
    PROVE  b = Rec(b.timeIndex) /\ b.timeIndex \in 0 .. Count - 1
<1>1. Count \in Nat
  BY FileFacts
<1>2. b # Cleared
  BY DEF Cleared
<1>3. PICK i \in 0 .. Count - 1 : b = Rec(i + 1) /\ i + 1 < Count
  BY <1>2 DEF Pair
<1> QED
  BY <1>1, <1>3 DEF Rec

\* The two records on either side of t are loaded; or the only one there is.
Neighbours(a, b, t) ==
    IF Count = 1 THEN a = Rec(0)
    ELSE \E i \in 0 .. Count - 2 :
            /\ a = Rec(i) /\ b = Rec(i + 1)
            /\ setup.files[1][i + 1] <= t /\ t <= setup.files[1][i + 2]

BeforeData(t)  == t < setup.files[1][1]
AfterData(t)   == setup.files[1][Count] < t
Outside(t) == BeforeData(t) \/ AfterData(t)

\* The record nearest to t is loaded, and t is beyond the data.
AtEnd(a, b, t) ==
    /\ setup.extrapolate /\ Count >= 2 /\ b = Cleared
    /\ (BeforeData(t) /\ a = Rec(0)) \/ (AfterData(t) /\ a = Rec(Count - 1))

\* What is right for t, for a caller who is steady.
Steady == StepsWithinData(setup)
Fits(a, b, t) == Steady => Neighbours(a, b, t) \/ AtEnd(a, b, t)

\* No jump over the data from u to t.
Close(u, t) ==
    Steady /\ setup.extrapolate /\ Count >= 2 =>
        ~(BeforeData(u) /\ AfterData(t)) /\ ~(AfterData(u) /\ BeforeData(t))

LEMMA AnswerFields ==
    ASSUME NEW l, NEW i, NEW o, NEW c, c = Answer(l, i, o)
    PROVE  c.loaded = l /\ c.interval = i /\ c.overLap = o
BY DEF Answer

\* What CheckInterval answers.
LEMMA CheckOne ==
    ASSUME OneFile, NEW a, NEW b, Pair(a, b), NEW u \in Nat, NEW t \in Nat,
           a # Cleared => Fits(a, b, u), Close(u, t), NEW junk, NEW c,
           c = CheckInterval(GridOf(a, b), t, junk)
    PROVE  /\ c.overLap = No
           /\ \/ /\ Count = 1 /\ c.interval = -1
                 /\ c.loaded => a = Rec(0)
              \/ /\ Count >= 2 /\ c.loaded /\ Fits(a, b, t)
              \/ /\ Count >= 2 /\ ~c.loaded /\ c.interval \in 1 .. Count - 1
                 /\ setup.files[1][c.interval] <= t
                 /\ t <= setup.files[1][c.interval + 1]
              \/ /\ Count >= 2 /\ ~c.loaded
                 /\ (c.interval = 0 /\ BeforeData(t)) \/ (c.interval = Count /\ AfterData(t))
<1> DEFINE g == GridOf(a, b)
           within == IntervalsOf(g, t)
           T == setup.files[1]
<1>1. /\ Count \in Nat /\ Count >= 1 /\ NumFiles = 1 /\ Times(1) = T
      /\ \A i \in 1 .. Count : T[i] \in Nat
      /\ \A i \in 1 .. Count - 1 : T[i] < T[i + 1]
      /\ Len(T) = Count
  BY FileFacts DEF Count
<1>2. g.file = 1 /\ g.start = a /\ g.end = b /\ g.overLap = No
  BY DEF GridOf
<1> HIDE DEF g
<1>3. Times(g.file) = T /\ Len(Times(g.file)) = Count
  BY <1>1, <1>2, Zenon
<1>4. FirstTime(g.file) = T[1] /\ LastTime(g.file) = T[Count]
  BY <1>2, Zenon DEF FirstTime, LastTime, Count
<1>5. Constant(g) <=> Count = 1
  <2>1. ~(NumFiles > 1)
    BY <1>1
  <2> QED
    BY <1>3, <2>1, Zenon DEF Constant
<1>6. ~BridgeBrackets(g, t, junk)
  BY <1>1 DEF BridgeBrackets
<1>7. within = {i \in 1 .. Count - 1 : T[i] <= t /\ t <= T[i + 1]}
  BY <1>3, Zenon DEF IntervalsOf
<1>12. Count # 0
  BY <1>1
<1>13. c = IF Count = 0
           THEN Answer(FALSE, 0, No)
           ELSE IF Constant(g)
           THEN Answer(a.timeIndex = 0 /\ a.data # NoData, -1, No)
           ELSE IF SlotsBracket(g, t, junk)
           THEN Answer(TRUE, b.timeIndex, No)
           ELSE IF BridgeBrackets(g, t, junk)
           THEN Answer(TRUE, 0, TRUE)
           ELSE IF within # {}
           THEN Answer(FALSE, CHOOSE i \in within : \A j \in within : i <= j, FALSE)
           ELSE IF t < T[1]
           THEN Answer(HoldsOneEnd(g, t), 0, FALSE)
           ELSE IF t > T[Count]
           THEN Answer(HoldsOneEnd(g, t), Count, FALSE)
           ELSE Answer(FALSE, 0, FALSE)
  <2>1. c = CheckInterval(g, t, junk)
    BY DEF g
  <2> HIDE DEF within
  <2>2. within = IntervalsOf(g, t)
    BY DEF within
  <2> QED
    BY <1>2, <1>3, <1>4, <2>1, <2>2, Zenon DEF CheckInterval
<1>8. CASE Count = 1
  <2>1. c = Answer(a.timeIndex = 0 /\ a.data # NoData, -1, No)
    BY <1>5, <1>8, <1>12, <1>13, Zenon
  <2>2. a.timeIndex = 0 => a = Rec(0)
    <3>1. Cleared.timeIndex # 0
      BY DEF Cleared, Unassigned
    <3>2. \A i : Rec(i).timeIndex = i
      BY DEF Rec
    <3> QED
      BY <3>1, <3>2 DEF Pair
  <2>3. /\ c.loaded = (a.timeIndex = 0 /\ a.data # NoData) /\ c.interval = -1
        /\ c.overLap = No
    <3> DEFINE l == a.timeIndex = 0 /\ a.data # NoData
    <3>1. c = Answer(l, -1, No)
      BY <2>1
    <3> HIDE DEF l
    <3>2. c.loaded = l /\ c.interval = -1 /\ c.overLap = No
      BY <3>1, AnswerFields
    <3> QED
      BY <3>2, Zenon DEF l
  <2> QED
    BY <1>8, <2>2, <2>3
<1>9. CASE Count # 1 /\ SlotsBracket(g, t, junk)
  <2>1. c = Answer(TRUE, b.timeIndex, No)
    BY <1>5, <1>9, <1>12, <1>13, Zenon
  <2>2. c.loaded = TRUE /\ c.overLap = No
    <3> DEFINE l == TRUE
    <3>1. c = Answer(l, b.timeIndex, No)
      BY <2>1
    <3> HIDE DEF l
    <3>2. c.loaded = l /\ c.overLap = No
      BY <3>1, AnswerFields
    <3> QED
      BY <3>2, Zenon DEF l
  <2>3. b # Cleared /\ b.timeIndex # Unassigned
    BY <1>2, <1>9 DEF SlotsBracket, Cleared
  <2>4. PICK i \in 0 .. Count - 1 : a = Rec(i) /\ b = Rec(i + 1) /\ i + 1 < Count
    BY <2>3 DEF Pair, Cleared
  <2>5. i \in 0 .. Count - 2 /\ i \in 0 .. Count - 1 /\ i + 1 \in 0 .. Count - 1
        /\ i + 1 + 1 = i + 2 /\ Count >= 2
    BY <1>1, <2>4
  <2>6. a.timeIndex = i /\ b.timeIndex = i + 1
    BY <2>4 DEF Rec
  <2>7. T[i + 1] <= t /\ t <= T[i + 2]
    BY <1>1, <1>2, <1>9, <2>5, <2>6 DEF SlotsBracket, TimeAt
  <2>8. Neighbours(a, b, t)
    BY <1>9, <2>4, <2>5, <2>7 DEF Neighbours
  <2> QED
    BY <2>2, <2>5, <2>8 DEF Fits
<1>10. CASE Count # 1 /\ ~SlotsBracket(g, t, junk) /\ within # {}
  <2> DEFINE h == CHOOSE i \in within : \A j \in within : i <= j
  <2>1. h \in within
    <3>1. within \in SUBSET Nat
      BY <1>7
    <3> HIDE DEF within
    <3>2. \E i \in within : \A j \in within : i <= j
      BY <1>10, <3>1, Least
    <3> QED
      BY <3>2
  <2>2. c = Answer(FALSE, h, No)
    BY <1>5, <1>6, <1>10, <1>12, <1>13, Zenon DEF No
  <2> HIDE DEF h
  <2>3. c.loaded = FALSE /\ c.overLap = No /\ c.interval = h
    <3> DEFINE l == FALSE
    <3>1. c = Answer(l, h, No)
      BY <2>2
    <3> HIDE DEF l
    <3>2. c.loaded = l /\ c.overLap = No /\ c.interval = h
      BY <3>1, AnswerFields
    <3> QED
      BY <3>2, Zenon DEF l
  <2>4. h \in 1 .. Count - 1 /\ T[h] <= t /\ t <= T[h + 1]
    BY <1>7, <2>1
  <2> QED
    BY <1>1, <1>10, <2>3, <2>4
<1>11. CASE Count # 1 /\ ~SlotsBracket(g, t, junk) /\ within = {}
  <2>1. Count >= 2 /\ T[1] \in Nat /\ T[Count] \in Nat
    BY <1>1, <1>11
  <2>2. Outside(t)
    <3>1. SUFFICES ASSUME T[1] <= t, t <= T[Count] PROVE FALSE
      BY <2>1 DEF Outside, BeforeData, AfterData
    <3>2. \E i \in 1 .. Count - 1 : T[i] <= t /\ t <= T[i + 1]
      BY <1>1, <2>1, <3>1, Bracketed
    <3> QED
      BY <1>7, <1>11, <3>2
  <2>3. PICK k \in {0, Count} :
           /\ c = Answer(HoldsOneEnd(g, t), k, No)
           /\ (k = 0 /\ BeforeData(t)) \/ (k = Count /\ AfterData(t))
    <3>1. t < T[1] \/ t > T[Count]
      BY <2>1, <2>2 DEF Outside, BeforeData, AfterData
    <3>2. (t < T[1] <=> BeforeData(t)) /\ (t > T[Count] <=> AfterData(t))
      BY <2>1 DEF BeforeData, AfterData
    <3>3. c = IF t < T[1]
              THEN Answer(HoldsOneEnd(g, t), 0, FALSE)
              ELSE IF t > T[Count]
              THEN Answer(HoldsOneEnd(g, t), Count, FALSE)
              ELSE Answer(FALSE, 0, FALSE)
      BY <1>5, <1>6, <1>11, <1>12, <1>13, Zenon
    <3>4. CASE t < T[1]
      <4>1. c = Answer(HoldsOneEnd(g, t), 0, No) /\ BeforeData(t)
        BY <3>2, <3>3, <3>4, Zenon DEF No
      <4> QED
        BY <4>1, Zenon
    <3>5. CASE ~(t < T[1])
      <4>1. c = Answer(HoldsOneEnd(g, t), Count, No) /\ AfterData(t)
        BY <3>1, <3>2, <3>3, <3>5, Zenon DEF No
      <4> QED
        BY <4>1, Zenon
    <3> QED
      BY <3>4, <3>5
  <2>4. c.loaded = HoldsOneEnd(g, t) /\ c.overLap = No /\ c.interval = k
    <3> DEFINE l == HoldsOneEnd(g, t)
    <3>1. c = Answer(l, k, No)
      BY <2>3
    <3> HIDE DEF l
    <3>2. c.loaded = l /\ c.overLap = No /\ c.interval = k
      BY <3>1, AnswerFields
    <3> QED
      BY <3>2, Zenon DEF l
  <2>5. HoldsOneEnd(g, t) => Fits(a, b, t)
    <3> SUFFICES ASSUME HoldsOneEnd(g, t), Steady
                 PROVE  Neighbours(a, b, t) \/ AtEnd(a, b, t)
      BY DEF Fits
    <3>1. setup.extrapolate /\ b.timeIndex = Unassigned /\ a.timeIndex # Unassigned
      BY <1>2 DEF HoldsOneEnd
    <3>2. a # Cleared
      BY <3>1 DEF Cleared
    <3>3. b = Cleared
      BY <1>1, <3>1, <3>2 DEF Pair, Rec, Unassigned
    <3>4. ~Neighbours(a, b, u)
      <4>1. \A i \in 0 .. Count - 2 : Rec(i + 1) # Cleared
        BY <1>1 DEF Rec, Cleared, Unassigned
      <4> QED
        BY <1>11, <3>3, <4>1 DEF Neighbours
    <3>5. (BeforeData(u) /\ a = Rec(0)) \/ (AfterData(u) /\ a = Rec(Count - 1))
      BY <3>2, <3>4 DEF Fits, AtEnd
    <3>6. ~(BeforeData(u) /\ AfterData(t)) /\ ~(AfterData(u) /\ BeforeData(t))
      BY <2>1, <3>1 DEF Close
    <3> QED
      BY <2>1, <2>2, <3>1, <3>3, <3>5, <3>6 DEF Outside, AtEnd
  <2> QED
    BY <2>1, <2>3, <2>4, <2>5, Zenon
<1> QED
  BY <1>8, <1>9, <1>10, <1>11

LEMMA ResultFields ==
    ASSUME NEW e, NEW g, NEW r, r = Result(e, g)
    PROVE  r.err = e /\ r.grid = g
BY DEF Result

LEMMA IsError ==
    ASSUME NEW g, NEW r
    PROVE  /\ r = Result(TRUE, g) => r.err /\ r.grid = g
           /\ r = Result(FALSE, g) => ~r.err /\ r.grid = g
<1>1. ASSUME r = Result(TRUE, g) PROVE r.err /\ r.grid = g
  <2> DEFINE e == TRUE
  <2>1. r = Result(e, g)
    BY <1>1
  <2> HIDE DEF e
  <2>2. r.err = e /\ r.grid = g
    BY <2>1, ResultFields
  <2> QED
    BY <2>2, Zenon DEF e
<1>2. ASSUME r = Result(FALSE, g) PROVE ~r.err /\ r.grid = g
  <2> DEFINE e == FALSE
  <2>1. r = Result(e, g)
    BY <1>2
  <2> HIDE DEF e
  <2>2. r.err = e /\ r.grid = g
    BY <2>1, ResultFields
  <2> QED
    BY <2>2, Zenon DEF e
<1> QED
  BY <1>1, <1>2

\* What a SetInterval for t leaves: a window that fits, or an error.
Answered(r, t, bad) ==
    \E x, y :
        /\ r.grid = GridOf(x, y) /\ Pair(x, y)
        /\ \/ ~r.err /\ Fits(x, y, t)
           \/ /\ r.err /\ x = Cleared
              /\ 1 \in bad \/ (~setup.extrapolate /\ Outside(t))

\* Records that were loaded for an interval around t.
LEMMA LoadAnswers ==
    ASSUME OneFile, NEW a, NEW b,
           b.timeIndex # Unassigned => b = Rec(b.timeIndex),
           NEW s \in 0 .. Count - 1, NEW e, e = Unassigned \/ (e = s + 1 /\ s + 1 < Count),
           NEW y, y = IF e = Unassigned THEN Cleared ELSE Rec(e),
           NEW bad, NEW t, Fits(Rec(s), y, t),
           NEW r, r = Load(GridOf(a, b), s, e, bad)
    PROVE  Answered(r, t, bad)
<1> DEFINE g == GridOf(a, b)
           start1 == IF s = b.timeIndex THEN b ELSE Cleared
           readS  == start1.data = NoData /\ s >= 0
           readE  == e < Count /\ e # Unassigned
           failed == \/ readS /\ (1 \in bad \/ s >= Count)
                     \/ readE /\ 1 \in bad
           Record0(i) == [timeIndex |-> i, data |-> <<1, i>>]
<1>1. Count \in Nat /\ s \in Nat /\ ~(s >= Count) /\ s # Unassigned /\ Times(1) = setup.files[1]
  BY FileFacts DEF Unassigned
<1>2. Load(g, s, e, bad) =
        IF failed THEN Failed(g)
        ELSE Result(FALSE, [g EXCEPT !.start = IF readS THEN Record0(s) ELSE start1,
                                     !.end   = IF readE THEN Record0(e) ELSE Cleared])
  <2>1. g.file = 1 /\ g.end = b
    BY DEF GridOf
  <2>2. Len(Times(1)) = Count
    BY <1>1 DEF Count
  <2> HIDE DEF g
  <2> QED
    BY <2>1, <2>2 DEF Load
<1>3. Failed(g) = Result(TRUE, GridOf(Cleared, Cleared))
  <2>1. [g EXCEPT !.start = Cleared, !.end = Cleared] = GridOf(Cleared, Cleared)
    <3> DEFINE q == [g EXCEPT !.start = Cleared]
    <3>1. q = GridOf(Cleared, b)
      BY DEF GridOf
    <3>2. [g EXCEPT !.start = Cleared, !.end = Cleared] = [q EXCEPT !.end = Cleared]
      OBVIOUS
    <3> HIDE DEF q
    <3>3. [q EXCEPT !.end = Cleared] = GridOf(Cleared, Cleared)
      BY <3>1 DEF GridOf
    <3> HIDE DEF g
    <3> QED
      BY <3>2, <3>3
  <2>2. Emptied(g) = [g EXCEPT !.start = Cleared, !.end = Cleared]
    BY Zenon DEF Emptied
  <2> QED
    BY <2>1, <2>2, Zenon DEF Failed
<1>4. failed => 1 \in bad
  BY <1>1
<1>5. (IF readS THEN Record0(s) ELSE start1) = Rec(s)
  <2>1. CASE s = b.timeIndex
    <3>1. start1 = Rec(s)
      BY <1>1, <2>1
    <3> QED
      BY <3>1 DEF Rec
  <2>2. CASE s # b.timeIndex
    <3>1. start1 = Cleared /\ Cleared.data = NoData /\ s >= 0
      BY <1>1, <2>2 DEF Cleared
    <3> QED
      BY <3>1 DEF Rec
  <2> QED
    BY <2>1, <2>2
<1>6. (IF readE THEN Record0(e) ELSE Cleared) = y
  <2>1. e # Unassigned => e < Count
    BY <1>1
  <2> QED
    BY <2>1 DEF Rec
<1>7. [g EXCEPT !.start = Rec(s), !.end = y] = GridOf(Rec(s), y)
  <2> DEFINE q == [g EXCEPT !.start = Rec(s)]
  <2>1. q = GridOf(Rec(s), b)
    BY DEF GridOf
  <2>2. [g EXCEPT !.start = Rec(s), !.end = y] = [q EXCEPT !.end = y]
    OBVIOUS
  <2> HIDE DEF q
  <2>3. [q EXCEPT !.end = y] = GridOf(Rec(s), y)
    BY <2>1 DEF GridOf
  <2> HIDE DEF g
  <2> QED
    BY <2>2, <2>3
<1>10. Pair(Cleared, Cleared) /\ Pair(Rec(s), y)
  BY DEF Pair
<1>8. CASE failed
  <2>1. r = Result(TRUE, GridOf(Cleared, Cleared)) /\ 1 \in bad
    BY <1>2, <1>3, <1>4, <1>8
  <2>2. r.err /\ r.grid = GridOf(Cleared, Cleared)
    BY <2>1, IsError
  <2> QED
    BY <1>10, <2>1, <2>2, Zenon DEF Answered
<1>9. CASE ~failed
  <2>1. r = Result(FALSE, [g EXCEPT !.start = IF readS THEN Record0(s) ELSE start1,
                                    !.end   = IF readE THEN Record0(e) ELSE Cleared])
    BY <1>2, <1>9
  <2> HIDE DEF g, readS, readE, start1, Record0, failed
  <2>2. r = Result(FALSE, [g EXCEPT !.start = Rec(s), !.end = y])
    BY <1>5, <1>6, <2>1
  <2>3. r = Result(FALSE, GridOf(Rec(s), y))
    BY <1>7, <2>2
  <2>4. ~r.err /\ r.grid = GridOf(Rec(s), y)
    BY <2>3, IsError
  <2> QED
    BY <1>10, <2>4, Zenon DEF Answered
<1> QED
  BY <1>8, <1>9

LEMMA SetOne ==
    ASSUME OneFile, NEW a, NEW b, Pair(a, b), NEW u \in Nat, NEW t \in Nat,
           a # Cleared => Fits(a, b, u), Close(u, t), NEW bad, NEW junk, NEW same,
           NEW r, r = SetInterval(GridOf(a, b), t, bad, junk, same)
    PROVE  Answered(r, t, bad)
<1> DEFINE g == GridOf(a, b)
           c == CheckInterval(g, t, junk)
           T == setup.files[1]
<1>1. /\ c.overLap = No
      /\ \/ /\ Count = 1 /\ c.interval = -1
            /\ c.loaded => a = Rec(0)
         \/ /\ Count >= 2 /\ c.loaded /\ Fits(a, b, t)
         \/ /\ Count >= 2 /\ ~c.loaded /\ c.interval \in 1 .. Count - 1
            /\ T[c.interval] <= t
            /\ t <= T[c.interval + 1]
         \/ /\ Count >= 2 /\ ~c.loaded
            /\ (c.interval = 0 /\ BeforeData(t)) \/ (c.interval = Count /\ AfterData(t))
  BY CheckOne
<1>2. /\ Count \in Nat /\ Count >= 1 /\ ~(NumFiles > 1) /\ NumFiles = 1
      /\ Times(1) = T /\ Len(T) = Count
  BY FileFacts DEF Count
<1>3. g.file = 1
  BY DEF GridOf
<1>4. [g EXCEPT !.overLap = c.overLap] = g
  <2>1. \A o : o = No => [g EXCEPT !.overLap = o] = g
    BY DEF GridOf
  <2> HIDE DEF g, c
  <2> QED
    BY <1>1, <2>1
<1>5. b.timeIndex # Unassigned => b = Rec(b.timeIndex)
  BY EndNamed
<1> HIDE DEF c
<1>6. Len(Times(g.file)) = Count /\ (Constant(g) <=> Count = 1)
  <2>1. Len(Times(g.file)) = Count
    BY <1>2, <1>3, Zenon
  <2> QED
    BY <1>2, <2>1, Zenon DEF Constant
<1>7. r = IF c.loaded THEN Result(FALSE, g)
          ELSE IF c.interval \in {0, Count}
          THEN BeyondFile(g, c.interval, bad)
          ELSE IF Constant(g)
          THEN Load(g, 0, Unassigned, bad)
          ELSE Load(g, c.interval - 1, c.interval, bad)
  <2>1. r = SetInterval(g, t, bad, junk, same) /\ c = CheckInterval(g, t, junk)
    BY DEF c
  <2> HIDE DEF g
  <2> QED
    BY <1>2, <1>4, <1>6, <2>1, Zenon DEF SetInterval
<1>8. CASE c.loaded
  <2>1. ~r.err /\ r.grid = g
    BY <1>7, <1>8, IsError, Zenon
  <2>2. Fits(a, b, t)
    BY <1>1, <1>2, <1>8 DEF Neighbours, Fits
  <2> QED
    BY <2>1, <2>2, Zenon DEF Answered
<1>9. CASE ~c.loaded /\ Count = 1
  <2>1. c.interval = -1 /\ c.interval \notin {0, Count}
    BY <1>1, <1>9
  <2>2. r = Load(g, 0, Unassigned, bad)
    BY <1>6, <1>7, <1>9, <2>1, Zenon
  <2>3. 0 \in 0 .. Count - 1
    BY <1>9
  <2>4. Fits(Rec(0), Cleared, t)
    BY <1>9 DEF Neighbours, Fits
  <2> QED
    BY <1>5, <2>2, <2>3, <2>4, LoadAnswers
<1>10. CASE ~c.loaded /\ Count >= 2 /\ c.interval \in 1 .. Count - 1
  <2> DEFINE i == c.interval
  <2>1. i \notin {0, Count} /\ Count # 1 /\ i - 1 \in 0 .. Count - 1
        /\ i = i - 1 + 1 /\ i - 1 + 1 < Count /\ i # Unassigned /\ i - 1 \in 0 .. Count - 2
        /\ i - 1 + 2 = i + 1
    BY <1>2, <1>10 DEF Unassigned
  <2>2. r = Load(g, i - 1, i, bad)
    BY <1>6, <1>7, <1>10, <2>1, Zenon
  <2>3. T[i] <= t /\ t <= T[i + 1]
    BY <1>1, <1>10, <2>1
  <2> HIDE DEF i
  <2>4. Fits(Rec(i - 1), Rec(i), t)
    BY <2>1, <2>3 DEF Neighbours, Fits
  <2> QED
    BY <1>5, <2>1, <2>2, <2>4, LoadAnswers
<1>11. CASE ~c.loaded /\ Count >= 2 /\ c.interval \in {0, Count}
  <2>1. (c.interval = 0 /\ BeforeData(t)) \/ (c.interval = Count /\ AfterData(t))
    BY <1>1, <1>2, <1>11
  <2>2. r = BeyondFile(g, c.interval, bad)
    BY <1>7, <1>11, Zenon
  <2>3. CASE ~setup.extrapolate
    <3>1. r = Failed(g)
      BY <2>2, <2>3, Zenon DEF BeyondFile
    <3>2. Emptied(g) = GridOf(Cleared, Cleared)
      <4> DEFINE q == [g EXCEPT !.start = Cleared]
      <4>1. q = GridOf(Cleared, b)
        BY DEF GridOf
      <4>2. [g EXCEPT !.start = Cleared, !.end = Cleared] = [q EXCEPT !.end = Cleared]
        OBVIOUS
      <4> HIDE DEF q
      <4>3. [q EXCEPT !.end = Cleared] = GridOf(Cleared, Cleared)
        BY <4>1 DEF GridOf
      <4> HIDE DEF g
      <4> QED
        BY <4>2, <4>3 DEF Emptied
    <3>3. r.err /\ r.grid = GridOf(Cleared, Cleared)
      BY <3>1, <3>2, IsError, Zenon DEF Failed
    <3> QED
      BY <2>1, <2>3, <3>3, Zenon DEF Answered, Pair, Outside
  <2>4. CASE setup.extrapolate
    <3> DEFINE s == IF c.interval = 0 THEN 0 ELSE c.interval - 1
    <3>1. s \in 0 .. Count - 1
      BY <1>2, <1>11
    <3>2. PICK i, d : b = [timeIndex |-> i, data |-> d]
      BY DEF Pair, Cleared, Rec
    <3> DEFINE z == [timeIndex |-> Unassigned, data |-> d]
    <3>3. [g EXCEPT !.end.timeIndex = Unassigned] = GridOf(a, z)
      BY <3>2, GridUnassigned
    <3>4. r = Load([g EXCEPT !.end.timeIndex = Unassigned], s, Unassigned, bad)
      BY <2>2, <2>4, Zenon DEF BeyondFile
    <3>5. z.timeIndex = Unassigned
      OBVIOUS
    <3>7. Fits(Rec(s), Cleared, t)
      <4>1. (s = 0 /\ BeforeData(t)) \/ (s = Count - 1 /\ AfterData(t))
        BY <1>2, <1>11, <2>1
      <4> HIDE DEF s
      <4>2. (Rec(s) = Rec(0) /\ BeforeData(t)) \/ (Rec(s) = Rec(Count - 1) /\ AfterData(t))
        BY <4>1
      <4> QED
        BY <1>11, <2>4, <4>2, Zenon DEF Fits, AtEnd
    <3> HIDE DEF s, z, g
    <3>6. r = Load(GridOf(a, z), s, Unassigned, bad)
      BY <3>3, <3>4
    <3> QED
      BY <3>1, <3>5, <3>6, <3>7, LoadAnswers
  <2> QED
    BY <2>3, <2>4
<1> QED
  BY <1>1, <1>2, <1>8, <1>9, <1>10, <1>11

\* The last time asked for is at most a step away from the next one.
Paced ==
    ~setup.rewinds =>
        IF stepPhase = "moving"
        THEN model_time <= asked /\ asked <= model_time + TimeStep
        ELSE model_time <= asked + TimeStep /\ asked <= model_time

LEMMA PacedClose ==
    ASSUME OneFile, NEW u \in Nat, NEW t \in Nat,
           ~setup.rewinds => t <= u + TimeStep /\ u <= t + TimeStep
    PROVE  Close(u, t)
<1> SUFFICES ASSUME Steady, setup.extrapolate, Count >= 2
             PROVE  ~(BeforeData(u) /\ AfterData(t)) /\ ~(AfterData(u) /\ BeforeData(t))
  BY DEF Close
<1>1. /\ Count \in Nat /\ 1 \in 1 .. Count /\ Count \in 1 .. Count
      /\ \A i \in 1 .. Count : setup.files[1][i] \in Nat
  BY FileFacts
<1>2. /\ ~setup.rewinds
      /\ TimeStep <= setup.files[1][Count] - setup.files[1][1]
  BY DEF Steady, StepsWithinData, Count
<1>3. TimeStep \in Nat
  BY TimeStepAssumption
<1> QED
  BY <1>1, <1>2, <1>3 DEF BeforeData, AfterData

GridInv ==
    /\ OneFile /\ Paced /\ stepPhase \in {"between", "moving"}
    /\ model_time \in Nat /\ asked \in Nat /\ stage \in 0 .. 3
    /\ \E a, b :
          /\ grid = GridOf(a, b) /\ Pair(a, b)
          /\ a # Cleared \/ outcome = "set" => Fits(a, b, asked)
    /\ outcome = "error" => setup.faults \/ (~setup.extrapolate /\ Outside(asked))

LEMMA GridInitHolds ==
    ASSUME OneFileEach
    PROVE  GridInit => GridInv
<1> SUFFICES ASSUME GridInit PROVE GridInv
  OBVIOUS
<1>1. OneFile
  BY DEF GridInit, OneFile, OneFileEach
<1>2. setup.start \in Nat
  BY SetupsAssumption DEF GridInit, Setup
<1>3. grid = GridOf(Cleared, Cleared)
  BY Zenon DEF GridInit, NewGrid, GridOf, No
<1>4. Pair(Cleared, Cleared)
  BY DEF Pair
<1>5. /\ outcome = "none" /\ model_time = setup.start /\ asked = setup.start /\ stage = 0
      /\ stepPhase = "between"
  BY DEF GridInit
<1>6. outcome # "set" /\ outcome # "error" /\ Paced
  BY <1>2, <1>5, TimeStepAssumption DEF Paced
<1> QED
  BY <1>1, <1>2, <1>3, <1>4, <1>5, <1>6 DEF GridInv

LEMMA AskHolds ==
    ASSUME GridInv, NEW t \in Nat, Ask(t), setup' = setup, Close(asked, t),
           model_time' \in Nat, stage' \in 0 .. 3, Paced',
           stepPhase' \in {"between", "moving"}
    PROVE  GridInv'
<1>1. PICK a, b : grid = GridOf(a, b) /\ Pair(a, b) /\ (a # Cleared => Fits(a, b, asked))
  BY DEF GridInv
<1>2. PICK bad \in IF setup.faults THEN SUBSET DOMAIN setup.files ELSE {{}},
           junk \in [start : Unread, end : Unread], same \in BOOLEAN :
        LET r == SetInterval(grid, t, bad, junk, same)
        IN  /\ grid' = r.grid
            /\ asked' = t
            /\ outcome' = IF r.err THEN "error" ELSE "set"
  BY DEF Ask
<1> DEFINE r == SetInterval(GridOf(a, b), t, bad, junk, same)
<1>3. grid' = r.grid /\ asked' = t /\ outcome' = IF r.err THEN "error" ELSE "set"
  BY <1>1, <1>2
<1>4. OneFile /\ asked \in Nat
  BY DEF GridInv
<1>5. Answered(r, t, bad)
  BY <1>1, <1>4, SetOne
<1>6. 1 \in bad => setup.faults
  BY <1>2
<1> HIDE DEF r
<1>7. PICK x, y :
        /\ r.grid = GridOf(x, y) /\ Pair(x, y)
        /\ \/ ~r.err /\ Fits(x, y, t)
           \/ /\ r.err /\ x = Cleared
              /\ 1 \in bad \/ (~setup.extrapolate /\ Outside(t))
  BY <1>5 DEF Answered
<1>8. /\ OneFile' /\ Pair(x, y)' /\ (setup.extrapolate' <=> setup.extrapolate)
      /\ (Fits(x, y, t)' <=> Fits(x, y, t)) /\ (Outside(t)' <=> Outside(t))
      /\ setup.faults' = setup.faults
  BY <1>4, <1>7 DEF OneFile, Pair, Count, Neighbours, BeforeData, AfterData, Outside, AtEnd,
                    Steady, StepsWithinData, Fits
<1>9. outcome' = "set" => ~r.err
  BY <1>3
<1>10. outcome' = "error" => r.err
  BY <1>3
<1>11. grid' = GridOf(x, y) /\ asked' = t
  BY <1>3, <1>7
<1>12. x # Cleared \/ outcome' = "set" => Fits(x, y, asked)'
  BY <1>7, <1>8, <1>9, <1>11
<1>13. outcome' = "error" => setup'.faults \/ (~setup'.extrapolate /\ Outside(asked)')
  BY <1>6, <1>7, <1>8, <1>10, <1>11
<1> QED
  BY <1>8, <1>11, <1>12, <1>13 DEF GridInv

LEMMA GridNextHolds == GridInv /\ [GridNext]_gridVars => GridInv'
<1> SUFFICES ASSUME GridInv, [GridNext]_gridVars PROVE GridInv'
  OBVIOUS
<1>1. ASSUME UNCHANGED <<setup, grid, asked, outcome>>, model_time' \in Nat, stage' \in 0 .. 3,
             Paced', stepPhase' \in {"between", "moving"}
      PROVE  GridInv'
  BY <1>1 DEF GridInv, OneFile, Pair, Count, Neighbours, BeforeData, AfterData, Outside, AtEnd,
              Steady, StepsWithinData, Fits
<1>2. /\ TimeStep \in Nat /\ TimeStep \div 2 \in Nat /\ TimeStep \div 2 <= TimeStep
  BY TimeStepAssumption
<1>3. /\ model_time \in Nat /\ stage \in 0 .. 3 /\ asked \in Nat
      /\ OneFile /\ Paced /\ stepPhase \in {"between", "moving"}
  BY DEF GridInv
<1>4. CASE UNCHANGED gridVars
  BY <1>1, <1>3, <1>4 DEF gridVars, Paced
<1>5. CASE PrepareStep
  <2>1. /\ Ask(model_time) /\ setup' = setup /\ model_time' = model_time /\ stage' = stage
        /\ stepPhase = "between" /\ stepPhase' \in {"between", "moving"}
    BY <1>5 DEF PrepareStep
  <2>2. asked' = model_time
    BY <2>1 DEF Ask
  <2>3. Close(asked, model_time)
    BY <1>2, <1>3, <2>1, PacedClose DEF Paced
  <2>4. Paced'
    BY <1>2, <1>3, <2>1, <2>2 DEF Paced
  <2> QED
    BY <1>3, <2>1, <2>3, <2>4, AskHolds
<1>6. CASE GetMoveRK4
  <2> DEFINE t == StageTime(stage + 1)
  <2>1. t \in Nat /\ model_time <= t /\ t <= model_time + TimeStep
    BY <1>2, <1>3 DEF StageTime
  <2>2. (stage + 1) % 4 \in 0 .. 3
    BY <1>3
  <2>3. /\ Ask(t) /\ setup' = setup /\ model_time' = model_time
        /\ stage' \in 0 .. 3 /\ stepPhase = "moving" /\ stepPhase' = stepPhase
    BY <1>6, <2>2 DEF GetMoveRK4
  <2> HIDE DEF t
  <2>4. asked' = t
    BY <2>3 DEF Ask
  <2>5. Close(asked, t)
    BY <1>2, <1>3, <2>1, <2>3, PacedClose DEF Paced
  <2>6. Paced'
    BY <2>1, <2>3, <2>4 DEF Paced
  <2> QED
    BY <1>3, <2>1, <2>3, <2>5, <2>6, AskHolds
<1>7. CASE ModelStepIsDone
  <2>1. /\ UNCHANGED <<setup, grid, stage, asked, outcome>> /\ model_time' = model_time + TimeStep
        /\ stepPhase = "moving" /\ stepPhase' = "between"
    BY <1>7 DEF ModelStepIsDone
  <2>2. Paced'
    BY <1>2, <1>3, <2>1 DEF Paced
  <2> QED
    BY <1>1, <1>2, <1>3, <2>1, <2>2
<1>8. CASE PrepareRun
  <2>1. setup.start \in Nat
    BY <1>3, SetupsAssumption DEF OneFile, Setup
  <2>2. Paced'
    BY <1>8 DEF PrepareRun, Paced
  <2> QED
    BY <1>1, <1>3, <1>8, <2>1, <2>2 DEF PrepareRun
<1> QED
  BY <1>4, <1>5, <1>6, <1>7, <1>8 DEF GridNext

\* With its data in one file, SetInterval fails only for a time outside the
\* data, or when the file cannot be read; with any number of records, any
\* caller and any order of the times asked for.
THEOREM FailsOutside ==
    ASSUME OneFileEach
    PROVE  GridSpec => []FailsOnlyOutside
<1>1. GridInv => FailsOnlyOutside
  <2> SUFFICES ASSUME GridInv, outcome = "error", ~setup.faults
               PROVE  ~setup.extrapolate /\ (asked < FirstTime(1) \/ LastTime(NumFiles) < asked)
    BY DEF FailsOnlyOutside
  <2>1. ~setup.extrapolate /\ Outside(asked)
    BY DEF GridInv
  <2>2. NumFiles = 1
    BY FileFacts DEF GridInv
  <2> QED
    BY <2>1, <2>2 DEF Outside, BeforeData, AfterData, Count, FirstTime, LastTime
<1> QED
  BY <1>1, GridInitHolds, GridNextHolds, PTL DEF GridSpec

\* And the two records it leaves are the neighbours of the time it was asked
\* for or, beyond the data, the record nearest to it: for any caller where
\* there is no extrapolation, and where there is for one whose clock goes
\* forward in steps no longer than the data.
THEOREM InterpolatesOneFile ==
    ASSUME OneFileEach, SteadyEach
    PROVE  GridSpec => []InterpolatesBetweenNeighbours
<1>1. GridInv => InterpolatesBetweenNeighbours
  <2> SUFFICES ASSUME GridInv, outcome = "set" PROVE InterpolatesBetweenNeighbours
    BY DEF InterpolatesBetweenNeighbours
  <2> DEFINE T == setup.files[1]
  <2>1. OneFile /\ Steady /\ asked \in Nat
    BY DEF GridInv, OneFile, SteadyEach, Steady
  <2>2. PICK a, b : /\ grid = GridOf(a, b)
                    /\ Neighbours(a, b, asked) \/ AtEnd(a, b, asked)
    BY <2>1 DEF GridInv, Fits
  <2>3. /\ Count \in Nat /\ Count >= 1 /\ NumFiles = 1 /\ Times(1) = T /\ Len(T) = Count
        /\ \A i \in 1 .. Count : T[i] \in Nat
        /\ \A i \in 1 .. Count - 1 : T[i] < T[i + 1]
    BY <2>1, FileFacts DEF Count
  <2>4. grid.file = 1 /\ grid.start = a /\ grid.end = b
    BY <2>2 DEF GridOf
  <2>5. Record = {<<1, i - 1>> : i \in 1 .. Count}
    <3>1. setup \in Setup
      BY <2>1, SetupsAssumption DEF OneFile
    <3>2. DOMAIN setup.files = {1} /\ DOMAIN setup.files[1] = 1 .. Count
      BY <2>1, <3>1 DEF OneFile, Setup, Count
    <3>3. {{<<f, i - 1>> : i \in DOMAIN setup.files[f]} : f \in DOMAIN setup.files}
            = {{<<1, i - 1>> : i \in 1 .. Count}}
      BY <3>2
    <3> QED
      BY <3>3 DEF Record
  <2>6. \A i \in 0 .. Count - 1 : <<1, i>> \in Record /\ TimeOfRecord(<<1, i>>) = T[i + 1]
    <3> TAKE i \in 0 .. Count - 1
    <3>1. i + 1 \in 1 .. Count /\ i + 1 - 1 = i
      BY <2>3
    <3> QED
      BY <2>5, <3>1 DEF TimeOfRecord
  <2>7. CASE Count = 1 /\ Neighbours(a, b, asked)
    <3>1. UsesStartOnly(grid, asked)
      <4>1. Len(Times(grid.file)) = 1
        BY <2>3, <2>4, <2>7, Zenon
      <4>2. ~(NumFiles > 1)
        BY <2>3
      <4> QED
        BY <4>1, <4>2 DEF UsesStartOnly, Constant
    <3>2. grid.start.data = <<1, 0>>
      BY <2>2, <2>4, <2>7 DEF Neighbours, Rec
    <3>3. Record = {<<1, 0>>}
      BY <2>5, <2>7
    <3>4. Cardinality(Record) = 1
      BY <3>3, FS_Singleton
    <3> QED
      BY <3>1, <3>2, <3>3, <3>4 DEF InterpolatesBetweenNeighbours, NearestEnd
  <2>8. CASE Count # 1 /\ Neighbours(a, b, asked)
    <3>1. PICK i \in 0 .. Count - 2 :
             /\ a = Rec(i) /\ b = Rec(i + 1) /\ T[i + 1] <= asked /\ asked <= T[i + 2]
      BY <2>2, <2>8 DEF Neighbours
    <3>2. /\ i \in 0 .. Count - 1 /\ i + 1 \in 0 .. Count - 1 /\ i + 1 + 1 = i + 2
          /\ i + 1 \in 1 .. Count /\ i + 2 \in 1 .. Count /\ i + 1 < i + 2
          /\ i + 1 \in 1 .. Count - 1
      BY <2>3, <3>1
    <3>3. /\ grid.start.data = <<1, i>> /\ grid.end.data = <<1, i + 1>>
          /\ grid.start.timeIndex = i /\ grid.end.timeIndex = i + 1
      BY <2>4, <3>1 DEF Rec
    <3>4. ~UsesStartOnly(grid, asked)
      <4>1. Len(Times(grid.file)) # 1
        BY <2>3, <2>4, <2>8, Zenon
      <4>2. grid.end.timeIndex # Unassigned
        BY <3>2, <3>3 DEF Unassigned
      <4> QED
        BY <4>1, <4>2 DEF UsesStartOnly, Constant
    <3>5. Times(grid.file) = T
      BY <2>3, <2>4, Zenon
    <3>6. StartTimeUsed(grid) = T[i + 1] /\ EndTimeUsed(grid) = T[i + 2]
      <4>1. ~(NumFiles > 1)
        BY <2>3
      <4>2. StartTimeUsed(grid) = TimeAt(grid, i, Unassigned)
        BY <3>3, <4>1 DEF StartTimeUsed
      <4>3. EndTimeUsed(grid) = TimeAt(grid, i + 1, Unassigned)
        BY <3>3 DEF EndTimeUsed
      <4> QED
        BY <2>3, <3>2, <3>5, <4>2, <4>3 DEF TimeAt
    <3>7. TimeOfRecord(<<1, i>>) = T[i + 1] /\ TimeOfRecord(<<1, i + 1>>) = T[i + 2]
      BY <2>6, <3>2
    <3>8. \A r \in Record : TimeOfRecord(r) <= T[i + 1] \/ T[i + 2] <= TimeOfRecord(r)
      <4> TAKE r \in Record
      <4>1. PICK j \in 1 .. Count : r = <<1, j - 1>>
        BY <2>5
      <4>2. j - 1 \in 0 .. Count - 1 /\ j - 1 + 1 = j
        BY <2>3
      <4>3. TimeOfRecord(r) = T[j]
        BY <2>6, <4>1, <4>2
      <4>4. j < i + 1 => T[j] < T[i + 1]
        BY <2>3, <3>2, Increasing
      <4>5. i + 2 < j => T[i + 2] < T[j]
        BY <2>3, <3>2, Increasing
      <4>6. j < i + 1 \/ j = i + 1 \/ j = i + 2 \/ i + 2 < j
        BY <3>2
      <4>7. T[j] \in Nat /\ T[i + 1] \in Nat /\ T[i + 2] \in Nat
        BY <2>3, <3>2
      <4> QED
        BY <4>3, <4>4, <4>5, <4>6, <4>7
    <3>9. T[i + 1] < T[i + 2]
      BY <2>3, <3>2
    <3>10. Between(asked, <<1, i>>, <<1, i + 1>>)
      BY <3>1, <3>7, <3>8, <3>9 DEF Between
    <3>11. <<1, i>> \in Record /\ <<1, i + 1>> \in Record
      BY <2>6, <3>2
    <3> HIDE DEF T
    <3> QED
      BY <3>3, <3>4, <3>6, <3>7, <3>10, <3>11 DEF InterpolatesBetweenNeighbours
  <2>9. CASE AtEnd(a, b, asked)
    <3>1. PICK i \in {0, Count - 1} :
             /\ a = Rec(i) /\ b = Cleared /\ setup.extrapolate /\ Count >= 2
             /\ (i = 0 /\ BeforeData(asked)) \/ (i = Count - 1 /\ AfterData(asked))
      BY <2>9, Zenon DEF AtEnd
    <3>2. i \in 0 .. Count - 1 /\ i + 1 \in 1 .. Count
      BY <2>3, <3>1
    <3>3. /\ grid.start.data = <<1, i>> /\ grid.start.timeIndex = i
          /\ grid.end.timeIndex = Unassigned
      BY <2>4, <3>1 DEF Rec, Cleared
    <3>4. TimeAt(grid, i, asked) = T[i + 1]
      <4>1. Times(grid.file) = T
        BY <2>3, <2>4, Zenon
      <4> QED
        BY <2>3, <3>2, <4>1 DEF TimeAt
    <3>5. \A r \in Record : \E j \in 1 .. Count : TimeOfRecord(r) = T[j]
      <4> TAKE r \in Record
      <4>1. PICK j \in 1 .. Count : r = <<1, j - 1>>
        BY <2>5
      <4>2. j - 1 \in 0 .. Count - 1 /\ j - 1 + 1 = j
        BY <2>3
      <4> QED
        BY <2>6, <4>1, <4>2
    <3>6. <<1, i>> \in Record /\ TimeOfRecord(<<1, i>>) = T[i + 1]
      BY <2>6, <3>2
    <3>7. \A j \in 1 .. Count : T[j] \in Nat /\ T[1] <= T[j] /\ T[j] <= T[Count]
      <4> TAKE j \in 1 .. Count
      <4>1. T[j] \in Nat /\ T[1] \in Nat /\ T[Count] \in Nat /\ 1 \in 1 .. Count /\ Count \in 1 .. Count
        BY <2>3
      <4>2. (1 < j => T[1] < T[j]) /\ (j < Count => T[j] < T[Count])
        BY <2>3, <4>1, Increasing
      <4>3. (j = 1 \/ 1 < j) /\ (j = Count \/ j < Count)
        BY <2>3
      <4> QED
        BY <4>1, <4>2, <4>3
    <3>8. /\ (i + 1 = 1 /\ asked < T[1]) \/ (i + 1 = Count /\ T[Count] < asked)
          /\ T[i + 1] \in Nat
      BY <2>3, <3>1, <3>2 DEF BeforeData, AfterData
    <3>9. UsesStartOnly(grid, asked)
      BY <2>1, <3>1, <3>3, <3>4, <3>8 DEF UsesStartOnly
    <3>10. NearestEnd(asked, <<1, i>>)
      <4>1. CASE i + 1 = 1 /\ asked < T[1]
        BY <2>1, <3>5, <3>6, <3>7, <3>8, <4>1 DEF NearestEnd
      <4>2. CASE i + 1 = Count /\ T[Count] < asked
        BY <2>1, <3>5, <3>6, <3>7, <3>8, <4>2 DEF NearestEnd
      <4> QED
        BY <3>8, <4>1, <4>2
    <3> HIDE DEF T
    <3> QED
      BY <3>3, <3>6, <3>9, <3>10 DEF InterpolatesBetweenNeighbours
  <2> QED
    BY <2>2, <2>7, <2>8, <2>9
<1> QED
  BY <1>1, GridInitHolds, GridNextHolds, PTL DEF GridSpec
=============================================================================
