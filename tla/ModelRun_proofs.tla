-------------------------- MODULE ModelRun_proofs --------------------------
(***************************************************************************)
(* Theorems about the run engine, for every set of spills and releases,    *)
(* every clock, and every order of steps, runs and edits.  The first part  *)
(* is about the operations on spill containers: each returns a container   *)
(* record again, and accounts for the elements it is given.  Then the      *)
(* types, and then what a run does with its elements: they are all         *)
(* accounted for, and named after the spill that released them; with it go *)
(* the ids, the mass balance, the release schedule, the copies in the      *)
(* uncertain container and the ages, most of them for a caller of plain    *)
(* habits.                                                                 *)
(***************************************************************************)
EXTENDS ModelRun, ReleaseSchedule_proofs, FiniteSetTheorems, SequenceTheorems

-----------------------------------------------------------------------------
(* Finite sets and members                                                 *)

LEMMA FiniteImage ==
    ASSUME NEW S, IsFiniteSet(S), NEW f, f \in [S -> Range(f)]
    PROVE  IsFiniteSet(Range(f))
  <1>1. f \in Surjection(S, Range(f))
    BY DEF Surjection, Range
  <1> QED
    BY <1>1, FS_Surjection

LEMMA ContainerFields ==
    ASSUME NEW k \in ContainerStates
    PROVE  /\ k.spills \in Seq(Spills)
           /\ k.on \in [Spills -> BOOLEAN]
           /\ k.prepared \in [Spills -> Nat]
           /\ k.num_released \in [Spills -> Nat]
           /\ k.elements \subseteq Elements /\ IsFiniteSet(k.elements)
           /\ k.beached \in Nat /\ k.off_maps \in Nat
           /\ k.gone \subseteq Spills \X Nat /\ IsFiniteSet(k.gone)
  BY DEF ContainerStates, FiniteSubsets

LEMMA SpillsOfContainer ==
    ASSUME NEW k \in ContainerStates
    PROVE  /\ DOMAIN k.spills = 1 .. Len(k.spills)
           /\ Len(k.spills) \in Nat
           /\ \A i \in DOMAIN k.spills : k.spills[i] \in Spills
           /\ \A i \in DOMAIN k.spills : k.spills[i] \in Members(k)
           /\ Members(k) \subseteq Spills
  BY DEF ContainerStates, Members, Range

-----------------------------------------------------------------------------
(* Release                                                                 *)

\* A spill never takes back what it has released.
LEMMA ExpectedGrows ==
    ASSUME NEW k \in ContainerStates, NEW s \in Spills,
           NEW t \in Int, NEW dt \in Nat
    PROVE  /\ ExpectedRelease(k, s, t, dt) \in Nat
           /\ ExpectedRelease(k, s, t, dt) >= k.num_released[s]
  <1>1. k.prepared[s] \in Nat /\ k.num_released[s] \in Nat
    BY ContainerFields
  <1>2. NumElementsAfterTime(ReleaseOf[s], k.prepared[s], t, dt) \in Nat
    BY <1>1, ReleaseAssumption, NumElementsNat
  <1> QED
    BY <1>1, <1>2 DEF ExpectedRelease

LEMMA BatchMembers ==
    ASSUME NEW k \in ContainerStates, NEW t \in Int, NEW dt \in Nat,
           NEW p \in Batch(k, t, dt)
    PROVE  /\ p = <<p[1], p[2]>>
           /\ p[1] \in DOMAIN k.spills
           /\ p[2] \in (k.num_released[k.spills[p[1]]] + 1)
                          .. ExpectedRelease(k, k.spills[p[1]], t, dt)
           /\ p[2] \in Nat \ {0}
  <1>1. PICK i \in DOMAIN k.spills :
            p \in {i} \X ((k.num_released[k.spills[i]] + 1)
                             .. ExpectedRelease(k, k.spills[i], t, dt))
    BY DEF Batch
  <1>2. k.num_released[k.spills[i]] \in Nat
    BY ContainerFields, SpillsOfContainer
  <1>3. ExpectedRelease(k, k.spills[i], t, dt) \in Nat
    BY SpillsOfContainer, ExpectedGrows
  <1> QED
    BY <1>1, <1>2, <1>3

LEMMA BatchFinite ==
    ASSUME NEW k \in ContainerStates, NEW t \in Int, NEW dt \in Nat
    PROVE  IsFiniteSet(Batch(k, t, dt))
  <1> DEFINE part(i) == {i} \X ((k.num_released[k.spills[i]] + 1)
                                  .. ExpectedRelease(k, k.spills[i], t, dt))
             f == [i \in DOMAIN k.spills |-> part(i)]
  <1>1. Batch(k, t, dt) = UNION Range(f)
    BY DEF Batch, Range
  <1>2. IsFiniteSet(DOMAIN k.spills)
    BY SpillsOfContainer, FS_Interval
  <1>3. IsFiniteSet(Range(f))
    <2>1. f \in [DOMAIN k.spills -> Range(f)]
      BY DEF Range
    <2> QED
      BY <1>2, <2>1, FiniteImage
  <1>4. ASSUME NEW i \in DOMAIN k.spills PROVE IsFiniteSet(part(i))
    <2>1. k.num_released[k.spills[i]] + 1 \in Int
      BY ContainerFields, SpillsOfContainer
    <2>2. ExpectedRelease(k, k.spills[i], t, dt) \in Int
      BY SpillsOfContainer, ExpectedGrows
    <2>3. IsFiniteSet({i})
      BY FS_Singleton
    <2>4. IsFiniteSet((k.num_released[k.spills[i]] + 1)
                         .. ExpectedRelease(k, k.spills[i], t, dt))
      BY <2>1, <2>2, FS_Interval
    <2> QED
      BY <2>3, <2>4, FS_Product
  <1>5. \A T \in Range(f) : IsFiniteSet(T)
    BY <1>4 DEF Range
  <1> QED
    BY <1>1, <1>3, <1>5, FS_UNION

LEMMA NumNewNat ==
    ASSUME NEW k \in ContainerStates, NEW t \in Int, NEW dt \in Nat
    PROVE  NumNew(k, t, dt) \in Nat
  BY BatchFinite, FS_CardinalityType DEF NumNew

LEMMA NewElementsType ==
    ASSUME NEW k \in ContainerStates, NEW t \in Int, NEW dt \in Nat,
           NEW id \in Nat
    PROVE  /\ NewElements(k, t, dt, id) \subseteq Elements
           /\ IsFiniteSet(NewElements(k, t, dt, id))
  <1> DEFINE batch == Batch(k, t, dt)
             el(p) == [id        |-> id + Cardinality(Earlier(batch, p)),
                       owner     |-> k.spills[p[1]],
                       ord       |-> p[2],
                       spill_num |-> p[1] - 1,
                       status    |-> "in_water",
                       age       |-> 0]
             f == [p \in batch |-> el(p)]
  <1>1. NewElements(k, t, dt, id) = Range(f)
    BY DEF NewElements, Range
  <1>2. IsFiniteSet(batch)
    BY BatchFinite
  <1>3. IsFiniteSet(Range(f))
    <2>1. f \in [batch -> Range(f)]
      BY DEF Range
    <2> QED
      BY <1>2, <2>1, FiniteImage
  <1>4. ASSUME NEW p \in batch PROVE el(p) \in Elements
    <2>1. Cardinality(Earlier(batch, p)) \in Nat
      <3>1. Earlier(batch, p) \in SUBSET batch
        BY DEF Earlier
      <3>2. IsFiniteSet(Earlier(batch, p))
        BY <1>2, <3>1, FS_Subset
      <3> QED
        BY <3>2, FS_CardinalityType
    <2>2. p[1] \in DOMAIN k.spills /\ p[2] \in Nat \ {0}
      BY BatchMembers
    <2>3. k.spills[p[1]] \in Spills /\ p[1] - 1 \in Nat
      BY <2>2, SpillsOfContainer
    <2> HIDE DEF batch
    <2> QED
      BY <2>1, <2>2, <2>3 DEF Elements
  <1> QED
    BY <1>1, <1>3, <1>4 DEF Range

LEMMA ReleaseElementsType ==
    ASSUME NEW k \in ContainerStates, NEW t \in Int, NEW dt \in Nat,
           NEW id \in Nat
    PROVE  ReleaseElements(k, t, dt, id) \in ContainerStates
  <1> DEFINE new == NewElements(k, t, dt, id)
             num == [s \in Spills |-> IF s \in Members(k)
                                      THEN ExpectedRelease(k, s, t, dt)
                                      ELSE k.num_released[s]]
  <1>1. k.elements \cup new \in FiniteSubsets(Elements)
    BY ContainerFields, NewElementsType, FS_Union DEF FiniteSubsets
  <1>2. num \in [Spills -> Nat]
    BY ContainerFields, ExpectedGrows
  <1> HIDE DEF new, num
  <1>3. [k EXCEPT !.elements = @ \cup new, !.num_released = num]
            \in ContainerStates
    BY <1>1, <1>2 DEF ContainerStates
  <1> QED
    BY <1>3 DEF ReleaseElements, new, num

LEMMA ReleasePairType ==
    ASSUME NEW pair \in [Containers -> ContainerStates],
           NEW t \in Int, NEW dt \in Nat, NEW id \in Nat
    PROVE  /\ ReleasePair(pair, t, dt, id) \in [Containers -> ContainerStates]
           /\ NextIdAfter(pair, t, dt, id) \in Nat
           /\ NextIdAfter(pair, t, dt, id) >= id
  <1>1. pair["forecast"] \in ContainerStates /\ pair["uncertain"] \in ContainerStates
    BY DEF Containers
  <1>2. /\ NumNew(pair["forecast"], t, dt) \in Nat
        /\ NumNew(pair["uncertain"], t, dt) \in Nat
    BY <1>1, NumNewNat
  <1>3. \A c \in Containers, n \in Nat :
            ReleaseElements(pair[c], t, dt, n) \in ContainerStates
    BY ReleaseElementsType
  <1> QED
    BY <1>2, <1>3 DEF ReleasePair, NextIdAfter

-----------------------------------------------------------------------------
(* One step                                                                *)

LEMMA RemainingType ==
    ASSUME NEW k \in ContainerStates, NEW f \in MoveOutcomes(k), NEW ts \in Nat
    PROVE  Aged(Remaining(k, f), ts) \in FiniteSubsets(Elements)
  <1> DEFINE stay == k.elements \ OffMaps(k, f)
             moved(e) == [[e EXCEPT !.status = f[e]] EXCEPT !.age = @ + ts]
             g == [e \in stay |-> moved(e)]
  <1>1. Aged(Remaining(k, f), ts) = Range(g)
    BY DEF Aged, Remaining, Range
  <1>2. IsFiniteSet(stay)
    BY ContainerFields, FS_Subset
  <1>3. IsFiniteSet(Range(g))
    <2>1. g \in [stay -> Range(g)]
      BY DEF Range
    <2> HIDE DEF g
    <2> QED
      BY <1>2, <2>1, FiniteImage
  <1>4. ASSUME NEW e \in stay PROVE moved(e) \in Elements
    <2>1. e \in Elements /\ f[e] \in {"in_water", "on_land"}
      BY ContainerFields DEF MoveOutcomes, OffMaps
    <2> DEFINE v == f[e]
               m == [e EXCEPT !.status = v]
    <2> HIDE DEF v
    <2>2. m \in Elements
      BY <2>1 DEF Elements, v
    <2>3. m.age + ts \in Nat
      BY <2>2 DEF Elements
    <2>4. [m EXCEPT !.age = @ + ts] \in Elements
      <3> HIDE DEF m
      <3> QED
        BY <2>2, <2>3 DEF Elements
    <2> QED
      BY <2>4 DEF v
  <1> QED
    BY <1>1, <1>3, <1>4 DEF Range, FiniteSubsets

LEMMA StepContainerType ==
    ASSUME NEW k \in ContainerStates, NEW f \in MoveOutcomes(k), NEW ts \in Nat
    PROVE  StepContainer(k, f, ts) \in ContainerStates
  <1> DEFINE off  == OffMaps(k, f)
             h    == [e \in off |-> <<e.owner, e.ord>>]
             aged == Aged(Remaining(k, f), ts)
             gone == k.gone \cup {<<e.owner, e.ord>> : e \in off}
             land == IF k.elements = {} THEN k.beached
                     ELSE Cardinality(OnLand(k, f))
             lost == k.off_maps + Cardinality(off)
  <1>1. /\ IsFiniteSet(k.elements) /\ IsFiniteSet(k.gone)
        /\ k.elements \subseteq Elements
        /\ k.gone \subseteq Spills \X Nat
        /\ k.beached \in Nat /\ k.off_maps \in Nat
    BY ContainerFields
  <1>2. /\ off \in SUBSET k.elements
        /\ OnLand(k, f) \in SUBSET k.elements
    BY DEF OffMaps, OnLand
  <1>3. IsFiniteSet(off) /\ Cardinality(off) \in Nat
    BY <1>1, <1>2, FS_Subset, FS_CardinalityType
  <1>4. IsFiniteSet(OnLand(k, f)) /\ Cardinality(OnLand(k, f)) \in Nat
    BY <1>1, <1>2, FS_Subset, FS_CardinalityType
  <1>5. IsFiniteSet(Range(h))
    <2>1. h \in [off -> Range(h)]
      BY DEF Range
    <2> HIDE DEF h
    <2> QED
      BY <1>3, <2>1, FiniteImage
  <1>6. Range(h) = {<<e.owner, e.ord>> : e \in off}
    BY DEF Range
  <1>7. gone \in FiniteSubsets(Spills \X Nat)
    <2>1. {<<e.owner, e.ord>> : e \in off} \subseteq Spills \X Nat
      BY <1>1, <1>2 DEF Elements
    <2>2. IsFiniteSet(gone)
      BY <1>1, <1>5, <1>6, FS_Union
    <2> QED
      BY <1>1, <2>1, <2>2 DEF FiniteSubsets
  <1>8. aged \in FiniteSubsets(Elements)
    BY RemainingType
  <1>9. land \in Nat /\ lost \in Nat
    BY <1>1, <1>3, <1>4
  <1>10. StepContainer(k, f, ts) =
            [k EXCEPT !.elements = aged, !.gone = gone, !.beached = land,
                      !.off_maps = lost]
    BY DEF StepContainer, ContainerStates
  <1> HIDE DEF aged, gone, land, lost
  <1> QED
    BY <1>7, <1>8, <1>9, <1>10 DEF ContainerStates

LEMMA StepPairType ==
    ASSUME NEW pair \in [Containers -> ContainerStates], NEW ts \in Nat,
           NEW f \in MoveOutcomes(pair["forecast"]),
           NEW g \in MoveOutcomes(pair["uncertain"])
    PROVE  StepPair(pair, f, g, ts) \in [Containers -> ContainerStates]
  <1>1. pair["forecast"] \in ContainerStates /\ pair["uncertain"] \in ContainerStates
    BY DEF Containers
  <1>2. /\ StepContainer(pair["forecast"], f, ts) \in ContainerStates
        /\ StepContainer(pair["uncertain"], g, ts) \in ContainerStates
    BY <1>1, StepContainerType
  <1> QED
    BY <1>2 DEF StepPair, Containers

-----------------------------------------------------------------------------
(* Rewind, preparation, and the caller's edits                             *)

LEMMA EmptyType ==
    /\ EmptyContainer \in ContainerStates
    /\ Members(EmptyContainer) = {}
  <1>1. {} \in FiniteSubsets(Elements) /\ {} \in FiniteSubsets(Spills \X Nat)
    BY FS_EmptySet DEF FiniteSubsets
  <1>2. <<>> \in Seq(Spills)
    OBVIOUS
  <1> QED
    BY <1>1, <1>2 DEF EmptyContainer, ContainerStates, Members, Range

LEMMA RewindType ==
    ASSUME NEW k \in ContainerStates
    PROVE  RewindContainer(k) \in ContainerStates
  <1>1. {} \in FiniteSubsets(Elements) /\ {} \in FiniteSubsets(Spills \X Nat)
    BY FS_EmptySet DEF FiniteSubsets
  <1>2. /\ [s \in Spills |-> IF s \in Members(k) THEN 0
                             ELSE k.num_released[s]] \in [Spills -> Nat]
        /\ [s \in Spills |-> IF s \in Members(k) THEN 0
                             ELSE k.prepared[s]] \in [Spills -> Nat]
    BY ContainerFields
  <1> QED
    BY <1>1, <1>2 DEF RewindContainer, ContainerStates

\* Every spill object has a copy, of the spill it is or was copied from.
LEMMA CopyFacts ==
    ASSUME NEW s \in Spills
    PROVE  /\ CopyOf(s) \in Spills /\ IsCopy(CopyOf(s), s)
           /\ SpillOf[CopyOf(s)] = SpillOf[s]
           /\ SpillOf[s] \in Originals /\ SpillOf[s] \in Spills
           /\ SpillOf[SpillOf[s]] = SpillOf[s]
  <1>1. /\ SpillOf[s] \in Originals /\ SpillOf[s] \in Spills
        /\ SpillOf[SpillOf[s]] = SpillOf[s]
    BY CopyAssumption DEF Originals
  <1>2. PICK u \in Spills : IsCopy(u, SpillOf[s])
    BY <1>1, CopyAssumption
  <1>3. IsCopy(u, s)
    BY <1>1, <1>2 DEF IsCopy
  <1>4. CopyOf(s) \in Spills /\ IsCopy(CopyOf(s), s)
    BY <1>3 DEF CopyOf
  <1> QED
    BY <1>1, <1>4 DEF IsCopy

LEMMA UncertainCopyType ==
    ASSUME NEW k \in ContainerStates
    PROVE  UncertainCopy(k) \in ContainerStates
  <1> DEFINE copies == [i \in DOMAIN k.spills |-> CopyOf(k.spills[i])]
             C == Range(copies)
  <1>1. EmptyContainer \in ContainerStates
    BY EmptyType
  <1>2. copies \in Seq(Spills)
    <2>1. \A i \in 1 .. Len(k.spills) : CopyOf(k.spills[i]) \in Spills
      BY SpillsOfContainer, CopyFacts
    <2>2. DOMAIN k.spills = 1 .. Len(k.spills) /\ Len(k.spills) \in Nat
      BY SpillsOfContainer
    <2>3. copies \in [1 .. Len(k.spills) -> Spills]
      BY <2>1, <2>2
    <2> QED
      BY <2>2, <2>3
  <1>3. \A u \in Spills : SpillOf[u] \in Spills
    BY CopyFacts
  <1>4. UncertainCopy(k) =
            [EmptyContainer EXCEPT
               !.spills       = copies,
               !.on           = [u \in Spills |-> IF u \in C THEN k.on[SpillOf[u]]
                                                  ELSE EmptyContainer.on[u]],
               !.prepared     = [u \in Spills |-> IF u \in C THEN k.prepared[SpillOf[u]]
                                                  ELSE EmptyContainer.prepared[u]],
               !.num_released = [u \in Spills |-> IF u \in C THEN k.num_released[SpillOf[u]]
                                                  ELSE EmptyContainer.num_released[u]]]
    BY DEF UncertainCopy, EmptyContainer
  <1> HIDE DEF copies, C
  <1>5. \A e \in ContainerStates :
           [e EXCEPT
               !.spills       = copies,
               !.on           = [u \in Spills |-> IF u \in C THEN k.on[SpillOf[u]] ELSE e.on[u]],
               !.prepared     = [u \in Spills |-> IF u \in C THEN k.prepared[SpillOf[u]]
                                                  ELSE e.prepared[u]],
               !.num_released = [u \in Spills |-> IF u \in C THEN k.num_released[SpillOf[u]]
                                                  ELSE e.num_released[u]]] \in ContainerStates
    BY <1>2, <1>3, ContainerFields DEF ContainerStates
  <1> QED
    BY <1>1, <1>4, <1>5

LEMMA RewindPairType ==
    ASSUME NEW pair \in [Containers -> ContainerStates], NEW u
    PROVE  RewindPair(pair, u) \in [Containers -> ContainerStates]
  <1>1. pair["forecast"] \in ContainerStates /\ pair["uncertain"] \in ContainerStates
    BY DEF Containers
  <1>2. /\ RewindContainer(pair["forecast"]) \in ContainerStates
        /\ RewindContainer(pair["uncertain"]) \in ContainerStates
        /\ EmptyContainer \in ContainerStates
    BY <1>1, RewindType, EmptyType
  <1>3. UncertainCopy(RewindContainer(pair["forecast"])) \in ContainerStates
    BY <1>2, UncertainCopyType
  <1> QED
    BY <1>2, <1>3 DEF RewindPair

LEMMA PrepareType ==
    ASSUME NEW k \in ContainerStates, NEW ts \in Nat
    PROVE  PrepareContainer(k, ts) \in ContainerStates
  <1>1. {} \in FiniteSubsets(Elements)
    BY FS_EmptySet DEF FiniteSubsets
  <1> QED
    BY <1>1 DEF PrepareContainer, ContainerStates

LEMMA PrepareRaisesType ==
    ASSUME NEW k \in ContainerStates, NEW ts \in Nat
    PROVE  PrepareRaises(k, ts) \in ContainerStates
  BY DEF PrepareRaises, ContainerStates

\* A new copy is in the pool and not in the container.
LEMMA NewCopyFacts ==
    ASSUME NEW k, NEW s \in Spills, NewCopies(k, s) # {}
    PROVE  LET u == CHOOSE v \in NewCopies(k, s) : TRUE
           IN  u \in Spills /\ u \notin Members(k) /\ SpillOf[u] = SpillOf[s]
  <1>1. (CHOOSE v \in NewCopies(k, s) : TRUE) \in NewCopies(k, s)
    OBVIOUS
  <1> QED
    BY <1>1 DEF NewCopies, IsCopy

LEMMA WithSpillType ==
    ASSUME NEW k \in ContainerStates, NEW s \in Spills
    PROVE  WithSpill(k, s) \in ContainerStates
  <1>1. Append(k.spills, s) \in Seq(Spills)
    BY ContainerFields, AppendProperties
  <1> QED
    BY <1>1 DEF ContainerStates, WithSpill

LEMMA AddToPairType ==
    ASSUME NEW pair \in [Containers -> ContainerStates], NEW u, NEW s \in Spills,
           u => NewCopies(pair["uncertain"], s) # {}
    PROVE  AddToPair(pair, u, s) \in [Containers -> ContainerStates]
  <1> DEFINE forecast == WithSpill(pair["forecast"], s)
             v == CHOOSE x \in NewCopies(pair["uncertain"], s) : TRUE
  <1>1. forecast \in ContainerStates /\ pair["uncertain"] \in ContainerStates
    BY WithSpillType DEF Containers
  <1>2. u => v \in Spills
    BY NewCopyFacts
  <1>3. AddToPair(pair, u, s) =
            [c \in Containers |->
                IF c = "forecast" THEN forecast
                ELSE IF ~u THEN pair["uncertain"]
                ELSE [pair["uncertain"] EXCEPT
                        !.spills          = Append(@, v),
                        !.on[v]           = forecast.on[s],
                        !.prepared[v]     = forecast.prepared[s],
                        !.num_released[v] = forecast.num_released[s]]]
    BY DEF AddToPair
  <1> HIDE DEF forecast, v
  <1>4. ASSUME NEW k \in ContainerStates, NEW r \in Spills, NEW o \in BOOLEAN,
               NEW p \in Nat, NEW n \in Nat
        PROVE  [k EXCEPT !.spills = Append(@, r), !.on[r] = o,
                         !.prepared[r] = p, !.num_released[r] = n]
                   \in ContainerStates
    <2>1. Append(k.spills, r) \in Seq(Spills)
      BY ContainerFields, AppendProperties
    <2> QED
      BY <2>1 DEF ContainerStates
  <1>5. /\ forecast.on[s] \in BOOLEAN
        /\ forecast.prepared[s] \in Nat
        /\ forecast.num_released[s] \in Nat
    BY <1>1, ContainerFields
  <1>6. u => [pair["uncertain"] EXCEPT
                !.spills          = Append(@, v),
                !.on[v]           = forecast.on[s],
                !.prepared[v]     = forecast.prepared[s],
                !.num_released[v] = forecast.num_released[s]]
                    \in ContainerStates
    BY <1>1, <1>2, <1>4, <1>5
  <1> QED
    BY <1>1, <1>3, <1>6

LEMMA RemoveAtType ==
    ASSUME NEW S, NEW q \in Seq(S), NEW i \in DOMAIN q
    PROVE  RemoveAt(q, i) \in Seq(S)
  <1>1. i \in 1 .. Len(q) /\ Len(q) \in Nat
    OBVIOUS
  <1>2. \A j \in 1 .. Len(q) : q[j] \in S
    OBVIOUS
  <1>3. SubSeq(q, 1, i - 1) \in Seq(S)
    BY <1>1, <1>2, SubSeqProperties
  <1>4. SubSeq(q, i + 1, Len(q)) \in Seq(S)
    BY <1>1, <1>2, SubSeqProperties
  <1> QED
    BY <1>3, <1>4, ConcatProperties DEF RemoveAt

LEMMA RemoveFromPairType ==
    ASSUME NEW pair \in [Containers -> ContainerStates], NEW u,
           NEW i \in DOMAIN pair["forecast"].spills,
           u => i \in DOMAIN pair["uncertain"].spills
    PROVE  RemoveFromPair(pair, u, i) \in [Containers -> ContainerStates]
  <1> DEFINE s == pair["uncertain"].spills[i]
  <1>1. pair["forecast"] \in ContainerStates /\ pair["uncertain"] \in ContainerStates
    BY DEF Containers
  <1>3. RemoveAt(pair["forecast"].spills, i) \in Seq(Spills)
    BY <1>1, ContainerFields, RemoveAtType
  <1>4. [pair["forecast"] EXCEPT !.spills = RemoveAt(@, i)] \in ContainerStates
    BY <1>1, <1>3 DEF ContainerStates
  <1>5. ASSUME u
        PROVE  [pair["uncertain"] EXCEPT
                  !.spills = RemoveAt(@, i), !.on[s] = TRUE,
                  !.prepared[s] = 0, !.num_released[s] = 0]
                    \in ContainerStates
    <2>1. RemoveAt(pair["uncertain"].spills, i) \in Seq(Spills)
      BY <1>1, <1>5, ContainerFields, RemoveAtType
    <2> HIDE DEF s
    <2> QED
      BY <1>1, <2>1 DEF ContainerStates
  <1> QED
    BY <1>1, <1>4, <1>5 DEF RemoveFromPair

-----------------------------------------------------------------------------
(* What an operation leaves of a container and what it sets                *)

LEMMA PrepareFields ==
    ASSUME NEW k \in ContainerStates, NEW ts
    PROVE  /\ PrepareContainer(k, ts).spills = k.spills
           /\ PrepareContainer(k, ts).num_released = k.num_released
           /\ PrepareContainer(k, ts).elements = {}
           /\ PrepareContainer(k, ts).gone = k.gone
  BY DEF PrepareContainer, ContainerStates

LEMMA PrepareRaisesFields ==
    ASSUME NEW k \in ContainerStates, NEW ts
    PROVE  /\ PrepareRaises(k, ts).spills = k.spills
           /\ PrepareRaises(k, ts).num_released = k.num_released
           /\ PrepareRaises(k, ts).elements = k.elements
           /\ PrepareRaises(k, ts).gone = k.gone
  BY DEF PrepareRaises, ContainerStates

LEMMA RewindFields ==
    ASSUME NEW k \in ContainerStates
    PROVE  /\ RewindContainer(k).spills = k.spills
           /\ RewindContainer(k).num_released =
                  [s \in Spills |-> IF s \in Members(k) THEN 0
                                    ELSE k.num_released[s]]
           /\ RewindContainer(k).elements = {}
           /\ RewindContainer(k).gone = {}
  BY DEF RewindContainer, ContainerStates

LEMMA CopyFields ==
    ASSUME NEW k \in ContainerStates
    PROVE  LET copies == [i \in DOMAIN k.spills |-> CopyOf(k.spills[i])]
           IN  /\ UncertainCopy(k).spills = copies
               /\ UncertainCopy(k).num_released =
                      [u \in Spills |-> IF u \in Range(copies)
                                        THEN k.num_released[SpillOf[u]] ELSE 0]
               /\ UncertainCopy(k).elements = {}
               /\ UncertainCopy(k).gone = {}
  BY DEF UncertainCopy, EmptyContainer

LEMMA ReleaseFields ==
    ASSUME NEW k \in ContainerStates, NEW t, NEW dt, NEW id
    PROVE  /\ ReleaseElements(k, t, dt, id).spills = k.spills
           /\ ReleaseElements(k, t, dt, id).num_released =
                  [s \in Spills |-> IF s \in Members(k)
                                    THEN ExpectedRelease(k, s, t, dt)
                                    ELSE k.num_released[s]]
           /\ ReleaseElements(k, t, dt, id).elements =
                  k.elements \cup NewElements(k, t, dt, id)
           /\ ReleaseElements(k, t, dt, id).gone = k.gone
  BY DEF ReleaseElements, ContainerStates

LEMMA StepFields ==
    ASSUME NEW k \in ContainerStates, NEW f, NEW ts
    PROVE  /\ StepContainer(k, f, ts).spills = k.spills
           /\ StepContainer(k, f, ts).num_released = k.num_released
           /\ StepContainer(k, f, ts).elements = Aged(Remaining(k, f), ts)
           /\ StepContainer(k, f, ts).gone =
                  k.gone \cup {<<e.owner, e.ord>> : e \in OffMaps(k, f)}
  BY DEF StepContainer, ContainerStates

-----------------------------------------------------------------------------
(* The run engine                                                          *)

\* The k-th copy is one of the k-th spill.
Matched(pair) ==
    /\ Len(pair["uncertain"].spills) = Len(pair["forecast"].spills)
    /\ \A i \in DOMAIN pair["forecast"].spills :
          SpillOf[pair["uncertain"].spills[i]] = pair["forecast"].spills[i]

\* The forecast container holds no copies, and the uncertain one has one at
\* the position of each spill: removal by position finds something to remove.
\* It is that spill's own if no spill was added a second time.
Paired(u, pair) ==
    /\ pair["forecast"].spills \in Seq(Originals)
    /\ u => Len(pair["uncertain"].spills) >= Len(pair["forecast"].spills)
    /\ u /\ "again" \notin Caller => Matched(pair)

TypeInv == TypeOK /\ Paired(uncertain, sc)

-----------------------------------------------------------------------------
(* Helpers                                                                 *)

LEMMA NumTimeStepsNat ==
    ASSUME NEW d \in Nat, NEW ts \in Nat, ts > 0
    PROVE  NumTimeSteps(d, ts) \in Nat /\ NumTimeSteps(d, ts) >= 1
  <1>1. d \div ts \in Int /\ d \div ts >= 0
    BY DivDef, DivLower
  <1> QED
    BY <1>1 DEF NumTimeSteps

\* A longer duration has no fewer time steps.
LEMMA NumTimeStepsMonotone ==
    ASSUME NEW d \in Nat, NEW e \in Nat, d <= e, NEW ts \in Nat, ts > 0
    PROVE  NumTimeSteps(d, ts) <= NumTimeSteps(e, ts)
  <1> DEFINE q == d \div ts
  <1>1. q \in Int /\ ts * q <= d
    BY DivDef
  <1> HIDE DEF q
  <1>2. ts * q <= e
    BY <1>1
  <1>3. e \div ts \in Int /\ e \div ts >= q
    BY <1>1, <1>2, DivDef, DivLower
  <1> QED
    BY <1>1, <1>3 DEF NumTimeSteps, q

LEMMA MatchedIsPaired ==
    ASSUME NEW pair \in [Containers -> ContainerStates], NEW u,
           pair["forecast"].spills \in Seq(Originals), u => Matched(pair)
    PROVE  Paired(u, pair)
  <1>1. Len(pair["forecast"].spills) \in Nat
    OBVIOUS
  <1> QED
    BY <1>1 DEF Paired, Matched

\* What leaves the lists of spills leaves them paired.
LEMMA SameListsPaired ==
    ASSUME NEW a, NEW b, NEW u, Paired(u, a),
           \A c \in Containers : b[c].spills = a[c].spills
    PROVE  Paired(u, b)
  BY DEF Paired, Matched, Containers

LEMMA RewindPairMirrors ==
    ASSUME NEW pair \in [Containers -> ContainerStates], NEW u \in BOOLEAN,
           pair["forecast"].spills \in Seq(Originals)
    PROVE  Paired(u, RewindPair(pair, u))
  <1> DEFINE forecast == RewindContainer(pair["forecast"])
             other    == RewindContainer(pair["uncertain"])
             next     == RewindPair(pair, u)
  <1>1. /\ next["forecast"] = forecast
        /\ u => next["uncertain"] = IF SameSpills(forecast, other)
                                    THEN other ELSE UncertainCopy(forecast)
    BY DEF RewindPair, Containers
  <1>2. next \in [Containers -> ContainerStates]
    BY RewindPairType
  <1>3. forecast \in ContainerStates /\ forecast.spills \in Seq(Originals)
    BY RewindType, RewindFields DEF Containers
  <1> HIDE DEF forecast, other, next
  <1>4. /\ DOMAIN forecast.spills = 1 .. Len(forecast.spills)
        /\ Len(forecast.spills) \in Nat
        /\ \A i \in DOMAIN forecast.spills :
              /\ forecast.spills[i] \in Spills
              /\ SpillOf[forecast.spills[i]] = forecast.spills[i]
    BY <1>3 DEF Originals
  <1>5. ASSUME u, SameSpills(forecast, other)
        PROVE  Matched(next)
    BY <1>1, <1>4, <1>5 DEF SameSpills, Matched
  <1>6. ASSUME u, ~SameSpills(forecast, other)
        PROVE  Matched(next)
    <2> DEFINE copies == [i \in DOMAIN forecast.spills |-> CopyOf(forecast.spills[i])]
    <2>1. next["uncertain"].spills = copies
      BY <1>1, <1>3, <1>6, CopyFields
    <2>2. Len(copies) = Len(forecast.spills)
      BY <1>4
    <2>3. \A i \in DOMAIN forecast.spills : SpillOf[copies[i]] = forecast.spills[i]
      BY <1>4, CopyFacts
    <2> QED
      BY <1>1, <2>1, <2>2, <2>3 DEF Matched
  <1>7. u => Matched(next)
    BY <1>5, <1>6
  <1> QED
    BY <1>1, <1>2, <1>3, <1>7, MatchedIsPaired DEF next

\* Set-up returns containers, and keeps their spills or rewinds them.
LEMMA SetupPairType ==
    ASSUME NEW pair \in [Containers -> ContainerStates], TypeOK
    PROVE  /\ SetupPair(pair) \in [Containers -> ContainerStates]
           /\ Paired(uncertain, pair) => Paired(uncertain, SetupPair(pair))
  <1> DEFINE base == SetupBase(pair)
  <1>1. base \in [Containers -> ContainerStates]
    BY RewindPairType DEF SetupBase
  <1>2. Paired(uncertain, pair) => Paired(uncertain, base)
    BY RewindPairMirrors DEF SetupBase, Paired, TypeOK
  <1>3. time_step \in Nat
    BY TimeAssumption DEF TypeOK
  <1> HIDE DEF base
  <1>4. ASSUME NEW c \in Containers
        PROVE  /\ PrepareContainer(base[c], time_step) \in ContainerStates
               /\ PrepareContainer(base[c], time_step).spills = base[c].spills
    BY <1>1, <1>3, PrepareType, PrepareFields
  <1>5. ASSUME NEW c \in Containers
        PROVE  /\ PrepareRaises(base[c], time_step) \in ContainerStates
               /\ PrepareRaises(base[c], time_step).spills = base[c].spills
    BY <1>1, <1>3, PrepareRaisesType, PrepareRaisesFields
  <1>6. SetupPair(pair) \in [Containers -> ContainerStates]
    BY <1>1, <1>4, <1>5 DEF SetupPair, base
  <1>7. \A c \in Containers : SetupPair(pair)[c].spills = base[c].spills
    BY <1>4, <1>5 DEF SetupPair, base
  <1> QED
    BY <1>2, <1>6, <1>7, SameListsPaired

LEMMA ReleasePairMirrors ==
    ASSUME NEW pair \in [Containers -> ContainerStates], NEW u, Paired(u, pair),
           NEW t, NEW dt, NEW id
    PROVE  Paired(u, ReleasePair(pair, t, dt, id))
  <1>1. ASSUME NEW k \in ContainerStates, NEW n
        PROVE  ReleaseElements(k, t, dt, n).spills = k.spills
    BY DEF ReleaseElements, ContainerStates
  <1> QED
    BY <1>1, SameListsPaired DEF ReleasePair

LEMMA StepPairMirrors ==
    ASSUME NEW pair \in [Containers -> ContainerStates], NEW u, Paired(u, pair),
           NEW f, NEW g, NEW ts
    PROVE  Paired(u, StepPair(pair, f, g, ts))
  <1>1. ASSUME NEW k \in ContainerStates, NEW h
        PROVE  StepContainer(k, h, ts).spills = k.spills
    BY DEF StepContainer, ContainerStates
  <1> QED
    BY <1>1, SameListsPaired DEF StepPair

LEMMA ClockTypes ==
    ASSUME TypeOK
    PROVE  /\ time_step \in Nat /\ time_step > 0 /\ time_step \div 2 \in Nat
           /\ start_time \in Int
           /\ ModelTime \in Int
           /\ current_time_step \in Int
           /\ duration \in Nat
  <1>1. time_step \in Nat /\ time_step > 0 /\ start_time \in Int
    BY TimeAssumption DEF TypeOK
  <1>2. current_time_step \in Int
    BY DEF TypeOK
  <1>3. time_step \div 2 \in Nat
    BY <1>1
  <1>4. current_time_step * time_step \in Int
    BY <1>1, <1>2
  <1> QED
    BY <1>1, <1>2, <1>3, <1>4, TimeAssumption DEF TypeOK, ModelTime

-----------------------------------------------------------------------------
(* Type correctness                                                        *)

LEMMA TypeInit == Init => TypeInv
  <1> SUFFICES ASSUME Init PROVE TypeInv
    OBVIOUS
  <1>1. time_step \in Nat /\ time_step > 0 /\ duration \in Nat
    BY TimeAssumption DEF Init
  <1>2. num_time_steps \in Nat
    BY <1>1, NumTimeStepsNat DEF Init
  <1>3. sc \in [Containers -> ContainerStates]
    BY EmptyType DEF Init
  <1>4. uncertain \in BOOLEAN
    BY TimeAssumption DEF Init
  <1>5. Paired(uncertain, sc)
    <2>1. /\ sc["forecast"].spills = <<>>
          /\ sc["uncertain"].spills = <<>>
      BY DEF Init, EmptyContainer, Containers
    <2>2. Matched(sc)
      BY <2>1 DEF Matched
    <2>3. <<>> \in Seq(Originals)
      OBVIOUS
    <2> QED
      BY <1>3, <2>1, <2>2, <2>3, MatchedIsPaired
  <1> QED
    BY <1>2, <1>3, <1>4, <1>5 DEF Init, TypeInv, TypeOK

\* Sets of weatherers after set-up, and the configuration of a run.
LEMMA SetupKeepsTypes ==
    ASSUME TypeOK
    PROVE  /\ WeatherersAfterSetup \in SUBSET (Weatherers \cup {WeatheringData})
           /\ Config \in Configs
  BY DEF TypeOK, WeatherersAfterSetup, Config, Configs

LEMMA RewindKeepsTypes ==
    ASSUME TypeInv, Rewind, uncertain' = uncertain
    PROVE  /\ sc' \in [Containers -> ContainerStates]
           /\ Paired(uncertain, sc)'
           /\ current_time_step' = -1 /\ run_config' = <<>>
           /\ next_id' \in Nat
  <1>1. sc \in [Containers -> ContainerStates] /\ next_id \in Nat
    BY DEF TypeInv, TypeOK
  <1>2. sc' \in [Containers -> ContainerStates]
    BY <1>1, RewindPairType DEF Rewind
  <1>3. Paired(uncertain, sc')
    BY <1>1, RewindPairMirrors DEF Rewind, TypeInv, TypeOK, Paired
  <1> QED
    BY <1>1, <1>2, <1>3 DEF Rewind

LEMMA StepFailsType ==
    ASSUME TypeInv, StepFails
    PROVE  TypeInv'
  <1>1. sc' \in [Containers -> ContainerStates]
    BY SetupPairType DEF TypeInv, TypeOK, StepFails
  <1>2. Paired(uncertain', sc')
    BY SetupPairType DEF TypeInv, TypeOK, StepFails
  <1> QED
    BY <1>1, <1>2, SetupKeepsTypes
       DEF TypeInv, TypeOK, StepFails, LeaveFullRun

LEMMA StepZeroType ==
    ASSUME TypeInv, StepZero
    PROVE  TypeInv'
  <1> DEFINE ready == SetupPair(sc)
  <1>1. /\ sc' = ReleasePair(ready, start_time, 0, next_id)
        /\ next_id' = NextIdAfter(ready, start_time, 0, next_id)
    BY DEF StepZero
  <1>2. /\ ready \in [Containers -> ContainerStates]
        /\ Paired(uncertain, ready)
    BY SetupPairType DEF TypeInv, TypeOK
  <1>3. start_time \in Int /\ next_id \in Nat
    BY ClockTypes DEF TypeInv, TypeOK
  <1> HIDE DEF ready
  <1>4. sc' \in [Containers -> ContainerStates] /\ next_id' \in Nat
    BY <1>1, <1>2, <1>3, ReleasePairType
  <1>5. Paired(uncertain', sc')
    BY <1>1, <1>2, ReleasePairMirrors DEF StepZero
  <1> QED
    BY <1>4, <1>5, SetupKeepsTypes DEF TypeInv, TypeOK, StepZero

LEMMA StepOnType ==
    ASSUME TypeInv, StepOn
    PROVE  TypeInv'
  <1> DEFINE half  == time_step \div 2
             later == ModelTime + time_step
             pair  == ReleasePair(sc, ModelTime, half, next_id)
             id    == NextIdAfter(sc, ModelTime, half, next_id)
  <1>1. /\ half \in Nat /\ later \in Int /\ ModelTime \in Int
        /\ time_step \in Nat /\ next_id \in Nat
        /\ sc \in [Containers -> ContainerStates]
    BY ClockTypes DEF TypeInv, TypeOK
  <1>2. PICK f \in MoveOutcomes(pair["forecast"]),
             g \in MoveOutcomes(pair["uncertain"]) :
            /\ sc' = ReleasePair(StepPair(pair, f, g, time_step), later, 0, id)
            /\ next_id' = NextIdAfter(StepPair(pair, f, g, time_step),
                                      later, 0, id)
    BY DEF StepOn
  <1> HIDE DEF half, later
  <1>3. pair \in [Containers -> ContainerStates] /\ id \in Nat
    BY <1>1, ReleasePairType
  <1>4. Paired(uncertain, pair)
    BY <1>1, ReleasePairMirrors DEF TypeInv
  <1> HIDE DEF pair, id
  <1> DEFINE moved == StepPair(pair, f, g, time_step)
  <1>5. moved \in [Containers -> ContainerStates]
    BY <1>1, <1>2, <1>3, StepPairType
  <1>6. Paired(uncertain, moved)
    BY <1>3, <1>4, StepPairMirrors
  <1>7. sc' = ReleasePair(moved, later, 0, id)
        /\ next_id' = NextIdAfter(moved, later, 0, id)
    BY <1>2
  <1> HIDE DEF moved
  <1>8. sc' \in [Containers -> ContainerStates] /\ next_id' \in Nat
    BY <1>1, <1>3, <1>5, <1>7, ReleasePairType
  <1>9. Paired(uncertain', sc')
    BY <1>5, <1>6, <1>7, ReleasePairMirrors DEF StepOn, edited
  <1> QED
    BY <1>8, <1>9 DEF TypeInv, TypeOK, StepOn, edited

LEMMA FullRunType ==
    ASSUME TypeInv, NEW rewind \in BOOLEAN, FullRun(rewind)
    PROVE  TypeInv'
  <1> DEFINE pair == IF rewind THEN RewindPair(sc, uncertain) ELSE sc
  <1>1. sc' = SetupPair(pair)
    BY DEF FullRun
  <1>2. sc \in [Containers -> ContainerStates] /\ uncertain' = uncertain
        /\ uncertain \in BOOLEAN
    BY DEF TypeInv, TypeOK, FullRun
  <1>3. pair \in [Containers -> ContainerStates]
    BY <1>2, RewindPairType
  <1>4. Paired(uncertain, pair)
    BY <1>2, RewindPairMirrors DEF TypeInv, Paired
  <1> HIDE DEF pair
  <1>5. sc' \in [Containers -> ContainerStates]
    BY <1>1, <1>3, SetupPairType DEF TypeInv
  <1>6. Paired(uncertain', sc')
    BY <1>1, <1>2, <1>3, <1>4, SetupPairType DEF TypeInv
  <1>7. current_time_step' \in Nat \cup {-1}
        /\ run_config' \in {<<>>} \cup {<<c>> : c \in Configs}
    BY DEF TypeInv, TypeOK, FullRun
  <1> QED
    BY <1>5, <1>6, <1>7, SetupKeepsTypes DEF TypeInv, TypeOK, FullRun

\* The setters and collection callbacks that rewind.
LEMMA RewindingEditType ==
    ASSUME TypeInv, UNCHANGED mode,
           \/ Rewind /\ UNCHANGED edited
           \/ \E t \in StartTimes : SetStartTime(t)
           \/ \E ts \in TimeSteps : SetTimeStep(ts)
           \/ \E m \in Movers : AddMover(m) \/ RemoveMover(m)
           \/ \E w \in Weatherers : AddWeatherer(w)
    PROVE  TypeInv'
  <1>1. Rewind /\ uncertain' = uncertain
    BY DEF edited, SetStartTime, SetTimeStep, AddMover, RemoveMover,
           AddWeatherer
  <1>2. num_time_steps' \in Nat
    <2>1. ASSUME NEW ts \in TimeSteps
          PROVE  NumTimeSteps(duration, ts) \in Nat
      BY NumTimeStepsNat, TimeAssumption DEF TypeInv, TypeOK
    <2> QED
      BY <2>1 DEF TypeInv, TypeOK, edited, SetStartTime, SetTimeStep,
                  AddMover, RemoveMover, AddWeatherer
  <1>3. /\ start_time' \in StartTimes /\ time_step' \in TimeSteps
        /\ duration' \in Durations
        /\ movers' \in SUBSET Movers
        /\ weatherers' \in SUBSET (Weatherers \cup {WeatheringData})
    BY DEF TypeInv, TypeOK, edited, SetStartTime, SetTimeStep, AddMover,
           RemoveMover, AddWeatherer
  <1> QED
    BY <1>1, <1>2, <1>3, RewindKeepsTypes DEF TypeInv, TypeOK

LEMMA SetDurationType ==
    ASSUME TypeInv, UNCHANGED mode, NEW d \in Durations, SetDuration(d)
    PROVE  TypeInv'
  <1>1. num_time_steps' \in Nat
    BY NumTimeStepsNat, TimeAssumption DEF TypeInv, TypeOK, SetDuration
  <1>2. /\ sc' \in [Containers -> ContainerStates]
        /\ Paired(uncertain', sc')
        /\ current_time_step' \in Nat \cup {-1}
        /\ run_config' \in {<<>>} \cup {<<c>> : c \in Configs}
        /\ next_id' \in Nat
    <2>1. CASE d < duration
      BY <2>1, RewindKeepsTypes DEF SetDuration
    <2>2. CASE ~(d < duration)
      BY <2>2 DEF TypeInv, TypeOK, SetDuration, run
    <2> QED
      BY <2>1, <2>2
  <1> QED
    BY <1>1, <1>2 DEF TypeInv, TypeOK, SetDuration

LEMMA SetUncertainType ==
    ASSUME TypeInv, UNCHANGED mode, NEW b \in UncertainModes, SetUncertain(b)
    PROVE  TypeInv'
  <1> DEFINE other == IF b THEN UncertainCopy(sc["forecast"])
                      ELSE EmptyContainer
             pair  == [sc EXCEPT !["uncertain"] = other]
  <1>1. sc \in [Containers -> ContainerStates] /\ b \in BOOLEAN
    BY TimeAssumption DEF TypeInv, TypeOK
  <1>2. other \in ContainerStates
    BY <1>1, UncertainCopyType, EmptyType DEF Containers
  <1>3. sc' = RewindPair(pair, b)
    BY DEF SetUncertain
  <1> HIDE DEF other
  <1>4. pair \in [Containers -> ContainerStates]
    BY <1>1, <1>2
  <1>7. pair["forecast"].spills \in Seq(Originals)
    BY <1>1 DEF TypeInv, Paired, Containers
  <1> HIDE DEF pair
  <1>5. sc' \in [Containers -> ContainerStates]
    BY <1>3, <1>4, RewindPairType
  <1>6. Paired(uncertain', sc')
    BY <1>1, <1>3, <1>4, <1>7, RewindPairMirrors DEF SetUncertain
  <1> QED
    BY <1>1, <1>5, <1>6 DEF TypeInv, TypeOK, SetUncertain

LEMMA AppendFacts ==
    ASSUME NEW S, NEW q \in Seq(S), NEW x
    PROVE  /\ Len(q) \in Nat /\ DOMAIN q = 1 .. Len(q)
           /\ Len(Append(q, x)) = Len(q) + 1
           /\ DOMAIN Append(q, x) = 1 .. (Len(q) + 1)
           /\ \A i \in 1 .. Len(q) : Append(q, x)[i] = q[i]
           /\ Append(q, x)[Len(q) + 1] = x
  OBVIOUS

LEMMA AddSpillType ==
    ASSUME TypeInv, UNCHANGED mode, NEW s \in Originals, AddSpill(s)
    PROVE  TypeInv'
  <1> DEFINE p == sc["forecast"].spills
             q == sc["uncertain"].spills
             u == CHOOSE v \in NewCopies(sc["uncertain"], s) : TRUE
  <1>1. /\ sc' = AddToPair(sc, uncertain, s) /\ uncertain' = uncertain
        /\ uncertain => NewCopies(sc["uncertain"], s) # {}
        /\ sc \in [Containers -> ContainerStates]
        /\ s \in Spills /\ SpillOf[s] = s
    BY DEF AddSpill, edited, TypeInv, TypeOK, Originals
  <1>2. sc' \in [Containers -> ContainerStates]
    BY <1>1, AddToPairType
  <1>3. /\ "forecast" \in Containers /\ "uncertain" \in Containers
        /\ sc["forecast"] \in ContainerStates
        /\ sc["uncertain"] \in ContainerStates
        /\ p \in Seq(Originals) /\ q \in Seq(Spills)
    BY <1>1, ContainerFields DEF Containers, TypeInv, Paired
  <1>4. sc'["forecast"].spills =
            IF s \in Members(sc["forecast"]) THEN p ELSE Append(p, s)
    BY <1>1, <1>3 DEF AddToPair, WithSpill, ContainerStates
  <1>5. uncertain => sc'["uncertain"].spills = Append(q, u)
    BY <1>1, <1>3 DEF AddToPair, ContainerStates
  <1>6. uncertain => SpillOf[u] = s
    BY <1>1, NewCopyFacts
  <1>7. "again" \notin Caller /\ uncertain => s \notin Members(sc["forecast"])
    BY DEF AddSpill
  <1>8. /\ uncertain => Len(q) >= Len(p)
        /\ uncertain /\ "again" \notin Caller => Matched(sc)
    BY DEF TypeInv, Paired
  <1> HIDE DEF u
  <1>9. Paired(uncertain, sc')
    <2>1. sc'["forecast"].spills \in Seq(Originals)
      BY <1>3, <1>4, AppendProperties
    <2>2. ASSUME uncertain
          PROVE  Len(sc'["uncertain"].spills) >= Len(sc'["forecast"].spills)
      <3>1. /\ Len(p) \in Nat /\ Len(q) \in Nat /\ Len(q) >= Len(p)
            /\ Len(Append(p, s)) = Len(p) + 1 /\ Len(Append(q, u)) = Len(q) + 1
        BY <1>3, <1>8, <2>2, AppendFacts
      <3>2. /\ sc'["uncertain"].spills = Append(q, u)
            /\ sc'["forecast"].spills \in {p, Append(p, s)}
        BY <1>4, <1>5, <2>2
      <3> HIDE DEF p, q
      <3> QED
        BY <3>1, <3>2
    <2>3. ASSUME uncertain, "again" \notin Caller
          PROVE  Matched(sc')
      <3>1. Len(q) = Len(p) /\ \A i \in DOMAIN p : SpillOf[q[i]] = p[i]
        BY <1>8, <2>3 DEF Matched
      <3>2. /\ sc'["forecast"].spills = Append(p, s)
            /\ sc'["uncertain"].spills = Append(q, u)
        BY <1>4, <1>5, <1>7, <2>3
      <3> HIDE DEF p, q
      <3>3. \A i \in DOMAIN Append(p, s) : SpillOf[Append(q, u)[i]] = Append(p, s)[i]
        <4> TAKE i \in DOMAIN Append(p, s)
        <4>1. CASE i \in DOMAIN p
          BY <1>3, <3>1, <4>1, AppendFacts
        <4>2. CASE i = Len(p) + 1
          BY <1>3, <1>6, <2>3, <3>1, <4>2, AppendFacts
        <4>3. i \in DOMAIN p \/ i = Len(p) + 1
          BY <1>3, AppendFacts
        <4> QED
          BY <4>1, <4>2, <4>3
      <3>4. Len(Append(q, u)) = Len(Append(p, s))
        BY <1>3, <3>1, AppendFacts
      <3> QED
        BY <3>2, <3>3, <3>4 DEF Matched
    <2> QED
      BY <2>1, <2>2, <2>3 DEF Paired
  <1> QED
    BY <1>1, <1>2, <1>9 DEF TypeInv, TypeOK, AddSpill, edited

\* Removal at a position closes the gap.
LEMMA RemoveAtShape ==
    ASSUME NEW S, NEW q \in Seq(S), NEW i \in 1 .. Len(q)
    PROVE  /\ DOMAIN RemoveAt(q, i) = 1 .. (Len(q) - 1)
           /\ \A j \in 1 .. (Len(q) - 1) :
                  RemoveAt(q, i)[j] = IF j < i THEN q[j] ELSE q[j + 1]
  <1> DEFINE n == Len(q)
             a == SubSeq(q, 1, i - 1)
             b == SubSeq(q, i + 1, n)
  <1>1. n \in Nat /\ i \in Nat /\ 1 <= i /\ i <= n
        /\ \A j \in 1 .. n : q[j] \in S
    OBVIOUS
  <1>2. /\ a \in Seq(S) /\ Len(a) = i - 1
        /\ \A j \in 1 .. (i - 1) : a[j] = q[j]
    BY <1>1
  <1>3. /\ b \in Seq(S) /\ Len(b) = n - i
        /\ \A j \in 1 .. (n - i) : b[j] = q[i + j]
    BY <1>1
  <1>4. RemoveAt(q, i) = a \o b
    BY DEF RemoveAt
  <1> HIDE DEF a, b, n
  <1>5. /\ a \o b \in Seq(S) /\ Len(a \o b) = Len(a) + Len(b)
        /\ \A j \in 1 .. (Len(a) + Len(b)) :
               (a \o b)[j] = IF j <= Len(a) THEN a[j] ELSE b[j - Len(a)]
    BY <1>2, <1>3, ConcatProperties
  <1>6. Len(a) + Len(b) = n - 1
    BY <1>1, <1>2, <1>3
  <1>7. DOMAIN (a \o b) = 1 .. (n - 1)
    BY <1>5, <1>6
  <1>8. ASSUME NEW j \in 1 .. (n - 1), j < i
        PROVE  (a \o b)[j] = q[j]
    <2>1. j \in 1 .. (i - 1) /\ j <= Len(a)
      BY <1>1, <1>2, <1>8
    <2> QED
      BY <1>2, <1>5, <1>6, <2>1
  <1>9. ASSUME NEW j \in 1 .. (n - 1), ~(j < i)
        PROVE  (a \o b)[j] = q[j + 1]
    <2> DEFINE l == j - (i - 1)
    <2>1. l \in 1 .. (n - i) /\ i + l = j + 1 /\ ~(j <= Len(a))
          /\ l = j - Len(a)
      BY <1>1, <1>2, <1>9
    <2> HIDE DEF l
    <2>2. (a \o b)[j] = b[l]
      BY <1>5, <1>6, <2>1
    <2>3. b[l] = q[i + l]
      BY <1>3, <2>1
    <2> QED
      BY <2>1, <2>2, <2>3
  <1> QED
    BY <1>4, <1>7, <1>8, <1>9 DEF n

LEMMA RemoveSpillType ==
    ASSUME TypeInv, UNCHANGED mode,
           NEW i \in DOMAIN sc["forecast"].spills, RemoveSpill(i)
    PROVE  TypeInv'
  <1> DEFINE p == sc["forecast"].spills
             q == sc["uncertain"].spills
  <1>1. sc' = RemoveFromPair(sc, uncertain, i) /\ uncertain' = uncertain
        /\ sc \in [Containers -> ContainerStates]
    BY DEF RemoveSpill, edited, TypeInv, TypeOK
  <1>2. /\ "forecast" \in Containers /\ "uncertain" \in Containers
        /\ sc["forecast"] \in ContainerStates
        /\ sc["uncertain"] \in ContainerStates
        /\ p \in Seq(Originals) /\ q \in Seq(Spills)
        /\ DOMAIN p = 1 .. Len(p) /\ DOMAIN q = 1 .. Len(q)
        /\ Len(p) \in Nat /\ Len(q) \in Nat /\ i \in 1 .. Len(p)
    BY <1>1, ContainerFields DEF Containers, TypeInv, Paired
  <1>3. /\ uncertain => Len(q) >= Len(p)
        /\ uncertain /\ "again" \notin Caller => Matched(sc)
    BY DEF TypeInv, Paired
  <1>4. uncertain => i \in 1 .. Len(q)
    BY <1>2, <1>3
  <1>5. sc' \in [Containers -> ContainerStates]
    BY <1>1, <1>2, <1>4, RemoveFromPairType
  <1>6. sc'["forecast"].spills = RemoveAt(p, i)
    BY <1>1, <1>2 DEF RemoveFromPair, ContainerStates
  <1>7. uncertain => sc'["uncertain"].spills = RemoveAt(q, i)
    BY <1>1, <1>2 DEF RemoveFromPair, ContainerStates
  <1> HIDE DEF p, q
  <1>8. /\ RemoveAt(p, i) \in Seq(Originals)
        /\ Len(RemoveAt(p, i)) = Len(p) - 1
        /\ DOMAIN RemoveAt(p, i) = 1 .. (Len(p) - 1)
        /\ \A j \in 1 .. (Len(p) - 1) :
              RemoveAt(p, i)[j] = IF j < i THEN p[j] ELSE p[j + 1]
    <2>1. /\ RemoveAt(p, i) \in Seq(Originals)
          /\ DOMAIN RemoveAt(p, i) = 1 .. (Len(p) - 1)
          /\ \A j \in 1 .. (Len(p) - 1) :
                RemoveAt(p, i)[j] = IF j < i THEN p[j] ELSE p[j + 1]
      BY <1>2, RemoveAtType, RemoveAtShape
    <2>2. Len(p) - 1 \in Nat
      BY <1>2
    <2> QED
      BY <2>1, <2>2
  <1>9. ASSUME uncertain
        PROVE  /\ Len(RemoveAt(q, i)) = Len(q) - 1
               /\ \A j \in 1 .. (Len(q) - 1) :
                     RemoveAt(q, i)[j] = IF j < i THEN q[j] ELSE q[j + 1]
    <2>1. /\ RemoveAt(q, i) \in Seq(Spills)
          /\ DOMAIN RemoveAt(q, i) = 1 .. (Len(q) - 1)
          /\ \A j \in 1 .. (Len(q) - 1) :
                RemoveAt(q, i)[j] = IF j < i THEN q[j] ELSE q[j + 1]
      BY <1>2, <1>4, <1>9, RemoveAtType, RemoveAtShape
    <2>2. Len(q) - 1 \in Nat
      BY <1>2, <1>4, <1>9
    <2> QED
      BY <2>1, <2>2
  <1>10. Paired(uncertain, sc')
    <2>1. ASSUME uncertain
          PROVE  Len(sc'["uncertain"].spills) >= Len(sc'["forecast"].spills)
      BY <1>2, <1>3, <1>6, <1>7, <1>8, <1>9, <2>1
    <2>2. ASSUME uncertain, "again" \notin Caller
          PROVE  Matched(sc')
      <3>1. Len(q) = Len(p) /\ \A j \in DOMAIN p : SpillOf[q[j]] = p[j]
        BY <1>3, <2>2 DEF Matched, p, q
      <3>2. \A j \in 1 .. (Len(p) - 1) :
                SpillOf[RemoveAt(q, i)[j]] = RemoveAt(p, i)[j]
        <4> TAKE j \in 1 .. (Len(p) - 1)
        <4>1. j \in 1 .. Len(p) /\ j + 1 \in 1 .. Len(p)
          BY <1>2
        <4> QED
          BY <1>2, <1>8, <1>9, <2>2, <3>1, <4>1
      <3> QED
        BY <1>6, <1>7, <1>8, <1>9, <2>2, <3>1, <3>2 DEF Matched
    <2> QED
      BY <1>6, <1>8, <2>1, <2>2 DEF Paired
  <1> QED
    BY <1>1, <1>5, <1>10 DEF TypeInv, TypeOK, RemoveSpill, edited

LEMMA SwitchSpillType ==
    ASSUME TypeInv, UNCHANGED mode, NEW s \in Spills, SwitchSpill(s)
    PROVE  TypeInv'
  <1>1. sc \in [Containers -> ContainerStates]
    BY DEF TypeInv, TypeOK
  <1>2. sc["forecast"] \in ContainerStates /\ "forecast" \in Containers
    BY <1>1 DEF Containers
  <1> DEFINE k == sc["forecast"]
             switched == [k EXCEPT !.on[s] = ~@]
  <1>3. switched \in ContainerStates /\ switched.spills = k.spills
    BY <1>2 DEF ContainerStates
  <1>4. sc' = [sc EXCEPT !["forecast"] = switched]
    BY <1>1, <1>2 DEF SwitchSpill
  <1> HIDE DEF switched
  <1>5. sc' \in [Containers -> ContainerStates]
    BY <1>1, <1>3, <1>4
  <1>6. Paired(uncertain, sc')
    <2>1. \A c \in Containers : sc'[c].spills = sc[c].spills
      BY <1>1, <1>2, <1>3, <1>4 DEF Containers
    <2> QED
      BY <2>1, SameListsPaired DEF TypeInv
  <1> QED
    BY <1>5, <1>6 DEF TypeInv, TypeOK, SwitchSpill, edited

LEMMA TypeNext == TypeInv /\ [Next]_vars => TypeInv'
  <1> SUFFICES ASSUME TypeInv, [Next]_vars PROVE TypeInv'
    OBVIOUS
  <1>1. CASE StepFails
    BY <1>1, StepFailsType
  <1>2. CASE StepZero
    BY <1>2, StepZeroType
  <1>3. CASE StepOn
    BY <1>3, StepOnType
  <1>4. CASE StepPastEnd
    BY <1>4 DEF TypeInv, TypeOK, StepPastEnd, LeaveFullRun, edited, run
  <1>5. CASE \E rewind \in BOOLEAN : FullRun(rewind)
    BY <1>5, FullRunType
  <1>6. CASE Edit
    <2>1. UNCHANGED mode
      BY <1>6 DEF Edit
    <2>2. Members(sc["forecast"]) \subseteq Spills
      BY SpillsOfContainer DEF TypeInv, TypeOK, Containers
    <2>3. ASSUME \/ \E d \in Durations : SetDuration(d)
                 \/ \E b \in UncertainModes : SetUncertain(b)
          PROVE  TypeInv'
      BY <2>1, <2>3, SetDurationType, SetUncertainType
    <2>4. ASSUME \E w \in Weatherers : RemoveWeatherer(w)
          PROVE  TypeInv'
      BY <2>1, <2>4
         DEF TypeInv, TypeOK, RemoveWeatherer, run
    <2>5. ASSUME \/ \E s \in Originals : AddSpill(s)
                 \/ \E i \in DOMAIN sc["forecast"].spills : RemoveSpill(i)
                 \/ \E s \in Members(sc["forecast"]) : SwitchSpill(s)
          PROVE  TypeInv'
      BY <2>1, <2>2, <2>5, AddSpillType, RemoveSpillType, SwitchSpillType
    <2> QED
      BY <1>6, <2>1, <2>3, <2>4, <2>5, RewindingEditType DEF Edit
  <1>7. CASE UNCHANGED vars
    BY <1>7 DEF TypeInv, TypeOK, vars, edited, run
  <1> QED
    BY <1>1, <1>2, <1>3, <1>4, <1>5, <1>6, <1>7 DEF Next, Step

\* Every reachable state of the run engine is well typed, for every caller:
\* in particular no element marked to be removed is left in the arrays
\* between two calls.
THEOREM TypeCorrect == Spec => []TypeOK
  <1>1. TypeInv => TypeOK
    BY DEF TypeInv
  <1> QED
    BY <1>1, TypeInit, TypeNext, PTL DEF Spec

-----------------------------------------------------------------------------
(* A run keeps inside its clock, and keeps its configuration               *)

LEMMA InsideRunInit == Init => InsideRun
  <1> SUFFICES ASSUME Init PROVE InsideRun
    OBVIOUS
  <1>1. NumTimeSteps(duration, time_step) >= 1
        /\ NumTimeSteps(duration, time_step) \in Nat
    BY NumTimeStepsNat, TimeAssumption DEF Init
  <1> QED
    BY <1>1 DEF Init, InsideRun

LEMMA InsideRunNext ==
    TypeInv /\ InsideRun /\ [Next]_vars => InsideRun'
  <1> SUFFICES ASSUME TypeInv, InsideRun, [Next]_vars PROVE InsideRun'
    OBVIOUS
  <1>1. /\ num_time_steps \in Nat /\ num_time_steps >= 1
        /\ current_time_step \in Int
    <2>1. time_step \in Nat /\ time_step > 0 /\ duration \in Nat
          /\ current_time_step \in Int
      BY ClockTypes DEF TypeInv
    <2> QED
      BY <2>1, NumTimeStepsNat DEF InsideRun
  <1>2. ASSUME current_time_step' \in {-1, current_time_step},
               UNCHANGED <<num_time_steps, duration, time_step>>
        PROVE  InsideRun'
    BY <1>1, <1>2 DEF InsideRun
  <1>3. CASE StepFails
    BY <1>2, <1>3 DEF StepFails
  <1>4. CASE StepZero
    <2>1. num_time_steps > 0
      BY <1>1
    <2> QED
      BY <1>4, <2>1 DEF StepZero, InsideRun
  <1>5. CASE StepOn
    BY <1>1, <1>5 DEF StepOn, edited, InsideRun
  <1>6. CASE StepPastEnd \/ UNCHANGED vars
    BY <1>2, <1>6 DEF StepPastEnd, vars, edited, run
  <1>7. CASE \E rewind \in BOOLEAN : FullRun(rewind)
    BY <1>2, <1>7 DEF FullRun
  <1>8. CASE Edit
    <2>1. ASSUME \/ Rewind /\ UNCHANGED edited
                 \/ \E t \in StartTimes : SetStartTime(t)
                 \/ \E b \in UncertainModes : SetUncertain(b)
                 \/ \E m \in Movers : AddMover(m) \/ RemoveMover(m)
                 \/ \E w \in Weatherers : AddWeatherer(w) \/ RemoveWeatherer(w)
                 \/ \E s \in Originals : AddSpill(s)
                 \/ \E i \in DOMAIN sc["forecast"].spills : RemoveSpill(i)
                 \/ \E s \in Members(sc["forecast"]) : SwitchSpill(s)
          PROVE  InsideRun'
      BY <1>2, <2>1
         DEF Rewind, edited, run, SetStartTime, SetUncertain, AddMover,
             RemoveMover, AddWeatherer, RemoveWeatherer, AddSpill,
             RemoveSpill, SwitchSpill
    <2>2. ASSUME NEW ts \in TimeSteps, SetTimeStep(ts)
          PROVE  InsideRun'
      <3>1. NumTimeSteps(duration, ts) \in Nat /\ NumTimeSteps(duration, ts) >= 1
        BY NumTimeStepsNat, TimeAssumption DEF TypeInv, TypeOK
      <3> QED
        BY <2>2, <3>1 DEF SetTimeStep, Rewind, InsideRun
    <2>3. ASSUME NEW d \in Durations, SetDuration(d)
          PROVE  InsideRun'
      <3>1. /\ d \in Nat /\ duration \in Nat
            /\ time_step \in Nat /\ time_step > 0
        BY TimeAssumption DEF TypeInv, TypeOK
      <3>2. NumTimeSteps(d, time_step) \in Nat /\ NumTimeSteps(d, time_step) >= 1
        BY <3>1, NumTimeStepsNat
      <3>3. CASE d < duration
        BY <2>3, <3>2, <3>3 DEF SetDuration, Rewind, InsideRun
      <3>4. CASE ~(d < duration)
        <4>1. num_time_steps <= NumTimeSteps(d, time_step)
          BY <3>1, <3>4, NumTimeStepsMonotone DEF InsideRun
        <4>2. /\ current_time_step' = current_time_step
              /\ num_time_steps' = NumTimeSteps(d, time_step)
              /\ duration' = d /\ time_step' = time_step
          BY <2>3, <3>4 DEF SetDuration, run
        <4> QED
          BY <1>1, <3>2, <4>1, <4>2 DEF InsideRun
      <3> QED
        BY <3>3, <3>4
    <2> QED
      BY <1>8, <2>1, <2>2, <2>3 DEF Edit
  <1> QED
    BY <1>3, <1>4, <1>5, <1>6, <1>7, <1>8 DEF Next, Step

\* However start time, time step and duration are edited, a run never stands
\* beyond its last step, and num_time_steps is that of the current duration
\* and time step: the duration setter may skip the rewind when it grows.
THEOREM StaysInsideRun == Spec => []InsideRun
  BY InsideRunInit, InsideRunNext, TypeInit, TypeNext, PTL DEF Spec

LEMMA RunConfigNext ==
    TypeInv /\ RunConfigHeld /\ [Next]_vars => RunConfigHeld'
  <1> SUFFICES ASSUME TypeInv, RunConfigHeld, [Next]_vars
               PROVE  RunConfigHeld'
    OBVIOUS
  <1>1. ASSUME current_time_step' = -1
        PROVE  RunConfigHeld'
    BY <1>1 DEF RunConfigHeld
  <1>2. ASSUME UNCHANGED <<current_time_step, run_config, movers, start_time,
                           time_step, uncertain>>
        PROVE  RunConfigHeld'
    BY <1>2 DEF RunConfigHeld, Config
  <1>3. CASE StepFails
    BY <1>2, <1>3 DEF StepFails
  <1>4. CASE StepZero
    BY <1>4 DEF StepZero, RunConfigHeld, Config
  <1>5. CASE StepOn
    BY <1>5 DEF StepOn, edited, RunConfigHeld, Config
  <1>6. CASE StepPastEnd \/ UNCHANGED vars
    BY <1>2, <1>6 DEF StepPastEnd, vars, edited, run
  <1>7. CASE \E rewind \in BOOLEAN : FullRun(rewind)
    BY <1>1, <1>2, <1>7 DEF FullRun
  <1>8. CASE Edit
    <2>1. ASSUME \/ Rewind
                 \/ \E t \in StartTimes : SetStartTime(t)
                 \/ \E ts \in TimeSteps : SetTimeStep(ts)
                 \/ \E b \in UncertainModes : SetUncertain(b)
                 \/ \E m \in Movers : AddMover(m) \/ RemoveMover(m)
                 \/ \E w \in Weatherers : AddWeatherer(w)
          PROVE  RunConfigHeld'
      BY <1>1, <2>1 DEF Rewind, SetStartTime, SetTimeStep, SetUncertain,
                        AddMover, RemoveMover, AddWeatherer
    <2>2. ASSUME \/ \E w \in Weatherers : RemoveWeatherer(w)
                 \/ \E s \in Originals : AddSpill(s)
                 \/ \E i \in DOMAIN sc["forecast"].spills : RemoveSpill(i)
                 \/ \E s \in Members(sc["forecast"]) : SwitchSpill(s)
          PROVE  RunConfigHeld'
      BY <1>2, <2>2 DEF RemoveWeatherer, run, AddSpill, RemoveSpill,
                        SwitchSpill, edited
    <2>3. ASSUME NEW d \in Durations, SetDuration(d)
          PROVE  RunConfigHeld'
      BY <1>1, <1>2, <2>3 DEF SetDuration, Rewind, run
    <2> QED
      BY <1>8, <2>1, <2>2, <2>3 DEF Edit
  <1> QED
    BY <1>3, <1>4, <1>5, <1>6, <1>7, <1>8 DEF Next, Step

\* A run under way has the movers, the clock and the uncertainty it began
\* with: every edit of them rewinds the model, by setter or by callback.
THEOREM RunKeepsConfig == Spec => []RunConfigHeld
  <1>1. Init => RunConfigHeld
    BY DEF Init, RunConfigHeld
  <1> QED
    BY <1>1, RunConfigNext, TypeInit, TypeNext, PTL DEF Spec

-----------------------------------------------------------------------------
(***************************************************************************)
(* What ties the containers together, container by container.  It is       *)
(* stated of all spills and not only of those in the collection, so that a *)
(* spill can be added to it, and with the owners and ordinals of elements  *)
(* distinct, so that an element that leaves the map cannot stay under      *)
(* another id.                                                             *)
(***************************************************************************)

NoRepeats(k) ==
    \A i, j \in DOMAIN k.spills : k.spills[i] = k.spills[j] => i = j

\* Spills outside the collection have released nothing.
OutsidersAfresh(k) ==
    \A s \in Spills \ Members(k) : k.num_released[s] = 0

Accounted(k) ==
    \A s \in Spills :
        /\ Ordinals(k, s) \cup GoneOrdinals(k, s) = 1 .. k.num_released[s]
        /\ Ordinals(k, s) \cap GoneOrdinals(k, s) = {}

Distinct(k) ==
    \A e, f \in k.elements : e.owner = f.owner /\ e.ord = f.ord => e = f

NamesOwners(k) ==
    \A e \in k.elements :
        /\ e.spill_num + 1 \in DOMAIN k.spills
        /\ k.spills[e.spill_num + 1] = e.owner

Sound(k) ==
    /\ NoRepeats(k)
    /\ OutsidersAfresh(k)
    /\ Accounted(k)
    /\ Distinct(k)
    /\ NamesOwners(k)

\* A container in which nothing has been released.
Afresh(k) ==
    /\ NoRepeats(k)
    /\ k.elements = {}
    /\ k.gone = {}
    /\ \A s \in Spills : k.num_released[s] = 0

LiveOf(u) == IF u THEN Containers ELSE {"forecast"}

IInv ==
    /\ TypeInv
    /\ \A c \in Live : Sound(sc[c])
    /\ current_time_step = -1 => \A c \in Live : Afresh(sc[c])

\* A caller that does not remove spills in the middle of a run, does not
\* resume a run with full_run(rewind=False) and does not add a spill a second
\* time in the middle of a run.  These habits break the accounting: a removal
\* shifts the indices the elements hold, a set-up in the middle of a run
\* empties the arrays and not the counts, and the copy of a spill that has
\* released elements has the count and not the elements.
PlainCaller == /\ Caller \cap {"remove", "resume"} = {}
               /\ ~({"add", "again"} \subseteq Caller)

-----------------------------------------------------------------------------
(* Containers                                                              *)

LEMMA AfreshIsSound ==
    ASSUME NEW k \in ContainerStates, Afresh(k)
    PROVE  Sound(k)
  <1>1. ASSUME NEW s \in Spills
        PROVE  /\ Ordinals(k, s) = {} /\ GoneOrdinals(k, s) = {}
               /\ k.num_released[s] = 0
    BY DEF Afresh, Ordinals, GoneOrdinals
  <1>2. Accounted(k)
    <2>1. 1 .. 0 = {}
      OBVIOUS
    <2> QED
      BY <1>1, <2>1 DEF Accounted
  <1> QED
    BY <1>1, <1>2
       DEF Afresh, Sound, OutsidersAfresh, Distinct, NamesOwners

\* What a call of release_elements appends: element for element, the
\* ordinals that follow those already released, under the spill's index.
LEMMA NewElementsOwners ==
    ASSUME NEW k \in ContainerStates, NEW t \in Int, NEW dt \in Nat,
           NEW id \in Nat, NEW e \in NewElements(k, t, dt, id)
    PROVE  \E i \in DOMAIN k.spills :
               /\ e.owner = k.spills[i]
               /\ e.spill_num = i - 1
               /\ e.ord \in (k.num_released[k.spills[i]] + 1)
                                .. ExpectedRelease(k, k.spills[i], t, dt)
  <1>1. PICK p \in Batch(k, t, dt) :
            /\ e.owner = k.spills[p[1]]
            /\ e.ord = p[2]
            /\ e.spill_num = p[1] - 1
    BY DEF NewElements
  <1> QED
    BY <1>1, BatchMembers

LEMMA NewElementsComplete ==
    ASSUME NEW k \in ContainerStates, NEW t \in Int, NEW dt \in Nat,
           NEW id \in Nat, NEW i \in DOMAIN k.spills,
           NEW o \in (k.num_released[k.spills[i]] + 1)
                         .. ExpectedRelease(k, k.spills[i], t, dt)
    PROVE  \E e \in NewElements(k, t, dt, id) :
               e.owner = k.spills[i] /\ e.ord = o
  <1>1. <<i, o>> \in Batch(k, t, dt)
    BY DEF Batch
  <1> DEFINE el(p) == [id        |-> id + Cardinality(Earlier(Batch(k, t, dt), p)),
                       owner     |-> k.spills[p[1]],
                       ord       |-> p[2],
                       spill_num |-> p[1] - 1,
                       status    |-> "in_water",
                       age       |-> 0]
  <1>2. el(<<i, o>>) \in NewElements(k, t, dt, id)
    BY <1>1 DEF NewElements
  <1>3. el(<<i, o>>).owner = k.spills[i] /\ el(<<i, o>>).ord = o
    OBVIOUS
  <1> QED
    BY <1>2, <1>3

LEMMA NewElementsDistinct ==
    ASSUME NEW k \in ContainerStates, NEW t \in Int, NEW dt \in Nat,
           NEW id \in Nat, NoRepeats(k),
           NEW e \in NewElements(k, t, dt, id),
           NEW f \in NewElements(k, t, dt, id),
           e.owner = f.owner, e.ord = f.ord
    PROVE  e = f
  <1> DEFINE batch == Batch(k, t, dt)
             el(p) == [id        |-> id + Cardinality(Earlier(batch, p)),
                       owner     |-> k.spills[p[1]],
                       ord       |-> p[2],
                       spill_num |-> p[1] - 1,
                       status    |-> "in_water",
                       age       |-> 0]
  <1>1. \A p \in batch : el(p).owner = k.spills[p[1]] /\ el(p).ord = p[2]
    OBVIOUS
  <1>2. PICK p \in batch : e = el(p)
    BY DEF NewElements
  <1>3. PICK q \in batch : f = el(q)
    BY DEF NewElements
  <1> HIDE DEF el
  <1>4. k.spills[p[1]] = k.spills[q[1]] /\ p[2] = q[2]
    BY <1>1, <1>2, <1>3
  <1>5. p = <<p[1], p[2]>> /\ q = <<q[1], q[2]>>
        /\ p[1] \in DOMAIN k.spills /\ q[1] \in DOMAIN k.spills
    BY BatchMembers
  <1>6. p = q
    BY <1>4, <1>5 DEF NoRepeats
  <1> QED
    BY <1>2, <1>3, <1>6

LEMMA ReleaseAccounts ==
    ASSUME NEW k \in ContainerStates, NEW t \in Int, NEW dt \in Nat,
           NEW id \in Nat, Sound(k)
    PROVE  Accounted(ReleaseElements(k, t, dt, id))
  <1> DEFINE new  == NewElements(k, t, dt, id)
             due(s) == ExpectedRelease(k, s, t, dt)
             next == ReleaseElements(k, t, dt, id)
  <1>1. /\ next.elements = k.elements \cup new
        /\ next.gone = k.gone
        /\ \A s \in Spills : next.num_released[s] =
               IF s \in Members(k) THEN due(s) ELSE k.num_released[s]
    BY DEF ReleaseElements, ContainerStates
  <1>2. ASSUME NEW e \in new
        PROVE  /\ e.owner \in Members(k)
               /\ e.ord \in (k.num_released[e.owner] + 1) .. due(e.owner)
    <2>1. PICK i \in DOMAIN k.spills :
              /\ e.owner = k.spills[i]
              /\ e.ord \in (k.num_released[k.spills[i]] + 1)
                               .. due(k.spills[i])
      BY NewElementsOwners
    <2> QED
      BY <2>1, SpillsOfContainer
  <1>3. ASSUME NEW s \in Members(k),
               NEW o \in (k.num_released[s] + 1) .. due(s)
        PROVE  \E e \in new : e.owner = s /\ e.ord = o
    <2>1. PICK i \in DOMAIN k.spills : k.spills[i] = s
      BY DEF Members, Range
    <2> QED
      BY <2>1, NewElementsComplete
  <1>4. \A s \in Spills : /\ due(s) \in Nat /\ k.num_released[s] \in Nat
                          /\ due(s) >= k.num_released[s]
    BY ExpectedGrows, ContainerFields
  <1> HIDE DEF new, due, next
  <1>5. ASSUME NEW s \in Spills
        PROVE  /\ Ordinals(next, s) \cup GoneOrdinals(next, s)
                      = 1 .. next.num_released[s]
               /\ Ordinals(next, s) \cap GoneOrdinals(next, s) = {}
    <2>1. /\ Ordinals(k, s) \cup GoneOrdinals(k, s) = 1 .. k.num_released[s]
          /\ Ordinals(k, s) \cap GoneOrdinals(k, s) = {}
          /\ GoneOrdinals(next, s) = GoneOrdinals(k, s)
      BY <1>1 DEF Sound, Accounted, GoneOrdinals
    <2>2. CASE s \in Members(k)
      <3> DEFINE n == k.num_released[s]
                 m == due(s)
      <3>1. Ordinals(next, s) = Ordinals(k, s) \cup ((n + 1) .. m)
        BY <1>1, <1>2, <1>3, <2>2 DEF Ordinals
      <3>2. next.num_released[s] = m /\ n \in Nat /\ m \in Nat /\ n <= m
        BY <1>1, <1>4, <2>2
      <3>3. /\ Ordinals(k, s) \cup GoneOrdinals(k, s) = 1 .. n
            /\ Ordinals(k, s) \cap GoneOrdinals(k, s) = {}
        BY <2>1
      <3> HIDE DEF n, m
      <3>4. (1 .. n) \cup ((n + 1) .. m) = 1 .. m
            /\ (1 .. n) \cap ((n + 1) .. m) = {}
        BY <3>2
      <3> QED
        BY <2>1, <3>1, <3>2, <3>3, <3>4
    <2>3. CASE s \notin Members(k)
      <3>1. Ordinals(next, s) = Ordinals(k, s)
        BY <1>1, <1>2, <2>3 DEF Ordinals
      <3> QED
        BY <1>1, <2>1, <2>3, <3>1
    <2> QED
      BY <2>2, <2>3
  <1> QED
    BY <1>5 DEF Accounted, next

LEMMA ReleaseSound ==
    ASSUME NEW k \in ContainerStates, NEW t \in Int, NEW dt \in Nat,
           NEW id \in Nat, Sound(k)
    PROVE  Sound(ReleaseElements(k, t, dt, id))
  <1> DEFINE new  == NewElements(k, t, dt, id)
             next == ReleaseElements(k, t, dt, id)
  <1>1. /\ next.elements = k.elements \cup new
        /\ next.spills = k.spills
        /\ \A s \in Spills \ Members(k) :
               next.num_released[s] = k.num_released[s]
    BY DEF ReleaseElements, ContainerStates
  <1>2. Accounted(next)
    BY ReleaseAccounts
  <1>3. ASSUME NEW e \in new
        PROVE  \E i \in DOMAIN k.spills :
                  /\ e.owner = k.spills[i] /\ e.spill_num = i - 1
                  /\ e.owner \in Spills
                  /\ e.ord > k.num_released[e.owner]
    <2>1. PICK i \in DOMAIN k.spills :
               /\ e.owner = k.spills[i] /\ e.spill_num = i - 1
               /\ e.ord \in (k.num_released[k.spills[i]] + 1)
                                .. ExpectedRelease(k, k.spills[i], t, dt)
      BY NewElementsOwners
    <2>2. k.spills[i] \in Spills
      BY SpillsOfContainer
    <2>3. k.num_released[k.spills[i]] \in Nat
      BY <2>2, ContainerFields
    <2> QED
      BY <2>1, <2>2, <2>3, ExpectedGrows
  <1>4. ASSUME NEW e \in k.elements
        PROVE  e.owner \in Spills /\ e.ord <= k.num_released[e.owner]
    <2>1. e.owner \in Spills
      BY ContainerFields DEF Elements
    <2>2. e.ord \in Ordinals(k, e.owner)
      BY DEF Ordinals
    <2>3. e.ord \in 1 .. k.num_released[e.owner]
      BY <2>1, <2>2 DEF Sound, Accounted
    <2> QED
      BY <2>1, <2>3
  <1>5. \A s \in Spills : k.num_released[s] \in Nat
    BY ContainerFields
  <1>6. ASSUME NEW e \in new, NEW f \in new, e.owner = f.owner, e.ord = f.ord
        PROVE  e = f
    BY <1>6, NewElementsDistinct DEF Sound
  <1> HIDE DEF new, next
  <1>7. Distinct(next)
    <2>1. \A e \in k.elements, f \in new :
              ~(e.owner = f.owner /\ e.ord = f.ord)
      <3> SUFFICES ASSUME NEW e \in k.elements, NEW f \in new,
                          e.owner = f.owner, e.ord = f.ord
                   PROVE  FALSE
        OBVIOUS
      <3>1. e.ord \in Nat
        BY ContainerFields DEF Elements
      <3> QED
        BY <1>3, <1>4, <1>5, <3>1
    <2>2. \A e, f \in k.elements :
              e.owner = f.owner /\ e.ord = f.ord => e = f
      BY DEF Sound, Distinct
    <2> QED
      BY <1>1, <1>6, <2>1, <2>2 DEF Distinct
  <1>8. NamesOwners(next)
    <2>1. ASSUME NEW e \in new
          PROVE  /\ e.spill_num + 1 \in DOMAIN k.spills
                 /\ k.spills[e.spill_num + 1] = e.owner
      <3>1. PICK i \in DOMAIN k.spills :
                e.owner = k.spills[i] /\ e.spill_num = i - 1
        BY <1>3
      <3>2. e.spill_num + 1 = i
        BY <3>1, SpillsOfContainer
      <3> QED
        BY <3>1, <3>2
    <2> QED
      BY <1>1, <2>1 DEF NamesOwners, Sound
  <1>9. NoRepeats(next) /\ OutsidersAfresh(next)
    BY <1>1 DEF Sound, NoRepeats, OutsidersAfresh, Members
  <1> QED
    BY <1>2, <1>7, <1>8, <1>9 DEF Sound, next

LEMMA StepSound ==
    ASSUME NEW k \in ContainerStates, NEW f \in MoveOutcomes(k),
           NEW ts \in Nat, Sound(k)
    PROVE  Sound(StepContainer(k, f, ts))
  <1> DEFINE next == StepContainer(k, f, ts)
             stay == k.elements \ OffMaps(k, f)
             moved(e) == [[e EXCEPT !.status = f[e]] EXCEPT !.age = @ + ts]
  <1>1. /\ next.spills = k.spills
        /\ next.num_released = k.num_released
        /\ next.elements = {moved(e) : e \in stay}
        /\ next.gone = k.gone \cup {<<e.owner, e.ord>> : e \in OffMaps(k, f)}
    <2>1. next.elements = Aged(Remaining(k, f), ts)
      BY DEF StepContainer, ContainerStates
    <2>2. Aged(Remaining(k, f), ts) = {moved(e) : e \in stay}
      BY DEF Aged, Remaining
    <2> QED
      BY <2>1, <2>2 DEF StepContainer, ContainerStates
  <1>2. ASSUME NEW e \in stay
        PROVE  /\ moved(e).owner = e.owner /\ moved(e).ord = e.ord
               /\ moved(e).spill_num = e.spill_num
    BY ContainerFields DEF Elements
  <1>3. OffMaps(k, f) \subseteq k.elements
    BY DEF OffMaps
  <1> HIDE DEF next, moved
  <1>4. ASSUME NEW s \in Spills
        PROVE  /\ Ordinals(next, s) \cup GoneOrdinals(next, s)
                      = 1 .. next.num_released[s]
               /\ Ordinals(next, s) \cap GoneOrdinals(next, s) = {}
    <2> DEFINE off == {e.ord : e \in {x \in OffMaps(k, f) : x.owner = s}}
    <2>1. /\ Ordinals(k, s) \cup GoneOrdinals(k, s) = 1 .. k.num_released[s]
          /\ Ordinals(k, s) \cap GoneOrdinals(k, s) = {}
      BY DEF Sound, Accounted
    <2>2. Ordinals(next, s) = {e.ord : e \in {x \in stay : x.owner = s}}
      BY <1>1, <1>2 DEF Ordinals
    <2>3. GoneOrdinals(next, s) = GoneOrdinals(k, s) \cup off
      <3>1. ASSUME NEW o
            PROVE  o \in GoneOrdinals(next, s) <=>
                       \/ o \in GoneOrdinals(k, s)
                       \/ \E e \in OffMaps(k, f) : e.owner = s /\ e.ord = o
        <4>1. ASSUME NEW e \in OffMaps(k, f)
              PROVE  /\ <<e.owner, e.ord>> \in next.gone
                     /\ <<e.owner, e.ord>>[1] = e.owner
                     /\ <<e.owner, e.ord>>[2] = e.ord
          BY <1>1
        <4>2. ASSUME NEW p \in next.gone
              PROVE  \/ p \in k.gone
                     \/ \E e \in OffMaps(k, f) : p[1] = e.owner /\ p[2] = e.ord
          BY <1>1
        <4>3. k.gone \subseteq next.gone
          BY <1>1
        <4> QED
          BY <4>1, <4>2, <4>3 DEF GoneOrdinals
      <3> QED
        BY <3>1
    <2>4. Ordinals(k, s) = Ordinals(next, s) \cup off
      BY <1>3, <2>2 DEF Ordinals
    <2>5. Ordinals(next, s) \cap off = {}
      BY <1>3, <2>2 DEF Sound, Distinct
    <2> HIDE DEF off
    <2> QED
      BY <1>1, <2>1, <2>3, <2>4, <2>5
  <1>5. Distinct(next)
    BY <1>1, <1>2 DEF Sound, Distinct
  <1>6. NamesOwners(next)
    BY <1>1, <1>2 DEF Sound, NamesOwners
  <1>7. NoRepeats(next) /\ OutsidersAfresh(next)
    BY <1>1 DEF Sound, NoRepeats, OutsidersAfresh, Members
  <1> QED
    BY <1>4, <1>5, <1>6, <1>7 DEF Sound, Accounted, next

-----------------------------------------------------------------------------
(* Pairs of containers                                                     *)

\* What a rewind needs of a container to leave nothing released in it.
Rewindable(k) == NoRepeats(k) /\ OutsidersAfresh(k)

LEMMA RewindContainerAfresh ==
    ASSUME NEW k \in ContainerStates, Rewindable(k)
    PROVE  Afresh(RewindContainer(k))
  <1> DEFINE next == RewindContainer(k)
  <1>1. /\ next.spills = k.spills /\ next.elements = {} /\ next.gone = {}
        /\ \A s \in Spills : next.num_released[s] =
               IF s \in Members(k) THEN 0 ELSE k.num_released[s]
    BY DEF RewindContainer, ContainerStates
  <1> HIDE DEF next
  <1>2. \A s \in Spills : next.num_released[s] = 0
    BY <1>1 DEF Rewindable, OutsidersAfresh
  <1>3. Afresh(next)
    BY <1>1, <1>2 DEF Afresh, Rewindable, NoRepeats
  <1> QED
    BY <1>3 DEF next

\* Different spills have different copies.
LEMMA CopyRewindable ==
    ASSUME NEW k \in ContainerStates, NoRepeats(k), k.spills \in Seq(Originals)
    PROVE  Rewindable(UncertainCopy(k))
  <1> DEFINE next == UncertainCopy(k)
  <1>1. /\ DOMAIN next.spills = DOMAIN k.spills
        /\ \A i \in DOMAIN k.spills : next.spills[i] = CopyOf(k.spills[i])
        /\ \A u \in Spills : u \notin Range(next.spills) => next.num_released[u] = 0
    BY CopyFields
  <1>2. \A i \in DOMAIN k.spills : /\ k.spills[i] \in Spills
                                   /\ SpillOf[k.spills[i]] = k.spills[i]
    BY DEF Originals
  <1>3. \A i \in DOMAIN k.spills : SpillOf[next.spills[i]] = k.spills[i]
    BY <1>1, <1>2, CopyFacts
  <1> HIDE DEF next
  <1>4. Rewindable(next)
    BY <1>1, <1>3 DEF Rewindable, NoRepeats, OutsidersAfresh, Members
  <1> QED
    BY <1>4 DEF next

LEMMA CopyAfresh ==
    ASSUME NEW k \in ContainerStates, Afresh(k), k.spills \in Seq(Originals)
    PROVE  Afresh(UncertainCopy(k))
  <1> DEFINE next == UncertainCopy(k)
  <1>1. Rewindable(next)
    BY CopyRewindable DEF Afresh
  <1>2. \A u \in Spills : next.num_released[u] = 0
    <2>1. \A u \in Spills : SpillOf[u] \in Spills
      BY CopyFacts
    <2>2. \A u \in Spills : next.num_released[u] \in {0, k.num_released[SpillOf[u]]}
      BY CopyFields
    <2> QED
      BY <2>1, <2>2 DEF Afresh
  <1>3. next.elements = {} /\ next.gone = {}
    BY CopyFields
  <1> HIDE DEF next
  <1>4. Afresh(next)
    BY <1>1, <1>2, <1>3 DEF Afresh, Rewindable
  <1> QED
    BY <1>4 DEF next

LEMMA RewindPairAfresh ==
    ASSUME NEW pair \in [Containers -> ContainerStates], NEW u \in BOOLEAN,
           \A c \in LiveOf(u) : Rewindable(pair[c]),
           pair["forecast"].spills \in Seq(Originals)
    PROVE  \A c \in LiveOf(u) : Afresh(RewindPair(pair, u)[c])
  <1> DEFINE forecast == RewindContainer(pair["forecast"])
             other    == RewindContainer(pair["uncertain"])
  <1>1. /\ pair["forecast"] \in ContainerStates
        /\ pair["uncertain"] \in ContainerStates
    BY DEF Containers
  <1>2. /\ forecast \in ContainerStates /\ Afresh(forecast)
        /\ forecast.spills \in Seq(Originals)
    BY <1>1, RewindType, RewindFields, RewindContainerAfresh
       DEF LiveOf, Containers
  <1>3. u => Afresh(other)
    BY <1>1, RewindContainerAfresh DEF LiveOf, Containers
  <1>4. RewindPair(pair, u)["forecast"] = forecast
    BY DEF RewindPair, Containers
  <1>5. u => RewindPair(pair, u)["uncertain"] \in
                 {other, UncertainCopy(forecast)}
    BY DEF RewindPair, Containers
  <1> HIDE DEF forecast, other
  <1>6. Afresh(UncertainCopy(forecast))
    BY <1>2, CopyAfresh
  <1> QED
    BY <1>2, <1>3, <1>4, <1>5, <1>6 DEF LiveOf, Containers

LEMMA SoundIsRewindable ==
    ASSUME NEW k, Sound(k)
    PROVE  Rewindable(k)
  BY DEF Sound, Rewindable

LEMMA AfreshIsRewindable ==
    ASSUME NEW k, Afresh(k)
    PROVE  Rewindable(k)
  BY DEF Afresh, Rewindable, OutsidersAfresh

\* Set-up keeps what is afresh so, whether it succeeds or raises.
LEMMA SetupPairAfresh ==
    ASSUME NEW pair \in [Containers -> ContainerStates], TypeOK,
           \A c \in Live : Afresh(pair[c]),
           pair["forecast"].spills \in Seq(Originals)
    PROVE  \A c \in Live : Afresh(SetupPair(pair)[c])
  <1> DEFINE base == SetupBase(pair)
  <1>1. uncertain \in BOOLEAN /\ Live = LiveOf(uncertain)
        /\ Live \subseteq Containers
    BY DEF TypeOK, Live, LiveOf, Containers
  <1>2. base \in [Containers -> ContainerStates]
    BY RewindPairType DEF SetupBase
  <1>3. \A c \in Live : Afresh(base[c])
    BY <1>1, RewindPairAfresh, AfreshIsRewindable DEF SetupBase
  <1>4. \A c \in Live : SetupPair(pair)[c] \in
            {base[c], PrepareContainer(base[c], time_step),
             PrepareRaises(base[c], time_step)}
    BY <1>1 DEF SetupPair
  <1> HIDE DEF base
  <1>5. ASSUME NEW k \in ContainerStates, Afresh(k)
        PROVE  /\ Afresh(PrepareContainer(k, time_step))
               /\ Afresh(PrepareRaises(k, time_step))
    <2>1. /\ PrepareContainer(k, time_step).spills = k.spills
          /\ PrepareContainer(k, time_step).num_released = k.num_released
          /\ PrepareContainer(k, time_step).elements = {}
          /\ PrepareContainer(k, time_step).gone = k.gone
      BY PrepareFields
    <2>2. /\ PrepareRaises(k, time_step).spills = k.spills
          /\ PrepareRaises(k, time_step).num_released = k.num_released
          /\ PrepareRaises(k, time_step).elements = k.elements
          /\ PrepareRaises(k, time_step).gone = k.gone
      BY PrepareRaisesFields
    <2> QED
      BY <1>5, <2>1, <2>2 DEF Afresh, NoRepeats
  <1> QED
    BY <1>1, <1>2, <1>3, <1>4, <1>5

LEMMA ReleasePairSound ==
    ASSUME NEW pair \in [Containers -> ContainerStates],
           NEW t \in Int, NEW dt \in Nat, NEW id \in Nat,
           NEW L \in SUBSET Containers, \A c \in L : Sound(pair[c])
    PROVE  \A c \in L : Sound(ReleasePair(pair, t, dt, id)[c])
  <1>1. id + NumNew(pair["forecast"], t, dt) \in Nat
    BY NumNewNat DEF Containers
  <1>2. ASSUME NEW c \in L, NEW n \in Nat
        PROVE  Sound(ReleaseElements(pair[c], t, dt, n))
    BY ReleaseSound
  <1> QED
    BY <1>1, <1>2 DEF ReleasePair

LEMMA StepPairSound ==
    ASSUME NEW pair \in [Containers -> ContainerStates], NEW ts \in Nat,
           NEW f \in MoveOutcomes(pair["forecast"]),
           NEW g \in MoveOutcomes(pair["uncertain"]),
           NEW L \in SUBSET Containers, \A c \in L : Sound(pair[c])
    PROVE  \A c \in L : Sound(StepPair(pair, f, g, ts)[c])
  <1>1. "forecast" \in L => Sound(StepContainer(pair["forecast"], f, ts))
    BY StepSound DEF Containers
  <1>2. "uncertain" \in L => Sound(StepContainer(pair["uncertain"], g, ts))
    BY StepSound DEF Containers
  <1> QED
    BY <1>1, <1>2 DEF StepPair, Containers

-----------------------------------------------------------------------------
(* The invariant is inductive                                              *)

LEMMA LiveContainers ==
    ASSUME TypeOK
    PROVE  /\ Live = LiveOf(uncertain) /\ Live \subseteq Containers
           /\ uncertain \in BOOLEAN
           /\ \A c \in Live : sc[c] \in ContainerStates
  BY DEF TypeOK, Live, LiveOf, Containers

\* A state in which the live containers are afresh is as the invariant asks.
LEMMA AfreshStep ==
    ASSUME TypeInv, \A c \in Live : Afresh(sc[c])
    PROVE  IInv
  BY AfreshIsSound, LiveContainers DEF IInv, TypeInv

LEMMA IInvInit == Init => IInv
  <1> SUFFICES ASSUME Init PROVE IInv
    OBVIOUS
  <1>1. TypeInv
    BY TypeInit
  <1>2. Afresh(EmptyContainer)
    BY DEF Afresh, NoRepeats, EmptyContainer
  <1>3. \A c \in Live : Afresh(sc[c])
    BY <1>2 DEF Init, Live, Containers
  <1> QED
    BY <1>1, <1>3, AfreshStep

LEMMA RewindAccounts ==
    ASSUME IInv, Rewind, uncertain' = uncertain
    PROVE  \A c \in Live' : Afresh(sc'[c])
  <1>1. /\ sc \in [Containers -> ContainerStates]
        /\ uncertain \in BOOLEAN /\ Live = LiveOf(uncertain)
        /\ Live' = LiveOf(uncertain)
        /\ sc["forecast"].spills \in Seq(Originals)
    BY LiveContainers DEF IInv, TypeInv, Paired, TypeOK, Live, LiveOf
  <1>2. \A c \in LiveOf(uncertain) : Rewindable(sc[c])
    BY <1>1, SoundIsRewindable DEF IInv
  <1> QED
    BY <1>1, <1>2, RewindPairAfresh DEF Rewind

LEMMA StepFailsAccounts ==
    ASSUME IInv, StepFails
    PROVE  \A c \in Live' : Afresh(sc'[c])
  <1>1. Live' = Live
    BY DEF StepFails, Live
  <1>2. /\ sc \in [Containers -> ContainerStates] /\ TypeOK
        /\ sc["forecast"].spills \in Seq(Originals)
    BY DEF IInv, TypeInv, Paired, TypeOK
  <1>3. \A c \in Live : Afresh(sc[c])
    BY DEF IInv, StepFails
  <1> QED
    BY <1>1, <1>2, <1>3, SetupPairAfresh DEF StepFails

LEMMA StepZeroAccounts ==
    ASSUME IInv, TypeInv', StepZero
    PROVE  IInv'
  <1> DEFINE ready == SetupPair(sc)
  <1>1. /\ sc \in [Containers -> ContainerStates] /\ TypeOK
        /\ sc["forecast"].spills \in Seq(Originals)
        /\ start_time \in Int /\ next_id \in Nat
    BY ClockTypes DEF IInv, TypeInv, Paired, TypeOK
  <1>2. sc' = ReleasePair(ready, start_time, 0, next_id)
    BY DEF StepZero
  <1>3. /\ ready \in [Containers -> ContainerStates]
        /\ \A c \in Live : Afresh(ready[c])
    BY <1>1, SetupPairType, SetupPairAfresh DEF IInv, StepZero
  <1> HIDE DEF ready
  <1>4. \A c \in Live : Sound(ready[c])
    BY <1>1, <1>3, LiveContainers, AfreshIsSound
  <1>5. \A c \in Live : Sound(sc'[c])
    BY <1>1, <1>2, <1>3, <1>4, LiveContainers, ReleasePairSound
  <1> QED
    BY <1>5 DEF StepZero, IInv, Live

LEMMA StepOnAccounts ==
    ASSUME IInv, TypeInv', StepOn
    PROVE  IInv'
  <1> DEFINE half  == time_step \div 2
             later == ModelTime + time_step
             pair  == ReleasePair(sc, ModelTime, half, next_id)
             id    == NextIdAfter(sc, ModelTime, half, next_id)
  <1>1. /\ half \in Nat /\ later \in Int /\ ModelTime \in Int
        /\ time_step \in Nat /\ next_id \in Nat
        /\ sc \in [Containers -> ContainerStates]
        /\ Live \subseteq Containers
        /\ current_time_step \in Int
    BY ClockTypes, LiveContainers DEF IInv, TypeInv, TypeOK
  <1>2. PICK f \in MoveOutcomes(pair["forecast"]),
             g \in MoveOutcomes(pair["uncertain"]) :
            sc' = ReleasePair(StepPair(pair, f, g, time_step), later, 0, id)
    BY DEF StepOn
  <1> HIDE DEF half, later
  <1>3. pair \in [Containers -> ContainerStates] /\ id \in Nat
    BY <1>1, ReleasePairType
  <1>4. \A c \in Live : Sound(pair[c])
    BY <1>1, ReleasePairSound DEF IInv
  <1> HIDE DEF pair, id
  <1> DEFINE moved == StepPair(pair, f, g, time_step)
  <1>5. moved \in [Containers -> ContainerStates]
    BY <1>1, <1>2, <1>3, StepPairType
  <1>6. \A c \in Live : Sound(moved[c])
    BY <1>1, <1>2, <1>3, <1>4, StepPairSound
  <1>7. sc' = ReleasePair(moved, later, 0, id)
    BY <1>2
  <1> HIDE DEF moved
  <1>8. \A c \in Live : Sound(sc'[c])
    BY <1>1, <1>3, <1>5, <1>6, <1>7, ReleasePairSound
  <1>9. current_time_step' # -1 /\ Live' = Live
    BY <1>1 DEF StepOn, edited, Live
  <1> QED
    BY <1>8, <1>9 DEF IInv

\* Without the habit "resume" the loop of full_run begins at step -1.
LEMMA FullRunAccounts ==
    ASSUME PlainCaller, IInv, NEW rewind \in BOOLEAN, FullRun(rewind)
    PROVE  \A c \in Live' : Afresh(sc'[c])
  <1> DEFINE pair == IF rewind THEN RewindPair(sc, uncertain) ELSE sc
  <1>1. /\ sc \in [Containers -> ContainerStates] /\ TypeOK
        /\ Live = LiveOf(uncertain) /\ Live' = Live /\ uncertain \in BOOLEAN
        /\ sc["forecast"].spills \in Seq(Originals)
    BY LiveContainers DEF IInv, TypeInv, Paired, TypeOK, FullRun, Live
  <1>2. sc' = SetupPair(pair)
    BY DEF FullRun
  <1>3. /\ pair \in [Containers -> ContainerStates]
        /\ pair["forecast"].spills \in Seq(Originals)
    BY <1>1, RewindPairType, RewindPairMirrors DEF Paired
  <1>4. \A c \in Live : Afresh(pair[c])
    <2>1. CASE rewind
      <3>1. \A c \in LiveOf(uncertain) : Rewindable(sc[c])
        BY <1>1, SoundIsRewindable DEF IInv
      <3> QED
        BY <1>1, <2>1, <3>1, RewindPairAfresh
    <2>2. CASE ~rewind
      <3>1. current_time_step = -1
        BY <2>2 DEF FullRun, PlainCaller
      <3> QED
        BY <2>2, <3>1 DEF IInv
    <2> QED
      BY <2>1, <2>2
  <1> HIDE DEF pair
  <1> QED
    BY <1>1, <1>2, <1>3, <1>4, SetupPairAfresh

LEMMA SetUncertainAccounts ==
    ASSUME IInv, NEW b \in UncertainModes, SetUncertain(b)
    PROVE  \A c \in Live' : Afresh(sc'[c])
  <1> DEFINE other == IF b THEN UncertainCopy(sc["forecast"])
                      ELSE EmptyContainer
             pair  == [sc EXCEPT !["uncertain"] = other]
  <1>1. /\ sc \in [Containers -> ContainerStates] /\ b \in BOOLEAN
        /\ "forecast" \in Live /\ "forecast" \in Containers
        /\ sc["forecast"] \in ContainerStates
        /\ sc["forecast"].spills \in Seq(Originals)
    BY TimeAssumption DEF IInv, TypeInv, Paired, TypeOK, Live, Containers
  <1>2. sc' = RewindPair(pair, b) /\ Live' = LiveOf(b)
    BY DEF SetUncertain, Live, LiveOf
  <1>3. other \in ContainerStates
    BY <1>1, UncertainCopyType, EmptyType
  <1>4. b => Rewindable(other)
    BY <1>1, CopyRewindable DEF IInv, Sound
  <1> HIDE DEF other
  <1>5. /\ pair \in [Containers -> ContainerStates]
        /\ pair["forecast"].spills \in Seq(Originals)
    BY <1>1, <1>3 DEF Containers
  <1>6. \A c \in LiveOf(b) : Rewindable(pair[c])
    BY <1>1, <1>4, SoundIsRewindable DEF IInv, LiveOf, Containers
  <1> HIDE DEF pair
  <1> QED
    BY <1>1, <1>2, <1>5, <1>6, RewindPairAfresh

\* A spill that was not in the collection and has released nothing.
LEMMA AppendSpill ==
    ASSUME NEW k \in ContainerStates, NEW m \in ContainerStates,
           NEW s \in Spills, s \notin Members(k),
           m.spills = Append(k.spills, s),
           m.elements = k.elements, m.gone = k.gone,
           \A r \in Spills : m.num_released[r] = k.num_released[r]
    PROVE  /\ Sound(k) => Sound(m)
           /\ Afresh(k) => Afresh(m)
  <1> DEFINE n == Len(k.spills)
  <1>1. /\ k.spills \in Seq(Spills) /\ n \in Nat
        /\ DOMAIN k.spills = 1 .. n /\ DOMAIN m.spills = 1 .. (n + 1)
        /\ m.spills[n + 1] = s
        /\ \A i \in 1 .. n : m.spills[i] = k.spills[i] /\ k.spills[i] # s
    BY SpillsOfContainer, ContainerFields
  <1> HIDE DEF n
  <1>2. NoRepeats(k) => NoRepeats(m)
    <2> SUFFICES ASSUME NoRepeats(k), NEW i \in 1 .. (n + 1),
                        NEW j \in 1 .. (n + 1), m.spills[i] = m.spills[j]
                 PROVE  i = j
      BY <1>1 DEF NoRepeats
    <2>1. CASE i \in 1 .. n /\ j \in 1 .. n
      BY <1>1, <2>1 DEF NoRepeats
    <2>2. CASE i = n + 1 \/ j = n + 1
      <3>1. \A l \in 1 .. (n + 1) : l = n + 1 \/ l \in 1 .. n
        BY <1>1
      <3> QED
        BY <1>1, <2>2, <3>1
    <2> QED
      BY <1>1, <2>1, <2>2
  <1>3. Members(k) \subseteq Members(m)
    <2>1. \A i \in 1 .. n : i \in 1 .. (n + 1)
      BY <1>1
    <2> QED
      BY <1>1, <2>1 DEF Members, Range
  <1>4. ASSUME Sound(k)
        PROVE  Sound(m)
    <2>1. Accounted(m) /\ Distinct(m)
      BY <1>4 DEF Sound, Accounted, Distinct, Ordinals, GoneOrdinals
    <2>2. OutsidersAfresh(m)
      BY <1>3, <1>4 DEF Sound, OutsidersAfresh
    <2>3. NamesOwners(m)
      <3>1. \A i \in 1 .. n : i \in 1 .. (n + 1)
        BY <1>1
      <3> QED
        BY <1>1, <1>4, <3>1 DEF Sound, NamesOwners
    <2> QED
      BY <1>2, <1>4, <2>1, <2>2, <2>3 DEF Sound
  <1> QED
    BY <1>2, <1>4 DEF Afresh

\* A spill that joins a container has released nothing: one that is in the
\* collection is added once more only before a run.
LEMMA AddSpillAccounts ==
    ASSUME PlainCaller, IInv, TypeInv', NEW s \in Originals, AddSpill(s)
    PROVE  IInv'
  <1> DEFINE k == sc["forecast"]
             j == sc["uncertain"]
             u == CHOOSE v \in NewCopies(j, s) : TRUE
  <1>1. /\ sc \in [Containers -> ContainerStates]
        /\ sc' \in [Containers -> ContainerStates]
        /\ k \in ContainerStates /\ j \in ContainerStates
        /\ sc'["forecast"] \in ContainerStates
        /\ sc'["uncertain"] \in ContainerStates
        /\ "forecast" \in Live /\ uncertain \in BOOLEAN
        /\ s \in Spills
    BY DEF IInv, TypeInv, TypeOK, Live, Containers, Originals
  <1>2. /\ sc' = AddToPair(sc, uncertain, s)
        /\ Live' = Live /\ current_time_step' = current_time_step
        /\ uncertain => NewCopies(j, s) # {}
    BY DEF AddSpill, edited, Live
  <1>3. s \notin Members(k) \/ uncertain => k.num_released[s] = 0
    <2>1. CASE s \notin Members(k)
      BY <1>1, <2>1 DEF IInv, Sound, OutsidersAfresh
    <2>2. CASE s \in Members(k) /\ uncertain
      <3>1. current_time_step = -1
        BY <2>2 DEF AddSpill, PlainCaller
      <3> QED
        BY <1>1, <3>1 DEF IInv, Afresh
    <2> QED
      BY <2>1, <2>2
  <1>4. (Sound(k) => Sound(sc'["forecast"]))
        /\ (Afresh(k) => Afresh(sc'["forecast"]))
    <2>1. sc'["forecast"] = WithSpill(k, s)
      BY <1>2 DEF AddToPair, Containers
    <2>2. CASE s \in Members(k)
      BY <2>1, <2>2 DEF WithSpill
    <2>3. CASE s \notin Members(k)
      <3>1. /\ sc'["forecast"].spills = Append(k.spills, s)
            /\ sc'["forecast"].elements = k.elements
            /\ sc'["forecast"].gone = k.gone
            /\ sc'["forecast"].num_released = k.num_released
        BY <1>1, <2>1, <2>3 DEF WithSpill, ContainerStates
      <3> QED
        BY <1>1, <2>3, <3>1, AppendSpill
    <2> QED
      BY <2>2, <2>3
  <1>5. ASSUME uncertain
        PROVE  (Sound(j) => Sound(sc'["uncertain"]))
               /\ (Afresh(j) => Afresh(sc'["uncertain"]))
    <2>1. u \in Spills /\ u \notin Members(j)
      BY <1>1, <1>2, <1>5, NewCopyFacts
    <2>2. WithSpill(k, s).num_released[s] = 0
      BY <1>1, <1>3, <1>5 DEF WithSpill, ContainerStates
    <2>3. /\ sc'["uncertain"].spills = Append(j.spills, u)
          /\ sc'["uncertain"].elements = j.elements
          /\ sc'["uncertain"].gone = j.gone
          /\ sc'["uncertain"].num_released =
                 [j.num_released EXCEPT ![u] = 0]
      <3> HIDE DEF u
      <3>1. sc'["uncertain"] =
                [j EXCEPT !.spills = Append(@, u),
                          !.on[u] = WithSpill(k, s).on[s],
                          !.prepared[u] = WithSpill(k, s).prepared[s],
                          !.num_released[u] = WithSpill(k, s).num_released[s]]
        BY <1>2, <1>5 DEF AddToPair, Containers, u
      <3> HIDE DEF j
      <3> QED
        BY <1>1, <2>2, <3>1 DEF ContainerStates
    <2>4. "uncertain" \in Live
      BY <1>5 DEF Live, Containers
    <2>5. j.num_released[u] = 0 /\ j.num_released \in [Spills -> Nat]
      BY <1>1, <2>1, <2>4, ContainerFields DEF IInv, Sound, OutsidersAfresh
    <2>6. \A r \in Spills :
              sc'["uncertain"].num_released[r] = j.num_released[r]
      BY <2>3, <2>5
    <2> QED
      BY <1>1, <2>1, <2>3, <2>6, AppendSpill
  <1> HIDE DEF k, j, u
  <1>6. \A c \in Live : (Sound(sc[c]) => Sound(sc'[c]))
                        /\ (Afresh(sc[c]) => Afresh(sc'[c]))
    BY <1>4, <1>5 DEF Live, Containers, k, j
  <1> QED
    BY <1>2, <1>6 DEF IInv

LEMMA RemoveSpillAfresh ==
    ASSUME NEW k \in ContainerStates, NEW m, NEW i \in DOMAIN k.spills,
           Afresh(k), m.spills = RemoveAt(k.spills, i),
           m.elements = k.elements, m.gone = k.gone,
           \A s \in Spills : m.num_released[s] = k.num_released[s]
    PROVE  Afresh(m)
  <1> DEFINE n == Len(k.spills)
  <1>1. n \in Nat /\ DOMAIN k.spills = 1 .. n /\ k.spills \in Seq(Spills)
    BY SpillsOfContainer, ContainerFields
  <1>2. /\ DOMAIN m.spills = 1 .. (n - 1)
        /\ \A j \in 1 .. (n - 1) :
               m.spills[j] = IF j < i THEN k.spills[j] ELSE k.spills[j + 1]
    BY <1>1, RemoveAtShape
  <1> HIDE DEF n
  <1>3. NoRepeats(m)
    <2> DEFINE at(j) == IF j < i THEN j ELSE j + 1
    <2>1. \A j \in 1 .. (n - 1) :
              at(j) \in 1 .. n /\ m.spills[j] = k.spills[at(j)]
      BY <1>1, <1>2
    <2>2. \A j, l \in 1 .. (n - 1) : at(j) = at(l) => j = l
      <3>1. i \in 1 .. n
        BY <1>1
      <3> QED
        BY <1>1, <3>1
    <2> HIDE DEF at
    <2>3. \A j, l \in 1 .. n : k.spills[j] = k.spills[l] => j = l
      BY <1>1 DEF Afresh, NoRepeats
    <2> QED
      BY <1>2, <2>1, <2>2, <2>3 DEF NoRepeats
  <1> QED
    BY <1>3 DEF Afresh

\* Without the habit "remove" a spill is only removed at step -1.
LEMMA RemoveSpillAccounts ==
    ASSUME PlainCaller, IInv, NEW i \in DOMAIN sc["forecast"].spills,
           RemoveSpill(i)
    PROVE  \A c \in Live' : Afresh(sc'[c])
  <1> DEFINE k == sc["forecast"]
             j == sc["uncertain"]
             s == j.spills[i]
  <1>1. /\ sc \in [Containers -> ContainerStates]
        /\ k \in ContainerStates /\ j \in ContainerStates
        /\ "forecast" \in Live /\ uncertain \in BOOLEAN
    BY DEF IInv, TypeInv, TypeOK, Live, Containers
  <1>2. /\ sc' = RemoveFromPair(sc, uncertain, i)
        /\ Live' = Live
        /\ \A c \in Live : Afresh(sc[c])
    BY DEF RemoveSpill, PlainCaller, edited, Live, IInv
  <1>3. /\ sc'["forecast"].spills = RemoveAt(k.spills, i)
        /\ sc'["forecast"].elements = k.elements
        /\ sc'["forecast"].gone = k.gone
        /\ sc'["forecast"].num_released = k.num_released
    BY <1>1, <1>2 DEF RemoveFromPair, Containers, ContainerStates
  <1>4. Afresh(sc'["forecast"])
    BY <1>1, <1>2, <1>3, RemoveSpillAfresh
  <1>5. ASSUME uncertain
        PROVE  Afresh(sc'["uncertain"])
    <2>1. /\ sc'["uncertain"].spills = RemoveAt(j.spills, i)
          /\ sc'["uncertain"].elements = j.elements
          /\ sc'["uncertain"].gone = j.gone
          /\ sc'["uncertain"].num_released =
                 [j.num_released EXCEPT ![s] = 0]
      BY <1>1, <1>2, <1>5 DEF RemoveFromPair, Containers, ContainerStates
    <2>2. Afresh(j) /\ i \in DOMAIN j.spills
      <3>1. /\ k.spills \in Seq(Spills) /\ j.spills \in Seq(Spills)
            /\ Len(j.spills) >= Len(k.spills)
        BY <1>1, <1>5, ContainerFields DEF IInv, TypeInv, Paired
      <3>2. i \in 1 .. Len(k.spills) /\ Len(k.spills) \in Nat /\ Len(j.spills) \in Nat
        BY <1>1, SpillsOfContainer
      <3>3. i \in DOMAIN j.spills
        BY <1>1, <3>1, <3>2, SpillsOfContainer
      <3> QED
        BY <1>2, <1>5, <3>3 DEF Live, Containers
    <2>3. j.num_released \in [Spills -> Nat]
      BY <1>1, ContainerFields
    <2>4. \A r \in Spills :
              sc'["uncertain"].num_released[r] = j.num_released[r]
      BY <2>1, <2>2, <2>3 DEF Afresh
    <2> QED
      BY <1>1, <2>1, <2>2, <2>4, RemoveSpillAfresh
  <1> QED
    BY <1>2, <1>4, <1>5 DEF Live, Containers

LEMMA SwitchSpillAccounts ==
    ASSUME IInv, TypeInv', NEW s \in Spills, SwitchSpill(s)
    PROVE  IInv'
  <1> DEFINE k == sc["forecast"]
             switched == [k EXCEPT !.on[s] = ~@]
  <1>1. sc \in [Containers -> ContainerStates] /\ k \in ContainerStates
    BY DEF IInv, TypeInv, TypeOK, Containers
  <1>2. sc' = [sc EXCEPT !["forecast"] = switched]
    BY <1>1 DEF SwitchSpill
  <1>3. /\ switched.spills = k.spills
        /\ switched.num_released = k.num_released
        /\ switched.elements = k.elements
        /\ switched.gone = k.gone
    BY <1>1 DEF ContainerStates
  <1> HIDE DEF switched
  <1>4. Sound(k) => Sound(switched)
    BY <1>3 DEF Sound, NoRepeats, OutsidersAfresh, Accounted, Distinct,
                NamesOwners, Members, Ordinals, GoneOrdinals
  <1>5. Afresh(k) => Afresh(switched)
    BY <1>3 DEF Afresh, NoRepeats
  <1> HIDE DEF k
  <1>6. /\ sc'["forecast"] = switched /\ sc'["uncertain"] = sc["uncertain"]
        /\ current_time_step' = current_time_step
        /\ Live' = Live /\ Live \subseteq {"forecast", "uncertain"}
    BY <1>1, <1>2 DEF SwitchSpill, edited, Live, Containers
  <1>7. \A c \in Live : (Sound(sc[c]) => Sound(sc'[c]))
                        /\ (Afresh(sc[c]) => Afresh(sc'[c]))
    BY <1>4, <1>5, <1>6 DEF k
  <1> QED
    BY <1>6, <1>7 DEF IInv

LEMMA IInvNext ==
    ASSUME PlainCaller
    PROVE  IInv /\ [Next]_vars => IInv'
  <1> SUFFICES ASSUME IInv, [Next]_vars PROVE IInv'
    OBVIOUS
  <1>1. TypeInv'
    BY TypeNext DEF IInv
  <1>2. ASSUME \A c \in Live' : Afresh(sc'[c])
        PROVE  IInv'
    <2>1. \A c \in Live' : sc'[c] \in ContainerStates
      BY <1>1 DEF TypeInv, TypeOK, Live, Containers
    <2> QED
      BY <1>1, <1>2, <2>1, AfreshIsSound DEF IInv
  <1>3. ASSUME UNCHANGED <<current_time_step, sc, uncertain>>
        PROVE  IInv'
    BY <1>1, <1>3 DEF IInv, Live
  <1>4. CASE StepFails
    BY <1>2, <1>4, StepFailsAccounts
  <1>5. CASE StepZero
    BY <1>1, <1>5, StepZeroAccounts
  <1>6. CASE StepOn
    BY <1>1, <1>6, StepOnAccounts
  <1>7. CASE StepPastEnd \/ UNCHANGED vars
    BY <1>3, <1>7 DEF StepPastEnd, vars, edited, run
  <1>8. CASE \E rewind \in BOOLEAN : FullRun(rewind)
    BY <1>2, <1>8, FullRunAccounts
  <1>9. CASE Edit
    <2>1. ASSUME \/ Rewind /\ UNCHANGED edited
                 \/ \E t \in StartTimes : SetStartTime(t)
                 \/ \E ts \in TimeSteps : SetTimeStep(ts)
                 \/ \E m \in Movers : AddMover(m) \/ RemoveMover(m)
                 \/ \E w \in Weatherers : AddWeatherer(w)
          PROVE  IInv'
      <3>1. Rewind /\ uncertain' = uncertain
        BY <2>1 DEF edited, SetStartTime, SetTimeStep, AddMover, RemoveMover,
                    AddWeatherer
      <3> QED
        BY <1>2, <3>1, RewindAccounts
    <2>2. ASSUME NEW d \in Durations, SetDuration(d)
          PROVE  IInv'
      BY <1>2, <1>3, <2>2, RewindAccounts DEF SetDuration, run
    <2>3. ASSUME NEW b \in UncertainModes, SetUncertain(b)
          PROVE  IInv'
      BY <1>2, <2>3, SetUncertainAccounts
    <2>4. ASSUME \E w \in Weatherers : RemoveWeatherer(w)
          PROVE  IInv'
      BY <1>3, <2>4 DEF RemoveWeatherer, run
    <2>5. ASSUME NEW s \in Originals, AddSpill(s)
          PROVE  IInv'
      BY <1>1, <2>5, AddSpillAccounts
    <2>6. ASSUME NEW i \in DOMAIN sc["forecast"].spills, RemoveSpill(i)
          PROVE  IInv'
      BY <1>2, <2>6, RemoveSpillAccounts
    <2>7. ASSUME NEW s \in Members(sc["forecast"]), SwitchSpill(s)
          PROVE  IInv'
      <3>1. s \in Spills
        BY SpillsOfContainer DEF IInv, TypeInv, TypeOK, Containers
      <3> QED
        BY <1>1, <2>7, <3>1, SwitchSpillAccounts
    <2> QED
      BY <1>9, <2>1, <2>2, <2>3, <2>4, <2>5, <2>6, <2>7 DEF Edit
  <1> QED
    BY <1>4, <1>5, <1>6, <1>7, <1>8, <1>9 DEF Next, Step

-----------------------------------------------------------------------------
(* Theorems                                                                *)

LEMMA IInvImplies ==
    IInv => ElementsAccounted /\ SpillNumNamesOwner /\ RewoundAfresh
  <1> SUFFICES ASSUME IInv
               PROVE  ElementsAccounted /\ SpillNumNamesOwner /\ RewoundAfresh
    OBVIOUS
  <1>1. \A c \in Live : Members(sc[c]) \subseteq Spills
    BY LiveContainers, SpillsOfContainer DEF IInv, TypeInv
  <1>2. ElementsAccounted
    BY <1>1 DEF IInv, Sound, Accounted, ElementsAccounted
  <1>3. SpillNumNamesOwner
    BY DEF IInv, Sound, NamesOwners, SpillNumNamesOwner
  <1>4. RewoundAfresh
    BY <1>1 DEF IInv, Afresh, RewoundAfresh
  <1> QED
    BY <1>2, <1>3, <1>4

\* No element is lost or released twice in either container: what a spill
\* counts as released is, ordinal for ordinal, in the arrays or was taken
\* off the map, never both, through any order of steps, runs and edits of a
\* plain caller.
THEOREM ElementsAreAccounted ==
    ASSUME PlainCaller
    PROVE  Spec => []ElementsAccounted
  <1>1. IInv /\ [Next]_vars => IInv'
    BY IInvNext
  <1> QED
    BY <1>1, IInvInit, IInvImplies, PTL DEF Spec

\* spill_num of every element is the index of the spill that released it,
\* also when spills are added in the middle of a run.
THEOREM SpillNumIsOwner ==
    ASSUME PlainCaller
    PROVE  Spec => []SpillNumNamesOwner
  <1>1. IInv /\ [Next]_vars => IInv'
    BY IInvNext
  <1> QED
    BY <1>1, IInvInit, IInvImplies, PTL DEF Spec

\* A model at step -1, however it came there (a rewind, a setter, a callback,
\* a set-up or an input check that raised), has released nothing of any
\* spill, and set-up therefore starts every run from the first element.
THEOREM RewoundIsAfresh ==
    ASSUME PlainCaller
    PROVE  Spec => []RewoundAfresh
  <1>1. IInv /\ [Next]_vars => IInv'
    BY IInvNext
  <1> QED
    BY <1>1, IInvInit, IInvImplies, PTL DEF Spec

-----------------------------------------------------------------------------
(* Ids                                                                     *)

\* An element appended before another has fewer elements before it.
LEMMA EarlierCounts ==
    ASSUME NEW S, IsFiniteSet(S), \A p \in S : p[1] \in Int /\ p[2] \in Int,
           NEW p \in S, NEW q \in Earlier(S, p)
    PROVE  Cardinality(Earlier(S, q)) < Cardinality(Earlier(S, p))
  <1>1. q \in S /\ q \notin Earlier(S, q)
    BY DEF Earlier
  <1>2. Earlier(S, q) \subseteq Earlier(S, p)
    BY <1>1 DEF Earlier
  <1>3. IsFiniteSet(Earlier(S, p))
    BY FS_Subset DEF Earlier
  <1> HIDE DEF Earlier
  <1>4. /\ IsFiniteSet(Earlier(S, q))
        /\ Cardinality(Earlier(S, q)) <= Cardinality(Earlier(S, p))
        /\ Cardinality(Earlier(S, q)) # Cardinality(Earlier(S, p))
    BY <1>1, <1>2, <1>3, FS_Subset
  <1> QED
    BY <1>3, <1>4, FS_CardinalityType

\* The places in a batch are numbered from 0, each its own.
LEMMA EarlierNumbers ==
    ASSUME NEW S, IsFiniteSet(S),
           \A p \in S : p = <<p[1], p[2]>> /\ p[1] \in Int /\ p[2] \in Int,
           NEW p \in S
    PROVE  /\ Cardinality(Earlier(S, p)) \in Nat
           /\ Cardinality(Earlier(S, p)) < Cardinality(S)
           /\ \A q \in S :
                 Cardinality(Earlier(S, p)) = Cardinality(Earlier(S, q))
                     => p = q
  <1>1. \A q \in S : IsFiniteSet(Earlier(S, q))
                     /\ Cardinality(Earlier(S, q)) \in Nat
    BY FS_Subset, FS_CardinalityType DEF Earlier
  <1>2. Cardinality(Earlier(S, p)) < Cardinality(S)
    <2>1. Earlier(S, p) \in SUBSET S /\ p \notin Earlier(S, p)
      BY DEF Earlier
    <2>2. /\ Cardinality(Earlier(S, p)) <= Cardinality(S)
          /\ Cardinality(Earlier(S, p)) # Cardinality(S)
      BY <2>1, FS_Subset
    <2> QED
      BY <1>1, <2>2, FS_CardinalityType
  <1>3. ASSUME NEW q \in S, p # q
        PROVE  Cardinality(Earlier(S, p)) # Cardinality(Earlier(S, q))
    <2>1. p \in Earlier(S, q) \/ q \in Earlier(S, p)
      <3>1. p[1] # q[1] \/ p[2] # q[2]
        BY <1>3
      <3> QED
        BY <3>1 DEF Earlier
    <2> QED
      BY <1>1, <2>1, EarlierCounts
  <1> QED
    BY <1>1, <1>2, <1>3

\* The ids of one call of release_elements are its own and consecutive.
LEMMA NewElementsIds ==
    ASSUME NEW k \in ContainerStates, NEW t \in Int, NEW dt \in Nat,
           NEW id \in Nat
    PROVE  /\ \A e \in NewElements(k, t, dt, id) :
                  e.id >= id /\ e.id < id + NumNew(k, t, dt)
           /\ \A e, f \in NewElements(k, t, dt, id) : e.id = f.id => e = f
  <1> DEFINE batch == Batch(k, t, dt)
             nth(p) == Cardinality(Earlier(batch, p))
             el(p) == [id        |-> id + nth(p),
                       owner     |-> k.spills[p[1]],
                       ord       |-> p[2],
                       spill_num |-> p[1] - 1,
                       status    |-> "in_water",
                       age       |-> 0]
  <1>1. IsFiniteSet(batch)
    BY BatchFinite
  <1>2. \A p \in batch : p = <<p[1], p[2]>> /\ p[1] \in Int /\ p[2] \in Int
    BY BatchMembers, SpillsOfContainer
  <1>3. \A p \in batch : el(p).id = id + nth(p)
    OBVIOUS
  <1>4. NewElements(k, t, dt, id) = {el(p) : p \in batch}
    BY DEF NewElements
  <1>5. NumNew(k, t, dt) = Cardinality(batch)
    BY DEF NumNew
  <1> HIDE DEF batch
  <1>6. \A p \in batch : /\ nth(p) \in Nat /\ nth(p) < Cardinality(batch)
                         /\ \A q \in batch : nth(p) = nth(q) => p = q
    BY <1>1, <1>2, EarlierNumbers
  <1>7. Cardinality(batch) \in Nat
    BY <1>1, FS_CardinalityType
  <1> HIDE DEF nth, el
  <1> QED
    BY <1>3, <1>4, <1>5, <1>6, <1>7

\* The elements of the containers in L have ids of their own, below n.
IdsApart(pair, L, n) ==
    /\ \A c \in L : \A e \in pair[c].elements : e.id < n
    /\ \A c, d \in L : \A e \in pair[c].elements, f \in pair[d].elements :
           e.id = f.id => c = d /\ e = f

LEMMA ReleasePairIds ==
    ASSUME NEW pair \in [Containers -> ContainerStates],
           NEW t \in Int, NEW dt \in Nat, NEW n \in Nat,
           NEW L \in SUBSET Containers, IdsApart(pair, L, n)
    PROVE  IdsApart(ReleasePair(pair, t, dt, n), L,
                    NextIdAfter(pair, t, dt, n))
  <1> DEFINE next == ReleasePair(pair, t, dt, n)
             a == NumNew(pair["forecast"], t, dt)
             b == NumNew(pair["uncertain"], t, dt)
             from(c) == IF c = "forecast" THEN n ELSE n + a
             to(c) == IF c = "forecast" THEN n + a ELSE n + a + b
             new(c) == NewElements(pair[c], t, dt, from(c))
  <1>1. a \in Nat /\ b \in Nat
    BY NumNewNat DEF Containers
  <1>2. \A c \in Containers : next[c].elements = pair[c].elements \cup new(c)
    <2>1. \A c \in Containers :
              next[c] = ReleaseElements(pair[c], t, dt, from(c))
      BY DEF ReleasePair
    <2>2. ASSUME NEW k \in ContainerStates, NEW id
          PROVE  ReleaseElements(k, t, dt, id).elements =
                     k.elements \cup NewElements(k, t, dt, id)
      BY DEF ReleaseElements, ContainerStates
    <2> HIDE DEF from, next
    <2> QED
      BY <2>1, <2>2
  <1>3. ASSUME NEW c \in Containers
        PROVE  /\ \A e \in new(c) : e.id >= from(c) /\ e.id < to(c)
               /\ \A e, f \in new(c) : e.id = f.id => e = f
    <2>1. CASE c = "forecast"
      BY <1>1, <2>1, NewElementsIds
    <2>2. CASE c = "uncertain"
      <3>1. n + a \in Nat /\ from(c) = n + a /\ to(c) = n + a + b
        BY <1>1, <2>2
      <3>2. b = NumNew(pair[c], t, dt)
        BY <2>2
      <3> HIDE DEF a, b, from, to
      <3> QED
        BY <1>1, <3>1, <3>2, NewElementsIds
    <2> QED
      BY <2>1, <2>2 DEF Containers
  <1>4. \A c \in Containers : \A e \in new(c) : e.id \in Nat
    <2>1. \A c \in Containers : from(c) \in Nat
      BY <1>1
    <2> QED
      BY <2>1, NewElementsType DEF Elements
  <1>5. \A c \in Containers : \A e \in pair[c].elements : e.id \in Nat
    BY ContainerFields DEF Elements
  <1>6. NextIdAfter(pair, t, dt, n) = n + a + b
    BY DEF NextIdAfter
  <1>7. /\ from("forecast") = n /\ to("forecast") = n + a
        /\ from("uncertain") = n + a /\ to("uncertain") = n + a + b
    OBVIOUS
  <1> HIDE DEF next, a, b, from, to, new
  <1>8. \A c \in L : \A e \in next[c].elements : e.id < n + a + b
    BY <1>1, <1>2, <1>3, <1>4, <1>5, <1>7 DEF IdsApart, Containers
  <1>9. ASSUME NEW c \in L, NEW d \in L,
               NEW e \in next[c].elements, NEW f \in next[d].elements,
               e.id = f.id
        PROVE  c = d /\ e = f
    <2>1. CASE e \in pair[c].elements /\ f \in pair[d].elements
      BY <1>9, <2>1 DEF IdsApart
    <2>2. CASE e \in pair[c].elements /\ f \in new(d)
      <3>1. e.id < n /\ f.id >= n
        BY <1>1, <1>3, <1>4, <1>7, <2>2 DEF IdsApart, Containers
      <3> QED
        BY <1>4, <1>5, <1>9, <2>2, <3>1
    <2>3. CASE e \in new(c) /\ f \in pair[d].elements
      <3>1. f.id < n /\ e.id >= n
        BY <1>1, <1>3, <1>4, <1>7, <2>3 DEF IdsApart, Containers
      <3> QED
        BY <1>4, <1>5, <1>9, <2>3, <3>1
    <2>4. CASE e \in new(c) /\ f \in new(d)
      <3>1. c = d
        BY <1>1, <1>3, <1>4, <1>7, <1>9, <2>4 DEF Containers
      <3> QED
        BY <1>3, <1>9, <2>4, <3>1
    <2> QED
      BY <1>2, <2>1, <2>2, <2>3, <2>4
  <1> QED
    BY <1>6, <1>8, <1>9 DEF IdsApart, next

LEMMA StepPairIds ==
    ASSUME NEW pair \in [Containers -> ContainerStates], NEW ts \in Nat,
           NEW f, NEW g, NEW n, NEW L \in SUBSET Containers,
           IdsApart(pair, L, n)
    PROVE  IdsApart(StepPair(pair, f, g, ts), L, n)
  <1> DEFINE move(c) == IF c = "forecast" THEN f ELSE g
             next == StepPair(pair, f, g, ts)
             moved(c, x) ==
                 [[x EXCEPT !.status = move(c)[x]] EXCEPT !.age = @ + ts]
  <1>1. ASSUME NEW c \in Containers, NEW e \in next[c].elements
        PROVE  \E x \in pair[c].elements : e = moved(c, x)
    <2>1. next[c] = StepContainer(pair[c], move(c), ts)
      BY DEF StepPair
    <2> HIDE DEF next, move
    <2>2. e \in Aged(Remaining(pair[c], move(c)), ts)
      BY <1>1, <2>1, StepFields
    <2> QED
      BY <2>2 DEF Aged, Remaining
  <1>2. ASSUME NEW c \in Containers, NEW x \in pair[c].elements
        PROVE  moved(c, x).id = x.id
    <2>1. x \in Elements
      BY ContainerFields
    <2> QED
      BY <2>1 DEF Elements
  <1> HIDE DEF moved, next
  <1>3. IdsApart(next, L, n)
    BY <1>1, <1>2 DEF IdsApart
  <1> QED
    BY <1>3 DEF next

-----------------------------------------------------------------------------

\* Stronger than asked: the two containers share the counter and therefore no
\* id, and the counter is past every id.
IdsInv ==
    /\ \A c \in Live : \A e \in sc[c].elements : e.id < next_id
    /\ \A c, d \in Live :
          \A e \in sc[c].elements, f \in sc[d].elements :
              e.id = f.id => c = d /\ e = f

\* An action that releases nothing: it empties the arrays of a container or
\* leaves them, and hands out no id.
LEMMA IdsKept ==
    ASSUME IdsInv, next_id' = next_id,
           \A c \in Live' : \/ sc'[c].elements = {}
                            \/ c \in Live
                               /\ sc'[c].elements = sc[c].elements
    PROVE  IdsInv'
  BY DEF IdsInv

LEMMA RewindPairEmpties ==
    ASSUME NEW pair \in [Containers -> ContainerStates], NEW u
    PROVE  \A c \in Containers : RewindPair(pair, u)[c].elements = {}
  <1> DEFINE forecast == RewindContainer(pair["forecast"])
             other    == RewindContainer(pair["uncertain"])
  <1>1. forecast \in ContainerStates /\ other \in ContainerStates
        /\ forecast.elements = {} /\ other.elements = {}
    BY RewindType, RewindFields DEF Containers
  <1>2. \A c \in Containers : RewindPair(pair, u)[c] \in
            {forecast, other, EmptyContainer, UncertainCopy(forecast)}
    BY DEF RewindPair
  <1> HIDE DEF forecast, other
  <1>3. EmptyContainer.elements = {} /\ UncertainCopy(forecast).elements = {}
    BY <1>1, CopyFields DEF EmptyContainer
  <1> QED
    BY <1>1, <1>2, <1>3

\* Set-up empties the arrays or, when it raises, leaves some as they were.
LEMMA SetupPairElements ==
    ASSUME NEW pair \in [Containers -> ContainerStates], TypeOK
    PROVE  \A c \in Containers :
              SetupPair(pair)[c].elements \in {{}, pair[c].elements}
  <1> DEFINE base == SetupBase(pair)
  <1>1. base \in [Containers -> ContainerStates]
    BY RewindPairType DEF SetupBase
  <1>2. \A c \in Containers : base[c].elements \in {{}, pair[c].elements}
    BY RewindPairEmpties DEF SetupBase
  <1>3. \A c \in Containers : SetupPair(pair)[c] \in
            {base[c], PrepareContainer(base[c], time_step),
             PrepareRaises(base[c], time_step)}
    BY DEF SetupPair
  <1> HIDE DEF base
  <1>4. \A c \in Containers :
            /\ PrepareContainer(base[c], time_step).elements = {}
            /\ PrepareRaises(base[c], time_step).elements = base[c].elements
    BY <1>1, PrepareFields, PrepareRaisesFields
  <1> QED
    BY <1>2, <1>3, <1>4

LEMMA RewindIds ==
    ASSUME TypeInv, IdsInv, Rewind, uncertain' = uncertain
    PROVE  IdsInv'
  <1>1. /\ sc \in [Containers -> ContainerStates] /\ Live' \subseteq Containers
        /\ sc' = RewindPair(sc, uncertain) /\ next_id' = next_id
    BY LiveContainers DEF TypeInv, TypeOK, Rewind, Live, Containers
  <1> QED
    BY <1>1, RewindPairEmpties, IdsKept

LEMMA StepZeroIds ==
    ASSUME TypeInv, IdsInv, StepZero
    PROVE  IdsInv'
  <1> DEFINE ready == SetupPair(sc)
  <1>1. /\ sc \in [Containers -> ContainerStates] /\ TypeOK
        /\ start_time \in Int /\ next_id \in Nat /\ Live \subseteq Containers
    BY ClockTypes, LiveContainers DEF TypeInv, TypeOK
  <1>2. /\ sc' = ReleasePair(ready, start_time, 0, next_id)
        /\ next_id' = NextIdAfter(ready, start_time, 0, next_id)
        /\ Live' = Live
    BY DEF StepZero, Live
  <1>3. ready \in [Containers -> ContainerStates]
    BY <1>1, SetupPairType
  <1>4. IdsApart(ready, Live, next_id)
    <2>1. \A c \in Live : ready[c].elements \in {{}, sc[c].elements}
      BY <1>1, SetupPairElements
    <2> HIDE DEF ready
    <2> QED
      BY <2>1 DEF IdsInv, IdsApart
  <1> HIDE DEF ready
  <1>5. IdsApart(sc', Live, next_id')
    BY <1>1, <1>2, <1>3, <1>4, ReleasePairIds
  <1> QED
    BY <1>2, <1>5 DEF IdsApart, IdsInv

LEMMA StepOnIds ==
    ASSUME TypeInv, IdsInv, StepOn
    PROVE  IdsInv'
  <1> DEFINE half  == time_step \div 2
             later == ModelTime + time_step
             pair  == ReleasePair(sc, ModelTime, half, next_id)
             id    == NextIdAfter(sc, ModelTime, half, next_id)
  <1>1. /\ half \in Nat /\ later \in Int /\ ModelTime \in Int
        /\ time_step \in Nat /\ next_id \in Nat
        /\ sc \in [Containers -> ContainerStates]
        /\ Live \subseteq Containers
    BY ClockTypes, LiveContainers DEF TypeInv, TypeOK
  <1>2. PICK f \in MoveOutcomes(pair["forecast"]),
             g \in MoveOutcomes(pair["uncertain"]) :
            /\ sc' = ReleasePair(StepPair(pair, f, g, time_step), later, 0, id)
            /\ next_id' = NextIdAfter(StepPair(pair, f, g, time_step),
                                      later, 0, id)
    BY DEF StepOn
  <1> HIDE DEF half, later
  <1>3. pair \in [Containers -> ContainerStates] /\ id \in Nat
    BY <1>1, ReleasePairType
  <1>4. IdsApart(pair, Live, id)
    <2>1. IdsApart(sc, Live, next_id)
      BY DEF IdsInv, IdsApart
    <2> QED
      BY <1>1, <2>1, ReleasePairIds
  <1> HIDE DEF pair, id
  <1> DEFINE moved == StepPair(pair, f, g, time_step)
  <1>5. moved \in [Containers -> ContainerStates]
    BY <1>1, <1>2, <1>3, StepPairType
  <1>6. IdsApart(moved, Live, id)
    BY <1>1, <1>3, <1>4, StepPairIds
  <1>7. sc' = ReleasePair(moved, later, 0, id)
        /\ next_id' = NextIdAfter(moved, later, 0, id)
    BY <1>2
  <1> HIDE DEF moved
  <1>8. IdsApart(sc', Live, next_id')
    BY <1>1, <1>3, <1>5, <1>6, <1>7, ReleasePairIds
  <1>9. Live' = Live
    BY DEF StepOn, edited, Live
  <1> QED
    BY <1>8, <1>9 DEF IdsApart, IdsInv

LEMMA FullRunIds ==
    ASSUME TypeInv, IdsInv, NEW rewind \in BOOLEAN, FullRun(rewind)
    PROVE  IdsInv'
  <1> DEFINE pair == IF rewind THEN RewindPair(sc, uncertain) ELSE sc
  <1>1. /\ sc \in [Containers -> ContainerStates] /\ TypeOK
        /\ Live' = Live /\ Live \subseteq Containers /\ next_id' = next_id
        /\ uncertain \in BOOLEAN
    BY LiveContainers DEF TypeInv, TypeOK, FullRun, Live
  <1>2. sc' = SetupPair(pair)
    BY DEF FullRun
  <1>3. /\ pair \in [Containers -> ContainerStates]
        /\ \A c \in Containers : pair[c].elements \in {{}, sc[c].elements}
    BY <1>1, RewindPairType, RewindPairEmpties
  <1> HIDE DEF pair
  <1>4. \A c \in Containers : sc'[c].elements \in {{}, pair[c].elements}
    BY <1>1, <1>2, <1>3, SetupPairElements
  <1> QED
    BY <1>1, <1>3, <1>4, IdsKept

LEMMA SetUncertainIds ==
    ASSUME TypeInv, IdsInv, NEW b \in UncertainModes, SetUncertain(b)
    PROVE  IdsInv'
  <1> DEFINE other == IF b THEN UncertainCopy(sc["forecast"])
                      ELSE EmptyContainer
             pair  == [sc EXCEPT !["uncertain"] = other]
  <1>1. sc \in [Containers -> ContainerStates]
    BY DEF TypeInv, TypeOK
  <1>2. other \in ContainerStates
    BY <1>1, UncertainCopyType, EmptyType DEF Containers
  <1> HIDE DEF other
  <1>3. pair \in [Containers -> ContainerStates]
    BY <1>1, <1>2
  <1>4. sc' = RewindPair(pair, b) /\ next_id' = next_id
        /\ Live' \subseteq Containers
    BY DEF SetUncertain, other, Live, Containers
  <1> HIDE DEF pair
  <1> QED
    BY <1>3, <1>4, RewindPairEmpties, IdsKept

LEMMA SpillEditIds ==
    ASSUME TypeInv, IdsInv,
           \/ \E s \in Originals : AddSpill(s)
           \/ \E i \in DOMAIN sc["forecast"].spills : RemoveSpill(i)
           \/ \E s \in Members(sc["forecast"]) : SwitchSpill(s)
    PROVE  IdsInv'
  <1>1. /\ sc["forecast"] \in ContainerStates
        /\ sc["uncertain"] \in ContainerStates
        /\ sc \in [Containers -> ContainerStates]
    BY DEF TypeInv, TypeOK, Containers
  <1>2. /\ next_id' = next_id /\ Live' = Live
        /\ Live \subseteq {"forecast", "uncertain"}
    BY DEF AddSpill, RemoveSpill, SwitchSpill, edited, Live, Containers
  <1>3. ASSUME NEW s \in Originals, AddSpill(s)
        PROVE  \A c \in Containers : sc'[c].elements = sc[c].elements
    BY <1>1, <1>3 DEF AddSpill, AddToPair, WithSpill, ContainerStates, Containers
  <1>4. ASSUME NEW i \in DOMAIN sc["forecast"].spills, RemoveSpill(i)
        PROVE  \A c \in Containers : sc'[c].elements = sc[c].elements
    BY <1>1, <1>4
       DEF RemoveSpill, RemoveFromPair, ContainerStates, Containers
  <1>5. ASSUME NEW s \in Members(sc["forecast"]), SwitchSpill(s)
        PROVE  \A c \in Containers : sc'[c].elements = sc[c].elements
    BY <1>1, <1>5 DEF SwitchSpill, ContainerStates, Containers
  <1>6. \A c \in Containers : sc'[c].elements = sc[c].elements
    BY <1>3, <1>4, <1>5
  <1> QED
    BY <1>2, <1>6, IdsKept DEF Containers

LEMMA IdsNext == TypeInv /\ IdsInv /\ [Next]_vars => IdsInv'
  <1> SUFFICES ASSUME TypeInv, IdsInv, [Next]_vars PROVE IdsInv'
    OBVIOUS
  <1>1. ASSUME UNCHANGED <<sc, uncertain, next_id>>
        PROVE  IdsInv'
    BY <1>1 DEF IdsInv, Live
  <1>2. CASE StepFails
    <2>1. /\ sc \in [Containers -> ContainerStates] /\ TypeOK
          /\ Live' = Live /\ Live \subseteq Containers
          /\ sc' = SetupPair(sc) /\ next_id' = next_id
      BY <1>2, LiveContainers DEF TypeInv, TypeOK, StepFails, Live
    <2>2. \A c \in Live : sc'[c].elements \in {{}, sc[c].elements}
      BY <2>1, SetupPairElements
    <2> QED
      BY <2>1, <2>2, IdsKept
  <1>3. CASE StepZero \/ StepOn
    BY <1>3, StepZeroIds, StepOnIds
  <1>4. CASE StepPastEnd \/ UNCHANGED vars
    BY <1>1, <1>4 DEF StepPastEnd, vars, edited, run
  <1>5. CASE \E rewind \in BOOLEAN : FullRun(rewind)
    BY <1>5, FullRunIds
  <1>6. CASE Edit
    <2>1. ASSUME \/ Rewind /\ UNCHANGED edited
                 \/ \E t \in StartTimes : SetStartTime(t)
                 \/ \E ts \in TimeSteps : SetTimeStep(ts)
                 \/ \E m \in Movers : AddMover(m) \/ RemoveMover(m)
                 \/ \E w \in Weatherers : AddWeatherer(w)
          PROVE  IdsInv'
      <3>1. Rewind /\ uncertain' = uncertain
        BY <2>1 DEF edited, SetStartTime, SetTimeStep, AddMover, RemoveMover,
                    AddWeatherer
      <3> QED
        BY <3>1, RewindIds
    <2>2. ASSUME NEW d \in Durations, SetDuration(d)
          PROVE  IdsInv'
      BY <1>1, <2>2, RewindIds DEF SetDuration, run
    <2>3. ASSUME NEW b \in UncertainModes, SetUncertain(b)
          PROVE  IdsInv'
      BY <2>3, SetUncertainIds
    <2>4. ASSUME \E w \in Weatherers : RemoveWeatherer(w)
          PROVE  IdsInv'
      BY <1>1, <2>4 DEF RemoveWeatherer, run
    <2> QED
      BY <1>6, <2>1, <2>2, <2>3, <2>4, SpillEditIds DEF Edit
  <1> QED
    BY <1>2, <1>3, <1>4, <1>5, <1>6 DEF Next, Step

\* An element keeps its id to itself in its container and for ever: no
\* rewind, new run, removal or edit by any caller makes the model hand out
\* an id that an element still in the arrays holds.
THEOREM IdsAreUnique == Spec => []UniqueIds
  <1>1. Init => IdsInv
    BY DEF Init, IdsInv, Live, EmptyContainer, Containers
  <1>2. TypeInv /\ IdsInv /\ [Next]_vars => IdsInv'
    BY IdsNext
  <1>3. IdsInv => UniqueIds
    BY DEF IdsInv, UniqueIds
  <1> QED
    BY <1>1, <1>2, <1>3, TypeInit, TypeNext, PTL DEF Spec

-----------------------------------------------------------------------------
(* The mass balance                                                        *)

Beached(k) == {e \in k.elements : e.status = "on_land"}

Balanced(k) ==
    /\ k.beached = Cardinality(Beached(k))
    /\ k.off_maps = Cardinality(k.gone)

LEMMA InjectiveImage ==
    ASSUME NEW S, IsFiniteSet(S), NEW T, NEW f \in [S -> T],
           \A x, y \in S : f[x] = f[y] => x = y,
           \A z \in T : \E x \in S : z = f[x]
    PROVE  IsFiniteSet(T) /\ Cardinality(T) = Cardinality(S)
  <1>1. f \in Bijection(S, T)
    BY DEF Bijection, Injection, Surjection, IsInjective
  <1> QED
    BY <1>1, FS_Bijection DEF ExistsBijection

\* Nothing released: no mass is beached or lost.
LEMMA ClearedBalance ==
    ASSUME NEW k, k.elements = {}, k.gone = {}, k.beached = 0, k.off_maps = 0
    PROVE  Balanced(k)
  BY FS_EmptySet DEF Balanced, Beached

LEMMA SameBalance ==
    ASSUME NEW k, NEW m, Balanced(k), m.elements = k.elements,
           m.gone = k.gone, m.beached = k.beached, m.off_maps = k.off_maps
    PROVE  Balanced(m)
  BY DEF Balanced, Beached

\* Elements are released in the water.
LEMMA ReleaseBalanced ==
    ASSUME NEW k \in ContainerStates, NEW t, NEW dt, NEW id, Balanced(k)
    PROVE  Balanced(ReleaseElements(k, t, dt, id))
  <1> DEFINE next == ReleaseElements(k, t, dt, id)
             new  == NewElements(k, t, dt, id)
  <1>1. /\ next.elements = k.elements \cup new
        /\ next.gone = k.gone
        /\ next.beached = k.beached
        /\ next.off_maps = k.off_maps
    BY DEF ReleaseElements, ContainerStates
  <1>2. \A e \in new : e.status = "in_water"
    BY DEF NewElements
  <1> HIDE DEF next, new
  <1>3. Beached(next) = Beached(k)
    BY <1>1, <1>2 DEF Beached
  <1>4. Balanced(next)
    BY <1>1, <1>3 DEF Balanced
  <1> QED
    BY <1>4 DEF next

\* The map counts the beached elements anew and adds those it loses: by
\* Sound no element is lost that was lost before, and none counts twice.
LEMMA StepBalanced ==
    ASSUME NEW k \in ContainerStates, NEW f \in MoveOutcomes(k),
           NEW ts \in Nat, Sound(k), Balanced(k)
    PROVE  Balanced(StepContainer(k, f, ts))
  <1> DEFINE next == StepContainer(k, f, ts)
             moved(e) == [[e EXCEPT !.status = f[e]] EXCEPT !.age = @ + ts]
             name(e) == <<e.owner, e.ord>>
             stay == k.elements \ OffMaps(k, f)
             land == OnLand(k, f)
             off  == OffMaps(k, f)
             lost == {name(e) : e \in off}
  <1>1. /\ next.elements = {moved(e) : e \in stay}
        /\ next.gone = k.gone \cup lost
        /\ next.beached = IF k.elements = {} THEN k.beached
                          ELSE Cardinality(land)
        /\ next.off_maps = k.off_maps + Cardinality(off)
    <2>1. Aged(Remaining(k, f), ts) = {moved(e) : e \in stay}
      BY DEF Aged, Remaining
    <2> QED
      BY <2>1 DEF StepContainer, ContainerStates
  <1>2. \A e \in k.elements : /\ moved(e).owner = e.owner
                              /\ moved(e).ord = e.ord
                              /\ moved(e).status = f[e]
    BY ContainerFields DEF Elements
  <1>3. /\ k.elements \subseteq Elements /\ IsFiniteSet(k.elements)
        /\ IsFiniteSet(k.gone)
    BY ContainerFields
  <1>4. /\ land \subseteq k.elements /\ off \subseteq k.elements
        /\ IsFiniteSet(land) /\ IsFiniteSet(off)
        /\ \A e \in k.elements : e \in land <=> f[e] = "on_land"
        /\ \A e \in land : e \in stay
        /\ stay \subseteq k.elements
    <2>1. land \in SUBSET k.elements /\ off \in SUBSET k.elements
      BY DEF OnLand, OffMaps
    <2>2. IsFiniteSet(land) /\ IsFiniteSet(off)
      BY <1>3, <2>1, FS_Subset
    <2> QED
      BY <2>1, <2>2 DEF OnLand, OffMaps
  <1>5. \A e, g \in k.elements : e.owner = g.owner /\ e.ord = g.ord => e = g
    BY DEF Sound, Distinct
  <1> HIDE DEF next, moved, land, off, stay
  <1>6. next.beached = Cardinality(Beached(next))
    <2>1. Cardinality(Beached(next)) = Cardinality(land)
      <3> DEFINE h == [e \in land |-> moved(e)]
      <3>1. Beached(next) = {moved(e) : e \in land}
        BY <1>1, <1>2, <1>4 DEF Beached
      <3>2. \A e, g \in land : moved(e) = moved(g) => e = g
        BY <1>2, <1>4, <1>5
      <3>3. /\ h \in [land -> Beached(next)]
            /\ \A e, g \in land : h[e] = h[g] => e = g
            /\ \A z \in Beached(next) : \E e \in land : z = h[e]
        BY <3>1, <3>2
      <3> QED
        BY <1>4, <3>3, InjectiveImage
    <2>2. CASE k.elements = {}
      <3>1. land = {} /\ Beached(k) = {}
        BY <1>4, <2>2 DEF Beached
      <3> QED
        BY <1>1, <2>1, <2>2, <3>1 DEF Balanced
    <2> QED
      BY <1>1, <2>1, <2>2
  <1>7. next.off_maps = Cardinality(next.gone)
    <2> DEFINE h == [e \in off |-> name(e)]
    <2>1. IsFiniteSet(lost) /\ Cardinality(lost) = Cardinality(off)
      <3>1. \A e, g \in off : name(e) = name(g) => e = g
        BY <1>4, <1>5
      <3>2. /\ h \in [off -> lost]
            /\ \A e, g \in off : h[e] = h[g] => e = g
            /\ \A z \in lost : \E e \in off : z = h[e]
        BY <3>1
      <3> HIDE DEF lost, h
      <3> QED
        BY <1>4, <3>2, InjectiveImage
    <2>2. k.gone \cap lost = {}
      <3> SUFFICES ASSUME NEW e \in off, name(e) \in k.gone
                   PROVE  FALSE
        OBVIOUS
      <3>1. e.owner \in Spills /\ e.ord \in Ordinals(k, e.owner)
        BY <1>3, <1>4 DEF Elements, Ordinals
      <3>2. e.ord \in GoneOrdinals(k, e.owner)
        <4>1. name(e)[1] = e.owner /\ name(e)[2] = e.ord
          OBVIOUS
        <4> HIDE DEF name
        <4> QED
          BY <4>1 DEF GoneOrdinals
      <3> QED
        BY <3>1, <3>2 DEF Sound, Accounted
    <2>3. Cardinality(k.gone \cup lost) = Cardinality(k.gone) + Cardinality(lost)
      <3>1. Cardinality(k.gone \cup lost) =
                Cardinality(k.gone) + Cardinality(lost)
                    - Cardinality(k.gone \cap lost)
        BY <1>3, <2>1, FS_Union
      <3>2. Cardinality(k.gone \cap lost) = 0
        BY <2>2, FS_EmptySet
      <3>3. Cardinality(k.gone) \in Nat /\ Cardinality(lost) \in Nat
        BY <1>3, <2>1, FS_CardinalityType
      <3> QED
        BY <3>1, <3>2, <3>3
    <2> QED
      BY <1>1, <2>1, <2>3 DEF Balanced
  <1> QED
    BY <1>6, <1>7 DEF Balanced, next

LEMMA RewindPairBalanced ==
    ASSUME NEW pair \in [Containers -> ContainerStates], NEW u
    PROVE  \A c \in Containers : Balanced(RewindPair(pair, u)[c])
  <1> DEFINE forecast == RewindContainer(pair["forecast"])
             other    == RewindContainer(pair["uncertain"])
  <1>1. \A k \in ContainerStates :
            /\ RewindContainer(k).elements = {}
            /\ RewindContainer(k).gone = {}
            /\ RewindContainer(k).beached = 0
            /\ RewindContainer(k).off_maps = 0
    BY DEF RewindContainer, ContainerStates
  <1>2. Balanced(forecast) /\ Balanced(other)
    BY <1>1, ClearedBalance DEF Containers
  <1>3. Balanced(EmptyContainer) /\ Balanced(UncertainCopy(forecast))
    <2>1. /\ EmptyContainer.elements = {} /\ EmptyContainer.gone = {}
          /\ EmptyContainer.beached = 0 /\ EmptyContainer.off_maps = 0
      BY DEF EmptyContainer
    <2>2. ASSUME NEW k
          PROVE  /\ UncertainCopy(k).elements = {} /\ UncertainCopy(k).gone = {}
                 /\ UncertainCopy(k).beached = 0
                 /\ UncertainCopy(k).off_maps = 0
      BY DEF UncertainCopy, EmptyContainer
    <2> QED
      BY <2>1, <2>2, ClearedBalance
  <1>4. \A c \in Containers : RewindPair(pair, u)[c] \in
            {forecast, other, EmptyContainer, UncertainCopy(forecast)}
    BY DEF RewindPair
  <1> QED
    BY <1>2, <1>3, <1>4

\* Set-up zeroes the mass balance.  It does not clear the history of what
\* was lost, and so is only right in a container that is afresh.
LEMMA SetupPairBalanced ==
    ASSUME NEW pair \in [Containers -> ContainerStates], TypeOK,
           \A c \in Live : Afresh(pair[c]) /\ Balanced(pair[c]),
           pair["forecast"].spills \in Seq(Originals)
    PROVE  \A c \in Live : Balanced(SetupPair(pair)[c])
  <1> DEFINE base == SetupBase(pair)
  <1>1. uncertain \in BOOLEAN /\ Live = LiveOf(uncertain)
        /\ Live \subseteq Containers
    BY LiveContainers
  <1>2. base \in [Containers -> ContainerStates]
    BY RewindPairType DEF SetupBase
  <1>3. \A c \in Live : Afresh(base[c]) /\ Balanced(base[c])
    <2>1. \A c \in Live : Afresh(RewindPair(pair, uncertain)[c])
                          /\ Balanced(RewindPair(pair, uncertain)[c])
      BY <1>1, RewindPairAfresh, AfreshIsRewindable, RewindPairBalanced
    <2> QED
      BY <2>1 DEF SetupBase
  <1>4. \A c \in Live : SetupPair(pair)[c] \in
            {base[c], PrepareContainer(base[c], time_step),
             PrepareRaises(base[c], time_step)}
    BY <1>1 DEF SetupPair
  <1> HIDE DEF base
  <1>5. ASSUME NEW k \in ContainerStates, Afresh(k), Balanced(k)
        PROVE  /\ Balanced(PrepareContainer(k, time_step))
               /\ Balanced(PrepareRaises(k, time_step))
    <2>1. /\ PrepareContainer(k, time_step).elements = {}
          /\ PrepareContainer(k, time_step).gone = {}
          /\ PrepareContainer(k, time_step).beached = 0
          /\ PrepareContainer(k, time_step).off_maps = 0
      BY <1>5 DEF PrepareContainer, ContainerStates, Afresh
    <2>2. /\ PrepareRaises(k, time_step).elements = k.elements
          /\ PrepareRaises(k, time_step).gone = k.gone
          /\ PrepareRaises(k, time_step).beached = k.beached
          /\ PrepareRaises(k, time_step).off_maps = k.off_maps
      BY DEF PrepareRaises, ContainerStates
    <2> QED
      BY <1>5, <2>1, <2>2, ClearedBalance, SameBalance
  <1> QED
    BY <1>1, <1>2, <1>3, <1>4, <1>5

LEMMA ReleasePairBalanced ==
    ASSUME NEW pair \in [Containers -> ContainerStates],
           NEW t, NEW dt, NEW id, NEW L \in SUBSET Containers,
           \A c \in L : Balanced(pair[c])
    PROVE  \A c \in L : Balanced(ReleasePair(pair, t, dt, id)[c])
  BY ReleaseBalanced DEF ReleasePair

LEMMA StepPairBalanced ==
    ASSUME NEW pair \in [Containers -> ContainerStates], NEW ts \in Nat,
           NEW f \in MoveOutcomes(pair["forecast"]),
           NEW g \in MoveOutcomes(pair["uncertain"]),
           NEW L \in SUBSET Containers,
           \A c \in L : Sound(pair[c]) /\ Balanced(pair[c])
    PROVE  \A c \in L : Balanced(StepPair(pair, f, g, ts)[c])
  <1>1. "forecast" \in L => Balanced(StepContainer(pair["forecast"], f, ts))
    BY StepBalanced DEF Containers
  <1>2. "uncertain" \in L => Balanced(StepContainer(pair["uncertain"], g, ts))
    BY StepBalanced DEF Containers
  <1> QED
    BY <1>1, <1>2 DEF StepPair, Containers

BalanceInv == IInv /\ \A c \in Live : Balanced(sc[c])

LEMMA StepZeroBalanced ==
    ASSUME BalanceInv, StepZero
    PROVE  \A c \in Live' : Balanced(sc'[c])
  <1> DEFINE ready == SetupPair(sc)
  <1>1. /\ sc \in [Containers -> ContainerStates] /\ TypeOK
        /\ Live \subseteq Containers /\ Live' = Live
    BY LiveContainers DEF BalanceInv, IInv, TypeInv, TypeOK, StepZero, Live
  <1>2. sc' = ReleasePair(ready, start_time, 0, next_id)
    BY DEF StepZero
  <1>3. /\ ready \in [Containers -> ContainerStates]
        /\ \A c \in Live : Balanced(ready[c])
    BY <1>1, SetupPairType, SetupPairBalanced
       DEF BalanceInv, IInv, TypeInv, Paired, StepZero
  <1> HIDE DEF ready
  <1> QED
    BY <1>1, <1>2, <1>3, ReleasePairBalanced

LEMMA StepOnBalanced ==
    ASSUME BalanceInv, StepOn
    PROVE  \A c \in Live' : Balanced(sc'[c])
  <1> DEFINE half  == time_step \div 2
             later == ModelTime + time_step
             pair  == ReleasePair(sc, ModelTime, half, next_id)
             id    == NextIdAfter(sc, ModelTime, half, next_id)
  <1>1. /\ half \in Nat /\ ModelTime \in Int
        /\ time_step \in Nat /\ next_id \in Nat
        /\ sc \in [Containers -> ContainerStates]
        /\ Live \subseteq Containers
    BY ClockTypes, LiveContainers DEF BalanceInv, IInv, TypeInv, TypeOK
  <1>2. PICK f \in MoveOutcomes(pair["forecast"]),
             g \in MoveOutcomes(pair["uncertain"]) :
            sc' = ReleasePair(StepPair(pair, f, g, time_step), later, 0, id)
    BY DEF StepOn
  <1>3. Live' = Live
    BY DEF StepOn, edited, Live
  <1> HIDE DEF half, later, id
  <1>4. pair \in [Containers -> ContainerStates]
    BY <1>1, ReleasePairType
  <1>5. \A c \in Live : Sound(pair[c]) /\ Balanced(pair[c])
    BY <1>1, ReleasePairSound, ReleasePairBalanced DEF BalanceInv, IInv
  <1> HIDE DEF pair
  <1> DEFINE moved == StepPair(pair, f, g, time_step)
  <1>6. moved \in [Containers -> ContainerStates]
    BY <1>1, <1>2, <1>4, StepPairType
  <1>7. \A c \in Live : Balanced(moved[c])
    BY <1>1, <1>2, <1>4, <1>5, StepPairBalanced
  <1>8. sc' = ReleasePair(moved, later, 0, id)
    BY <1>2
  <1> HIDE DEF moved
  <1> QED
    BY <1>1, <1>3, <1>6, <1>7, <1>8, ReleasePairBalanced

LEMMA FullRunBalanced ==
    ASSUME PlainCaller, BalanceInv, NEW rewind \in BOOLEAN, FullRun(rewind)
    PROVE  \A c \in Live' : Balanced(sc'[c])
  <1> DEFINE pair == IF rewind THEN RewindPair(sc, uncertain) ELSE sc
  <1>1. /\ sc \in [Containers -> ContainerStates] /\ TypeOK /\ IInv
        /\ Live = LiveOf(uncertain) /\ Live' = Live /\ uncertain \in BOOLEAN
        /\ Live \subseteq Containers
        /\ sc["forecast"].spills \in Seq(Originals)
    BY LiveContainers
       DEF BalanceInv, IInv, TypeInv, Paired, TypeOK, FullRun, Live
  <1>2. sc' = SetupPair(pair)
    BY DEF FullRun
  <1>3. /\ pair \in [Containers -> ContainerStates]
        /\ pair["forecast"].spills \in Seq(Originals)
    BY <1>1, RewindPairType, RewindPairMirrors DEF Paired
  <1>4. \A c \in Live : Afresh(pair[c]) /\ Balanced(pair[c])
    <2>1. CASE rewind
      <3>1. \A c \in LiveOf(uncertain) : Rewindable(sc[c])
        BY <1>1, SoundIsRewindable DEF IInv
      <3> QED
        BY <1>1, <2>1, <3>1, RewindPairAfresh, RewindPairBalanced
    <2>2. CASE ~rewind
      <3>1. current_time_step = -1
        BY <2>2 DEF FullRun, PlainCaller
      <3> QED
        BY <2>2, <3>1 DEF BalanceInv, IInv
    <2> QED
      BY <2>1, <2>2
  <1> HIDE DEF pair
  <1> QED
    BY <1>1, <1>2, <1>3, <1>4, SetupPairBalanced

LEMMA SetUncertainBalanced ==
    ASSUME BalanceInv, NEW b \in UncertainModes, SetUncertain(b)
    PROVE  \A c \in Live' : Balanced(sc'[c])
  <1> DEFINE other == IF b THEN UncertainCopy(sc["forecast"])
                      ELSE EmptyContainer
             pair  == [sc EXCEPT !["uncertain"] = other]
  <1>1. sc \in [Containers -> ContainerStates]
    BY DEF BalanceInv, IInv, TypeInv, TypeOK
  <1>2. other \in ContainerStates
    BY <1>1, UncertainCopyType, EmptyType DEF Containers
  <1> HIDE DEF other
  <1>3. pair \in [Containers -> ContainerStates]
    BY <1>1, <1>2
  <1>4. sc' = RewindPair(pair, b) /\ Live' \subseteq Containers
    BY DEF SetUncertain, other, Live, Containers
  <1> HIDE DEF pair
  <1> QED
    BY <1>3, <1>4, RewindPairBalanced

LEMMA SpillEditBalanced ==
    ASSUME BalanceInv,
           \/ \E s \in Originals : AddSpill(s)
           \/ \E i \in DOMAIN sc["forecast"].spills : RemoveSpill(i)
           \/ \E s \in Members(sc["forecast"]) : SwitchSpill(s)
    PROVE  \A c \in Live' : Balanced(sc'[c])
  <1> DEFINE same(m, k) ==
                 /\ m.elements = k.elements /\ m.gone = k.gone
                 /\ m.beached = k.beached /\ m.off_maps = k.off_maps
  <1>1. /\ sc["forecast"] \in ContainerStates
        /\ sc["uncertain"] \in ContainerStates
        /\ sc \in [Containers -> ContainerStates]
    BY DEF BalanceInv, IInv, TypeInv, TypeOK, Containers
  <1>2. Live' = Live /\ Live \subseteq Containers
    BY DEF AddSpill, RemoveSpill, SwitchSpill, edited, Live, Containers
  <1>3. ASSUME NEW s \in Originals, AddSpill(s)
        PROVE  \A c \in Containers : same(sc'[c], sc[c])
    BY <1>1, <1>3 DEF AddSpill, AddToPair, WithSpill, ContainerStates, Containers
  <1>4. ASSUME NEW i \in DOMAIN sc["forecast"].spills, RemoveSpill(i)
        PROVE  \A c \in Containers : same(sc'[c], sc[c])
    BY <1>1, <1>4
       DEF RemoveSpill, RemoveFromPair, ContainerStates, Containers
  <1>5. ASSUME NEW s \in Members(sc["forecast"]), SwitchSpill(s)
        PROVE  \A c \in Containers : same(sc'[c], sc[c])
    BY <1>1, <1>5 DEF SwitchSpill, ContainerStates, Containers
  <1>6. \A c \in Containers : same(sc'[c], sc[c])
    BY <1>3, <1>4, <1>5
  <1> QED
    BY <1>2, <1>6, SameBalance DEF BalanceInv

LEMMA BalanceNext ==
    ASSUME PlainCaller
    PROVE  BalanceInv /\ [Next]_vars => BalanceInv'
  <1> SUFFICES ASSUME BalanceInv, [Next]_vars
               PROVE  \A c \in Live' : Balanced(sc'[c])
    BY IInvNext DEF BalanceInv
  <1>1. ASSUME UNCHANGED <<sc, uncertain>>
        PROVE  \A c \in Live' : Balanced(sc'[c])
    BY <1>1 DEF BalanceInv, Live
  <1>2. sc \in [Containers -> ContainerStates] /\ TypeOK
    BY DEF BalanceInv, IInv, TypeInv, TypeOK
  <1>3. ASSUME Rewind, uncertain' = uncertain
        PROVE  \A c \in Live' : Balanced(sc'[c])
    BY <1>2, <1>3, RewindPairBalanced DEF Rewind, Live, Containers
  <1>4. CASE StepFails
    <2>1. Live' = Live /\ sc' = SetupPair(sc) /\ current_time_step = -1
      BY <1>4 DEF StepFails, Live
    <2> QED
      BY <1>2, <2>1, SetupPairBalanced DEF BalanceInv, IInv, TypeInv, Paired
  <1>5. CASE StepZero \/ StepOn
    BY <1>5, StepZeroBalanced, StepOnBalanced
  <1>6. CASE StepPastEnd \/ UNCHANGED vars
    BY <1>1, <1>6 DEF StepPastEnd, vars, edited, run
  <1>7. CASE \E rewind \in BOOLEAN : FullRun(rewind)
    BY <1>7, FullRunBalanced
  <1>8. CASE Edit
    <2>1. ASSUME \/ Rewind /\ UNCHANGED edited
                 \/ \E t \in StartTimes : SetStartTime(t)
                 \/ \E ts \in TimeSteps : SetTimeStep(ts)
                 \/ \E m \in Movers : AddMover(m) \/ RemoveMover(m)
                 \/ \E w \in Weatherers : AddWeatherer(w)
          PROVE  \A c \in Live' : Balanced(sc'[c])
      <3>1. Rewind /\ uncertain' = uncertain
        BY <2>1 DEF edited, SetStartTime, SetTimeStep, AddMover, RemoveMover,
                    AddWeatherer
      <3> QED
        BY <1>3, <3>1
    <2>2. ASSUME NEW d \in Durations, SetDuration(d)
          PROVE  \A c \in Live' : Balanced(sc'[c])
      BY <1>1, <1>3, <2>2 DEF SetDuration, run
    <2>3. ASSUME NEW b \in UncertainModes, SetUncertain(b)
          PROVE  \A c \in Live' : Balanced(sc'[c])
      BY <2>3, SetUncertainBalanced
    <2>4. ASSUME \E w \in Weatherers : RemoveWeatherer(w)
          PROVE  \A c \in Live' : Balanced(sc'[c])
      BY <1>1, <2>4 DEF RemoveWeatherer, run
    <2> QED
      BY <1>8, <2>1, <2>2, <2>3, <2>4, SpillEditBalanced DEF Edit
  <1> QED
    BY <1>4, <1>5, <1>6, <1>7, <1>8 DEF Next, Step

\* The mass balance of a run agrees with its arrays in both containers:
\* beached is what lies on land now, off_maps all that was ever lost over
\* the map's edge, each element once, for a plain caller.
THEOREM MassIsBalanced ==
    ASSUME PlainCaller
    PROVE  Spec => []MassBalanceAgrees
  <1>1. Init => BalanceInv
    <2>1. Balanced(EmptyContainer)
      BY ClearedBalance DEF EmptyContainer
    <2> QED
      BY <2>1, IInvInit DEF BalanceInv, Init, Live, Containers
  <1>2. BalanceInv /\ [Next]_vars => BalanceInv'
    BY BalanceNext
  <1>3. BalanceInv => MassBalanceAgrees
    BY DEF BalanceInv, Balanced, Beached, MassBalanceAgrees
  <1> QED
    BY <1>1, <1>2, <1>3, PTL DEF Spec

-----------------------------------------------------------------------------
(* The release schedule                                                    *)

\* A caller who besides leaves the spills of a run as they are.
SteadyCaller == Caller \cap {"add", "remove", "switch", "resume"} = {}

OnSchedule(k, t) ==
    \A s \in Members(k) :
        k.on[s] => k.num_released[s] =
                       NumElementsAfterTime(ReleaseOf[s], k.prepared[s], t, 0)

\* No spill has released more than is prescribed for time t.
NotAhead(k, t) ==
    \A s \in Members(k) :
        k.on[s] => k.num_released[s] <=
                       NumElementsAfterTime(ReleaseOf[s], k.prepared[s], t, 0)

LEMMA NumElementsMonotone ==
    ASSUME NEW r, IsRelease(r), NEW ts \in Nat, NEW t \in Int, NEW u \in Int,
           NEW dt \in Nat, t <= u, t + dt <= u
    PROVE  NumElementsAfterTime(r, ts, t, dt)
               <= NumElementsAfterTime(r, ts, u, 0)
  <1>1. NumElementsAfterTime(r, ts, u, 0) \in Nat
    BY NumElementsNat
  <1>2. CASE ts = 0 \/ t < r.begin
    BY <1>1, <1>2 DEF NumElementsAfterTime
  <1>3. CASE ~(ts = 0 \/ t < r.begin)
    <2>1. r.begin \in Int /\ ts > 0 /\ ~(u < r.begin)
      BY <1>3 DEF IsRelease
    <2>2. ScheduleAt(r, ts, t + dt) <= ScheduleAt(r, ts, u + 0)
      BY <2>1, ScheduleMonotone
    <2> QED
      BY <1>3, <2>1, <2>2 DEF NumElementsAfterTime
  <1> QED
    BY <1>2, <1>3

LEMMA ScheduleNotAhead ==
    ASSUME NEW k \in ContainerStates, NEW t \in Int, NEW u \in Int, t <= u,
           OnSchedule(k, t)
    PROVE  NotAhead(k, u)
  <1>1. ASSUME NEW s \in Members(k)
        PROVE  NumElementsAfterTime(ReleaseOf[s], k.prepared[s], t, 0)
                   <= NumElementsAfterTime(ReleaseOf[s], k.prepared[s], u, 0)
    <2>1. s \in Spills /\ k.prepared[s] \in Nat
      BY SpillsOfContainer, ContainerFields
    <2> QED
      BY <2>1, ReleaseAssumption, NumElementsMonotone
  <1> QED
    BY <1>1 DEF OnSchedule, NotAhead

LEMMA AfreshNotAhead ==
    ASSUME NEW k \in ContainerStates, NEW u \in Int, Afresh(k)
    PROVE  NotAhead(k, u)
  <1>1. ASSUME NEW s \in Members(k)
        PROVE  /\ k.num_released[s] = 0
               /\ NumElementsAfterTime(ReleaseOf[s], k.prepared[s], u, 0) \in Nat
    <2>1. s \in Spills /\ k.prepared[s] \in Nat
      BY SpillsOfContainer, ContainerFields
    <2> QED
      BY <2>1, ReleaseAssumption, NumElementsNat DEF Afresh
  <1> QED
    BY <1>1 DEF NotAhead

\* A release for an earlier time, or for half a step, does not run ahead.
LEMMA ReleaseNotAhead ==
    ASSUME NEW k \in ContainerStates, NEW t \in Int, NEW dt \in Nat, NEW id,
           NEW u \in Int, t <= u, t + dt <= u, NotAhead(k, u)
    PROVE  NotAhead(ReleaseElements(k, t, dt, id), u)
  <1> DEFINE next == ReleaseElements(k, t, dt, id)
  <1>1. /\ Members(next) = Members(k)
        /\ next.on = k.on /\ next.prepared = k.prepared
        /\ \A s \in Spills : next.num_released[s] =
               IF s \in Members(k) THEN ExpectedRelease(k, s, t, dt)
               ELSE k.num_released[s]
    BY DEF ReleaseElements, ContainerStates, Members
  <1> HIDE DEF next
  <1>2. ASSUME NEW s \in Members(k), k.on[s]
        PROVE  ExpectedRelease(k, s, t, dt) <=
                   NumElementsAfterTime(ReleaseOf[s], k.prepared[s], u, 0)
    <2>1. s \in Spills /\ k.prepared[s] \in Nat
      BY SpillsOfContainer, ContainerFields
    <2>2. NumElementsAfterTime(ReleaseOf[s], k.prepared[s], t, dt)
              <= NumElementsAfterTime(ReleaseOf[s], k.prepared[s], u, 0)
      BY <2>1, ReleaseAssumption, NumElementsMonotone
    <2> QED
      BY <1>2, <2>2 DEF NotAhead, ExpectedRelease
  <1>3. NotAhead(next, u)
    BY <1>1, <1>2, SpillsOfContainer DEF NotAhead
  <1> QED
    BY <1>3 DEF next

\* The release at time t brings every spill that is on to its schedule.
LEMMA ReleaseCatchesUp ==
    ASSUME NEW k \in ContainerStates, NEW t \in Int, NEW id, NotAhead(k, t)
    PROVE  OnSchedule(ReleaseElements(k, t, 0, id), t)
  <1> DEFINE next == ReleaseElements(k, t, 0, id)
  <1>1. /\ Members(next) = Members(k)
        /\ next.on = k.on /\ next.prepared = k.prepared
        /\ \A s \in Spills : next.num_released[s] =
               IF s \in Members(k) THEN ExpectedRelease(k, s, t, 0)
               ELSE k.num_released[s]
    BY DEF ReleaseElements, ContainerStates, Members
  <1> HIDE DEF next
  <1>2. ASSUME NEW s \in Members(k), k.on[s]
        PROVE  ExpectedRelease(k, s, t, 0) =
                   NumElementsAfterTime(ReleaseOf[s], k.prepared[s], t, 0)
    <2>1. s \in Spills /\ k.prepared[s] \in Nat /\ k.num_released[s] \in Nat
      BY SpillsOfContainer, ContainerFields
    <2>2. NumElementsAfterTime(ReleaseOf[s], k.prepared[s], t, 0) \in Nat
      BY <2>1, ReleaseAssumption, NumElementsNat
    <2> QED
      BY <1>2, <2>1, <2>2 DEF NotAhead, ExpectedRelease
  <1>3. OnSchedule(next, t)
    BY <1>1, <1>2, SpillsOfContainer DEF OnSchedule
  <1> QED
    BY <1>3 DEF next

LEMMA StepNotAhead ==
    ASSUME NEW k \in ContainerStates, NEW f, NEW ts, NEW u, NotAhead(k, u)
    PROVE  NotAhead(StepContainer(k, f, ts), u)
  <1> DEFINE next == StepContainer(k, f, ts)
  <1>1. /\ Members(next) = Members(k)
        /\ next.on = k.on /\ next.prepared = k.prepared
        /\ next.num_released = k.num_released
    BY DEF StepContainer, ContainerStates, Members
  <1> HIDE DEF next
  <1>2. NotAhead(next, u)
    BY <1>1 DEF NotAhead
  <1> QED
    BY <1>2 DEF next

LEMMA ReleasePairCatchesUp ==
    ASSUME NEW pair \in [Containers -> ContainerStates], NEW t \in Int,
           NEW id, NEW L \in SUBSET Containers,
           \A c \in L : NotAhead(pair[c], t)
    PROVE  \A c \in L : OnSchedule(ReleasePair(pair, t, 0, id)[c], t)
  BY ReleaseCatchesUp DEF ReleasePair

LEMMA ReleasePairNotAhead ==
    ASSUME NEW pair \in [Containers -> ContainerStates], NEW t \in Int,
           NEW dt \in Nat, NEW id, NEW L \in SUBSET Containers,
           NEW u \in Int, t <= u, t + dt <= u,
           \A c \in L : NotAhead(pair[c], u)
    PROVE  \A c \in L : NotAhead(ReleasePair(pair, t, dt, id)[c], u)
  BY ReleaseNotAhead DEF ReleasePair

LEMMA StepPairNotAhead ==
    ASSUME NEW pair \in [Containers -> ContainerStates], NEW f, NEW g,
           NEW ts, NEW L \in SUBSET Containers, NEW u,
           \A c \in L : NotAhead(pair[c], u)
    PROVE  \A c \in L : NotAhead(StepPair(pair, f, g, ts)[c], u)
  BY StepNotAhead DEF StepPair

ScheduleInv == IInv /\ ReleasedOnSchedule

LEMMA StepZeroOnSchedule ==
    ASSUME IInv, StepZero
    PROVE  ReleasedOnSchedule'
  <1> DEFINE ready == SetupPair(sc)
  <1>1. /\ sc \in [Containers -> ContainerStates] /\ TypeOK
        /\ Live \subseteq Containers /\ Live' = Live
        /\ start_time \in Int /\ time_step \in Int
    BY ClockTypes, LiveContainers
       DEF IInv, TypeInv, TypeOK, StepZero, Live
  <1>2. sc' = ReleasePair(ready, start_time, 0, next_id)
    BY DEF StepZero
  <1>3. ModelTime' = start_time
    BY <1>1 DEF StepZero, ModelTime
  <1>4. /\ ready \in [Containers -> ContainerStates]
        /\ \A c \in Live : Afresh(ready[c])
    BY <1>1, SetupPairType, SetupPairAfresh DEF IInv, TypeInv, Paired, StepZero
  <1> HIDE DEF ready
  <1>5. \A c \in Live : NotAhead(ready[c], start_time)
    BY <1>1, <1>4, AfreshNotAhead
  <1>6. \A c \in Live : OnSchedule(sc'[c], start_time)
    BY <1>1, <1>2, <1>4, <1>5, ReleasePairCatchesUp
  <1> QED
    BY <1>1, <1>3, <1>6 DEF OnSchedule, ReleasedOnSchedule

LEMMA StepOnOnSchedule ==
    ASSUME ScheduleInv, StepOn
    PROVE  ReleasedOnSchedule'
  <1> DEFINE half  == time_step \div 2
             later == ModelTime + time_step
             pair  == ReleasePair(sc, ModelTime, half, next_id)
             id    == NextIdAfter(sc, ModelTime, half, next_id)
  <1>1. /\ half \in Nat /\ later \in Int /\ ModelTime \in Int
        /\ time_step \in Nat /\ next_id \in Nat
        /\ sc \in [Containers -> ContainerStates]
        /\ Live \subseteq Containers
        /\ start_time \in Int /\ current_time_step \in Int
    BY ClockTypes, LiveContainers DEF ScheduleInv, IInv, TypeInv, TypeOK
  <1>2. PICK f \in MoveOutcomes(pair["forecast"]),
             g \in MoveOutcomes(pair["uncertain"]) :
            sc' = ReleasePair(StepPair(pair, f, g, time_step), later, 0, id)
    BY DEF StepOn
  <1>3. Live' = Live
    BY DEF StepOn, edited, Live
  <1>4. ModelTime' = later
    <2>1. ModelTime' = start_time + (current_time_step + 1) * time_step
      BY DEF StepOn, edited, ModelTime
    <2> QED
      BY <1>1, <2>1 DEF ModelTime
  <1>5. ModelTime <= later /\ ModelTime + half <= later
    BY <1>1
  <1>6. \A c \in Live : NotAhead(sc[c], later)
    <2>1. \A c \in Live : OnSchedule(sc[c], ModelTime)
      BY DEF ScheduleInv, ReleasedOnSchedule, OnSchedule, StepOn
    <2> HIDE DEF later
    <2> QED
      BY <1>1, <1>5, <2>1, ScheduleNotAhead
  <1> HIDE DEF half, later, id
  <1>7. pair \in [Containers -> ContainerStates]
    BY <1>1, ReleasePairType
  <1>8. \A c \in Live : NotAhead(pair[c], later)
    BY <1>1, <1>5, <1>6, ReleasePairNotAhead
  <1> HIDE DEF pair
  <1> DEFINE moved == StepPair(pair, f, g, time_step)
  <1>9. moved \in [Containers -> ContainerStates]
    BY <1>1, <1>2, <1>7, StepPairType
  <1>10. \A c \in Live : NotAhead(moved[c], later)
    BY <1>1, <1>7, <1>8, StepPairNotAhead
  <1>11. sc' = ReleasePair(moved, later, 0, id)
    BY <1>2
  <1> HIDE DEF moved
  <1>12. \A c \in Live : OnSchedule(sc'[c], later)
    BY <1>1, <1>9, <1>10, <1>11, ReleasePairCatchesUp
  <1> QED
    BY <1>3, <1>4, <1>12 DEF OnSchedule, ReleasedOnSchedule

LEMMA ScheduleNext ==
    ASSUME SteadyCaller
    PROVE  ScheduleInv /\ [Next]_vars => ScheduleInv'
  <1> SUFFICES ASSUME ScheduleInv, [Next]_vars
               PROVE  ReleasedOnSchedule'
    <2>1. PlainCaller
      BY DEF SteadyCaller, PlainCaller
    <2> QED
      BY <2>1, IInvNext DEF ScheduleInv
  <1>1. ASSUME current_time_step' = -1
        PROVE  ReleasedOnSchedule'
    BY <1>1 DEF ReleasedOnSchedule
  <1>2. ASSUME UNCHANGED <<current_time_step, sc, uncertain, start_time,
                           time_step>>
        PROVE  ReleasedOnSchedule'
    BY <1>2 DEF ScheduleInv, ReleasedOnSchedule, Live, ModelTime
  <1>3. CASE StepFails
    BY <1>1, <1>3 DEF StepFails
  <1>4. CASE StepZero \/ StepOn
    BY <1>4, StepZeroOnSchedule, StepOnOnSchedule DEF ScheduleInv
  <1>5. CASE StepPastEnd \/ UNCHANGED vars
    BY <1>2, <1>5 DEF StepPastEnd, vars, edited, run
  <1>6. CASE \E rewind \in BOOLEAN : FullRun(rewind)
    BY <1>1, <1>6 DEF FullRun, SteadyCaller
  <1>7. CASE Edit
    <2>1. CASE \/ Rewind /\ UNCHANGED edited
               \/ \E t \in StartTimes : SetStartTime(t)
               \/ \E ts \in TimeSteps : SetTimeStep(ts)
               \/ \E b \in UncertainModes : SetUncertain(b)
               \/ \E m \in Movers : AddMover(m) \/ RemoveMover(m)
               \/ \E w \in Weatherers : AddWeatherer(w)
      BY <1>1, <2>1 DEF SetStartTime, SetTimeStep, SetUncertain, AddMover,
                        RemoveMover, AddWeatherer, Rewind
    <2>2. ASSUME NEW d \in Durations, SetDuration(d)
          PROVE  ReleasedOnSchedule'
      BY <1>1, <1>2, <2>2 DEF SetDuration, Rewind, run
    <2>3. ASSUME \E w \in Weatherers : RemoveWeatherer(w)
          PROVE  ReleasedOnSchedule'
      BY <1>2, <2>3 DEF RemoveWeatherer, run
    <2>4. ASSUME \/ \E s \in Originals : AddSpill(s)
                 \/ \E i \in DOMAIN sc["forecast"].spills : RemoveSpill(i)
                 \/ \E s \in Members(sc["forecast"]) : SwitchSpill(s)
          PROVE  ReleasedOnSchedule'
      BY <1>1, <2>4 DEF AddSpill, RemoveSpill, SwitchSpill, SteadyCaller
    <2> QED
      BY <1>7, <2>1, <2>2, <2>3, <2>4 DEF Edit
  <1> QED
    BY <1>3, <1>4, <1>5, <1>6, <1>7 DEF Next, Step

\* After every step each spill that is on has released exactly what its
\* release prescribes for the model time: the half-step release never runs
\* ahead of the release at the step's end, for any schedule and any step.
THEOREM ReleasesOnSchedule ==
    ASSUME SteadyCaller
    PROVE  Spec => []ReleasedOnSchedule
  <1>1. Init => ScheduleInv
    <2>1. Init => ReleasedOnSchedule
      BY DEF Init, ReleasedOnSchedule
    <2> QED
      BY <2>1, IInvInit DEF ScheduleInv
  <1>2. ScheduleInv /\ [Next]_vars => ScheduleInv'
    BY ScheduleNext
  <1>3. ScheduleInv => ReleasedOnSchedule
    BY DEF ScheduleInv
  <1> QED
    BY <1>1, <1>2, <1>3, PTL DEF Spec

-----------------------------------------------------------------------------
(* The uncertain copies                                                    *)

\* No spill is switched off, and those of a run are prepared for its step.
Uniform ==
    /\ \A c \in Containers : \A s \in Spills : sc[c].on[s]
    /\ current_time_step >= 0 =>
           \A c \in Live : \A s \in Members(sc[c]) :
               sc[c].prepared[s] = time_step

AllOn(pair) == \A c \in Containers : \A s \in Spills : pair[c].on[s]

LEMMA RewindPairOn ==
    ASSUME NEW pair \in [Containers -> ContainerStates], NEW u, AllOn(pair)
    PROVE  AllOn(RewindPair(pair, u))
  <1> DEFINE forecast == RewindContainer(pair["forecast"])
             other    == RewindContainer(pair["uncertain"])
  <1>1. \A k \in ContainerStates : RewindContainer(k).on = k.on
    BY DEF RewindContainer, ContainerStates
  <1>2. \A s \in Spills : forecast.on[s] /\ other.on[s]
    BY <1>1 DEF AllOn, Containers
  <1>3. \A s \in Spills : EmptyContainer.on[s]
    BY DEF EmptyContainer
  <1>4. ASSUME NEW k, \A s \in Spills : k.on[s]
        PROVE  \A s \in Spills : UncertainCopy(k).on[s]
    BY <1>4, CopyFacts DEF UncertainCopy, EmptyContainer
  <1>5. \A c \in Containers : RewindPair(pair, u)[c] \in
            {forecast, other, EmptyContainer, UncertainCopy(forecast)}
    BY DEF RewindPair
  <1> HIDE DEF forecast, other
  <1> QED
    BY <1>2, <1>3, <1>4, <1>5 DEF AllOn

\* Set-up leaves the switches; when it does not raise, it prepares every
\* release of the live containers.
LEMMA SetupPairUniform ==
    ASSUME NEW pair \in [Containers -> ContainerStates], TypeOK, AllOn(pair)
    PROVE  /\ AllOn(SetupPair(pair))
           /\ ~SetupRaises(SetupBase(pair)) =>
                 \A c \in Live : \A s \in Members(SetupPair(pair)[c]) :
                     SetupPair(pair)[c].prepared[s] = time_step
  <1> DEFINE base == SetupBase(pair)
  <1>1. base \in [Containers -> ContainerStates] /\ AllOn(base)
    BY RewindPairType, RewindPairOn DEF SetupBase
  <1>2. \A k \in ContainerStates :
            /\ PrepareContainer(k, time_step).on = k.on
            /\ PrepareRaises(k, time_step).on = k.on
    BY DEF PrepareContainer, PrepareRaises, ContainerStates
  <1>3. \A k \in ContainerStates : \A s \in Members(k) :
            /\ PrepareContainer(k, time_step).prepared[s] = time_step
    <2>1. \A k \in ContainerStates :
              PrepareContainer(k, time_step).prepared =
                  [s \in Spills |-> IF s \in Members(k) THEN time_step
                                    ELSE k.prepared[s]]
      BY DEF PrepareContainer, ContainerStates
    <2> QED
      BY <2>1, SpillsOfContainer
  <1>4. \A k \in ContainerStates :
            Members(PrepareContainer(k, time_step)) = Members(k)
    BY PrepareFields DEF Members
  <1>5. Live \subseteq Containers
    BY LiveContainers
  <1>6. \A c \in Containers : SetupPair(pair)[c] \in
            {base[c], PrepareContainer(base[c], time_step),
             PrepareRaises(base[c], time_step)}
    BY DEF SetupPair
  <1>7. ~SetupRaises(base) =>
            \A c \in Live : SetupPair(pair)[c] =
                                PrepareContainer(base[c], time_step)
    BY <1>5 DEF SetupPair
  <1> HIDE DEF base
  <1>8. AllOn(SetupPair(pair))
    BY <1>1, <1>2, <1>6 DEF AllOn
  <1>9. ~SetupRaises(base) =>
            \A c \in Live : \A s \in Members(SetupPair(pair)[c]) :
                SetupPair(pair)[c].prepared[s] = time_step
    BY <1>1, <1>3, <1>4, <1>5, <1>7
  <1> QED
    BY <1>8, <1>9 DEF base

\* A release and a step leave switches, preparation and collection.
Kept(m, k) == /\ m.on = k.on /\ m.prepared = k.prepared
              /\ m.spills = k.spills

LEMMA ReleasePairKeeps ==
    ASSUME NEW pair \in [Containers -> ContainerStates], NEW t, NEW dt, NEW id
    PROVE  \A c \in Containers : Kept(ReleasePair(pair, t, dt, id)[c], pair[c])
  <1>1. ASSUME NEW k \in ContainerStates, NEW n
        PROVE  Kept(ReleaseElements(k, t, dt, n), k)
    BY DEF ReleaseElements, ContainerStates, Kept
  <1> QED
    BY <1>1 DEF ReleasePair

LEMMA StepPairKeeps ==
    ASSUME NEW pair \in [Containers -> ContainerStates], NEW f, NEW g, NEW ts
    PROVE  \A c \in Containers : Kept(StepPair(pair, f, g, ts)[c], pair[c])
  <1>1. ASSUME NEW k \in ContainerStates, NEW h
        PROVE  Kept(StepContainer(k, h, ts), k)
    BY DEF StepContainer, ContainerStates, Kept
  <1> QED
    BY <1>1 DEF StepPair

LEMMA StepZeroUniform ==
    ASSUME TypeInv, Uniform, StepZero
    PROVE  Uniform'
  <1> DEFINE ready == SetupPair(sc)
  <1>1. /\ sc \in [Containers -> ContainerStates] /\ TypeOK
        /\ Live \subseteq Containers /\ Live' = Live /\ time_step' = time_step
        /\ AllOn(sc)
    BY LiveContainers DEF TypeInv, TypeOK, StepZero, Live, Uniform, AllOn
  <1>2. sc' = ReleasePair(ready, start_time, 0, next_id)
        /\ ~SetupRaises(SetupBase(sc))
    BY DEF StepZero
  <1>3. /\ ready \in [Containers -> ContainerStates]
        /\ AllOn(ready)
        /\ \A c \in Live : \A s \in Members(ready[c]) :
               ready[c].prepared[s] = time_step
    BY <1>1, <1>2, SetupPairType, SetupPairUniform
  <1> HIDE DEF ready
  <1>4. \A c \in Containers : Kept(sc'[c], ready[c])
    BY <1>2, <1>3, ReleasePairKeeps
  <1> QED
    BY <1>1, <1>3, <1>4 DEF Uniform, AllOn, Kept, Members

LEMMA StepOnUniform ==
    ASSUME TypeInv, Uniform, StepOn
    PROVE  Uniform'
  <1> DEFINE half  == time_step \div 2
             later == ModelTime + time_step
             pair  == ReleasePair(sc, ModelTime, half, next_id)
             id    == NextIdAfter(sc, ModelTime, half, next_id)
  <1>1. /\ half \in Nat /\ ModelTime \in Int
        /\ time_step \in Nat /\ next_id \in Nat
        /\ sc \in [Containers -> ContainerStates]
        /\ Live \subseteq Containers
    BY ClockTypes, LiveContainers DEF TypeInv, TypeOK
  <1>2. PICK f \in MoveOutcomes(pair["forecast"]),
             g \in MoveOutcomes(pair["uncertain"]) :
            sc' = ReleasePair(StepPair(pair, f, g, time_step), later, 0, id)
    BY DEF StepOn
  <1>3. Live' = Live /\ time_step' = time_step /\ current_time_step >= 0
    BY DEF StepOn, edited, Live
  <1> HIDE DEF half, later, id
  <1>4. pair \in [Containers -> ContainerStates]
        /\ \A c \in Containers : Kept(pair[c], sc[c])
    BY <1>1, ReleasePairType, ReleasePairKeeps
  <1> HIDE DEF pair
  <1> DEFINE moved == StepPair(pair, f, g, time_step)
  <1>5. moved \in [Containers -> ContainerStates]
        /\ \A c \in Containers : Kept(moved[c], pair[c])
    BY <1>1, <1>2, <1>4, StepPairType, StepPairKeeps
  <1>6. sc' = ReleasePair(moved, later, 0, id)
    BY <1>2
  <1> HIDE DEF moved
  <1>7. \A c \in Containers : Kept(sc'[c], sc[c])
    BY <1>4, <1>5, <1>6, ReleasePairKeeps DEF Kept
  <1> QED
    BY <1>1, <1>3, <1>7 DEF Uniform, Kept, Members

\* An action after which the model stands at step -1.
LEMMA RewoundUniform ==
    ASSUME AllOn(sc'), current_time_step' = -1
    PROVE  Uniform'
  BY DEF AllOn, Uniform

LEMMA UniformNext ==
    ASSUME SteadyCaller
    PROVE  TypeInv /\ Uniform /\ [Next]_vars => Uniform'
  <1> SUFFICES ASSUME TypeInv, Uniform, [Next]_vars PROVE Uniform'
    OBVIOUS
  <1>1. /\ sc \in [Containers -> ContainerStates] /\ TypeOK /\ AllOn(sc)
        /\ sc["forecast"] \in ContainerStates
        /\ sc["uncertain"] \in ContainerStates
        /\ current_time_step \in Nat \cup {-1}
    BY DEF TypeInv, TypeOK, Uniform, AllOn, Containers
  <1>2. ASSUME UNCHANGED <<current_time_step, sc, uncertain, time_step>>
        PROVE  Uniform'
    BY <1>2 DEF Uniform, Live
  <1>3. ASSUME Rewind
        PROVE  Uniform'
    BY <1>1, <1>3, RewindPairOn, RewoundUniform DEF Rewind
  <1>4. CASE StepFails
    BY <1>1, <1>4, SetupPairUniform, RewoundUniform DEF StepFails
  <1>5. CASE StepZero \/ StepOn
    BY <1>5, StepZeroUniform, StepOnUniform
  <1>6. CASE StepPastEnd \/ UNCHANGED vars
    BY <1>2, <1>6 DEF StepPastEnd, vars, edited, run
  <1>7. ASSUME NEW rewind \in BOOLEAN, FullRun(rewind)
        PROVE  Uniform'
    <2> DEFINE pair == IF rewind THEN RewindPair(sc, uncertain) ELSE sc
    <2>1. pair \in [Containers -> ContainerStates] /\ AllOn(pair)
      BY <1>1, RewindPairType, RewindPairOn
    <2>2. sc' = SetupPair(pair) /\ current_time_step' = -1
      BY <1>7 DEF FullRun, SteadyCaller
    <2> HIDE DEF pair
    <2> QED
      BY <1>1, <2>1, <2>2, SetupPairUniform, RewoundUniform
  <1>8. ASSUME NEW b \in UncertainModes, SetUncertain(b)
        PROVE  Uniform'
    <2> DEFINE other == IF b THEN UncertainCopy(sc["forecast"])
                        ELSE EmptyContainer
               pair  == [sc EXCEPT !["uncertain"] = other]
    <2>1. other \in ContainerStates
      BY <1>1, UncertainCopyType, EmptyType
    <2>2. \A s \in Spills : other.on[s]
      BY <1>1, CopyFacts DEF AllOn, Containers, UncertainCopy, EmptyContainer
    <2>3. sc' = RewindPair(pair, b) /\ current_time_step' = -1
      BY <1>8 DEF SetUncertain
    <2> HIDE DEF other
    <2>4. pair \in [Containers -> ContainerStates] /\ AllOn(pair)
      BY <1>1, <2>1, <2>2 DEF AllOn
    <2> HIDE DEF pair
    <2> QED
      BY <2>3, <2>4, RewindPairOn, RewoundUniform
  <1>9. ASSUME NEW s \in Originals, AddSpill(s)
        PROVE  Uniform'
    <2>1. /\ \A r \in Spills : sc'["forecast"].on[r]
          /\ \A r \in Spills : sc'["uncertain"].on[r]
      <3>1. /\ s \in Spills
            /\ WithSpill(sc["forecast"], s).on = sc["forecast"].on
        BY <1>1 DEF Originals, WithSpill, ContainerStates
      <3> QED
        BY <1>1, <1>9, <3>1
           DEF AddSpill, AddToPair, AllOn, Containers, ContainerStates
    <2>2. current_time_step' = -1
      BY <1>9 DEF AddSpill, SteadyCaller
    <2> QED
      BY <2>1, <2>2, RewoundUniform DEF AllOn, Containers
  <1>10. ASSUME NEW i \in DOMAIN sc["forecast"].spills, RemoveSpill(i)
         PROVE  Uniform'
    <2>1. /\ \A r \in Spills : sc'["forecast"].on[r]
          /\ \A r \in Spills : sc'["uncertain"].on[r]
      BY <1>1, <1>10
         DEF RemoveSpill, RemoveFromPair, AllOn, Containers, ContainerStates
    <2>2. current_time_step' = -1
      BY <1>10 DEF RemoveSpill, SteadyCaller
    <2> QED
      BY <2>1, <2>2, RewoundUniform DEF AllOn, Containers
  <1>11. CASE Edit
    <2>1. ASSUME NEW d \in Durations, SetDuration(d)
          PROVE  Uniform'
      BY <1>2, <1>3, <2>1 DEF SetDuration, run
    <2>2. ASSUME \E w \in Weatherers : RemoveWeatherer(w)
          PROVE  Uniform'
      BY <1>2, <2>2 DEF RemoveWeatherer, run
    <2>3. ~\E s \in Members(sc["forecast"]) : SwitchSpill(s)
      BY DEF SwitchSpill, SteadyCaller
    <2> QED
      BY <1>3, <1>8, <1>9, <1>10, <1>11, <2>1, <2>2, <2>3
         DEF Edit, SetStartTime, SetTimeStep, AddMover, RemoveMover,
             AddWeatherer
  <1> QED
    BY <1>4, <1>5, <1>6, <1>7, <1>11 DEF Next, Step

\* Spill by spill: the schedule of a copy is that of its spill.
LEMMA MirrorsFromSchedule ==
    ASSUME "again" \notin Caller, ScheduleInv, Uniform
    PROVE  UncertainMirrors
  <1> DEFINE forecast == sc["forecast"]
             copies == sc["uncertain"]
  <1> SUFFICES ASSUME uncertain
               PROVE  /\ Len(copies.spills) = Len(forecast.spills)
                      /\ \A i \in DOMAIN forecast.spills :
                            /\ SpillOf[copies.spills[i]] = forecast.spills[i]
                            /\ copies.num_released[copies.spills[i]]
                                   = forecast.num_released[forecast.spills[i]]
    BY DEF UncertainMirrors
  <1>1. /\ Len(copies.spills) = Len(forecast.spills)
        /\ \A i \in DOMAIN forecast.spills :
              SpillOf[copies.spills[i]] = forecast.spills[i]
        /\ Live = {"forecast", "uncertain"}
        /\ forecast \in ContainerStates /\ copies \in ContainerStates
        /\ current_time_step \in Nat \cup {-1}
    BY DEF ScheduleInv, IInv, TypeInv, TypeOK, Paired, Matched, Live, Containers
  <1> HIDE DEF forecast, copies
  <1>2. SUFFICES ASSUME NEW i \in DOMAIN forecast.spills
                 PROVE  copies.num_released[copies.spills[i]]
                            = forecast.num_released[forecast.spills[i]]
    BY <1>1
  <1>3. /\ forecast.spills[i] \in Members(forecast)
        /\ forecast.spills[i] \in Spills
    BY <1>1, SpillsOfContainer
  <1>4. /\ copies.spills[i] \in Members(copies)
        /\ copies.spills[i] \in Spills
    <2>1. i \in DOMAIN copies.spills
      BY <1>1, SpillsOfContainer
    <2> QED
      BY <1>1, <2>1, SpillsOfContainer
  <1>5. CASE current_time_step = -1
    BY <1>1, <1>3, <1>4, <1>5
       DEF ScheduleInv, IInv, Afresh, forecast, copies
  <1>6. CASE current_time_step >= 0
    <2>1. ReleaseOf[copies.spills[i]] = ReleaseOf[forecast.spills[i]]
      BY <1>1, <1>4, CopyAssumption
    <2>2. /\ copies.on[copies.spills[i]] /\ forecast.on[forecast.spills[i]]
          /\ copies.prepared[copies.spills[i]] = time_step
          /\ forecast.prepared[forecast.spills[i]] = time_step
      BY <1>1, <1>3, <1>4, <1>6 DEF Uniform, Containers, forecast, copies
    <2> QED
      BY <1>1, <1>3, <1>4, <1>6, <2>1, <2>2
         DEF ScheduleInv, ReleasedOnSchedule, forecast, copies
  <1> QED
    BY <1>1, <1>5, <1>6

\* The uncertain container holds copies of the forecast spills in the same
\* order and has released as many elements of each, whatever is added,
\* removed, rewound or made uncertain between runs, by a caller that adds no
\* spill a second time: the copy of a spill added twice has no counterpart.
THEOREM CopiesMirror ==
    ASSUME SteadyCaller, "again" \notin Caller
    PROVE  Spec => []UncertainMirrors
  <1>1. Init => ScheduleInv
    <2>1. Init => ReleasedOnSchedule
      BY DEF Init, ReleasedOnSchedule
    <2> QED
      BY <2>1, IInvInit DEF ScheduleInv
  <1>2. ScheduleInv /\ [Next]_vars => ScheduleInv'
    BY ScheduleNext
  <1>3. Init => Uniform
    BY DEF Init, Uniform, EmptyContainer
  <1>4. ScheduleInv => TypeInv
    BY DEF ScheduleInv, IInv
  <1>5. TypeInv /\ Uniform /\ [Next]_vars => Uniform'
    BY UniformNext
  <1>6. ScheduleInv /\ Uniform => UncertainMirrors
    BY MirrorsFromSchedule
  <1> QED
    BY <1>1, <1>2, <1>3, <1>4, <1>5, <1>6, PTL DEF Spec

-----------------------------------------------------------------------------
(* Ages                                                                    *)

Aging(k, t) ==
    \A e \in k.elements :
        /\ e.age <= t - ReleaseOf[e.owner].begin
        /\ \A f \in k.elements :
               e.owner = f.owner /\ e.ord < f.ord => e.age >= f.age

\* Nothing is released before its spill's release time.
LEMMA NewElementsAge ==
    ASSUME NEW k \in ContainerStates, NEW t \in Int, NEW dt \in Nat,
           NEW id \in Nat, NEW e \in NewElements(k, t, dt, id)
    PROVE  /\ e.age = 0 /\ e.owner \in Spills
           /\ e.ord \in Nat /\ e.ord > k.num_released[e.owner]
           /\ t - ReleaseOf[e.owner].begin \in Nat
  <1>1. e.age = 0
    BY DEF NewElements
  <1>2. PICK i \in DOMAIN k.spills :
            /\ e.owner = k.spills[i]
            /\ e.ord \in (k.num_released[k.spills[i]] + 1)
                             .. ExpectedRelease(k, k.spills[i], t, dt)
    BY NewElementsOwners
  <1> DEFINE s == k.spills[i]
             r == ReleaseOf[s]
  <1>3. /\ s \in Spills /\ k.num_released[s] \in Nat /\ k.prepared[s] \in Nat
        /\ ExpectedRelease(k, s, t, dt) \in Nat
        /\ IsRelease(r)
    BY SpillsOfContainer, ContainerFields, ExpectedGrows, ReleaseAssumption
  <1>4. e.ord \in Nat /\ e.ord > k.num_released[s]
        /\ ExpectedRelease(k, s, t, dt) > k.num_released[s]
    BY <1>2, <1>3
  <1>5. /\ NumElementsAfterTime(r, k.prepared[s], t, dt) \in Nat
        /\ NumElementsAfterTime(r, k.prepared[s], t, dt) # 0
    <2>1. NumElementsAfterTime(r, k.prepared[s], t, dt) \in Nat
      BY <1>3, NumElementsNat
    <2> HIDE DEF s, r
    <2>2. NumElementsAfterTime(ReleaseOf[s], k.prepared[s], t, dt) # 0
      BY <1>3, <1>4 DEF ExpectedRelease
    <2> QED
      BY <2>1, <2>2 DEF r
  <1>6. ~(t < r.begin)
    BY <1>5 DEF NumElementsAfterTime
  <1>7. r.begin \in Int
    BY <1>3 DEF IsRelease
  <1> QED
    BY <1>1, <1>2, <1>3, <1>4, <1>6, <1>7

LEMMA ReleaseAging ==
    ASSUME NEW k \in ContainerStates, NEW t \in Int, NEW dt \in Nat,
           NEW id \in Nat, Sound(k), Aging(k, t)
    PROVE  Aging(ReleaseElements(k, t, dt, id), t)
  <1> DEFINE next == ReleaseElements(k, t, dt, id)
             new  == NewElements(k, t, dt, id)
  <1>1. next.elements = k.elements \cup new
    BY DEF ReleaseElements, ContainerStates
  <1>2. ASSUME NEW e \in new
        PROVE  /\ e.age = 0 /\ e.owner \in Spills
               /\ e.ord \in Nat /\ e.ord > k.num_released[e.owner]
               /\ 0 <= t - ReleaseOf[e.owner].begin
    BY NewElementsAge
  <1>3. ASSUME NEW e \in k.elements
        PROVE  /\ e.age \in Nat /\ e.ord \in Nat
               /\ k.num_released[e.owner] \in Nat
               /\ e.ord <= k.num_released[e.owner]
    <2>1. e.owner \in Spills /\ e.age \in Nat /\ e.ord \in Nat
      BY ContainerFields DEF Elements
    <2>2. k.num_released[e.owner] \in Nat
      BY <2>1, ContainerFields
    <2>3. e.ord \in Ordinals(k, e.owner)
      BY DEF Ordinals
    <2>4. e.ord \in 1 .. k.num_released[e.owner]
      BY <2>1, <2>3 DEF Sound, Accounted
    <2> QED
      BY <2>1, <2>2, <2>4
  <1> HIDE DEF next, new
  <1>4. \A e \in next.elements : e.age <= t - ReleaseOf[e.owner].begin
    BY <1>1, <1>2 DEF Aging
  <1>5. ASSUME NEW e \in next.elements, NEW f \in next.elements,
               e.owner = f.owner, e.ord < f.ord
        PROVE  e.age >= f.age
    <2>1. CASE e \in k.elements /\ f \in k.elements
      BY <1>5, <2>1 DEF Aging
    <2>2. CASE f \in new
      BY <1>1, <1>2, <1>3, <2>2
    <2>3. CASE e \in new /\ f \in k.elements
      BY <1>2, <1>3, <1>5, <2>3
    <2> QED
      BY <1>1, <2>1, <2>2, <2>3
  <1>6. Aging(next, t)
    BY <1>4, <1>5 DEF Aging
  <1> QED
    BY <1>6 DEF next

LEMMA StepAging ==
    ASSUME NEW k \in ContainerStates, NEW h, NEW ts \in Nat,
           NEW t \in Int, Aging(k, t)
    PROVE  Aging(StepContainer(k, h, ts), t + ts)
  <1> DEFINE next == StepContainer(k, h, ts)
             moved(x) == [[x EXCEPT !.status = h[x]] EXCEPT !.age = @ + ts]
  <1>1. \A e \in next.elements : \E x \in k.elements : e = moved(x)
    <2>1. next.elements = Aged(Remaining(k, h), ts)
      BY DEF StepContainer, ContainerStates
    <2> QED
      BY <2>1 DEF Aged, Remaining
  <1>2. \A x \in k.elements :
            /\ moved(x).owner = x.owner /\ moved(x).ord = x.ord
            /\ moved(x).age = x.age + ts
            /\ x.age \in Nat /\ x.owner \in Spills
    BY ContainerFields DEF Elements
  <1>3. \A s \in Spills : ReleaseOf[s].begin \in Int
    BY ReleaseAssumption DEF IsRelease
  <1> HIDE DEF next, moved
  <1>4. ASSUME NEW e \in next.elements
        PROVE  e.age <= (t + ts) - ReleaseOf[e.owner].begin
    <2>1. PICK x \in k.elements : e = moved(x)
      BY <1>1
    <2>2. x.age <= t - ReleaseOf[x.owner].begin
      BY DEF Aging
    <2> QED
      BY <1>2, <1>3, <2>1, <2>2
  <1>5. ASSUME NEW e \in next.elements, NEW g \in next.elements,
               e.owner = g.owner, e.ord < g.ord
        PROVE  e.age >= g.age
    <2>1. PICK x \in k.elements : e = moved(x)
      BY <1>1
    <2>2. PICK y \in k.elements : g = moved(y)
      BY <1>1
    <2>3. x.age >= y.age
      BY <1>2, <1>5, <2>1, <2>2 DEF Aging
    <2> QED
      BY <1>2, <2>1, <2>2, <2>3
  <1>6. Aging(next, t + ts)
    BY <1>4, <1>5 DEF Aging
  <1> QED
    BY <1>6 DEF next

LEMMA ReleasePairAging ==
    ASSUME NEW pair \in [Containers -> ContainerStates],
           NEW t \in Int, NEW dt \in Nat, NEW id \in Nat,
           NEW L \in SUBSET Containers,
           \A c \in L : Sound(pair[c]) /\ Aging(pair[c], t)
    PROVE  \A c \in L : Aging(ReleasePair(pair, t, dt, id)[c], t)
  <1>1. id + NumNew(pair["forecast"], t, dt) \in Nat
    BY NumNewNat DEF Containers
  <1>2. ASSUME NEW c \in L, NEW n \in Nat
        PROVE  Aging(ReleaseElements(pair[c], t, dt, n), t)
    BY ReleaseAging
  <1> QED
    BY <1>1, <1>2 DEF ReleasePair

LEMMA StepPairAging ==
    ASSUME NEW pair \in [Containers -> ContainerStates], NEW ts \in Nat,
           NEW f, NEW g, NEW L \in SUBSET Containers, NEW t \in Int,
           \A c \in L : Aging(pair[c], t)
    PROVE  \A c \in L : Aging(StepPair(pair, f, g, ts)[c], t + ts)
  <1>1. ASSUME NEW c \in L, NEW h
        PROVE  Aging(StepContainer(pair[c], h, ts), t + ts)
    BY StepAging
  <1> QED
    BY <1>1 DEF StepPair

LEMMA StepZeroAging ==
    ASSUME IInv, StepZero
    PROVE  AgesFollowRelease'
  <1> DEFINE ready == SetupPair(sc)
  <1>1. /\ sc \in [Containers -> ContainerStates] /\ TypeOK
        /\ Live \subseteq Containers /\ Live' = Live
        /\ start_time \in Int /\ time_step \in Int /\ next_id \in Nat
    BY ClockTypes, LiveContainers
       DEF IInv, TypeInv, TypeOK, StepZero, Live
  <1>2. sc' = ReleasePair(ready, start_time, 0, next_id)
    BY DEF StepZero
  <1>3. ModelTime' = start_time
    BY <1>1 DEF StepZero, ModelTime
  <1>4. /\ ready \in [Containers -> ContainerStates]
        /\ \A c \in Live : Afresh(ready[c])
    BY <1>1, SetupPairType, SetupPairAfresh DEF IInv, TypeInv, Paired, StepZero
  <1> HIDE DEF ready
  <1>5. \A c \in Live : Sound(ready[c]) /\ Aging(ready[c], start_time)
    BY <1>1, <1>4, AfreshIsSound DEF Afresh, Aging
  <1>6. \A c \in Live : Aging(sc'[c], start_time)
    BY <1>1, <1>2, <1>4, <1>5, ReleasePairAging
  <1> QED
    BY <1>1, <1>3, <1>6 DEF Aging, AgesFollowRelease

LEMMA StepOnAging ==
    ASSUME IInv, AgesFollowRelease, StepOn
    PROVE  AgesFollowRelease'
  <1> DEFINE half  == time_step \div 2
             later == ModelTime + time_step
             pair  == ReleasePair(sc, ModelTime, half, next_id)
             id    == NextIdAfter(sc, ModelTime, half, next_id)
  <1>1. /\ half \in Nat /\ later \in Int /\ ModelTime \in Int
        /\ time_step \in Nat /\ next_id \in Nat
        /\ sc \in [Containers -> ContainerStates]
        /\ Live \subseteq Containers
        /\ start_time \in Int /\ current_time_step \in Int
    BY ClockTypes, LiveContainers DEF IInv, TypeInv, TypeOK
  <1>2. PICK f \in MoveOutcomes(pair["forecast"]),
             g \in MoveOutcomes(pair["uncertain"]) :
            sc' = ReleasePair(StepPair(pair, f, g, time_step), later, 0, id)
    BY DEF StepOn
  <1>3. Live' = Live
    BY DEF StepOn, edited, Live
  <1>4. ModelTime' = later
    <2>1. ModelTime' = start_time + (current_time_step + 1) * time_step
      BY DEF StepOn, edited, ModelTime
    <2> QED
      BY <1>1, <2>1 DEF ModelTime
  <1>5. \A c \in Live : Sound(sc[c]) /\ Aging(sc[c], ModelTime)
    BY DEF IInv, AgesFollowRelease, Aging
  <1> HIDE DEF half
  <1>6. pair \in [Containers -> ContainerStates] /\ id \in Nat
    BY <1>1, ReleasePairType
  <1>7. \A c \in Live : Sound(pair[c]) /\ Aging(pair[c], ModelTime)
    BY <1>1, <1>5, ReleasePairSound, ReleasePairAging
  <1> HIDE DEF pair, id
  <1> DEFINE moved == StepPair(pair, f, g, time_step)
  <1>8. moved \in [Containers -> ContainerStates]
    BY <1>1, <1>2, <1>6, StepPairType
  <1>9. \A c \in Live : Sound(moved[c]) /\ Aging(moved[c], later)
    BY <1>1, <1>2, <1>6, <1>7, StepPairSound, StepPairAging
  <1>10. sc' = ReleasePair(moved, later, 0, id)
    BY <1>2
  <1> HIDE DEF moved, later
  <1>11. \A c \in Live : Aging(sc'[c], later)
    BY <1>1, <1>6, <1>8, <1>9, <1>10, ReleasePairAging
  <1> QED
    BY <1>3, <1>4, <1>11 DEF Aging, AgesFollowRelease

LEMMA AgesNext ==
    ASSUME PlainCaller
    PROVE  IInv /\ AgesFollowRelease /\ [Next]_vars => AgesFollowRelease'
  <1> SUFFICES ASSUME IInv, AgesFollowRelease, [Next]_vars
               PROVE  AgesFollowRelease'
    OBVIOUS
  <1>1. ASSUME \A c \in Live' : Afresh(sc'[c])
        PROVE  AgesFollowRelease'
    BY <1>1 DEF AgesFollowRelease, Afresh
  <1>2. ASSUME \A c \in Live' : sc'[c].elements = sc[c].elements,
               UNCHANGED <<current_time_step, uncertain, start_time,
                           time_step>>
        PROVE  AgesFollowRelease'
    <2>1. Live' = Live /\ ModelTime' = ModelTime
      BY <1>2 DEF Live, ModelTime
    <2> QED
      BY <1>2, <2>1 DEF AgesFollowRelease
  <1>3. CASE StepFails
    BY <1>1, <1>3, StepFailsAccounts
  <1>4. CASE StepZero \/ StepOn
    BY <1>4, StepZeroAging, StepOnAging
  <1>5. CASE StepPastEnd \/ UNCHANGED vars
    BY <1>2, <1>5 DEF StepPastEnd, vars, edited, run
  <1>6. CASE \E rewind \in BOOLEAN : FullRun(rewind)
    BY <1>1, <1>6, FullRunAccounts
  <1>7. CASE Edit
    <2>1. ASSUME \/ Rewind /\ UNCHANGED edited
                 \/ \E t \in StartTimes : SetStartTime(t)
                 \/ \E ts \in TimeSteps : SetTimeStep(ts)
                 \/ \E m \in Movers : AddMover(m) \/ RemoveMover(m)
                 \/ \E w \in Weatherers : AddWeatherer(w)
          PROVE  AgesFollowRelease'
      <3>1. Rewind /\ uncertain' = uncertain
        BY <2>1 DEF edited, SetStartTime, SetTimeStep, AddMover, RemoveMover,
                    AddWeatherer
      <3> QED
        BY <1>1, <3>1, RewindAccounts
    <2>2. ASSUME NEW d \in Durations, SetDuration(d)
          PROVE  AgesFollowRelease'
      BY <1>1, <1>2, <2>2, RewindAccounts DEF SetDuration, run
    <2>3. ASSUME NEW b \in UncertainModes, SetUncertain(b)
          PROVE  AgesFollowRelease'
      BY <1>1, <2>3, SetUncertainAccounts
    <2>4. ASSUME \E w \in Weatherers : RemoveWeatherer(w)
          PROVE  AgesFollowRelease'
      BY <1>2, <2>4 DEF RemoveWeatherer, run
    <2>5. ASSUME NEW i \in DOMAIN sc["forecast"].spills, RemoveSpill(i)
          PROVE  AgesFollowRelease'
      BY <1>1, <2>5, RemoveSpillAccounts
    <2>6. ASSUME \/ \E s \in Originals : AddSpill(s)
                 \/ \E s \in Members(sc["forecast"]) : SwitchSpill(s)
          PROVE  AgesFollowRelease'
      <3>1. /\ sc["forecast"] \in ContainerStates
            /\ sc["uncertain"] \in ContainerStates
            /\ sc \in [Containers -> ContainerStates]
        BY DEF IInv, TypeInv, TypeOK, Containers
      <3>2. /\ UNCHANGED <<current_time_step, uncertain, start_time,
                           time_step>>
            /\ Live' \subseteq Containers
        BY <2>6 DEF AddSpill, SwitchSpill, edited, Live, Containers
      <3>3. ASSUME NEW s \in Originals, AddSpill(s)
            PROVE  \A c \in Containers : sc'[c].elements = sc[c].elements
        BY <3>1, <3>3 DEF AddSpill, AddToPair, WithSpill, ContainerStates, Containers
      <3>4. ASSUME NEW s \in Members(sc["forecast"]), SwitchSpill(s)
            PROVE  \A c \in Containers : sc'[c].elements = sc[c].elements
        BY <3>1, <3>4 DEF SwitchSpill, ContainerStates, Containers
      <3> QED
        BY <1>2, <2>6, <3>2, <3>3, <3>4
    <2> QED
      BY <1>7, <2>1, <2>2, <2>3, <2>4, <2>5, <2>6 DEF Edit
  <1> QED
    BY <1>3, <1>4, <1>5, <1>6, <1>7 DEF Next, Step

\* No element is older than its release, and of two elements of a spill the
\* one released first is at least as old, in both containers.
THEOREM AgesAreOrdered ==
    ASSUME PlainCaller
    PROVE  Spec => []AgesFollowRelease
  <1>1. Init => AgesFollowRelease
    BY DEF Init, AgesFollowRelease, Live, EmptyContainer, Containers
  <1>2. IInv /\ [Next]_vars => IInv'
    BY IInvNext
  <1>3. IInv /\ AgesFollowRelease /\ [Next]_vars => AgesFollowRelease'
    BY AgesNext
  <1> QED
    BY <1>1, <1>2, <1>3, IInvInit, PTL DEF Spec

-----------------------------------------------------------------------------
(* Elements persist                                                        *)

\* The element of the new arrays that e has become, ts seconds later.
Successor(e, f, ts) ==
    /\ f.id = e.id /\ f.owner = e.owner /\ f.ord = e.ord
    /\ f.spill_num = e.spill_num
    /\ f.age = e.age + ts

\* Container m holds what k held, ts seconds later, but for what is lost.
Carries(k, m, ts) ==
    \A e \in k.elements : \/ <<e.owner, e.ord>> \in m.gone
                          \/ \E f \in m.elements : Successor(e, f, ts)

LEMMA SameCarries ==
    ASSUME NEW k \in ContainerStates, NEW m, m.elements = k.elements
    PROVE  Carries(k, m, 0)
  <1>1. \A e \in k.elements : e.age + 0 = e.age
    BY ContainerFields DEF Elements
  <1> QED
    BY <1>1 DEF Carries, Successor

LEMMA ReleaseCarries ==
    ASSUME NEW k \in ContainerStates, NEW t, NEW dt, NEW id
    PROVE  /\ k.elements \subseteq ReleaseElements(k, t, dt, id).elements
           /\ ReleaseElements(k, t, dt, id).gone = k.gone
  BY DEF ReleaseElements, ContainerStates

LEMMA StepCarries ==
    ASSUME NEW k \in ContainerStates, NEW h, NEW ts
    PROVE  Carries(k, StepContainer(k, h, ts), ts)
  <1> DEFINE next == StepContainer(k, h, ts)
             stay == k.elements \ OffMaps(k, h)
             moved(x) == [[x EXCEPT !.status = h[x]] EXCEPT !.age = @ + ts]
  <1>1. /\ next.elements = {moved(x) : x \in stay}
        /\ next.gone = k.gone \cup {<<e.owner, e.ord>> : e \in OffMaps(k, h)}
    <2>1. Aged(Remaining(k, h), ts) = {moved(x) : x \in stay}
      BY DEF Aged, Remaining
    <2> QED
      BY <2>1 DEF StepContainer, ContainerStates
  <1>2. \A x \in k.elements : Successor(x, moved(x), ts)
    BY ContainerFields DEF Elements, Successor
  <1> HIDE DEF next, moved
  <1>3. Carries(k, next, ts)
    BY <1>1, <1>2 DEF Carries
  <1> QED
    BY <1>3 DEF next

LEMMA StepOnCarries ==
    ASSUME TypeInv, StepOn
    PROVE  \A c \in Containers : Carries(sc[c], sc'[c], time_step)
  <1> DEFINE half  == time_step \div 2
             later == ModelTime + time_step
             pair  == ReleasePair(sc, ModelTime, half, next_id)
             id    == NextIdAfter(sc, ModelTime, half, next_id)
  <1>1. /\ half \in Nat /\ ModelTime \in Int
        /\ time_step \in Nat /\ next_id \in Nat
        /\ sc \in [Containers -> ContainerStates]
    BY ClockTypes DEF TypeInv, TypeOK
  <1>2. PICK f \in MoveOutcomes(pair["forecast"]),
             g \in MoveOutcomes(pair["uncertain"]) :
            sc' = ReleasePair(StepPair(pair, f, g, time_step), later, 0, id)
    BY DEF StepOn
  <1> HIDE DEF half, later, id
  <1>3. pair \in [Containers -> ContainerStates]
    BY <1>1, ReleasePairType
  <1>4. \A c \in Containers : sc[c].elements \subseteq pair[c].elements
    BY <1>1, ReleaseCarries DEF ReleasePair
  <1> HIDE DEF pair
  <1> DEFINE moved == StepPair(pair, f, g, time_step)
  <1>5. moved \in [Containers -> ContainerStates]
    BY <1>1, <1>2, <1>3, StepPairType
  <1>6. \A c \in Containers : Carries(pair[c], moved[c], time_step)
    BY <1>3, StepCarries DEF StepPair
  <1>7. sc' = ReleasePair(moved, later, 0, id)
    BY <1>2
  <1> HIDE DEF moved
  <1>8. \A c \in Containers : /\ moved[c].elements \subseteq sc'[c].elements
                              /\ sc'[c].gone = moved[c].gone
    BY <1>5, <1>7, ReleaseCarries DEF ReleasePair
  <1> QED
    BY <1>4, <1>6, <1>8 DEF Carries

Elapsed == (current_time_step' - current_time_step) * time_step

LEMMA NextCarries ==
    ASSUME "resume" \notin Caller, TypeInv, [Next]_vars,
           current_time_step >= 0, current_time_step' >= 0
    PROVE  \A c \in Live : Carries(sc[c], sc'[c], Elapsed)
  <1>1. /\ sc \in [Containers -> ContainerStates] /\ Live \subseteq Containers
        /\ current_time_step \in Int /\ time_step \in Int
        /\ sc["forecast"] \in ContainerStates
        /\ sc["uncertain"] \in ContainerStates
    BY ClockTypes, LiveContainers DEF TypeInv, TypeOK, Containers
  <1>2. ASSUME \A c \in Containers : sc'[c].elements = sc[c].elements,
               current_time_step' = current_time_step
        PROVE  \A c \in Live : Carries(sc[c], sc'[c], Elapsed)
    <2>1. Elapsed = 0
      BY <1>1, <1>2 DEF Elapsed
    <2> QED
      BY <1>1, <1>2, <2>1, SameCarries
  <1>3. current_time_step # -1 /\ current_time_step' # -1
    BY <1>1
  <1>4. CASE StepFails \/ StepZero
    BY <1>3, <1>4 DEF StepFails, StepZero
  <1>5. CASE StepOn
    <2>1. Elapsed = time_step
      BY <1>1, <1>5 DEF StepOn, Elapsed
    <2> QED
      BY <1>1, <1>5, <2>1, StepOnCarries
  <1>6. CASE StepPastEnd \/ UNCHANGED vars
    BY <1>2, <1>6 DEF StepPastEnd, vars, edited, run
  <1>7. CASE \E rewind \in BOOLEAN : FullRun(rewind)
    BY <1>3, <1>7 DEF FullRun
  <1>8. CASE Edit
    <2>1. CASE \/ Rewind /\ UNCHANGED edited
               \/ \E t \in StartTimes : SetStartTime(t)
               \/ \E ts \in TimeSteps : SetTimeStep(ts)
               \/ \E b \in UncertainModes : SetUncertain(b)
               \/ \E m \in Movers : AddMover(m) \/ RemoveMover(m)
               \/ \E w \in Weatherers : AddWeatherer(w)
      BY <1>3, <2>1 DEF SetStartTime, SetTimeStep, SetUncertain, AddMover,
                        RemoveMover, AddWeatherer, Rewind
    <2>2. ASSUME \/ \E d \in Durations : SetDuration(d)
                 \/ \E w \in Weatherers : RemoveWeatherer(w)
          PROVE  UNCHANGED <<sc, current_time_step>>
      BY <1>3, <2>2 DEF SetDuration, RemoveWeatherer, Rewind, run
    <2>3. ASSUME NEW s \in Originals, AddSpill(s)
          PROVE  \A c \in Containers : sc'[c].elements = sc[c].elements
      BY <1>1, <2>3 DEF AddSpill, AddToPair, WithSpill, ContainerStates, Containers
    <2>4. ASSUME NEW i \in DOMAIN sc["forecast"].spills, RemoveSpill(i)
          PROVE  \A c \in Containers : sc'[c].elements = sc[c].elements
      BY <1>1, <2>4
         DEF RemoveSpill, RemoveFromPair, ContainerStates, Containers
    <2>5. ASSUME NEW s \in Members(sc["forecast"]), SwitchSpill(s)
          PROVE  \A c \in Containers : sc'[c].elements = sc[c].elements
      BY <1>1, <2>5 DEF SwitchSpill, ContainerStates, Containers
    <2>6. CASE \/ \E s \in Originals : AddSpill(s)
               \/ \E i \in DOMAIN sc["forecast"].spills : RemoveSpill(i)
               \/ \E s \in Members(sc["forecast"]) : SwitchSpill(s)
      <3>1. current_time_step' = current_time_step
        BY <2>6 DEF AddSpill, RemoveSpill, SwitchSpill
      <3> QED
        BY <1>2, <2>3, <2>4, <2>5, <2>6, <3>1
    <2> QED
      BY <1>2, <1>8, <2>1, <2>2, <2>6 DEF Edit
  <1> QED
    BY <1>4, <1>5, <1>6, <1>7, <1>8 DEF Next, Step

\* Between two steps of a run no edit, release or removal disturbs an
\* element: it keeps its id, its owner and its place, ages with the clock,
\* and leaves only over the map's edge, for every caller that does not
\* resume a run with full_run(rewind=False).
THEOREM ElementsDoPersist ==
    ASSUME "resume" \notin Caller
    PROVE  Spec => ElementsPersist
  <1>1. TypeInv /\ [Next]_vars => ElementsCarriedOn
    <2> SUFFICES ASSUME TypeInv, [Next]_vars, current_time_step >= 0,
                        current_time_step' >= 0
                 PROVE  ElementsCarriedOn
      BY DEF ElementsCarriedOn
    <2>1. \A c \in Live : Carries(sc[c], sc'[c], Elapsed)
      BY NextCarries
    <2> QED
      BY <2>1 DEF Carries, Successor, Elapsed, ElementsCarriedOn
  <1> QED
    BY <1>1, TypeInit, TypeNext, PTL DEF Spec, ElementsPersist
=============================================================================
