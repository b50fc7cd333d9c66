--------------------------- MODULE CleanUp_proofs ---------------------------
(***************************************************************************)
(* The clean-up operations work their windows, remove no more than their   *)
(* amounts and keep the books of the mass, for every time step, every      *)
(* window, any number of elements and whatever the map does with them.     *)
(***************************************************************************)
EXTENDS CleanUp, FiniteSetTheorems, SequenceTheorems, TLAPS

-----------------------------------------------------------------------------
(* Numbers.                                                                *)

LEMMA DivBounds ==
    ASSUME NEW a \in Int, NEW b \in Nat, b > 0
    PROVE  /\ a \div b \in Int
           /\ b * (a \div b) <= a
           /\ a < b * (a \div b) + b
  OBVIOUS

LEMMA ModDef ==
    ASSUME NEW a \in Int, NEW b \in Nat, b > 0
    PROVE  a % b = a - b * (a \div b)
  OBVIOUS

LEMMA TimesMonotone ==
    ASSUME NEW a \in Nat, NEW x \in Int, NEW y \in Int, x <= y
    PROVE  a * x <= a * y
  OBVIOUS

LEMMA TimesInNat ==
    ASSUME NEW a \in Nat, NEW b \in Nat
    PROVE  a * b \in Nat
  OBVIOUS

LEMMA TimesSplit ==
    ASSUME NEW a \in Nat, NEW b \in Nat, NEW c \in Nat
    PROVE  b * c = a * c + (b - a) * c
  OBVIOUS

\* The quotient is known from the bounds.
LEMMA DivUnique ==
    ASSUME NEW a \in Int, NEW b \in Nat, b > 0, NEW q \in Int,
           b * q <= a, a < b * q + b
    PROVE  a \div b = q
<1> DEFINE d == a \div b
<1>1. d \in Int /\ b * d <= a /\ a < b * d + b
  BY DivBounds
<1> HIDE DEF d
<1>2. CASE d < q
  <2>1. b * (d + 1) <= b * q
    BY <1>1, <1>2, TimesMonotone
  <2>2. b * (d + 1) = b * d + b
    BY <1>1
  <2> QED
    BY <1>1, <2>1, <2>2
<1>3. CASE q < d
  <2>1. b * (q + 1) <= b * d
    BY <1>1, <1>3, TimesMonotone
  <2>2. b * (q + 1) = b * q + b
    OBVIOUS
  <2> QED
    BY <1>1, <2>1, <2>2
<1>4. d = q
  BY <1>1, <1>2, <1>3
<1> QED
  BY <1>4 DEF d

-----------------------------------------------------------------------------
(* Mass.                                                                   *)

Masses == [Elements -> 0 .. UnitMass]

LEMMA UnitsFinite ==
    ASSUME NEW m, NEW S \in SUBSET Elements
    PROVE  IsFiniteSet(Units(m, S)) /\ TotalMass(m, S) \in Nat
<1> USE SizeAssumption
<1>1. IsFiniteSet(Elements) /\ IsFiniteSet(1 .. UnitMass)
  BY FS_Interval DEF Elements
<1>2. IsFiniteSet(S)
  BY <1>1, FS_Subset
<1>3. IsFiniteSet(S \X (1 .. UnitMass))
  BY <1>1, <1>2, FS_Product
<1>4. Units(m, S) \in SUBSET (S \X (1 .. UnitMass))
  BY DEF Units
<1>5. IsFiniteSet(Units(m, S))
  BY <1>3, <1>4, FS_Subset
<1> QED
  BY <1>5, FS_CardinalityType DEF TotalMass

\* Mass is additive over elements.
LEMMA MassAdds ==
    ASSUME NEW m, NEW S \in SUBSET Elements, NEW T \in SUBSET Elements, S \cap T = {}
    PROVE  TotalMass(m, S \cup T) = TotalMass(m, S) + TotalMass(m, T)
<1>1. Units(m, S \cup T) = Units(m, S) \cup Units(m, T)
  BY DEF Units
<1>2. Units(m, S) \cap Units(m, T) = {}
  BY DEF Units
<1>3. IsFiniteSet(Units(m, S)) /\ IsFiniteSet(Units(m, T))
  BY UnitsFinite
<1>4. Cardinality(Units(m, S) \cap Units(m, T)) = 0
  BY <1>2, FS_EmptySet
<1>5. Cardinality(Units(m, S) \cup Units(m, T))
        = Cardinality(Units(m, S)) + Cardinality(Units(m, T))
          - Cardinality(Units(m, S) \cap Units(m, T))
  BY <1>3, FS_Union
<1>6. TotalMass(m, S) \in Nat /\ TotalMass(m, T) \in Nat
  BY UnitsFinite
<1>7. /\ TotalMass(m, S \cup T) = Cardinality(Units(m, S) \cup Units(m, T))
      /\ TotalMass(m, S) = Cardinality(Units(m, S))
      /\ TotalMass(m, T) = Cardinality(Units(m, T))
  BY <1>1, Zenon DEF TotalMass
<1> QED
  BY <1>4, <1>5, <1>6, <1>7

\* It depends only on the masses of the elements.
LEMMA MassLocal ==
    ASSUME NEW m, NEW n, NEW S, \A e \in S : m[e] = n[e]
    PROVE  TotalMass(m, S) = TotalMass(n, S)
<1>1. Units(m, S) = Units(n, S)
  BY DEF Units
<1> QED
  BY <1>1 DEF TotalMass

\* Elements without mass add nothing, and only they do.
LEMMA NoMass ==
    ASSUME NEW m \in Masses, NEW S \in SUBSET Elements
    PROVE  TotalMass(m, S) = 0 <=> \A e \in S : m[e] = 0
<1> USE SizeAssumption
<1>1. TotalMass(m, S) = 0 <=> Units(m, S) = {}
  BY UnitsFinite, FS_EmptySet DEF TotalMass
<1>2. ASSUME Units(m, S) = {}, NEW e \in S PROVE m[e] = 0
  <2>1. m[e] \in 0 .. UnitMass
    BY DEF Masses
  <2>2. ASSUME m[e] # 0 PROVE FALSE
    <3>1. <<e, m[e]>> \in Units(m, S)
      BY <2>1, <2>2 DEF Units
    <3> QED
      BY <1>2, <3>1
  <2> QED
    BY <2>2
<1>3. ASSUME \A e \in S : m[e] = 0, NEW u \in Units(m, S) PROVE FALSE
  <2>1. u[1] \in S /\ u[2] \in 1 .. UnitMass /\ u[2] <= m[u[1]]
    BY DEF Units
  <2> QED
    BY <1>3, <2>1
<1> QED
  BY <1>1, <1>2, <1>3

\* Elements as they are released.
LEMMA WholeMass ==
    ASSUME NEW m \in Masses, NEW a \in Nat, NEW b \in Nat, a <= b, b <= NumElements,
           \A e \in (a + 1) .. b : m[e] = UnitMass
    PROVE  TotalMass(m, (a + 1) .. b) = (b - a) * UnitMass
<1> USE SizeAssumption
<1> DEFINE S == (a + 1) .. b
           U == 1 .. UnitMass
<1>1. IsFiniteSet(S) /\ Cardinality(S) = b - a
  <2>1. Cardinality(S) = IF a + 1 > b THEN 0 ELSE b - (a + 1) + 1
    BY FS_Interval
  <2>2. IsFiniteSet(S)
    BY FS_Interval
  <2> HIDE DEF S
  <2> QED
    BY <2>1, <2>2
<1>2. IsFiniteSet(U) /\ Cardinality(U) = UnitMass
  <2>1. Cardinality(U) = IF 1 > UnitMass THEN 0 ELSE UnitMass - 1 + 1
    BY FS_Interval
  <2>2. IsFiniteSet(U)
    BY FS_Interval
  <2> HIDE DEF U
  <2> QED
    BY <2>1, <2>2
<1>3. Units(m, S) = S \X U
  BY DEF Units
<1> HIDE DEF S, U
<1>4. Cardinality(S \X U) = Cardinality(S) * Cardinality(U)
  BY <1>1, <1>2, FS_Product
<1> QED
  BY <1>1, <1>2, <1>3, <1>4 DEF TotalMass, S

-----------------------------------------------------------------------------
(* Types.                                                                  *)

LEMMA SetupFacts ==
    ASSUME setup \in Setups
    PROVE  /\ setup.time_step \in Nat /\ setup.time_step > 0
           /\ setup.weathering_substeps \in Nat /\ setup.weathering_substeps > 0
           /\ setup.weathering_substeps <= setup.time_step
           /\ \A op \in Ops :
                 /\ setup.plan[op].on \in BOOLEAN
                 /\ setup.plan[op].start \in Int /\ setup.plan[op].stop \in Int
                 /\ setup.plan[op].start < setup.plan[op].stop
                 /\ setup.plan[op].rate \in Nat /\ setup.plan[op].rest \in Nat
<1>1. /\ setup.time_step \in Nat \ {0} /\ setup.weathering_substeps \in Nat \ {0}
      /\ setup.plan \in [Ops -> Plans]
  BY SetupAssumption
<1>2. \A op \in Ops : setup.plan[op] \in Plans
  BY <1>1
<1> QED
  BY <1>1, <1>2, SetupAssumption DEF Plans

\* A step is split into at least one sub-step.
LEMMA SubStepsType ==
    ASSUME setup \in Setups
    PROVE  /\ Len(SubSteps(setup)) \in Nat /\ Len(SubSteps(setup)) > 0
           /\ setup.weathering_substeps = 1 => Len(SubSteps(setup)) = 1
<1> DEFINE T == setup.time_step
           sub == T \div setup.weathering_substeps
           q == T \div sub
           whole == [i \in 1 .. q |-> sub]
<1>1. /\ T \in Nat /\ T > 0 /\ setup.weathering_substeps \in Nat
      /\ setup.weathering_substeps > 0 /\ setup.weathering_substeps <= T
  BY SetupFacts
<1>2. sub \in Nat /\ sub > 0 /\ sub <= T
  <2> DEFINE k == setup.weathering_substeps
  <2>1. k \in Nat /\ k > 0 /\ k <= T
    BY <1>1
  <2> HIDE DEF k
  <2>2. sub = T \div k
    BY DEF k
  <2> HIDE DEF T, sub
  <2>3. sub \in Int /\ k * sub <= T /\ T < k * sub + k
    BY <1>1, <2>1, <2>2, DivBounds
  <2>4. sub > 0
    <3>1. SUFFICES ASSUME sub <= 0 PROVE FALSE
      BY <2>3
    <3>2. k * sub <= k * 0
      BY <2>1, <2>3, <3>1, TimesMonotone
    <3> QED
      BY <1>1, <2>1, <2>3, <3>2
  <2>5. sub <= T
    <3>1. sub * 1 <= sub * k
      BY <2>1, <2>3, <2>4, TimesMonotone
    <3> QED
      BY <1>1, <2>1, <2>3, <3>1
  <2> QED
    BY <2>3, <2>4, <2>5
<1> HIDE DEF sub
<1>3. q \in Nat /\ q > 0
  <2>1. q \in Int /\ sub * q <= T /\ T < sub * q + sub
    BY <1>1, <1>2, DivBounds
  <2> HIDE DEF T, q
  <2>2. SUFFICES ASSUME q <= 0 PROVE FALSE
    BY <2>1
  <2>3. sub * q <= sub * 0
    BY <1>2, <2>1, <2>2, TimesMonotone
  <2> QED
    BY <1>1, <1>2, <2>1, <2>3
<1>4. whole \in Seq(Nat) /\ Len(whole) = q
  BY <1>2, <1>3
<1>5. SubSteps(setup) = IF T % sub = 0 THEN whole ELSE Append(whole, T % sub)
  BY DEF SubSteps, sub
<1>6. ASSUME setup.weathering_substeps = 1 PROVE T % sub = 0 /\ q = 1
  <2>1. sub = T
    <3>1. sub = T \div 1
      BY <1>6 DEF sub
    <3> QED
      BY <1>1, <3>1
  <2>2. T * 1 <= T /\ T < T * 1 + T
    BY <1>1
  <2>3. T \div T = 1
    BY <1>1, <2>2, DivUnique
  <2>4. T % T = T - T * (T \div T)
    BY <1>1, ModDef
  <2> HIDE DEF T
  <2> QED
    BY <1>1, <2>1, <2>3, <2>4
<1> HIDE DEF whole, q, T
<1>7. T % sub \in Int
  BY <1>1, <1>2
<1>8. Len(Append(whole, T % sub)) = q + 1
  BY <1>3, <1>4, <1>7
<1> QED
  BY <1>3, <1>4, <1>5, <1>6, <1>8

\* The calls of a step; with one sub-step every operation is called once.
LEMMA CallsType ==
    ASSUME setup \in Setups
    PROVE  /\ CallsOfStep \in Seq(Ops) /\ CallsOfStep # <<>>
           /\ setup.weathering_substeps = 1 => CallsOfStep = SortOrder
<1> DEFINE n == Len(SubSteps(setup))
           c == [i \in 1 .. 3 * n |-> SortOrder[(i - 1) \div n + 1]]
<1>1. n \in Nat /\ n > 0 /\ (setup.weathering_substeps = 1 => n = 1)
  BY SubStepsType
<1>2. CallsOfStep = c
  BY DEF CallsOfStep
<1> HIDE DEF n
<1>3. ASSUME NEW i \in 1 .. 3 * n PROVE (i - 1) \div n \in 0 .. 2
  <2> DEFINE d == (i - 1) \div n
  <2>1. i - 1 \in Int /\ i - 1 >= 0 /\ i - 1 < 3 * n
    BY <1>1
  <2>2. d \in Int /\ n * d <= i - 1 /\ i - 1 < n * d + n
    BY <1>1, <2>1, DivBounds
  <2> HIDE DEF d
  <2>3. d <= 2
    <3>1. SUFFICES ASSUME d >= 3 PROVE FALSE
      BY <2>2
    <3>2. n * 3 <= n * d
      BY <1>1, <2>2, <3>1, TimesMonotone
    <3> QED
      BY <1>1, <2>1, <2>2, <3>2
  <2>4. d >= 0
    <3>1. SUFFICES ASSUME d <= -1 PROVE FALSE
      BY <2>2
    <3>2. n * d <= n * (-1)
      BY <1>1, <2>2, <3>1, TimesMonotone
    <3> QED
      BY <1>1, <2>1, <2>2, <3>2
  <2> QED
    BY <2>2, <2>3, <2>4 DEF d
<1>4. \A j \in 0 .. 2 : SortOrder[j + 1] \in Ops
  BY DEF SortOrder, Ops
<1>5. \A i \in 1 .. 3 * n : c[i] \in Ops
  BY <1>3, <1>4
<1>6. c \in Seq(Ops) /\ Len(c) = 3 * n
  <2>1. c \in [1 .. 3 * n -> Ops]
    BY <1>5
  <2>2. 3 * n \in Nat
    BY <1>1
  <2> HIDE DEF c
  <2> QED
    BY <2>1, <2>2, IsASeq
<1>7. ASSUME n = 1 PROVE c = SortOrder
  <2>1. 3 * n = 3 /\ (1 - 1) \div n = 0 /\ (2 - 1) \div n = 1 /\ (3 - 1) \div n = 2
    BY <1>7
  <2>2. c[1] = SortOrder[1] /\ c[2] = SortOrder[2] /\ c[3] = SortOrder[3]
    BY <2>1
  <2>3. SortOrder \in Seq(Ops) /\ Len(SortOrder) = 3
    BY DEF SortOrder, Ops
  <2> HIDE DEF c
  <2> QED
    BY <1>6, <2>1, <2>2, <2>3, SeqEqual
<1> HIDE DEF c
<1> QED
  BY <1>1, <1>2, <1>6, <1>7

LEMMA TimestepType ==
    ASSUME setup \in Setups, step \in Nat, NEW op \in Ops, IsActive(op)
    PROVE  Timestep(op) \in Nat /\ Timestep(op) <= setup.time_step
<1> DEFINE mt == model_time
<1>1. mt \in Int
  BY SetupFacts DEF model_time
<1> HIDE DEF mt
<1>2. /\ setup.plan[op].stop > mt /\ mt + setup.time_step > setup.plan[op].start
      /\ setup.plan[op].start \in Int /\ setup.plan[op].stop \in Int
      /\ setup.time_step \in Nat
  BY SetupFacts DEF IsActive, mt
<1>3. Timestep(op) =
        IF setup.plan[op].stop < mt + setup.time_step
        THEN setup.plan[op].stop - mt
        ELSE IF mt < setup.plan[op].start
        THEN setup.time_step - (setup.plan[op].start - mt)
        ELSE setup.time_step
  BY DEF Timestep, mt
<1> QED
  BY <1>1, <1>2, <1>3

LEMMA MarkingType ==
    ASSUME NEW f \in [Elements -> Fates], NEW op \in Ops
    PROVE  AfterMarking(f, op) \in [Elements -> Fates]
<1>1. MarksOf[op] \in Fates
  BY DEF MarksOf, Fates, Ops
<1>2. WithMarks(f, Amount(op), MarksOf[op]) \in [Elements -> Fates]
  BY <1>1 DEF WithMarks
<1> QED
  BY <1>2 DEF AfterMarking

LEMMA RemovedType ==
    ASSUME TypeOK, NEW op \in Ops, NEW total \in Nat
    PROVE  /\ Removed(op, total) \in Nat /\ Removed(op, total) <= total
           /\ Removed(op, total) <= setup.plan[op].rate * timestep[op]
<1> DEFINE m == setup.plan[op].rate * timestep[op]
<1>1. m \in Nat
  BY SetupFacts DEF TypeOK
<1>2. Removed(op, total) = IF m < total THEN m ELSE total
  BY DEF Removed
<1> HIDE DEF m
<1>3. Removed(op, total) \in Nat /\ Removed(op, total) <= total /\ Removed(op, total) <= m
  BY <1>1, <1>2
<1> QED
  BY <1>3 DEF m

\* What a weathering call does to mass and books.
LEMMA WeatherStep ==
    ASSUME TypeOK, WeatherElements
    PROVE  /\ phase = "weather" /\ calls # <<>> /\ Head(calls) \in Ops
           /\ \/ UNCHANGED <<mass, mass_balance>>
              \/ \E m \in Nat, view \in SUBSET Elements :
                    /\ active[Head(calls)]
                    /\ view = Marked(fate_status, Head(calls))
                    /\ m <= setup.plan[Head(calls)].rate * timestep[Head(calls)]
                    /\ mass' \in Masses
                    /\ \A e \in Elements : mass'[e] <= mass[e]
                    /\ \A e \in Elements \ view : mass'[e] = mass[e]
                    /\ TotalMass(mass, view) - TotalMass(mass', view) = m
                    /\ mass_balance' = [mass_balance EXCEPT ![Head(calls)] = @ + m]
<1> DEFINE op == Head(calls)
           view == Marked(fate_status, op)
           m == Removed(op, TotalMass(mass, view))
<1>1. phase = "weather" /\ calls # <<>> /\ calls \in Seq(Ops)
  BY DEF WeatherElements, TypeOK
<1>2. op \in Ops
  BY <1>1
<1>3. view \in SUBSET Elements
  BY DEF Marked
<1>4. TotalMass(mass, view) \in Nat
  BY <1>3, UnitsFinite
<1>5. m \in Nat /\ m <= setup.plan[op].rate * timestep[op]
  <2> HIDE DEF op, view
  <2> QED
    BY <1>2, <1>4, RemovedType
<1>6. CASE active[op] /\ view # {}
  <2>1. PICK after \in TakenOff(view, m) :
            mass' = [e \in Elements |-> IF e \in view THEN after[e] ELSE mass[e]]
    BY <1>6 DEF WeatherElements
  <2>2. mass_balance' = [mass_balance EXCEPT ![op] = @ + m]
    BY <1>6 DEF WeatherElements
  <2> HIDE DEF m, view, op
  <2>3. /\ after \in [view -> 0 .. UnitMass] /\ \A e \in view : after[e] <= mass[e]
        /\ TotalMass(mass, view) - TotalMass(after, view) = m
    BY DEF TakenOff
  <2>4. mass \in [Elements -> 0 .. UnitMass]
    BY DEF TypeOK
  <2>5. /\ \A e \in view : mass'[e] = after[e]
        /\ \A e \in Elements \ view : mass'[e] = mass[e]
    BY <1>3, <2>1
  <2>6. \A e \in Elements : mass[e] <= mass[e]
    BY <2>4, SizeAssumption
  <2>7. mass' \in Masses
    BY <2>1, <2>3, <2>4 DEF Masses
  <2>8. TotalMass(mass', view) = TotalMass(after, view)
    BY <2>5, MassLocal
  <2>9. \A e \in Elements : mass'[e] <= mass[e]
    BY <2>3, <2>5, <2>6
  <2> QED
    BY <1>1, <1>2, <1>3, <1>5, <1>6, <2>2, <2>3, <2>5, <2>7, <2>8, <2>9 DEF op, view
<1>7. CASE ~(active[op] /\ view # {})
  <2>1. UNCHANGED <<mass, mass_balance>>
    BY <1>7 DEF WeatherElements
  <2> QED
    BY <1>1, <1>2, <2>1
<1> QED
  BY <1>6, <1>7

\* Inside a step it is one of those the bound allows.
InBound == phase \in {"prepare", "move", "weather", "done"} => step < MaxSteps

TypeInv == TypeOK /\ InBound

LEMMA TypeInit == Init => TypeInv
<1> SUFFICES ASSUME Init PROVE TypeInv
  OBVIOUS
<1> USE SizeAssumption
<1>1. setup.time_step \in Nat
  BY SetupFacts DEF Init
<1> QED
  BY <1>1 DEF Init, TypeInv, InBound, TypeOK, Phases, Statuses, Fates

LEMMA TypeNext == TypeInv /\ [Next]_vars => TypeInv'
<1> SUFFICES ASSUME TypeOK, InBound, [Next]_vars PROVE TypeInv'
  BY DEF TypeInv
<1> USE SizeAssumption
<1>0. setup.time_step \in Nat
  BY SetupFacts DEF TypeOK
<1>1. CASE ReleaseElements
  <2>1. PICK n \in num_released .. NumElements :
            LET new == (num_released + 1) .. n
            IN  /\ num_released' = n
                /\ status' = [e \in Elements |->
                                 IF e \in new THEN "in_water" ELSE status[e]]
                /\ mass' = [e \in Elements |->
                               IF e \in new THEN UnitMass ELSE mass[e]]
    BY <1>1 DEF ReleaseElements
  <2>2. /\ num_released' \in 0 .. NumElements
        /\ status' \in [Elements -> Statuses]
        /\ mass' \in [Elements -> 0 .. UnitMass]
    BY <2>1 DEF TypeOK, Statuses
  <2>3. /\ phase' \in Phases
        /\ UNCHANGED <<setup, step, fate_status, active, timestep, calls,
                       mass_balance, worked>>
    BY <1>1 DEF ReleaseElements, Phases
  <2>9. InBound'
    BY <1>1 DEF InBound, ReleaseElements, TypeOK
  <2> QED
    BY <2>9, <2>2, <2>3 DEF TypeInv, TypeOK
<1>2. CASE PrepareForModelStep
  <2>1. \A op \in Ops : IsActive(op) =>
            Timestep(op) \in Nat /\ Timestep(op) <= setup.time_step
    BY TimestepType DEF TypeOK
  <2>2. /\ active' = [op \in Ops |-> IsActive(op)]
        /\ timestep' = [op \in Ops |-> IF IsActive(op) THEN Timestep(op)
                                       ELSE timestep[op]]
        /\ worked' = [op \in Ops |-> IF IsActive(op) THEN worked[op] + Timestep(op)
                                     ELSE worked[op]]
    BY <1>2 DEF PrepareForModelStep
  <2>3. /\ timestep' \in [Ops -> Nat] /\ worked' \in [Ops -> Nat]
        /\ \A op \in Ops : timestep'[op] <= setup.time_step
    BY <2>1, <2>2 DEF TypeOK
  <2>4. active' \in [Ops -> BOOLEAN]
    BY <2>2 DEF IsActive, TypeOK
  <2>5. fate_status' \in [Elements -> Fates]
    <3> DEFINE f1 == AfterMarking(fate_status, "disperse")
               f2 == AfterMarking(f1, "skim")
    <3>1. f1 \in [Elements -> Fates]
      BY MarkingType DEF TypeOK, Ops
    <3> HIDE DEF f1
    <3>2. f2 \in [Elements -> Fates]
      BY <3>1, MarkingType DEF Ops
    <3> HIDE DEF f2
    <3>3. AfterMarking(f2, "burn") \in [Elements -> Fates]
      BY <3>2, MarkingType DEF Ops
    <3>4. fate_status' = AfterMarking(f2, "burn")
      BY <1>2 DEF PrepareForModelStep, f1, f2
    <3> QED
      BY <3>3, <3>4
  <2>6. phase' \in Phases /\ UNCHANGED <<setup, step, num_released, status, mass, calls,
                                         mass_balance>>
    BY <1>2 DEF PrepareForModelStep, Phases
  <2>9. InBound'
    BY <1>2 DEF InBound, PrepareForModelStep, TypeOK
  <2> QED
    BY <2>9, <2>3, <2>4, <2>5, <2>6 DEF TypeInv, TypeOK
<1>3. CASE MoveElements
  <2>1. \A e \in Elements : FateAfter(status'[e], fate_status[e]) \in Fates
    BY DEF FateAfter, Fates, TypeOK
  <2>2. fate_status' \in [Elements -> Fates]
    BY <1>3, <2>1 DEF MoveElements, TypeOK
  <2> DEFINE gone == {e \in Present : status'[e] = "to_be_removed"}
  <2>3. TotalMass(mass, gone) \in Nat
    <3>1. gone \in SUBSET Elements
      BY DEF Present
    <3> QED
      BY <3>1, UnitsFinite
  <2>4. mass_balance' \in [Ops \cup {"off_maps"} -> Nat]
    <3>1. mass_balance' = [mass_balance EXCEPT !["off_maps"] = @ + TotalMass(mass, gone)]
      BY <1>3 DEF MoveElements
    <3> HIDE DEF gone
    <3> QED
      BY <2>3, <3>1 DEF TypeOK
  <2>5. calls' \in Seq(Ops)
    BY <1>3, CallsType DEF MoveElements, TypeOK
  <2>6. /\ status' \in [Elements -> Statuses] /\ phase' \in Phases
        /\ UNCHANGED <<setup, step, num_released, mass, active, timestep, worked>>
    BY <1>3 DEF MoveElements, Phases
  <2>9. InBound'
    BY <1>3 DEF InBound, MoveElements, TypeOK
  <2> QED
    BY <2>9, <2>2, <2>4, <2>5, <2>6 DEF TypeInv, TypeOK
<1>4. CASE WeatherElements
  <2>1. mass' \in [Elements -> 0 .. UnitMass]
        /\ mass_balance' \in [Ops \cup {"off_maps"} -> Nat]
    <3> DEFINE op == Head(calls)
    <3>1. op \in Ops
      BY <1>4, WeatherStep
    <3>2. CASE UNCHANGED <<mass, mass_balance>>
      BY <3>2 DEF TypeOK
    <3>3. ASSUME NEW m \in Nat, mass_balance' = [mass_balance EXCEPT ![op] = @ + m]
          PROVE  mass_balance' \in [Ops \cup {"off_maps"} -> Nat]
      <4> HIDE DEF op
      <4> QED
        BY <3>1, <3>3 DEF TypeOK
    <3> QED
      BY <1>4, <3>2, <3>3, WeatherStep DEF Masses
  <2>2. calls' \in Seq(Ops)
    BY <1>4 DEF WeatherElements, TypeOK
  <2>3. phase' \in Phases /\ UNCHANGED <<setup, step, num_released, status, fate_status,
                                         active, timestep, worked>>
    BY <1>4 DEF WeatherElements, Phases
  <2>9. InBound'
    BY <1>4 DEF InBound, WeatherElements, TypeOK
  <2> QED
    BY <2>9, <2>1, <2>2, <2>3 DEF TypeInv, TypeOK
<1>5. CASE StepIsDone
  BY <1>5 DEF StepIsDone, TypeInv, InBound, TypeOK, Phases, Statuses
<1>6. CASE UNCHANGED vars
  BY <1>6 DEF vars, arrays, TypeInv, InBound, TypeOK
<1> QED
  BY <1>1, <1>2, <1>3, <1>4, <1>5, <1>6 DEF Next

\* Every state of a run with clean-up operations is well typed: in
\* particular no element has the marks of two operations, for every plan,
\* and any number of elements and sub-steps.
THEOREM TypeCorrect == Spec => []TypeOK
<1>1. TypeInv => TypeOK
  BY DEF TypeInv
<1> QED
  BY <1>1, TypeInit, TypeNext, PTL DEF Spec

-----------------------------------------------------------------------------
(* The windows.                                                            *)

\* A window that begins after the start of a step and ends before its end
\* lies inside it.
LEMMA CutTwice ==
    ASSUME TypeOK, NEW op \in Ops,
           model_time < setup.plan[op].start,
           setup.plan[op].stop < model_time + setup.time_step
    PROVE  InsideStep(op)
<1> DEFINE T == setup.time_step
           a == setup.plan[op].start
           b == setup.plan[op].stop
           t == T * step
<1>1. T \in Nat /\ T > 0 /\ step \in Int /\ a \in Int /\ b \in Int /\ a < b
  BY SetupFacts DEF TypeOK
<1>2. t \in Int /\ t < a /\ b < t + T
  BY <1>1 DEF model_time
<1>3. a \div T = step
  BY <1>1, <1>2, DivUnique
<1>4. (b - 1) \div T = step
  <2> DEFINE c == b - 1
  <2>1. c \in Int /\ t <= c /\ c < t + T
    BY <1>1, <1>2
  <2> HIDE DEF c
  <2>2. c \div T = step
    BY <1>1, <2>1, DivUnique
  <2> QED
    BY <2>2 DEF c
<1>5. b \div T = step
  <2>1. t <= b
    BY <1>1, <1>2
  <2> QED
    BY <1>1, <1>2, <2>1, DivUnique
<1>6. a % T = a - t /\ b % T = b - t
  BY <1>1, <1>3, <1>5, ModDef
<1>7. a % T # 0 /\ b % T # 0
  BY <1>1, <1>2, <1>6
<1> QED
  BY <1>3, <1>4, <1>7 DEF InsideStep

\* The piece that prepare_for_model_step cuts is the part of the window in
\* the step.
LEMMA PieceOfWindow ==
    ASSUME TypeOK, NEW op \in Ops, ~InsideStep(op)
    PROVE  WindowUntil(op, model_time + setup.time_step) =
               WindowUntil(op, model_time) + (IF IsActive(op) THEN Timestep(op) ELSE 0)
<1> DEFINE T == setup.time_step
           a == setup.plan[op].start
           b == setup.plan[op].stop
           t == model_time
<1>1. T \in Nat /\ T > 0 /\ a \in Int /\ b \in Int /\ a < b
  BY SetupFacts DEF TypeOK
<1>2. t \in Int /\ t >= 0
  BY SetupFacts DEF model_time, TypeOK
<1>3. ~(t < a /\ b < t + T)
  BY CutTwice
<1>4. IsActive(op) <=> setup.plan[op].on /\ t + T > a /\ b > t
  BY DEF IsActive
<1>5. Timestep(op) = IF b < t + T THEN b - t ELSE IF t < a THEN T - (a - t) ELSE T
  BY DEF Timestep
<1>6. ASSUME NEW s \in Int
      PROVE  WindowUntil(op, s) =
                 IF ~setup.plan[op].on THEN 0
                 ELSE LET w == (IF b < s THEN b ELSE s) - (IF a < 0 THEN 0 ELSE a)
                      IN  IF 0 < w THEN w ELSE 0
  BY DEF WindowUntil, Larger, Smaller
<1> HIDE DEF T, a, b, t
<1>7. t + T \in Int
  BY <1>1, <1>2
<1>8. CASE ~setup.plan[op].on
  BY <1>2, <1>4, <1>6, <1>7, <1>8 DEF t, T
<1>9. CASE setup.plan[op].on
  <2> DEFINE c == IF a < 0 THEN 0 ELSE a
             w1 == (IF b < t THEN b ELSE t) - c
             w2 == (IF b < t + T THEN b ELSE t + T) - c
  <2>1. /\ WindowUntil(op, t) = IF 0 < w1 THEN w1 ELSE 0
        /\ WindowUntil(op, t + T) = IF 0 < w2 THEN w2 ELSE 0
    BY <1>2, <1>6, <1>7, <1>9
  <2>2. (IF 0 < w2 THEN w2 ELSE 0) =
            (IF 0 < w1 THEN w1 ELSE 0)
            + (IF t + T > a /\ b > t
               THEN IF b < t + T THEN b - t ELSE IF t < a THEN T - (a - t) ELSE T
               ELSE 0)
    BY <1>1, <1>2, <1>3
  <2> HIDE DEF w1, w2
  <2> QED
    BY <1>4, <1>5, <1>9, <2>1, <2>2 DEF t, T
<1> QED
  BY <1>8, <1>9

WindowInv == TypeInv /\ WorksItsWindow

LEMMA WindowInit == Init => WindowInv
<1> SUFFICES ASSUME Init PROVE WindowInv
  OBVIOUS
<1>1. TypeInv
  BY TypeInit
<1>2. Horizon = 0
  BY SetupFacts DEF Init, Horizon, model_time
<1>3. ASSUME NEW op \in Ops PROVE WindowUntil(op, 0) = 0
  <2>1. setup.plan[op].start \in Int /\ setup.plan[op].stop \in Int
    BY SetupFacts DEF Init
  <2> QED
    BY <2>1 DEF WindowUntil, Larger, Smaller
<1>4. WorksItsWindow
  BY <1>2, <1>3 DEF Init, WorksItsWindow
<1> QED
  BY <1>1, <1>4 DEF WindowInv

LEMMA WindowNext == WindowInv /\ [Next]_vars => WindowInv'
<1> SUFFICES ASSUME TypeInv, WorksItsWindow, [Next]_vars PROVE WindowInv'
  BY DEF WindowInv
<1>0. TypeInv'
  BY TypeNext
<1>1. setup' = setup
  BY DEF Next, vars, ReleaseElements, PrepareForModelStep, MoveElements,
     WeatherElements, StepIsDone
<1>2. \A op \in Ops : InsideStep(op)' <=> InsideStep(op)
  BY <1>1 DEF InsideStep
<1>3. CASE Horizon' = Horizon /\ worked' = worked
  <2>1. \A op \in Ops : WindowUntil(op, Horizon)' = WindowUntil(op, Horizon)
    BY <1>1, <1>3 DEF WindowUntil
  <2> QED
    BY <1>0, <1>2, <1>3, <2>1 DEF WindowInv, WorksItsWindow
<1>4. CASE PrepareForModelStep
  <2>1. Horizon = model_time /\ Horizon' = model_time + setup.time_step
    BY <1>4 DEF PrepareForModelStep, Horizon, model_time
  <2>2. \A op \in Ops : WindowUntil(op, Horizon)'
                            = WindowUntil(op, model_time + setup.time_step)
    BY <1>1, <2>1 DEF WindowUntil
  <2>3. ASSUME NEW op \in Ops, ~InsideStep(op)
        PROVE  worked'[op] = WindowUntil(op, model_time + setup.time_step)
    <3>1. worked[op] = WindowUntil(op, model_time)
      BY <2>1, <2>3 DEF WorksItsWindow
    <3>2. worked'[op] = IF IsActive(op) THEN worked[op] + Timestep(op) ELSE worked[op]
      BY <1>4 DEF PrepareForModelStep
    <3>3. worked[op] \in Nat
      BY DEF TypeInv, TypeOK
    <3>4. WindowUntil(op, model_time + setup.time_step) =
              WindowUntil(op, model_time) + (IF IsActive(op) THEN Timestep(op) ELSE 0)
      BY <2>3, PieceOfWindow DEF TypeInv
    <3> QED
      BY <3>1, <3>2, <3>3, <3>4
  <2> QED
    BY <1>0, <1>2, <2>2, <2>3 DEF WindowInv, WorksItsWindow
<1>5. CASE StepIsDone
  <2>1. Horizon = model_time + setup.time_step /\ Horizon' = model_time'
    BY <1>5 DEF StepIsDone, Horizon
  <2>2. model_time' = model_time + setup.time_step
    <3>1. step \in Nat /\ setup.time_step \in Nat
      BY SetupFacts DEF TypeInv, TypeOK
    <3>2. model_time' = (step + 1) * setup.time_step
      BY <1>5 DEF StepIsDone, model_time
    <3> QED
      BY <3>1, <3>2 DEF model_time
  <2>3. Horizon' = Horizon /\ worked' = worked
    BY <1>5, <2>1, <2>2 DEF StepIsDone
  <2> QED
    BY <1>3, <2>3
<1>6. CASE ReleaseElements \/ MoveElements \/ WeatherElements \/ UNCHANGED vars
  <2>1. Horizon' = Horizon /\ worked' = worked
    BY <1>6 DEF ReleaseElements, MoveElements, WeatherElements, vars, Horizon, model_time
  <2> QED
    BY <1>3, <2>1
<1> QED
  BY <1>4, <1>5, <1>6 DEF Next

\* An operation works exactly its window, for every window and time step, as
\* long as the window is not inside a single step (_set__timestep).
THEOREM WindowsWorked == Spec => []WorksItsWindow
<1>1. WindowInv => WorksItsWindow
  BY DEF WindowInv
<1> QED
  BY <1>1, WindowInit, WindowNext, PTL DEF Spec

-----------------------------------------------------------------------------
(* The amounts, with one sub-step.                                         *)

\* The calls that are still to be made, in the order of the operations.
CallsLeft ==
    setup.weathering_substeps = 1 /\ phase = "weather" =>
        calls \in {SortOrder, <<"skim", "burn">>, <<"burn">>}

OpsOf(c) == {c[i] : i \in DOMAIN c}

\* The operation has been told to work, and its call of this step is still
\* to be made.
Due(op) ==
    /\ active[op]
    /\ \/ phase = "move"
       \/ phase = "weather" /\ op \in OpsOf(calls)

\* What is removed, and what is due, stay below the rate over the time worked.
WithinRate ==
    setup.weathering_substeps = 1 =>
        \A op \in Ops :
            mass_balance[op]
                + (IF Due(op) THEN setup.plan[op].rate * timestep[op] ELSE 0)
            <= setup.plan[op].rate * worked[op]

AmountInv == WindowInv /\ CallsLeft /\ WithinRate

LEMMA AmountInit == Init => AmountInv
<1> SUFFICES ASSUME Init PROVE AmountInv
  OBVIOUS
<1>1. WindowInv
  BY WindowInit
<1>2. ASSUME NEW op \in Ops
      PROVE  mass_balance[op] = 0 /\ ~Due(op) /\ setup.plan[op].rate * worked[op] = 0
  BY SetupFacts DEF Init, Due
<1> QED
  BY <1>1, <1>2 DEF AmountInv, WithinRate, CallsLeft, Init

LEMMA OpsOfCalls ==
    ASSUME NEW a, NEW b, NEW c
    PROVE  /\ OpsOf(<<>>) = {} /\ OpsOf(<<a>>) = {a}
           /\ OpsOf(<<a, b>>) = {a, b} /\ OpsOf(<<a, b, c>>) = {a, b, c}
<1>1. /\ DOMAIN <<>> = {} /\ DOMAIN <<a>> = {1}
      /\ DOMAIN <<a, b>> = {1, 2} /\ DOMAIN <<a, b, c>> = {1, 2, 3}
  OBVIOUS
<1>2. OpsOf(<<>>) = {}
  BY <1>1 DEF OpsOf
<1>3. OpsOf(<<a>>) = {a}
  BY <1>1 DEF OpsOf
<1>4. OpsOf(<<a, b>>) = {a, b}
  BY <1>1 DEF OpsOf
<1>5. OpsOf(<<a, b, c>>) = {a, b, c}
  BY <1>1 DEF OpsOf
<1> QED
  BY <1>2, <1>3, <1>4, <1>5

\* The call that is made is the first, and no other is that operation's.
LEMMA FirstCall ==
    ASSUME setup.weathering_substeps = 1, phase = "weather", CallsLeft,
           WeatherElements
    PROVE  /\ Head(calls) \in OpsOf(calls)
           /\ \A op \in Ops :
                 op # Head(calls) =>
                     (op \in OpsOf(calls)
                      <=> op \in OpsOf(Tail(calls)))
           /\ Head(calls) \notin OpsOf(Tail(calls))
           /\ \/ phase' = "weather" /\ Tail(calls) \in {<<"skim", "burn">>, <<"burn">>}
              \/ phase' = "done" /\ Tail(calls) = <<>>
<1>1. /\ phase' = IF Len(calls) = 1 THEN "done" ELSE "weather"
      /\ calls \in {SortOrder, <<"skim", "burn">>, <<"burn">>}
  BY DEF WeatherElements, CallsLeft
<1>2. CASE calls = <<"burn">>
  <2>1. Head(calls) = "burn" /\ Tail(calls) = <<>> /\ Len(calls) = 1
    BY <1>2
  <2>2. OpsOf(calls) = {"burn"} /\ OpsOf(Tail(calls)) = {}
    BY <1>2, <2>1, OpsOfCalls
  <2> QED
    BY <1>1, <2>1, <2>2
<1>3. CASE calls = <<"skim", "burn">>
  <2>1. Head(calls) = "skim" /\ Tail(calls) = <<"burn">> /\ Len(calls) = 2
    BY <1>3
  <2>2. OpsOf(calls) = {"skim", "burn"} /\ OpsOf(Tail(calls)) = {"burn"}
    BY <1>3, <2>1, OpsOfCalls
  <2> QED
    BY <1>1, <2>1, <2>2
<1>4. CASE calls = <<"disperse", "skim", "burn">>
  <2>1. Head(calls) = "disperse" /\ Tail(calls) = <<"skim", "burn">> /\ Len(calls) = 3
    BY <1>4
  <2>2. OpsOf(calls) = {"disperse", "skim", "burn"}
        /\ OpsOf(Tail(calls)) = {"skim", "burn"}
    <3>1. OpsOf(<<"disperse", "skim", "burn">>) = {"disperse", "skim", "burn"}
      <4> DEFINE c == <<"disperse", "skim", "burn">>
      <4>1. /\ DOMAIN c = {1, 2, 3}
            /\ c[1] = "disperse" /\ c[2] = "skim" /\ c[3] = "burn"
        OBVIOUS
      <4> HIDE DEF c
      <4>2. OpsOf(c) = {c[1], c[2], c[3]}
        BY <4>1 DEF OpsOf
      <4> QED
        BY <4>1, <4>2 DEF c
    <3>2. OpsOf(<<"skim", "burn">>) = {"skim", "burn"}
      BY OpsOfCalls
    <3> QED
      BY <1>4, <2>1, <3>1, <3>2
  <2>3. phase' = "weather"
    BY <1>1, <2>1
  <2>4. /\ Head(calls) \in OpsOf(calls) /\ Head(calls) \notin OpsOf(Tail(calls))
        /\ \A op \in Ops : op # Head(calls) =>
               (op \in OpsOf(calls) <=> op \in OpsOf(Tail(calls)))
    BY <2>1, <2>2
  <2> QED
    BY <2>1, <2>3, <2>4
<1> QED
  BY <1>1, <1>2, <1>3, <1>4 DEF SortOrder

LEMMA AmountNext == AmountInv /\ [Next]_vars => AmountInv'
<1> SUFFICES ASSUME AmountInv, [Next]_vars PROVE AmountInv'
  OBVIOUS
<1>0. WindowInv' /\ TypeOK /\ TypeOK'
  BY WindowNext DEF AmountInv, WindowInv, TypeInv
<1>1. setup' = setup
  BY DEF Next, vars, ReleaseElements, PrepareForModelStep, MoveElements,
     WeatherElements, StepIsDone
<1>2. \A op \in Ops :
          /\ setup.plan[op].rate \in Nat /\ timestep[op] \in Nat /\ worked[op] \in Nat
          /\ mass_balance[op] \in Nat
  BY <1>0, SetupFacts DEF TypeOK
<1>3. CASE ReleaseElements \/ UNCHANGED vars
  <2>1. /\ \/ phase' = phase /\ UNCHANGED calls
           \/ phase \in {"release", "release_rest"} /\ phase' \in {"prepare", "release"}
        /\ UNCHANGED <<active, timestep, mass_balance, worked>>
        /\ phase' = "weather" => calls' = calls /\ phase = "weather"
    BY <1>3 DEF ReleaseElements, vars
  <2>2. \A op \in Ops : Due(op)' <=> Due(op)
    BY <2>1 DEF Due
  <2> QED
    BY <1>0, <1>1, <2>1, <2>2 DEF AmountInv, CallsLeft, WithinRate
<1>4. CASE PrepareForModelStep
  <2>1. phase = "prepare" /\ phase' = "move" /\ UNCHANGED mass_balance
    BY <1>4 DEF PrepareForModelStep
  <2>2. ASSUME setup.weathering_substeps = 1, NEW op \in Ops
        PROVE  mass_balance'[op]
                   + (IF Due(op)' THEN setup.plan[op].rate * timestep'[op] ELSE 0)
               <= setup.plan[op].rate * worked'[op]
    <3>1. mass_balance[op] <= setup.plan[op].rate * worked[op]
      BY <2>1, <2>2, <1>2 DEF AmountInv, WithinRate, Due
    <3>2. Due(op)' <=> IsActive(op)
      BY <1>4, <2>1 DEF Due, PrepareForModelStep
    <3>3. CASE IsActive(op)
      <4> DEFINE r == setup.plan[op].rate
      <4>1. timestep'[op] = Timestep(op) /\ worked'[op] = worked[op] + Timestep(op)
        BY <1>4, <3>3 DEF PrepareForModelStep
      <4>2. Timestep(op) \in Nat /\ r \in Nat
        BY <1>0, <1>2, <3>3, TimestepType DEF TypeOK
      <4>3. r * worked'[op] = r * worked[op] + r * timestep'[op]
        BY <1>2, <4>1, <4>2
      <4>4. r * worked[op] \in Nat /\ r * timestep'[op] \in Nat
        BY <1>2, <4>1, <4>2
      <4>5. mass_balance[op] <= r * worked[op]
        BY <3>1
      <4> HIDE DEF r
      <4>6. mass_balance'[op] + r * timestep'[op] <= r * worked'[op]
        BY <1>2, <2>1, <4>3, <4>4, <4>5
      <4> QED
        BY <3>2, <3>3, <4>6 DEF r
    <3>4. CASE ~IsActive(op)
      <4>1. worked'[op] = worked[op]
        BY <1>4, <3>4 DEF PrepareForModelStep
      <4> QED
        BY <1>2, <2>1, <3>1, <3>2, <3>4, <4>1
    <3> QED
      BY <3>3, <3>4
  <2> QED
    BY <1>0, <1>1, <2>1, <2>2 DEF AmountInv, CallsLeft, WithinRate
<1>5. CASE MoveElements
  <2>1. /\ phase = "move" /\ phase' = "weather" /\ calls' = CallsOfStep
        /\ UNCHANGED <<active, timestep, worked>>
    BY <1>5 DEF MoveElements
  <2>2. \A op \in Ops : mass_balance'[op] = mass_balance[op]
    BY <1>0, <1>5 DEF MoveElements, TypeOK, Ops
  <2>3. CallsLeft'
    BY <1>0, <1>1, <2>1, CallsType DEF CallsLeft, TypeOK
  <2>4. \A op \in Ops : Due(op)' => Due(op)
    BY <2>1 DEF Due
  <2>5. ASSUME setup.weathering_substeps = 1, NEW op \in Ops
        PROVE  mass_balance'[op]
                   + (IF Due(op)' THEN setup.plan[op].rate * timestep'[op] ELSE 0)
               <= setup.plan[op].rate * worked'[op]
    <3> DEFINE x == setup.plan[op].rate * timestep[op]
    <3>1. x \in Nat
      BY <1>2
    <3>2. mass_balance[op] + (IF Due(op) THEN x ELSE 0) <= setup.plan[op].rate * worked[op]
      BY <2>5 DEF AmountInv, WithinRate
    <3>3. setup.plan[op].rate * worked[op] \in Nat
      BY <1>2
    <3>4. timestep'[op] = timestep[op] /\ worked'[op] = worked[op]
      BY <2>1
    <3> HIDE DEF x
    <3>5. mass_balance'[op] + (IF Due(op)' THEN x ELSE 0) <= setup.plan[op].rate * worked[op]
      BY <1>2, <2>2, <2>4, <3>1, <3>2, <3>3
    <3> QED
      BY <3>4, <3>5 DEF x
  <2> QED
    BY <1>0, <1>1, <2>3, <2>5 DEF AmountInv, WithinRate
<1>6. CASE WeatherElements
  <2>0. PICK first \in Ops : first = Head(calls)
    BY <1>0, <1>6, WeatherStep
  <2>1. /\ phase = "weather" /\ calls' = Tail(calls)
        /\ UNCHANGED <<active, timestep, worked>>
    BY <1>6 DEF WeatherElements
  <2>2. CASE setup.weathering_substeps = 1
    <3>1. /\ first \in OpsOf(calls)
          /\ \A op \in Ops : op # first =>
                 (op \in OpsOf(calls)
                  <=> op \in OpsOf(calls'))
          /\ first \notin OpsOf(calls')
          /\ \/ phase' = "weather" /\ calls' \in {<<"skim", "burn">>, <<"burn">>}
             \/ phase' = "done" /\ calls' = <<>>
      BY <1>6, <2>0, <2>1, <2>2, FirstCall DEF AmountInv
    <3>2. CallsLeft'
      BY <3>1 DEF CallsLeft
    <3>3. ~Due(first)' /\ (Due(first) <=> active[first])
      BY <2>1, <3>1 DEF Due
    <3>4. ASSUME NEW op \in Ops, op # first
          PROVE  (Due(op)' => Due(op)) /\ mass_balance'[op] = mass_balance[op]
      <4>1. Due(op)' => Due(op)
        BY <2>1, <3>1, <3>4 DEF Due
      <4>2. mass_balance'[op] = mass_balance[op]
        <5>1. CASE UNCHANGED mass_balance
          BY <5>1
        <5>2. ASSUME NEW m \in Nat, mass_balance' = [mass_balance EXCEPT ![first] = @ + m]
              PROVE  mass_balance'[op] = mass_balance[op]
          BY <1>0, <3>4, <5>2 DEF TypeOK
        <5> QED
          BY <1>0, <1>6, <2>0, <5>1, <5>2, WeatherStep
      <4> QED
        BY <4>1, <4>2
    <3>5. mass_balance'[first] <= setup.plan[first].rate * worked[first]
      <4> DEFINE x == setup.plan[first].rate * timestep[first]
                 y == setup.plan[first].rate * worked[first]
      <4>1. x \in Nat /\ y \in Nat /\ mass_balance[first] \in Nat
        BY <1>2, <2>1
      <4>2. mass_balance[first] + (IF active[first] THEN x ELSE 0) <= y
        BY <2>1, <2>2, <3>3 DEF AmountInv, WithinRate
      <4>3. CASE UNCHANGED mass_balance
        <5> HIDE DEF x, y
        <5>1. mass_balance'[first] <= y
          BY <4>1, <4>2, <4>3
        <5> QED
          BY <5>1 DEF y
      <4>4. ASSUME NEW m \in Nat, active[first], m <= x,
                   mass_balance' = [mass_balance EXCEPT ![first] = @ + m]
            PROVE  mass_balance'[first] <= setup.plan[first].rate * worked[first]
        <5> HIDE DEF x, y
        <5>1. mass_balance'[first] = mass_balance[first] + m
          BY <1>0, <2>1, <4>4 DEF TypeOK
        <5>2. mass_balance'[first] <= y
          BY <4>1, <4>2, <4>4, <5>1
        <5> QED
          BY <5>2 DEF y
      <4> QED
        BY <1>0, <1>6, <2>0, <4>3, <4>4, WeatherStep
    <3>6. ASSUME NEW op \in Ops
          PROVE  mass_balance'[op]
                     + (IF Due(op)' THEN setup.plan[op].rate * timestep'[op] ELSE 0)
                 <= setup.plan[op].rate * worked'[op]
      <4> DEFINE x == setup.plan[op].rate * timestep[op]
                 y == setup.plan[op].rate * worked[op]
      <4>1. x \in Nat /\ y \in Nat /\ mass_balance[op] \in Nat
        BY <1>2
      <4>2. mass_balance[op] + (IF Due(op) THEN x ELSE 0) <= y
        BY <2>2 DEF AmountInv, WithinRate
      <4>3. timestep'[op] = timestep[op] /\ worked'[op] = worked[op]
        BY <2>1
      <4>5. mass_balance'[op] \in Nat
        BY <1>0 DEF TypeOK
      <4>6. op = first => mass_balance'[op] <= y
        BY <3>5
      <4>7. op = first => ~Due(op)'
        BY <3>3
      <4> HIDE DEF x, y
      <4>4. mass_balance'[op] + (IF Due(op)' THEN x ELSE 0) <= y
        <5>1. CASE op = first
          BY <4>1, <4>5, <4>6, <4>7, <5>1
        <5>2. CASE op # first
          BY <3>4, <4>1, <4>2, <5>2
        <5> QED
          BY <5>1, <5>2
      <4> QED
        BY <4>3, <4>4 DEF x, y
    <3> QED
      BY <1>0, <1>1, <3>2, <3>6 DEF AmountInv, WithinRate
  <2>3. CASE setup.weathering_substeps # 1
    BY <1>0, <1>1, <2>3 DEF AmountInv, CallsLeft, WithinRate
  <2> QED
    BY <2>2, <2>3
<1>7. CASE StepIsDone
  <2>1. /\ phase = "done" /\ phase' = "release_rest"
        /\ UNCHANGED <<timestep, mass_balance, worked>>
    BY <1>7 DEF StepIsDone
  <2>2. \A op \in Ops : ~Due(op) /\ ~Due(op)'
    BY <2>1 DEF Due
  <2> QED
    BY <1>0, <1>1, <2>1, <2>2 DEF AmountInv, CallsLeft, WithinRate
<1> QED
  BY <1>3, <1>4, <1>5, <1>6, <1>7 DEF Next

\* With one sub-step no operation removes more than its rate over its window,
\* for every plan, whatever it marks, loses to the shore and marks again.
THEOREM AmountsKept == Spec => []NeverMoreThanAmount
<1>1. ASSUME AmountInv PROVE NeverMoreThanAmount
  <2> SUFFICES ASSUME NEW op \in Ops, ~InsideStep(op), setup.weathering_substeps = 1
               PROVE  mass_balance[op] <= setup.plan[op].rate
                          * (setup.plan[op].stop - setup.plan[op].start)
    BY DEF NeverMoreThanAmount
  <2> DEFINE r == setup.plan[op].rate
             d == setup.plan[op].stop - setup.plan[op].start
  <2>1. TypeOK
    BY <1>1 DEF AmountInv, WindowInv, TypeInv
  <2>2. /\ r \in Nat /\ d \in Nat /\ worked[op] \in Nat /\ timestep[op] \in Nat
        /\ mass_balance[op] \in Nat
        /\ setup.plan[op].start \in Int /\ setup.plan[op].stop \in Int
    <3>1. /\ setup.plan[op].start \in Int /\ setup.plan[op].stop \in Int /\ r \in Nat
          /\ setup.plan[op].start < setup.plan[op].stop
      BY <2>1, SetupFacts DEF TypeOK
    <3>2. worked[op] \in Nat /\ timestep[op] \in Nat /\ mass_balance[op] \in Nat
      BY <2>1 DEF TypeOK
    <3> QED
      BY <3>1, <3>2
  <2>3. mass_balance[op] <= r * worked[op]
    <3> DEFINE x == r * timestep[op]
               y == r * worked[op]
    <3>1. x \in Nat /\ y \in Nat
      BY <2>2
    <3>2. mass_balance[op] + (IF Due(op) THEN x ELSE 0) <= y
      BY <1>1 DEF AmountInv, WithinRate
    <3> HIDE DEF x, y
    <3>3. mass_balance[op] <= y
      BY <2>2, <3>1, <3>2
    <3> QED
      BY <3>3 DEF y
  <2>4. worked[op] <= d
    <3>1. worked[op] = WindowUntil(op, Horizon)
      BY <1>1 DEF AmountInv, WindowInv, WorksItsWindow
    <3>2. Horizon \in Int
      BY <2>1, SetupFacts DEF Horizon, model_time, TypeOK
    <3> QED
      BY <2>2, <3>1, <3>2 DEF WindowUntil, Larger, Smaller
  <2>5. r * worked[op] <= r * d
    BY <2>2, <2>4, TimesMonotone
  <2>6. r * worked[op] \in Nat /\ r * d \in Nat
    BY <2>2
  <2> HIDE DEF r, d
  <2>7. mass_balance[op] <= r * d
    BY <2>2, <2>3, <2>5, <2>6
  <2> QED
    BY <2>7 DEF r, d
<1> QED
  BY <1>1, AmountInit, AmountNext, PTL DEF Spec

-----------------------------------------------------------------------------
(* The books.                                                              *)

\* Elements are released in the order of their numbers, and an element that
\* is not counted in off_maps takes no mass with it.
Released ==
    /\ \A e \in Elements : e > num_released => status[e] = "none"
    /\ mass_balance["off_maps"] = 0 =>
           \A e \in Elements : status[e] = "to_be_removed" => mass[e] = 0

BooksInv == TypeInv /\ Released /\ MassAccounted

LEMMA BooksInit == Init => BooksInv
<1> SUFFICES ASSUME Init PROVE BooksInv
  OBVIOUS
<1>1. TypeInv
  BY TypeInit
<1>2. Released
  BY DEF Init, Released
<1>3. Present = {}
  BY DEF Init, Present
<1>4. TotalMass(mass, Present) = 0
  <2>1. Units(mass, {}) = {}
    BY DEF Units
  <2> QED
    BY <1>3, <2>1, FS_EmptySet DEF TotalMass
<1>5. num_released * UnitMass = 0
  BY SizeAssumption DEF Init
<1>6. Booked = 0
  <2>1. /\ mass_balance["disperse"] = 0 /\ mass_balance["skim"] = 0
        /\ mass_balance["burn"] = 0
    BY DEF Init, Ops
  <2> QED
    BY <2>1 DEF Booked
<1>7. MassAccounted
  BY <1>4, <1>5, <1>6 DEF MassAccounted
<1> QED
  BY <1>1, <1>2, <1>7 DEF BooksInv

\* Elements that leave without mass leave the total as it is.
LEMMA BooksWeathered ==
    ASSUME TypeOK, Released, MassAccounted, WeatherElements
    PROVE  Released' /\ MassAccounted'
<1>1. /\ UNCHANGED <<num_released, status>> /\ Present' = Present
      /\ Present \in SUBSET Elements
  BY DEF WeatherElements, Present
<1>2. PICK op \in Ops : op = Head(calls)
  BY WeatherStep
<1>3. CASE UNCHANGED <<mass, mass_balance>>
  <2>1. TotalMass(mass, Present)' = TotalMass(mass, Present) /\ Booked' = Booked
    BY <1>1, <1>3 DEF TotalMass, Units, Booked
  <2> QED
    BY <1>1, <1>3, <2>1 DEF Released, MassAccounted
<1>4. ASSUME NEW m \in Nat, NEW view \in SUBSET Elements,
             view = Marked(fate_status, op), mass' \in Masses,
             \A e \in Elements : mass'[e] <= mass[e],
             \A e \in Elements \ view : mass'[e] = mass[e],
             TotalMass(mass, view) - TotalMass(mass', view) = m,
             mass_balance' = [mass_balance EXCEPT ![op] = @ + m]
      PROVE  Released' /\ MassAccounted'
  <2>1. mass_balance'["off_maps"] = mass_balance["off_maps"] /\ Booked' = Booked + m
    <3>1. mass_balance \in [Ops \cup {"off_maps"} -> Nat]
      BY DEF TypeOK
    <3>2. \A k \in Ops \cup {"off_maps"} :
              /\ mass_balance[k] \in Nat
              /\ mass_balance'[k] = IF k = op THEN mass_balance[k] + m ELSE mass_balance[k]
      BY <1>4, <3>1
    <3> QED
      BY <3>2 DEF Ops, Booked
  <2>2. Released'
    <3>1. ASSUME NEW e \in Elements, mass[e] = 0 PROVE mass'[e] = 0
      BY <1>4, <3>1, SizeAssumption DEF Masses
    <3> QED
      BY <1>1, <2>1, <3>1 DEF Released
  <2>3. MassAccounted'
    <3> DEFINE rest == Present \ view
    <3>1. view \subseteq Present
      BY <1>4 DEF Marked, Present
    <3>2. rest \in SUBSET Elements /\ view \cup rest = Present /\ view \cap rest = {}
      BY <1>1, <3>1
    <3>3. TotalMass(mass', rest) = TotalMass(mass, rest)
      BY <1>1, <1>4, MassLocal
    <3> HIDE DEF rest
    <3>4. /\ TotalMass(mass, Present) = TotalMass(mass, view) + TotalMass(mass, rest)
          /\ TotalMass(mass', Present) = TotalMass(mass', view) + TotalMass(mass', rest)
      BY <3>2, MassAdds
    <3>5. /\ TotalMass(mass, view) \in Nat /\ TotalMass(mass, rest) \in Nat
          /\ TotalMass(mass', view) \in Nat
      BY <3>2, UnitsFinite
    <3>6. TotalMass(mass', Present) + m = TotalMass(mass, Present)
      BY <1>4, <3>3, <3>4, <3>5
    <3>7. TotalMass(mass, Present)' = TotalMass(mass', Present)
      BY <1>1 DEF TotalMass, Units
    <3>8. Booked \in Nat /\ TotalMass(mass, Present) \in Nat
          /\ TotalMass(mass', Present) \in Nat
      BY <1>1, UnitsFinite DEF Booked, TypeOK, Ops
    <3>9. num_released * UnitMass \in Nat
      BY SizeAssumption DEF TypeOK
    <3>10. SUFFICES ASSUME mass_balance["off_maps"] = 0
                    PROVE  num_released * UnitMass = TotalMass(mass', Present) + (Booked + m)
      <4> HIDE DEF Booked
      <4> QED
        BY <1>1, <2>1, <3>7 DEF MassAccounted
    <3>11. num_released * UnitMass = TotalMass(mass, Present) + Booked
      BY <3>10 DEF MassAccounted
    <3> QED
      BY <1>4, <3>6, <3>8, <3>9, <3>11
  <2> QED
    BY <2>2, <2>3
<1> QED
  BY <1>2, <1>3, <1>4, WeatherStep

\* New elements bring their whole mass.
LEMMA BooksReleased ==
    ASSUME TypeOK, Released, MassAccounted, ReleaseElements
    PROVE  Released' /\ MassAccounted'
<1> USE SizeAssumption
<1> DEFINE new == (num_released + 1) .. num_released'
<1>1. /\ num_released' \in num_released .. NumElements
      /\ status' = [e \in Elements |-> IF e \in new THEN "in_water" ELSE status[e]]
      /\ mass' = [e \in Elements |-> IF e \in new THEN UnitMass ELSE mass[e]]
      /\ UNCHANGED mass_balance
  BY DEF ReleaseElements
<1>2. num_released \in Nat /\ num_released' \in Nat /\ num_released <= num_released'
      /\ num_released' <= NumElements
  BY <1>1 DEF TypeOK
<1>3. new \in SUBSET Elements /\ \A e \in new : e > num_released
  BY <1>2 DEF Elements
<1>4. ASSUME NEW e \in Elements, e > num_released', e \in new PROVE FALSE
  BY <1>2, <1>4
<1> HIDE DEF new
<1>5. \A e \in Elements : status[e] \in Statuses
  BY DEF TypeOK
<1>6. Present \in SUBSET Elements /\ Present \cap new = {}
  BY <1>3 DEF Present, Released
<1>7. Present' = Present \cup new
  BY <1>1, <1>3 DEF Present
<1>8. mass' \in Masses
  BY <1>1 DEF TypeOK, Masses
<1>9. TotalMass(mass, Present)' = TotalMass(mass', Present) + TotalMass(mass', new)
  <2>1. TotalMass(mass, Present)' = TotalMass(mass', Present \cup new)
    BY <1>7 DEF TotalMass, Units
  <2> QED
    BY <1>3, <1>6, <2>1, MassAdds
<1>10. TotalMass(mass', Present) = TotalMass(mass, Present)
  <2>1. \A e \in Present : mass'[e] = mass[e]
    BY <1>1, <1>6
  <2> QED
    BY <2>1, MassLocal
<1>11. TotalMass(mass', new) = (num_released' - num_released) * UnitMass
  <2>1. \A e \in new : mass'[e] = UnitMass
    BY <1>1, <1>3
  <2> QED
    BY <1>2, <1>8, <2>1, WholeMass DEF new
<1>12. Booked' = Booked /\ Booked \in Nat /\ TotalMass(mass, Present) \in Nat
  BY <1>1, <1>6, UnitsFinite DEF Booked, TypeOK, Ops
<1>13. num_released' * UnitMass
         = num_released * UnitMass + (num_released' - num_released) * UnitMass
  BY <1>2, TimesSplit
<1>14. /\ num_released * UnitMass \in Nat
       /\ (num_released' - num_released) * UnitMass \in Nat
  <2>1. num_released' - num_released \in Nat
    <3> DEFINE x == num_released
    <3> DEFINE y == num_released'
    <3>1. x \in Nat /\ y \in Nat /\ x <= y
      BY <1>2
    <3> HIDE DEF x, y
    <3>2. y - x \in Nat
      BY ONLY <3>1
    <3> QED
      BY ONLY <3>2 DEF x, y
  <2>2. UnitMass \in Nat
    BY SizeAssumption
  <2>3. num_released * UnitMass \in Nat
    BY ONLY <1>2, <2>2, TimesInNat
  <2>4. (num_released' - num_released) * UnitMass \in Nat
    <3> DEFINE d == num_released' - num_released
    <3>1. d \in Nat
      BY <2>1
    <3> HIDE DEF d
    <3> QED
      BY ONLY <2>2, <3>1, TimesInNat DEF d
  <2> QED
    BY <2>3, <2>4
<1>15. MassAccounted'
  <2> SUFFICES ASSUME mass_balance["off_maps"] = 0
               PROVE  num_released' * UnitMass = TotalMass(mass, Present)' + Booked'
    BY <1>1 DEF MassAccounted
  <2>1. mass_balance' = mass_balance
    BY <1>1
  <2>2. num_released * UnitMass = TotalMass(mass, Present) + Booked
    BY <2>1 DEF MassAccounted
  <2>3. TotalMass(mass, Present)' = TotalMass(mass, Present)
                                     + (num_released' - num_released) * UnitMass
    BY <1>9, <1>10, <1>11
  <2>4. num_released' * UnitMass
          = TotalMass(mass, Present) + Booked
            + (num_released' - num_released) * UnitMass
    BY <1>13, <2>2
  <2> QED
    BY <1>12, <1>14, <2>3, <2>4
<1>16. Released'
  <2>1. ASSUME NEW e \in Elements, e > num_released' PROVE status'[e] = "none"
    BY <1>1, <1>2, <1>4, <2>1 DEF Released, Elements
  <2>2. ASSUME mass_balance'["off_maps"] = 0, NEW e \in Elements,
               status'[e] = "to_be_removed"
        PROVE  mass'[e] = 0
    BY <1>1, <2>2 DEF Released
  <2> QED
    BY <2>1, <2>2 DEF Released
<1> QED
  BY <1>15, <1>16

\* An element that leaves the map is counted before it is taken off.
LEMMA BooksMoved ==
    ASSUME TypeOK, Released, MassAccounted, MoveElements
    PROVE  Released' /\ MassAccounted'
<1> DEFINE gone == {e \in Present : status'[e] = "to_be_removed"}
<1>1. /\ UNCHANGED <<num_released, mass>>
      /\ status' \in [Elements -> Statuses]
      /\ \A e \in Elements : e \in Present <=> status'[e] # "none"
      /\ mass_balance' = [mass_balance EXCEPT !["off_maps"] = @ + TotalMass(mass, gone)]
  BY DEF MoveElements
<1>2. Present' = Present /\ gone \in SUBSET Elements
  BY <1>1 DEF Present
<1>3. TotalMass(mass, gone) \in Nat
  BY <1>2, UnitsFinite
<1> HIDE DEF gone
<1>4. /\ mass_balance'["off_maps"] = mass_balance["off_maps"] + TotalMass(mass, gone)
      /\ mass_balance["off_maps"] \in Nat /\ Booked' = Booked
  BY <1>1, <1>3 DEF TypeOK, Ops, Booked
<1>5. mass_balance'["off_maps"] = 0 =>
          mass_balance["off_maps"] = 0 /\ TotalMass(mass, gone) = 0
  BY <1>3, <1>4
<1>6. TotalMass(mass, Present)' = TotalMass(mass, Present)
  BY <1>1, <1>2 DEF TotalMass, Units
<1>7. MassAccounted'
  BY <1>1, <1>4, <1>5, <1>6 DEF MassAccounted
<1>8. ASSUME mass_balance'["off_maps"] = 0, NEW e \in Elements,
             status'[e] = "to_be_removed"
      PROVE  mass'[e] = 0
  <2>1. e \in gone
    BY <1>1, <1>8 DEF gone
  <2>2. \A x \in gone : mass[x] = 0
    BY <1>2, <1>5, <1>8, NoMass DEF TypeOK, Masses
  <2> QED
    BY <1>1, <2>1, <2>2
<1>9. \A e \in Elements : e > num_released' => status'[e] = "none"
  BY <1>1 DEF Released, Present
<1> QED
  BY <1>7, <1>8, <1>9 DEF Released

\* The elements that are taken off have no mass, if none was counted.
LEMMA BooksDone ==
    ASSUME TypeOK, Released, MassAccounted, StepIsDone
    PROVE  Released' /\ MassAccounted'
<1> DEFINE gone == {e \in Elements : status[e] = "to_be_removed"}
<1>1. /\ UNCHANGED <<num_released, mass, mass_balance>>
      /\ status' = [e \in Elements |-> IF status[e] = "to_be_removed"
                                       THEN "none" ELSE status[e]]
  BY DEF StepIsDone
<1>2. /\ Present = Present' \cup gone /\ Present' \cap gone = {}
      /\ Present' \in SUBSET Elements /\ gone \in SUBSET Elements
  BY <1>1 DEF Present
<1> HIDE DEF gone
<1>3. TotalMass(mass, Present) = TotalMass(mass, Present') + TotalMass(mass, gone)
  BY <1>2, MassAdds
<1>4. TotalMass(mass, Present') \in Nat
  BY <1>2, UnitsFinite
<1>5. ASSUME mass_balance["off_maps"] = 0 PROVE TotalMass(mass, gone) = 0
  <2>1. \A e \in gone : mass[e] = 0
    BY <1>5 DEF Released, gone
  <2> QED
    BY <1>2, <2>1, NoMass DEF TypeOK, Masses
<1>6. TotalMass(mass, Present)' = TotalMass(mass, Present')
  BY <1>1 DEF TotalMass, Units
<1>7. MassAccounted'
  BY <1>1, <1>3, <1>4, <1>5, <1>6 DEF MassAccounted, Booked
<1>8. Released'
  BY <1>1 DEF Released
<1> QED
  BY <1>7, <1>8

LEMMA BooksNext == BooksInv /\ [Next]_vars => BooksInv'
<1> SUFFICES ASSUME TypeInv, TypeOK, Released, MassAccounted, [Next]_vars
             PROVE  Released' /\ MassAccounted'
  BY TypeNext DEF BooksInv, TypeInv
<1>1. CASE PrepareForModelStep
  <2>1. UNCHANGED <<num_released, status, mass, mass_balance>>
    BY <1>1 DEF PrepareForModelStep
  <2> QED
    BY <2>1 DEF Released, MassAccounted, Booked, Present, TotalMass, Units
<1>2. CASE UNCHANGED vars
  BY <1>2 DEF vars, arrays, Released, MassAccounted, Booked, Present, TotalMass, Units
<1> QED
  BY <1>1, <1>2, BooksReleased, BooksMoved, BooksWeathered, BooksDone DEF Next

\* While no mass has left the map, what was released is afloat, on land or
\* removed by one of the operations, to the unit: for every plan, any number
\* of elements, sub-steps and moves (weather_elements, model_step_is_done).
THEOREM MassIsAccounted == Spec => []MassAccounted
<1>1. BooksInv => MassAccounted
  BY DEF BooksInv
<1> QED
  BY <1>1, BooksInit, BooksNext, PTL DEF Spec

-----------------------------------------------------------------------------
(* Marks.                                                                  *)

\* Flags g are what an operation may make of flags f of an element afloat.
MarksKept(f, g) ==
    /\ Claimed(f) => Claimed(g)
    /\ "burn" \in f => g = {"burn"}

LEMMA MarkingKeeps ==
    ASSUME NEW f \in [Elements -> Fates], NEW op \in Ops, NEW e \in Elements
    PROVE  MarksKept(f[e], AfterMarking(f, op)[e])
<1>1. \/ AfterMarking(f, op)[e] = f[e]
      \/ "surface_weather" \in f[e] /\ AfterMarking(f, op)[e] = MarksOf[op]
  BY DEF AfterMarking, WithMarks, Marked
<1>2. MarksOf[op] \cap Ops # {}
  BY DEF MarksOf, Ops
<1>3. "burn" \in f[e] => f[e] = {"burn"}
  BY DEF Fates
<1>4. "burn" \in f[e] => "surface_weather" \notin f[e]
  BY <1>3
<1> QED
  BY <1>1, <1>2, <1>3, <1>4, Zenon DEF MarksKept, Claimed

\* So do the three operations one after the other.
LEMMA MarkingsKeep ==
    ASSUME NEW f \in [Elements -> Fates], NEW e \in Elements
    PROVE  LET g == AfterMarking(AfterMarking(AfterMarking(f, "disperse"),
                                              "skim"), "burn")
           IN  MarksKept(f[e], g[e])
<1> DEFINE f1 == AfterMarking(f, "disperse")
           f2 == AfterMarking(f1, "skim")
           f3 == AfterMarking(f2, "burn")
<1>1. {"disperse", "skim", "burn"} = Ops
  BY DEF Ops
<1>2. f1 \in [Elements -> Fates] /\ f2 \in [Elements -> Fates]
  BY <1>1, MarkingType
<1>3. /\ MarksKept(f[e], f1[e]) /\ MarksKept(f1[e], f2[e])
      /\ MarksKept(f2[e], f3[e])
  BY <1>1, <1>2, MarkingKeeps
<1> HIDE DEF f1, f2, f3
<1>4. MarksKept(f[e], f3[e])
  BY <1>3 DEF MarksKept
<1> QED
  BY <1>4 DEF f1, f2, f3

\* What the next step does to the marks of elements that stay afloat.
ClaimsHeld ==
    \A e \in Elements :
        status[e] = "in_water" /\ status'[e] = "in_water" =>
            MarksKept(fate_status[e], fate_status'[e])

LEMMA ClaimsNext == TypeOK /\ [Next]_vars => ClaimsHeld
<1> SUFFICES ASSUME TypeOK, [Next]_vars, NEW e \in Elements,
                    status[e] = "in_water", status'[e] = "in_water"
             PROVE  MarksKept(fate_status[e], fate_status'[e])
  BY DEF ClaimsHeld
<1>1. fate_status \in [Elements -> Fates]
  BY DEF TypeOK
<1>2. "burn" \in fate_status[e] =>
          fate_status[e] = {"burn"} /\ Claimed(fate_status[e])
  BY <1>1 DEF Fates, Claimed, Ops
<1>3. CASE UNCHANGED fate_status
  BY <1>2, <1>3 DEF MarksKept, Claimed
<1>4. CASE PrepareForModelStep
  <2>1. fate_status' = AfterMarking(AfterMarking(AfterMarking(
                           fate_status, "disperse"), "skim"), "burn")
    BY <1>4 DEF PrepareForModelStep
  <2> QED
    BY <1>1, <2>1, MarkingsKeep
<1>5. CASE MoveElements
  <2>1. fate_status'[e] = FateAfter("in_water", fate_status[e])
    BY <1>5 DEF MoveElements, Present
  <2>2. Claimed(fate_status[e]) => fate_status'[e] = fate_status[e]
    BY <2>1 DEF FateAfter
  <2> QED
    BY <1>2, <2>2 DEF MarksKept
<1> QED
  BY <1>3, <1>4, <1>5
     DEF Next, vars, arrays, ReleaseElements, WeatherElements, StepIsDone

\* No step of a run leaves a claimed element that stays in the water without
\* a claim, nor takes one from the burner, whatever the plans that compete
\* (_update_LE_status_codes, _update_fate_status).
THEOREM ClaimsStay == Spec => ClaimsKept
<1>1. TypeOK /\ [Next]_vars =>
          [\A e \in Elements :
              status[e] = "in_water" /\ status'[e] = "in_water" =>
                 /\ Claimed(fate_status[e]) => Claimed(fate_status'[e])
                 /\ "burn" \in fate_status[e] => fate_status'[e] = {"burn"}]_vars
  BY ClaimsNext DEF ClaimsHeld, MarksKept
<1> QED
  BY <1>1, TypeCorrect, PTL DEF Spec, ClaimsKept

-----------------------------------------------------------------------------
(* Elements on land.                                                       *)

\* While the operations are called an element on land has no marks.
Beached ==
    phase = "weather" =>
        \A e \in Elements : status[e] = "on_land" =>
                                fate_status[e] = {"non_weather"}

LandInv == BooksInv /\ Beached

LEMMA LandInit == Init => LandInv
  BY BooksInit DEF Init, LandInv, Beached

LEMMA LandNext == LandInv /\ [Next]_vars => LandInv'
<1> SUFFICES ASSUME LandInv, [Next]_vars PROVE Beached'
  BY BooksNext DEF LandInv
<1>1. TypeOK
  BY DEF LandInv, BooksInv, TypeInv
<1>2. CASE MoveElements
  <2> SUFFICES ASSUME NEW e \in Elements, status'[e] = "on_land"
               PROVE  fate_status'[e] = {"non_weather"}
    BY DEF Beached
  <2>1. e \in Present
    BY <1>2 DEF MoveElements
  <2> QED
    BY <1>2, <2>1 DEF MoveElements, FateAfter
<1>3. CASE WeatherElements
  BY <1>3 DEF WeatherElements, LandInv, Beached
<1>4. CASE UNCHANGED vars
  BY <1>4 DEF vars, arrays, LandInv, Beached
<1>5. CASE ReleaseElements \/ PrepareForModelStep \/ StepIsDone
  <2>1. phase' # "weather"
    BY <1>5 DEF ReleaseElements, PrepareForModelStep, StepIsDone
  <2> QED
    BY <2>1 DEF Beached
<1> QED
  BY <1>2, <1>3, <1>4, <1>5 DEF Next

\* No operation takes mass off an element on land, marked though it was when
\* it beached (_update_fate_status comes before weather_elements).
THEOREM LandIsUntouched == Spec => LandUntouched
<1>1. LandInv /\ [Next]_vars =>
          [\A e \in Elements : status[e] = "on_land" => mass'[e] = mass[e]]_vars
  <2> SUFFICES ASSUME LandInv, [Next]_vars, NEW e \in Elements,
                      status[e] = "on_land"
               PROVE  mass'[e] = mass[e]
    OBVIOUS
  <2>1. TypeOK /\ Released /\ Beached
    BY DEF LandInv, BooksInv, TypeInv
  <2>2. CASE UNCHANGED mass
    BY <2>2
  <2>3. CASE WeatherElements
    <3>1. Head(calls) \in Ops /\ phase = "weather"
      BY <2>1, <2>3, WeatherStep
    <3>2. e \notin Marked(fate_status, Head(calls))
      <4>1. fate_status[e] = {"non_weather"}
        BY <2>1, <3>1 DEF Beached
      <4>2. Head(calls) # "non_weather"
        BY <3>1 DEF Ops
      <4> QED
        BY <4>1, <4>2 DEF Marked
    <3>3. CASE UNCHANGED <<mass, mass_balance>>
      BY <3>3
    <3>4. CASE ~UNCHANGED <<mass, mass_balance>>
      <4>1. \A x \in Elements \ Marked(fate_status, Head(calls)) :
                mass'[x] = mass[x]
        BY <2>1, <2>3, <3>4, WeatherStep
      <4> QED
        BY <3>2, <4>1
    <3> QED
      BY <3>3, <3>4
  <2>4. CASE ReleaseElements
    <3>1. PICK n \in num_released .. NumElements :
              mass' = [x \in Elements |-> IF x \in (num_released + 1) .. n
                                          THEN UnitMass ELSE mass[x]]
      BY <2>4 DEF ReleaseElements
    <3>2. ~(e > num_released)
      BY <2>1 DEF Released
    <3>3. e \notin (num_released + 1) .. n
      BY <2>1, <3>2, SizeAssumption DEF TypeOK, Elements
    <3> QED
      BY <3>1, <3>3
  <2> QED
    BY <2>2, <2>3, <2>4
       DEF Next, vars, arrays, PrepareForModelStep, MoveElements, StepIsDone
<1> QED
  BY <1>1, LandInit, LandNext, PTL DEF Spec, LandUntouched
=============================================================================
