---------------------- MODULE MCReleaseSchedule_proofs ---------------------
(***************************************************************************)
(* What the runs over small releases check, for releases of any length,    *)
(* any number of elements and any time step.                               *)
(***************************************************************************)
EXTENDS MCReleaseSchedule, ReleaseSchedule_proofs

Watched ==
    /\ release \in Releases
    /\ ts \in Nat /\ ts > 0
    /\ clock \in Int

LEMMA WatchedRelease ==
    ASSUME Watched
    PROVE  IsRelease(release)
  BY BoundsAssumption DEF Watched, Releases, IsRelease

LEMMA WatchedInit == Init => Watched
  <1> SUFFICES ASSUME Init PROVE Watched
    OBVIOUS
  <1>1. ts \in Nat /\ ts > 0
    BY BoundsAssumption DEF Init
  <1>2. release.begin \in Int
    BY DEF Init, Releases
  <1>3. clock \in Int
    BY <1>2, BoundsAssumption DEF Init
  <1> QED
    BY <1>1, <1>3 DEF Init, Watched

LEMMA WatchedNext == Watched /\ [Tick]_vars => Watched'
  BY DEF Watched, Tick, vars

LEMMA WatchedAlways == Spec => []Watched
  BY WatchedInit, WatchedNext, PTL DEF Spec

\* All the elements of a release are out at its end and never more than all;
\* before it begins there are none.
THEOREM MassIsComplete == Spec => []AllReleasedAtEnd
  <1>1. Watched => AllReleasedAtEnd
    <2> SUFFICES ASSUME Watched PROVE AllReleasedAtEnd
      OBVIOUS
    <2>1. /\ IsRelease(release) /\ ts \in Nat /\ ts > 0 /\ clock \in Int
          /\ clock + 0 = clock /\ ts # 0
      BY WatchedRelease DEF Watched
    <2>2. /\ release.begin \in Int /\ release.end \in Int
          /\ release.begin <= release.end
      BY <2>1 DEF IsRelease
    <2>3. Due = IF clock < release.begin THEN 0
                ELSE ScheduleAt(release, ts, clock)
      BY <2>1 DEF Due, NumElementsAfterTime
    <2>4. ScheduleAt(release, ts, clock) \in 0 .. MaxRelease(release, ts)
      BY <2>1, ScheduleBounded
    <2>5. clock >= release.end =>
              ScheduleAt(release, ts, clock) = MaxRelease(release, ts)
      BY <2>1, <2>2, ScheduleComplete
    <2>6. MaxRelease(release, ts) \in Nat
      BY <2>1, MaxReleaseNat
    <2> QED
      BY <2>1, <2>2, <2>3, <2>4, <2>5, <2>6 DEF AllReleasedAtEnd
  <1> QED
    BY <1>1, WatchedAlways, PTL

\* As the clock runs the schedule never falls: a half step's release cannot
\* overshoot the whole step's.
THEOREM ScheduleNeverFalls == Spec => NeverTakesBack
  <1>1. Watched /\ Watched' /\ [Tick]_vars =>
            [NumElementsAfterTime(release, ts, clock', 0) >= Due]_vars
    <2> SUFFICES ASSUME Watched, Watched', Tick
                 PROVE  NumElementsAfterTime(release, ts, clock', 0) >= Due
      BY DEF vars
    <2> DEFINE next == clock'
    <2>1. /\ IsRelease(release) /\ ts \in Nat /\ ts > 0 /\ clock \in Int
          /\ next \in Int /\ clock <= next /\ next + 0 = next
          /\ clock + 0 = clock
      BY WatchedRelease DEF Watched, Tick
    <2> HIDE DEF next
    <2>2. release.begin \in Int
      BY <2>1 DEF IsRelease
    <2>3. /\ ScheduleAt(release, ts, clock) \in Int
          /\ ScheduleAt(release, ts, next) \in 0 .. MaxRelease(release, ts)
      BY <2>1, ScheduleBounded
    <2>4. ScheduleAt(release, ts, clock) <= ScheduleAt(release, ts, next)
      BY <2>1, ScheduleMonotone
    <2>5. NumElementsAfterTime(release, ts, next, 0) >= Due
      BY <2>1, <2>2, <2>3, <2>4 DEF Due, NumElementsAfterTime
    <2> QED
      BY <2>5 DEF next
  <1> QED
    BY <1>1, WatchedAlways, PTL DEF Spec, NeverTakesBack

-----------------------------------------------------------------------------
(* The samples and what is read at them                                    *)

LEMMA SampleTimesApart ==
    ASSUME NEW r, IsRelease(r), NEW t \in Nat, t > 0,
           NEW i \in 0 .. NumReleaseTimeSteps(r, t),
           NEW j \in 0 .. NumReleaseTimeSteps(r, t), i < j
    PROVE  SampleTime(r, t, i) < SampleTime(r, t, j)
  <1> DEFINE n == NumReleaseTimeSteps(r, t)
  <1>1. n \in Nat /\ n >= 1 /\ r.begin \in Int /\ r.end \in Int
        /\ r.begin <= r.end
    BY NumStepsPositive DEF IsRelease
  <1>2. SampleTime(r, t, i) = r.begin + t * i
    BY <1>1 DEF SampleTime
  <1>3. SampleTime(r, t, j - 1) < SampleTime(r, t, j)
        /\ SampleTime(r, t, j) \in Int
    BY <1>1, SampleTimesIncrease
  <1>4. SampleTime(r, t, j - 1) = r.begin + t * (j - 1)
    BY <1>1 DEF SampleTime
  <1>5. t * i <= t * (j - 1)
    <2> DEFINE k == (j - 1) - i
    <2>1. k \in Nat /\ j - 1 = i + k
      BY <1>1
    <2>2. t * (i + k) = t * i + t * k /\ t * k \in Nat /\ t * i \in Nat
      BY <1>1, <2>1
    <2> QED
      BY <2>1, <2>2
  <1>6. t * i \in Int /\ t * (j - 1) \in Int
    BY <1>1
  <1> QED
    BY <1>1, <1>2, <1>3, <1>4, <1>5, <1>6

\* At a sample's time the schedule is the sample.
LEMMA ScheduleAtSample ==
    ASSUME NEW r, IsRelease(r), NEW t \in Nat, t > 0,
           NEW i \in 0 .. NumReleaseTimeSteps(r, t)
    PROVE  /\ SampleTime(r, t, i) \in Int
           /\ r.begin <= SampleTime(r, t, i)
           /\ ScheduleAt(r, t, SampleTime(r, t, i)) = SampleData(r, t, i)
  <1> DEFINE n    == NumReleaseTimeSteps(r, t)
             T(j) == SampleTime(r, t, j)
  <1>1. n \in Nat /\ n >= 1 /\ r.begin \in Int
    BY NumStepsPositive DEF IsRelease
  <1>2. T(0) = r.begin
    BY <1>1 DEF SampleTime
  <1>3. \A j \in 0 .. n : T(j) \in Int
    <2>1. ASSUME NEW j \in 1 .. n PROVE T(j) \in Int
      BY SampleTimesIncrease
    <2> QED
      BY <1>1, <1>2, <2>1
  <1>4. \A j, k \in 0 .. n : j < k => T(j) < T(k)
    BY SampleTimesApart
  <1>5. CASE i = 0
    <2>1. r.begin < T(n)
      BY <1>1, <1>2, <1>4
    <2>2. ~(r.begin > T(n)) /\ r.begin <= r.begin
      BY <1>1, <1>3, <2>1
    <2>3. ScheduleAt(r, t, r.begin) = SampleData(r, t, 0)
      BY <2>2 DEF ScheduleAt
    <2> QED
      BY <1>1, <1>2, <1>5, <2>3
  <1>6. CASE i # 0
    <2>1. T(i) \in Int /\ r.begin < T(i) /\ T(i) <= T(n)
      <3>1. T(i) \in Int /\ T(0) < T(i)
        BY <1>1, <1>3, <1>4, <1>6
      <3>2. i < n => T(i) < T(n)
        BY <1>1, <1>4
      <3>3. T(n) \in Int /\ (i = n \/ i < n)
        BY <1>1, <1>3
      <3> HIDE DEF T
      <3> QED
        BY <1>1, <1>2, <3>1, <3>2, <3>3
    <2> DEFINE k == SampleIndex(r, t, T(i))
    <2>2. k \in 1 .. n /\ T(k - 1) < T(i) /\ T(i) <= T(k)
      BY <2>1, SampleIndexHolds
    <2>3. /\ T(i) = T(k) => ScheduleAt(r, t, T(i)) = SampleData(r, t, k)
      BY <2>1, Interpolated
    <2> HIDE DEF k, T
    <2>4. k - 1 \in 0 .. n /\ k \in 0 .. n /\ i \in 0 .. n
      BY <1>1, <2>2
    <2>5. T(k) \in Int /\ T(k - 1) \in Int
      BY <1>3, <2>4
    <2>6. ~(k < i)
      BY <1>4, <2>1, <2>2, <2>4, <2>5
    <2>7. ~(i < k - 1) /\ i # k - 1
      BY <1>4, <2>1, <2>2, <2>4, <2>5
    <2>8. k = i
      BY <1>1, <2>4, <2>6, <2>7
    <2> QED
      BY <1>1, <2>1, <2>3, <2>8 DEF T
  <1> QED
    BY <1>5, <1>6

\* With as many elements as time steps each sample is above the one before.
LEMMA SampleDataApart ==
    ASSUME NEW r, IsRelease(r), NEW t \in Nat, t > 0,
           ~Instantaneous(r), EnoughElements(r, t),
           NEW i \in 1 .. NumReleaseTimeSteps(r, t)
    PROVE  SampleData(r, t, i) > SampleData(r, t, i - 1)
  <1> DEFINE n == NumReleaseTimeSteps(r, t)
             m == MaxRelease(r, t)
  <1>1. n \in Nat /\ n >= 1 /\ m \in Nat /\ r.n \in Nat
    BY NumStepsPositive, MaxReleaseNat DEF IsRelease
  <1>2. m >= n
    <2>1. CASE r.perStep
      <3>1. r.n >= 1 /\ m = r.n * n
        BY <2>1 DEF EnoughElements, MaxRelease
      <3> DEFINE x == r.n - 1
      <3>2. x \in Nat /\ r.n = x + 1 /\ x * n \in Nat
        BY <1>1, <3>1
      <3>3. (x + 1) * n = x * n + n
        BY <1>1, <3>2
      <3> QED
        BY <1>1, <3>1, <3>2, <3>3
    <2>2. CASE ~r.perStep
      BY <2>2 DEF EnoughElements, MaxRelease
    <2> QED
      BY <2>1, <2>2
  <1>3. /\ SampleData(r, t, i) = (m * i) \div n
        /\ SampleData(r, t, i - 1) = (m * (i - 1)) \div n
    BY DEF SampleData
  <1> HIDE DEF m, n
  <1> DEFINE a == m * (i - 1)
             q == a \div n
  <1>4. i \in Nat /\ i - 1 \in Nat
    BY <1>1 DEF n
  <1>5. a \in Nat /\ m * i = a + m /\ m * i \in Int
    BY <1>1, <1>4
  <1>6. q \in Int /\ n * q <= a
    BY <1>1, <1>5, DivDef
  <1> HIDE DEF a, q
  <1>7. n * (q + 1) <= m * i
    <2>1. n * (q + 1) = n * q + n /\ n * q \in Int
      BY <1>1, <1>6
    <2> QED
      BY <1>1, <1>2, <1>5, <1>6, <2>1
  <1>8. (m * i) \div n >= q + 1 /\ (m * i) \div n \in Int
    BY <1>1, <1>5, <1>6, <1>7, DivLower, DivDef
  <1> QED
    BY <1>3, <1>6, <1>8 DEF a, q

\* The samples are strictly increasing times and whole numbers of elements
\* from none to all, for releases of any size.
THEOREM SamplesAreWellFormed == Spec => []SamplesWellFormed
  <1>1. Watched => SamplesWellFormed
    BY WatchedRelease, SampleTimesIncrease, SampleDataIncreases
       DEF Watched, SamplesWellFormed
  <1> QED
    BY <1>1, WatchedAlways, PTL

\* At the release's own time steps exactly the sample is due.
THEOREM SamplesAreExact == Spec => []SampledExactly
  <1>1. Watched => SampledExactly
    <2> SUFFICES ASSUME Watched,
                        NEW i \in 0 .. NumReleaseTimeSteps(release, ts),
                        clock = SampleTime(release, ts, i)
                 PROVE  Due = SampleData(release, ts, i)
      BY DEF SampledExactly
    <2>1. IsRelease(release) /\ ts \in Nat /\ ts > 0 /\ clock \in Int
          /\ release.begin \in Int
      BY WatchedRelease DEF Watched, IsRelease
    <2>2. /\ release.begin <= clock
          /\ ScheduleAt(release, ts, clock) = SampleData(release, ts, i)
      BY <2>1, ScheduleAtSample
    <2>3. ts # 0 /\ ~(clock < release.begin) /\ clock + 0 = clock
      BY <2>1, <2>2
    <2> QED
      BY <2>2, <2>3 DEF Due, NumElementsAfterTime
  <1> QED
    BY <1>1, WatchedAlways, PTL

\* A release that set-up lets pass releases something in each of its steps.
THEOREM StepsRelease == Spec => []EveryStepReleases
  <1> DEFINE Enough == Watched /\ EnoughElements(release, ts)
  <1>1. Init => Enough
    BY WatchedInit DEF Init
  <1>2. Enough /\ [Tick]_vars => Enough'
    BY WatchedNext DEF Tick, vars, EnoughElements
  <1>3. Enough => EveryStepReleases
    <2> SUFFICES ASSUME Enough, ~Instantaneous(release),
                        NEW i \in 1 .. NumReleaseTimeSteps(release, ts)
                 PROVE  ScheduleAt(release, ts, SampleTime(release, ts, i))
                          > ScheduleAt(release, ts,
                                       SampleTime(release, ts, i - 1))
      BY DEF EveryStepReleases
    <2>1. IsRelease(release) /\ ts \in Nat /\ ts > 0
          /\ NumReleaseTimeSteps(release, ts) \in Nat
      BY WatchedRelease, NumStepsPositive DEF Watched
    <2>2. /\ i \in 0 .. NumReleaseTimeSteps(release, ts)
          /\ i - 1 \in 0 .. NumReleaseTimeSteps(release, ts)
      BY <2>1
    <2>3. /\ ScheduleAt(release, ts, SampleTime(release, ts, i))
                 = SampleData(release, ts, i)
          /\ ScheduleAt(release, ts, SampleTime(release, ts, i - 1))
                 = SampleData(release, ts, i - 1)
      BY <2>1, <2>2, ScheduleAtSample
    <2>4. SampleData(release, ts, i) > SampleData(release, ts, i - 1)
      BY <2>1, SampleDataApart
    <2> QED
      BY <2>3, <2>4
  <1> QED
    BY <1>1, <1>2, <1>3, PTL DEF Spec
=============================================================================
