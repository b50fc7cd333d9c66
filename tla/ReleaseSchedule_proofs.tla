----------------------- MODULE ReleaseSchedule_proofs ----------------------
(***************************************************************************)
(* Facts about the release schedule that hold for every release and every  *)
(* time step: its sample times increase, so the interpolation never        *)
(* divides by zero, and it stays between none and all of the elements.     *)
(***************************************************************************)
EXTENDS ReleaseSchedule, TLAPS

LEMMA DivDef ==
    ASSUME NEW a \in Int, NEW b \in Nat, b > 0
    PROVE  /\ a \div b \in Int
           /\ b * (a \div b) <= a
           /\ a < b * (a \div b) + b
  OBVIOUS

\* A quotient is at most q when the dividend is less than b * (q + 1).
LEMMA DivUpper ==
    ASSUME NEW a \in Int, NEW b \in Nat, b > 0, NEW q \in Int,
           a < b * (q + 1)
    PROVE  a \div b <= q
  <1> DEFINE d == a \div b
  <1>1. d \in Int /\ b * d <= a
    BY DivDef
  <1> HIDE DEF d
  <1>2. SUFFICES ASSUME d >= q + 1 PROVE FALSE
    BY <1>1 DEF d
  <1>3. b * d >= b * (q + 1)
    BY <1>1, <1>2
  <1> QED
    BY <1>1, <1>3

\* A quotient is at least q when b * q is at most the dividend.
LEMMA DivLower ==
    ASSUME NEW a \in Int, NEW b \in Nat, b > 0, NEW q \in Int, b * q <= a
    PROVE  a \div b >= q
  <1> DEFINE d == a \div b
  <1>1. d \in Int /\ a < b * d + b
    BY DivDef
  <1> HIDE DEF d
  <1>2. SUFFICES ASSUME d + 1 <= q PROVE FALSE
    BY <1>1 DEF d
  <1>3. b * (d + 1) <= b * q
    BY <1>1, <1>2
  <1>4. b * (d + 1) = b * d + b
    BY <1>1
  <1> QED
    BY <1>1, <1>3, <1>4

\* Rounding up: the smallest multiple of b that is not below a.
LEMMA CeilDivDef ==
    ASSUME NEW a \in Int, NEW b \in Nat, b > 0
    PROVE  /\ CeilDiv(a, b) \in Int
           /\ a <= b * CeilDiv(a, b)
           /\ b * (CeilDiv(a, b) - 1) < a
  <1> DEFINE d == (a + b - 1) \div b
  <1>1. d \in Int /\ b * d <= a + b - 1 /\ a + b - 1 < b * d + b
    BY DivDef, a + b - 1 \in Int
  <1>2. CeilDiv(a, b) = d
    BY DEF CeilDiv
  <1> HIDE DEF d
  <1>3. b * (d - 1) = b * d - b
    BY <1>1
  <1> QED
    BY <1>1, <1>2, <1>3

\* A release lasts at least one time step.
LEMMA NumStepsPositive ==
    ASSUME NEW r, IsRelease(r), NEW ts \in Nat, ts > 0
    PROVE  /\ NumReleaseTimeSteps(r, ts) \in Nat
           /\ NumReleaseTimeSteps(r, ts) >= 1
  <1> DEFINE d == r.end - r.begin
             c == CeilDiv(d, ts)
  <1>1. d \in Nat
    BY DEF IsRelease
  <1>2. c \in Int /\ d <= ts * c
    BY <1>1, CeilDivDef
  <1> HIDE DEF d, c
  <1>3. d > 0 => c >= 1
    <2>1. SUFFICES ASSUME d > 0, c <= 0 PROVE FALSE
      BY <1>1, <1>2
    <2>2. ts * c <= 0
      BY <2>1, <1>2
    <2> QED
      BY <2>1, <2>2, <1>1, <1>2
  <1> QED
    BY <1>1, <1>2, <1>3
       DEF NumReleaseTimeSteps, Instantaneous, ReleaseDuration, d, c

\* The time series has strictly increasing times.
LEMMA SampleTimesIncrease ==
    ASSUME NEW r, IsRelease(r), NEW ts \in Nat, ts > 0,
           NEW i \in 1 .. NumReleaseTimeSteps(r, ts)
    PROVE  /\ SampleTime(r, ts, i - 1) \in Int
           /\ SampleTime(r, ts, i) \in Int
           /\ SampleTime(r, ts, i - 1) < SampleTime(r, ts, i)
  <1> DEFINE n == NumReleaseTimeSteps(r, ts)
  <1>1. n \in Nat /\ n >= 1 /\ i \in 1 .. n
    BY NumStepsPositive
  <1>2. r.begin \in Int /\ r.end \in Int /\ r.begin <= r.end
    BY DEF IsRelease
  <1>3. SampleTime(r, ts, i - 1) = r.begin + ts * (i - 1)
    BY <1>1 DEF SampleTime
  <1>4. CASE i < n
    <2>1. SampleTime(r, ts, i) = r.begin + ts * i
      BY <1>4 DEF SampleTime
    <2>2. ts * (i - 1) = ts * i - ts /\ ts * i \in Int
      BY <1>1
    <2> QED
      BY <1>2, <1>3, <2>1, <2>2
  <1>5. CASE i = n /\ Instantaneous(r)
    <2>1. n = 1
      BY <1>5 DEF NumReleaseTimeSteps
    <2>2. SampleTime(r, ts, i) = r.end + 1
      BY <1>5 DEF SampleTime
    <2>3. SampleTime(r, ts, i - 1) = r.begin
      BY <1>2, <1>3, <1>5, <2>1
    <2> QED
      BY <1>2, <2>2, <2>3
  <1>6. CASE i = n /\ ~Instantaneous(r)
    <2> DEFINE d == r.end - r.begin
    <2>1. n = CeilDiv(d, ts) /\ d \in Nat
      BY <1>2, <1>6 DEF NumReleaseTimeSteps, ReleaseDuration
    <2>2. ts * (n - 1) < d /\ ts * (n - 1) \in Int
      BY <1>1, <2>1, CeilDivDef
    <2>3. SampleTime(r, ts, i) = r.end
      BY <1>6 DEF SampleTime
    <2> QED
      BY <1>2, <1>3, <1>6, <2>2, <2>3
  <1> QED
    BY <1>1, <1>4, <1>5, <1>6

-----------------------------------------------------------------------------
(* The samples                                                             *)

LEMMA MaxReleaseNat ==
    ASSUME NEW r, IsRelease(r), NEW ts \in Nat, ts > 0
    PROVE  MaxRelease(r, ts) \in Nat
  BY NumStepsPositive DEF MaxRelease, IsRelease

\* The samples are whole numbers from none to all, and do not decrease.
LEMMA SampleDataIncreases ==
    ASSUME NEW r, IsRelease(r), NEW ts \in Nat, ts > 0,
           NEW i \in 1 .. NumReleaseTimeSteps(r, ts)
    PROVE  /\ SampleData(r, ts, i - 1) \in 0 .. MaxRelease(r, ts)
           /\ SampleData(r, ts, i) \in 0 .. MaxRelease(r, ts)
           /\ SampleData(r, ts, i - 1) <= SampleData(r, ts, i)
  <1> DEFINE n == NumReleaseTimeSteps(r, ts)
             m == MaxRelease(r, ts)
             a == m * (i - 1)
             b == m * i
  <1>1. n \in Nat /\ n >= 1 /\ i \in 1 .. n /\ m \in Nat
    BY NumStepsPositive, MaxReleaseNat
  <1>2. CASE Instantaneous(r)
    BY <1>1, <1>2 DEF SampleData
  <1>3. CASE ~Instantaneous(r)
    <2>1. SampleData(r, ts, i - 1) = a \div n /\ SampleData(r, ts, i) = b \div n
      BY <1>3 DEF SampleData
    <2>2. a \in Int /\ b \in Int /\ b = a + m
      BY <1>1
    <2>3. n * 0 <= a
      BY <1>1, <2>2
    <2>4. b < n * (m + 1)
      <3>1. m * i <= m * n
        BY <1>1
      <3>2. n * (m + 1) = m * n + n
        BY <1>1
      <3> QED
        BY <1>1, <2>2, <3>1, <3>2
    <2> HIDE DEF n, m, a, b
    <2>5. a \div n \in Int /\ b \div n \in Int /\ n * (a \div n) <= a
      BY <1>1, <2>2, DivDef
    <2>6. a \div n >= 0
      BY <1>1, <2>2, <2>3, DivLower
    <2>7. b \div n <= m
      BY <1>1, <2>2, <2>4, DivUpper
    <2>8. b \div n >= a \div n
      BY <1>1, <2>2, <2>5, DivLower
    <2> QED
      BY <1>1, <2>1, <2>5, <2>6, <2>7, <2>8 DEF n, m
  <1> QED
    BY <1>2, <1>3

\* The last sample is the whole release.
LEMMA LastSample ==
    ASSUME NEW r, IsRelease(r), NEW ts \in Nat, ts > 0
    PROVE  SampleData(r, ts, NumReleaseTimeSteps(r, ts)) = MaxRelease(r, ts)
  <1> DEFINE n == NumReleaseTimeSteps(r, ts)
             m == MaxRelease(r, ts)
  <1>1. n \in Nat /\ n >= 1 /\ m \in Nat
    BY NumStepsPositive, MaxReleaseNat
  <1> HIDE DEF n, m
  <1>2. m * n \in Int /\ n * m <= m * n /\ m * n < n * (m + 1)
    BY <1>1
  <1>3. (m * n) \div n = m
    BY <1>1, <1>2, DivLower, DivUpper, DivDef
  <1> QED
    BY <1>3 DEF SampleData, n, m

-----------------------------------------------------------------------------
(* The interpolated schedule                                               *)

\* A part of a whole number, rounded up, is none to all of it.
LEMMA CeilPart ==
    ASSUME NEW d \in Nat, NEW w \in Nat, w > 0, NEW x \in 0 .. w
    PROVE  /\ CeilDiv(d * x, w) \in 0 .. d
           /\ x = w => CeilDiv(d * x, w) = d
  <1> DEFINE a == d * x
             c == CeilDiv(a, w)
  <1>1. a \in Int /\ 0 <= a /\ a <= w * d
    BY d * x <= d * w
  <1>2. c \in Int /\ a <= w * c /\ w * (c - 1) < a
    BY <1>1, CeilDivDef
  <1> HIDE DEF a, c
  <1>3. c >= 0
    <2>1. SUFFICES ASSUME c <= -1 PROVE FALSE
      BY <1>2
    <2>2. w * c <= w * (-1)
      BY <1>2, <2>1
    <2> QED
      BY <1>1, <1>2, <2>2
  <1>4. c <= d
    <2>1. SUFFICES ASSUME c - 1 >= d PROVE FALSE
      BY <1>2
    <2>2. w * (c - 1) >= w * d
      BY <1>2, <2>1
    <2>3. w * (c - 1) \in Int /\ w * d \in Int
      BY <1>2
    <2> QED
      BY <1>1, <1>2, <2>2, <2>3
  <1>5. ASSUME x = w PROVE c >= d
    <2>1. SUFFICES ASSUME c + 1 <= d PROVE FALSE
      BY <1>2
    <2>2. w * (c + 1) <= w * d /\ w * (c + 1) = w * c + w
      BY <1>2, <2>1
    <2>3. a = w * d
      BY <1>5 DEF a
    <2>4. w * c \in Int /\ w * d \in Int
      BY <1>2
    <2> QED
      BY <1>1, <1>2, <2>2, <2>3, <2>4
  <1> QED
    BY <1>2, <1>3, <1>4, <1>5 DEF a, c

\* The interval that index_of finds holds the time.
LEMMA SampleIndexHolds ==
    ASSUME NEW r, IsRelease(r), NEW ts \in Nat, ts > 0, NEW t \in Int,
           r.begin < t, t <= SampleTime(r, ts, NumReleaseTimeSteps(r, ts))
    PROVE  /\ SampleIndex(r, ts, t) \in 1 .. NumReleaseTimeSteps(r, ts)
           /\ SampleTime(r, ts, SampleIndex(r, ts, t) - 1) < t
           /\ t <= SampleTime(r, ts, SampleIndex(r, ts, t))
  <1> DEFINE n == NumReleaseTimeSteps(r, ts)
             c == CeilDiv(t - r.begin, ts)
             i == SampleIndex(r, ts, t)
  <1>1. n \in Nat /\ n >= 1
    BY NumStepsPositive
  <1>2. r.begin \in Int /\ t - r.begin \in Nat /\ t - r.begin > 0
    BY DEF IsRelease
  <1>3. c \in Int /\ t - r.begin <= ts * c /\ ts * (c - 1) < t - r.begin
    <2> DEFINE x == t - r.begin
    <2>1. x \in Int
      BY <1>2
    <2> HIDE DEF x
    <2>2. /\ CeilDiv(x, ts) \in Int /\ x <= ts * CeilDiv(x, ts)
          /\ ts * (CeilDiv(x, ts) - 1) < x
      BY <2>1, CeilDivDef
    <2> QED
      BY <2>2 DEF x
  <1>4. ts * (n - 1) \in Int
    BY <1>1
  <1> HIDE DEF n, c
  <1>5. CASE t > r.begin + ts * (n - 1)
    <2>1. i = n
      BY <1>5 DEF SampleIndex, n
    <2>2. SampleTime(r, ts, n - 1) = r.begin + ts * (n - 1)
      BY <1>1 DEF SampleTime, n
    <2> QED
      BY <1>1, <1>5, <2>1, <2>2 DEF n
  <1>6. CASE ~(t > r.begin + ts * (n - 1))
    <2>1. i = c
      BY <1>6 DEF SampleIndex, n, c
    <2>2. c >= 1
      <3>1. SUFFICES ASSUME c <= 0 PROVE FALSE
        BY <1>3
      <3>2. ts * c <= 0
        BY <1>3, <3>1
      <3> QED
        BY <1>2, <1>3, <3>2
    <2>3. c <= n - 1
      <3>1. SUFFICES ASSUME c - 1 >= n - 1 PROVE FALSE
        BY <1>1, <1>3
      <3>2. ts * (c - 1) >= ts * (n - 1) /\ ts * (c - 1) \in Int
        BY <1>1, <1>3, <3>1
      <3> QED
        BY <1>2, <1>3, <1>4, <1>6, <3>2
    <2>4. /\ SampleTime(r, ts, c - 1) = r.begin + ts * (c - 1)
          /\ SampleTime(r, ts, c) = r.begin + ts * c
      BY <1>1, <1>3, <2>2, <2>3 DEF SampleTime, n
    <2>5. ts * c \in Int /\ ts * (c - 1) \in Int
      BY <1>3
    <2> QED
      BY <1>1, <1>2, <1>3, <2>1, <2>2, <2>3, <2>4, <2>5 DEF n
  <1> QED
    BY <1>5, <1>6

\* Inside the samples the schedule lies between the two samples around it,
\* and reaches the right one at its time.
LEMMA Interpolated ==
    ASSUME NEW r, IsRelease(r), NEW ts \in Nat, ts > 0, NEW t \in Int,
           r.begin < t, t <= SampleTime(r, ts, NumReleaseTimeSteps(r, ts))
    PROVE  LET i == SampleIndex(r, ts, t)
           IN  /\ ScheduleAt(r, ts, t)
                      \in SampleData(r, ts, i - 1) .. SampleData(r, ts, i)
               /\ t = SampleTime(r, ts, i) =>
                      ScheduleAt(r, ts, t) = SampleData(r, ts, i)
  <1> DEFINE i  == SampleIndex(r, ts, t)
             t0 == SampleTime(r, ts, i - 1)
             t1 == SampleTime(r, ts, i)
             d0 == SampleData(r, ts, i - 1)
             d1 == SampleData(r, ts, i)
             n  == NumReleaseTimeSteps(r, ts)
  <1>1. i \in 1 .. n /\ t0 < t /\ t <= t1
    BY SampleIndexHolds
  <1>2. t0 \in Int /\ t1 \in Int
    BY <1>1, SampleTimesIncrease
  <1>3. d0 \in Int /\ d1 \in Int /\ d0 <= d1
    BY <1>1, SampleDataIncreases, MaxReleaseNat
  <1>4. r.begin \in Int
    BY DEF IsRelease
  <1>5. ~(t > SampleTime(r, ts, n)) /\ ~(t <= r.begin)
    <2>1. n \in 1 .. n
      BY NumStepsPositive
    <2>2. SampleTime(r, ts, n) \in Int
      BY <2>1, SampleTimesIncrease
    <2> QED
      BY <1>4, <2>2
  <1>6. ScheduleAt(r, ts, t) = d0 + CeilDiv((d1 - d0) * (t - t0), t1 - t0)
    BY <1>5 DEF ScheduleAt
  <1> HIDE DEF t0, t1, d0, d1
  <1>7. /\ CeilDiv((d1 - d0) * (t - t0), t1 - t0) \in 0 .. (d1 - d0)
        /\ t - t0 = t1 - t0 =>
               CeilDiv((d1 - d0) * (t - t0), t1 - t0) = d1 - d0
    <2>1. /\ d1 - d0 \in Nat /\ t1 - t0 \in Nat /\ t1 - t0 > 0
          /\ t - t0 \in 0 .. (t1 - t0)
      BY <1>1, <1>2, <1>3
    <2> QED
      BY <2>1, CeilPart
  <1> QED
    BY <1>2, <1>3, <1>6, <1>7 DEF t0, t1, d0, d1

\* The schedule stays between none and all of the elements of the release.
THEOREM ScheduleBounded ==
    ASSUME NEW r, IsRelease(r), NEW ts \in Nat, ts > 0, NEW t \in Int
    PROVE  ScheduleAt(r, ts, t) \in 0 .. MaxRelease(r, ts)
  <1> DEFINE n == NumReleaseTimeSteps(r, ts)
             i == SampleIndex(r, ts, t)
  <1>1. n \in 1 .. n /\ 1 \in 1 .. n
    BY NumStepsPositive
  <1>2. SampleTime(r, ts, n) \in Int /\ r.begin \in Int
    BY <1>1, SampleTimesIncrease DEF IsRelease
  <1>3. CASE t > SampleTime(r, ts, n)
    <2>1. ScheduleAt(r, ts, t) = SampleData(r, ts, n)
      BY <1>3 DEF ScheduleAt
    <2> QED
      BY <1>1, <2>1, SampleDataIncreases
  <1>4. CASE ~(t > SampleTime(r, ts, n)) /\ t <= r.begin
    <2>1. ScheduleAt(r, ts, t) = SampleData(r, ts, 0)
      BY <1>4 DEF ScheduleAt
    <2>2. SampleData(r, ts, 1 - 1) \in 0 .. MaxRelease(r, ts)
      BY <1>1, SampleDataIncreases
    <2> QED
      BY <2>1, <2>2
  <1>5. CASE t <= SampleTime(r, ts, n) /\ r.begin < t
    <2>1. ScheduleAt(r, ts, t) \in SampleData(r, ts, i - 1) .. SampleData(r, ts, i)
      BY <1>5, Interpolated
    <2>2. i \in 1 .. n
      BY <1>5, SampleIndexHolds
    <2>3. /\ SampleData(r, ts, i - 1) \in 0 .. MaxRelease(r, ts)
          /\ SampleData(r, ts, i) \in 0 .. MaxRelease(r, ts)
      BY <2>2, SampleDataIncreases
    <2> HIDE DEF i
    <2> QED
      BY <2>1, <2>3, MaxReleaseNat
  <1> QED
    BY <1>2, <1>3, <1>4, <1>5

\* At the end of the release, and ever after, all of it is out.
THEOREM ScheduleComplete ==
    ASSUME NEW r, IsRelease(r), NEW ts \in Nat, ts > 0, NEW t \in Int,
           r.end <= t
    PROVE  ScheduleAt(r, ts, t) = MaxRelease(r, ts)
  <1> DEFINE n == NumReleaseTimeSteps(r, ts)
             i == SampleIndex(r, ts, t)
  <1>1. n \in 1 .. n /\ n \in Nat
    BY NumStepsPositive
  <1>2. SampleTime(r, ts, n) = IF Instantaneous(r) THEN r.end + 1 ELSE r.end
    BY <1>1 DEF SampleTime
  <1>3. r.begin \in Int /\ r.end \in Int /\ r.begin <= r.end
    BY DEF IsRelease
  <1>4. CASE t > SampleTime(r, ts, n)
    <2>1. ScheduleAt(r, ts, t) = SampleData(r, ts, n)
      BY <1>4 DEF ScheduleAt
    <2> QED
      BY <2>1, LastSample
  <1>5. CASE t <= SampleTime(r, ts, n) /\ t <= r.begin
    <2>1. ScheduleAt(r, ts, t) = SampleData(r, ts, 0)
      BY <1>2, <1>3, <1>5 DEF ScheduleAt
    <2>2. Instantaneous(r)
      BY <1>3, <1>5 DEF Instantaneous, ReleaseDuration
    <2> QED
      BY <2>1, <2>2 DEF SampleData
  <1>6. CASE t <= SampleTime(r, ts, n) /\ r.begin < t
    <2>1. i \in 1 .. n /\ t <= SampleTime(r, ts, i)
      BY <1>6, SampleIndexHolds
    <2>2. t = SampleTime(r, ts, n)
      BY <1>2, <1>3, <1>6, Instantaneous(r) => r.begin = r.end
         DEF Instantaneous, ReleaseDuration
    <2>3. i = n
      <3>1. r.begin + ts * (n - 1) < SampleTime(r, ts, n)
        <4>1. SampleTime(r, ts, n - 1) < SampleTime(r, ts, n)
          BY <1>1, SampleTimesIncrease
        <4>2. SampleTime(r, ts, n - 1) = r.begin + ts * (n - 1)
          BY <1>1 DEF SampleTime
        <4> QED
          BY <4>1, <4>2
      <3>2. r.begin + ts * (n - 1) \in Int
        BY <1>1, <1>3
      <3> QED
        BY <2>2, <3>1, <3>2 DEF SampleIndex
    <2>4. ScheduleAt(r, ts, t) = SampleData(r, ts, n)
      BY <1>6, <2>2, <2>3, Interpolated
    <2> QED
      BY <2>4, LastSample
  <1>7. SampleTime(r, ts, n) \in Int
    BY <1>2, <1>3
  <1> QED
    BY <1>3, <1>4, <1>5, <1>6, <1>7

\* What the containers rely on: the number prescribed is never negative.
LEMMA NumElementsNat ==
    ASSUME NEW r, IsRelease(r), NEW ts \in Nat, NEW t \in Int, NEW dt \in Int
    PROVE  NumElementsAfterTime(r, ts, t, dt) \in Nat
  <1>1. CASE ts = 0
    BY <1>1 DEF NumElementsAfterTime
  <1>2. CASE ts > 0
    <2>1. ScheduleAt(r, ts, t + dt) \in 0 .. MaxRelease(r, ts)
      BY <1>2, ScheduleBounded
    <2> QED
      BY <2>1 DEF NumElementsAfterTime
  <1> QED
    BY <1>1, <1>2

-----------------------------------------------------------------------------
(* The schedule never falls                                                *)

LEMMA SampleDataMonotone ==
    ASSUME NEW r, IsRelease(r), NEW ts \in Nat, ts > 0,
           NEW i \in 0 .. NumReleaseTimeSteps(r, ts),
           NEW j \in 0 .. NumReleaseTimeSteps(r, ts), i <= j
    PROVE  SampleData(r, ts, i) <= SampleData(r, ts, j)
  <1> DEFINE n == NumReleaseTimeSteps(r, ts)
             m == MaxRelease(r, ts)
             a == m * i
             b == m * j
  <1>1. n \in Nat /\ n >= 1 /\ m \in Nat
    BY NumStepsPositive, MaxReleaseNat
  <1>2. CASE Instantaneous(r)
    BY <1>1, <1>2 DEF SampleData
  <1>3. CASE ~Instantaneous(r)
    <2>1. a \in Int /\ b \in Int /\ a <= b
      BY <1>1
    <2>2. SampleData(r, ts, i) = a \div n /\ SampleData(r, ts, j) = b \div n
      BY <1>3 DEF SampleData
    <2> HIDE DEF a, b, n
    <2>3. a \div n \in Int /\ b \div n \in Int /\ n * (a \div n) <= a
      BY <1>1, <2>1, DivDef
    <2>4. n * (a \div n) \in Int
      BY <1>1, <2>3
    <2>5. b \div n >= a \div n
      BY <1>1, <2>1, <2>3, <2>4, DivLower
    <2> QED
      BY <2>2, <2>3, <2>5
  <1> QED
    BY <1>2, <1>3

LEMMA CeilDivMonotone ==
    ASSUME NEW a \in Int, NEW b \in Int, a <= b, NEW w \in Nat, w > 0
    PROVE  CeilDiv(a, w) <= CeilDiv(b, w)
  <1> DEFINE c == CeilDiv(a, w)
             d == CeilDiv(b, w)
  <1>1. /\ c \in Int /\ w * (c - 1) < a
        /\ d \in Int /\ b <= w * d
    BY CeilDivDef
  <1> HIDE DEF c, d
  <1>2. SUFFICES ASSUME d <= c - 1 PROVE FALSE
    BY <1>1 DEF c, d
  <1>3. w * d <= w * (c - 1) /\ w * d \in Int /\ w * (c - 1) \in Int
    BY <1>1, <1>2
  <1> QED
    BY <1>1, <1>3

LEMMA SampleIndexMonotone ==
    ASSUME NEW r, IsRelease(r), NEW ts \in Nat, ts > 0,
           NEW t \in Int, NEW u \in Int, r.begin < t, t <= u,
           u <= SampleTime(r, ts, NumReleaseTimeSteps(r, ts)),
           t <= SampleTime(r, ts, NumReleaseTimeSteps(r, ts))
    PROVE  SampleIndex(r, ts, t) <= SampleIndex(r, ts, u)
  <1> DEFINE n == NumReleaseTimeSteps(r, ts)
             i == SampleIndex(r, ts, t)
             j == SampleIndex(r, ts, u)
  <1>1. r.begin \in Int /\ n \in Nat
    BY NumStepsPositive DEF IsRelease
  <1>2. i \in 1 .. n /\ SampleTime(r, ts, i - 1) < t
    BY SampleIndexHolds
  <1>3. j \in 1 .. n /\ u <= SampleTime(r, ts, j)
    BY <1>1, SampleIndexHolds
  <1> HIDE DEF n, i, j
  <1>4. SUFFICES ASSUME j <= i - 1 PROVE FALSE
    BY <1>1, <1>2, <1>3 DEF i, j
  <1>5. /\ SampleTime(r, ts, j) = r.begin + ts * j
        /\ SampleTime(r, ts, i - 1) = r.begin + ts * (i - 1)
    BY <1>1, <1>2, <1>3, <1>4 DEF SampleTime, n
  <1>6. ts * j <= ts * (i - 1) /\ ts * j \in Int /\ ts * (i - 1) \in Int
    BY <1>1, <1>2, <1>3, <1>4
  <1> QED
    BY <1>1, <1>2, <1>3, <1>5, <1>6

\* Inside one interval the interpolation does not fall.
LEMMA InterpolationMonotone ==
    ASSUME NEW d \in Nat, NEW w \in Nat, w > 0,
           NEW x \in Nat, NEW y \in Nat, x <= y
    PROVE  CeilDiv(d * x, w) <= CeilDiv(d * y, w)
  <1> DEFINE a == d * x
             b == d * y
  <1>1. a \in Int /\ b \in Int /\ a <= b
    OBVIOUS
  <1> HIDE DEF a, b
  <1>2. CeilDiv(a, w) <= CeilDiv(b, w)
    BY <1>1, CeilDivMonotone
  <1> QED
    BY <1>2 DEF a, b

\* The schedule never falls: whatever has been released for an earlier time
\* is at most what a later time prescribes.
THEOREM ScheduleMonotone ==
    ASSUME NEW r, IsRelease(r), NEW ts \in Nat, ts > 0,
           NEW t \in Int, NEW u \in Int, t <= u
    PROVE  ScheduleAt(r, ts, t) <= ScheduleAt(r, ts, u)
  <1> DEFINE n == NumReleaseTimeSteps(r, ts)
             i == SampleIndex(r, ts, t)
             j == SampleIndex(r, ts, u)
  <1>1. n \in 1 .. n /\ 0 \in 0 .. n /\ 1 \in 1 .. n /\ n \in Nat
    BY NumStepsPositive
  <1>2. SampleTime(r, ts, n) \in Int /\ r.begin \in Int
    BY <1>1, SampleTimesIncrease DEF IsRelease
  <1>3. r.begin <= SampleTime(r, ts, n)
    BY <1>1 DEF SampleTime, IsRelease
  <1>4. CASE u > SampleTime(r, ts, n)
    <2>1. ScheduleAt(r, ts, u) = MaxRelease(r, ts)
      BY <1>4, LastSample DEF ScheduleAt
    <2>2. ScheduleAt(r, ts, t) \in 0 .. MaxRelease(r, ts)
      BY ScheduleBounded
    <2> QED
      BY <2>1, <2>2, MaxReleaseNat
  <1>5. CASE u <= r.begin
    <2>1. /\ ScheduleAt(r, ts, t) = SampleData(r, ts, 0)
          /\ ScheduleAt(r, ts, u) = SampleData(r, ts, 0)
      BY <1>2, <1>3, <1>5 DEF ScheduleAt
    <2>2. SampleData(r, ts, 1 - 1) \in Int
      BY <1>1, SampleDataIncreases, MaxReleaseNat
    <2> QED
      BY <2>1, <2>2
  <1>6. CASE r.begin < u /\ u <= SampleTime(r, ts, n)
    <2>1. /\ j \in 1 .. n
          /\ ScheduleAt(r, ts, u) \in SampleData(r, ts, j - 1) .. SampleData(r, ts, j)
      BY <1>6, SampleIndexHolds, Interpolated
    <2>2. SampleData(r, ts, j - 1) \in Int /\ SampleData(r, ts, j) \in Int
      BY <2>1, SampleDataIncreases, MaxReleaseNat
    <2>3. CASE t <= r.begin
      <3>1. ScheduleAt(r, ts, t) = SampleData(r, ts, 0)
        BY <1>2, <1>3, <2>3 DEF ScheduleAt
      <3>2. SampleData(r, ts, 0) <= SampleData(r, ts, j - 1)
        <4>1. j - 1 \in 0 .. n /\ 0 <= j - 1
          BY <1>1, <2>1
        <4> HIDE DEF j, n
        <4> QED
          BY <1>1, <4>1, SampleDataMonotone DEF n
      <3>3. SampleData(r, ts, 1 - 1) \in Int
        BY <1>1, SampleDataIncreases, MaxReleaseNat
      <3> HIDE DEF j
      <3> QED
        BY <2>1, <2>2, <3>1, <3>2, <3>3
    <2>4. CASE r.begin < t
      <3>1. t <= SampleTime(r, ts, n)
        BY <1>2, <1>6
      <3>2. /\ i \in 1 .. n
            /\ ScheduleAt(r, ts, t) \in SampleData(r, ts, i - 1) .. SampleData(r, ts, i)
            /\ SampleTime(r, ts, i - 1) < t
        BY <2>4, <3>1, SampleIndexHolds, Interpolated
      <3>3. SampleData(r, ts, i - 1) \in Int /\ SampleData(r, ts, i) \in Int
        BY <3>2, SampleDataIncreases, MaxReleaseNat
      <3>4. i <= j
        BY <1>6, <2>4, <3>1, SampleIndexMonotone
      <3>5. CASE i < j
        <4>1. SampleData(r, ts, i) <= SampleData(r, ts, j - 1)
          <5>1. i \in 0 .. n /\ j - 1 \in 0 .. n /\ i <= j - 1
            BY <1>1, <2>1, <3>2, <3>5
          <5> HIDE DEF i, j, n
          <5> QED
            BY <5>1, SampleDataMonotone DEF n
        <4> HIDE DEF i, j
        <4> QED
          BY <2>1, <2>2, <3>2, <3>3, <4>1
      <3>6. CASE i = j
        <4> DEFINE t0 == SampleTime(r, ts, i - 1)
                   t1 == SampleTime(r, ts, i)
                   d  == SampleData(r, ts, i) - SampleData(r, ts, i - 1)
                   w  == t1 - t0
                   x  == t - t0
                   y  == u - t0
        <4>1. t0 \in Int /\ t1 \in Int /\ t0 < t1
          BY <3>2, SampleTimesIncrease
        <4>2. d \in Nat
          BY <3>2, <3>3, SampleDataIncreases
        <4>3. ScheduleAt(r, ts, t) = SampleData(r, ts, i - 1) + CeilDiv(d * x, w)
          BY <1>2, <2>4, <3>1 DEF ScheduleAt
        <4>4. ScheduleAt(r, ts, u) = SampleData(r, ts, i - 1) + CeilDiv(d * y, w)
          BY <1>2, <1>6, <3>6 DEF ScheduleAt
        <4>5. w \in Nat /\ w > 0 /\ x \in Nat /\ y \in Nat /\ x <= y
          BY <3>2, <4>1
        <4> HIDE DEF d, w, x, y
        <4>6. CeilDiv(d * x, w) <= CeilDiv(d * y, w)
          BY <4>2, <4>5, InterpolationMonotone
        <4>7. CeilDiv(d * x, w) \in Int /\ CeilDiv(d * y, w) \in Int
          <5>1. d * x \in Int /\ d * y \in Int
            BY <4>2, <4>5
          <5> DEFINE a == d * x
                     b == d * y
          <5> HIDE DEF a, b
          <5>2. CeilDiv(a, w) \in Int /\ CeilDiv(b, w) \in Int
            BY <4>5, <5>1, CeilDivDef DEF a, b
          <5> QED
            BY <5>2 DEF a, b
        <4> QED
          BY <3>3, <4>3, <4>4, <4>6, <4>7
      <3> QED
        BY <2>1, <3>2, <3>4, <3>5, <3>6
    <2> QED
      BY <1>2, <2>3, <2>4
  <1> QED
    BY <1>2, <1>4, <1>5, <1>6
=============================================================================
