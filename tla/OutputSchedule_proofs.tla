----------------------- MODULE OutputSchedule_proofs -----------------------
(***************************************************************************)
(* Proofs about OutputSchedule, for every start time, time step, duration  *)
(* and configuration of the outputter:                                     *)
(*                                                                         *)
(*   NeverStale         what the cache returns is of the run under way     *)
(*   WrittenOnSchedule  a run writes the steps of its schedule             *)
(*   PostRunFollowsRun  and so does the output after it                    *)
(*                                                                         *)
(* The outputter keeps the time since its last output and two flags; what  *)
(* they are after step k of a run is Kept(k, w), and the proofs show that  *)
(* preparing and writing take Kept(k, .) to Kept(k + 1, .).                *)
(***************************************************************************)
EXTENDS OutputSchedule, ReleaseSchedule_proofs, WellFoundedInduction

-----------------------------------------------------------------------------
(* Numbers: a quotient and its remainder, and the least of a set.          *)

LEMMA ModDef ==
    ASSUME NEW a \in Int, NEW b \in Nat, b > 0
    PROVE  a % b \in 0 .. b - 1 /\ a = b * (a \div b) + (a % b)
<1>1. a % b = a - b * (a \div b)
  OBVIOUS
<1>2. a % b \in 0 .. b - 1
  OBVIOUS
<1>3. b * (a \div b) \in Int
  BY DivDef
<1> QED
  BY <1>1, <1>2, <1>3

\* A quotient with its remainder is the quotient.
LEMMA DivUnique ==
    ASSUME NEW a \in Int, NEW b \in Nat, b > 0, NEW q \in Int,
           NEW r \in 0 .. b - 1, a = b * q + r
    PROVE  a \div b = q /\ a % b = r
<1>1. b * q <= a /\ a < b * (q + 1)
  OBVIOUS
<1>2. a \div b >= q /\ a \div b <= q
  BY <1>1, DivUpper, DivLower
<1>3. a \div b = q
  BY <1>2, DivDef
<1> QED
  BY <1>3, ModDef

\* What is left of a period is all that need be kept to know when the next
\* one ends.
LEMMA NextPeriod ==
    ASSUME NEW e \in Nat, e > 0, NEW a \in Nat, NEW d \in Nat, d > 0
    PROVE  /\ a % e \in Nat
           /\ (a % e) + d >= e <=> (a + d) \div e > a \div e
           /\ ((a % e) + d) % e = (a + d) % e
<1> DEFINE q == a \div e   r == a % e
           s == r + d      p == s \div e   t == s % e
<1>1. q \in Int /\ r \in 0 .. e - 1 /\ a = e * q + r
  BY ModDef, DivDef
<1>2. s \in Nat /\ s >= 1
  BY <1>1
<1>3. p \in Int /\ t \in 0 .. e - 1 /\ s = e * p + t
  BY <1>2, ModDef, DivDef
<1>4. s >= e <=> p > 0
  <2>1. s >= e => p >= 1
    BY <1>2, DivLower
  <2>2. s < e => p <= 0
    BY <1>2, DivUpper
  <2> HIDE DEF s, p
  <2> QED
    BY <1>2, <1>3, <2>1, <2>2
<1> HIDE DEF q, p, t
<1>5. a + d = e * (q + p) + t
  <2>1. a + d = e * q + s
    BY <1>1
  <2>2. e * (q + p) = e * q + e * p
    BY <1>1, <1>3
  <2> HIDE DEF s
  <2> QED
    BY <1>1, <1>2, <1>3, <2>1, <2>2
<1>6. (a + d) \div e = q + p /\ (a + d) % e = t
  BY <1>1, <1>3, <1>5, DivUnique
<1> HIDE DEF s, r
<1>7. (a + d) \div e > q <=> p > 0
  BY <1>1, <1>3, <1>6
<1> QED
  BY <1>1, <1>4, <1>6, <1>7 DEF q, r, s, t, p

\* The order of the numbers, as a set of pairs.
Before == {p \in Nat \X Nat : p[1] < p[2]}

LEMMA Least ==
    ASSUME NEW T \in SUBSET Nat, T # {}
    PROVE  \E m \in T : \A i \in T : m <= i
<1>1. OpToRel(<, Nat) = Before
  BY Zenon DEF OpToRel, Before
<1>2. IsWellFoundedOn(Before, Nat)
  BY <1>1, NatLessThanWellFounded, Zenon
<1>3. PICK m \in T : \A i \in T : ~ (<<i, m>> \in Before)
  BY <1>2, WFMin, Zenon
<1>4. ASSUME NEW i \in T PROVE m <= i
  <2>1. m \in Nat /\ i \in Nat /\ <<i, m>> \notin Before
    BY <1>3
  <2>2. ~(i < m)
    BY <2>1 DEF Before
  <2> QED
    BY <2>1, <2>2
<1> QED
  BY <1>3, <1>4

-----------------------------------------------------------------------------
(* The first step that is due.                                             *)

\* FirstDue of an output start c, in a run of n steps of s seconds from t.
FirstOf(c, t, s, n) ==
    IF c = None \/ c = t THEN 0
    ELSE CHOOSE k \in 1 .. n + 1 :
            /\ t + k * s >= c \/ k = n + 1
            /\ \A j \in 1 .. k - 1 : t + j * s < c

LEMMA Monotone ==
    ASSUME NEW t \in Int, NEW s \in Nat, s > 0, NEW j \in Nat, NEW k \in Nat, j < k
    PROVE  t + j * s < t + k * s /\ t + (j + 1) * s = (t + j * s) + s
OBVIOUS

\* The steps from the first due one on are those at or after the output
\* start.
LEMMA FirstSplits ==
    ASSUME NEW c, c # None, NEW t \in Int, c \in Int, c # t,
           NEW s \in Nat, s > 0, NEW n \in Nat
    PROVE  /\ FirstOf(c, t, s, n) \in 1 .. n + 1
           /\ \A k \in 1 .. n : FirstOf(c, t, s, n) <= k <=> t + k * s >= c
<1> DEFINE Q(k) == t + k * s >= c \/ k = n + 1
           T == {k \in 1 .. n + 1 : Q(k)}
           F == FirstOf(c, t, s, n)
<1>1. T \in SUBSET Nat /\ n + 1 \in T
  OBVIOUS
<1>2. PICK m \in T : \A i \in T : m <= i
  <2> HIDE DEF T
  <2> QED
    BY <1>1, Least
<1>3. \A j \in 1 .. m - 1 : t + j * s < c
  <2> TAKE j \in 1 .. m - 1
  <2>1. j \in 1 .. n + 1 /\ ~(m <= j)
    OBVIOUS
  <2>2. j \notin T
    BY <1>2, <2>1
  <2>3. ~(t + j * s >= c) /\ j * s \in Int
    BY <2>1, <2>2
  <2> QED
    BY <2>3
<1>4. /\ F \in 1 .. n + 1 /\ Q(F)
      /\ \A j \in 1 .. F - 1 : t + j * s < c
  <2>1. m \in 1 .. n + 1 /\ Q(m)
    OBVIOUS
  <2> HIDE DEF Q, T
  <2>2. F = CHOOSE k \in 1 .. n + 1 : Q(k) /\ \A j \in 1 .. k - 1 : t + j * s < c
    BY DEF FirstOf, Q
  <2> HIDE DEF F
  <2> QED
    BY <1>3, <2>1, <2>2
<1> HIDE DEF F, T
<1>5. ASSUME NEW k \in 1 .. n, F <= k PROVE t + k * s >= c
  <2>1. t + F * s >= c
    BY <1>4, <1>5
  <2>2. F = k \/ t + F * s < t + k * s
    BY <1>4, <1>5, Monotone
  <2>3. t + F * s \in Int /\ t + k * s \in Int
    BY <1>4
  <2> QED
    BY <2>1, <2>2, <2>3
<1>6. ASSUME NEW k \in 1 .. n, t + k * s >= c PROVE F <= k
  <2>1. SUFFICES ASSUME k < F PROVE FALSE
    BY <1>4
  <2>2. k \in 1 .. F - 1
    BY <1>4, <2>1
  <2>3. t + k * s < c /\ t + k * s \in Int
    BY <1>4, <2>2
  <2> QED
    BY <1>6, <2>3
<1> QED
  BY <1>4, <1>5, <1>6 DEF F

\* A run that is made longer has the same first due step, if it was in the
\* run.
LEMMA FirstStays ==
    ASSUME NEW c \in Int \cup {None}, NEW t \in Int, NEW s \in Nat, s > 0,
           NEW n \in Nat, NEW m \in Nat, n <= m, NEW k \in 0 .. n
    PROVE  /\ FirstOf(c, t, s, n) \in Nat /\ FirstOf(c, t, s, m) \in Nat
           /\ FirstOf(c, t, s, n) <= k <=> FirstOf(c, t, s, m) <= k
           /\ FirstOf(c, t, s, n) <= k => FirstOf(c, t, s, m) = FirstOf(c, t, s, n)
<1> DEFINE F == FirstOf(c, t, s, n)
           G == FirstOf(c, t, s, m)
<1>1. CASE c = None \/ c = t
  BY <1>1 DEF FirstOf
<1>2. CASE ~(c = None \/ c = t)
  <2>1. F \in 1 .. n + 1 /\ \A j \in 1 .. n : F <= j <=> t + j * s >= c
    BY <1>2, FirstSplits
  <2>2. G \in 1 .. m + 1 /\ \A j \in 1 .. m : G <= j <=> t + j * s >= c
    BY <1>2, FirstSplits
  <2> HIDE DEF F, G
  <2>3. \A j \in 1 .. n : F <= j <=> G <= j
    <3>1. \A j \in 1 .. n : j \in 1 .. m
      OBVIOUS
    <3> QED
      BY <2>1, <2>2, <3>1
  <2>4. \A j \in 0 .. n : F <= j <=> G <= j
    <3> TAKE j \in 0 .. n
    <3>1. CASE j = 0
      BY <2>1, <2>2, <3>1
    <3>2. CASE j # 0
      BY <2>3, <3>2
    <3> QED
      BY <3>1, <3>2
  <2>5. ASSUME F <= k PROVE G = F
    <3>1. F \in 0 .. n /\ F <= F
      BY <2>1, <2>5
    <3>2. G <= F
      BY <2>4, <3>1
    <3>3. G \in 0 .. n /\ G <= G
      BY <2>2, <3>1, <3>2
    <3>4. F <= G
      BY <2>4, <3>3
    <3> QED
      BY <2>1, <2>2, <3>2, <3>4
  <2>6. F \in Nat /\ G \in Nat
    BY <2>1, <2>2
  <2> QED
    BY <2>4, <2>5, <2>6 DEF F, G
<1> QED
  BY <1>1, <1>2

-----------------------------------------------------------------------------
(* The outputter from step to step.                                        *)

\* What holds of the run and of the histories.
RunHolds ==
    /\ start_time \in StartTimes
    /\ time_step \in TimeSteps
    /\ duration \in Durations
    /\ num_time_steps = NumTimeSteps(duration, time_step)
    /\ config \in OutputConfigs
    /\ current_time_step \in -1 .. num_time_steps - 1
    /\ written \subseteq 0 .. current_time_step
    /\ ends \subseteq 0 .. current_time_step

LEMMA StepsCount ==
    ASSUME NEW d \in Nat, NEW s \in Nat, s > 0
    PROVE  /\ NumTimeSteps(d, s) \in Nat /\ NumTimeSteps(d, s) >= 1
           /\ \A e \in Nat : d <= e => NumTimeSteps(d, s) <= NumTimeSteps(e, s)
<1>1. d \div s \in Int /\ d \div s >= 0 /\ s * (d \div s) <= d
  BY DivDef, DivLower
<1>2. ASSUME NEW e \in Nat, d <= e PROVE d \div s <= e \div s
  <2>1. s * (d \div s) \in Int
    BY <1>1
  <2>2. s * (d \div s) <= e
    BY <1>1, <1>2, <2>1
  <2> QED
    BY <1>1, <2>2, DivLower
<1>3. \A e \in Nat : e \div s \in Int
  BY DivDef
<1> QED
  BY <1>1, <1>2, <1>3 DEF NumTimeSteps

LEMMA RunTypes ==
    ASSUME RunHolds
    PROVE  /\ start_time \in Int /\ time_step \in Nat /\ time_step > 0 /\ duration \in Nat
           /\ num_time_steps \in Nat /\ num_time_steps >= 1
           /\ config.every \in (Nat \ {0}) \cup {None} /\ config.from \in Int \cup {None}
           /\ config.zero \in BOOLEAN /\ config.last \in BOOLEAN
           /\ current_time_step \in Int /\ None \notin Int
<1>1. start_time \in Int /\ time_step \in Nat /\ time_step > 0 /\ duration \in Nat
  BY ConfigAssumption DEF RunHolds
<1>2. num_time_steps \in Nat /\ num_time_steps >= 1
  BY <1>1, StepsCount DEF RunHolds
<1>3. config \in [every : (Nat \ {0}) \cup {None}, from : Int \cup {None},
                  zero : BOOLEAN, last : BOOLEAN] /\ None \notin Int
  BY ConfigAssumption DEF RunHolds
<1>4. current_time_step \in Int
  BY <1>2 DEF RunHolds
<1> QED
  BY <1>1, <1>2, <1>3, <1>4

LEMMA FirstDueIs == FirstDue = FirstOf(config.from, start_time, time_step, num_time_steps)
BY Zenon DEF FirstDue, FirstOf, StampOf

HasStart == config.from # None /\ config.from # start_time

LEMMA FirstDueSplits ==
    ASSUME RunHolds
    PROVE  /\ FirstDue \in Nat
           /\ HasStart => FirstDue >= 1
           /\ ~HasStart => FirstDue = 0
           /\ \A k \in 1 .. num_time_steps : HasStart =>
                 (FirstDue <= k <=> StampOf(k) >= config.from)
<1>1. CASE HasStart
  <2>1. config.from \in Int /\ config.from # None /\ config.from # start_time
    BY <1>1, RunTypes DEF HasStart
  <2>2. /\ FirstOf(config.from, start_time, time_step, num_time_steps) \in 1 .. num_time_steps + 1
        /\ \A k \in 1 .. num_time_steps :
              FirstOf(config.from, start_time, time_step, num_time_steps) <= k
                <=> start_time + k * time_step >= config.from
    BY <2>1, RunTypes, FirstSplits
  <2> QED
    BY <1>1, <2>2, FirstDueIs, RunTypes DEF StampOf
<1>2. CASE ~HasStart
  BY <1>2 DEF HasStart, FirstDue
<1> QED
  BY <1>1, <1>2

\* The state of the outputter after step k, when its flag is w.
Kept(k, w) ==
    [begin |-> start_time,
     dt    |-> IF config.every # None /\ FirstDue <= k
               THEN ((k - FirstDue) * time_step) % config.every ELSE 0,
     write |-> w,
     first |-> ~(HasStart /\ FirstDue <= k)]

\* Without a period the flag stays up from the first step that is due.
Plain(k, w) == config.every = None /\ FirstDue <= k => w

\* The fields of the outputter's state that a step sets.
LEMMA FieldWrite ==
    ASSUME NEW r, NEW b, NEW d, NEW w, NEW f, NEW v,
           r = [begin |-> b, dt |-> d, write |-> w, first |-> f]
    PROVE  [r EXCEPT !.write = v] = [begin |-> b, dt |-> d, write |-> v, first |-> f]
OBVIOUS

LEMMA DueIsBoolean == \A n : IsDue(n) \in BOOLEAN
BY DEF IsDue

LEMMA PrepareIsDue ==
    ASSUME RunHolds, NEW k \in Nat, k + 1 <= num_time_steps, NEW w \in BOOLEAN, Plain(k, w)
    PROVE  PrepareStep(Kept(k, w), time_step, StampOf(k)) = Kept(k + 1, IsDue(k + 1))
<1> DEFINE o == Kept(k, w)
           n == k + 1
           F == FirstDue
           since == o.dt + time_step
<1>1. /\ start_time \in Int /\ time_step \in Nat /\ time_step > 0
      /\ num_time_steps \in Nat /\ n \in 1 .. num_time_steps /\ F \in Nat
      /\ config.every \in (Nat \ {0}) \cup {None} /\ config.from \in Int \cup {None}
      /\ None \notin Int
  BY RunTypes, FirstDueSplits
<1>2. StampOf(k) + time_step = StampOf(n) /\ StampOf(n) \in Int
  BY <1>1 DEF StampOf
<1>3. Delayed(o) <=> HasStart
  BY DEF Delayed, HasStart, Kept
<1>4. /\ o.begin = start_time /\ o.write = w
      /\ o.first = ~(HasStart /\ F <= k)
      /\ o.dt = IF config.every # None /\ F <= k
                THEN ((k - F) * time_step) % config.every ELSE 0
      /\ o = [begin |-> start_time, dt |-> o.dt, write |-> w, first |-> o.first]
  BY DEF Kept
<1>5. /\ HasStart => F >= 1 /\ (F <= n <=> StampOf(n) >= config.from)
      /\ ~HasStart => F = 0
  BY <1>1, FirstDueSplits
<1>6. F <= n <=> F <= k \/ n = F
  BY <1>1
<1>7. Kept(n, IsDue(n)) =
        [begin |-> start_time,
         dt    |-> IF config.every # None /\ F <= n
                   THEN ((n - F) * time_step) % config.every ELSE 0,
         write |-> IsDue(n), first |-> ~(HasStart /\ F <= n)]
  BY DEF Kept
<1>8. IsDue(n) <=> \/ n = F
                   \/ /\ F <= k
                      /\ config.every # None => Periods(n) > Periods(k)
  <2>1. n > 0 /\ (n > F <=> F <= k) /\ n - 1 = k
    BY <1>1
  <2> HIDE DEF n, F
  <2> QED
    BY <2>1 DEF IsDue, F
<1>9. PrepareStep(o, time_step, StampOf(k)) =
        IF Delayed(o) /\ StampOf(n) < config.from THEN [o EXCEPT !.write = FALSE]
        ELSE IF Delayed(o) /\ (StampOf(n) = config.from \/ o.first)
             THEN [o EXCEPT !.write = TRUE, !.first = FALSE]
             ELSE IF config.every = None THEN o
                  ELSE [o EXCEPT !.write = since >= config.every,
                                 !.dt = Carry(since)]
  BY <1>2 DEF PrepareStep
<1> HIDE DEF o, n, F, since
<1>10. CASE HasStart /\ StampOf(n) < config.from
  <2>1. ~(F <= n) /\ ~(F <= k) /\ n # F
    BY <1>1, <1>2, <1>5, <1>6, <1>10, RunTypes DEF HasStart
  <2>2. IsDue(n) = FALSE
    BY <1>8, <2>1, DueIsBoolean
  <2>3. PrepareStep(o, time_step, StampOf(k)) = [o EXCEPT !.write = FALSE]
    BY <1>3, <1>9, <1>10
  <2>4. o.dt = 0 /\ o.first = TRUE
    BY <1>4, <2>1, Zenon
  <2>5. o = [begin |-> start_time, dt |-> 0, write |-> w, first |-> TRUE]
    BY <1>4, <2>4, Zenon
  <2>6. [o EXCEPT !.write = FALSE] = [begin |-> start_time, dt |-> 0, write |-> FALSE, first |-> TRUE]
    <3> DEFINE v == FALSE
               f == TRUE
    <3>1. o = [begin |-> start_time, dt |-> 0, write |-> w, first |-> f]
      BY <2>5
    <3> HIDE DEF v, f
    <3>2. [o EXCEPT !.write = v] = [begin |-> start_time, dt |-> 0, write |-> v, first |-> f]
      BY <3>1, FieldWrite
    <3> QED
      BY <3>2 DEF v, f
  <2>7. ~(HasStart /\ F <= n) = TRUE
    BY <2>1, Zenon
  <2>8. Kept(n, IsDue(n)) = [begin |-> start_time, dt |-> 0, write |-> FALSE, first |-> TRUE]
    BY <1>7, <2>1, <2>2, <2>7, Zenon
  <2> QED
    BY <2>3, <2>6, <2>8, Zenon DEF o, n
<1>11. CASE HasStart /\ n = F
  <2>1. StampOf(n) >= config.from /\ ~(StampOf(n) < config.from) /\ ~(F <= k) /\ F <= n
    BY <1>1, <1>2, <1>5, <1>11, RunTypes DEF HasStart, n
  <2>2. IsDue(n) = TRUE
    BY <1>8, <1>11, DueIsBoolean
  <2>3. o.first = TRUE /\ o.dt = 0
    BY <1>4, <2>1, Zenon
  <2>4. PrepareStep(o, time_step, StampOf(k)) = [o EXCEPT !.write = TRUE, !.first = FALSE]
    BY <1>3, <1>9, <1>11, <2>1, <2>3
  <2>7. o = [begin |-> start_time, dt |-> 0, write |-> w, first |-> TRUE]
    BY <1>4, <2>3, Zenon
  <2>5. [o EXCEPT !.write = TRUE, !.first = FALSE]
          = [begin |-> start_time, dt |-> 0, write |-> TRUE, first |-> FALSE]
    <3> DEFINE v == TRUE
               f == TRUE
               x == FALSE
    <3>1. o = [begin |-> start_time, dt |-> 0, write |-> w, first |-> f]
      BY <2>7
    <3> HIDE DEF v, f, x
    <3>2. [o EXCEPT !.write = v, !.first = x]
            = [begin |-> start_time, dt |-> 0, write |-> v, first |-> x]
      <4> DEFINE q == [o EXCEPT !.write = v]
      <4>1. q = [begin |-> start_time, dt |-> 0, write |-> v, first |-> f]
        BY <3>1, FieldWrite
      <4>2. [o EXCEPT !.write = v, !.first = x] = [q EXCEPT !.first = x]
        OBVIOUS
      <4> HIDE DEF q
      <4> QED
        BY <4>1, <4>2
    <3> QED
      BY <3>2 DEF v, x
  <2>6. config.every # None => ((n - F) * time_step) % config.every = 0
    <3>1. (n - F) * time_step = 0
      BY <1>1, <1>11
    <3>2. ASSUME config.every # None PROVE 0 % config.every = 0
      <4>1. config.every \in Nat /\ config.every > 0 /\ 0 = config.every * 0 + 0
            /\ 0 \in 0 .. config.every - 1
        BY <1>1, <3>2
      <4> QED
        BY <4>1, DivUnique
    <3> QED
      BY <3>1, <3>2
  <2>8. ~(HasStart /\ F <= n) = FALSE
    BY <1>11, <2>1, Zenon
  <2>9. Kept(n, IsDue(n)) = [begin |-> start_time, dt |-> 0, write |-> TRUE, first |-> FALSE]
    BY <1>7, <2>1, <2>2, <2>6, <2>8, Zenon
  <2> QED
    BY <2>4, <2>5, <2>9, Zenon DEF o, n
<1>12. CASE F <= k
  <2>1. F <= n /\ n # F
    BY <1>1, <1>12 DEF n
  <2>2. ASSUME HasStart
        PROVE  StampOf(n) >= config.from /\ ~(StampOf(n) < config.from) /\ StampOf(n) # config.from
               /\ ~o.first
    <3>1. config.from \in Int /\ F >= 1 /\ StampOf(n) >= config.from
      BY <1>1, <1>5, <2>1, <2>2 DEF HasStart
    <3>2. F \in 1 .. num_time_steps
      BY <1>1, <1>12, <3>1 DEF n
    <3>3. StampOf(F) >= config.from
      <4>1. \A j \in 1 .. num_time_steps : FirstDue <= j <=> StampOf(j) >= config.from
        BY <2>2, FirstDueSplits
      <4>2. FirstDue <= F
        BY <1>1 DEF F
      <4> QED
        BY <3>2, <4>1, <4>2
    <3>4. StampOf(F) < StampOf(n) /\ StampOf(F) \in Int
      BY <1>1, <2>1, Monotone DEF StampOf, n
    <3>5. StampOf(n) # config.from /\ ~(StampOf(n) < config.from)
      BY <1>2, <3>1, <3>3, <3>4
    <3>6. ~o.first
      BY <1>4, <1>12, <2>2, Zenon
    <3> QED
      BY <3>1, <3>5, <3>6
  <2>3. PrepareStep(o, time_step, StampOf(k)) =
          IF config.every = None THEN o
          ELSE [o EXCEPT !.write = since >= config.every, !.dt = Carry(since)]
    BY <1>3, <1>9, <2>2
  <2>4. o.first = ~HasStart
    BY <1>4, <1>12
  <2>5. CASE config.every = None
    <3>1. w = TRUE
      BY <1>12, <2>5 DEF Plain, F
    <3>2. o = [begin |-> start_time, dt |-> 0, write |-> TRUE, first |-> ~HasStart]
      <4>1. o.dt = 0
        BY <1>4, <2>5, Zenon
      <4> QED
        BY <1>4, <2>4, <3>1, <4>1, Zenon
    <3>3. IsDue(n) = TRUE
      BY <1>8, <1>12, <2>5, DueIsBoolean
    <3>4. ~(HasStart /\ F <= n) = ~HasStart
      BY <2>1, Zenon
    <3>5. Kept(n, IsDue(n)) = o
      BY <1>7, <2>5, <3>2, <3>3, <3>4, Zenon
    <3> QED
      BY <2>3, <2>5, <3>5, Zenon DEF o, n
  <2>6. CASE config.every # None
    <3> DEFINE e == config.every
               a == (k - F) * time_step
    <3>1. e \in Nat /\ e > 0 /\ a \in Nat
      <4>1. k - F \in Nat
        BY <1>1, <1>12
      <4> QED
        BY <1>1, <2>6, <4>1
    <3>2. (n - F) * time_step = a + time_step
      <4>1. n - F = (k - F) + 1 /\ k - F \in Int
        BY <1>1 DEF n
      <4> QED
        BY <1>1, <4>1
    <3>3. Periods(n) = (a + time_step) \div e /\ Periods(k) = a \div e
      BY <3>2 DEF Periods, F
    <3>4. o.dt = a % e /\ since = (a % e) + time_step
      BY <1>4, <1>12, <2>6 DEF since
    <3> HIDE DEF a, e
    <3>5. /\ since >= e <=> Periods(n) > Periods(k)
          /\ since % e = (a + time_step) % e
      <4>1. /\ (a % e) + time_step >= e <=> (a + time_step) \div e > a \div e
            /\ ((a % e) + time_step) % e = (a + time_step) % e
        BY <1>1, <3>1, NextPeriod
      <4> QED
        BY <3>3, <3>4, <4>1, Zenon
    <3>6. IsDue(n) = (since >= e)
      <4>1. IsDue(n) <=> since >= e
        BY <1>8, <1>12, <2>1, <2>6, <3>5, Zenon
      <4> QED
        BY <4>1, DueIsBoolean
    <3>7. [o EXCEPT !.write = since >= config.every, !.dt = Carry(since)]
            = [begin |-> start_time, dt |-> since % e, write |-> since >= e, first |-> ~HasStart]
      <4>1. o = [begin |-> start_time, dt |-> o.dt, write |-> w, first |-> ~HasStart]
        BY <1>4, <2>4, Zenon
      <4> QED
        <5> DEFINE v == since >= e
                   f == ~HasStart
                   x == since % e
        <5>1. o = [begin |-> start_time, dt |-> o.dt, write |-> w, first |-> f]
          BY <4>1
        <5>2. [o EXCEPT !.write = since >= config.every, !.dt = Carry(since)]
                = [o EXCEPT !.write = v, !.dt = x]
          BY DEF e, Carry
        <5> HIDE DEF v, f, x
        <5>3. [o EXCEPT !.write = v, !.dt = x]
                = [begin |-> start_time, dt |-> x, write |-> v, first |-> f]
          <6> DEFINE q == [o EXCEPT !.write = v]
          <6>1. q = [begin |-> start_time, dt |-> o.dt, write |-> v, first |-> f]
            BY <5>1, FieldWrite
          <6>2. [o EXCEPT !.write = v, !.dt = x] = [q EXCEPT !.dt = x]
            OBVIOUS
          <6> HIDE DEF q
          <6> QED
            BY <6>1, <6>2
        <5> QED
          BY <5>2, <5>3 DEF v, f, x
    <3>8. ((n - F) * time_step) % config.every = since % e
      BY <3>2, <3>5 DEF e
    <3>9. ~(HasStart /\ F <= n) = ~HasStart
      BY <2>1, Zenon
    <3>10. Kept(n, IsDue(n))
             = [begin |-> start_time, dt |-> since % e, write |-> since >= e, first |-> ~HasStart]
      BY <1>7, <2>1, <2>6, <3>6, <3>8, <3>9, Zenon
    <3> QED
      BY <2>3, <2>6, <3>7, <3>10, Zenon DEF o, n
  <2> QED
    BY <2>5, <2>6
<1>13. ~HasStart => F <= k
  BY <1>1, <1>5
<1>14. HasStart /\ ~(F <= n) => StampOf(n) < config.from
  BY <1>1, <1>2, <1>5 DEF HasStart
<1> QED
  BY <1>6, <1>10, <1>11, <1>12, <1>13, <1>14

LEMMA WriteKeeps ==
    ASSUME NEW k \in Nat, NEW w \in BOOLEAN, NEW last \in BOOLEAN
    PROVE  WriteOutput(Kept(k, w), k, last)
             = Kept(k, (IF k = 0 THEN config.zero ELSE w) \/ (last /\ config.last))
<1> DEFINE d == IF config.every # None /\ FirstDue <= k
                THEN ((k - FirstDue) * time_step) % config.every ELSE 0
           f == ~(HasStart /\ FirstDue <= k)
           v == \/ IF k = 0 THEN config.zero ELSE w
                \/ last /\ config.last
<1>1. \A x : Kept(k, x) = [begin |-> start_time, dt |-> d, write |-> x, first |-> f]
  BY Zenon DEF Kept
<1>2. WriteOutput(Kept(k, w), k, last)
        = [Kept(k, w) EXCEPT !.write = \/ IF k = 0 THEN config.zero ELSE Kept(k, w).write
                                       \/ last /\ config.last]
  BY DEF WriteOutput
<1> HIDE DEF d, f, v
<1>3. Kept(k, w).write = w
  BY <1>1
<1>4. [Kept(k, w) EXCEPT !.write = v] = [begin |-> start_time, dt |-> d, write |-> v, first |-> f]
  BY <1>1, FieldWrite
<1>5. WriteOutput(Kept(k, w), k, last) = [Kept(k, w) EXCEPT !.write = v]
  BY <1>2, <1>3, Zenon DEF v
<1>6. Kept(k, v) = [begin |-> start_time, dt |-> d, write |-> v, first |-> f]
  BY <1>1
<1> QED
  BY <1>4, <1>5, <1>6, Zenon DEF v

\* Before step 0.
LEMMA PrepareRunKept ==
    ASSUME RunHolds
    PROVE  PrepareRun(Rewound, start_time) = Kept(0, TRUE) /\ ~IsDue(0)
<1>1. FirstDue \in Nat /\ (HasStart => FirstDue >= 1) /\ (~HasStart => FirstDue = 0)
  BY FirstDueSplits
<1>2. FirstDue <= 0 => FirstDue = 0
  BY <1>1
<1>3. config.every # None => ((0 - 0) * time_step) % config.every = 0
  <2>1. (0 - 0) * time_step = 0
    BY RunTypes
  <2>2. ASSUME config.every # None PROVE 0 % config.every = 0
    <3>1. config.every \in Nat /\ config.every > 0 /\ 0 = config.every * 0 + 0
          /\ 0 \in 0 .. config.every - 1
      BY <2>2, RunTypes
    <3> QED
      BY <3>1, DivUnique
  <2> QED
    BY <2>1, <2>2
<1>4. ~(HasStart /\ FirstDue <= 0)
  BY <1>1
<1>5. Kept(0, TRUE) = [begin |-> start_time, dt |-> 0, write |-> TRUE, first |-> TRUE]
  BY <1>2, <1>3, <1>4 DEF Kept
<1>6. PrepareRun(Rewound, start_time) = [begin |-> start_time, dt |-> 0, write |-> TRUE, first |-> TRUE]
  <2>1. PrepareRun(Rewound, start_time)
          = [Rewound EXCEPT !.begin = start_time, !.dt = 0,
                            !.write = config.every = None \/ Rewound.write]
    BY DEF PrepareRun
  <2>2. (config.every = None \/ Rewound.write) = TRUE
    BY DEF Rewound
  <2> QED
    BY <2>1, <2>2 DEF Rewound
<1>7. ~IsDue(0)
  BY <1>1 DEF IsDue
<1> QED
  BY <1>5, <1>6, <1>7

-----------------------------------------------------------------------------
(* The run.                                                                *)

LEMMA RunInit == Init => RunHolds
<1> SUFFICES ASSUME Init PROVE RunHolds
  OBVIOUS
<1>1. duration \in Nat /\ time_step \in Nat /\ time_step > 0
  BY ConfigAssumption DEF Init
<1>2. num_time_steps \in Nat /\ num_time_steps >= 1
  BY <1>1, StepsCount DEF Init
<1>3. current_time_step \in -1 .. num_time_steps - 1
  BY <1>2 DEF Init
<1> QED
  BY <1>3 DEF Init, RunHolds

\* After a rewind the histories are empty.
LEMMA RewindHolds ==
    ASSUME Rewind, start_time' \in StartTimes, time_step' \in TimeSteps,
           duration' \in Durations, config \in OutputConfigs,
           num_time_steps' = NumTimeSteps(duration', time_step')
    PROVE  RunHolds'
<1>1. duration' \in Nat /\ time_step' \in Nat /\ time_step' > 0
  BY ConfigAssumption
<1>2. num_time_steps' \in Nat /\ num_time_steps' >= 1
  BY <1>1, StepsCount
<1>3. current_time_step' \in -1 .. num_time_steps' - 1
  BY <1>2 DEF Rewind
<1> QED
  BY <1>3 DEF Rewind, RunHolds

LEMMA StepHolds ==
    ASSUME RunHolds, NEW o, NEW k, k = current_time_step + 1,
           k <= num_time_steps - 1, OutputStep(o, k)
    PROVE  RunHolds'
<1>1. k \in Nat /\ k \in 0 .. num_time_steps - 1 /\ 0 .. current_time_step \subseteq 0 .. k
      /\ k \in 0 .. k /\ num_time_steps \in Nat
  BY RunTypes DEF RunHolds
<1>2. current_time_step' = k
  BY DEF OutputStep
<1>3. written' \subseteq 0 .. k /\ ends' \subseteq 0 .. k
  BY <1>1 DEF RunHolds, OutputStep, StepsWritten
<1>4. k \in -1 .. num_time_steps - 1
  BY <1>1
<1>5. UNCHANGED <<num_time_steps, start_time, time_step, duration, config>>
  BY DEF OutputStep
<1> QED
  BY <1>2, <1>3, <1>4, <1>5 DEF RunHolds

LEMMA RunNext == RunHolds /\ [Next]_vars => RunHolds'
<1> SUFFICES ASSUME RunHolds, [Next]_vars PROVE RunHolds'
  OBVIOUS
<1>1. CASE UNCHANGED vars
  BY <1>1 DEF vars, model, RunHolds
<1>2. CASE StepZero
  <2>1. OutputStep(PrepareRun(out, start_time), 0) /\ current_time_step = -1
    BY <1>2 DEF StepZero
  <2>2. 0 = current_time_step + 1 /\ 0 <= num_time_steps - 1
    BY <2>1, RunTypes
  <2> QED
    BY <2>1, <2>2, StepHolds
<1>3. CASE StepOn
  <2>1. /\ OutputStep(PrepareStep(out, time_step, ModelTime), current_time_step + 1)
        /\ current_time_step + 1 <= num_time_steps - 1
    BY <1>3, RunTypes DEF StepOn
  <2> QED
    BY <2>1, StepHolds
<1>4. CASE RewindCall
  BY <1>4, RewindHolds DEF RewindCall, RunHolds
<1>5. ASSUME NEW t \in StartTimes, SetStartTime(t) PROVE RunHolds'
  BY <1>5, RewindHolds DEF SetStartTime, RunHolds
<1>6. ASSUME NEW s \in TimeSteps, SetTimeStep(s) PROVE RunHolds'
  BY <1>6, RewindHolds DEF SetTimeStep, RunHolds
<1>7. ASSUME NEW d \in Durations, SetDuration(d) PROVE RunHolds'
  <2>1. CASE d < duration
    BY <1>7, <2>1, RewindHolds DEF SetDuration, RunHolds
  <2>2. CASE ~(d < duration)
    <3>1. d \in Nat /\ duration <= d
      BY <2>2, RunTypes, ConfigAssumption
    <3>2. num_time_steps <= NumTimeSteps(d, time_step) /\ NumTimeSteps(d, time_step) \in Nat
      BY <3>1, RunTypes, StepsCount DEF RunHolds
    <3>3. /\ current_time_step' = current_time_step
          /\ num_time_steps' = NumTimeSteps(d, time_step) /\ duration' = d
          /\ UNCHANGED <<start_time, time_step, config, written, ends>>
      BY <1>7, <2>2 DEF SetDuration
    <3>4. current_time_step \in -1 .. NumTimeSteps(d, time_step) - 1
      BY <3>2, RunTypes DEF RunHolds
    <3> QED
      BY <3>3, <3>4 DEF RunHolds
  <2> QED
    BY <2>1, <2>2
<1>8. ASSUME NEW b \in BOOLEAN, SetCacheEnabled(b) PROVE RunHolds'
  BY <1>8 DEF SetCacheEnabled, model, RunHolds
<1>9. CASE PostRun
  BY <1>9 DEF PostRun, model, RunHolds
<1> QED
  BY <1>1, <1>2, <1>3, <1>4, <1>5, <1>6, <1>7, <1>8, <1>9 DEF Next

-----------------------------------------------------------------------------
(* The cache.                                                              *)

\* The steps in memory and on the disk are of the run under way.
CacheHolds ==
    /\ DOMAIN recent = IF current_time_step = -1 THEN {} ELSE {current_time_step}
    /\ DOMAIN disk \subseteq 0 .. current_time_step
    /\ \A k \in DOMAIN recent : recent[k] = StampOf(k)
    /\ \A k \in DOMAIN disk : disk[k] = StampOf(k)

LEMMA RewindCache ==
    ASSUME Rewind
    PROVE  CacheHolds'
BY DEF Rewind, CacheRewind, NoSteps, CacheHolds

LEMMA StepCache ==
    ASSUME RunHolds, CacheHolds, NEW o, NEW k, k = current_time_step + 1, OutputStep(o, k)
    PROVE  CacheHolds'
<1>1. k \in Nat /\ k # -1 /\ 0 .. current_time_step \subseteq 0 .. k /\ k \in 0 .. k
  BY RunTypes DEF RunHolds
<1>2. current_time_step' = k /\ UNCHANGED <<start_time, time_step>>
  BY DEF OutputStep
<1>3. /\ recent' = [j \in {k} |-> StampOf(k)]
      /\ disk' = IF enabled
                 THEN [j \in DOMAIN disk \cup {k} |-> IF j = k THEN StampOf(k) ELSE disk[j]]
                 ELSE disk
  BY DEF OutputStep, SaveTimestep, StampOf
<1>4. \A j : StampOf(j)' = StampOf(j)
  BY <1>2 DEF StampOf
<1>5. DOMAIN disk' \subseteq 0 .. k
  BY <1>1, <1>3 DEF CacheHolds
<1>6. \A j \in DOMAIN disk' : disk'[j] = StampOf(j)
  BY <1>3 DEF CacheHolds
<1>7. DOMAIN recent' = {k} /\ \A j \in DOMAIN recent' : recent'[j] = StampOf(j)
  BY <1>3
<1> QED
  BY <1>1, <1>2, <1>4, <1>5, <1>6, <1>7 DEF CacheHolds

LEMMA CacheNext == RunHolds /\ CacheHolds /\ [Next]_vars => CacheHolds'
<1> SUFFICES ASSUME RunHolds, CacheHolds, [Next]_vars PROVE CacheHolds'
  OBVIOUS
<1>1. ASSUME UNCHANGED <<current_time_step, start_time, time_step, recent, disk>>
      PROVE  CacheHolds'
  BY <1>1 DEF CacheHolds, StampOf
<1>2. CASE UNCHANGED vars
  BY <1>1, <1>2 DEF vars, model, cache
<1>3. CASE StepZero
  <2>1. OutputStep(PrepareRun(out, start_time), 0) /\ 0 = current_time_step + 1
    BY <1>3 DEF StepZero
  <2> QED
    BY <2>1, StepCache
<1>4. CASE StepOn
  BY <1>4, StepCache DEF StepOn
<1>5. CASE RewindCall
  BY <1>5, RewindCache DEF RewindCall
<1>6. ASSUME NEW t \in StartTimes, SetStartTime(t) PROVE CacheHolds'
  BY <1>6, RewindCache DEF SetStartTime
<1>7. ASSUME NEW s \in TimeSteps, SetTimeStep(s) PROVE CacheHolds'
  BY <1>7, RewindCache DEF SetTimeStep
<1>8. ASSUME NEW d \in Durations, SetDuration(d) PROVE CacheHolds'
  <2>1. CASE d < duration
    BY <1>8, <2>1, RewindCache DEF SetDuration
  <2>2. CASE ~(d < duration)
    BY <1>1, <1>8, <2>2 DEF SetDuration, cache
  <2> QED
    BY <2>1, <2>2
<1>9. ASSUME NEW b \in BOOLEAN, SetCacheEnabled(b) PROVE CacheHolds'
  BY <1>1, <1>9 DEF SetCacheEnabled, model
<1>10. CASE PostRun
  BY <1>1, <1>10 DEF PostRun, model, cache
<1> QED
  BY <1>2, <1>3, <1>4, <1>5, <1>6, <1>7, <1>8, <1>9, <1>10 DEF Next

LEMMA CacheFacts ==
    ASSUME RunHolds, CacheHolds
    PROVE  NothingStale
<1>1. \A k \in DOMAIN recent : k \in 0 .. current_time_step
  BY RunTypes DEF RunHolds, CacheHolds
<1>2. DOMAIN Cached = DOMAIN recent \cup DOMAIN disk
      /\ \A k \in DOMAIN Cached : Cached[k] = IF k \in DOMAIN recent THEN recent[k] ELSE disk[k]
  BY DEF Cached
<1>3. \A k \in DOMAIN Cached : k \in 0 .. current_time_step /\ Cached[k] = StampOf(k)
  BY <1>1, <1>2 DEF CacheHolds
<1>4. current_time_step >= 0 => current_time_step \in DOMAIN Cached
  BY <1>2, RunTypes DEF CacheHolds
<1> QED
  BY <1>3, <1>4 DEF NothingStale

\* load_timestep finds only steps of the run under way, and always the
\* newest, for every start time, time step and duration, and whenever the
\* disk cache is switched on or off.
THEOREM NeverStale == Spec => []NothingStale
<1>1. Init => RunHolds /\ CacheHolds
  <2>1. Init => CacheHolds
    BY DEF Init, CacheHolds, NoSteps
  <2> QED
    BY <2>1, RunInit
<1>2. RunHolds /\ CacheHolds /\ [Next]_vars => RunHolds' /\ CacheHolds'
  BY RunNext, CacheNext
<1>3. RunHolds /\ CacheHolds => NothingStale
  BY CacheFacts
<1> QED
  BY <1>1, <1>2, <1>3, PTL DEF Spec

-----------------------------------------------------------------------------
(* The schedule of a run.                                                  *)

\* An outputter without a period writes step 0, as the doc of its option
\* takes for granted.
ZeroWritten == \A c \in OutputConfigs : c.every = None => c.zero

OutHolds ==
    IF current_time_step = -1 THEN out = Rewound
    ELSE \E w \in BOOLEAN :
            out = Kept(current_time_step, w) /\ Plain(current_time_step, w)

LiveInv == RunHolds /\ OutHolds /\ LiveOnSchedule

\* Nothing of the schedule changes when the run is made longer.
LEMMA LongerSame ==
    ASSUME RunHolds, UNCHANGED <<start_time, time_step, config>>,
           num_time_steps' \in Nat, num_time_steps <= num_time_steps',
           NEW k \in 0 .. num_time_steps
    PROVE  /\ IsDue(k)' <=> IsDue(k)
           /\ \A w : Kept(k, w)' = Kept(k, w) /\ (Plain(k, w)' <=> Plain(k, w))
<1> DEFINE F == FirstDue
           G == FirstDue'
<1>1. F \in Nat /\ G \in Nat /\ (F <= k <=> G <= k) /\ (F <= k => G = F)
  <2>1. F = FirstOf(config.from, start_time, time_step, num_time_steps)
    BY FirstDueIs
  <2>2. G = FirstOf(config.from, start_time, time_step, num_time_steps')
    <3>1. start_time' = start_time /\ time_step' = time_step /\ config' = config
      OBVIOUS
    <3>2. FirstDue' = FirstOf(config'.from, start_time', time_step', num_time_steps')
      BY Zenon DEF FirstDue, FirstOf, StampOf
    <3> QED
      BY <3>1, <3>2
  <2>3. /\ config.from \in Int \cup {None} /\ start_time \in Int
        /\ time_step \in Nat /\ time_step > 0 /\ num_time_steps \in Nat
    BY RunTypes
  <2> DEFINE A == FirstOf(config.from, start_time, time_step, num_time_steps)
             B == FirstOf(config.from, start_time, time_step, num_time_steps')
  <2>4. A \in Nat /\ B \in Nat /\ (A <= k <=> B <= k) /\ (A <= k => B = A)
    <3> DEFINE m == num_time_steps'
    <3>1. m \in Nat /\ num_time_steps <= m /\ k \in 0 .. num_time_steps
      OBVIOUS
    <3> HIDE DEF m
    <3>2. \A c \in Int \cup {None}, t \in Int, s \in Nat, n \in Nat :
             s > 0 /\ n <= m /\ k \in 0 .. n =>
               /\ FirstOf(c, t, s, n) \in Nat /\ FirstOf(c, t, s, m) \in Nat
               /\ FirstOf(c, t, s, n) <= k <=> FirstOf(c, t, s, m) <= k
               /\ FirstOf(c, t, s, n) <= k => FirstOf(c, t, s, m) = FirstOf(c, t, s, n)
      BY <3>1, FirstStays
    <3> QED
      BY <2>3, <3>1, <3>2 DEF m
  <2> HIDE DEF F, G, A, B
  <2>5. F = A /\ G = B
    BY <2>1, <2>2 DEF A, B
  <2> QED
    BY <2>4, <2>5
<1>2. k > F <=> k > G
  <2>1. k = F => G = F
    BY <1>1
  <2>2. k = G => F <= k
    BY <1>1
  <2>3. k = G => G = F
    BY <1>1, <2>2
  <2>4. k = F <=> k = G
    BY <2>1, <2>3
  <2> HIDE DEF F, G
  <2> QED
    BY <1>1, <2>4
<1>3. HasStart' <=> HasStart
  BY DEF HasStart
<1>4. k > F => Periods(k)' = Periods(k) /\ Periods(k - 1)' = Periods(k - 1)
  <2> SUFFICES ASSUME k > F
               PROVE  Periods(k)' = Periods(k) /\ Periods(k - 1)' = Periods(k - 1)
    OBVIOUS
  <2>1. FirstDue' = FirstDue
    BY <1>1
  <2> QED
    BY <2>1 DEF Periods
<1>5. k = F <=> k = G
  <2> HIDE DEF F, G
  <2>1. k = F => G = F
    BY <1>1
  <2>2. k = G => F <= k
    BY <1>1
  <2> QED
    BY <1>1, <2>1, <2>2
<1>6. IsDue(k)' <=> IsDue(k)
  BY <1>2, <1>4, <1>5, Zenon DEF IsDue
<1>7. ASSUME NEW w PROVE Kept(k, w)' = Kept(k, w) /\ (Plain(k, w)' <=> Plain(k, w))
  <2>1. CASE F <= k
    <3>1. FirstDue' = FirstDue
      BY <1>1, <2>1
    <3> QED
      BY <1>3, <3>1, Zenon DEF Kept, Plain
  <2>2. CASE ~(F <= k)
    <3>1. ~(FirstDue <= k) /\ ~(FirstDue' <= k)
      BY <1>1, <2>2
    <3> QED
      BY <1>3, <3>1, Zenon DEF Kept, Plain
  <2> QED
    BY <2>1, <2>2
<1> QED
  BY <1>6, <1>7

\* A step that is taken leaves the outputter as the schedule says.
LEMMA StepLive ==
    ASSUME ZeroWritten, LiveInv, NEW n, n = current_time_step + 1,
           n <= num_time_steps - 1, NEW w \in BOOLEAN, Plain(n, w),
           w = IF n = 0 THEN TRUE ELSE IsDue(n),
           OutputStep(Kept(n, w), n)
    PROVE  OutHolds' /\ LiveOnSchedule'
<1> USE DEF LiveInv
<1> DEFINE last == IsLast(n)
           flag == (IF n = 0 THEN config.zero ELSE w) \/ (last /\ config.last)
<1>1. n \in Nat /\ n \in 0 .. num_time_steps /\ n # -1 /\ num_time_steps \in Nat
  BY RunTypes DEF RunHolds
<1>2. PICK v \in BOOLEAN : v = flag
  BY RunTypes DEF IsLast
<1>3. out' = Kept(n, v)
  <2>1. last \in BOOLEAN
    BY DEF IsLast
  <2>2. WriteOutput(Kept(n, w), n, last) = Kept(n, flag)
    BY <1>1, <2>1, WriteKeeps
  <2> QED
    BY <1>2, <2>2 DEF OutputStep
<1>4. UNCHANGED <<num_time_steps, start_time, time_step, config>> /\ current_time_step' = n
  BY DEF OutputStep
<1>5. \A k \in 0 .. num_time_steps :
          /\ IsDue(k)' <=> IsDue(k)
          /\ \A x : Kept(k, x)' = Kept(k, x) /\ (Plain(k, x)' <=> Plain(k, x))
  BY <1>1, <1>4, LongerSame
<1>6. Plain(n, v)
  <2>1. SUFFICES ASSUME config.every = None, FirstDue <= n PROVE v
    BY DEF Plain
  <2>2. w
    BY <2>1 DEF Plain
  <2>3. config.zero
    BY <2>1 DEF ZeroWritten, RunHolds
  <2> QED
    BY <1>2, <2>2, <2>3
<1>7. v <=> \/ n = 0 /\ config.zero
            \/ last /\ config.last
            \/ IsDue(n)
  <2>1. n = 0 => ~IsDue(n)
    BY PrepareRunKept
  <2> QED
    BY <1>2, <2>1
<1> HIDE DEF flag
<1>8. OutHolds'
  <2>1. out' = Kept(n, v)' /\ Plain(n, v)'
    BY <1>1, <1>3, <1>5, <1>6
  <2> QED
    BY <1>1, <1>2, <1>4, <2>1 DEF OutHolds
<1>9. n \in written' <=> v
  <2>1. written' = written \cup StepsWritten(out', n) /\ n \notin written
    BY <1>1, RunTypes DEF OutputStep, RunHolds
  <2>2. out'.write = v
    BY <1>3 DEF Kept
  <2> QED
    BY <2>1, <2>2 DEF StepsWritten
<1>10. n \in ends' <=> last
  BY <1>1, RunTypes DEF OutputStep, RunHolds
<1>11. ASSUME NEW k \in 0 .. current_time_step
       PROVE  k \in written' <=> \/ k = 0 /\ config'.zero
                                 \/ k \in ends' /\ config'.last
                                 \/ IsDue(k)'
  <2>1. k # n /\ k \in 0 .. num_time_steps
    BY <1>1, RunTypes
  <2>2. k \in written' <=> k \in written
    BY <2>1 DEF OutputStep, StepsWritten
  <2>3. k \in ends' <=> k \in ends
    BY <2>1 DEF OutputStep
  <2>4. IsDue(k)' <=> IsDue(k)
    BY <1>5, <2>1
  <2> QED
    BY <1>4, <2>2, <2>3, <2>4 DEF LiveOnSchedule
<1>12. n \in written' <=> \/ n = 0 /\ config'.zero
                          \/ n \in ends' /\ config'.last
                          \/ IsDue(n)'
  <2>1. IsDue(n)' <=> IsDue(n)
    BY <1>1, <1>5
  <2> QED
    BY <1>4, <1>7, <1>9, <1>10, <2>1
<1>13. \A k \in 0 .. n : k \in 0 .. current_time_step \/ k = n
  BY RunTypes
<1> QED
  BY <1>4, <1>8, <1>11, <1>12, <1>13 DEF LiveOnSchedule

LEMMA LiveNext ==
    ASSUME ZeroWritten
    PROVE  LiveInv /\ [Next]_vars => LiveInv'
<1> SUFFICES ASSUME LiveInv, [Next]_vars PROVE LiveInv'
  OBVIOUS
<1> USE DEF LiveInv
<1>1. RunHolds'
  BY RunNext
<1>2. ASSUME /\ current_time_step' = current_time_step
             /\ UNCHANGED <<start_time, time_step, config, out, written, ends>>
             /\ num_time_steps' \in Nat /\ num_time_steps <= num_time_steps'
      PROVE  LiveInv'
  <2>1. \A k \in 0 .. num_time_steps :
            /\ IsDue(k)' <=> IsDue(k)
            /\ \A w : Kept(k, w)' = Kept(k, w) /\ (Plain(k, w)' <=> Plain(k, w))
    BY <1>2, LongerSame
  <2>2. \A k \in 0 .. current_time_step : k \in 0 .. num_time_steps
    BY RunTypes DEF RunHolds
  <2>3. LiveOnSchedule'
    BY <1>2, <2>1, <2>2 DEF LiveOnSchedule
  <2>4. OutHolds'
    <3>1. CASE current_time_step = -1
      BY <1>2, <3>1 DEF OutHolds
    <3>2. CASE current_time_step # -1
      <4>1. current_time_step \in 0 .. num_time_steps
        BY <3>2, RunTypes DEF RunHolds
      <4>2. PICK w \in BOOLEAN :
               out = Kept(current_time_step, w) /\ Plain(current_time_step, w)
        BY <3>2 DEF OutHolds
      <4> DEFINE k == current_time_step
      <4>3. out' = Kept(k, w) /\ Plain(k, w)
        BY <1>2, <4>2
      <4>4. Kept(k, w)' = Kept(k, w) /\ (Plain(k, w)' <=> Plain(k, w))
        BY <1>2, <4>1, LongerSame
      <4> QED
        BY <1>2, <3>2, <4>3, <4>4 DEF OutHolds
    <3> QED
      BY <3>1, <3>2
  <2> QED
    BY <1>1, <2>3, <2>4
<1>3. ASSUME Rewind PROVE LiveInv'
  <2>1. current_time_step' = -1 /\ out' = Rewound
    BY <1>3 DEF Rewind
  <2> QED
    BY <1>1, <2>1 DEF OutHolds, LiveOnSchedule, Rewound
<1>4. num_time_steps \in Nat /\ num_time_steps <= num_time_steps
  BY RunTypes
<1>5. CASE UNCHANGED vars
  BY <1>2, <1>4, <1>5 DEF vars, model
<1>6. CASE StepZero
  <2>1. OutputStep(PrepareRun(out, start_time), 0) /\ current_time_step = -1
    BY <1>6 DEF StepZero
  <2>2. PrepareRun(out, start_time) = Kept(0, TRUE)
    BY <2>1, PrepareRunKept DEF OutHolds
  <2>3. 0 = current_time_step + 1 /\ 0 <= num_time_steps - 1
    BY <2>1, RunTypes
  <2>4. Plain(0, TRUE) /\ OutputStep(Kept(0, TRUE), 0)
    BY <2>1, <2>2 DEF Plain
  <2> QED
    BY <1>1, <2>3, <2>4, StepLive
<1>7. CASE StepOn
  <2> DEFINE k == current_time_step
  <2>1. /\ k >= 0 /\ k < num_time_steps - 1
        /\ OutputStep(PrepareStep(out, time_step, ModelTime), k + 1)
    BY <1>7 DEF StepOn
  <2>2. k \in Nat /\ k # -1 /\ k + 1 # 0 /\ k + 1 <= num_time_steps - 1 /\ k + 1 <= num_time_steps
    BY <2>1, RunTypes
  <2>3. PICK w \in BOOLEAN : out = Kept(k, w) /\ Plain(k, w)
    BY <2>2 DEF OutHolds
  <2>4. ModelTime = StampOf(k)
    BY DEF ModelTime, StampOf
  <2>5. PrepareStep(out, time_step, ModelTime) = Kept(k + 1, IsDue(k + 1))
    BY <2>2, <2>3, <2>4, PrepareIsDue
  <2>6. Plain(k + 1, IsDue(k + 1))
    <3>1. k + 1 > 0 /\ FirstDue \in Nat
      BY <2>2, FirstDueSplits
    <3>2. FirstDue <= k + 1 => k + 1 = FirstDue \/ k + 1 > FirstDue
      BY <2>2, <3>1
    <3> QED
      BY <3>1, <3>2 DEF Plain, IsDue
  <2>7. IsDue(k + 1) \in BOOLEAN
    BY DueIsBoolean
  <2> DEFINE d == IsDue(k + 1)
  <2>8. d = IF k + 1 = 0 THEN TRUE ELSE IsDue(k + 1)
    BY <2>2
  <2>9. Plain(k + 1, d) /\ OutputStep(Kept(k + 1, d), k + 1) /\ d \in BOOLEAN
    BY <2>1, <2>5, <2>6, <2>7
  <2> HIDE DEF d
  <2> QED
    BY <1>1, <2>2, <2>8, <2>9, StepLive
<1>8. CASE RewindCall
  BY <1>3, <1>8 DEF RewindCall
<1>9. ASSUME NEW t \in StartTimes, SetStartTime(t) PROVE LiveInv'
  BY <1>3, <1>9 DEF SetStartTime
<1>10. ASSUME NEW s \in TimeSteps, SetTimeStep(s) PROVE LiveInv'
  BY <1>3, <1>10 DEF SetTimeStep
<1>11. ASSUME NEW d \in Durations, SetDuration(d) PROVE LiveInv'
  <2>1. CASE d < duration
    BY <1>3, <1>11, <2>1 DEF SetDuration
  <2>2. CASE ~(d < duration)
    <3>1. d \in Nat /\ duration <= d
      BY <2>2, RunTypes, ConfigAssumption
    <3>2. num_time_steps <= NumTimeSteps(d, time_step) /\ NumTimeSteps(d, time_step) \in Nat
      BY <3>1, RunTypes, StepsCount DEF RunHolds
    <3> QED
      BY <1>2, <1>11, <2>2, <3>2 DEF SetDuration
  <2> QED
    BY <2>1, <2>2
<1>12. ASSUME NEW b \in BOOLEAN, SetCacheEnabled(b) PROVE LiveInv'
  BY <1>2, <1>4, <1>12 DEF SetCacheEnabled, model
<1>13. CASE PostRun
  BY <1>2, <1>4, <1>13 DEF PostRun, model
<1> QED
  BY <1>5, <1>6, <1>7, <1>8, <1>9, <1>10, <1>11, <1>12, <1>13 DEF Next

LEMMA LiveInit == Init => LiveInv
<1> SUFFICES ASSUME Init PROVE LiveInv
  OBVIOUS
<1>1. OutHolds /\ LiveOnSchedule
  BY DEF Init, OutHolds, LiveOnSchedule
<1> QED
  BY <1>1, RunInit DEF LiveInv

\* During a run exactly the steps on the grid of the output time step, step 0
\* and a last step as configured are written, for every start time, time
\* step, duration and output start.
THEOREM WrittenOnSchedule ==
    ASSUME ZeroWritten
    PROVE  Spec => []LiveOnSchedule
<1>1. LiveInv => LiveOnSchedule
  BY DEF LiveInv
<1> QED
  BY <1>1, LiveInit, LiveNext, PTL DEF Spec

-----------------------------------------------------------------------------
(* Output after the run.                                                   *)

\* timedelta.seconds of a time step is the time step.
ShortSteps == \A s \in TimeSteps : s < 86400

\* A run that is over, with every step of it in the cache.
Complete ==
    /\ ZeroWritten /\ ShortSteps
    /\ LiveInv /\ CacheHolds
    /\ config.last
    /\ ends = {num_time_steps - 1}
    /\ current_time_step = num_time_steps - 1
    /\ 0 .. current_time_step \subseteq DOMAIN disk

\* After turn k of the loop the outputter is as it was after step k, and has
\* written what was written up to it.
Follows(p, k) ==
    /\ p.ok
    /\ p.time = StampOf(k)
    /\ p.steps = {j \in 0 .. k : j \in written}
    /\ ~IsLast(k) => \E w \in BOOLEAN : p.o = Kept(k, w) /\ Plain(k, w)

FirstTurn == [o |-> PrepareRun(Rewound, start_time), ok |-> TRUE,
              time |-> start_time, steps |-> {}]

LEMMA CompleteFacts ==
    ASSUME Complete
    PROVE  /\ num_time_steps \in Nat /\ num_time_steps >= 1
           /\ \A k \in 0 .. num_time_steps - 1 :
                 /\ k \in DOMAIN Cached /\ Cached[k] = StampOf(k)
                 /\ k \in written <=> \/ k = 0 /\ config.zero
                                      \/ IsLast(k)
                                      \/ IsDue(k)
           /\ SecondsOf(time_step) = time_step
<1>1. num_time_steps \in Nat /\ num_time_steps >= 1
  BY RunTypes DEF Complete, LiveInv
<1>2. ASSUME NEW k \in 0 .. num_time_steps - 1
      PROVE  k \in DOMAIN Cached /\ Cached[k] = StampOf(k)
  <2>1. k \in DOMAIN disk
    BY <1>2 DEF Complete
  <2>2. k \in DOMAIN Cached
        /\ Cached[k] = IF k \in DOMAIN recent THEN recent[k] ELSE disk[k]
    BY <2>1 DEF Cached
  <2> QED
    BY <2>1, <2>2 DEF Complete, CacheHolds
<1>3. ASSUME NEW k \in 0 .. num_time_steps - 1
      PROVE  k \in written <=> \/ k = 0 /\ config.zero
                               \/ IsLast(k)
                               \/ IsDue(k)
  BY <1>3 DEF Complete, LiveInv, LiveOnSchedule, IsLast
<1>4. SecondsOf(time_step) = time_step
  <2>1. time_step \in Nat /\ time_step < 86400
    BY RunTypes DEF Complete, LiveInv, ShortSteps, RunHolds
  <2> QED
    BY <2>1 DEF SecondsOf
<1> QED
  BY <1>1, <1>2, <1>3, <1>4

\* A turn, from what the outputter is when it writes.
LEMMA TurnWrites ==
    ASSUME Complete, NEW k \in 0 .. num_time_steps - 1, NEW w \in BOOLEAN,
           Plain(k, w), k # 0 /\ ~IsLast(k) => w = IsDue(k),
           NEW steps, steps = {j \in 0 .. k - 1 : j \in written},
           NEW o, ~IsLast(k) => o = Kept(k, w),
           NEW q, q = [o |-> WriteOutput(o, k, IsLast(k)), ok |-> TRUE, time |-> StampOf(k),
                       steps |-> steps \cup StepsWritten(WriteOutput(o, k, IsLast(k)), k)]
    PROVE  Follows(q, k)
<1> DEFINE done == WriteOutput(o, k, IsLast(k))
<1>1. k \in Nat /\ num_time_steps \in Nat /\ RunHolds /\ config.last = TRUE
  BY CompleteFacts, RunTypes DEF Complete, LiveInv
<1>2. done.write <=> k \in written
  <2>1. CASE IsLast(k)
    <3>1. k \in written
      BY <2>1, CompleteFacts
    <3>2. done = [o EXCEPT !.write = TRUE]
      BY <1>1, <2>1 DEF WriteOutput
    <3> QED
      BY <3>1, <3>2
  <2>2. CASE ~IsLast(k)
    <3> DEFINE v == (IF k = 0 THEN config.zero ELSE w) \/ (FALSE /\ config.last)
    <3>1. done = Kept(k, v)
      BY <1>1, <2>2, WriteKeeps DEF IsLast
    <3>2. done.write = v
      BY <3>1 DEF Kept
    <3>3. k = 0 => ~IsDue(k)
      BY <1>1, PrepareRunKept
    <3> QED
      BY <2>2, <3>2, <3>3, CompleteFacts
  <2> QED
    BY <2>1, <2>2
<1>3. \A j \in 0 .. k : j \in 0 .. k - 1 \/ j = k
  BY <1>1
<1>4. \A j \in 0 .. k - 1 : j \in 0 .. k /\ j # k
  BY <1>1
<1>5. steps \cup StepsWritten(done, k) = {j \in 0 .. k : j \in written}
  <2>1. k \in 0 .. k
    BY <1>1
  <2> HIDE DEF done
  <2> QED
    BY <1>2, <1>3, <1>4, <2>1 DEF StepsWritten
<1>6. ASSUME ~IsLast(k)
      PROVE  \E v \in BOOLEAN : done = Kept(k, v) /\ Plain(k, v)
  <2> DEFINE v == (IF k = 0 THEN config.zero ELSE w) \/ (IsLast(k) /\ config.last)
  <2>1. v \in BOOLEAN
    BY <1>1, RunTypes
  <2>2. done = Kept(k, v)
    BY <1>1, <1>6, WriteKeeps DEF IsLast
  <2>3. ASSUME config.every = None, FirstDue <= k PROVE v
    <3>1. w
      BY <2>3 DEF Plain
    <3>2. config.zero
      BY <2>3 DEF Complete, ZeroWritten, LiveInv, RunHolds
    <3> QED
      BY <3>1, <3>2
  <2>4. Plain(k, v)
    BY <2>3 DEF Plain
  <2> QED
    BY <2>1, <2>2, <2>4
<1> QED
  BY <1>5, <1>6 DEF Follows

LEMMA TurnZero ==
    ASSUME Complete
    PROVE  Follows(PostRunStep(FirstTurn, 0), 0)
<1>1. 0 \in 0 .. num_time_steps - 1
  BY CompleteFacts
<1>2. 0 \in DOMAIN Cached /\ Cached[0] = StampOf(0)
  BY <1>1, CompleteFacts
<1> DEFINE o == PrepareRun(Rewound, start_time)
           done == WriteOutput(o, 0, IsLast(0))
           q == [o |-> done, ok |-> TRUE, time |-> StampOf(0),
                 steps |-> {} \cup StepsWritten(done, 0)]
<1>3. PostRunStep(FirstTurn, 0) = q
  <2>1. ~Inside(0)
    BY DEF Inside
  <2> QED
    BY <1>2, <2>1 DEF PostRunStep, FirstTurn
<1>4. o = Kept(0, TRUE)
  BY PrepareRunKept DEF Complete, LiveInv
<1>5. {} = {j \in 0 .. 0 - 1 : j \in written}
  OBVIOUS
<1>6. Plain(0, TRUE)
  BY DEF Plain
<1> HIDE DEF o
<1>7. Follows(q, 0)
  BY <1>1, <1>4, <1>5, <1>6, TurnWrites
<1> QED
  BY <1>3, <1>7

LEMMA TurnNext ==
    ASSUME Complete, NEW k \in 0 .. num_time_steps - 1, k # 0, NEW p, Follows(p, k - 1)
    PROVE  Follows(PostRunStep(p, k), k)
<1>1. /\ k \in Nat /\ k - 1 \in Nat /\ k - 1 # num_time_steps - 1 /\ k > 0
      /\ k - 1 + 1 = k /\ k <= num_time_steps
      /\ num_time_steps \in Nat /\ RunHolds /\ start_time \in Int /\ time_step \in Nat
      /\ time_step > 0
  BY CompleteFacts, RunTypes DEF Complete, LiveInv
<1>2. k \in DOMAIN Cached /\ Cached[k] = StampOf(k)
  BY CompleteFacts
<1>3. PICK w \in BOOLEAN : p.o = Kept(k - 1, w) /\ Plain(k - 1, w)
  BY <1>1 DEF Follows, IsLast
<1> DEFINE ready == IF Inside(k)
                    THEN PrepareStep(p.o, SecondsOf(Cached[k] - p.time), p.time)
                    ELSE p.o
           done == WriteOutput(ready, k, IsLast(k))
           q == [o |-> done, ok |-> TRUE, time |-> StampOf(k),
                 steps |-> p.steps \cup StepsWritten(done, k)]
           d == IsDue(k)
<1>4. PostRunStep(p, k) = q
  BY <1>2 DEF PostRunStep, Follows
<1>5. ~IsLast(k) => ready = Kept(k, d)
  <2> SUFFICES ASSUME ~IsLast(k) PROVE ready = Kept(k, d)
    OBVIOUS
  <2>1. Inside(k)
    BY <1>1 DEF Inside
  <2>2. Cached[k] - p.time = time_step
    <3>1. p.time = start_time + (k - 1) * time_step /\ Cached[k] = start_time + k * time_step
      BY <1>2 DEF Follows, StampOf
    <3>2. start_time + ((k - 1) + 1) * time_step = (start_time + (k - 1) * time_step) + time_step
      BY <1>1, Monotone
    <3>3. start_time + (k - 1) * time_step \in Int /\ (k - 1) + 1 = k
      BY <1>1
    <3> DEFINE a == start_time + (k - 1) * time_step
               b == start_time + k * time_step
    <3>4. p.time = a /\ Cached[k] = b /\ a \in Int /\ b = a + time_step
      BY <3>1, <3>2, <3>3
    <3> HIDE DEF a, b
    <3> QED
      BY <1>1, <3>4
  <2>3. ready = PrepareStep(Kept(k - 1, w), time_step, StampOf(k - 1))
    BY <1>3, <2>1, <2>2, CompleteFacts DEF Follows
  <2>4. PrepareStep(Kept(k - 1, w), time_step, StampOf(k - 1)) = Kept(k - 1 + 1, IsDue(k - 1 + 1))
    BY <1>1, <1>3, PrepareIsDue
  <2> QED
    BY <1>1, <2>3, <2>4
<1>6. Plain(k, d)
  <2>1. FirstDue \in Nat
    BY <1>1, FirstDueSplits
  <2>2. FirstDue <= k => k = FirstDue \/ k > FirstDue
    BY <1>1, <2>1
  <2> QED
    BY <1>1, <2>2 DEF Plain, IsDue
<1>7. d \in BOOLEAN
  BY DueIsBoolean
<1>8. p.steps = {j \in 0 .. k - 1 : j \in written}
  BY DEF Follows
<1>9. d = IsDue(k)
  OBVIOUS
<1> HIDE DEF ready, d
<1>10. Follows(q, k)
  BY <1>5, <1>6, <1>7, <1>8, <1>9, TurnWrites
<1> QED
  BY <1>4, <1>10

\* The turns of the loop up to turn n.
IsLoop(f, z, n) ==
    f = [k \in -1 .. n |-> IF k = -1 THEN z ELSE PostRunStep(f[k - 1], k)]

\* There are such turns.
LEMMA LoopExists == \A z : \A n \in Nat : \E f : IsLoop(f, z, n - 1)
<1> SUFFICES ASSUME NEW z, \E n \in Nat : ~\E f : IsLoop(f, z, n - 1)
             PROVE  FALSE
  OBVIOUS
<1> DEFINE T == {n \in Nat : ~\E f : IsLoop(f, z, n - 1)}
<1>1. PICK m \in T : \A i \in T : m <= i
  <2>1. T \in SUBSET Nat /\ T # {}
    OBVIOUS
  <2> HIDE DEF T
  <2> QED
    BY <2>1, Least
<1>2. m \in Nat /\ ~\E f : IsLoop(f, z, m - 1)
  OBVIOUS
<1>3. CASE m = 0
  <2> DEFINE f == [k \in -1 .. m - 1 |-> z]
  <2>1. \A k \in -1 .. m - 1 : k = -1
    BY <1>3
  <2>2. f = [k \in -1 .. m - 1 |-> IF k = -1 THEN z ELSE PostRunStep(f[k - 1], k)]
    BY <2>1
  <2>3. IsLoop(f, z, m - 1)
    BY <2>2 DEF IsLoop
  <2> QED
    BY <1>2, <2>3
<1>4. CASE m # 0
  <2>1. m - 1 \in Nat /\ ~(m <= m - 1)
    BY <1>2, <1>4
  <2>2. PICK f : IsLoop(f, z, m - 1 - 1)
    BY <1>1, <2>1
  <2> DEFINE t == PostRunStep(f[m - 1 - 1], m - 1)
             g == [k \in -1 .. m - 1 |-> IF k = m - 1 THEN t ELSE f[k]]
  <2>3. \A k \in -1 .. m - 1 : g[k] = IF k = -1 THEN z ELSE PostRunStep(g[k - 1], k)
    <3> TAKE k \in -1 .. m - 1
    <3>1. CASE k = m - 1
      <4>1. k # -1 /\ k - 1 \in -1 .. m - 1 /\ k - 1 # m - 1
        BY <2>1, <3>1
      <4>2. g[k] = t /\ g[k - 1] = f[k - 1]
        BY <3>1, <4>1
      <4> QED
        BY <3>1, <4>1, <4>2
    <3>2. CASE k # m - 1
      <4>1. k \in -1 .. m - 1 - 1
        BY <1>2, <3>2
      <4>2. f[k] = IF k = -1 THEN z ELSE PostRunStep(f[k - 1], k)
        BY <2>2, <4>1 DEF IsLoop
      <4>3. k # -1 => k - 1 \in -1 .. m - 1 /\ k - 1 # m - 1
        BY <1>2, <4>1
      <4>4. g[k] = f[k] /\ (k # -1 => g[k - 1] = f[k - 1])
        BY <3>2, <4>3
      <4> HIDE DEF g
      <4> QED
        BY <4>2, <4>4
    <3> QED
      BY <3>1, <3>2
  <2>4. IsLoop(g, z, m - 1)
    <3>1. g = [k \in -1 .. m - 1 |-> g[k]]
      OBVIOUS
    <3> HIDE DEF g
    <3>2. [k \in -1 .. m - 1 |-> g[k]]
            = [k \in -1 .. m - 1 |-> IF k = -1 THEN z ELSE PostRunStep(g[k - 1], k)]
      BY <2>3
    <3> QED
      BY <3>1, <3>2 DEF IsLoop
  <2> QED
    BY <1>2, <2>4
<1> QED
  BY <1>3, <1>4

\* What the loop returns is what its last turn left.
LEMMA LoopIs ==
    ASSUME num_time_steps \in Nat
    PROVE  \E f : IsLoop(f, FirstTurn, num_time_steps - 1)
                  /\ PostRunFrom(Rewound) = f[num_time_steps - 1]
<1> DEFINE turns == CHOOSE f : IsLoop(f, FirstTurn, num_time_steps - 1)
<1>1. IsLoop(turns, FirstTurn, num_time_steps - 1)
  BY LoopExists
<1>2. PostRunFrom(Rewound) = turns[num_time_steps - 1]
  BY Zenon DEF PostRunFrom, IsLoop, FirstTurn
<1> QED
  BY <1>1, <1>2

\* Every turn follows the step of the run with its number.
LEMMA TurnsFollow ==
    ASSUME Complete, NEW f, IsLoop(f, FirstTurn, num_time_steps - 1)
    PROVE  \A k \in 0 .. num_time_steps - 1 : Follows(f[k], k)
<1> SUFFICES ASSUME \E k \in 0 .. num_time_steps - 1 : ~Follows(f[k], k)
             PROVE  FALSE
  OBVIOUS
<1> DEFINE T == {k \in 0 .. num_time_steps - 1 : ~Follows(f[k], k)}
<1>1. num_time_steps \in Nat
  BY CompleteFacts
<1>2. PICK m \in T : \A i \in T : m <= i
  <2>1. T \in SUBSET Nat /\ T # {}
    BY <1>1
  <2> HIDE DEF T
  <2> QED
    BY <2>1, Least
<1>3. m \in 0 .. num_time_steps - 1 /\ ~Follows(f[m], m)
  OBVIOUS
<1>4. \A k \in -1 .. num_time_steps - 1 :
         f[k] = IF k = -1 THEN FirstTurn ELSE PostRunStep(f[k - 1], k)
  BY DEF IsLoop
<1>5. CASE m = 0
  <2>1. f[0 - 1] = FirstTurn
    BY <1>1, <1>3, <1>4
  <2>2. f[0] = PostRunStep(f[0 - 1], 0)
    BY <1>1, <1>3, <1>4, <1>5
  <2> QED
    BY <1>3, <1>5, <2>1, <2>2, TurnZero
<1>6. CASE m # 0
  <2>1. m - 1 \in 0 .. num_time_steps - 1 /\ ~(m <= m - 1)
    BY <1>1, <1>3, <1>6
  <2>2. Follows(f[m - 1], m - 1)
    BY <1>2, <2>1
  <2>3. f[m] = PostRunStep(f[m - 1], m)
    BY <1>1, <1>3, <1>4
  <2> QED
    BY <1>3, <1>6, <2>2, <2>3, TurnNext
<1> QED
  BY <1>5, <1>6

PostInv == LiveInv /\ CacheHolds /\ PostRunFollows

LEMMA PostNext ==
    ASSUME ZeroWritten, ShortSteps
    PROVE  PostInv /\ [Next]_vars => PostInv'
<1> SUFFICES ASSUME PostInv, [Next]_vars PROVE PostInv'
  OBVIOUS
<1> USE DEF PostInv
<1>1. LiveInv' /\ CacheHolds'
  BY LiveNext, CacheNext DEF LiveInv
<1>2. ASSUME post' = <<>> PROVE PostRunFollows'
  <2>1. Range(post') = {}
    BY <1>2 DEF Range
  <2> QED
    BY <2>1 DEF PostRunFollows
<1>3. CASE UNCHANGED vars
  BY <1>1, <1>3 DEF vars, model, cache, PostRunFollows
<1>4. CASE StepZero \/ StepOn
  BY <1>1, <1>2, <1>4 DEF StepZero, StepOn, OutputStep
<1>5. CASE RewindCall
  BY <1>1, <1>2, <1>5 DEF RewindCall, Rewind
<1>6. ASSUME NEW t \in StartTimes, SetStartTime(t) PROVE PostInv'
  BY <1>1, <1>2, <1>6 DEF SetStartTime, Rewind
<1>7. ASSUME NEW s \in TimeSteps, SetTimeStep(s) PROVE PostInv'
  BY <1>1, <1>2, <1>7 DEF SetTimeStep, Rewind
<1>8. ASSUME NEW d \in Durations, SetDuration(d) PROVE PostInv'
  BY <1>1, <1>2, <1>8 DEF SetDuration, Rewind
<1>9. ASSUME NEW b \in BOOLEAN, SetCacheEnabled(b) PROVE PostInv'
  BY <1>1, <1>2, <1>9 DEF SetCacheEnabled
<1>10. CASE PostRun
  <2> DEFINE p == PostRunFrom(Rewound)
  <2>1. /\ current_time_step >= num_time_steps - 1
        /\ post' = <<[ok |-> p.ok, steps |-> p.steps]>>
        /\ UNCHANGED <<model, config, out, cache, written, ends>>
    BY <1>10 DEF PostRun
  <2>2. UNCHANGED <<num_time_steps, current_time_step, config, disk, written, ends>>
    BY <2>1 DEF model, cache
  <2>3. num_time_steps \in Nat /\ num_time_steps >= 1 /\ current_time_step = num_time_steps - 1
        /\ written \subseteq 0 .. current_time_step
    BY <2>1, RunTypes DEF LiveInv, RunHolds
  <2>4. ASSUME config.last, ends = {num_time_steps - 1},
               0 .. current_time_step \subseteq DOMAIN disk
        PROVE  p.ok /\ p.steps = written
    <3>1. Complete
      BY <2>3, <2>4 DEF Complete
    <3>2. PICK f : IsLoop(f, FirstTurn, num_time_steps - 1) /\ p = f[num_time_steps - 1]
      BY <2>3, LoopIs
    <3>3. Follows(p, num_time_steps - 1)
      <4>1. num_time_steps - 1 \in 0 .. num_time_steps - 1
        BY <2>3
      <4> QED
        BY <3>1, <3>2, <4>1, TurnsFollow
    <3>4. p.ok /\ p.steps = {j \in 0 .. current_time_step : j \in written}
      BY <2>3, <3>3 DEF Follows
    <3> QED
      BY <2>3, <3>4
  <2> HIDE DEF p
  <2>5. \A r \in Range(post') : r = [ok |-> p.ok, steps |-> p.steps]
    BY <2>1 DEF Range
  <2>6. PostRunFollows'
    BY <2>2, <2>4, <2>5 DEF PostRunFollows
  <2> QED
    BY <1>1, <2>6
<1> QED
  BY <1>3, <1>4, <1>5, <1>6, <1>7, <1>8, <1>9, <1>10 DEF Next

\* The output written after a run from the cache is that written during it,
\* for every run all of whose steps are in the cache: the schedule is rebuilt
\* from the time stamps of the saved steps.
THEOREM PostRunFollowsRun ==
    ASSUME ZeroWritten, ShortSteps
    PROVE  Spec => []PostRunFollows
<1>1. Init => PostInv
  <2> SUFFICES ASSUME Init PROVE PostInv
    OBVIOUS
  <2>1. CacheHolds
    BY DEF Init, CacheHolds, NoSteps
  <2>2. Range(post) = {}
    BY DEF Init, Range
  <2> QED
    BY <2>1, <2>2, LiveInit DEF PostInv, PostRunFollows
<1>2. PostInv => PostRunFollows
  BY DEF PostInv
<1> QED
  BY <1>1, <1>2, PostNext, PTL DEF Spec
=============================================================================
