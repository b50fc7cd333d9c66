-------------------------- MODULE ReleaseSchedule --------------------------
(***************************************************************************)
(* The release schedule of a spill: how many elements a Release object     *)
(* (spill/release.py) says should exist at a given time.                   *)
(*                                                                         *)
(* A release is a record                                                   *)
(*   begin   release_time,                                                 *)
(*   end     end_release_time (= begin for an instantaneous release),      *)
(*   n       num_elements or num_per_timestep,                             *)
(*   perStep TRUE when n is num_per_timestep.                              *)
(* Times and time steps are whole seconds counted from an arbitrary epoch. *)
(*                                                                         *)
(* The code samples the schedule at the time steps (_release_ts, a         *)
(* TimeseriesData) and interpolates between the samples; both halves are   *)
(* operators here.  The arithmetic is exact; the code's is in doubles.     *)
(***************************************************************************)
EXTENDS Integers

\* Every release the constructor and the setter of end_release_time accept.
IsRelease(r) ==
    /\ r.begin \in Int /\ r.end \in Int
    /\ r.begin <= r.end
    /\ r.n \in Nat
    /\ r.perStep \in BOOLEAN

CeilDiv(a, b) == (a + b - 1) \div b

ReleaseDuration(r) == r.end - r.begin

Instantaneous(r) == ReleaseDuration(r) = 0

\* get_num_release_time_steps
NumReleaseTimeSteps(r, ts) ==
    IF Instantaneous(r) THEN 1 ELSE CeilDiv(ReleaseDuration(r), ts)

\* The number of elements the whole release produces.
MaxRelease(r, ts) ==
    IF r.perStep THEN r.n * NumReleaseTimeSteps(r, ts) ELSE r.n

\* A faulty variant: one element too few is let through.
EnoughElementsLax(r, ts) ==
    IF r.perStep THEN r.n >= 1 ELSE r.n + 1 >= NumReleaseTimeSteps(r, ts)

\* LE_timestep_ratio(ts) >= 1: prepare_for_model_run raises otherwise.
EnoughElements(r, ts) ==
    IF r.perStep THEN r.n >= 1 ELSE r.n >= NumReleaseTimeSteps(r, ts)

-----------------------------------------------------------------------------
(* generate_release_timeseries: samples 0 .. NumReleaseTimeSteps.          *)

\* A faulty variant: the two samples of an instantaneous release coincide.
SampleTimeFlat(r, ts, i) ==
    IF i < NumReleaseTimeSteps(r, ts) THEN r.begin + ts * i ELSE r.end

SampleTime(r, ts, i) ==
    IF i < NumReleaseTimeSteps(r, ts) THEN r.begin + ts * i
    ELSE IF Instantaneous(r) THEN r.end + 1
    ELSE r.end

\* A faulty variant: the spacing of num_ts + 2 samples.
SampleDataShort(r, ts, i) ==
    IF Instantaneous(r) THEN MaxRelease(r, ts)
    ELSE (MaxRelease(r, ts) * i) \div (NumReleaseTimeSteps(r, ts) + 1)

\* np.linspace(0, max_release, num_ts + 1).astype(int), or a constant.
SampleData(r, ts, i) ==
    IF Instantaneous(r) THEN MaxRelease(r, ts)
    ELSE (MaxRelease(r, ts) * i) \div NumReleaseTimeSteps(r, ts)

\* The sample interval that holds time t, for t between the first and the
\* last sample (Time.index_of): it ends at sample SampleIndex.
SampleIndex(r, ts, t) ==
    IF t > r.begin + ts * (NumReleaseTimeSteps(r, ts) - 1)
    THEN NumReleaseTimeSteps(r, ts)
    ELSE CeilDiv(t - r.begin, ts)

\* A faulty variant: always one more than the whole part.
ScheduleAtPlusOne(r, ts, t) ==
    LET last == NumReleaseTimeSteps(r, ts)
        i    == SampleIndex(r, ts, t)
        t0   == SampleTime(r, ts, i - 1)
        t1   == SampleTime(r, ts, i)
        d0   == SampleData(r, ts, i - 1)
        d1   == SampleData(r, ts, i)
    IN  IF t > SampleTime(r, ts, last) THEN SampleData(r, ts, last)
        ELSE IF t <= r.begin THEN SampleData(r, ts, 0)
        ELSE d0 + ((d1 - d0) * (t - t0)) \div (t1 - t0) + 1

\* ceil(_release_ts.at(None, t, extrapolate=True)): linear interpolation
\* inside the samples, the end values outside them.
ScheduleAt(r, ts, t) ==
    LET last == NumReleaseTimeSteps(r, ts)
        i    == SampleIndex(r, ts, t)
        t0   == SampleTime(r, ts, i - 1)
        t1   == SampleTime(r, ts, i)
        d0   == SampleData(r, ts, i - 1)
        d1   == SampleData(r, ts, i)
    IN  IF t > SampleTime(r, ts, last) THEN SampleData(r, ts, last)
        ELSE IF t <= r.begin THEN SampleData(r, ts, 0)
        ELSE d0 + CeilDiv((d1 - d0) * (t - t0), t1 - t0)

\* A faulty variant: nothing is prescribed outside the samples.
NumElementsInside(r, ts, current_time, dt) ==
    IF ts = 0 \/ current_time < r.begin
          \/ current_time + dt > SampleTime(r, ts, NumReleaseTimeSteps(r, ts))
    THEN 0
    ELSE ScheduleAt(r, ts, current_time + dt)

\* num_elements_after_time for a release prepared for time step ts; ts = 0
\* stands for a release that is not prepared.
NumElementsAfterTime(r, ts, current_time, dt) ==
    IF ts = 0 \/ current_time < r.begin THEN 0
    ELSE ScheduleAt(r, ts, current_time + dt)
=============================================================================
