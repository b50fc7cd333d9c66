--------------------------- MODULE OutputSchedule --------------------------
(***************************************************************************)
(* Which steps of a run an outputter writes, and what the element cache    *)
(* holds of it: gnome.outputters.outputter.Outputter and                   *)
(* gnome.utilities.cache.ElementCache, driven by gnome.model.Model during  *)
(* a run, and by write_output_post_run once the run is over.               *)
(*                                                                         *)
(* A saved step is represented by its time stamp: the stamp tells a step   *)
(* of this run from one of a run with another start or another time step,  *)
(* and it is what write_output_post_run rebuilds the schedule from.        *)
(***************************************************************************)
EXTENDS Integers, Functions

CONSTANTS
    StartTimes,     \* values of Model.start_time, in seconds
    TimeSteps,      \* values of Model.time_step
    Durations,      \* values of Model.duration
    OutputConfigs,  \* configurations of the outputter: its output_timestep
                    \* (every), output_start_time (from), output_zero_step
                    \* (zero) and output_last_step (last)
    None            \* Python's None

ASSUME ConfigAssumption ==
    /\ StartTimes \subseteq Int
    /\ TimeSteps \subseteq Nat \ {0}
    /\ Durations \subseteq Nat
    /\ None \notin Int
    /\ OutputConfigs \subseteq [every : (Nat \ {0}) \cup {None},
                                from : Int \cup {None},
                                zero : BOOLEAN, last : BOOLEAN]

VARIABLES
    current_time_step, num_time_steps, start_time, time_step, duration,
    config,   \* the outputter's configuration
    out,      \* the outputter's run state
    recent,   \* ElementCache.recent: step -> stamp
    disk,     \* the files of the cache: step -> stamp
    enabled,  \* ElementCache.enabled
    written,  \* history: the steps written since the latest rewind
    ends,     \* history: the steps that were the last one when taken
    post      \* <<>>, or the outcome of the latest write_output_post_run

model == <<current_time_step, num_time_steps, start_time, time_step, duration>>
cache == <<recent, disk, enabled>>
vars  == <<model, config, out, cache, written, ends, post>>

\* timedelta.seconds is what is left when the days are taken out.
SecondsOf(delta) == delta % 86400

NumTimeSteps(d, ts) == 1 + d \div ts

ModelTime == start_time + current_time_step * time_step

-----------------------------------------------------------------------------
(* The outputter                                                           *)

\* Outputter.rewind: also the state of a new outputter.
Rewound == [begin |-> None, dt |-> None, write |-> TRUE, first |-> TRUE]

\* prepare_for_model_run: the flag first keeps its value.
PrepareRun(o, t) ==
    [o EXCEPT !.begin = t, !.dt = 0, !.write = config.every = None \/ @]

Delayed(o) == config.from # None /\ config.from # o.begin

\* A faulty variant: the time since the last output restarts at zero.
CarryNone(since) == IF since >= config.every THEN 0 ELSE since

\* What is left of the time since the last output once a step is due.
Carry(since) == since % config.every

\* prepare_for_model_step: before the output start nothing is written, the
\* first step at or after it is, and from then on one step per period.
PrepareStep(o, d, t) ==
    LET next  == t + d
        since == o.dt + d
    IN  IF Delayed(o) /\ next < config.from THEN [o EXCEPT !.write = FALSE]
        ELSE IF Delayed(o) /\ (next = config.from \/ o.first)
             THEN [o EXCEPT !.write = TRUE, !.first = FALSE]
             ELSE IF config.every = None THEN o
                  ELSE [o EXCEPT !.write = since >= config.every,
                                 !.dt = Carry(since)]

\* write_output: the flag it leaves decides, here and, unless
\* prepare_for_model_step sets it again, at the next step.
WriteOutput(o, k, islast_step) ==
    [o EXCEPT !.write = \/ IF k = 0 THEN config.zero ELSE @
                        \/ islast_step /\ config.last]

StepsWritten(o, k) == IF o.write THEN {k} ELSE {}

-----------------------------------------------------------------------------
(* The cache                                                               *)

NoSteps == [k \in {} |-> 0]

\* A faulty variant: only the memory is cleared.
CacheRewindMemory == recent' = NoSteps /\ UNCHANGED <<disk, enabled>>

\* ElementCache.rewind.
CacheRewind == recent' = NoSteps /\ disk' = NoSteps /\ UNCHANGED enabled

\* save_timestep: the memory keeps the newest step only.
SaveTimestep(k, stamp) ==
    /\ recent' = [j \in {k} |-> stamp]
    /\ disk' = IF enabled
               THEN [j \in DOMAIN disk \cup {k} |->
                        IF j = k THEN stamp ELSE disk[j]]
               ELSE disk
    /\ UNCHANGED enabled

\* load_timestep: the steps it finds, and their stamps.
Cached == [k \in DOMAIN recent \cup DOMAIN disk |->
              IF k \in DOMAIN recent THEN recent[k] ELSE disk[k]]

-----------------------------------------------------------------------------
(* The run                                                                 *)

\* Model.rewind.
Rewind ==
    /\ current_time_step' = -1
    /\ CacheRewind
    /\ out' = Rewound
    /\ written' = {}
    /\ ends' = {}
    /\ post' = <<>>
    /\ UNCHANGED config

IsLast(k) == k = num_time_steps - 1

\* output_step: save to the cache, then write.
OutputStep(o, k) ==
    /\ current_time_step' = k
    /\ SaveTimestep(k, start_time + k * time_step)
    /\ out' = WriteOutput(o, k, IsLast(k))
    /\ written' = written \cup StepsWritten(out', k)
    /\ ends' = IF IsLast(k) THEN ends \cup {k} ELSE ends
    /\ post' = <<>>
    /\ UNCHANGED <<num_time_steps, start_time, time_step, duration, config>>

\* Step -1: set-up prepares the outputter.
StepZero ==
    /\ current_time_step = -1
    /\ OutputStep(PrepareRun(out, start_time), 0)

\* A later step: the outputter is prepared with the time before the step.
StepOn ==
    /\ current_time_step >= 0
    /\ current_time_step < num_time_steps - 1
    /\ OutputStep(PrepareStep(out, time_step, ModelTime),
                  current_time_step + 1)

SetStartTime(t) ==
    /\ start_time' = t
    /\ Rewind
    /\ UNCHANGED <<num_time_steps, time_step, duration>>

SetTimeStep(ts) ==
    /\ time_step' = ts
    /\ num_time_steps' = NumTimeSteps(duration, ts)
    /\ Rewind
    /\ UNCHANGED <<start_time, duration>>

\* Only a shorter duration rewinds.
SetDuration(d) ==
    /\ duration' = d
    /\ num_time_steps' = NumTimeSteps(d, time_step)
    /\ IF d < duration THEN Rewind
       ELSE /\ post' = <<>>
            /\ UNCHANGED <<current_time_step, config, out, cache, written,
                           ends>>
    /\ UNCHANGED <<start_time, time_step>>

\* cache_enabled.setter: no rewind.
SetCacheEnabled(b) ==
    /\ enabled' = b
    /\ post' = <<>>
    /\ UNCHANGED <<model, config, out, recent, disk, written, ends>>

RewindCall ==
    /\ Rewind
    /\ UNCHANGED <<num_time_steps, start_time, time_step, duration>>

-----------------------------------------------------------------------------
(* Output after the run                                                    *)

\* A faulty variant: the first step inside the run is not prepared.
InsideLate(k) == 1 < k /\ ~IsLast(k)

\* The steps the loop of write_output_post_run prepares.
Inside(k) == 0 < k /\ ~IsLast(k)

\* One turn of the loop of write_output_post_run.  The steps between the
\* first and the last are prepared, with the seconds between two stamps; a
\* step missing from the cache raises CacheError (ok), before or after the
\* step is written.
PostRunStep(p, k) ==
    LET found == k \in DOMAIN Cached
        ready == IF Inside(k) /\ found
                 THEN PrepareStep(p.o, SecondsOf(Cached[k] - p.time), p.time)
                 ELSE p.o
        done  == WriteOutput(ready, k, IsLast(k))
    IN  IF ~p.ok \/ (Inside(k) /\ ~found) THEN [p EXCEPT !.ok = FALSE]
        ELSE [o |-> done, ok |-> found,
              time  |-> IF found THEN Cached[k] ELSE p.time,
              steps |-> p.steps \cup StepsWritten(done, k)]

\* The whole loop, from the state o of the outputter it is called on.
PostRunFrom(o) ==
    LET turns[k \in -1 .. num_time_steps - 1] ==
            IF k = -1
            THEN [o |-> PrepareRun(o, start_time), ok |-> TRUE,
                  time |-> start_time, steps |-> {}]
            ELSE PostRunStep(turns[k - 1], k)
    IN  turns[num_time_steps - 1]

\* write_output_post_run, once the run is over, by a new outputter of the
\* same configuration.
PostRun ==
    /\ current_time_step >= 0
    /\ current_time_step >= num_time_steps - 1
    /\ \E p \in {PostRunFrom(Rewound)} :
          post' = <<[ok |-> p.ok, steps |-> p.steps]>>
    /\ UNCHANGED <<model, config, out, cache, written, ends>>

-----------------------------------------------------------------------------
Init ==
    /\ current_time_step = -1
    /\ start_time \in StartTimes
    /\ time_step \in TimeSteps
    /\ duration \in Durations
    /\ num_time_steps = NumTimeSteps(duration, time_step)
    /\ config \in OutputConfigs
    /\ out = Rewound
    /\ recent = NoSteps
    /\ disk = NoSteps
    /\ enabled \in BOOLEAN
    /\ written = {}
    /\ ends = {}
    /\ post = <<>>

Next ==
    \/ StepZero
    \/ StepOn
    \/ RewindCall
    \/ \E t \in StartTimes : SetStartTime(t)
    \/ \E ts \in TimeSteps : SetTimeStep(ts)
    \/ \E d \in Durations : SetDuration(d)
    \/ \E b \in BOOLEAN : SetCacheEnabled(b)
    \/ PostRun

Spec == Init /\ [][Next]_vars

-----------------------------------------------------------------------------
(* Properties                                                              *)

StampOf(k) == start_time + k * time_step

\* The first step at or after the output start; step 0 when none is given.
FirstDue ==
    IF config.from = None \/ config.from = start_time THEN 0
    ELSE CHOOSE k \in 1 .. num_time_steps + 1 :
            /\ StampOf(k) >= config.from \/ k = num_time_steps + 1
            /\ \A j \in 1 .. k - 1 : StampOf(j) < config.from

Periods(k) == ((k - FirstDue) * time_step) \div config.every

\* A step is due when it is the first, or a period of output_timestep ended
\* since the step before it.
IsDue(k) ==
    \/ k = FirstDue /\ k > 0
    \/ /\ k > FirstDue
       /\ config.every # None => Periods(k) > Periods(k - 1)

\* LiveOnSchedule: during a run exactly these steps are written: step 0 by
\* output_zero_step, a last step by output_last_step, and the steps that
\* are due on the grid of output_timestep, which starts at the output start.
\* The outputter keeps only the time since the last output and two flags
\* from step to step (outputter.py: prepare_for_model_step, write_output).
LiveOnSchedule ==
    \A k \in 0 .. current_time_step :
        k \in written <=> \/ k = 0 /\ config.zero
                          \/ k \in ends /\ config.last
                          \/ IsDue(k)

\* NothingStale: whatever load_timestep finds is of the run under way, and
\* the newest step is always found, whichever edits rewound the model and
\* whenever the disk cache was switched on or off (cache.py: save_timestep,
\* rewind).
NothingStale ==
    /\ \A k \in DOMAIN Cached :
          k \in 0 .. current_time_step /\ Cached[k] = StampOf(k)
    /\ current_time_step >= 0 => current_time_step \in DOMAIN Cached

\* PostRunFollows: when every step is in the cache, write_output_post_run
\* writes the steps the run wrote (outputter.py: "Follows the iteration in
\* Model().step() for each step_num"), for an outputter that writes the last
\* step, and a run that was not made longer after its last step.
PostRunFollows ==
    config.last /\ ends = {num_time_steps - 1} =>
        \A p \in Range(post) :
            0 .. current_time_step \subseteq DOMAIN disk =>
                p.ok /\ p.steps = written
=============================================================================
