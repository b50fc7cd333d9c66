----------------------------- MODULE ModelRun ------------------------------
(***************************************************************************)
(* The run engine, gnome.model.Model: rewind, set-up, the steps of a run,  *)
(* full_run, and the edits a caller may make between two calls, each with  *)
(* the rewind its setter or collection callback does or does not perform.  *)
(*                                                                         *)
(* The engine is single threaded.  A call of step() is one action; a call  *)
(* of full_run() is its start followed by the steps of its loop, during    *)
(* which the caller (mode "idle") has no turn.                             *)
(***************************************************************************)
EXTENDS SpillContainers

CONSTANTS
    Movers,          \* mover objects a caller may add
    Weatherers,      \* weatherers a caller may add
    WeatheringData,  \* the one set-up adds when there are weatherers
    StartTimes,      \* values of the start_time setter
    TimeSteps,       \* values of the time_step setter, in seconds
    Durations,       \* values of the duration setter, in seconds
    UncertainModes,  \* values of the uncertain setter
    Caller,          \* what the caller does beyond the plain cycle of
                     \* edit, rewind and run (see CallerHabits)
    IdBound          \* bound of the model: no run starts with a larger id

\* "add"     adds a spill while a run is under way
\* "remove"  removes a spill while a run is under way
\* "readd"   adds a spill that was removed after it had released elements
\* "switch"  changes Spill.on of a spill in the collection
\* "resume"  calls full_run(rewind=False) while a run is under way
\* "again"   adds a spill that is in the collection to an uncertain model
CallerHabits == {"add", "remove", "readd", "switch", "resume", "again"}

ASSUME CallerAssumption == Caller \subseteq CallerHabits
ASSUME BoundAssumption == IdBound \in Nat
ASSUME TimeAssumption ==
    /\ StartTimes \subseteq Int
    /\ TimeSteps \subseteq {n \in Nat : n > 0 /\ n % 2 = 0}
    /\ Durations \subseteq Nat
    /\ UncertainModes \subseteq BOOLEAN

VARIABLES
    current_time_step,  \* -1: rewound, no step taken
    num_time_steps,
    start_time, time_step, duration,
    uncertain,          \* SpillContainerPair.uncertain
    sc,                 \* the container record of each container
    next_id,            \* initial_value of the shared 'id' array type
    movers, weatherers,
    mode,               \* "full" inside the loop of full_run, else "idle"
    run_config          \* history: the configuration of the run under way

edited == <<start_time, time_step, duration, num_time_steps, uncertain,
            movers, weatherers>>
run    == <<current_time_step, sc, next_id, run_config>>
vars   == <<edited, run, mode>>

Config == [movers |-> movers, start_time |-> start_time,
           time_step |-> time_step, uncertain |-> uncertain]

Configs == [movers : SUBSET Movers, start_time : StartTimes,
            time_step : TimeSteps, uncertain : BOOLEAN]

\* current_time_step.setter
ModelTime == start_time + current_time_step * time_step

\* _reset_num_time_steps
NumTimeSteps(d, ts) == 1 + d \div ts

Live == IF uncertain THEN Containers ELSE {"forecast"}

-----------------------------------------------------------------------------
(* Rewind and set-up                                                       *)

\* A faulty variant: the step is reset, the containers are not.
RewindStepOnly ==
    /\ current_time_step' = -1
    /\ run_config' = <<>>
    /\ UNCHANGED <<sc, next_id>>

\* Model.rewind.  next_id belongs to the module-level array types and is
\* not reset.
Rewind ==
    /\ current_time_step' = -1
    /\ sc' = RewindPair(sc, uncertain)
    /\ run_config' = <<>>
    /\ UNCHANGED next_id

\* setup_model_run adds WeatheringData when some weatherer is on and it is
\* missing; the collection's callback then rewinds the model.  So do the
\* callbacks when _order_weatherers sorts the collection by filling it anew:
\* not modelled, since a collection gets out of order by an addition, which
\* has rewound the model already.
CompanionMissing == weatherers # {} /\ WeatheringData \notin weatherers

WeatherersAfterSetup ==
    IF CompanionMissing THEN weatherers \cup {WeatheringData} ELSE weatherers

\* The containers that set-up prepares, pair being those it was called with.
SetupBase(pair) ==
    IF CompanionMissing THEN RewindPair(pair, uncertain) ELSE pair

SetupRaises(pair) == Unpreparable(pair["forecast"], time_step) # {}

\* setup_model_run: the forecast container is prepared first, so a release
\* with too few elements stops set-up there.
SetupPair(pair) ==
    LET base == SetupBase(pair)
    IN  [c \in Containers |->
            IF SetupRaises(base)
            THEN IF c = "forecast" THEN PrepareRaises(base[c], time_step)
                 ELSE base[c]
            ELSE IF c \in Live THEN PrepareContainer(base[c], time_step)
            ELSE base[c]]

\* check_inputs: a spill that is on may not start before the model does.
InvalidInputs(pair) ==
    \E s \in Members(pair["forecast"]) :
        /\ pair["forecast"].on[s]
        /\ ReleaseOf[s].begin < start_time

-----------------------------------------------------------------------------
(* Model.step                                                              *)

\* A step that raises ends a full_run.
LeaveFullRun == mode' = "idle"

\* Step -1 with a set-up or an input check that raises: whatever set-up did
\* before stays done.
StepFails ==
    /\ current_time_step = -1
    /\ SetupRaises(SetupBase(sc)) \/ InvalidInputs(SetupPair(sc))
    /\ sc' = SetupPair(sc)
    /\ weatherers' = WeatherersAfterSetup
    /\ LeaveFullRun
    /\ UNCHANGED <<current_time_step, next_id, run_config, start_time,
                   time_step, duration, num_time_steps, uncertain, movers>>

\* Step -1: set-up, then the release of what is due at the start time.
StepZero ==
    /\ current_time_step = -1
    /\ next_id <= IdBound
    /\ current_time_step' = 0
    /\ \E ready \in {SetupPair(sc)} :
          /\ ~SetupRaises(SetupBase(sc)) /\ ~InvalidInputs(ready)
          /\ sc' = ReleasePair(ready, start_time, 0, next_id)
          /\ next_id' = NextIdAfter(ready, start_time, 0, next_id)
    /\ weatherers' = WeatherersAfterSetup
    /\ run_config' = <<Config>>
    /\ UNCHANGED <<start_time, time_step, duration, num_time_steps,
                   uncertain, movers, mode>>

\* A step of the run: release for half the step, move, remove, age, then
\* release what is due at the new model time.
StepOn ==
    LET half  == time_step \div 2
        later == ModelTime + time_step
    IN  /\ current_time_step >= 0
        /\ current_time_step < num_time_steps - 1
        /\ current_time_step' = current_time_step + 1
        /\ \E pair \in {ReleasePair(sc, ModelTime, half, next_id)} :
           \E f \in MoveOutcomes(pair["forecast"]),
              g \in MoveOutcomes(pair["uncertain"]) :
           \E moved \in {StepPair(pair, f, g, time_step)} :
           \E id \in {NextIdAfter(sc, ModelTime, half, next_id)} :
              /\ sc' = ReleasePair(moved, later, 0, id)
              /\ next_id' = NextIdAfter(moved, later, 0, id)
        /\ UNCHANGED <<edited, run_config, mode>>

\* A faulty variant: the loop of full_run misses the end.
StepPastEndUnseen ==
    /\ current_time_step >= 0
    /\ current_time_step >= num_time_steps - 1
    /\ UNCHANGED <<edited, run, mode>>

\* A step past the last one: StopIteration.
StepPastEnd ==
    /\ current_time_step >= 0
    /\ current_time_step >= num_time_steps - 1
    /\ LeaveFullRun
    /\ UNCHANGED <<edited, run>>

Step == StepFails \/ StepZero \/ StepOn \/ StepPastEnd

\* full_run up to its loop.
FullRun(rewind) ==
    /\ mode = "idle"
    /\ next_id <= IdBound
    /\ rewind \/ current_time_step = -1 \/ "resume" \in Caller
    /\ \E pair \in {IF rewind THEN RewindPair(sc, uncertain) ELSE sc} :
          /\ sc' = SetupPair(pair)
          /\ mode' = IF SetupRaises(SetupBase(pair)) THEN "idle" ELSE "full"
    /\ weatherers' = WeatherersAfterSetup
    /\ IF rewind \/ CompanionMissing
       THEN current_time_step' = -1 /\ run_config' = <<>>
       ELSE UNCHANGED <<current_time_step, run_config>>
    /\ UNCHANGED <<next_id, start_time, time_step, duration, num_time_steps,
                   uncertain, movers>>

-----------------------------------------------------------------------------
(* Edits between calls                                                     *)

SetStartTime(t) ==
    /\ start_time' = t
    /\ Rewind
    /\ UNCHANGED <<time_step, duration, num_time_steps, uncertain, movers,
                   weatherers>>

SetTimeStep(ts) ==
    /\ time_step' = ts
    /\ num_time_steps' = NumTimeSteps(duration, ts)
    /\ Rewind
    /\ UNCHANGED <<start_time, duration, uncertain, movers, weatherers>>

\* A faulty variant: a shorter duration does not rewind.
SetDurationKeeps(d) ==
    /\ duration' = d
    /\ num_time_steps' = NumTimeSteps(d, time_step)
    /\ UNCHANGED run
    /\ UNCHANGED <<start_time, time_step, uncertain, movers, weatherers>>

\* Only a shorter duration rewinds; a longer one lets a finished run go on.
SetDuration(d) ==
    /\ duration' = d
    /\ num_time_steps' = NumTimeSteps(d, time_step)
    /\ IF d < duration THEN Rewind ELSE UNCHANGED run
    /\ UNCHANGED <<start_time, time_step, uncertain, movers, weatherers>>

SetUncertain(b) ==
    /\ b # uncertain
    /\ uncertain' = b
    /\ current_time_step' = -1
    /\ sc' = RewindPair([sc EXCEPT !["uncertain"] =
                            IF b THEN UncertainCopy(sc["forecast"])
                            ELSE EmptyContainer], b)
    /\ run_config' = <<>>
    /\ UNCHANGED <<next_id, start_time, time_step, duration, num_time_steps,
                   movers, weatherers>>

AddMover(m) ==
    /\ m \notin movers
    /\ movers' = movers \cup {m}
    /\ Rewind
    /\ UNCHANGED <<start_time, time_step, duration, num_time_steps,
                   uncertain, weatherers>>

\* A faulty variant: no callback is registered for 'remove'.
RemoveMoverQuietly(m) ==
    /\ m \in movers
    /\ movers' = movers \ {m}
    /\ UNCHANGED <<run, start_time, time_step, duration, num_time_steps,
                   uncertain, weatherers>>

RemoveMover(m) ==
    /\ m \in movers
    /\ movers' = movers \ {m}
    /\ Rewind
    /\ UNCHANGED <<start_time, time_step, duration, num_time_steps,
                   uncertain, weatherers>>

AddWeatherer(w) ==
    /\ w \notin weatherers
    /\ weatherers' = weatherers \cup {w}
    /\ Rewind
    /\ UNCHANGED <<start_time, time_step, duration, num_time_steps,
                   uncertain, movers>>

\* No callback is registered for the removal of a weatherer.
RemoveWeatherer(w) ==
    /\ w \in weatherers
    /\ weatherers' = weatherers \ {w}
    /\ UNCHANGED <<run, start_time, time_step, duration, num_time_steps,
                   uncertain, movers>>

\* No callback rewinds the model when a spill is added or removed.  A spill
\* that is in the collection is ignored, and its copy is not ("again").  The
\* model is bounded by the copies of a spill that it has names for.  A tuple
\* of a new spill and its new copy is added alike; SpillPair has the others.
AddSpill(s) ==
    /\ current_time_step = -1 \/ "add" \in Caller
    /\ IF s \in Members(sc["forecast"])
       THEN ~uncertain \/ "again" \in Caller
       ELSE sc["forecast"].num_released[s] = 0 \/ "readd" \in Caller
    /\ uncertain => NewCopies(sc["uncertain"], s) # {}
    /\ sc' = AddToPair(sc, uncertain, s)
    /\ UNCHANGED <<edited, current_time_step, next_id, run_config>>

RemoveSpill(i) ==
    /\ current_time_step = -1 \/ "remove" \in Caller
    /\ sc' = RemoveFromPair(sc, uncertain, i)
    /\ UNCHANGED <<edited, current_time_step, next_id, run_config>>

\* spill.on = v: the caller holds the forecast spill, not its copy.
SwitchSpill(s) ==
    /\ "switch" \in Caller
    /\ sc' = [sc EXCEPT !["forecast"].on[s] = ~@]
    /\ UNCHANGED <<edited, current_time_step, next_id, run_config>>

Edit ==
    /\ mode = "idle"
    /\ UNCHANGED mode
    /\ \/ Rewind /\ UNCHANGED edited
       \/ \E t \in StartTimes : SetStartTime(t)
       \/ \E ts \in TimeSteps : SetTimeStep(ts)
       \/ \E d \in Durations : SetDuration(d)
       \/ \E b \in UncertainModes : SetUncertain(b)
       \/ \E m \in Movers : AddMover(m) \/ RemoveMover(m)
       \/ \E w \in Weatherers : AddWeatherer(w) \/ RemoveWeatherer(w)
       \/ \E s \in Originals : AddSpill(s)
       \/ \E i \in DOMAIN sc["forecast"].spills : RemoveSpill(i)
       \/ \E s \in Members(sc["forecast"]) : SwitchSpill(s)

-----------------------------------------------------------------------------
(* Specification                                                           *)

\* Model.__init__
Init ==
    /\ start_time \in StartTimes
    /\ time_step \in TimeSteps
    /\ duration \in Durations
    /\ uncertain \in UncertainModes
    /\ num_time_steps = NumTimeSteps(duration, time_step)
    /\ current_time_step = -1
    /\ sc = [c \in Containers |-> EmptyContainer]
    /\ next_id = 0
    /\ movers = {}
    /\ weatherers = {}
    /\ mode = "idle"
    /\ run_config = <<>>

Next == Step \/ (\E rewind \in BOOLEAN : FullRun(rewind)) \/ Edit

\* The loop of full_run goes on by itself; the caller need not do anything.
Fairness == WF_vars(mode = "full" /\ Step)

Spec == Init /\ [][Next]_vars /\ Fairness

-----------------------------------------------------------------------------
(* Properties                                                              *)

\* Every variable has its type; between two calls no element is left in the
\* arrays with a status that only exists inside a step.
TypeOK ==
    /\ current_time_step \in Nat \cup {-1}
    /\ num_time_steps \in Nat
    /\ start_time \in StartTimes
    /\ time_step \in TimeSteps
    /\ duration \in Durations
    /\ uncertain \in BOOLEAN
    /\ sc \in [Containers -> ContainerStates]
    /\ next_id \in Nat
    /\ movers \in SUBSET Movers
    /\ weatherers \in SUBSET (Weatherers \cup {WeatheringData})
    /\ mode \in {"idle", "full"}
    /\ run_config \in {<<>>} \cup {<<c>> : c \in Configs}

Ordinals(k, s) == {e.ord : e \in {x \in k.elements : x.owner = s}}

GoneOrdinals(k, s) == {p[2] : p \in {x \in k.gone : x[1] = s}}

\* No element of a spill is lost or released twice: what Spill counts as
\* released (_num_released) is, element for element, in the container's
\* arrays or was taken off the map by model_step_is_done, never both.
ElementsAccounted ==
    \A c \in Live : \A s \in Members(sc[c]) :
        /\ Ordinals(sc[c], s) \cup GoneOrdinals(sc[c], s)
               = 1 .. sc[c].num_released[s]
        /\ Ordinals(sc[c], s) \cap GoneOrdinals(sc[c], s) = {}

\* The two releases of a step (half of it before the move, the rest at the
\* new model time) add up to the schedule: after every step a spill that is
\* on has released exactly what its release prescribes for the model time.
ReleasedOnSchedule ==
    current_time_step >= 0 =>
        \A c \in Live : \A s \in Members(sc[c]) :
            sc[c].on[s] =>
                sc[c].num_released[s] =
                    NumElementsAfterTime(ReleaseOf[s], sc[c].prepared[s],
                                         ModelTime, 0)

\* The 'id' array identifies an element among those of its container, which
\* is what movers, weatherers and outputs see: no id is given again to an
\* element released later, after whatever was rewound, removed or added.
UniqueIds ==
    \A c \in Live : \A e, f \in sc[c].elements : e.id = f.id => e = f

\* spill_num of an element is the index of the spill that released it: what
\* get_spill_mask and the fate update of Model look up.
SpillNumNamesOwner ==
    \A c \in Live : \A e \in sc[c].elements :
        /\ e.spill_num + 1 \in DOMAIN sc[c].spills
        /\ sc[c].spills[e.spill_num + 1] = e.owner

\* A run never stands beyond its last step, however start time, time step
\* and duration are edited, and num_time_steps is up to date.
InsideRun ==
    /\ current_time_step < num_time_steps
    /\ num_time_steps = NumTimeSteps(duration, time_step)

\* The movers, clock and uncertainty a run began with are the ones it still
\* has: every edit of them rewinds the model (callbacks, setters).
RunConfigHeld == current_time_step >= 0 => run_config = <<Config>>

\* The mass balance agrees with the arrays: beached counts the elements on
\* land, off_maps all elements the run has lost over the map's edge.
MassBalanceAgrees ==
    \A c \in Live :
        /\ sc[c].beached =
               Cardinality({e \in sc[c].elements : e.status = "on_land"})
        /\ sc[c].off_maps = Cardinality(sc[c].gone)

\* The k-th spill of the uncertain container is a copy of the k-th forecast
\* spill, and it has released as many elements, as long as no spill was
\* added a second time.
UncertainMirrors ==
    LET forecast == sc["forecast"]
        copies == sc["uncertain"]
    IN  uncertain =>
            /\ Len(copies.spills) = Len(forecast.spills)
            /\ \A i \in DOMAIN forecast.spills :
                  LET s == forecast.spills[i]
                      u == copies.spills[i]
                  IN  /\ SpillOf[u] = s
                      /\ copies.num_released[u] = forecast.num_released[s]

\* age: an element is never older than its release, and within a spill an
\* element released earlier is at least as old.
AgesFollowRelease ==
    \A c \in Live : \A e \in sc[c].elements :
        /\ e.age <= ModelTime - ReleaseOf[e.owner].begin
        /\ \A f \in sc[c].elements :
               e.owner = f.owner /\ e.ord < f.ord => e.age >= f.age

\* Spill.rewind: "rewinds the release to original status (before anything
\* has been released)": a model at step -1 has spills that are all afresh.
RewoundAfresh ==
    current_time_step = -1 =>
        \A c \in Live : \A s \in Members(sc[c]) : sc[c].num_released[s] = 0

\* The elements of the live containers are carried over one step.
ElementsCarriedOn ==
    current_time_step >= 0 /\ current_time_step' >= 0 =>
        LET elapsed == (current_time_step' - current_time_step) * time_step
        IN  \A c \in Live : \A e \in sc[c].elements :
               \/ <<e.owner, e.ord>> \in sc'[c].gone
               \/ \E f \in sc'[c].elements :
                      /\ f.id = e.id /\ f.owner = e.owner /\ f.ord = e.ord
                      /\ f.spill_num = e.spill_num
                      /\ f.age = e.age + elapsed

\* As long as the model is not rewound an element keeps its id, its spill
\* and its place in it, and grows older by the time step with every step:
\* no edit, no other element's removal and no release disturbs it.
ElementsPersist == [][ElementsCarriedOn]_vars

\* A full run comes to an end, and not before the last step unless set-up
\* or the input check raised.
FullRunReachesEnd ==
    mode = "full" ~>
        mode = "idle" /\ current_time_step \in {-1, num_time_steps - 1}
=============================================================================
