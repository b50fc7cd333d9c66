# A verification project for pyGNOME

pyGNOME (`src/py_gnome/gnome`) is the Python package that runs NOAA's oil
spill trajectory model.  A `Model` object steps a clock; at every step it
releases Lagrangian elements from spills, moves them, beaches and refloats
them, weathers them, removes the ones that leave the map, and writes output.
The numerics (winds, currents, oil chemistry) are floating point and are not
the subject here.  The subject is the control around them: what is released
when, which element belongs to which spill, what a rewind resets, which edits
are allowed in a run, what the collections, caches, outputters and processes
promise one another, and, in the C++ library under the movers, which records
of a file are in memory, which random record belongs to which element and
whose block a handle leads to.

The repository holds far more than that.  Of its half a million lines of C and
C++ most are the desktop program (`gnome1/`), its project files and vendored
libraries (`third_party_lib/`); of `lib_gnome/` the package uses the part it
binds through `cy_gnome/`, and of that the stateful classes are the subject
here: `TimeGridVel_c`, `GridCurrentMover_c`, `CurrentMover_c`, `WindMover_c`
and `MemUtils`.  As a share of all the C and C++ lines they are few, under one
in a hundred, and no modelling of control would make them many; the program's
own core logic is in Python.  `experiments/`, `documentation`, data and scripts
are left aside too.

## 1. Inventory

| Component | State it keeps | Operations | Talks to |
|---|---|---|---|
| Run engine, `model.py` | current step, clock (start, step, duration, number of steps), uncertain flag, collections of movers, weatherers, environment, outputters, spills | `rewind`, `setup_model_run`, `check_inputs`, `step`, `full_run`, setters, collection callbacks | everything below, by direct calls; collections call it back |
| Spill containers, `spill_container.py` | the spills, the element arrays, the mass balance; a pair of containers when uncertain | `prepare_for_model_run`, `release_elements`, `model_step_is_done`, `rewind`, pair `add`/`remove`/`uncertain`, fate views, `split_element` | spills, array types, map, weatherers |
| Spill, `spill/spill.py` | `on`, `_num_released`, its release | `release_elements`, `rewind`, `prepare_for_model_run`, `uncertain_copy` | release |
| Release schedule, `spill/release.py` | begin, end, number of elements, the prepared time series | `prepare_for_model_run`, `num_elements_after_time`, `rewind` | time series interpolation |
| Time series, `environment/timeseries_objects_base.py` | samples | `at` | - |
| Array types, `array_types.py` | `initial_value` of the shared id type | `initialize` | containers |
| Map, `maps/map.py`, `maps/tideflat_map.py` | none in a run | `beach_elements`, `refloat_elements` | container arrays, mass balance |
| Ordered collections, `utilities/orderedcollection.py` | slots with holes, index by id, callbacks | `add`, `remove`, `replace`, `insert`, `remake`, lookups, iteration | their owner, by callbacks |
| Element cache, `utilities/cache.py` | the last step in memory, files on disk | `save_timestep`, `load_timestep`, `rewind` | engine, outputters |
| Outputters, `outputters/` | time of the next write, flags | `prepare_for_model_run`, `prepare_for_model_step`, `write_output`, `write_output_post_run`, `rewind` | engine, cache |
| Broadcaster, `multi_model_broadcast.py` | processes, request sockets, lookup tables | `cmd`, `stop`, consumer loop | worker processes by request and reply |
| Movers, `movers/` | active range, `on` | `prepare_for_model_step`, `get_move`, `model_step_is_done` | engine, containers |
| Weatherers and clean-up options, `weatherers/` | active range, `_timestep`, marks on elements | `prepare_for_model_step`, `weather_elements` | fate views, mass balance |
| Response options, `weatherers/roc.py` | platform state machines | as above | as above |
| Environment objects, `environment/` | data, caches of it | `at`, `prepare_for_model_run` | movers, weatherers |
| Objects, references, persistence, `gnomeobject.py`, `persist/` | ids, names, default references | serialise, save, load | all objects |
| Gridded data window, `lib_gnome/TimeGridVel_c.cpp`, `GridCurrentMover_c.cpp` | times of one file, two records in memory | `SetInterval`, `CheckInterval`, `CheckAndScanFile`, `GetMove` | files, movers |
| Mover uncertainty, `lib_gnome/CurrentMover_c.cpp`, `WindMover_c.cpp` | a list of random records, one per element | `UpdateUncertainty`, `ReallocateUncertainty`, `PrepareForModelStep`, `ModelStepIsDone` | the uncertain container, by array position |
| Handles, `lib_gnome/MemUtils.cpp` | table of master pointers, cache of free places | `_NewHandle`, `DisposeHandle` | every C++ object |
| Cython bindings, `cy_gnome/` | - | convert arrays, pass calls on | movers |
| Desktop program, `gnome1/` | - | - | not used by the package |

The engine is single threaded; the only concurrent part is the broadcaster.
What makes the engine hard to test is order: any of two dozen edits may come
between any two steps, some rewind the model and some do not, set-up itself
edits collections whose callbacks rewind, every step releases twice, and the
elements carry indices into a collection of spills that may have changed.
Across the border to C++ the same holds of positions: arrays and lists that
belong together are changed by different calls, in different languages.

Correctness, per component:

* schedule: complete, monotone, nothing early, a strictly increasing time base;
* containers: no element lost or duplicated, ids unique in each, `spill_num` right,
  mass balance equal to the arrays, the uncertain container a mirror;
* engine: what is released is what the schedule prescribes at the model's
  time, a rewound model is afresh, a run keeps its clock and movers and ends;
* collections: the index with holes behaves as a list with unique ids, and the
  engine's callback sees every change;
* outputters and cache: each output time once, the last step included, the
  same records live and after the run, none from a step that was rewound;
* broadcaster: every command gets its own replies, a time-out or a stop never
  leaves a socket, a process or the caller stuck;
* clean-up options: an operation works exactly its window and removes no more
  than its rate in it; mass taken is mass removed; marks are respected;
* gridded data: a velocity comes from the two records next to the time asked;
* mover uncertainty: every element has a record, its own, and not too old;
* handles: a place in the table has one owner.

`PROJECT.json` lists each hazard at its line.

## 2. Plan

The most important behaviour first: which elements exist, whose they are, and
what a rewind, a set-up or an edit does to them; then what hangs on the steps
(collections, output, clean-up), then the concurrent part, then the stateful
C++ under the movers.

| Step | Modules | Status |
|---|---|---|
| 1 | `ReleaseSchedule`, `SpillContainers`, `ModelRun`: the schedule, the pair of containers, the run engine that composes them; accounting, clock, ids, mass balance | modelled, checked, safety proved |
| 2 | `Collections`, `ObjectOrder`, `OrderedCollection`, `SpillPair`: the collections with holes, the abstract order they implement, the pair of them | modelled, checked, refinement and pair proved |
| 3 | `OutputSchedule`: which steps an outputter writes, what the cache holds | modelled, checked, proved |
| 4 | `Broadcaster`: task processes, request sockets, timeouts, stop; safety and liveness | modelled, checked, safety proved |
| 5 | `CleanUp`: windows, marks and mass of the clean-up operations, sub-steps | modelled, checked, proved |
| 6 | `TimeGrid`: the window of gridded data | modelled, checked, proved for data in one file |
| 7 | `MoverUncertainty`: lists of records against arrays of elements | modelled, checked, proved |
| 8 | `HandleTable`: the table of master pointers | modelled, checked, proved |

What would come next: the tideflat status in the step, `split_element` and the
buffering of fate views, outputters added in a run, a second substance; the
window of gridded data proved for a run forward through several files.

## 3. The modules

```
ReleaseSchedule <- SpillContainers <- ModelRun <- MCModelRun, ModelRun_proofs
       ^
MCReleaseSchedule <- MCReleaseSchedule_proofs
                                (ReleaseSchedule <- ReleaseSchedule_proofs)

Collections <- OrderedCollection (implements ObjectOrder) <- MCOrderedCollection
       ^                ^
   SpillPair  <-  Collections_proofs         (SpillPair <- MCSpillPair)

OutputSchedule <- MCOutputSchedule, OutputSchedule_proofs

Broadcaster <- Broadcaster_proofs        CleanUp <- MCCleanUp, CleanUp_proofs

Ranks <- MoverUncertainty       <-
      <- HandleTable            <- LibGnome_proofs
TimeGrid                        <-
(HandleTable <- MCHandleTable, TimeGrid <- MCTimeGrid)
```

An arrow points to the extended module.  `ReleaseSchedule_proofs` is extended
by the other proofs about schedules: by those of its own run, of the engine
and of the outputters, which count steps with the same quotients.
A `_proofs` module covers the components named with it; where it extends several
state machines, each has names of its own for its initial states, next-state
relation and specification (`PairSpec`, `TableSpec`, `GridSpec`).  Operators called "a faulty variant"
are mutated forms of the definition after them; no specification uses them.
They show that each property can fail: with the variant in place of the
definition TLC finds the property violated (`PROJECT.json`, "mutants").

### ReleaseSchedule

`Release` and `PointLineRelease` as pure operators: `NumReleaseTimeSteps`,
`MaxRelease`, the samples of `generate_release_timeseries` (`SampleTime`,
`SampleData`) and their interpolation by `TimeseriesData.at` (`ScheduleAt`),
rounded up by `num_elements_after_time`.  Both kinds of release are covered
(`num_elements`, `num_per_timestep`), as are the instantaneous one and the
one whose duration is not a whole number of steps.  Time is in whole seconds
and arithmetic is exact, where the code uses doubles; a difference could only
show where `ceil` is applied to a rounding error, and is not covered.

### SpillContainers and ModelRun

`SpillContainers` has the operations of both containers, on a record per
container: the list of spills with `on`, `_num_released` and the prepared
time step of the container's own copy of each, the arrays (a set of elements
with id, `spill_num`, status, age), and the two entries of the mass balance
that count elements.  Every element has one unit of mass.  The two entries are
booked by `beach_elements` of `RasterMap` (`map.py:991`); a plain `GnomeMap`
books nothing, and what is said of them is about a run with a raster map.  A
copy of a spill is an object of its own (`IsCopy`, `SpillOf`), as the id it gets
from `__deepcopy__` makes it.  The elements carry
two history entries that the code does not have, the spill that released them
and their ordinal in it; "gone" remembers those that left the map.

`ModelRun` keeps the two containers, the clock and the collections that matter
for control, and has one action per call:

| Code | Action |
|---|---|
| `step()` at -1: set-up, input check, release | `StepZero`, or `StepFails` when either raises |
| `step()` later: release half a step, move, beach, remove, age, release | `StepOn` |
| `step()` after the last: `StopIteration` | `StepPastEnd` |
| `full_run()` | `FullRun`, then the steps of its loop in mode "full", when the caller has no turn |
| setters of start time, step, duration, uncertain; `rewind()` | `SetStartTime` ... `SetUncertain`, `Rewind` |
| `movers`, `weatherers` added and removed, with their callbacks | `AddMover` ... `RemoveWeatherer` |
| `spills` added and removed, `spill.on` | `AddSpill`, `RemoveSpill`, `SwitchSpill` |

Movement is nondeterministic: any element may stay afloat, beach, refloat or
leave the map (`MoveOutcomes`); a beached one only if it can refloat.
`setup_model_run` adds `WeatheringData` when a weatherer is there, whose
callback rewinds inside set-up; that one companion stands for the others
(`FayGravityViscous`, `Langmuir`), which are added the same way.  Sorting the
weatherers (`_order_weatherers`, `model.py:773`) clears the collection and fills
it again, and its callbacks rewind once more; since a collection is out of order
only after an addition, which rewound the model already, this is not modelled.  The map
setter does what `rewind` does and is not a separate action.  One substance,
all weatherers on, spills with a constant release.  `merge`, `update_from_dict`,
`save`, `load` and the validation of other objects are left out.

What a caller does beyond "edit while rewound, then run" is a parameter,
`Caller`, a set of habits: "add", "remove", "readd", "switch", "resume" and
"again", which adds a spill of an uncertain model a second time.
It names the preconditions of the properties: each holds with the habits its
run lists, and section 5 says which habits do not go with which property, and
why.

### Collections, ObjectOrder, OrderedCollection, SpillPair

`Collections` has the data of an `OrderedCollection`, slots with holes and a
dictionary from id to slot, and the effect of each method.  `OrderedCollection`
has the calls and the events fired.  Adding a list is one action per object,
because a callback runs after each; an object of another type raises in the
middle.  `ObjectOrder` is what the collection promises: a set of objects and
their order; a replacement has the place of the old one.  `KeepsOrder` says
that the collection, seen through iteration, implements it, events included.
Indices below zero and slices are not modelled.

`SpillPair` puts two collections side by side, as `SpillContainerPair` does:
the position of a spill in one is used to find its copy in the other, and the
two have their holes in different places.  A copy is an object of its own; since
an object never changes its slot there, it is named by the spill it was made of
and the slot it was put in.  Both forms of `add` are there: of a spill
(`AddSpill`), which always makes a new copy, and of a tuple of a spill and its
copy (`AddPair`), as after loading a save file.  Its habits, in `PairCaller`, are
"again", "swap" and "reuse".  `SpillContainers` uses lists without holes for the
same two collections; `CopiesInStep` is what allows that.

### OutputSchedule

`Outputter` (base class) with its clock and its two flags, the element cache
with the step in memory and the files on disk, the engine's part of both, and
`write_output_post_run`.  A saved step is represented by its time stamp, which
is what tells the steps of one run from those of another and what post-run
output computes with.  `written` and `ends` are history.  The outputter is in
the model from the start, post-run output goes to a new outputter of the same
configuration, and `Outputter.on`, the subclasses and their files are left out.

### Broadcaster

`ModelBroadcaster` in the thread of its caller, one `ModelConsumer` process per
task, and a REQ/REP pair of sockets between them.  One action per line that
can block or fail: `Send`, `Receive`, `TimesOut`, `Finish` for `cmd`; `Tell`,
`Close`, `Terminate`, `Join`, `Term` for `stop`; `HandleCmd`, `SendReply`,
`Ends` for a consumer.  A REQ socket alternates between "ready" and "waiting";
to send on a waiting one is the `ZMQError` of the library, which is external
and modelled from this use.  A consumer may be at a command for any time,
answer with a result, an exception or nothing at all, and die at any moment.
What a command does to the model, the spawning of processes and the lookup of
uncertainty values are left out.

### CleanUp

The three clean-up operations of `cleanup.py` with the calls of one step in
the order of `Model.step`: half of the release, `prepare_for_model_step` of
each operation, the move with `_update_fate_status`, `weather_elements` of
each operation once per sub-step, `step_is_done`, the other half.  Windows are
cut to the step as `_set__timestep` does; marks are the flags of
`fate_status`; mass is in whole units.  `FateDataView`'s masks decide which
elements an operation sees.  The elements carry no water, all float, and no
oil chemistry weathers them; efficiencies are part of the rate.  What leaves the
map is booked in `off_maps`, as by a `RasterMap`.  `worked` is
history: the seconds an operation was told to work.

### TimeGrid

`TimeGridVel_c` and the calls `GridCurrentMover_c` makes on it.  `SetInterval`
is one operator per decision of the code: whether the loaded window fits
(`CheckInterval`), which file is wanted and whether it or a gap between two is
loaded (`CheckAndScanFile`), and the reading of the two records.  A record is
its file and index, so that the properties can say which one it should have
been; a slot keeps only the index, as in the code.  A read may fail, where the
setup has faults.  A step is `PrepareStep`, the calls of `GetMoveRK4` and
`ModelStepIsDone`; `PrepareRun` starts a run again.  Reads that are undefined in
the code may give any value: a time in `fTimeHdl` behind its end, which may
differ from one slot's index to the other's (`Unread`), and the variable
`testTime` before it is set.
Cyclic data and time shifts are left out.

### MoverUncertainty

The list of uncertainty records of a C++ current or wind mover against the
arrays of the uncertain container.  A record is the element it was drawn for
and when.  One action per call of a step: release, `prepare_for_model_step`,
the move, the mover's `model_step_is_done`, the container's.  The mover may be
switched off or out of its active range in any step, unless `alwaysOn`.

### HandleTable

`MemUtils.cpp`: the table of master pointers, the cache of free places, the
scan that fills it, a new table when the old one is full.  A block is its
owner.  Places are numbered by table and index.  That no owner disposes of a
handle twice is taken from the callers: each clears its pointer.
`_RecoverHandle` and resizing are left out.

## 4. What is checked

| Run | Instance | Shows |
|---|---|---|
| `schedule` | every release of up to 7 s and 6 elements, steps of 1 to 4 s, a clock from before to after it | well-formed samples, complete, exact at samples, never falling, every release step releases |
| `core` | two spills, one over two steps and one instantaneous in the second step; certain and uncertain; refloating | accounting, schedule, owner, mass balance, fresh after rewind, mirror, unique ids in each container, for the plain cycle of edit, rewind and run |
| `edits` | two spills added, removed, added again and switched in a run, one of them unpreparable when the step is short; a mover, a weatherer; two steps and durations | the run stays inside its clock and keeps its configuration; ages follow the releases; no edit disturbs an element in the model; `full_run` ends |
| `collection` | three objects, lists of up to two with repetitions and wrong types, five slots | list and dictionary in step; the abstract order is implemented |
| `pair` | four spills, five slots, spills and tuples added, removed, replaced; a plain caller | the k-th copy is one of the k-th spill |
| `output` | 50 configurations: no period, 600 s (one of the steps, shorter than the other), 2000 s (longer, no multiple); output start absent, before the run, at its start, on and between steps; with and without zero and last step; three durations, the disk cache switched at any time | exactly the due steps are written, nothing stale is served, post-run output equals the run's |
| `broadcaster` | two tasks, three commands of each form, with and without a timeout of their own; consumers that answer, raise, stay silent, die | replies match, a stop leaves nothing, timeouts are put back, every call ends |
| `cleanup` | three elements of two units, three steps; each operation alone in windows before, on, across, between and inside the steps, with one and two sub-steps; all three competing | windows worked exactly, amounts kept, mass accounted, claims kept, land untouched; the assumption `SubStepsFillStep` of `MCCleanUp` is evaluated for every step of up to 20 s |
| `timegrid` | one file of one to four times; files that touch, with gaps, of one time, of different lengths; with and without extrapolation; Euler and RK4; unreadable files; rewinds | the neighbours of the time are loaded, errors only where they are due |
| `uncertainty` | three elements, duration two steps, delay one, current and wind mover, always on and switched | a record for each, its own, none too old, none redrawn early |
| `handles` | five owners, tables of four places with a cache of two, two tables | no place twice in use |
| `timegrid_back` | two files, RK4 | a violation: see section 5 |

Bounds.  `core` and `edits` have one name per spill for its copy, and `pair` one
per spill and slot, which is all that callers who add no spill twice need.
`IdBound` stops new runs once ids have grown past it: ids only shift
from run to run, and several runs fit below it.  `SlotBound` and, for the pair,
`PairBound` stop calls that would lengthen the list of slots: three objects in five slots have room for
every pattern of up to two holes before, between and after them.  Two or three
steps per run are enough for the interesting orders: release at the start, in
the half step, at the end of a step, after elements have left, and none.
Time steps in `ModelRun` are even so that half a step is whole.  The numeric
questions the small times raise are those of `schedule`, where they are
exhaustive, and of the theorems about it, which have no bounds.
`MaxCommands` of three: one command that fails, one that meets what it left,
one after a stop; the theorems have no bound.  `MaxSteps` of three lets a
window begin, continue and end in different steps.  `MaxClock` of four steps
is past delay and duration twice.  The times of `TimeGrid` run past the last
record of every grid; the table of four with a cache of two is the least in
which cache, scan and new table all happen with handles in use.

Type correctness is run for the engine and proved for the engine, the
collections, the broadcaster, the uncertainty records and the clean-up
operations, and is part of the invariants of the other proofs; the runs are spent on what is not a type.

Deadlock is checked except where the system may stop: the clock of `schedule`
and of `TimeGrid` reaches its end, a run of `CleanUp` its last step, and a
stopped broadcaster has nobody left to act.

Fairness.  In `ModelRun` it is that of the loop in `full_run` only:
`WF(mode = "full" /\ Step)`.  The loop calls `step()` again and again in the
caller's own thread; nothing obliges a caller to call anything, so no other
action is fair.  In mode "full" the caller has no turn, because the engine is
single threaded.  In `Broadcaster` it is `WF(Continue)`, the broadcaster's own
thread inside a call, which always goes on, since every socket is made with a
receive timeout; and, per consumer, that a process under `SIGTERM` ends, as
nothing handles the signal.  Nothing is assumed of a consumer at work: it may
hang for ever.

## 5. Where code and text disagree

One disagreement is a run that TLC ends with a counterexample, `timegrid_back`:
with RK4 the velocities of one element are asked for at the start, the middle
and the end of the step, so that they may go into the next file, and the first
velocity of the next element goes back.  `SetInterval` compares the wanted
index with that of the loaded end record and not their files
(`TimeGridVel_c.cpp:1350`): a record of the other file with the same index is
kept as the start of the interval, and values of another time are used.

The other disagreements met while modelling are preconditions of the
properties, named where they are assumed.

Engine and containers (`Caller` in the configurations):

* `full_run(rewind=False)` in the middle of a run sets the model up again,
  which empties the arrays but not the counts of what was released: those
  elements are lost (`model.py:1159`).
* A spill removed during a run is not reached by `rewind` and keeps its count;
  added again it never releases its first elements (`spill_container.py:765`).
* After a spill is removed in a run, `spill_num` of the elements of the spills
  after it names another spill, and `get_spill_mask` with it
  (`spill_container.py:1218`).
* A spill that is added a second time is ignored in the forecast collection, but
  a new copy of it always joins the uncertain one (`spill_container.py:1172`).
  From then on there are more copies than spills, where `__len__` says that both
  "will contain the same number of spills" (`spill_container.py:1245`), until
  the next rewind finds the collections different and copies them afresh.  In
  the middle of a run the extra copy has the count of what the spill released
  and none of its elements.  This is the habit "again", of both `Caller` and
  `PairCaller`; `UncertainMirrors` and `CopiesInStep` are false with it, and so
  is `ElementsAccounted` together with "add".  The same goes for a tuple of
  which only one is in its collection.
* A copied spill gets a new id (`gnomeobject.py:213`), as the docstring of
  `Spill.uncertain_copy` says and that of the container's ("with the same ids",
  `spill_container.py:782`) denies.
* Replacing a spill after a removal in an uncertain model replaces the wrong
  copy, or raises after the forecast spill was replaced, because the integer
  that is a position for `index` is a slot for `replace`
  (`spill_container.py:1229`); in the pair the habit is "swap" of `PairCaller`.
* Ids are never reset to 0.  A comment says that the first id is "always reset"
  and that this initializes uncertain spills correctly
  (`spill_container.py:926`), by which the uncertain elements would have the ids
  of the forecast ones; but the test comes after the arrays have grown
  (`spill_container.py:918`), so that the branch is never taken: the uncertain
  ids go on where the forecast ids stop, and those of a new run where the last
  one stopped.  What comment and code agree on, that ids differ within a
  container, is `UniqueIds`.
* An object that replaces another while it is in the collection already stays
  in its old slot (`orderedcollection.py:157`), which is why `Caller` and
  `PairCaller` exclude it ("reuse").
* The samples of a release are evenly spaced in elements although its last step
  is cut short (`release.py:316`).

Outputters:

* With no `output_timestep` and `output_zero_step=False` only the last step is
  written; the flag cleared at step 0 is never set again (`outputter.py:317`).
* The post-run schedule is computed with `timedelta.seconds`, without the days
  (`outputter.py:427`), and does not prepare the last step
  (`outputter.py:422`), which is why `PostRunFollows` is about outputters that
  write the last step.

Broadcaster:

* Under Python 3 `send_unicode` gets bytes and raises, so that a consumer never
  answers; the module is not imported by the package (`gnome/__init__.py:124`).
* A timeout of a command to one task, or of one in series, escapes from `cmd`
  and leaves the socket waiting; every later send is refused until `stop()`.
  The timeouts stay the caller's own when one of the unprotected calls raises,
  where a test says that they "should have reverted back to the default"
  (`tests/unit_tests/test_model_multiproc.py:289`).  `TimeoutsReverted` is about
  sockets that are ready.
* `raise ... .with_traceback()` without its argument raises a `TypeError` in
  place of the child's exception.

Clean-up operations:

* A window inside one time step is worked from the start of the step
  (`cleanup.py:74` overwrites what line 71 computed), which contradicts the
  docstring at `cleanup.py:57`; hence `InsideStep`.
* A skimmer marks elements at every step, because it looks for a flag that is
  only ever set combined with another (`cleanup.py:325`), where the docstring
  says "marked only once".
* `weatherers/__init__.py:36` ranks burning over skimming over dispersion, and
  says that the marking "prioritizes whichever operation gets marked last".  It
  does so for elements marked by the skimmer only: one that is marked for
  dispersion has lost the flag "surface_weather", which `_update_LE_status_codes`
  looks for (`cleanup.py:174`), so that the skimmer and the burner, marked
  later in the step, never take it over.  And as the skimmer's marks keep that
  flag, a disperser that gets active in a later step takes elements off the
  skimmer.  `ClaimsKept` states what both agree on: a claim is not lost in the
  water, and the burner's is final.
* Each sub-step removes the amount of the whole step, as the operations use
  their own `_timestep`; hence "one sub-step" in `NeverMoreThanAmount`.
* Elements that leave the map are booked in `off_maps` and weathered
  afterwards, before they are taken off; hence the precondition of
  `MassAccounted`.
* More sub-steps than seconds raise (`model.py:982`), and the remainder may be
  more than one extra sub-step, where the docstring says "1 more"; hence the
  assumption on `weathering_substeps`.

Gridded data (`SafeSetups` leaves these out): after a run past the end with
extrapolation, a rewound clock keeps the last record; `testTime` is read
uninitialised in a gap when no end record is loaded (`TimeGridVel_c.cpp:1398`);
after a change to a shorter file the index of the end record is looked up
behind the end of the new times; the trapezoid integration asks for velocities
at the end of the step with the interval set for its start.  Going forward
through the data is safe only with steps no longer than the spacing of the
records, and with a next file not shorter than the index that is loaded: from
files of three and of two times that touch, a step that lands on the last time
of the second finds index 2 of the first in the end slot, keeps it as a start,
and no end record is read (`TimeGridVel_c.cpp:405`); and with extrapolation a
step over a whole file, from its first record to past its last, keeps the first
record beyond the end.  Over several files `timegrid` shows its properties for
the setups of `MCTimeGrid` and claims no more.

Mover uncertainty: a mover that is off or out of range while elements are
removed keeps their records and hands them to others, which is why
`RecordsStayWithElements` is about one that is always on; one that is off at
set-up keeps the list of the run before.

Handles: when a table is full, the free places that open in it later are lost,
and `_RecoverHandle` looks only in the newest table.

## 6. What is proved

`tlapm` proves every obligation of the `_proofs` modules, for any spills, any
releases with `begin <= end`, any map outcome, any sets of clock values, any
configuration of an outputter, any objects and owners, and tables of any size.
The assumptions on the constants are named in the modules that declare them and
say what kind of value a constant is, nothing more.  Where a theorem needs a
habit of the caller or a property of the inputs it is a hypothesis of the
theorem, named below, and section 5 says which behaviour of the code asks for
it.  Every property of a passing run is stated by a theorem, except the two
liveness properties; what a theorem narrows is said with it.

* `ReleaseSchedule_proofs`: the samples are ordered and within bounds, the
  interpolated schedule is between none and all, complete at the end and never
  falls, across samples and at both ends (`ScheduleBounded`,
  `ScheduleComplete`, `ScheduleMonotone`).  `MCReleaseSchedule_proofs` draws
  from it the five properties of the run `schedule` for releases of any size:
  `AllReleasedAtEnd`, `NeverTakesBack`, `SamplesWellFormed`, `SampledExactly`
  (the interval that holds a sample's time is the one it ends) and
  `EveryStepReleases` (with `max_release` at least the number of steps, two
  neighbouring quotients differ).
* `ModelRun_proofs`: first what each operator on a container preserves, above
  all the counting of ids and batches over finite sets; then that `TypeInv` is
  inductive, which is `TypeOK` with `Paired`: there is a copy at the position of
  every spill, without which the removal of the i-th copy is not defined, and it
  is one of that spill unless a spill was added a second time.
  `InsideRun` and `RunConfigHeld` follow with it.
  For a caller without "remove" and "resume", and not both "add" and "again"
  (`PlainCaller`), so do
  `ElementsAccounted`, `SpillNumNamesOwner` and `RewoundAfresh`.  The invariant `IInv` adds two parts.  `Sound`, of each live
  container: a spill is listed once; for each spill the ordinals in the arrays
  and in `gone` are exactly those from one to `num_released`, each once;
  `spill_num` is the owner's index; a spill outside has released nothing.
  `Afresh`: at step -1 there is nothing in the
  arrays and nothing released, which set-up needs, since it empties the arrays
  and leaves the counts.  Section 5 says why the assumption is needed.

  Six more theorems stand on what each operator does to a container:

  | Theorem | Property | Assumed of the caller | Argument |
  |---|---|---|---|
  | `IdsAreUnique` | `UniqueIds` | nothing | stronger than the property: ids differ across the live containers too and lie below the next one, which the two releases of a step hand on from container to container |
  | `MassIsBalanced` | `MassBalanceAgrees` | `PlainCaller` | `beached` and `off_maps` change with the sets they count; by `Sound` an element that leaves is not in `gone` yet |
  | `AgesAreOrdered` | `AgesFollowRelease` | `PlainCaller` | all elements age alike, and a release adds ordinals above those present at age zero |
  | `ReleasesOnSchedule` | `ReleasedOnSchedule` | no "add", "remove", "switch", "resume" (`SteadyCaller`) | what is released is never ahead of the schedule, which does not fall (`ScheduleMonotone`), so the release at the end of a step brings it level |
  | `CopiesMirror` | `UncertainMirrors` | `SteadyCaller`, no "again" | both containers are level with one schedule, as every spill is on and prepared for the same time step |
  | `ElementsDoPersist` | `ElementsPersist` | no "resume" | every element has a successor after each operator, which composes over the four parts of a step |

* `Collections_proofs`: `IndexAgrees` and
  `ValuesAreMembers` from the inductive invariant `TypeOK` with `InStep`, and
  `KeepsOrder`, the refinement, for a caller that does not "reuse".  The
  lemmas give what iteration sees after each method; for `remake` they number
  the filled slots by their rank, which is a bijection from the filled slots to
  one to their number.
  `CopiesStayInStep` proves `CopiesInStep` for a caller without the habits
  "again", "swap" and "reuse" (`PlainPair`), each of which breaks it.  The k-th
  spill is a matter of rank, which no method states, so the invariant `PairInv`
  compares slots instead: in an uncertain model every spill has a copy and every
  copy its spill, and any two copies lie in the order of their spills
  (`Mirror`).  That the k-th copy is then one of the k-th spill follows by
  counting the members before it, as copies and spills are in bijection.  That
  a new copy is none of those in the collection follows from their names, the
  slots they were put in (`Named`).
* `Broadcaster_proofs`, for any number of tasks and commands: `TypeOK`,
  `RepliesMatch`, `StopLeavesNothing` and `TimeoutsReverted`.  The strengthening
  for `RepliesMatch` is that between a socket and its consumer at most one
  message is under way, that a socket which is ready has none, and that what is
  under way was asked by the last command that sent on it; a late answer can
  then only meet a socket that cannot send.  The other two need where the loops
  of `stop` and `cmd` stand: the tasks before `next` are closed, gone or
  put back, those after it not yet.
* `OutputSchedule_proofs`: `NeverStale`, `WrittenOnSchedule` and
  `PostRunFollowsRun`.

  | Theorem | Property | Hypothesis | Argument |
  |---|---|---|---|
  | `NeverStale` | `NothingStale` | none | every stamp on disk and in memory is that of its step, since each edit that changes the stamps rewinds the cache |
  | `WrittenOnSchedule` | `LiveOnSchedule` | `ZeroWritten`: with no output time step, step zero is written | what the outputter keeps after step k is a function of k (`Kept`), as if it had counted from the output start |
  | `PostRunFollowsRun` | `PostRunFollows` | also `ShortSteps`: a step is less than a day | the loop over the saved steps takes the outputter through the same `Kept` |

  The heart of the second is `NextPeriod`: to know when the next period ends it
  is enough to keep the remainder of the time since the first output, because
  the quotient grows exactly when remainder and step together reach the period.
  A run that is made longer after its last step has written that step too,
  which is why the schedule is stated with `ends`, and the first due step does
  not change by it.  The turns of the loop in `PostRunFrom` are a recursive
  function; what they are is shown without induction over an operator, by the
  least turn that differs (`Least`).  Both hypotheses are disagreements of
  section 5.
* `LibGnome_proofs`, the C++ under the movers: `OneRecordPerElement`, `NoneOutlivesDuration` and
  `RecordsStayWithElements`, for any duration, delay and habits.  The invariant
  says, per point of the step, which elements have a record (the marked ones
  are dropped from the list before they are dropped from the arrays), that no
  record is younger than the clock or older than the last drawing, and, for a
  mover that is always on, that records and elements agree position by
  position.  `ResetOnlyAfterDuration` follows when the elements are different,
  as they are numbered in the order of release, and the clock of a list in use
  was not put back.  That removal keeps the order of what stays is a lemma
  about the k-th smallest member of a finite set, from the least-number
  principle.

  `OwnersKeepBlocks` proves `OwnersKeepTheirBlocks`, for tables and caches of
  any size: a place in the cache lies in a table that was made, is free there and
  is in the cache once, and no block lies outside the tables (`TableInv`); the
  scan that fills the cache lists free places in order, so that it cannot list
  one twice.

  `FailsOutside` proves `FailsOnlyOutside` when each setup has its data in one file
  (`OneFileEach`), for any number of records, any caller and any order of the
  times asked for; `InterpolatesOneFile` proves
  `InterpolatesBetweenNeighbours` for any caller of a setup without
  extrapolation, and with it for one whose clock goes forward in steps no longer
  than the data (`SteadyEach`).  The invariant `GridInv` says which pairs of
  slots can be loaded (`Pair`): none, one record, or two that follow one
  another; that what is loaded is right for the last time asked for (`Fits`),
  also after an error, which empties the slots; and that this time is at most a
  step away from the next one (`Paced`), whichever of the four velocities of an
  element is next, so that a record held beyond one end of the data is never
  kept for a time beyond the other.
* `CleanUp_proofs`: `TypeOK`, `WorksItsWindow`, `NeverMoreThanAmount`,
  `MassAccounted`, `ClaimsKept` and `LandUntouched`, for any windows, rates,
  step lengths, elements and masses.
  The pieces of a window are added up with `worked` equal to the part of the
  window before the horizon.  For the amounts the invariant bounds what is in
  the books by the rate times what was worked, less what is still due in the
  step.  The mass of a set of elements is the number of units on them, a
  cardinality, so that taking from one element and booking it are
  statements about finite sets and no induction over a sum is needed.
  `LandUntouched` needs that the move, which clears the flags of what beached,
  comes before the weathering of the step.

Only model-checked: `FullRunReachesEnd` and `CallsEnd`, as liveness under
fairness is out of this prover's reach; and the two properties of `TimeGrid`
over several files, which hold for the setups of `timegrid` and, as section 5
says, not for every setup.

## 7. Not modelled

* The numerics: velocities, random walks, oil chemistry, grids and their search
  trees.  They are floating point, and their state is data.
* The desktop program, vendored libraries, experiments.
* File formats of the outputters, schemas and serialisation: I/O, or a
  recursive walk over objects.
* The response options of `roc.py` and the environment objects: their state is
  floating-point amounts and cached data.
* The tideflat map (one more status in the step), `split_element`, the buffering
  of arrays in fate views, `ManualBeaching`, outputters added in a run, a second
  substance: they could be modelled along the same lines and are not yet.

`PROJECT.json` has a component for each, and the hazards no property covers
with the reason.
