------------------------------ MODULE CleanUp ------------------------------
(***************************************************************************)
(* The clean-up operations gnome.weatherers.cleanup - chemical dispersion, *)
(* skimming and burning - inside the time steps of a run.                  *)
(*                                                                         *)
(* An operation works in a window of time and takes mass off the elements  *)
(* it has marked in the array fate_status.  The array is also written by   *)
(* the move, from the status of the elements, and by the other operations; *)
(* the calls of one time step, in order, are                               *)
(*                                                                         *)
(*   release_elements        half of the step's elements                   *)
(*   prepare_for_model_step  of each operation: active or not, how long,   *)
(*                           which elements                                *)
(*   move_elements           beaching, refloating, _update_fate_status     *)
(*   weather_elements        of each operation, once per sub-step          *)
(*   step_is_done            takes off the elements that left the map      *)
(*   release_elements        the other half                                *)
(*                                                                         *)
(* Mass is counted in units, time in seconds from the start of the model;  *)
(* the elements carry no water (frac_water = 0), all of them float (z = 0) *)
(* and nothing else weathers them.                                         *)
(***************************************************************************)
EXTENDS Integers, FiniteSets, Sequences

CONSTANTS
    Setups,      \* the configurations of a run, see SetupAssumption
    NumElements, \* elements released in a run
    UnitMass,    \* mass of an element when it is released
    MaxSteps     \* bound: steps of a run

\* The order of weatherers/__init__.py, in which a model sorts them.
Ops == {"disperse", "skim", "burn"}
SortOrder == <<"disperse", "skim", "burn">>

Elements == 1 .. NumElements

\* active_range, and rate = amount / duration; "rest" is what an operation
\* marks beyond what it can remove (the last 2 mm of a burn).
Plans == [on : BOOLEAN, start : Int, stop : Int, rate : Nat, rest : Nat]

ASSUME SetupAssumption ==
    /\ Setups \subseteq [time_step : Nat \ {0}, weathering_substeps : Nat \ {0},
                         plan : [Ops -> Plans]]
    /\ \A s \in Setups : /\ s.weathering_substeps <= s.time_step
                         /\ \A op \in Ops : s.plan[op].start < s.plan[op].stop
ASSUME SizeAssumption ==
    NumElements \in Nat /\ UnitMass \in Nat \ {0} /\ MaxSteps \in Nat

VARIABLES
    setup,        \* the configuration; never changes
    step,         \* steps completed
    phase,        \* the next call of the step
    num_released,
    status,       \* "none" outside the arrays, "in_water", "on_land" or
                  \* "to_be_removed"
    fate_status,  \* the flags of an element
    mass,
    active, timestep, \* Process._active and _timestep of each operation
    calls,        \* weather_elements: the calls still to be made
    mass_balance, \* mass removed by each operation, and "off_maps"
    worked        \* history: seconds each operation was told to work

arrays == <<num_released, status, fate_status, mass>>
vars == <<setup, step, phase, arrays, active, timestep, calls, mass_balance,
          worked>>

Phases == {"release", "prepare", "move", "weather", "done", "release_rest"}
Fates == {{"non_weather"}, {"surface_weather"}, {"surface_weather", "skim"},
          {"burn"}, {"disperse"}}
Statuses == {"none", "in_water", "on_land", "to_be_removed"}

model_time == step * setup.time_step

\* The mass of some elements, as the set and as the number of its units.
Units(m, S) == {u \in S \X (1 .. UnitMass) : u[2] <= m[u[1]]}
TotalMass(m, S) == Cardinality(Units(m, S))

-----------------------------------------------------------------------------
(* prepare_for_model_step                                                  *)

\* RemoveMass.prepare_for_model_step
IsActive(op) ==
    LET p == setup.plan[op]
    IN  /\ p.on
        /\ model_time + setup.time_step > p.start
        /\ p.stop > model_time

\* A faulty variant: a window that starts inside the step counts from the
\* start of the step.
TimestepFromStart(op) ==
    LET p == setup.plan[op]
    IN  IF p.stop < model_time + setup.time_step
        THEN p.stop - model_time ELSE setup.time_step

\* _set__timestep of an active operation.  The cut at the end of the window
\* replaces the cut at its start.
Timestep(op) ==
    LET p == setup.plan[op]
    IN  IF p.stop < model_time + setup.time_step
        THEN p.stop - model_time
        ELSE IF model_time < p.start
        THEN setup.time_step - (p.start - model_time)
        ELSE setup.time_step

\* FateDataView._get_fate_mask: elements without mass are in no view.
Marked(f, flag) == {e \in Elements : /\ status[e] # "none"
                                     /\ flag \in f[e] /\ mass[e] > 0}

\* _update_LE_status_codes: the first elements, in the order of the arrays,
\* until their mass reaches the amount; all of them if it never does, and
\* the first even if the amount is zero.
WithMarks(f, amount, flags) ==
    LET surface == Marked(f, "surface_weather")
        before(e) == TotalMass(mass, {x \in surface : x < e})
    IN  [e \in Elements |->
            IF e \in surface /\ (before(e) = 0 \/ before(e) < amount)
            THEN flags ELSE f[e]]

MarksOf == [disperse |-> {"disperse"}, burn |-> {"burn"},
            skim |-> {"surface_weather", "skim"}]

Amount(op) ==
    LET p == setup.plan[op] IN p.rate * (p.stop - p.start) + p.rest

\* An operation marks when it finds no element with exactly its own flag.
\* The skimmer's marks carry a second flag, so it marks at every step.
AfterMarking(f, op) ==
    IF IsActive(op) /\ ~ \E e \in Elements : status[e] # "none" /\ f[e] = {op}
    THEN WithMarks(f, Amount(op), MarksOf[op])
    ELSE f

\* Model.setup_time_step, for the weatherers.
PrepareForModelStep ==
    /\ phase = "prepare"
    /\ active' = [op \in Ops |-> IsActive(op)]
    /\ timestep' = [op \in Ops |-> IF IsActive(op) THEN Timestep(op)
                                   ELSE timestep[op]]
    /\ worked' = [op \in Ops |-> IF IsActive(op) THEN worked[op] + Timestep(op)
                                 ELSE worked[op]]
    /\ fate_status' = AfterMarking(AfterMarking(AfterMarking(
                          fate_status, "disperse"), "skim"), "burn")
    /\ phase' = "move"
    /\ UNCHANGED <<setup, step, num_released, status, mass, calls,
                   mass_balance>>

-----------------------------------------------------------------------------
(* move_elements                                                           *)

Claimed(flags) == flags \cap Ops # {}

\* A faulty variant: only skimmed elements keep their marks in water.
FateAfterSkimmed(st, flags) ==
    IF st = "on_land" THEN {"non_weather"}
    ELSE IF st = "in_water" /\ "skim" \notin flags THEN {"surface_weather"}
    ELSE flags

\* A faulty variant: an element that beached keeps its marks.
FateAfterAfloat(st, flags) ==
    IF st = "in_water" /\ ~Claimed(flags) THEN {"surface_weather"} ELSE flags

\* _update_fate_status.  An element off the map keeps what it had.
FateAfter(st, flags) ==
    IF st = "on_land" THEN {"non_weather"}
    ELSE IF st = "in_water" /\ ~Claimed(flags) THEN {"surface_weather"}
    ELSE flags

\* _split_into_substeps: the length of each; one more for the remainder.
SubSteps(s) ==
    LET sub == s.time_step \div s.weathering_substeps
        whole == [i \in 1 .. (s.time_step \div sub) |-> sub]
    IN  IF s.time_step % sub = 0 THEN whole
        ELSE Append(whole, s.time_step % sub)

\* Every weatherer is called once for each sub-step.
CallsOfStep ==
    LET n == Len(SubSteps(setup))
    IN  [i \in 1 .. 3 * n |-> SortOrder[(i - 1) \div n + 1]]

Present == {e \in Elements : status[e] # "none"}

\* Refloating and beaching, the balance of the map, then the flags.  It is
\* RasterMap that books what left the map; the plain GnomeMap books nothing.
MoveElements ==
    /\ phase = "move"
    /\ status' \in [Elements -> Statuses]
    /\ \A e \in Elements : e \in Present <=> status'[e] # "none"
    /\ fate_status' = [e \in Elements |->
                          IF e \in Present
                          THEN FateAfter(status'[e], fate_status[e])
                          ELSE fate_status[e]]
    /\ mass_balance' = [mass_balance EXCEPT !["off_maps"] = @ +
           TotalMass(mass, {e \in Present : status'[e] = "to_be_removed"})]
    /\ calls' = CallsOfStep
    /\ phase' = "weather"
    /\ UNCHANGED <<setup, step, num_released, mass, active, timestep, worked>>

-----------------------------------------------------------------------------
(* weather_elements                                                        *)

\* A faulty variant: the rate is applied to the whole time step.
RemovedWholeStep(op, total) ==
    LET m == setup.plan[op].rate * setup.time_step
    IN  IF m < total THEN m ELSE total

\* rm_mass: the rate over _timestep, whatever the length of the sub-step.
Removed(op, total) ==
    LET m == setup.plan[op].rate * timestep[op]
    IN  IF m < total THEN m ELSE total

\* A faulty variant: the mass is taken off every element.
TakenOffEach(view, m) ==
    {[e \in view |-> IF m < mass[e] THEN mass[e] - m ELSE 0]}

\* How a mass may be taken off the elements of a view; the code takes the
\* same fraction of each.
TakenOff(view, m) ==
    {after \in [view -> 0 .. UnitMass] :
        /\ \A e \in view : after[e] <= mass[e]
        /\ TotalMass(mass, view) - TotalMass(after, view) = m}

\* weather_elements of an operation, in one sub-step.
WeatherElements ==
    /\ phase = "weather" /\ calls # <<>>
    /\ LET op == Head(calls)
           view == Marked(fate_status, op)
           m == Removed(op, TotalMass(mass, view))
       IN  IF active[op] /\ view # {}
           THEN /\ \E after \in TakenOff(view, m) :
                      mass' = [e \in Elements |->
                                 IF e \in view THEN after[e] ELSE mass[e]]
                /\ mass_balance' = [mass_balance EXCEPT ![op] = @ + m]
           ELSE UNCHANGED <<mass, mass_balance>>
    /\ calls' = Tail(calls)
    /\ phase' = IF Len(calls) = 1 THEN "done" ELSE "weather"
    /\ UNCHANGED <<setup, step, num_released, status, fate_status, active,
                   timestep, worked>>

-----------------------------------------------------------------------------
(* The rest of the step                                                    *)

\* SpillContainer.model_step_is_done, and the step counter.
StepIsDone ==
    /\ phase = "done"
    /\ status' = [e \in Elements |-> IF status[e] = "to_be_removed"
                                     THEN "none" ELSE status[e]]
    /\ step' = step + 1
    /\ phase' = "release_rest"
    /\ UNCHANGED <<setup, num_released, fate_status, mass, active, timestep,
                   calls, mass_balance, worked>>

\* release_elements, before the move and at the end of the step: new
\* elements are in the water and, until a move, not weathered.
ReleaseElements ==
    /\ \/ phase = "release" /\ step < MaxSteps
       \/ phase = "release_rest"
    /\ \E n \in num_released .. NumElements :
          LET new == (num_released + 1) .. n
          IN  /\ num_released' = n
              /\ status' = [e \in Elements |->
                               IF e \in new THEN "in_water" ELSE status[e]]
              /\ mass' = [e \in Elements |->
                             IF e \in new THEN UnitMass ELSE mass[e]]
    /\ phase' = IF phase = "release" THEN "prepare" ELSE "release"
    /\ UNCHANGED <<setup, step, fate_status, active, timestep, calls,
                   mass_balance, worked>>

\* After setup_model_run: prepare_for_model_run of every operation.
Init ==
    /\ setup \in Setups
    /\ step = 0 /\ phase = "release" /\ num_released = 0
    /\ status = [e \in Elements |-> "none"]
    /\ fate_status = [e \in Elements |-> {"non_weather"}]
    /\ mass = [e \in Elements |-> 0]
    /\ active = [op \in Ops |-> FALSE]
    /\ timestep = [op \in Ops |-> 0]
    /\ calls = <<>>
    /\ mass_balance = [k \in Ops \cup {"off_maps"} |-> 0]
    /\ worked = [op \in Ops |-> 0]

Next == \/ ReleaseElements
        \/ PrepareForModelStep
        \/ MoveElements
        \/ WeatherElements
        \/ StepIsDone

Spec == Init /\ [][Next]_vars

-----------------------------------------------------------------------------
(* Properties                                                              *)

\* Types: an element never has marks of two operations, and none is left
\* without a flag.
TypeOK ==
    /\ setup \in Setups /\ step \in 0 .. MaxSteps /\ phase \in Phases
    /\ num_released \in 0 .. NumElements
    /\ status \in [Elements -> Statuses]
    /\ fate_status \in [Elements -> Fates]
    /\ mass \in [Elements -> 0 .. UnitMass]
    /\ active \in [Ops -> BOOLEAN]
    /\ timestep \in [Ops -> Nat] /\ worked \in [Ops -> Nat]
    /\ \A op \in Ops : timestep[op] <= setup.time_step
    /\ calls \in Seq(Ops)
    /\ mass_balance \in [Ops \cup {"off_maps"} -> Nat]

\* A window that lies strictly inside one time step.
InsideStep(op) ==
    LET p == setup.plan[op]
    IN  /\ p.start \div setup.time_step = (p.stop - 1) \div setup.time_step
        /\ p.start % setup.time_step # 0
        /\ p.stop % setup.time_step # 0

Smaller(a, b) == IF a < b THEN a ELSE b
Larger(a, b) == IF a < b THEN b ELSE a

\* The part of the window of an operation between the start of the run and
\* a time.
WindowUntil(op, t) ==
    LET p == setup.plan[op]
    IN  IF p.on THEN Larger(0, Smaller(p.stop, t) - Larger(p.start, 0)) ELSE 0

\* The time the last prepare_for_model_step looked ahead to.
Horizon ==
    IF phase \in {"move", "weather", "done"} THEN model_time + setup.time_step
    ELSE model_time

\* An operation works exactly its window, however the window lies on the
\* grid of the time steps, as long as it is not inside a single one: the
\* pieces _set__timestep cuts add up (cleanup.py:57-63, "the rate * duration
\* gives the correct amount").
WorksItsWindow ==
    \A op \in Ops : ~InsideStep(op) => worked[op] = WindowUntil(op, Horizon)

\* With one sub-step an operation never removes more than its rate over its
\* whole window, whatever it marks, loses to the shore and marks again.
NeverMoreThanAmount ==
    \A op \in Ops :
        ~InsideStep(op) /\ setup.weathering_substeps = 1 =>
            mass_balance[op] <= setup.plan[op].rate
                                * (setup.plan[op].stop - setup.plan[op].start)

Booked == mass_balance["disperse"] + mass_balance["skim"] + mass_balance["burn"]

\* As long as no element left the map, what was released is afloat, on land
\* or in the books of one operation; an element that leaves the map is
\* counted in off_maps first and weathered afterwards.
MassAccounted ==
    mass_balance["off_maps"] = 0 =>
        num_released * UnitMass = TotalMass(mass, Present) + Booked

\* An element that stays in the water is never left without an operation
\* once one has claimed it, through the markings of all of them and the moves
\* between, and what is claimed for burning, the first of the priorities of
\* weatherers/__init__.py:36, is burned.
ClaimsKept ==
    [][\A e \in Elements :
          status[e] = "in_water" /\ status'[e] = "in_water" =>
             /\ Claimed(fate_status[e]) => Claimed(fate_status'[e])
             /\ "burn" \in fate_status[e] => fate_status'[e] = {"burn"}]_vars

\* Elements on land lose no mass, marked though they were when they beached.
LandUntouched ==
    [][\A e \in Elements : status[e] = "on_land" => mass'[e] = mass[e]]_vars
=============================================================================
