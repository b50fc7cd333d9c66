------------------------------ MODULE TimeGrid ------------------------------
(***************************************************************************)
(* The window of loaded data of a gridded mover: TimeGridVel_c, the C++    *)
(* object behind PyGNOME's grid current and grid wind movers, and the      *)
(* calls GridCurrentMover_c makes on it during a time step.                *)
(*                                                                         *)
(* The data is a list of NetCDF files, each a list of records with         *)
(* increasing times.  Only the times of ONE file are in memory (fTimeHdl), *)
(* and only TWO records (fStartData, fEndData): SetInterval(t) must see to *)
(* it that the two are the neighbours of t, whatever was loaded before,    *)
(* across the end of a file, the gap between two files and the ends of the *)
(* data.  A slot keeps the index of its record in its file but not the     *)
(* file: which file an index belongs to is the hazard of this component.   *)
(*                                                                         *)
(* A record's velocities are abstracted to its identity, file and index.   *)
(* fTimeShift is zero and the grid is not a cycle (bIsCycleMover).         *)
(***************************************************************************)
EXTENDS Integers, Sequences, FiniteSets

CONSTANTS
    Setups,     \* the grids and the habits of their callers, see Setup
    TimeStep,   \* the length of a model time step
    MaxTime     \* bound: the model clock stops here

VARIABLES
    setup,      \* what this behaviour runs with, never changes
    grid,       \* the TimeGridVel_c object, see NewGrid
    model_time, \* the time of the step
    stepPhase,  \* "between" steps, or "moving" the elements
    stage,      \* how many of an element's four RK4 velocities are computed
    asked,      \* the time of the last SetInterval
    outcome     \* what it returned: "none" yet, "set" or "error"

gridVars == <<setup, grid, model_time, stepPhase, stage, asked, outcome>>

-----------------------------------------------------------------------------
(* The object.                                                             *)

Unassigned == -1            \* UNASSIGNEDINDEX
NoData     == <<>>          \* a null dataHdl
NoFile     == 0             \* a null fTimeHdl

Cleared == [timeIndex |-> Unassigned, data |-> NoData]

\* A setup names the data files (their times), whether extrapolation is
\* allowed, how the mover integrates, whether files may be unreadable at
\* times, whether the run is rewound, and where it starts.
Setup == [files : Seq(Seq(Nat)), extrapolate : BOOLEAN,
          method : {"euler", "rk4"}, faults : BOOLEAN, rewinds : BOOLEAN,
          start : Nat]

ASSUME SetupsAssumption ==
    /\ Setups \subseteq Setup
    /\ \A s \in Setups :
          /\ s.files # <<>>
          /\ \A f \in DOMAIN s.files :
                /\ s.files[f] # <<>>
                /\ \A i \in 1 .. Len(s.files[f]) - 1 :
                      s.files[f][i] < s.files[f][i + 1]
          /\ \A f \in 1 .. Len(s.files) - 1 :
                s.files[f][Len(s.files[f])] <= s.files[f + 1][1]

ASSUME TimeStepAssumption == TimeStep \in Nat \ {0} /\ MaxTime \in Nat

Times(f)  == IF f = NoFile THEN <<>> ELSE setup.files[f]
FirstTime(f) == setup.files[f][1]
LastTime(f)  == setup.files[f][Len(setup.files[f])]
NumFiles  == Len(setup.files)

\* The object as its constructor and TextRead leave it: the times of the
\* first file are scanned, nothing is loaded.
NewGrid == [file |-> 1, start |-> Cleared, end |-> Cleared,
            overLap |-> FALSE, overLapStart |-> 0]

\* (*fTimeHdl)[i].  An index outside the table reads the memory beside it:
\* junk, one for the start slot's index and one for the end slot's.
TimeAt(g, i, junk) ==
    IF i \in 0 .. Len(Times(g.file)) - 1 THEN Times(g.file)[i + 1] ELSE junk

-----------------------------------------------------------------------------
(* CheckInterval: is the right interval loaded, and if not, which is it?   *)

\* The two slots, read against the times of the scanned file.
SlotsBracket(g, t, junk) ==
    /\ g.start.timeIndex # Unassigned /\ g.end.timeIndex # Unassigned
    /\ TimeAt(g, g.start.timeIndex, junk.start) <= t
    /\ t <= TimeAt(g, g.end.timeIndex, junk.end)

\* The last record of one file and the first of the next are loaded.
BridgeBrackets(g, t, junk) ==
    /\ NumFiles > 1 /\ g.overLap
    /\ g.overLapStart <= t
    /\ t <= TimeAt(g, g.end.timeIndex, junk.end)

\* Only the first or last record is loaded, to be used beyond the data.
HoldsOneEnd(g, t) ==
    /\ setup.extrapolate
    /\ g.end.timeIndex = Unassigned
    /\ g.start.timeIndex # Unassigned
    /\ t < FirstTime(g.file) => FirstTime(g.file) = FirstTime(1)
    /\ t > LastTime(g.file)  => LastTime(g.file) = LastTime(NumFiles)

\* The intervals of the file that t falls in: i for the times i - 1 .. i.
IntervalsOf(g, t) ==
    {i \in 1 .. Len(Times(g.file)) - 1 :
        Times(g.file)[i] <= t /\ t <= Times(g.file)[i + 1]}

Constant(g) == Len(Times(g.file)) = 1 /\ ~(NumFiles > 1)

Answer(loaded, interval, overLap) ==
    [loaded |-> loaded, interval |-> interval, overLap |-> overLap]

CheckInterval(g, t, junk) ==
    LET n == Len(Times(g.file))
        within == IntervalsOf(g, t)
    IN  IF n = 0
        THEN Answer(FALSE, 0, g.overLap)
        ELSE IF Constant(g)
        THEN Answer(g.start.timeIndex = 0 /\ g.start.data # NoData, -1, g.overLap)
        ELSE IF SlotsBracket(g, t, junk)
        THEN Answer(TRUE, g.end.timeIndex, g.overLap)
        ELSE IF BridgeBrackets(g, t, junk)
        THEN Answer(TRUE, 0, TRUE)
        ELSE IF within # {}
        THEN Answer(FALSE, CHOOSE i \in within : \A j \in within : i <= j, FALSE)
        ELSE IF t < FirstTime(g.file)
        THEN Answer(HoldsOneEnd(g, t), 0, FALSE)
        ELSE IF t > LastTime(g.file)
        THEN Answer(HoldsOneEnd(g, t), n, FALSE)
        ELSE Answer(FALSE, 0, FALSE)        \* the only time of its file

-----------------------------------------------------------------------------
(* CheckAndScanFile: which file holds t, or which two files is it between? *)

InFile(i, t)  == FirstTime(i) <= t /\ t <= LastTime(i) /\ FirstTime(i) # LastTime(i)
OneTime(i, t) == FirstTime(i) = LastTime(i) /\ FirstTime(i) = t
Gap(i, t)     == i > 1 /\ LastTime(i - 1) < t /\ t < FirstTime(i)

Result(err, g) == [err |-> err, grid |-> g]

\* ScanFileForTimes: the times of file i, or none when it cannot be read.
Scan(g, i, bad) ==
    Result(i \in bad, [g EXCEPT !.file = IF i \in bad THEN NoFile ELSE i,
                                !.overLap = FALSE])

\* Load the last record of file a and the first of file b.  The end slot
\* becomes the start when "shift" says that it is that last record.
Bridge(g, a, b, shift, bad) ==
    LET last   == <<a, Len(setup.files[a]) - 1>>
        failed == b \in bad \/ (~shift /\ a \in bad)
    IN  Result(failed,
               [g EXCEPT !.file  = IF failed THEN NoFile ELSE b,
                         !.start = [timeIndex |-> Unassigned,
                                    data |-> IF shift THEN g.end.data ELSE last],
                         !.end   = [timeIndex |-> 0, data |-> <<b, 0>>],
                         !.overLap = (g.overLap \/ ~failed),
                         !.overLapStart = LastTime(a)])

\* testTime is the time of the end slot; nothing initialises it when that
\* slot is empty, and it may then equal any time: "same".
EndSlotIs(g, time, junk, same) ==
    IF g.end.timeIndex # Unassigned
    THEN TimeAt(g, g.end.timeIndex, junk.end) = time
    ELSE same

CheckAndScanFile(g, t, bad, junk, same) ==
    LET hits == {i \in 1 .. NumFiles : InFile(i, t) \/ OneTime(i, t) \/ Gap(i, t)}
        i    == CHOOSE h \in hits : \A j \in hits : h <= j
        b    == IF i < NumFiles THEN i + 1 ELSE i
    IN  IF hits # {}
        THEN IF InFile(i, t)
             THEN Scan(g, i, bad)
             ELSE IF OneTime(i, t)
             THEN Bridge(g, b - 1, b, FALSE, bad)
             ELSE Bridge(g, i - 1, i,
                         EndSlotIs(g, LastTime(i - 1), junk, same), bad)
        ELSE IF setup.extrapolate /\ t > LastTime(NumFiles)
        THEN Scan(g, NumFiles, bad)
        ELSE IF setup.extrapolate /\ t < FirstTime(1)
        THEN Scan(g, 1, bad)
        ELSE Result(TRUE, g)        \* "Time outside of interval being modeled"

-----------------------------------------------------------------------------
(* SetInterval.                                                            *)

Emptied(g) == [g EXCEPT !.start = Cleared, !.end = Cleared]
Failed(g)  == Result(TRUE, Emptied(g))

\* A faulty variant: whatever the end slot holds becomes the start.
LoadOntoEnd(g, s, e, bad) ==
    LET n == Len(Times(g.file))
        start1 == IF g.end.data # NoData THEN g.end ELSE Cleared
        Record(i) == [timeIndex |-> i, data |-> <<g.file, i>>]
    IN  IF s >= n \/ g.file \in bad
        THEN Failed(g)
        ELSE Result(FALSE,
                    [g EXCEPT !.start = IF start1 = Cleared /\ s >= 0
                                        THEN Record(s) ELSE start1,
                              !.end = IF e < n /\ e # Unassigned
                                      THEN Record(e) ELSE Cleared])

\* Load the records s and e of the scanned file; the end slot becomes the
\* start when its index is the wanted one.
Load(g, s, e, bad) ==
    LET n       == Len(Times(g.file))
        start1  == IF s = g.end.timeIndex THEN g.end ELSE Cleared
        readS   == start1.data = NoData /\ s >= 0
        readE   == e < n /\ e # Unassigned
        failed  == \/ readS /\ (g.file \in bad \/ s >= n)
                   \/ readE /\ g.file \in bad
        Record(i) == [timeIndex |-> i, data |-> <<g.file, i>>]
    IN  IF failed
        THEN Failed(g)
        ELSE Result(FALSE, [g EXCEPT !.start = IF readS THEN Record(s) ELSE start1,
                                     !.end   = IF readE THEN Record(e) ELSE Cleared])

\* A faulty variant: past the last record, the one after it is wanted.
BeyondLast(g, interval, bad) ==
    IF ~setup.extrapolate
    THEN Failed(g)
    ELSE Load([g EXCEPT !.end.timeIndex = Unassigned], interval, Unassigned, bad)

\* t is outside the one file there is.
BeyondFile(g, interval, bad) ==
    IF ~setup.extrapolate
    THEN Failed(g)
    ELSE Load([g EXCEPT !.end.timeIndex = Unassigned],
              IF interval = 0 THEN 0 ELSE interval - 1, Unassigned, bad)

\* t is outside the scanned file, one of several.
OtherFile(g, t, bad, junk, same) ==
    LET scan   == CheckAndScanFile(g, t, bad, junk, same)
        again  == CheckInterval(scan.grid, t, junk)
        g2     == [scan.grid EXCEPT !.overLap = again.overLap]
        beyond == setup.extrapolate
                  /\ again.interval \in {0, Len(Times(scan.grid.file))}
    IN  IF scan.err
        THEN Failed(scan.grid)
        ELSE IF scan.grid.overLap
        THEN scan
        ELSE IF beyond /\ again.loaded
        THEN Result(FALSE, g2)
        ELSE IF beyond
        THEN Load(g2, IF again.interval = 0 THEN 0 ELSE again.interval - 1,
                  Unassigned, bad)
        ELSE Load(g2, again.interval - 1, again.interval, bad)

SetInterval(g, t, bad, junk, same) ==
    LET check == CheckInterval(g, t, junk)
        g1    == [g EXCEPT !.overLap = check.overLap]
    IN  IF check.loaded
        THEN Result(FALSE, g1)
        ELSE IF check.interval \in {0, Len(Times(g.file))}
        THEN IF NumFiles > 1
             THEN OtherFile(g1, t, bad, junk, same)
             ELSE BeyondFile(g1, check.interval, bad)
        ELSE IF Constant(g)
        THEN Load(g1, 0, Unassigned, bad)
        ELSE Load(g1, check.interval - 1, check.interval, bad)

-----------------------------------------------------------------------------
(* GetScaledPatValue: which records are read, and with which times.        *)

\* The start record alone: a constant current, or a time beyond the data.
UsesStartOnly(g, t) ==
    \/ Constant(g)
    \/ /\ setup.extrapolate
       /\ g.end.timeIndex = Unassigned
       /\ t # TimeAt(g, g.start.timeIndex, t)

\* The two times the weights of the records are computed from.
StartTimeUsed(g) == IF NumFiles > 1 /\ g.overLap THEN g.overLapStart
                    ELSE TimeAt(g, g.start.timeIndex, Unassigned)
EndTimeUsed(g)   == TimeAt(g, g.end.timeIndex, Unassigned)

-----------------------------------------------------------------------------
(* The callers: one time step of GridCurrentMover_c.                       *)

GridInit ==
    /\ setup \in Setups
    /\ grid = NewGrid
    /\ model_time = setup.start
    /\ stepPhase = "between" /\ stage = 0
    /\ asked = setup.start /\ outcome = "none"

\* A time earlier and a time later than any other.
Unread == {0, MaxTime + TimeStep + 1}

\* What the program cannot control: which files are unreadable now, what a
\* read past the table of times finds, what an unset variable holds.
Ask(t) ==
    \E bad \in IF setup.faults THEN SUBSET DOMAIN setup.files ELSE {{}},
       junk \in [start : Unread, end : Unread], same \in BOOLEAN :
        LET r == SetInterval(grid, t, bad, junk, same)
        IN  /\ grid' = r.grid
            /\ asked' = t
            /\ outcome' = IF r.err THEN "error" ELSE "set"

\* PrepareForModelStep: an error is raised to the caller, who may take the
\* step again.
PrepareStep ==
    /\ stepPhase = "between"
    /\ Ask(model_time)
    /\ stepPhase' = IF outcome' = "set" THEN "moving" ELSE "between"
    /\ UNCHANGED <<setup, model_time, stage>>

\* The time of the k-th velocity of an element: t, t + h/2, t + h/2, t + h.
StageTime(k) == CASE k = 1 -> model_time
                  [] k \in {2, 3} -> model_time + TimeStep \div 2
                  [] k = 4 -> model_time + TimeStep

\* GetMove of one element by RK4 sets the interval for each of its four
\* velocities, and the next element starts at the first again.  An error
\* ends the element's move.  Euler reads the window PrepareForModelStep set.
GetMoveRK4 ==
    /\ stepPhase = "moving" /\ setup.method = "rk4"
    /\ Ask(StageTime(stage + 1))
    /\ stage' = IF outcome' = "set" THEN (stage + 1) % 4 ELSE 0
    /\ UNCHANGED <<setup, model_time, stepPhase>>

ModelStepIsDone ==
    /\ stepPhase = "moving" /\ stage = 0
    /\ model_time + TimeStep <= MaxTime
    /\ model_time' = model_time + TimeStep
    /\ stepPhase' = "between"
    /\ UNCHANGED <<setup, grid, stage, asked, outcome>>

\* A new run from the start: PrepareForModelRun leaves the grid as it is.
PrepareRun ==
    /\ setup.rewinds /\ stage = 0
    /\ model_time' = setup.start
    /\ stepPhase' = "between"
    /\ UNCHANGED <<setup, grid, stage, asked, outcome>>

GridNext == PrepareStep \/ GetMoveRK4 \/ ModelStepIsDone \/ PrepareRun

GridSpec == GridInit /\ [][GridNext]_gridVars

-----------------------------------------------------------------------------
(* Properties.                                                             *)

Record == UNION {{<<f, i - 1>> : i \in DOMAIN setup.files[f]} :
                    f \in DOMAIN setup.files}
TimeOfRecord(d) == setup.files[d[1]][d[2] + 1]

Between(t, d, e) ==
    /\ TimeOfRecord(d) <= t /\ t <= TimeOfRecord(e)
    /\ TimeOfRecord(d) < TimeOfRecord(e)
    /\ \A r \in Record : \/ TimeOfRecord(r) <= TimeOfRecord(d)
                         \/ TimeOfRecord(e) <= TimeOfRecord(r)

NearestEnd(t, d) ==
    \/ \A r \in Record : t <= TimeOfRecord(d) /\ TimeOfRecord(d) <= TimeOfRecord(r)
    \/ \A r \in Record : TimeOfRecord(r) <= TimeOfRecord(d) /\ TimeOfRecord(d) <= t
    \/ Cardinality(Record) = 1

\* After SetInterval succeeds for a time, the velocity there is computed
\* from the two records next to it, weighted with those records' own times;
\* beyond the data, from the record nearest to it; whichever file, gap or
\* error the window was in before.
InterpolatesBetweenNeighbours ==
    outcome = "set" =>
        LET s == grid.start.data
            e == grid.end.data
        IN  IF UsesStartOnly(grid, asked)
            THEN s \in Record /\ NearestEnd(asked, s)
            ELSE /\ s \in Record /\ e \in Record
                 /\ StartTimeUsed(grid) = TimeOfRecord(s)
                 /\ EndTimeUsed(grid) = TimeOfRecord(e)
                 /\ Between(asked, s, e)

\* SetInterval only fails for a time outside the data, without
\* extrapolation, or because a file cannot be read.
FailsOnlyOutside ==
    outcome = "error" =>
        \/ setup.faults
        \/ ~setup.extrapolate /\ (asked < FirstTime(1) \/ LastTime(NumFiles) < asked)

=============================================================================
