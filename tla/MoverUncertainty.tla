-------------------------- MODULE MoverUncertainty --------------------------
(***************************************************************************)
(* The uncertainty records of a C++ mover: CurrentMover_c, and WindMover_c *)
(* which repeats it.  In an uncertain run every element is moved with its  *)
(* own random record.  The records are a list in C++ memory; the elements  *)
(* are arrays in a Python spill container.  Nothing but the position in    *)
(* the two ties a record to its element, and the two are changed by        *)
(* different calls of a time step:                                         *)
(*                                                                         *)
(*   release_elements       appends elements            (Python)           *)
(*   prepare_for_model_step brings the list up to date  (C++, if active)   *)
(*   get_move               reads record i for element i (C++, if active)  *)
(*   move_elements          marks elements to be removed (Python)          *)
(*   mover.model_step_is_done drops the marked records  (C++, if active)   *)
(*   sc.model_step_is_done  drops the marked elements   (Python)           *)
(*                                                                         *)
(* A record is abstracted to the element it was drawn for and the time it  *)
(* was drawn at.  Time is counted in time steps from the model's start.    *)
(***************************************************************************)
EXTENDS Ranks, Sequences

CONSTANTS
    Duration,     \* fDuration: records are drawn again after this long
    Delay,        \* fUncertainStartTime: no uncertainty before this
    Leads,        \* values of lead
    Habits,       \* values of alwaysOn
    MaxElements,  \* bound: elements released in one run
    MaxClock      \* bound: time steps of a run

ASSUME UncertaintyAssumption ==
    /\ Duration \in Nat \ {0} /\ Delay \in Nat /\ Leads \subseteq {0, 1}
    /\ Habits \subseteq BOOLEAN
    /\ MaxElements \in Nat /\ MaxClock \in Nat

VARIABLES
    lead,         \* 1 for a wind mover, whose elapsed time is that at the
                  \* end of the step, 0 for a current mover; never changes
    alwaysOn,     \* the mover is on and in its active_range all the time;
                  \* never changes
    elements,     \* the ids in the uncertain container's arrays, in order
    released,     \* how many elements this run has released
    marked,       \* indices of the elements marked to_be_removed
    clock,        \* the model time
    phase,        \* where the time step stands
    active,       \* Process._active, set by prepare_for_model_step
    mover         \* the C++ object, see NewMover

vars == <<lead, alwaysOn, elements, released, marked, clock, phase, active, mover>>

\* CurrentMover_c::CurrentMover_c: no list, which is not an empty list.
NewMover == [allocated |-> FALSE, list |-> <<>>, wasSet |-> 0,
             firstStep |-> FALSE, modelStart |-> 0]

-----------------------------------------------------------------------------
(* The list.                                                               *)

\* DisposeUncertainty
Disposed(m) == [m EXCEPT !.allocated = FALSE, !.list = <<>>, !.wasSet = 0]

Drawn(le, elapsed) == [le |-> le, drawn |-> elapsed]
DrawnFor(les, elapsed) == [i \in DOMAIN les |-> Drawn(les[i], elapsed)]

\* AllocateUncertainty, UpdateUncertaintyValues
DrawnAfresh(m, les, elapsed) ==
    [m EXCEPT !.allocated = TRUE, !.list = DrawnFor(les, elapsed),
              !.wasSet = elapsed]

\* A faulty variant: any other number of elements, as in the build that is
\* not for pyGNOME.
ReInitOnAnySize(m, les, elapsed) ==
    \/ ~m.allocated
    \/ elapsed < m.wasSet
    \/ Len(les) # Len(m.list)

\* The model reset the time without telling the mover, or elements were
\* removed without telling it.
NeedToReInit(m, les, elapsed) ==
    \/ ~m.allocated
    \/ elapsed < m.wasSet
    \/ Len(les) < Len(m.list)

\* A faulty variant: no records are appended.
NotExtended(m, les, elapsed) == m

\* Elements were released since the last step: records for them are appended.
Extended(m, les, elapsed) ==
    [m EXCEPT !.list = [i \in DOMAIN les |->
        IF i \in DOMAIN m.list THEN m.list[i] ELSE Drawn(les[i], elapsed)]]

\* A faulty variant: the records live one step longer.
UpdateLate(m, les, elapsed) ==
    IF elapsed < Delay
    THEN IF m.allocated THEN Disposed(m) ELSE m
    ELSE IF NeedToReInit(m, les, elapsed)
    THEN DrawnAfresh(m, les, elapsed)
    ELSE IF elapsed > m.wasSet + Duration
    THEN DrawnAfresh(m, les, elapsed)
    ELSE Extended(m, les, elapsed)

UpdateUncertainty(m, les, elapsed) ==
    IF elapsed < Delay
    THEN IF m.allocated THEN Disposed(m) ELSE m
    ELSE IF NeedToReInit(m, les, elapsed)
    THEN DrawnAfresh(m, les, elapsed)
    ELSE IF elapsed >= m.wasSet + Duration
    THEN DrawnAfresh(m, les, elapsed)
    ELSE Extended(m, les, elapsed)

\* The elements of a list but those at the indices in "gone".
Without(list, gone) ==
    LET kept == (1 .. Len(list)) \ gone
    IN  [k \in 1 .. Cardinality(kept) |-> list[NthOf(kept, k)]]

\* A faulty variant: as many records are dropped, but from the end.
ReallocateFromEnd(m, n, gone) ==
    IF ~m.allocated \/ Len(m.list) # n
    THEN m
    ELSE IF (1 .. n) \ gone = {}
    THEN Disposed(m)
    ELSE [m EXCEPT !.list = SubSeq(m.list, 1, Cardinality((1 .. n) \ gone))]

\* ReallocateUncertainty: on a size it does not expect it returns an error
\* that its caller ignores.
ReallocateUncertainty(m, n, gone) ==
    IF ~m.allocated \/ Len(m.list) # n
    THEN m
    ELSE IF (1 .. n) \ gone = {}
    THEN Disposed(m)
    ELSE [m EXCEPT !.list = Without(m.list, gone)]

-----------------------------------------------------------------------------
(* The steps.                                                              *)

\* The caller may switch the mover off and on, and its active_range may
\* begin or end in the run.
Activities == IF alwaysOn THEN {TRUE} ELSE BOOLEAN

Init ==
    /\ lead \in Leads /\ alwaysOn \in Habits
    /\ elements = <<>> /\ released = 0 /\ marked = {}
    /\ clock = 0 /\ phase = "rewound" /\ active = TRUE
    /\ mover = NewMover

\* setup_model_run empties the arrays and prepares the movers that are on.
PrepareForModelRun ==
    /\ phase \in {"rewound", "released"}
    /\ elements' = <<>> /\ released' = 0 /\ marked' = {}
    /\ clock' = 0 /\ phase' = "released"
    /\ \E on \in Activities :
          mover' = IF on THEN [Disposed(mover) EXCEPT !.firstStep = TRUE] ELSE mover
    /\ UNCHANGED <<lead, alwaysOn, active>>

\* Elements are released at the end of a step and before the next.
ReleaseElements ==
    /\ phase = "released" /\ released < MaxElements
    /\ released' = released + 1
    /\ elements' = Append(elements, released + 1)
    /\ UNCHANGED <<lead, alwaysOn, marked, clock, phase, active, mover>>

\* PrepareForModelStep, for the forecast container and then the uncertain.
PrepareForModelStep ==
    /\ phase = "released" /\ clock < MaxClock
    /\ phase' = "prepared"
    /\ active' \in Activities
    /\ LET start == IF mover.firstStep THEN clock ELSE mover.modelStart
       IN  mover' = IF active'
                    THEN UpdateUncertainty([mover EXCEPT !.modelStart = start],
                                           elements, clock + lead - start)
                    ELSE mover
    /\ UNCHANGED <<lead, alwaysOn, elements, released, marked, clock>>

\* get_move and the rest of the step: some elements end off the map.
MoveElements ==
    /\ phase = "prepared"
    /\ phase' = "moved"
    /\ marked' \in SUBSET DOMAIN elements
    /\ UNCHANGED <<lead, alwaysOn, elements, released, clock, active, mover>>

\* step_is_done: an active mover drops its records, then the container
\* drops its elements, and time goes on.
StepIsDone ==
    /\ phase = "moved"
    /\ phase' = "released"
    /\ LET m == [mover EXCEPT !.firstStep = FALSE]
       IN  mover' = IF ~active THEN mover
                    ELSE IF elements = <<>> THEN m
                    ELSE ReallocateUncertainty(m, Len(elements), marked)
    /\ elements' = Without(elements, marked)
    /\ marked' = {}
    /\ clock' = clock + 1
    /\ UNCHANGED <<lead, alwaysOn, released, active>>

Next == PrepareForModelRun \/ ReleaseElements \/ PrepareForModelStep
        \/ MoveElements \/ StepIsDone

Spec == Init /\ [][Next]_vars

-----------------------------------------------------------------------------
(* Properties.                                                             *)

Records == [le : Nat \ {0}, drawn : Nat]

Elapsed == clock + lead - mover.modelStart

\* Between PrepareForModelStep and the end of the step.
Moving == phase \in {"prepared", "moved"} /\ active

\* The types of the variables.
TypeOK ==
    /\ elements \in Seq(Nat \ {0}) /\ released \in Nat
    /\ marked \subseteq DOMAIN elements
    /\ clock \in Nat /\ active \in BOOLEAN
    /\ phase \in {"rewound", "released", "prepared", "moved"}
    /\ alwaysOn \in BOOLEAN /\ lead \in {0, 1}
    /\ mover \in [allocated : BOOLEAN, list : Seq(Records), wasSet : Nat,
                  firstStep : BOOLEAN, modelStart : Nat]

\* AddUncertainty indexes the list by the element without looking at its
\* size: while elements are moved with uncertainty there is one record for
\* each, whatever was released, removed or switched before; and there are
\* records from the delay on, whenever the mover is active.
OneRecordPerElement ==
    Moving => /\ mover.allocated <=> Elapsed >= Delay
              /\ mover.allocated => Len(mover.list) = Len(elements)

\* No element is moved with a record older than the duration.
NoneOutlivesDuration ==
    Moving /\ mover.allocated =>
        \A i \in DOMAIN mover.list : Elapsed - mover.list[i].drawn < Duration

\* An element is moved with the record drawn for it: removals of others
\* before it in the arrays and releases after it do not hand it another's,
\* provided that the mover takes part in every step.
RecordsStayWithElements ==
    alwaysOn =>
        \A i \in DOMAIN mover.list :
            i \in DOMAIN elements /\ mover.list[i].le = elements[i]

\* uncertain_duration: "how often does a given uncertain element get reset".
\* An element keeps its record until the duration has passed since the list
\* was drawn, unless a new run begins.
ResetOnlyAfterDuration ==
    [][ \A i \in DOMAIN mover.list, j \in DOMAIN mover'.list :
            alwaysOn /\ clock' # 0 /\ mover.list[i].le = mover'.list[j].le =>
                \/ mover'.list[j] = mover.list[i]
                \/ mover'.wasSet >= mover.wasSet + Duration ]_vars

=============================================================================
