-------------------------- MODULE MCReleaseSchedule ------------------------
(***************************************************************************)
(* Checks the release schedule over all small releases: a clock runs from  *)
(* before the release to after its end, one second at a time, and the      *)
(* schedule is read at every tick, as Spill.release_elements may.          *)
(***************************************************************************)
EXTENDS ReleaseSchedule

CONSTANTS
    MaxDuration,  \* longest release, in seconds
    MaxElements,  \* most elements (in all or per time step)
    MaxTimeStep,  \* longest model time step
    Slack         \* seconds watched before and after the release

ASSUME BoundsAssumption ==
    /\ MaxDuration \in Nat /\ MaxElements \in Nat
    /\ MaxTimeStep \in Nat \ {0} /\ Slack \in Nat

Releases ==
    [begin : {0}, end : 0 .. MaxDuration, n : 0 .. MaxElements,
     perStep : BOOLEAN]

VARIABLES release, ts, clock
vars == <<release, ts, clock>>

Init ==
    /\ release \in Releases
    /\ ts \in 1 .. MaxTimeStep
    /\ EnoughElements(release, ts)
    /\ clock = release.begin - Slack

Tick ==
    /\ clock < release.end + Slack
    /\ clock' = clock + 1
    /\ UNCHANGED <<release, ts>>

Spec == Init /\ [][Tick]_vars

Due == NumElementsAfterTime(release, ts, clock, 0)

\* The samples are strictly increasing times, and whole numbers of elements
\* between none and all: what TimeseriesData needs to interpolate.
SamplesWellFormed ==
    \A i \in 1 .. NumReleaseTimeSteps(release, ts) :
        /\ SampleTime(release, ts, i - 1) < SampleTime(release, ts, i)
        /\ SampleData(release, ts, i - 1) <= SampleData(release, ts, i)
        /\ SampleData(release, ts, i) \in 0 .. MaxRelease(release, ts)

\* Mass is neither created nor withheld: the mass of an element is the
\* release's mass divided by max_release, so all of max_release must be out
\* at the end of the release, at no time more, and before it nothing.
AllReleasedAtEnd ==
    /\ Due \in 0 .. MaxRelease(release, ts)
    /\ clock < release.begin => Due = 0
    /\ clock >= release.end => Due = MaxRelease(release, ts)

\* What prepare_for_model_run asks for ("number of LEs must at least be equal
\* to the number of timesteps in the release") is enough for every time step
\* of the release to release something.
EveryStepReleases ==
    ~Instantaneous(release) =>
        \A i \in 1 .. NumReleaseTimeSteps(release, ts) :
            ScheduleAt(release, ts, SampleTime(release, ts, i))
                > ScheduleAt(release, ts, SampleTime(release, ts, i - 1))

\* At the time steps of the release the interpolated schedule is the sample.
SampledExactly ==
    \A i \in 0 .. NumReleaseTimeSteps(release, ts) :
        clock = SampleTime(release, ts, i) => Due = SampleData(release, ts, i)

\* The schedule never falls: releasing the half step first cannot overshoot
\* what the full step prescribes.
NeverTakesBack ==
    [][ NumElementsAfterTime(release, ts, clock', 0) >= Due ]_vars
=============================================================================
