\* All releases of up to 7 seconds and 6 elements, time steps up to 4 seconds.
SPECIFICATION Spec
CONSTANTS
    MaxDuration = 7
    MaxElements = 6
    MaxTimeStep = 4
    Slack = 2
INVARIANTS
    SamplesWellFormed
    AllReleasedAtEnd
    EveryStepReleases
    SampledExactly
PROPERTIES
    NeverTakesBack
CHECK_DEADLOCK FALSE
