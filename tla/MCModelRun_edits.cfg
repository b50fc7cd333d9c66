\* Every setter and callback, spills added, removed, added again and switched
\* in the middle of a run, failing set-ups.
SPECIFICATION Spec
CONSTANTS
    s1 = s1
    s2 = s2
    s3 = s3
    c1 = c1
    c2 = c2
    c3 = c3
    Spills = {s2, s3, c2, c3}
    SpillOf <- MCSpillOf
    ReleaseOf <- MCReleaseOf
    Refloats = TRUE
    Movers = {m1}
    Weatherers = {w1}
    WeatheringData = WeatheringData
    StartTimes = {0}
    TimeSteps = {2, 4}
    Durations = {2, 4}
    UncertainModes = {FALSE}
    Caller = {"add", "remove", "readd", "switch"}
    IdBound = 2
INVARIANTS
    InsideRun
    RunConfigHeld
    AgesFollowRelease
PROPERTIES
    ElementsPersist
    FullRunReachesEnd
