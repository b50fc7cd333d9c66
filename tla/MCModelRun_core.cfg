\* Two spills, the uncertain container switched on and off.
SPECIFICATION Spec
CONSTANTS
    s1 = s1
    s2 = s2
    s3 = s3
    c1 = c1
    c2 = c2
    c3 = c3
    Spills = {s1, s2, c1, c2}
    SpillOf <- MCSpillOf
    ReleaseOf <- MCReleaseOf
    Refloats = TRUE
    Movers = {}
    Weatherers = {}
    WeatheringData = WeatheringData
    StartTimes = {0}
    TimeSteps = {2}
    Durations = {4}
    UncertainModes = {FALSE, TRUE}
    Caller = {}
    IdBound = 4
INVARIANTS
    TypeOK
    ElementsAccounted
    ReleasedOnSchedule
    SpillNumNamesOwner
    MassBalanceAgrees
    RewoundAfresh
    UncertainMirrors
    UniqueIds
