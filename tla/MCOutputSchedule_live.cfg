SPECIFICATION Spec
CONSTANTS
    None = None
    StartTimes = {0, 900}
    TimeSteps = {600, 900}
    Durations = {0, 1800, 4500}
    OutputConfigs <- LiveConfigs
INVARIANTS
    NothingStale
    LiveOnSchedule
    PostRunFollows
