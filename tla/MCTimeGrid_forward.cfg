CONSTANTS
    TimeStep = 2
    MaxTime = 15
    Setups <- SafeSetups
SPECIFICATION GridSpec
INVARIANTS
    InterpolatesBetweenNeighbours
    FailsOnlyOutside
CHECK_DEADLOCK FALSE
