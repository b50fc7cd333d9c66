CONSTANTS
    TimeStep = 2
    MaxTime = 15
    Setups <- BackIntoFile
SPECIFICATION GridSpec
INVARIANTS
    InterpolatesBetweenNeighbours
CHECK_DEADLOCK FALSE
