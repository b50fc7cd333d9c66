\* Three elements of two units, three steps; a run stops after MaxSteps.
SPECIFICATION Spec
CONSTANTS
    Setups <- MCSetups
    NumElements = 3
    UnitMass = 2
    MaxSteps = 3
INVARIANTS
    WorksItsWindow
    NeverMoreThanAmount
    MassAccounted
PROPERTIES
    ClaimsKept
    LandUntouched
CHECK_DEADLOCK FALSE
