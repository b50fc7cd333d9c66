\* Habits: a mover that is always on, one that is switched and has a range.
SPECIFICATION Spec
CONSTANTS
    Duration = 2
    Delay = 1
    Leads = {0, 1}
    Habits = {TRUE, FALSE}
    MaxElements = 3
    MaxClock = 4
INVARIANTS
    OneRecordPerElement
    NoneOutlivesDuration
    RecordsStayWithElements
PROPERTIES
    ResetOnlyAfterDuration
