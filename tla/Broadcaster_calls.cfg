\* A stopped broadcaster with no processes does nothing more.
SPECIFICATION Spec
CONSTANTS
    NumTasks = 2
    Replies = {"result", "exception", "none"}
    MaxCommands = 3
INVARIANTS
    RepliesMatch
    StopLeavesNothing
    TimeoutsReverted
PROPERTIES
    CallsEnd
CHECK_DEADLOCK FALSE
