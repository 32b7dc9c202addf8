SPECIFICATION Spec
CONSTANTS
    Interval = 3
    Timeout = 3
    FailLimit = 2
    AckTimeout = 5
    IdleTimeout = 7
    Delay = 4
    Command = 4
    ToBuffer = 3
    FromBuffer = 1
    Calls = 2
INVARIANTS
    DeadCoreRemovedInTime
    IdleTransfersEnd
PROPERTIES
    KeptWhileAnswering
CHECK_DEADLOCK FALSE
