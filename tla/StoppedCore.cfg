SPECIFICATION LiveSpec
CONSTANTS
    Calls = {c1}
    Transports = {"http"}
    QueueSize = 1
    FailLimit = 2
    Faults = {"stop"}
PROPERTY
    StoppedCoreIsRemoved
CHECK_DEADLOCK FALSE
