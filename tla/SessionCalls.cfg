SPECIFICATION LiveSpec
CONSTANTS
    Calls = {c1, c2}
    Transports = {"websocket", "http"}
    QueueSize = 1
    FailLimit = 2
    Faults = {"stop"}
INVARIANTS
    TypeOK
    CountMatches
    WaitersAreAnswerable
PROPERTIES
    CallersReturn
    StoppedWebSocketIsRemoved
    AbandonedSlotsAreFreed
CHECK_DEADLOCK FALSE
