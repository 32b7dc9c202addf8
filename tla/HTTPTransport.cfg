SPECIFICATION LiveSpec
CONSTANTS
    MaxSent = 3
    Chunks <- ChunkMessages
    QueueSize = 2
    MaxRequests = 2
    Faults = {"loss", "close"}
INVARIANTS
    TypeOK
    SlotOfTheSender
PROPERTIES
    ClosedFreesAll
    ImplementsLink
CHECK_DEADLOCK FALSE
