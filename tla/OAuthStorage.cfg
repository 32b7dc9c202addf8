SPECIFICATION StorageSpec
CONSTANTS
    c1 = c1
    c2 = c2
    c3 = c3
    c4 = c4
    NoClient = NoClient
    Clients <- FourClients
    MaxClients = 2
    Errors = {"write", "stat", "rename", "remove"}
SYMMETRY Symmetry
INVARIANTS
    EveryStartSucceeds
PROPERTIES
    ImplementsStore
CHECK_DEADLOCK FALSE
