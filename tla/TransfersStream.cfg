SPECIFICATION Spec
CONSTANTS
    a = a
    b = b
    c = c
    a1 = a1
    a2 = a2
    b1 = b1
    c1 = c1
    Devices = {a, b}
    Sessions = {a1, b1}
    Name <- NamePair
    HTTP = {b1}
    Monitored = {}
    Transfers = {t1}
    Digests = {h}
    MaxSize = 2
    MaxHistory = 1
    Faults = {"loss", "protocol", "peer", "idle", "close"}
    NoSession = NoSession
    NoTransfer = NoTransfer
    NoDigest = NoDigest
INVARIANTS
    TypeOK
    RelayedInOrder
    DeliveredAsDeclared
    NoNewDataAfterCancel
    NoOrphanReservation
PROPERTIES
    ImplementsContract
CHECK_DEADLOCK FALSE
