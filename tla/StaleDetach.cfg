SPECIFICATION Spec
CONSTANTS
    a = a
    b = b
    c = c
    a1 = a1
    a2 = a2
    b1 = b1
    c1 = c1
    Devices = {a, b}
    Sessions = {a1, a2, b1}
    Name <- NameReconnect
    HTTP = {a2}
    Monitored = {a1}
    Transfers = {t1}
    Digests = {h}
    MaxSize = 0
    MaxHistory = 1
    Faults = {"detach"}
    NoSession = NoSession
    NoTransfer = NoTransfer
    NoDigest = NoDigest
INVARIANTS
    DisconnectMeansGone
CHECK_DEADLOCK FALSE
