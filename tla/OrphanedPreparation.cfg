SPECIFICATION Spec
CONSTANTS
    a = a
    b = b
    c = c
    a1 = a1
    a2 = a2
    b1 = b1
    c1 = c1
    Devices = {a, b}
    Sessions = {a1, b1}
    Name <- NamePair
    HTTP = {}
    Monitored = {}
    Transfers = {t1}
    Digests = {h}
    MaxSize = 0
    MaxHistory = 1
    Faults = {"detach"}
    NoSession = NoSession
    NoTransfer = NoTransfer
    NoDigest = NoDigest
INVARIANTS
    StartedPeersAreCancelled
CHECK_DEADLOCK FALSE
