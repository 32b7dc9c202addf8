SPECIFICATION Spec
CONSTANTS
    a = a
    b = b
    c = c
    a1 = a1
    a2 = a2
    b1 = b1
    c1 = c1
    Devices = {a, b, c}
    Sessions = {a1, b1, c1}
    Name <- NameThree
    HTTP = {}
    Monitored = {}
    Transfers = {t1, t2}
    Digests = {h}
    MaxSize = 0
    MaxHistory = 1
    Faults = {"peer"}
    NoSession = NoSession
    NoTransfer = NoTransfer
    NoDigest = NoDigest
SYMMETRY TransferSymmetry
INVARIANTS
    ReservationsMatch
    TableBounded
CHECK_DEADLOCK FALSE
