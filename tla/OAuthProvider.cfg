SPECIFICATION Spec
CONSTANTS
    c1 = c1
    c2 = c2
    c3 = c3
    u1 = u1
    u2 = u2
    NoClient = NoClient
    Clients <- ThreeClients
    MaxClients = 2
    Errors = {"write", "stat", "rename", "remove"}
    Codes = {k1, k2}
    Redirects <- TwoRedirects
    Challenges = {v1}
    Registered <- RegisteredURIs
    MaxCodes = 1
    TTL = 1
    MaxTime = 2
SYMMETRY Symmetry
INVARIANTS
    TypeOK
    AcknowledgedSurvive
    RefusedStayOut
    MemoryMatchesFile
    SpentOnce
    TokensAreGranted
    TokensOfDurableClients
    FreshCodesStand
PROPERTIES
    TurnedAwayOnlyWhenFull
CHECK_DEADLOCK FALSE
