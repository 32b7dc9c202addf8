SPECIFICATION LiveSpec
CONSTANTS
    a = a
    b = b
    a1 = a1
    a2 = a2
    b1 = b1
    Names <- MCNames
    Sessions <- MCSessions
    NameOf <- MCNameOf
    HTTP = {a1}
    Callers = {c1}
    NoSession = NoSession
    AnyDevice = AnyDevice
INVARIANTS
    TypeOK
    NoForgottenSession
    RoutingErrorsWereTrue
PROPERTIES
    GhostsGo
CHECK_DEADLOCK FALSE
