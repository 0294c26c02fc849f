SPECIFICATION Spec
CONSTANTS
    NULL = NULL
    p1 = p1
    p2 = p2
    c1 = c1
    c2 = c2
    Payment <- TwoPayments
    Cranker <- TwoCrankers
    FaultKind <- AllFaults
    MaxFaults = 2
    MaxFailures = 2
SYMMETRY Alike
INVARIANTS
    ConfirmedIsTrue
PROPERTIES
    MovesMoneyOnce
