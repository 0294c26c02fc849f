SPECIFICATION FairSpec
CONSTANTS
    NULL = NULL
    p1 = p1
    p2 = p2
    c1 = c1
    c2 = c2
    Payment <- TwoPayments
    Cranker <- OneCranker
    FaultKind <- NoFault
    MaxFaults = 0
    MaxFailures = 2
PROPERTIES
    SettlementsAreNotStranded
