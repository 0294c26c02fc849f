CONSTANTS
    Id = {p1}
    Commitment = {k1}
    Node = {n1}
    Cranker = {c1, c2}
    Signature = {s1}
    NULL = NULL
    LeaseTTL = 1
    MaxClock = 2
    MaxRetries = 1
    Call = {q1, q2}
    QueryLimit = 1
    KindFilter <- AllKinds
SYMMETRY Interchangeable
SPECIFICATION StoreSpec
INVARIANTS
    RequestsStayValid
    HandedAuthorizationIsOwn
PROPERTIES
    LedgerSpec
CHECK_DEADLOCK FALSE
