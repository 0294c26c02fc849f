CONSTANTS
    Id = {p1}
    Commitment = {k1, k2}
    Node = {n1}
    Cranker = {c1, c2}
    Signature = {s1}
    NULL = NULL
    LeaseTTL = 1
    MaxClock = 4
    MaxRetries = 2
SPECIFICATION LedgerSpec
INVARIANTS
    SettlementFollowsFunding
PROPERTIES
    OutcomesAreFinal
CHECK_DEADLOCK FALSE
