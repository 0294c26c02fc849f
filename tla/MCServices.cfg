\* Two providers and two concurrent requests; one upgrade; two processes at
\* the file store, one of which may die once with the lock in its hands, and one refused call.
SPECIFICATION ServicesSpec
CONSTANTS
    q1 = q1
    q2 = q2
    ConfiguredUrls <- MCUrls
    DefaultUrl = "devnet"
    Requests = {q1, q2}
    Scheduled = TRUE
    MaxClock = 1
    MaxRounds = 1
    Payloads <- MCPayloads
    Sockets = {c1}
    Ranked = 2
    Workers = {w1, w2}
    Fields = {f1}
    BusyAfter = 1
    StaleAfter = 2
    HoldLimit = 3
    MaxOps = 4
    MaxCrashes = 1
    MaxRefusals = 1
INVARIANTS LeaderFailureIsSeen ConsumedOnce
PROPERTIES RequestsAreAnswered OperationsEnd PairsCloseTogether
CHECK_DEADLOCK FALSE
