SPECIFICATION AuthSpec
CONSTANTS
    c1 = c1  c2 = c2  q1 = q1  q2 = q2
    NULL = NULL
    Cranker <- OneCranker
    Call <- TwoCalls
    ChallengeTTL = 1
    SessionTTL = 3
    IdleTTL = 2
    Margin = 0
    Minute = 2
    MaxAttempts = 1
    MaxClock = 4
    MaxChallenges = 2
    MaxCounter = 2
    MaxFaults = 1
SYMMETRY Alike
INVARIANTS ChallengesUsedOnce AcceptedInOrder RetryGetsThrough RateHolds
CHECK_DEADLOCK FALSE
