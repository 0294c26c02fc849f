SPECIFICATION GovSpec
CONSTANTS
    Admin = {a1, a2}
    MaxRuns = 3
    MaxMoves = 2
INVARIANT AcceptanceAgrees
PROPERTY ClosedForGood
PROPERTY VerifiedIsClosed
CHECK_DEADLOCK FALSE
