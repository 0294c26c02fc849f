SPECIFICATION TcapSpec
CONSTANTS
    d1 = d1  f1 = f1  t1 = t1  t2 = t2  l1 = l1  n1 = n1  n2 = n2
    NULL = NULL
    Depositor <- OneDepositor
    FundingId <- OneFunding
    Tip <- OneTip
    LegacyTip <- None
    Nonce <- TwoNonces
    GateState <- OpenOrPaused
    MaxAssets = 2
    MaxSequence = 2
    MaxPrepared = 2
    MaxGifts = 1
    MaxForeign = 1
SYMMETRY AlikeNonces
INVARIANTS ReserveBacked
PROPERTIES TokensLeaveByPermit
