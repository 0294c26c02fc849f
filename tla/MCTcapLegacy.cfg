SPECIFICATION TcapSpec
CONSTANTS
    d1 = d1  f1 = f1  t1 = t1  t2 = t2  l1 = l1  n1 = n1  n2 = n2
    NULL = NULL
    Depositor <- OneDepositor
    FundingId <- OneFunding
    Tip <- TwoTips
    LegacyTip <- OneLegacyTip
    Nonce <- TwoNonces
    GateState <- AlwaysOpen
    MaxAssets = 2
    MaxSequence = 2
    MaxPrepared = 1
    MaxGifts = 0
    MaxForeign = 1
SYMMETRY Alike
INVARIANTS SettledIsAccounted
