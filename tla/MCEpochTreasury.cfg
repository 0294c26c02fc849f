SPECIFICATION EscrowSpec
CONSTANTS
    s1 = s1  s2 = s2  c1 = c1  c2 = c2  f1 = f1  f2 = f2  k1 = k1  k2 = k2
    NULL = NULL
    Slot <- OneSlot
    Cranker <- OneCranker
    Funder <- TwoFunders
    OperatorOf <- FirstFunder
    Policy = {TRUE, FALSE}
    Signer <- OneSigner
    Version = {1}
    Expiry = {1, 3}
    MaxTokens = 2
    MaxClock = 3
    MaxGifts = 1
    MaxPermits = 2
SYMMETRY Alike
INVARIANTS TreasuryBacked SlotsPaidOnce VaultBacked FundersAreWhole
CHECK_DEADLOCK FALSE
