\* One TIN owner with two TINs and two daemons, two devices, one phone, two
\* payments and two Node instances, one Cranker and two executors.
SPECIFICATION ClientsSpec
CONSTANTS
    a1 = a1
    a2 = a2
    b1 = b1
    b2 = b2
    TinOwner = {"owner"}
    Tin = {a1, a2}
    IssuedTo <- MCIssued
    DisplayName = {"name"}
    TinCranker = {b1, b2}
    MaxAttempts = 2
    MaxLeases = 2
    MaxTinTime = 1
    MaxTinFaults = 1
    Lifetime = 0
    NoTin = NoTin
    Device = {a1, a2}
    MaxCalls = 2
    MaxRuns = 2
    MaxRewraps = 2
    MaxAccessTime = 1
    ProofLife = 1
    NoAccess = NoAccess
    Phone = {p1}
    Scope = {"read"}
    MaxMessages = 3
    MaxCopies = 1
    MaxSessTime = 1
    MessageLife = 1
    SessionLife = 1
    MaxRevocations = 1
    NoSession = NoSession
    Payment = {p1, p2}
    Signer = {p1}
    Verifier = {b1, b2}
    UiAmount <- MCAmounts
    TokenDecimals = 3
    RouteDecimals = 2
    FeeBps = {10}
    DefaultMargin = 50
    NetworkFees = {9}
    DefaultFee = 9
    MarginCap = 5
    FeeCap = 20
    Precision = 100
    PlainPlaces = 2
    CacheLife = 1
    RpcTimeout = 1
    AuthLife = 1
    MaxPayTime = 2
    MaxPayChanges = 1
    MaxPayFaults = 1
    NoPayment = NoPayment
    Settlement = {a1, a2}
    AmountOf <- MCAmountOf
    CcCranker = {p1}
    Executor = {b1, b2}
    MaxVault = 1
    MaxEvents = 1
    MaxRoutes = 1
    MaxCcTime = 1
    MaxCcFaults = 1
    NoRoute = NoRoute
INVARIANTS
    RegisteredAsSigned
    OwnerRecovers
    RouteSurvives
    RetriedReleaseWorks
    NoncesWorkOnce
    AnsweredWhenAllowed
    OnePaymentPerAuthorization
    WalletRequestsAreExact
    VerifiedWorkIsExecutable
    PaidOnceThroughHub
    ReservationsAddUp
SYMMETRY Symmetry
CHECK_DEADLOCK FALSE
