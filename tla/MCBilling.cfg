SPECIFICATION BillingSpec
CONSTANTS
    Agents = {a1}
    InitialGrants <- MCOneGrant
    Caps = {2}
    MaxTime = 4
    Root = Root
    Relayers = {r1}
    Payees = {}
    VaultPda = VaultPda
    PaymasterPda = PaymasterPda
    TraderPda = TraderPda
    Merchants = {m1, m2}
    Mints = {usdc, other}
    NoAccount = NoAccount
    VaultRent = 1
    PaymasterRent = 1
    TraderRent = 1
    MaxSponsor = 2
    U64Max = 20
    Lamports = {}
    SponsorLamports = {0}
    InitialSol <- MCNoFloat
    InitialTokens <- MCTokens
    MaxMerchants = 1
    MinPeriod = 2
    MaxPayments = 2
    TokenAmounts = {1, 2}
    PeriodLengths = {1, 2}
    StartTimes = {0, 3}
SYMMETRY MCSymmetry
CHECK_DEADLOCK FALSE
INVARIANTS
    BillingTypeOK
    NoDoubleCharge
    PaymentsTrackTime
    MerchantBooks
    EveryTokenIsMetered
PROPERTIES
    MissedPeriodsAreNotBackfilled
    CancelIsFinal
    PaymentHasAuthority
