SPECIFICATION BillingSpec
CONSTANTS
    Agents = {a1, a2}
    InitialGrants <- MCTwoGrants
    Caps = {2}
    MaxTime = 3
    Root = Root
    Relayers = {r1, r2}
    Payees = {}
    VaultPda = VaultPda
    PaymasterPda = PaymasterPda
    TraderPda = TraderPda
    Merchants = {m1}
    Mints = {usdc}
    NoAccount = NoAccount
    VaultRent = 1
    PaymasterRent = 1
    TraderRent = 1
    MaxSponsor = 2
    U64Max = 20
    Lamports = {1}
    SponsorLamports = {0, 1, 2, 3}
    InitialSol <- MCSol
    InitialTokens <- MCTokens
    MaxMerchants = 1
    MinPeriod = 2
    MaxPayments = 2
    TokenAmounts = {1, 2}
    PeriodLengths = {2}
    StartTimes = {0}
SYMMETRY MCSymmetry
CHECK_DEADLOCK FALSE
INVARIANTS
    EveryTokenIsMetered
    RentFloors
PROPERTIES
    PaymentHasAuthority
    PaymasterOutflow
