SPECIFICATION SchedulerSpec
CONSTANTS
    Agents = {a1}
    InitialGrants <- MCGrants
    Caps = {2}
    MaxTime = 2
    Root = Root
    Relayers = {r1}
    Payees = {}
    VaultPda = VaultPda
    PaymasterPda = PaymasterPda
    TraderPda = TraderPda
    Merchants = {m1}
    Mints = {usdc}
    NoAccount = NoAccount
    VaultRent = 1
    PaymasterRent = 1
    TraderRent = 1
    MaxSponsor = 0
    U64Max = 20
    Lamports = {}
    SponsorLamports = {0}
    InitialSol <- MCSol
    InitialTokens <- MCTokens
    MaxMerchants = 1
    MinPeriod = 1
    MaxPayments = 2
    TokenAmounts = {1}
    PeriodLengths = {1}
    StartTimes = {0}
CHECK_DEADLOCK FALSE
INVARIANTS
    SchedulerTypeOK
    DatabaseTellsTheTruth
    DueCanBeSettled
PROPERTIES
    SettlesExactlyOnce
    DueIsSettledOrPasses
