SPECIFICATION DeskSpec
CONSTANTS
    Agents = {a1}
    InitialGrants <- MCGrants
    Caps = {1}
    MaxTime = 1
    Root = Root
    Relayers = {r1}
    Payees = {}
    VaultPda = VaultPda
    PaymasterPda = PaymasterPda
    TraderPda = TraderPda
    Merchants = {m1}
    Mints = {wsol, usdc, token}
    NoAccount = NoAccount
    VaultRent = 1
    PaymasterRent = 1
    TraderRent = 1
    MaxSponsor = 1
    U64Max = 20
    Lamports = {1, 2}
    SponsorLamports = {0, 1}
    InitialSol <- MCSol
    InitialTokens <- MCTokens
    MaxMerchants = 1
    MinPeriod = 1
    MaxPayments = 1
    TokenAmounts = {1}
    PeriodLengths = {}
    StartTimes = {}
    Wsol = wsol
    Quotes = {wsol, usdc}
    MinOuts = {1}
    MaxTokens = 2
CHECK_DEADLOCK FALSE
PROPERTIES
    SoftKillBlocksBuys
