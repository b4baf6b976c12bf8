SPECIFICATION IntentsSpec
CONSTANTS
    Agents = {a1}
    InitialGrants <- MCGrants
    Caps = {1}
    MaxTime = 1
    Root = Root
    Relayers = {r1}
    Payees = {}
    VaultPda = VaultPda
    PaymasterPda = PaymasterPda
    TraderPda = TraderPda
    Merchants = {}
    Mints = {}
    NoAccount = NoAccount
    VaultRent = 2
    PaymasterRent = 2
    TraderRent = 2
    MaxSponsor = 1
    U64Max = 20
    Lamports = {1, 2}
    SponsorLamports = {0, 1, 2}
    InitialSol <- MCSol
    InitialTokens <- MCTokens
    MinOuts = {1, 3}
CHECK_DEADLOCK FALSE
INVARIANTS
    IntentsTypeOK
    RentFloors
PROPERTIES
    VaultOutflow
    SponsorOutflow
    TraderNeverCloses
