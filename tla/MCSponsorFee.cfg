SPECIFICATION FeeSpec
CONSTANTS
    g1 = g1
    g2 = g2
    f1 = f1
    f2 = f2
    f3 = f3
    Groks = {g1, g2}
    Wallets = {w1, w2}
    FeeAccounts = {f1, f2, f3}
    AuthorityOf <- MCAuthorityOf
    MaxFee = 1
    Fees = {0, 1, 2}
    Amounts = {1, 2}
    InitialBalance <- MCBalance
CHECK_DEADLOCK FALSE
INVARIANTS
    FeeTypeOK
    CollectedIsBurnedOrHeld
PROPERTIES
    OnlyExitIsDestruction
