SPECIFICATION SubGrantSpec
CONSTANTS
    Agents = {a1}
    InitialGrants <- MCGrants
    Caps = {1}
    MaxTime = 1
    Delegates = {d1, d2, d3}
    Human = Human
    NoParent = NoParent
    MaxDepth = 3
    SubCaps = {1, 2}
    Expiries = {1, 2}
    Amounts = {1, 2}
SYMMETRY MCSymmetry
CHECK_DEADLOCK FALSE
INVARIANTS
    SubGrantTypeOK
    Forest
    MeteringWalksUp
    SubSpendWithinCap
    SubtreeWithinCap
    AncestorsDecide
PROPERTIES
    SpendsUnderLiveAncestors
    AuthorityOnlyNarrows
