SPECIFICATION SubGrantSpec
CONSTANTS
    Agents = {a1, a2}
    InitialGrants <- MCGrants
    Caps = {}
    MaxTime = 1
    Delegates = {d1, d2}
    Human = Human
    NoParent = NoParent
    MaxDepth = 3
    SubCaps = {1}
    Expiries = {1}
    Amounts = {1}
SYMMETRY MCSymmetry
PROPERTIES
    IssuesUnderLiveCoreGrant
