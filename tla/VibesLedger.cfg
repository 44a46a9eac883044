SPECIFICATION AllSpec
CONSTANTS
    u1 = u1
    u2 = u2
    pay = pay
    p1 = p1
    Users = {u1, u2}
    Projects = {p1}
    Providers = {pay}
    Keys = {k1, k2, k3, k4}
    Refs = {r1, r2}
    Cashouts = {c1}
    Intents = {}
    None = None
    MaxSafe = 100
    BitsPerUsd = 80
    PriceTiers <- TwoTiers
    SubSharePct = 70
    SiteRouteFeePct = 10
    BitAmounts = {2}
    CentAmounts = {4}
    Adjustable <- PeoplesAccounts
    ProjectOwner <- Owner
    MinCashoutBits = 1
    EscrowDays = 0
    MaxTime = 0
SYMMETRY KeyRefSymmetry
INVARIANTS
    Reconciles
    SpendableNonNegative
CHECK_DEADLOCK FALSE
