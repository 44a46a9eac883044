SPECIFICATION TrailsSpec
CONSTANTS
    u1 = u1
    u2 = u2
    pay = pay
    p1 = p1
    Users = {u1, u2}
    Projects = {}
    Providers = {pay}
    Keys = {k1, k2, k3, k4, k5}
    Refs = {r1, r2}
    Cashouts = {c1, c2}
    Intents = {i1}
    None = None
    MaxSafe = 100
    BitsPerUsd = 100
    PriceTiers <- TwoTiers
    SubSharePct = 70
    SiteRouteFeePct = 10
    BitAmounts = {2}
    CentAmounts = {1, 3}
    Adjustable <- NothingAdjustable
    ProjectOwner <- NoOwner
    MinCashoutBits = 1
    EscrowDays = 1
    MaxTime = 1
SYMMETRY KeyRefSymmetry
INVARIANTS
    TypeOK
    ReversalNeverGains
    ReversedWithinPaid
    ReversalsAddUp
    IntentSettledOnce
    CashoutTrail
    OnlyGiftsLeave
PROPERTIES
    KeepsPromise
CHECK_DEADLOCK FALSE
