SPECIFICATION FairMCSpec
CONSTANTS
    ann = ann
    prj = prj
    People = {ann}
    Projects = {prj}
    Providers = {pay}
    None = None
    BitsPerUsd = 100
    PriceTiers <- OneTier
    SubSharePct = 70
    SiteRouteFeePct = 10
    Intents = {i1}
    r1 = r1
    r2 = r2
    h1 = h1
    h2 = h2
    Receipts = {r1, r2}
    Holds = {h1, h2}
    NanoPerCent = 2
    TopupCents = {2}
    PaidCents = {1, 3, 4}
    FeeBps = 5000
    Amounts = {1, 2}
    Charges = {0, 2, 4}
    VibesAmounts = {1}
    Lease = 1
    ExtendLease = 0
    MaxSandbox = 1
    MaxTime = 1
INVARIANTS
    TypeOK
    JournalBalanced
    OverspendIsClawback
    TopupAddsUp
    TopupOnce
PROPERTIES
    KeepsPockets
    HoldsEnd
CHECK_DEADLOCK FALSE
