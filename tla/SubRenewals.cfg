SPECIFICATION FairSpec
CONSTANTS
    fan = fan
    star = star
    stripe1 = stripe1
    paypal1 = paypal1
    Pairs <- OnePair
    Tiers = {1}
    TierChanges <- NoChanges
    NamedPrices = {}
    Renewing = {"unsaid"}
    DefaultPrice = 2
    Receipts = {}
    Says <- MCSays
    Sweeps = {w1, w2}
    None = None
    BitsPerUsd = 100
    PriceTiers <- OneTierPrice
    SubSharePct = 70
    SiteRouteFeePct = 10
    Period = 1
    Grace = 1
    StripeGrace = 1
    Funds = 4
    MaxReversals = 1
    MaxTime = 3
PROPERTY
    OverdueSettled
CHECK_DEADLOCK FALSE
