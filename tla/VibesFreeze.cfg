SPECIFICATION MCSpec
CONSTANTS
    Scopes = {"trials"}
    neon = neon
    pixel = pixel
    lab = lab
    ann = ann
    bob = bob
    sticker = sticker
    badge = badge
    trial = trial
    Apps = {neon, pixel, lab}
    Passes = {p1, p2}
    Rows <- TwoRows
    MaxAttempts = 2
    MaxCrashes = 1
    Persons = {ann, bob}
    Charges = {sticker, badge, trial}
    Asks <- MCAsks
    Grants <- MCGrants
    MaxCharge = 2
    DailyLimit = 3
    Ttl = 1
    Day = 1
    Funds = 4
    None = None
    MaxCalls = 2
    MaxPocket = 2
    MaxTime = 2
PROPERTY
    FrozenMovesNothing
