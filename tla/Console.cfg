SPECIFICATION MCSpec
CONSTANTS
    a = a
    b = b
    v1 = v1
    v2 = v2
    x1 = x1
    Staff = {a, b}
    Visits = {v1, v2}
    Payouts = {x1}
    EscrowUntil <- MCEscrow
    Work <- MCWork
    Ttl = 2
    FlowTtl = 1
    Nothing = Nothing
    LastHour = 2
    MaxLogins = 2
    MaxAudit = 4
    MaxBoots = 2
INVARIANTS
    ConsoleInv
CHECK_DEADLOCK FALSE
