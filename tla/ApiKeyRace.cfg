SPECIFICATION EdgeSpec
CONSTANTS
    timer = timer
    pay = pay
    payAgain = payAgain
    refund = refund
    refundRest = refundRest
    tip = tip
    tipAgain = tipAgain
    bad = bad
    rPay = rPay
    rRefund = rRefund
    rRest = rRest
    rTip = rTip
    w1 = w1
    w2 = w2
    Events = {pay, payAgain, refundRest, tip, tipAgain, bad}
    Payload <- MCPayload
    Poison = {bad}
    Refs = {rPay, rRefund, rRest, rTip}
    Paid = 2
    Workers = {w1, w2, timer}
    Timer = timer
    Limit = 3
    None = None
    MaxReprocess = 1
    MaxMishaps = 1
    gift = gift
    approve1 = approve1
    deny1 = deny1
    approve2 = approve2
    x1 = x1
    x2 = x2
    k1 = k1
    k2 = k2
    k3 = k3
    k4 = k4
    s1 = s1
    s2 = s2
    Calls = {c1, c2}
    Requests = {gift, approve1, deny1, approve2}
    Does <- MCDoes
    Cashouts = {x1, x2}
    ApiUses <- OneKey
    StaffUses <- NoForms
    Nil = Nil
    MaxTxns = 4
    MaxRestarts = 1
INVARIANT
    DecisionMovesMoney
CHECK_DEADLOCK FALSE
