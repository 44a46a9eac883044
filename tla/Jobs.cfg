SPECIFICATION MCSpec
CONSTANTS
  alice = alice
  noone = noone
  k1 = k1
  k2 = k2
  s1 = s1
  s2 = s2
  People = {alice}
  Readings = {k1, k2}
  ReadingOf <- MCReadingOf
  Cards <- MCCards
  Allowances <- MCAllowances
  BudgetSets <- MCBudgets
  WindowDays <- MCWindowDays
  Raters = {s1, s2}
  Money = 2
  Exact = 100
  Nobody = noone
  MaxGrants = 2
  MaxTaken = 1
  MaxRestarts = 1
  LastDay = 1
  u1 = u1
  u2 = u2
  p1 = p1
  d1 = d1
  c1 = c1
  r1 = r1
  x1 = x1
  pc = pc
  LiveUsers = {u1, u2}
  NoUser = noone
  LiveTxnOf <- MCLiveTxnOf
  Orders = {p1}
  LiveSubs = {x1}
  SubOf <- MCSubOf
  Accounts = {pc}
  Today = 1
  Classes = {"input", "output"}
  TokenCounts = {0, 1, 7, 1000}
  TokenPrices = {0, 1, 999999, 1000001}
  MaxEnd = 3
  MaxRuns = 3
  MaxNative = 1
INVARIANTS
    ChargesAddUp
    PromoAddsUp
    PricesRoundUp
    CarriedOver
    CreditedOnceAnywhere
PROPERTIES
    PaidWhenPossible
    LeavesAlone
CHECK_DEADLOCK FALSE
