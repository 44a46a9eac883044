------------------------------ MODULE Balance ------------------------------
(***************************************************************************)
(* The prepaid USD Balance: top-ups and their reversals, holds with a      *)
(* lease, settlement of metered usage, the lease sweeper, transfers to a   *)
(* project and Vibes bought from it (server/ops/{credits,topups,           *)
(* balance}.js and the top-up branch of reversals.js).                     *)
(*                                                                         *)
(* Every operation is one serializable transaction, so one step, except    *)
(* the sweeper, which reads the due holds first and expires them one by    *)
(* one.  An idempotency key names one hold, one settlement or one receipt: *)
(* repeating a request with its key changes nothing.                       *)
(***************************************************************************)
EXTENDS Rates, Functions

CONSTANTS
    People, Projects,   \* who may own a Balance
    Providers,          \* checkout providers
    Intents,            \* top-up intents
    Receipts,           \* provider receipt references
    Holds,              \* hold ids
    None,
    NanoPerCent,        \* 10,000,000 nano-USD in the code
    TopupCents,         \* the amounts the owner offers
    PaidCents,          \* amounts a provider may report
    FeeBps,             \* the top-up fee, in basis points
    Amounts,            \* nano-USD a hold, an extension or a transfer may name
    Charges,            \* nano-USD of usage a settlement may compute
    VibesAmounts,       \* Vibes that may be bought from a Balance
    Lease, ExtendLease, \* how long a hold lives, and an extension keeps it
    MaxSandbox,         \* bound: sandbox credit granted to all
    MaxTime             \* bound: no lease outlives this clock

ASSUME BalanceAssumption ==
    /\ NanoPerCent \in Nat \ {0} /\ FeeBps \in Nat
    /\ TopupCents \subseteq Nat \ {0} /\ PaidCents \subseteq Nat \ {0}
    /\ Amounts \subseteq Nat /\ Charges \subseteq Nat /\ VibesAmounts \subseteq Nat \ {0}
    /\ Lease \in Nat \ {0} /\ ExtendLease \in Nat /\ MaxSandbox \in Nat /\ MaxTime \in Nat
    /\ IsFiniteSet(Holds) /\ IsFiniteSet(Receipts)
    /\ IsFiniteSet(People) /\ IsFiniteSet(Projects) /\ IsFiniteSet(Providers)
    /\ None \notin People \cup Projects \cup Receipts
    /\ People \cap Projects = {}

VARIABLES
    balance,      \* account_balances of the accounts below
    intents,      \* payment_intents rows of kind credits_topup
    topups,       \* top-up transactions by receipt, with what was reversed since
    holds,        \* credit_holds rows
    settlements,  \* credit_settlements rows, by hold
    due,          \* holds a sweep has read as expired and not yet updated
    now

vars == <<balance, intents, topups, holds, settlements, due, now>>

----------------------------------------------------------------------------
(* Accounts: nano-USD, and the Vibes a Balance buys.                       *)

Owners == People \cup Projects
UsdCredit(o) == <<"usd_credit", o>>
Sandbox(o) == <<"usd_credit_sandbox", o>>
SandboxIssuer == <<"usd_credit_sandbox", None>>
UsdRevenue == <<"platform_revenue", None>>
UsdClearing(p) == <<"provider_clearing", p>>
TopupDebt == <<"credit_topup_debt", None>>
VibesCredit(u) == <<"user_credit", u>>
FxBits == <<"fx_conversion", "vibes-bits">>
FxCents == <<"fx_conversion", "usd-cents">>

HoldAccounts == {UsdCredit(o) : o \in Owners} \cup {Sandbox(o) : o \in Owners}
NanoAccounts ==
    HoldAccounts \cup {SandboxIssuer, UsdRevenue, TopupDebt} \cup {UsdClearing(p) : p \in Providers}
Accounts == NanoAccounts \cup {VibesCredit(u) : u \in People} \cup {FxBits, FxCents}

\* Value leaves `from' and enters `to'.
Moved(b, from, to, n) == [b EXCEPT ![from] = @ - n, ![to] = @ + n]

NoRow == [status |-> "none"]
IntentRow == [status : {"created", "failed", "settled", "refunded"}, provider : Providers,
              owner : Owners, amount : TopupCents]
TopupRow == [status : {"posted"}, intent : Intents, owner : Owners, provider : Providers,
             paid : PaidCents, nano : Nat,
             refunded : Nat,                \* cents reversed so far
             clawed : Nat, debt : Nat]      \* nano-USD taken back, and owed
HoldRow == [status : {"active", "extended", "settled", "released", "expired"},
            account : HoldAccounts, held : Nat, lease : Nat]
SettlementRow == [status : {"posted"}, charge : Nat, released : Nat, shortfall : Nat]

TypeOK ==
    /\ balance \in [Accounts -> Int]
    /\ intents \in [Intents -> IntentRow \cup {NoRow}]
    /\ topups \in [Receipts -> TopupRow \cup {NoRow}]
    /\ holds \in [Holds -> HoldRow \cup {NoRow}]
    /\ settlements \in [Holds -> SettlementRow \cup {NoRow}]
    /\ due \subseteq Holds
    /\ now \in Nat

Init ==
    /\ balance = [a \in Accounts |-> 0]
    /\ intents = [i \in Intents |-> NoRow]
    /\ topups = [r \in Receipts |-> NoRow]
    /\ holds = [h \in Holds |-> NoRow]
    /\ settlements = [h \in Holds |-> NoRow]
    /\ due = {}
    /\ now = 0

----------------------------------------------------------------------------
(* What an account may still spend (credits.js, balance.js).               *)

Open(h) == holds[h].status \in {"active", "extended"}
OpenOn(a) == {h \in Holds : Open(h) /\ holds[h].account = a}
Held(a) == SumFunctionOnSet([h \in OpenOn(a) |-> holds[h].held], OpenOn(a))
Available(a) == balance[a] - Held(a)

\* Variant: money under a hold may be spent.
CoversBalance(a, n) == balance[a] >= n

Covers(a, n) == Available(a) >= n

----------------------------------------------------------------------------
(* Top-ups (topups.js).                                                    *)

FeeCents(amount) == (amount * FeeBps + 9999) \div 10000

StartTopup(i, o, p, amount) ==
    /\ intents[i] = NoRow
    /\ intents' = [intents EXCEPT ![i] =
         [status |-> "created", provider |-> p, owner |-> o, amount |-> amount]]
    /\ UNCHANGED <<balance, topups, holds, settlements, due, now>>

\* The provider refused the checkout.  The code overwrites the status whatever it
\* is; nobody has the link of a checkout that failed to open, so none is paid yet.
FailTopup(i) ==
    /\ intents[i].status = "created"
    /\ intents' = [intents EXCEPT ![i].status = "failed"]
    /\ UNCHANGED <<balance, topups, holds, settlements, due, now>>

\* Variant: a settled intent takes another payment.
IntentOfProvider(i, p) == intents[i] # NoRow /\ intents[i].provider = p

IntentOpen(i, p) == intents[i] # NoRow /\ intents[i].provider = p /\ intents[i].status # "settled"

\* settle(): exactly the intent's amount becomes Balance; the fee and any
\* overpayment are revenue.
SettleTopup(r, i, p, paid) ==
    /\ topups[r] = NoRow
    /\ IntentOpen(i, p)
    /\ LET row == intents[i]
           nano == row.amount * NanoPerCent
       IN  /\ paid >= row.amount + FeeCents(row.amount)
           /\ balance' = [balance EXCEPT ![UsdClearing(p)] = @ - paid * NanoPerCent,
                                         ![UsdCredit(row.owner)] = @ + nano,
                                         ![UsdRevenue] = @ + (paid * NanoPerCent - nano)]
           /\ topups' = [topups EXCEPT ![r] =
                [status |-> "posted", intent |-> i, owner |-> row.owner, provider |-> p, paid |-> paid,
                 nano |-> nano, refunded |-> 0, clawed |-> 0, debt |-> 0]]
    /\ intents' = [intents EXCEPT ![i].status = "settled"]
    /\ UNCHANGED <<holds, settlements, due, now>>

\* The cents a reversal covers, as the provider reports it (reversals.js).
CentsToReverse(t, mode, n) ==
    AtMost(CASE mode = "cumulative" -> n - t.refunded [] mode = "cents" -> n
             [] mode = "rest" -> t.paid - t.refunded,
           t.paid - t.refunded)

\* Variant: each partial refund is rounded down by itself.
RevokedBySelf(t, cents) == (t.nano * cents) \div t.paid

\* Variant: the two running totals are subtracted the wrong way round.
RevokedBackwards(t, cents) == (t.nano * t.refunded) \div t.paid - (t.nano * (t.refunded + cents)) \div t.paid

\* The part of the credited amount the next `cents' refunded revoke.
Revoked(t, cents) == (t.nano * (t.refunded + cents)) \div t.paid - (t.nano * t.refunded) \div t.paid

\* Variant: what was already spent is written off.
WrittenOff(part, clawed) == 0

Debt(part, clawed) == part - clawed

\* The top-up branch of reverseReceipt(): the revoked part comes out of what the
\* account's balance still shows, holds or not; the rest is a debt.
ReverseTopup(r, mode, n) ==
    /\ topups[r] # NoRow
    /\ LET t == topups[r]
           cents == CentsToReverse(t, mode, n)
           part == Revoked(t, cents)
           clawed == AtLeast(0, AtMost(balance[UsdCredit(t.owner)], part))
           debt == Debt(part, clawed)
       IN  /\ cents > 0
           /\ balance' = [balance EXCEPT ![UsdClearing(t.provider)] = @ + cents * NanoPerCent,
                                         ![UsdCredit(t.owner)] = @ - clawed,
                                         ![UsdRevenue] = @ - AtLeast(0, cents * NanoPerCent - part),
                                         ![TopupDebt] = @ - debt]
           /\ topups' = [topups EXCEPT ![r].refunded = @ + cents, ![r].clawed = @ + clawed,
                                       ![r].debt = @ + debt]
           /\ intents' = IF t.refunded + cents >= t.paid
                         THEN [intents EXCEPT ![t.intent].status = "refunded"] ELSE intents
    /\ UNCHANGED <<holds, settlements, due, now>>

SandboxGrant(o, n) ==
    /\ n > 0
    /\ n - balance[SandboxIssuer] =< MaxSandbox
    /\ balance' = Moved(balance, SandboxIssuer, Sandbox(o), n)
    /\ UNCHANGED <<intents, topups, holds, settlements, due, now>>

----------------------------------------------------------------------------
(* Holds (credits.js).                                                     *)

CreateHold(h, a, max) ==
    /\ holds[h] = NoRow
    /\ Covers(a, max)
    /\ now + Lease =< MaxTime
    /\ holds' = [holds EXCEPT ![h] =
         [status |-> "active", account |-> a, held |-> max, lease |-> now + Lease]]
    /\ UNCHANGED <<balance, intents, topups, settlements, due, now>>

\* A hold past its lease but not yet swept may still grow.
ExtendHold(h, add) ==
    /\ Open(h)
    /\ Covers(holds[h].account, add)
    /\ now + ExtendLease =< MaxTime
    /\ holds' = [holds EXCEPT ![h].status = "extended", ![h].held = @ + add,
                              ![h].lease = AtLeast(@, now + ExtendLease)]
    /\ UNCHANGED <<balance, intents, topups, settlements, due, now>>

\* What a settlement may take: the hold, and what its account has free beside it.
Room(h) == holds[h].held + Available(holds[h].account)

Collected(h, charge) == IF charge > holds[h].held THEN AtMost(charge, Room(h)) ELSE charge

\* settleHold(): usage beyond the room is recorded as a shortfall.  The insert,
\* and with it the step, fails on a negative charge (CHECK of credit_settlements).
SettleHold(h, charge) ==
    /\ Open(h)
    /\ LET a == holds[h].account
           collected == Collected(h, charge)
       IN  /\ collected >= 0
           /\ balance' = Moved(balance, a, IF a[1] = "usd_credit" THEN UsdRevenue ELSE SandboxIssuer,
                               collected)
           /\ settlements' = [settlements EXCEPT ![h] =
                [status |-> "posted", charge |-> collected,
                 released |-> AtLeast(0, holds[h].held - collected), shortfall |-> charge - collected]]
    /\ holds' = [holds EXCEPT ![h].status = "settled", ![h].held = 0]
    /\ UNCHANGED <<intents, topups, due, now>>

ReleaseHold(h) ==
    /\ Open(h)
    /\ holds' = [holds EXCEPT ![h].status = "released", ![h].held = 0]
    /\ UNCHANGED <<balance, intents, topups, settlements, due, now>>

\* Variant: an extended hold is not looked at again.
ActiveOnly(h) == holds[h].status = "active"

Sweepable(h) == Open(h)

\* sweepExpired(), first its read of the holds whose lease is over.  Passes may
\* overlap (the timer does not wait for the one before).
SweepRead ==
    /\ due' = due \cup {h \in Holds : Sweepable(h) /\ holds[h].lease =< now}
    /\ UNCHANGED <<balance, intents, topups, holds, settlements, now>>

\* Variant: the update does not look at the hold's status.
Read(h) == TRUE

StillOpen(h) == Open(h)

\* then one update per hold it read.
SweepExpire(h) ==
    /\ h \in due
    /\ holds' = IF StillOpen(h) THEN [holds EXCEPT ![h].status = "expired", ![h].held = 0] ELSE holds
    /\ due' = due \ {h}
    /\ UNCHANGED <<balance, intents, topups, settlements, now>>

----------------------------------------------------------------------------
(* Moving and spending a person's Balance (balance.js).                    *)

Transfer(u, p, n) ==
    /\ n > 0
    /\ Covers(UsdCredit(u), n)
    /\ balance' = Moved(balance, UsdCredit(u), UsdCredit(p), n)
    /\ UNCHANGED <<intents, topups, holds, settlements, due, now>>

\* The price of some Vibes in nano-USD, rounded up.
VibesPrice(vibes) == (vibes * 100 * NanoPerCent + BitsPerUsd - 1) \div BitsPerUsd

\* buyVibes(): dollars to revenue, Vibes minted from the value account's bits.
BuyVibes(u, vibes) ==
    /\ Covers(UsdCredit(u), VibesPrice(vibes))
    /\ balance' = Moved(Moved(balance, UsdCredit(u), UsdRevenue, VibesPrice(vibes)),
                        FxBits, VibesCredit(u), vibes)
    /\ UNCHANGED <<intents, topups, holds, settlements, due, now>>

Tick ==
    /\ now < MaxTime
    /\ now' = now + 1
    /\ UNCHANGED <<balance, intents, topups, holds, settlements, due>>

----------------------------------------------------------------------------
TopupNext ==
    \/ \E i \in Intents :
         \/ \E o \in Owners, p \in Providers, amount \in TopupCents : StartTopup(i, o, p, amount)
         \/ FailTopup(i)
    \/ \E r \in Receipts, i \in Intents, p \in Providers, paid \in PaidCents : SettleTopup(r, i, p, paid)

ReversalNext ==
    \E r \in Receipts, mode \in {"cumulative", "cents", "rest"}, n \in PaidCents : ReverseTopup(r, mode, n)

HoldNext ==
    \E h \in Holds :
        \/ \E a \in HoldAccounts, max \in Amounts : CreateHold(h, a, max)
        \/ \E add \in Amounts : ExtendHold(h, add)
        \/ \E charge \in Charges : SettleHold(h, charge)
        \/ ReleaseHold(h)

SweepNext == SweepRead \/ \E h \in Holds : SweepExpire(h)

SpendNext ==
    \/ \E u \in People, p \in Projects, n \in Amounts : Transfer(u, p, n)
    \/ \E u \in People, vibes \in VibesAmounts : BuyVibes(u, vibes)

Next ==
    \/ TopupNext
    \/ ReversalNext
    \/ HoldNext
    \/ SweepNext
    \/ SpendNext
    \/ \E o \in Owners, n \in Amounts : SandboxGrant(o, n)
    \/ Tick

Spec == Init /\ [][Next]_vars

\* The sweeper's timer keeps firing, a pass it started finishes, time goes on;
\* nothing is assumed of the services that hold and settle.
Fairness == WF_vars(SweepRead) /\ WF_vars(Tick) /\ \A h \in Holds : WF_vars(SweepExpire(h))
FairSpec == Spec /\ Fairness

----------------------------------------------------------------------------
(* What the Balance promises.                                              *)

SumOver(f, S) == SumFunctionOnSet(f, S)

\* The dollar journal sums to zero after every step, rounding, fees, debts and
\* all, and sandbox credit stays in books of its own (docs/balance.md, "The
\* journal balances", "Sandbox Balance never pays for real supply").
JournalBalanced ==
    LET sandbox == {Sandbox(o) : o \in Owners} \cup {SandboxIssuer}
    IN  /\ SumOver(balance, sandbox) = 0
        /\ SumOver(balance, NanoAccounts \ sandbox) = 0

Clawed(a) ==
    LET of == {r \in Receipts : topups[r] # NoRow /\ UsdCredit(topups[r].owner) = a}
    IN  SumOver([r \in of |-> topups[r].clawed], of)

\* Holds outrun the balance they reserve only where a refunded top-up took the
\* money from under them, and by no more than it took: no order of holds,
\* extensions, settlements beyond the hold, sweeps, transfers and Vibes purchases
\* promises the same money twice (docs/balance.md, "No overspend").
OverspendIsClawback == \A a \in HoldAccounts : Available(a) >= -Clawed(a)

\* A hold is charged by one settlement or not at all: never after its release or
\* its expiry, never released once charged (credits.js, TERMINAL_STATUSES).
ChargedOnce ==
    \A h \in Holds :
        /\ (settlements[h] # NoRow) = (holds[h].status = "settled")
        /\ ~Open(h) /\ holds[h] # NoRow => holds[h].held = 0

\* However a refund is cut, what was taken back and what is owed are together
\* the share of the top-up the refunded cents bought; never more than was paid
\* is refunded, and a full refund revokes exactly the amount credited
\* (reversals.js, creditPart; docs/balance.md, "never written off silently").
TopupAddsUp ==
    \A r \in Receipts :
        topups[r] # NoRow =>
            LET t == topups[r]
            IN  /\ t.refunded =< t.paid
                /\ t.clawed + t.debt = (t.nano * t.refunded) \div t.paid

\* An intent is credited once: a second payment credits nothing until the first
\* is wholly reversed (topups.js; docs/balance.md, "Once").
TopupOnce ==
    \A r, s \in Receipts :
        r # s /\ topups[r] # NoRow /\ topups[s] # NoRow /\ topups[r].intent = topups[s].intent
            => topups[r].refunded = topups[r].paid \/ topups[s].refunded = topups[s].paid

\* A forgotten hold does not keep money for ever: once its service stops renewing
\* the lease, an open hold is in the end settled, released or expired, extended
\* before or not (credits.js, sweepExpired; docs/balance.md, the lease sweeper).
HoldsEnd ==
    \A h \in Holds, t \in 0..MaxTime :
        LET openUntil == Open(h) /\ holds[h].lease = t
        IN  openUntil ~> ~openUntil

----------------------------------------------------------------------------
(* The Balance seen as a set of pockets (BalancePockets).                  *)

FreeMoney == [a \in HoldAccounts |-> Available(a)]
Reclaimed == [a \in HoldAccounts |-> Clawed(a)]
PotOf == [h \in Holds |-> IF holds[h] = NoRow THEN None ELSE holds[h].account]
Reserved == [h \in Holds |-> IF Open(h) THEN holds[h].held ELSE 0]
Phase == [h \in Holds |-> IF holds[h].status = "extended" THEN "active" ELSE holds[h].status]
Charged == [h \in Holds |-> IF settlements[h] = NoRow THEN 0 ELSE settlements[h].charge]
Unpaid == [h \in Holds |-> IF settlements[h] = NoRow THEN 0 ELSE settlements[h].shortfall]

Pockets ==
    INSTANCE BalancePockets WITH
        Pots <- HoldAccounts, free <- FreeMoney, reclaimed <- Reclaimed, pot <- PotOf,
        reserved <- Reserved, phase <- Phase, charged <- Charged, unpaid <- Unpaid

\* Every history is one of the pockets: a hold's money is its own until it is settled
\* or given back, unless a refund takes it, and usage is left uncollected only when
\* its account has nothing free (docs/balance.md, "No overspend", "No silent loss").
KeepsPockets == Pockets!Spec

\* The comment of settleHold (credits.js 348-350), "the balance never goes
\* negative", and docs/balance.md, "Holds plus charges never exceed the funded
\* balance, under any concurrency".
NeverBelowZero == \A a \in HoldAccounts : balance[a] >= 0

\* reconcile.js 10-11 (fx.mirror) and README.md: whatever moves bits through the
\* value account moves their value in cents with them.
FxMirror == balance[FxCents] = ValueCents(-balance[FxBits])

=============================================================================
