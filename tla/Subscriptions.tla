--------------------------- MODULE Subscriptions ---------------------------
(***************************************************************************)
(* Creator subscriptions: periods paid from Vibes or by a provider, their  *)
(* entitlements, cancellation, the refund of single periods, and the       *)
(* renewal sweep with its grace (server/ops/{subscriptions,tiers}.js, the  *)
(* subscription branches of reversals.js).                                 *)
(*                                                                         *)
(* A money() transaction is one step.  What the code reads before one is   *)
(* a step of its own: the sweep reads the due rows once and then handles   *)
(* them one by one, choosing a renewal key before it pays; a cancellation  *)
(* reads the row, asks the provider and then writes.  Two sweeps overlap   *)
(* (the hourly job, POST /sweep).  A request repeated with its key is      *)
(* answered without a change, so only new requests are steps.              *)
(***************************************************************************)
EXTENDS Rates, Functions, Sequences

CONSTANTS
    Pairs,            \* <<subscriber, streamer>> that may subscribe
    Tiers,            \* tier numbers
    TierChanges,      \* <<streamer, tier, price in cents, status>> a creator may set
    NamedPrices,      \* prices in cents a caller may name
    Renewing,         \* what a caller may say of auto_renew: "yes", "no", "unsaid"
    DefaultPrice,     \* rates.subPriceCents
    Receipts,         \* receipt references of providers
    Says,             \* receipt -> what its checkout and payment say
    Sweeps,           \* sweeps that may run at once
    None,
    Period, Grace, StripeGrace,  \* days
    Funds,            \* bits of credit a subscriber starts with
    MaxReversals,     \* bound: payments reversed
    MaxTime           \* bound: the clock, in days, stops here

Subscribers == {p[1] : p \in Pairs}
Streamers == {p[2] : p \in Pairs}

\* A renewal's key names the period end it renews and how often that was undone.
RenewalKeys == [pair : Pairs, end : Nat, again : Nat]

ASSUME SubscriptionsAssumption ==
    /\ \A p \in Pairs : p = <<p[1], p[2]>> /\ p[1] # p[2]
    /\ 1 \in Tiers /\ Tiers \subseteq Nat \ {0}
    /\ NamedPrices \subseteq Nat \ {0} /\ DefaultPrice \in Nat \ {0}
    /\ TierChanges \subseteq Streamers \X Tiers \X (Nat \ {0}) \X {"active", "archived"}
    /\ Renewing \subseteq {"yes", "no", "unsaid"}
    /\ Says \in [Receipts -> [pair : Pairs, provider : {"stripe", "paypal"}, direct : BOOLEAN,
                              paid : Nat, fee : Nat, tier : Tiers, price : Nat, end : Nat]]
    /\ Period \in Nat \ {0} /\ Grace \in Nat /\ StripeGrace \in Nat
    /\ Funds \in Nat /\ MaxReversals \in Nat /\ MaxTime \in Nat
    /\ None \notin Nat /\ None \notin Pairs /\ None \notin Receipts /\ None \notin RenewalKeys
    /\ IsFiniteSet(Pairs)

VARIABLES
    tiers,       \* subscription_tiers rows
    subs,        \* subscriptions rows, one per pair
    payments,    \* transactions of type subscription, in the order posted
    periods,     \* the entitlement each of them granted
    reversed,    \* payments a refund or a chargeback reverses
    balance,     \* account_balances, in bits
    canceling,   \* cancellations between their read and their write
    sweep,       \* where each sweep is
    now

vars == <<tiers, subs, payments, periods, reversed, balance, canceling, sweep, now>>

Credit(u) == <<"user_credit", u>>
Payable(s) == <<"creator_payable", s>>
Pending(s) == <<"payouts_pending", s>>
Revenue == <<"platform_revenue", None>>
Fx == <<"fx_conversion", None>>
Accounts == {Credit(u) : u \in Subscribers} \cup {Payable(s) : s \in Streamers}
                \cup {Pending(s) : s \in Streamers} \cup {Revenue, Fx}

NoRow == [status |-> "none"]
SubRow == [status : {"active", "past_due", "canceled", "expired"}, auto : BOOLEAN, cancel : BOOLEAN,
           provider : {"credit", "stripe", "paypal"}, tier : Tiers, price : Nat, end : Nat,
           graceUntil : Nat \cup {None}]
TierRow == [status : {"active", "archived"}, price : Nat]

Payment == [pair : Pairs, key : RenewalKeys \cup {None}, receipt : Receipts \cup {None},
            cost : Nat, share : Nat]
PeriodRow == [start : Nat, end : Nat, revoked : BOOLEAN]

Row == [pair : Pairs, sub : SubRow]      \* a row as a sweep read it
SweepState ==
    [phase : {"idle", "rows"}, rows : SUBSET Row, at : Nat]
        \cup [phase : {"charge", "refused"}, rows : SUBSET Row, at : Nat, row : Row, key : RenewalKeys]
Idle == [phase |-> "idle", rows |-> {}, at |-> 0]

TypeOK ==
    /\ tiers \in [Streamers \X Tiers -> TierRow \cup {NoRow}]
    /\ subs \in [Pairs -> SubRow \cup {NoRow}]
    /\ payments \in Seq(Payment) /\ periods \in Seq(PeriodRow)
    /\ Len(periods) = Len(payments)
    /\ reversed \subseteq DOMAIN payments
    /\ balance \in [Accounts -> Int]
    /\ canceling \subseteq [pair : Pairs, provider : {"credit", "stripe", "paypal"}]
    /\ sweep \in [Sweeps -> SweepState]
    /\ now \in Nat

Init ==
    /\ tiers = [t \in Streamers \X Tiers |-> NoRow]
    /\ subs = [p \in Pairs |-> NoRow]
    /\ payments = <<>> /\ periods = <<>> /\ reversed = {}
    /\ balance = [a \in Accounts |-> IF \E u \in Subscribers : a = Credit(u) THEN Funds ELSE 0]
    /\ canceling = {}
    /\ sweep = [w \in Sweeps |-> Idle]
    /\ now = 0

----------------------------------------------------------------------------
(* Tiers (tiers.js).                                                       *)

SetTier(s, t, price, status) ==
    /\ tiers' = [tiers EXCEPT ![<<s, t>>] = [status |-> status, price |-> price]]
    /\ UNCHANGED <<subs, payments, periods, reversed, balance, canceling, sweep, now>>

\* priceFor(): what a new subscription costs, if the tier is for sale.
ForSale(s, t) == IF tiers[<<s, t>>] = NoRow THEN t = 1 ELSE tiers[<<s, t>>].status = "active"
PriceFor(s, t) == IF tiers[<<s, t>>] = NoRow THEN DefaultPrice ELSE tiers[<<s, t>>].price

----------------------------------------------------------------------------
(* Paying one period (pay of subscriptions.js).                            *)

\* Variant: an early renewal starts at once.
StartNow(p) == now

\* A period begins now, or where the running one ends.
PeriodStart(p) == IF subs[p] # NoRow /\ subs[p].end > now THEN subs[p].end ELSE now

\* It lasts until the day the provider says, or the usual time.
PeriodEnd(p, given) ==
    IF given # 0 THEN AtLeast(given, PeriodStart(p) + 1) ELSE PeriodStart(p) + Period

AutoRenew(p, asked, source) ==
    CASE asked = "yes" -> TRUE [] asked = "no" -> FALSE
      [] OTHER -> IF subs[p] # NoRow THEN subs[p].auto ELSE source = "credit"

\* The transaction, the subscription's new state and the entitlement, together.
Grant(p, payment, row, given) ==
    /\ payments' = Append(payments, payment)
    /\ periods' = Append(periods, [start |-> PeriodStart(p), end |-> PeriodEnd(p, given), revoked |-> FALSE])
    /\ subs' = [subs EXCEPT ![p] =
         [status |-> "active", auto |-> row.auto, cancel |-> FALSE, provider |-> row.provider,
          tier |-> row.tier, price |-> row.price, end |-> PeriodEnd(p, given), graceUntil |-> None]]

Cost(price) == BitsForValueCents(price)

Share(price) == AtMost(Cost(price), SubShareBits(price))
Affords(p, price) == balance[Credit(p[1])] >= Cost(price)

PayFromCredit(p, key, tier, price, auto) ==
    /\ Affords(p, price)
    /\ Grant(p, [pair |-> p, key |-> key, receipt |-> None, cost |-> Cost(price), share |-> Share(price)],
             [auto |-> auto, provider |-> "credit", tier |-> tier, price |-> price], 0)
    /\ balance' = [balance EXCEPT ![Credit(p[1])] = @ - Cost(price), ![Payable(p[2])] = @ + Share(price),
                                  ![Revenue] = @ + (Cost(price) - Share(price))]
    /\ UNCHANGED <<tiers, reversed, canceling, now>>

Running(p) == subs[p] # NoRow /\ subs[p].status \in {"active", "past_due"} /\ subs[p].end > now
CurrentTier(p) == IF subs[p] = NoRow THEN 1 ELSE subs[p].tier

\* A tier is priced here, and not changed while a paid period runs.
Subscribe(p, tier, asked) ==
    /\ Running(p) => subs[p].tier = tier
    /\ ForSale(p[2], tier)
    /\ PayFromCredit(p, None, tier, PriceFor(p[2], tier), AutoRenew(p, asked, "credit"))
    /\ UNCHANGED sweep

\* The caller names a price and no tier.
SubscribeAt(p, price, asked) ==
    /\ PayFromCredit(p, None, CurrentTier(p), price, AutoRenew(p, asked, "credit"))
    /\ UNCHANGED sweep

\* A provider's payment is never refused; one receipt pays one period.  Paid
\* straight to the streamer's own account it moves nothing here.
SettleReceipt(r) ==
    LET says == Says[r]
        p == says.pair
        price == CASE says.price > 0 -> says.price
                   [] says.price = 0 /\ subs[p] # NoRow /\ CurrentTier(p) = says.tier -> subs[p].price
                   [] OTHER -> DefaultPrice
        share == IF says.direct THEN 0 ELSE SubShareBits(AtLeast(0, says.paid - says.fee))
    IN  /\ \A i \in DOMAIN payments : payments[i].receipt # r
        /\ Grant(p, [pair |-> p, key |-> None, receipt |-> r, cost |-> 0, share |-> share],
                 [auto |-> AutoRenew(p, "unsaid", "receipt"), provider |-> says.provider,
                  tier |-> says.tier, price |-> price], says.end)
        /\ balance' = [balance EXCEPT ![Fx] = @ - share, ![Payable(p[2])] = @ + share]
        /\ UNCHANGED <<tiers, reversed, canceling, sweep, now>>

----------------------------------------------------------------------------
(* Cancelling: the row is read, Stripe is asked, the row is written.       *)

CancelRead(p) ==
    /\ subs[p] # NoRow /\ subs[p].status \in {"active", "past_due"}
    /\ canceling' = canceling \cup {[pair |-> p, provider |-> subs[p].provider]}
    /\ UNCHANGED <<tiers, subs, payments, periods, reversed, balance, sweep, now>>

\* Stripe refuses, or its adapter is off.
CancelRefused(c) ==
    /\ c.provider = "stripe"
    /\ canceling' = canceling \ {c}
    /\ UNCHANGED <<tiers, subs, payments, periods, reversed, balance, sweep, now>>

CancelWrite(c) ==
    /\ canceling' = canceling \ {c}
    /\ subs' = [subs EXCEPT ![c.pair] = [@ EXCEPT !.cancel = TRUE, !.auto = FALSE]]
    /\ UNCHANGED <<tiers, payments, periods, reversed, balance, sweep, now>>

----------------------------------------------------------------------------
(* Reversing a payment (reversals.js) revokes the period it granted.       *)

Granted(p, rows) == {i \in DOMAIN rows : payments[i].pair = p /\ ~rows[i].revoked}

\* The subscription ends where its latest period left ends, else now.
LastEnd(p, end) ==
    LET left == Granted(p, periods')
    IN  IF left = {} THEN end = now
        ELSE (\E i \in left : periods'[i].end = end) /\ \A i \in left : periods'[i].end =< end

\* revokeForTxn(): nothing the second time, for one receipt refunded in parts.
Revoke(i) ==
    LET p == payments[i].pair
    IN  /\ periods' = [periods EXCEPT ![i].revoked = TRUE]
        /\ \E end \in {periods[j].end : j \in DOMAIN periods} \cup {now} :
             /\ LastEnd(p, end)
             /\ subs' = [subs EXCEPT ![p] =
                  [@ EXCEPT !.end = end, !.status = IF end > now THEN subs[p].status ELSE "expired",
                            !.auto = end > now /\ subs[p].auto]]

\* Variant: the creator's whole share comes back, held or not.
WholeShare(i) == payments[i].share

\* The creator's share, as far as the payable still holds it.
Clawed(i) == AtLeast(0, AtMost(balance[Payable(payments[i].pair[2])], payments[i].share))

\* refundCreditPeriod(): the whole price goes back; a share already moved on is the
\* platform's loss.
RefundCreditPeriod(i) ==
    /\ payments[i].receipt = None /\ i \notin reversed /\ Cardinality(reversed) < MaxReversals
    /\ reversed' = reversed \cup {i}
    /\ LET t == payments[i]
       IN  balance' = [balance EXCEPT ![Credit(t.pair[1])] = @ + t.cost,
                                      ![Revenue] = @ - (t.cost - t.share),
                                      ![Payable(t.pair[2])] = @ - Clawed(i),
                                      ![Fx] = @ - (t.share - Clawed(i))]
    /\ Revoke(i)
    /\ UNCHANGED <<tiers, payments, canceling, sweep, now>>

\* reverseReceipt(), subscription branch: the creator keeps the share.  Its first
\* part revokes the period; the cents of it are VibesLedger's.
ReverseReceipt(i) ==
    /\ payments[i].receipt # None /\ i \notin reversed /\ Cardinality(reversed) < MaxReversals
    /\ reversed' = reversed \cup {i}
    /\ Revoke(i)
    /\ UNCHANGED <<tiers, payments, balance, canceling, sweep, now>>

\* The creator cashes the earnings out (cashouts.js).
CashOut(s) ==
    /\ balance[Payable(s)] > 0
    /\ balance' = [balance EXCEPT ![Payable(s)] = 0, ![Pending(s)] = @ + balance[Payable(s)]]
    /\ UNCHANGED <<tiers, subs, payments, periods, reversed, canceling, sweep, now>>

----------------------------------------------------------------------------
(* The renewal sweep.                                                      *)

\* Variant: the update does not look at the period it was decided on.
EndAnyPeriod(p, status, decidedOn) == subs[p].status # status

\* With the period end it was decided on, an ending spares a renewal paid since.
MayEnd(p, status, decidedOn) ==
    subs[p].status # status /\ (decidedOn = None \/ subs[p].end = decidedOn)

\* setStatus(): its re-read and guarded UPDATE as one step.
SetStatus(p, status, decidedOn) ==
    subs' = IF MayEnd(p, status, decidedOn)
            THEN [subs EXCEPT ![p] = [@ EXCEPT !.status = status, !.auto = FALSE, !.graceUntil = None]]
            ELSE subs

\* Variant: past_due is not read again.
ActiveOnly(p) == subs[p] # NoRow /\ subs[p].status = "active" /\ subs[p].end =< now

Due(p) == subs[p] # NoRow /\ subs[p].status \in {"active", "past_due"} /\ subs[p].end =< now

SweepRead(w) ==
    /\ sweep[w] = Idle
    /\ LET due == {p \in Pairs : Due(p)}
       IN  /\ due # {}
           /\ sweep' = [sweep EXCEPT ![w] =
                [phase |-> "rows", rows |-> {[pair |-> p, sub |-> subs[p]] : p \in due}, at |-> now]]
    /\ UNCHANGED <<tiers, subs, payments, periods, reversed, balance, canceling, now>>

\* The earliest end first.
NextRow(w, row) ==
    /\ sweep[w].phase = "rows"
    /\ row \in sweep[w].rows
    /\ \A o \in sweep[w].rows : row.sub.end =< o.sub.end

\* The sweep goes on after `row'.
After(w, row) ==
    LET rows == sweep[w].rows \ {row}
    IN  sweep' = [sweep EXCEPT ![w] =
          IF rows = {} THEN Idle ELSE [phase |-> "rows", rows |-> rows, at |-> @.at]]

GraceOver(w, row) ==
    /\ row.sub.status = "past_due"
    /\ row.sub.graceUntil = None \/ sweep[w].at >= row.sub.graceUntil

Renewable(row) == row.sub.provider # "stripe" /\ ~row.sub.cancel /\ row.sub.auto

\* Rows that are not renewed: Stripe's own after its grace, those cancelled or not
\* to renew (none of these looks at the period it was decided on), and those whose
\* grace is over.
SweepEnd(w) ==
    \E row \in sweep[w].rows :
        /\ NextRow(w, row)
        /\ \/ /\ row.sub.provider = "stripe"
              /\ IF sweep[w].at - row.sub.end < StripeGrace THEN UNCHANGED subs
                 ELSE SetStatus(row.pair, "expired", None)
           \/ /\ row.sub.provider # "stripe" /\ ~Renewable(row)
              /\ SetStatus(row.pair, IF row.sub.cancel THEN "canceled" ELSE "expired", None)
           \/ /\ Renewable(row) /\ GraceOver(w, row)
              /\ SetStatus(row.pair, "expired", row.sub.end)
        /\ After(w, row)
        /\ UNCHANGED <<tiers, payments, periods, reversed, balance, canceling, now>>

Posted(key) == {i \in DOMAIN payments : payments[i].key = key}

\* Variant: the first key free, whether the charge under the others stands or not.
FreeKey(p, end, again) ==
    LET key(n) == [pair |-> p, end |-> end, again |-> n]
    IN  Posted(key(again)) = {} /\ \A n \in 0..again - 1 : Posted(key(n)) # {}

\* renewalKey(): the first key that is free or whose charge was not reversed.
RenewalKey(p, end, again) ==
    LET key(n) == [pair |-> p, end |-> end, again |-> n]
    IN  /\ Posted(key(again)) \cap reversed = {}
        /\ \A n \in 0..again - 1 : Posted(key(n)) \cap reversed # {}

SweepKey(w) ==
    /\ \E row \in sweep[w].rows, again \in 0..Len(payments) :
         /\ NextRow(w, row)
         /\ Renewable(row) /\ ~GraceOver(w, row)
         /\ RenewalKey(row.pair, row.sub.end, again)
         /\ sweep' = [sweep EXCEPT ![w] =
              [phase |-> "charge", rows |-> @.rows, at |-> @.at, row |-> row,
               key |-> [pair |-> row.pair, end |-> row.sub.end, again |-> again]]]
    /\ UNCHANGED <<tiers, subs, payments, periods, reversed, balance, canceling, now>>

\* The renewal keeps the price read with the row.  A key already posted is a replay.
SweepCharge(w) ==
    /\ sweep[w].phase = "charge"
    /\ LET row == sweep[w].row
           p == row.pair
       IN  \/ /\ Posted(sweep[w].key) # {}
              /\ After(w, row)
              /\ UNCHANGED <<tiers, subs, payments, periods, reversed, balance, canceling, now>>
           \/ /\ Posted(sweep[w].key) = {}
              /\ PayFromCredit(p, sweep[w].key, CurrentTier(p), row.sub.price, TRUE)
              /\ After(w, row)
           \/ /\ Posted(sweep[w].key) = {} /\ ~Affords(p, row.sub.price)
              /\ sweep' = [sweep EXCEPT ![w].phase = "refused"]
              /\ UNCHANGED <<tiers, subs, payments, periods, reversed, balance, canceling, now>>

\* Past due until the grace ends, unless the row changed since the sweep read it.
MarkPastDue(p, row, until) ==
    subs' = IF subs[p].status = row.sub.status /\ subs[p].end = row.sub.end
            THEN [subs EXCEPT ![p] = [@ EXCEPT !.status = "past_due", !.graceUntil = until]] ELSE subs

SweepRefused(w) ==
    /\ sweep[w].phase = "refused"
    /\ LET row == sweep[w].row
           p == row.pair
           until == IF row.sub.graceUntil # None THEN row.sub.graceUntil ELSE row.sub.end + Grace
       IN  /\ IF Grace > 0 /\ sweep[w].at < until
              THEN MarkPastDue(p, row, until)
              ELSE SetStatus(p, "expired", row.sub.end)
           /\ After(w, row)
    /\ UNCHANGED <<tiers, payments, periods, reversed, balance, canceling, now>>

Tick ==
    /\ now < MaxTime
    /\ now' = now + 1
    /\ UNCHANGED <<tiers, subs, payments, periods, reversed, balance, canceling, sweep>>

----------------------------------------------------------------------------
PayNext ==
    \/ \E p \in Pairs, asked \in Renewing :
         \/ \E t \in Tiers : Subscribe(p, t, asked)
         \/ \E price \in NamedPrices : SubscribeAt(p, price, asked)
    \/ \E r \in Receipts : SettleReceipt(r)

CancelNext ==
    \/ \E p \in Pairs : CancelRead(p)
    \/ \E c \in canceling : CancelRefused(c) \/ CancelWrite(c)

ReversalNext ==
    \/ \E i \in DOMAIN payments : RefundCreditPeriod(i) \/ ReverseReceipt(i)
    \/ \E s \in Streamers : CashOut(s)

SweepStep(w) == SweepRead(w) \/ SweepEnd(w) \/ SweepKey(w) \/ SweepCharge(w) \/ SweepRefused(w)

Next ==
    \/ \E c \in TierChanges : SetTier(c[1], c[2], c[3], c[4])
    \/ PayNext
    \/ CancelNext
    \/ ReversalNext
    \/ \E w \in Sweeps : SweepStep(w)
    \/ Tick

Spec == Init /\ [][Next]_vars

\* The job's timer keeps firing, a sweep it started goes on, and so does time.
Fairness == WF_vars(Tick) /\ \A w \in Sweeps : WF_vars(SweepStep(w))
FairSpec == Spec /\ Fairness

----------------------------------------------------------------------------
(* What a subscription promises.                                           *)

\* Nobody pays twice for a day: the periods that stand never overlap, whatever the
\* order of early renewals, receipts, refunds of single periods and sweeps
\* (subscriptions.js 146-149, "at the end of a still-running period").
PeriodsDisjoint ==
    \A i, j \in DOMAIN periods :
        i < j /\ payments[i].pair = payments[j].pair /\ ~periods[i].revoked /\ ~periods[j].revoked
            => periods[i].end =< periods[j].start

\* A subscription runs until its last period that stands; while a renewal is past
\* due none of them runs (subscriptions.js 20-21 and 68, "the grace grants no access").
EndIsLastPeriod ==
    \A p \in Pairs :
        subs[p] # NoRow =>
            /\ \A i \in Granted(p, periods) : periods[i].end =< subs[p].end
            /\ subs[p].end > now => \E i \in Granted(p, periods) : periods[i].end = subs[p].end
            /\ subs[p].status = "past_due" => subs[p].end =< now

\* subscriptions.period_charged of reconcile.js: a period stands exactly while its
\* payment does.
PeriodBad == {i \in DOMAIN periods : periods[i].revoked # (i \in reversed)}

\* Subscription, entitlements and payments agree in every order of payments, refunds,
\* sweeps and cancellations.
PeriodsInv == TypeOK /\ PeriodsDisjoint /\ EndIsLastPeriod /\ PeriodBad = {}

\* However sweeps overlap and whatever is refunded between, one end is renewed by
\* one charge that stands, and one that was undone may be renewed again
\* (subscriptions.js 269-274, renewalKey).
RenewedOnce ==
    \A i, j \in DOMAIN payments \ reversed :
        i # j /\ payments[i].key # None /\ payments[j].key # None
            => <<payments[i].pair, payments[i].key.end>> # <<payments[j].pair, payments[j].key.end>>

SumOver(f, S) == SumFunctionOnSet(f, S)

\* A subscriber is out of exactly the prices of the periods that stand; the creator
\* has their shares and what was not clawed back of the refunded ones, which is the
\* platform's loss; the creator's balance is never negative (refundCreditPeriod).
RefundsAddUp ==
    /\ \A u \in Subscribers :
         LET kept == {i \in DOMAIN payments \ reversed : payments[i].pair[1] = u}
         IN  balance[Credit(u)] = Funds - SumOver([i \in kept |-> payments[i].cost], kept)
    /\ LET kept == {i \in DOMAIN payments \ reversed : payments[i].receipt = None}
       IN  balance[Revenue] = SumOver([i \in kept |-> payments[i].cost - payments[i].share], kept)
    /\ \A s \in Streamers : balance[Payable(s)] >= 0
    /\ SumOver(balance, Accounts) = Funds * Cardinality(Subscribers)

\* An ending decided on an unpaid renewal never ends a period paid since the sweep
\* read the row (setStatus, "a renewal paid meanwhile wins").
RenewalWins ==
    [][\A w \in Sweeps : \A row \in sweep[w].rows :
          row \notin sweep'[w].rows /\ Renewable(row) /\ subs'[row.pair].status = "expired"
            => subs[row.pair].status = "expired" \/ subs[row.pair].end =< now]_vars

\* Every subscription whose period and graces are over is renewed or ended: no row
\* stays due for ever behind refunds, cancellations and overlapping sweeps.
OverdueSettled ==
    \A p \in Pairs :
        LET overdue == /\ subs[p] # NoRow /\ subs[p].status \in {"active", "past_due"}
                       /\ subs[p].end + AtLeast(Grace, StripeGrace) =< now
        IN  overdue ~> ~overdue

\* subscriptions.js 317, "Canceled and expired subscriptions are never charged".
EndedNeverCharged ==
    [][\A i \in DOMAIN payments' \ DOMAIN payments :
          payments'[i].key # None
            => subs[payments'[i].pair].status \notin {"canceled", "expired"}]_vars

=============================================================================
