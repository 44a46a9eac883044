# A verification of OpenVibe.Billing

OpenVibe.Billing is the money service of OpenVibe: a double-entry ledger in
Postgres behind an HTTP API, with payment providers on one side and the
platform's sites on the other. This directory holds TLA+ models of its money
operations, the TLC configurations that check them on small instances, and
proofs, checked by TLAPS, of what holds for every instance. Paths are relative
to `src/`.

To check: `tlc -config VibesLedger.cfg MCVibesLedger.tla` (one configuration per
run, its module is named in PROJECT.json), `tlapm VibesLedgerProofs.tla`.

## 1. The system

| component | code | state | operations |
|---|---|---|---|
| ledger core | `server/ledger.js`, `db.js`, `ops/common.js`, `migrations/` | transactions, ledger entries, cached balances | `post`, `balance`, `requireFunds`; every operation below ends in one `post` |
| rates and price tiers | `server/rates.js`, `config.js` | none (settings) | bits to cents and back, prices by tier, shares, fees |
| purchases | `ops/intents.js`, `ops/purchases.js` | payment intents | create, fail, settle |
| transfers | `ops/transfers.js` | journal only | gift, refund of a gift, tip from a provider receipt |
| cashouts | `ops/cashouts.js` | cashouts | request (personal, project), approve, deny, recycle |
| reversals | `ops/reversals.js` | journal, intents, debts | refund or chargeback of any receipt, in parts |
| operator controls | `ops/admin.js` | `settings.freeze` | adjust, freeze |
| Balance | `ops/credits.js`, `topups.js`, `balance.js` | holds, settlements, top-up intents | top up, hold, extend, settle, release, sweep, transfer, buy Vibes, sandbox grant |
| provider events | `server/providers/`, `api/webhooks.js` | provider_events | store, process, retry, reprocess, drain after a freeze |
| external receipts | `ops/external.js` | external_receipts, accounts of creators | record, map an account |
| HTTP API | `api/v1.js`, `idempotency.js`, `me.js` | idempotency_keys | the steps around an operation |
| staff console | `server/console/` | sessions, staff_audit | sign in and out; decide, freeze, reprocess, reconcile under a session |
| subscriptions, tiers | `ops/subscriptions.js`, `tiers.js` | subscriptions, entitlements | pay, cancel, past due, revoke, sweep |
| Vibes Pay, its webhooks | `ops/vibes.js`, `vibes-webhooks.js` | charges, webhook rows | create, pay, refund, cancel, expire, deliver |
| metering | `ops/usage.js`, `rating.js`, `promo.js` | usage records, rate cards, budgets, allowances | record, load a card, rate, set a budget, grant, consume, lapse |
| Live importer | `server/importer/` | everything Live had; import holds | import, late import, accounts only |
| reconciliation | `server/reconcile.js` | none | read-only checks of all of the above |
| outbox, config store, policy and limits, account data, metrics | the files of their names | their own tables | see section 7 |

How they interact. Every money operation runs in `money(db, fn)`: one
serializable Postgres transaction, retried when it cannot be serialized, which
writes the journal entry, the component's rows and an outbox event together.
Components therefore meet in the ledger's accounts and in rows they share
(intents between purchases, top-ups and reversals; cashouts between API and
console), and not inside an operation. The interleavings are *around* the
transactions: what a handler read before its transaction (the freeze, a stored
answer, an event row, a list of holds that are due), what it does after it
(saving the answer), and the order in which transactions of different handlers
commit. A restart loses whatever is between two database calls and nothing that
was committed. `server/index.js` starts timers that do not wait for their
previous pass.

What is hard, and what makes each component correct:

- **Money by construction of rounding.** Refunds come in parts, as amounts or as
  running totals, and each part is rounded; the parts must add up
  (`ReversalsAddUp`, `TopupAddsUp`, `RefundsAddUp`), never exceed the payment
  (`ReversedWithinPaid`), never overdraw (`SpendableNonNegative`) and never book
  a gain (`ReversalNeverGains`); every transaction must still sum to zero and
  satisfy the service's own nightly checks (`Reconciles`, `JournalBalanced`).
  Prices are rounded up once per class (`PricesRoundUp`).
- **Laundering.** Bought credit may be spent but only gifts may be paid out, over
  any chain of gifts, recycling and refunds (`OnlyGiftsLeave`); test Vibes never
  become real ones (`PayInv`).
- **Decisions taken twice.** Approve against deny, API against console, settle
  against release against sweep, two payments of one intent, charge or period
  (`CashoutTrail`, `DecisionMovesMoney`, `KeepsPockets`, `IntentSettledOnce`,
  `TopupOnce`, `KeepsChargePromise`, `RenewedOnce`, `ChargesAddUp`).
- **Promising the same money twice.** Holds share an account with transfers,
  purchases and refunds (`KeepsPockets`, `OverspendIsClawback`); charges share a
  daily limit, usage a budget and an allowance (`DailyLimitKept`, `ChargesAddUp`,
  `PromoAddsUp`).
- **Rows read before they are acted on.** The renewal sweep (`RenewalWins`,
  `PeriodsInv`), the lease sweep (`KeepsPockets`), webhook passes (`EndedStays`),
  rating (`ChargesAddUp`), a staff session (`ConsoleInv`), the importer's snapshot
  (`LeavesAlone`), the freeze (`FrozenMovesNothing`, which is violated).
- **Deliveries.** Duplicated, reordered, failed, stored during a freeze, cut by a
  restart (`EventsInv`, `EventsSettlement`); the same for requests and their
  stored answers (`CallsInv`).
- **Two systems of record.** Until the cutover Live moves the money and Billing
  follows (`CarriedOver`, `CreditedOnceAnywhere`).
- **Things that must end.** A hold nobody renews (`HoldsEnd`), an event that
  failed (`EventuallyProcessed`), an overdue subscription (`OverdueSettled`), a
  webhook (`EveryRowEnds`), a reading that can be paid (`PaidWhenPossible`).

PROJECT.json lists each hazard at its line with the properties that cover it.

## 2. Modules

    Rates -- Ledger -- VibesLedger -- MCVibesLedger        CashoutPromise (abstract)
      |----- Balance -- MCBalance                          BalancePockets (abstract)
      `----- Subscriptions -- MCSubscriptions
    WebhookDelivery -- VibesPay -- MCVibesPay              ChargePromise (abstract)
    ProviderEvents, ApiRequests -- MCEdge
    Pricing -- Metering, LiveImport -- MCJobs
    StaffConsole -- MCConsole
    MoneyLemmas -- VibesLedgerProofs, BalanceProofs, SubscriptionsProofs,
      `----------- VibesPayProofs, EdgeProofs, JobsProofs
    ConsoleProofs

- **Rates**: `createRates` over integers. A tier's price is in hundredths of a
  cent per bit, so `PriceCents` and `BitsForPriceCents` are rounded divisions;
  the code's floating-point epsilon has no counterpart. `Round` is
  `Math.round`, ties upwards.
- **Ledger**: accounts are `<<kind, owner, currency>>`, entries a function from
  accounts to integers, `Post` is `post()`: a key already used is a replay that
  changes nothing, a receipt used under another key is refused, amounts beyond
  `MaxSafe` are refused. Balances are the cache `account_balances`.
- **VibesLedger**: one action per operation of purchases, transfers, cashouts,
  reversals and adjustments, each one step as the code's transaction is. The
  journal is kept as the set of transactions with their entries, so that
  properties can speak of history (which reversal of which receipt). The checks of
  `reconcile.js` are sets of offenders (`Unbalanced`, `FxBad`, `PendingBad`,
  `RcptBad`).
- **CashoutPromise**: what a creator is promised of a cashout: asked for once,
  then paid once or returned once, never changing its worth.
  VibesLedger implements it (`KeepsPromise`; the mapping reads cashout rows and
  the journal).
- **Balance**: top-ups, holds, settlements, sweeps, transfers and Vibes bought from
  a Balance. The sweeper is two actions because the code reads the due holds
  outside a transaction and updates them one at a time; `due` is what passes in
  flight have read. The nano-USD of `ops/credits.js` keep their ratio to the cent
  as `NanoPerCent`.
- **BalancePockets**: a pot's money is free or reserved by exactly one open hold;
  only that hold touches it; a provider may take back what it gave. Balance
  implements it (`KeepsPockets`), and `OverspendIsClawback` measures what taking
  back does to holds.
- **ProviderEvents**: a handler (webhook, timer, drain, operator) is between its
  database calls in one of the phases `pass`, `clear`, `begin`, `apply`; a plan
  is applied and its event marked in one step, as in the code. What a payload
  says is a constant of the event; the money is reduced to one transaction with
  the receipt reference. A handler that interprets a payload that cannot be
  interpreted leaves the event pending (`Poison`).
- **ApiRequests**: a call passes through freeze, stored answer, operation and
  saving of the answer; the console runs an operation in one step. Two shapes of
  operation are kept: one that moves value when its key is new, and the decision of
  a cashout, which looks at a status.
- **Subscriptions**: one row per pair of subscriber and streamer; payments and the
  periods they grant are two sequences of the same length, `reversed` the
  payments undone. A sweep is several steps, because the code is: it reads the due
  rows, and for each decides from what it read, chooses a renewal key
  (`renewalKey` looks for a payment already posted), pays, and on refusal writes
  past due or the end. A cancellation reads, asks the provider, then writes.
- **WebhookDelivery**: a pass reads due rows, claims one, reads the app's settings,
  posts, and writes the outcome, counting from what it read at first. Time is
  abstract: a row becomes due again when its delay ends (`BecomeDue`).
- **VibesPay**: a call that passed the freeze check waits in `calls`; its
  transaction is a later step, in which the charge, the movement and the queued
  webhook change together.
- **ChargePromise**: a charge is open, then paid once by one person and perhaps
  given back whole to that person, or closed; the app is told of each movement
  once, in order. VibesPay implements it (`KeepsChargePromise`).
- **Pricing**: `chargeFor` and `computeCharge`, rounding fractions up;
  `pickCard`. What it says of requests (`RequestsCeil`) is over the token counts
  and rates of its constants. **Metering**: readings, cards, allowances with their windows, budgets
  as their rows by window and which of them was written last (the policy), and
  sweeps. `Rate` is one serializable transaction and sees the
  freeze and the cards of its snapshot, because the writers of those two do not
  run at that isolation level; `NoteRefusal` is the second transaction.
- **LiveImport**: Live (external) with its columns, transactions, orders,
  subscriptions and connections; a run reads it and resolves users before its one
  transaction; Billing's own operations run after the cutover. Each account keeps
  apart what imports and what Billing booked.
- **StaffConsole**: each person's browser holds a flow cookie and a session
  cookie; an answer may be lost. A request is heard with its session checked and
  takes effect later; `visit` is what is in flight. The role kept in the session
  row can fail its later check only when a release changes the staff mapping,
  which is left out, as are forms that are stale or incomplete, which are only refused.

Operators marked *Variant* in a module are ways the code could be wrong; they
are used by no specification and serve to show that a property would notice
(PROJECT.json, `mutants`).

Several MC modules hold a variable `scope`, constant through a behaviour, that
says which actions and inputs the behaviour uses. One run then explores several
instances, each as large as the question needs, instead of their product; every
invariant is checked in all of them. Components that share no state (deliveries
and calls; rating and the import) are run side by side in this way and are not
claimed to interact.

Constants in every module carry a named assumption (`RatesAssumption`,
`VibesAssumption`, `BalanceAssumption`, ...), no stronger than what configuration
and database constraints guarantee. No module declares a RECURSIVE operator.

## 3. Runs

| run | asks | bounds |
|---|---|---|
| VibesTrails | `gifts`: purchases, gifts, recycling, two cashouts and their decisions; `receipts`: intents, purchases, tips, reversals by amount, running total or rest | 5 transactions, 2 users, escrow of one day; 4 transactions, payments of 1 or 3 cents at 1.25 and 1.50 cents a bit |
| VibesLedger | everything at once, projects and staff adjustments included, at 80 bits a dollar | 4 transactions, 2 users, 1 project |
| Balance | `holds`: two holds, the first real or sandbox and the second real, every interleaving with two-step sweeps, transfers and purchases; `refunds`: fees, overpayment, refunds in every cut around one hold; fair | one top-up of 3; 2 receipts of 1 intent |
| Edge | `payments`: two deliveries and a refund, two handlers, operator, a settlement by hand, a freeze; `tips`: two deliveries of a tip while its account is mapped, behind an event that never succeeds, with the timer; `calls`: a transfer and opposite decisions of one cashout, twice and at once, API and console; fair | passes of three events, 1 failure or restart, 1 reprocess at once; 2 calls, 4 transactions, 1 restart |
| SubPeriods | one membership: payments from credit at the default price and at one the caller names, and by receipt, cancellation, archiving of its tier, a refund, two sweeps | 2 days, periods and graces of one, prices of 2 and 3, credit of 4, 1 reversal |
| SubRenewals | renewals from credit and two sweeps; fair | 3 days, 1 reversal |
| VibesPay | `sales`: two apps, two people; `trials`: real and test charges around a freeze; `delivery`: one sale, two webhook rows, two passes; fair | 2 calls at once, charges of 2 under a limit of 3; 2 attempts, 1 restart |
| Jobs | `policies`, `cards`: two readings, two sweeps, budgets, allowances, cards in versions, freeze, restart; `money`, `subscriptions`, `accounts`: three imports, a cutover, Billing's own moves; fair | 1 day, 2 allowances; 4 rows and 1 order of Live, 2 users; prices for all token counts and rates around the rounding boundary |
| Console | `sign-in`: one person, two requests, roles, list and time changing, answers lost; `work`: two people doing everything a form may ask | 2 hours, escrow of one, session of two, 4 audit rows, 1 or 2 restarts |
| BalanceFxMirror, ApiKeyRace, VibesFreeze | a statement of the documentation each, and the behaviour of the code that contradicts it (section 6) | as Balance, Edge, VibesPay |

Each run takes between a quarter of a minute and three minutes.

Why the bounds are enough. The Vibes histories that matter are short: money in,
a gift, a request and a decision are four transactions, and a second decision
five; a receipt and three reversals of it are four. A tip reaches a payable in one,
so four transactions also hold two decisions of one cashout. Payments of 1 and 3
cents for 2 bits make every rounding in a reversal visible (shares of 1/3, one
bit at 1.25 cents). `holds` has two holds on one account with 3 nano-USD: two
extensions, or an extension and a settlement beyond the hold, compete for the last
unit. `payments` has as many handlers as roles that can touch one event at
once. VibesLedger's rate makes the mirror of bits meet values that are not whole
cents. SubPeriods holds a renewal, its refund and a second renewal of the same
end, which is where keys could collide, with one sweep that has read before each
of them. VibesPay's limit lets one charge pass and refuses the second, so
that two payments in flight compete for it. In Jobs a budget of 2 and an allowance
of 1 stand against readings that cost 1 to 3, so every refusal and every split
between allowance and credit happens; three imports are a shadow one, a last one
and a late one. Each property has a mutant of the code that the same run
refutes, so that no bound hides the case it is about.

Symmetry is used over keys, receipt references and sweeps where the run has no
liveness property. Clocks are bounded by `MaxTime`, `LastDay` or `LastHour`; in
Balance a guard keeps leases within it, so that no hold outlives the clock.
Deadlock is not checked where the bounded instance really stops, when keys, time
or restarts run out.

## 4. Fairness

`HoldsEnd` assumes that the sweeper's timer keeps firing and its passes finish,
and that time goes on (`server/index.js` starts the interval; nothing stops
it). It assumes nothing of the services that hold and settle: whoever forgets a
hold is exactly whom the sweeper is for. A hold that is extended for ever has no
promised end, so the property is about each value of its lease.

`EventuallyProcessed` assumes that the retry timer keeps starting passes, that a
started handler goes on, and that a freeze is lifted in the end for good. Weak
fairness suffices for each since nothing else takes the handler's step away.
Failures and restarts are bounded, not fair. Events that cannot be interpreted are
excluded from the promise, not from the run: they stand in the queue before
the others. The promise needs a pass to reach further than such events do: with
`Limit` = 2 an event that an operator reprocesses again and again, next to the one
that never succeeds, keeps a later one from being read. The code's limit is 500.

`OverdueSettled` assumes that sweeps start, go on and that days pass. The job
does nothing while the economy is frozen, so the promise is of an economy that is
open. `EveryRowEnds` assumes that passes start and go on and that a delay ends;
the receiver may answer as it likes. `PaidWhenPossible` assumes the same of
rating; it promises only that a reading does not stay payable and unpaid. Where a
scope of the Jobs run has one sweep, fairness is of that one.

No fairness is assumed of people, apps, providers, operators or the Network.

## 5. Proofs

TLAPS checks the following for every value of the constants under the named
assumptions of section 2, and for the specification with all its actions; the
scoped specifications of the MC modules take a subset of those.

| module | theorems (property) | from |
|---|---|---|
| VibesLedgerProofs | `TypeCorrect` (`TypeOK`), `NoOverdraft` (`SpendableNonNegative`), `NeverOverReversed` (`ReversedWithinPaid`), `PartialReversalsAddUp` (`ReversalsAddUp`) | `LedgerInv` |
| | `BooksReconcile` (`Reconciles`), `CashoutsTrail` (`CashoutTrail`), `IntentsSettleOnce` (`IntentSettledOnce`), `OnlyGiftsCashOut` (`OnlyGiftsLeave`), `NoGainFromReversal` (`ReversalNeverGains`), `CashoutPromiseKept` (`KeepsPromise`, a refinement) | `StoryInv` |
| BalanceProofs | `BalanceTypeCorrect` (`TypeOK`), `NoOverspend` (`OverspendIsClawback`), `HoldChargedOnce` (`ChargedOnce`), `TopupRefundsAddUp` (`TopupAddsUp`), `TopupCreditedOnce` (`TopupOnce`) | `BalanceInv` |
| | `DollarsBalance` (`JournalBalanced`), `PocketsKept` (`KeepsPockets`, a refinement) | `JournalInv` |
| VibesPayProofs | `TestVibesStayTest` (`PayInv`), `DailyLimitHolds` (`DailyLimitKept`), `EndedRowsStay` (`EndedStays`), `ChargePromiseKept` (`KeepsChargePromise`, a refinement) | `PayIInv` |
| EdgeProofs | `SettledOnceAndKept`, `ReceiptsExactlyOnce` (`EventsInv`), `SettledWhenPosted` (`EventsSettlement`), `SettledEventsStay` (`SettledStays`) | `EventsIInv`, `SettlementIInv` |
| | `OneAnswerPerKey` (`CallsInv`), `DecidedByItsMoney` (`DecisionMovesMoney`) | `CallsIInv` |
| SubscriptionsProofs | `PeriodsAgree` (`PeriodsInv`), `RenewedOnceOnly` (`RenewedOnce`), `PaidRenewalWins` (`RenewalWins`), `RefundsBalance` (`RefundsAddUp`) | `SubsIInv`, `MoneySound` |
| ConsoleProofs | `StaffAccountable` (`ConsoleInv`) | `ConsoleIInv` |
| JobsProofs | `LiveCarriedOver` (`CarriedOver`), `LiveCreditsOnce` (`CreditedOnceAnywhere`), `LaterRunsLeaveAlone` (`LeavesAlone`) | `ImportIInv` |
| | `EveryChargeAddsUp` (`ChargesAddUp`), `AllowancesAddUp` (`PromoAddsUp`) | `MeterIInv` |
| | `RequestsRoundUp`, `PricesNeverShort` (`PricesRoundUp`) | `MeterIInv` and the assumptions on Pricing's constants |

Every invariant and action property of the passing runs is stated by one of
these theorems. The invariants that `from` names are theorems too
(`LedgerInvariant`, `ImportInvariant`, ...).

*LedgerInv.* That a receipt is never reversed beyond its price speaks of sums
over the transactions that point at it. For the sum to grow by exactly what a
new reversal adds, transactions must have distinct keys (`KeysUnique`), a
receipt reference must name one (`ReceiptsUnique`), and no reversal may point at
a key that does not exist yet (`ReversalsKnown`): else a fresh purchase could be
born reversed. `JournalInv` is these three with `ReceiptsSound`, which says of
each receipt what its reversals add up to. The induction then needs two cases
for all operations: a posting that reverses nothing keeps every sum
(`PlainPosting`), one that does adds to one receipt (`ReversalPosting`); each
action shows it is one of them. `ReversalsAddUp` telescopes: the share up to
`done + cents` less the share up to `done`, so only monotonicity of `Round` is
needed.

*StoryInv* relates the journal to the rows, each conjunct one story. `BooksInv`:
each transaction sums to zero and its cents mirror its bits. `Backed`: the value
set aside, `FxCents`, follows what people hold; where a hundred is no multiple
of the rate the two drift apart by less than a bit for each transaction
(`Drift`, `Slack`), which is the tolerance of the nightly check. `RowsWorth`,
`PendingInv`: a cashout's cents are its bits' worth, and what is pending is the
sum of what is asked for. `TrailInv`: the journal's transactions about a cashout
are, in order, those its row tells of. `IntentInv`: a settled intent has one
payment in force. `GiftInv`: what a person can be paid is within what they were
given, a sum over the whole journal that every chain of operations must keep.

*BalanceInv.* `OverspendIsClawback` is inductive on top of types: the proof
follows one number per account, balance less what holds reserve plus what
refunds took (`Slack`), and shows that each operation either does not lower it
or was guarded by what is free. A refund lowers the balance and raises what was
taken by the same amount. `TopupOnce` needs `InForceSettled`: a top-up not
wholly refunded keeps its intent settled, which is what a second payment is
refused on. `JournalInv` adds that real and sandbox accounts each sum to zero,
for which a top-up may credit no more than was paid (`PaidCovers`): what a
refund revokes is covered by the cents that go back. `PocketsKept` maps each
action to one of BalancePockets or to a stutter.

*PayIInv* adds to `SandboxApart` and `DailyLimitKept` that a call in flight that
pays names a person (`CallsNamed`) and that a charge has a payer exactly from
its payment on (`PayersKnown`). The limit is then a sum over a part of the
charges to which one payment adds what its guard left room for; test Vibes are a
sum over the test accounts, which every operation moves within or not at all.
For deliveries, a claimed row has one pass working on it (`ClaimsApart`) and
what a pass read is not ahead of the row (`ReadsSound`).

*EventsIInv, SettlementIInv, CallsIInv.* A receipt has one transaction, posted
for an event of that receipt, never reversed beyond what was paid
(`JournalSound`); a processed payment is in the journal (`PaymentsIn`); a
handler at work has an event to work on (`QueuesBusy`). With one operator at
once an event about to be cleared had no effect (`ClearsSound`), so a row says
settled exactly when its money was posted (`EffectsSound`). `CallsSound` says of
every answer given, stored or about to be stored which transaction it names;
journals only grow, so it stays true.

*SubsIInv.* What makes `PeriodsInv` and `RenewedOnce` inductive against
overlapping sweeps is what the sweeps hold: the rows they read were due then and
still have a subscription (`DueRows`), and a key chosen by `renewalKey` comes
after keys that were all charged and undone (`Chosen`), as does every key
charged (`KeysSound`). Two charges of one end then differ in their key, and the
earlier one was undone. `MoneySound` is the books as sums over the payments that
stand.

*ConsoleIInv.* `StaffOnly` speaks of rows written after a request was heard, so
the invariant carries what is in flight: a request heard was of somebody listed,
in a session no row before it had ended (`VisitsHeard`); a session comes from a
sign-in row and is revoked once a row ends it (`SessionsOpened`,
`EndedRevoked`). For the log, the freeze is as the last row about it says
(`LastTurn`), and the requests that have had their effect and not yet their row,
with the rows, are no more than the reprocessings (`ReprocessRows`).

*ImportIInv* says what the last run left, in terms of the snapshot it read. Rows
of Live are never removed, so what was replayed is in every snapshot since, and of
the last snapshot everything was replayed (`SnapshotsSound`). Cashouts and holds
are whose they should be by whom that run knew (`CashoutsSound`, `HoldsSound`), its
orders' ends were followed, and from the cutover on Live's orders stand still
(`OrdersFollowed`, `OrdersStill`, `SettledHere`); this is why a late run cannot
settle an order twice. The accounts of whoever was shown stand at Live's columns
(`OpeningsSound`), which a release of a hold keeps because it moves the whole hold.
The bits in escrow are a sum over requested cashouts; a release moves a hold's
cashouts together with their bits. `LaterRunsLeaveAlone` then shows step by step
that a run over the same snapshot finds nothing left to do.

*MeterIInv.* A reading that is not rated costs nothing and is under no budget's
window; a rated one costs what the card it names asks (`ReadingSound`). Each
person's credit is what they had less what their readings charged (`MoneyTaken`),
and the promo account is within what the windows have left, short of it by at most
what was taken by hand (`Pocket`): the lapse of ended windows takes the lesser of
the two, so neither side passes the other. A draw takes windows in an order and
each gives what the ones before it left wanting; that this sums to at most what is
wanted, and to all of it where there is enough, is an induction on that order. A
window counts what was charged under it (`BudgetsSound`), and no reading is under a
window without a row: a row written later starts at what was spent, zero.

*Lemmas.* MoneyLemmas proves, of the community module's `SumFunctionOnSet`, that
its value depends on the summands only, can be split at any element or any
subset, is additive, and is natural or bounded where the summands are; and
monotonicity and bounds of the rounded divisions. It extends Rates for the
latter, so every theorem above but those on the console also carries
`RatesAssumption`, about constants that some of them do not mention.

*Hypotheses.* Six theorems assume something of the constants beyond the modules'
assumptions, and each is needed:

- `NoGainFromReversal` is of a hundred bits to the dollar, the default rate
  (`config.js:110`), which the run takes too.
- `CashoutPromiseKept` is of adjustments that leave the clearing accounts of payouts
  alone; `ops/admin.js` would let an operator debit those.
- `DecidedByItsMoney` is of keys used for one request each. Without it the code
  fails (ApiKeyRace, section 6).
- `ReceiptsExactlyOnce` is of a tip to the streamer's own account and a payment to
  the platform that never share a receipt reference; providers number them apart.
- `SettledWhenPosted` and `SettledEventsStay` are of one operator reprocessing at a
  time, as the run is. With two the code fails (`SettledStays`, section 6).

Only model-checked: liveness (`HoldsEnd`, `EventuallyProcessed`, `OverdueSettled`,
`EveryRowEnds`, `PaidWhenPossible`), since fairness and ENABLED are out of the
provers' reach. What a function defined over all sequences or finite sets computes
is out of it too, since the installed provers cannot apply induction rules that
take an operator; the sums above get by on an induction over a set of numbers.
Neither TLC nor the proofs speak of what section 7 lists.

## 6. Where code and documentation disagree

Each of these has a run that TLC shows violated:

- **BalanceFxMirror**: each transaction's cents mirror its bits in the value
  account (`reconcile.js:10-11`). Vibes bought from a Balance post no cents
  entry, so the check reports the ledger as broken.
- **ApiKeyRace**: "The same key with a different request is refused"
  (`idempotency.js:9-10`). Two approvals of different cashouts sent at once with
  one key: the second is answered with the first's transaction and its cashout
  is marked paid though its Vibes stay in `payouts_pending`.
- **VibesFreeze**: "the economy freeze [is] checked inside the money transaction"
  (README.md:118-119). `payCharge` looks before it begins (`ops/vibes.js:260`), so
  a payment in flight moves Vibes after the freeze. The Balance looks before
  its transactions too (`credits.js:203`, `balance.js:88`); rating and the console
  look inside theirs.

These are definitions in the modules that the code violates too. To see the
behaviour, put the definition in place of the properties of the configuration named:

| definition | configuration | statement, and what the code does |
|---|---|---|
| `NeverBelowZero` | Balance | "the balance never goes negative" (`ops/credits.js:348-350`, `docs/balance.md:59`): a refunded top-up takes money from under a hold (`reversals.js:83`); settling within the hold then posts a negative balance (`credits.js:351`) |
| `SettledStays` | Edge, with `MaxReprocess = 2` | "settled events never re-apply" (`providers/index.js:135`): two operators reprocess one rejected event; the second clears it (`:145`, no condition) after the first settled it, and its effect becomes `duplicate_receipt`. No money moves twice |
| `LimitCountsRealOnly` | VibesPay | sandbox payments "never count toward the real daily limit" (`docs/vibes-pay.md:109-110`): `spentToday` sums them too (`ops/vibes.js:250-251`) |
| `EndedNeverCharged` | SubPeriods | "Canceled and expired subscriptions are never charged" (`ops/subscriptions.js:317`): a sweep that read the row before it was cancelled pays its renewal, and the payment makes it active again |
| `WaitsOnlyWithoutCard` | Jobs | "the loader makes them due again" (README.md:199): a rating whose snapshot is older than the load marks the reading after the loader looked, and it waits for another card |
| `NativeKept` | Jobs | "opening balances only ever correct the imported part of an account, never what Billing did itself" (README.md:499-500): a hold is released whole and booked as imported (`importer/live.js:297-303`), so the opening balance takes away what Billing had put on it |
| `ReprocessAudited` | Console | "every staff action ... is one row ... in the same transaction as their effect" (README.md:334-342): reprocessing commits, then its row, then its event (`console/index.js:319-320`); a restart between leaves no row |

Seen while modelling, without a definition of their own:

- A hold renewed between the lease sweep's read and its update expires all the
  same (`credits.js:432`).
- Ends decided on `cancel_at_period_end`, on `auto_renew` and on the grace of a
  Stripe subscription pass no `periodEnd` to `setStatus` (`subscriptions.js:330`,
  `:334`), so those can end a subscription renewed by hand since the sweep read
  it; `RenewalWins` holds of the others. The sweep also pays the price it read.
- Overlapping webhook passes count from the attempts they read, so a receiver can
  be posted to more than eight times (`vibes-webhooks.js:14`); `docs/vibes-pay.md:93`
  lists a last delay of six hours that no attempt is ever given.
- The freeze and the rate cards are written outside serializable transactions
  (`admin.js:21-23`, `rating.js` `loadCards`), so a money transaction that began
  before a freeze may commit after it.
- A cashout Live decided between a shadow import and the last one stays
  `requested` in Billing (`importer/live.js:39-42`), where it can be decided again.
  A later run sets an imported subscription back to Live's period though Billing
  renewed it.

## 7. Not modelled, and why

- **Serialization failures**: a `money()` transaction is one step. That Postgres
  serializes and the SDK retries is taken from the database.
- **Adapters** (`providers/stripe.js` and its siblings): signature checks and
  parsing of the providers' formats. What a payload says is an input.
- **Outbox delivery**: `enqueue` writes a row in the transaction; delivery is the
  SDK's.
- **Policy, tokens, rate limits**: who may call the API. Every caller is taken
  as allowed, which only adds behaviours. The console's sessions are modelled; that
  its signatures and tokens cannot be guessed is assumed.
- **Config store, account data, activity, stats, metrics, views, listings**:
  settings and reports; they change no money state.
- **Reconciliation**: what a check compares is modelled where the state is; the
  balances cache, stale receipts, warnings, totals, and storing and pruning runs
  are not.
- **Importer**: rows without a sender, ids without a user row, a Billing-native
  subscription of an imported pair, fractional balances, duplicate provider
  references and route markers.
- **Subscriptions** see no freeze and no second creator; a checkout's terms are
  constants of its receipt.
- **Webhook timing**: a post times out (10 s) long before its claim ends (120 s),
  so a row claimed by a pass that still runs is not taken by another. Signing and
  the egress guard are I/O.
- **Start-up and shutdown**: a restart loses what is between two database calls;
  draining of requests at shutdown only removes such losses.

## 8. Plan

Built so far, in this order: Rates, Ledger, VibesLedger with CashoutPromise;
Balance with BalancePockets; ProviderEvents; ApiRequests; Subscriptions;
WebhookDelivery and VibesPay with ChargePromise; Pricing and Metering; LiveImport;
StaffConsole; then the proofs of section 5.

All safety properties of the passing runs are theorems. What could follow:

1. Promises of the documentation that the code breaks (section 6), as theorems
   under the conditions that make them hold: `NeverBelowZero` where no top-up is
   refunded, `EndedNeverCharged` where no sweep overlaps a cancellation.
2. Abstract specifications for the import and for subscriptions, in the manner of
   ChargePromise, with their refinements.
3. Shorter proofs: the longest are those of the import's run and of rating.
