---------------------------- MODULE VibesLedger ----------------------------
(***************************************************************************)
(* The Vibes economy: buying credit, giving it away, recycling it, cashing *)
(* it out, and reversing the receipts it came from                         *)
(* (server/ops/{intents,purchases,transfers,cashouts,reversals,admin}.js). *)
(* Every operation is one serializable transaction, so one step.           *)
(***************************************************************************)
EXTENDS Ledger

CONSTANTS
    BitAmounts,      \* amounts of bits a request may name
    CentAmounts,     \* amounts of cents a provider may report
    Adjustable,      \* accounts a staff adjustment may name
    ProjectOwner,    \* project -> the user holding its owner role in Network
    MinCashoutBits,
    EscrowDays,
    MaxTime          \* bound: the clock, in days, stops here

ASSUME VibesAssumption ==
    /\ BitAmounts \subseteq Nat \ {0} /\ CentAmounts \subseteq Nat \ {0}
    /\ Adjustable \subseteq Accounts
    /\ ProjectOwner \in [Projects -> Users]
    /\ MinCashoutBits \in Nat /\ EscrowDays \in Nat /\ MaxTime \in Nat
    /\ IsFiniteSet(Users) /\ IsFiniteSet(Projects) /\ IsFiniteSet(Providers) /\ IsFiniteSet(Cashouts)
    /\ \A p \in Providers : <<p, "payouts">> \notin Providers
    /\ None \notin Users \cup Projects \cup Providers \cup Keys \cup Refs \cup Cashouts \cup Intents

VARIABLES
    intents,    \* payment_intents rows
    cashouts,   \* cashouts rows
    now         \* ctx.now(), in days

vars == <<txns, balance, intents, cashouts, now>>

NoIntent == [status |-> "none"]
IntentRow ==
    [status : {"created", "failed", "settled", "refunded"}, subject : Users,
     provider : Providers, bits : BitAmounts, amount : Nat, settledTxn : Keys \cup {None}]

NoCashout == [status |-> "none"]
CashoutRow ==
    [status : {"requested", "paid", "denied"}, subject : Users, project : Projects \cup {None},
     bits : BitAmounts, cents : Nat, escrowUntil : Nat,
     requestTxn : Keys, settleTxn : Keys \cup {None}, payoutRef : Refs \cup {None}]

TypeOK ==
    /\ txns \subseteq Txn
    /\ balance \in EntrySet
    /\ intents \in [Intents -> IntentRow \cup {NoIntent}]
    /\ cashouts \in [Cashouts -> CashoutRow \cup {NoCashout}]
    /\ now \in Nat

Init ==
    /\ LedgerInit
    /\ intents = [i \in Intents |-> NoIntent]
    /\ cashouts = [c \in Cashouts |-> NoCashout]
    /\ now = 0

----------------------------------------------------------------------------
(* Purchases (intents.js, purchases.js).                                   *)

CreateIntent(i, u, p, bits) ==
    /\ intents[i] = NoIntent
    /\ intents' = [intents EXCEPT ![i] =
         [status |-> "created", subject |-> u, provider |-> p, bits |-> bits,
          amount |-> PriceCents(bits), settledTxn |-> None]]
    /\ UNCHANGED <<txns, balance, cashouts, now>>

\* The provider refused the checkout session (api/v1.js, POST /intents).  Nobody
\* has the link of a checkout that failed to open, so none is paid before.
FailIntent(i) ==
    /\ intents[i].status = "created"
    /\ intents' = [intents EXCEPT ![i].status = "failed"]
    /\ UNCHANGED <<txns, balance, cashouts, now>>

\* Variant: an intent may be settled again.
IntentOfProvider(i, p) == intents[i] # NoIntent /\ intents[i].provider = p

\* An intent that already names its settling transaction is answered with it.
IntentOpen(i, p) ==
    /\ intents[i] # NoIntent
    /\ intents[i].provider = p
    /\ ~(intents[i].status = "settled" /\ intents[i].settledTxn # None)

\* What a payment buys: the intent's package when it covers the price (a cent of
\* slack), else the bits the operator names, else what the cents buy.
BoughtBits(i, paid, explicit) ==
    IF i # None /\ paid >= intents[i].amount - 1 THEN intents[i].bits
    ELSE IF explicit # None THEN explicit
    ELSE BitsForPriceCents(paid)

\* settle(): a known receipt, or an intent already settled, changes nothing.
SettlePurchase(k, ref, p, i, u, paid, explicit) ==
    /\ ~ReceiptUsed(ref)
    /\ IF i = None THEN u # None ELSE IntentOpen(i, p) /\ u \in {None, intents[i].subject}
    /\ LET subject == IF i = None THEN u ELSE intents[i].subject
           bits == BoughtBits(i, paid, explicit)
       IN  /\ bits >= 1
           /\ Backs(paid, bits)
           /\ Post([NewTxn(k, "purchase", now, ReceiptEntries(p, paid, bits, Credit(subject)))
                    EXCEPT !.to = subject, !.provider = p, !.receipt = ref, !.intent = i,
                           !.bits = bits, !.cents = paid])
    /\ intents' = IF i = None THEN intents
                  ELSE [intents EXCEPT ![i].status = "settled", ![i].settledTxn = k]
    /\ UNCHANGED <<cashouts, now>>

----------------------------------------------------------------------------
(* Transfers (transfers.js) and recycling (cashouts.js).                   *)

\* Variant: a gift to oneself is accepted.
ToAnyone(from, to) == TRUE

NotToSelf(from, to) == from # to

\* create(): spendable credit becomes the recipient's payable.
Transfer(k, from, to, amount) ==
    /\ NotToSelf(from, to)
    /\ k \notin UsedKeys
    /\ HasFunds(Credit(from), amount)
    /\ Post([NewTxn(k, "donation", now, Entry(Credit(from), -amount) ++ Entry(Payable(to), amount))
             EXCEPT !.from = from, !.to = to, !.bits = amount])
    /\ UNCHANGED <<intents, cashouts, now>>

RefundsOf(orig) == {t \in txns : t.reverses = orig.key /\ t.type = "refund"}
RefundableBits(orig) == orig.bits - SumBits(RefundsOf(orig))

\* refund(): a credit-funded donation, wholly or in part, out of what the
\* recipient still holds.  Without an amount (None), all that remains.
RefundTransfer(k, orig, asked) ==
    /\ k \notin UsedKeys
    /\ orig.type = "donation" /\ orig.from # None /\ orig.receipt = None
    /\ LET remaining == RefundableBits(orig)
           amount == IF asked = None THEN remaining ELSE asked
       IN  /\ amount =< remaining
           /\ HasFunds(Payable(orig.to), amount)
           /\ Post([NewTxn(k, "refund", now,
                           Entry(Payable(orig.to), -amount) ++ Entry(Credit(orig.from), amount))
                    EXCEPT !.reverses = orig.key, !.from = orig.to, !.to = orig.from, !.bits = amount])
    /\ UNCHANGED <<intents, cashouts, now>>

\* fromReceipt(): a tip paid through a provider, straight into the payable; the
\* tipper may be unknown (None).
TipFromReceipt(k, ref, p, from, to, paid) ==
    /\ ~ReceiptUsed(ref)
    /\ NotToSelf(from, to)
    /\ LET bits == BitsForValueCents(paid)
       IN  /\ Backs(paid, bits)
           /\ Post([NewTxn(k, "donation", now, ReceiptEntries(p, paid, bits, Payable(to)))
                    EXCEPT !.from = from, !.to = to, !.provider = p, !.receipt = ref,
                           !.bits = bits, !.cents = paid])
    /\ UNCHANGED <<intents, cashouts, now>>

Recycle(k, u, amount) ==
    /\ k \notin UsedKeys
    /\ HasFunds(Payable(u), amount)
    /\ Post([NewTxn(k, "recycle", now, Entry(Payable(u), -amount) ++ Entry(Credit(u), amount))
             EXCEPT !.from = u, !.to = u, !.bits = amount])
    /\ UNCHANGED <<intents, cashouts, now>>

----------------------------------------------------------------------------
(* Cashouts (cashouts.js).                                                 *)

\* A project's Vibes pass through its owner's payable in the same transaction.
CashoutEntries(u, p, amount) ==
    IF p = None
    THEN Entry(Payable(u), -amount) ++ Entry(Pending(u), amount)
    ELSE Entry(ProjectPayable(p), -amount) ++ Entry(Payable(u), amount)
           ++ Entry(Payable(u), -amount) ++ Entry(Pending(u), amount)

RequestCashout(k, c, u, p, amount) ==
    /\ amount >= MinCashoutBits
    /\ p # None => ProjectOwner[p] = u
    /\ k \notin UsedKeys
    /\ HasFunds(IF p = None THEN Payable(u) ELSE ProjectPayable(p), amount)
    /\ cashouts[c] = NoCashout
    /\ Post([NewTxn(k, "cashout_request", now, CashoutEntries(u, p, amount))
             EXCEPT !.from = u, !.cashout = c, !.bits = amount, !.cents = ValueCents(amount)])
    /\ cashouts' = [cashouts EXCEPT ![c] =
         [status |-> "requested", subject |-> u, project |-> p, bits |-> amount,
          cents |-> ValueCents(amount), escrowUntil |-> now + EscrowDays,
          requestTxn |-> k, settleTxn |-> None, payoutRef |-> None]]
    /\ UNCHANGED <<intents, now>>

\* Variants: a decision looks at nothing but the row's existence; escrow is skipped.
KnownCashout(c) == cashouts[c] # NoCashout
NoEscrow(c) == TRUE

Undecided(c) == cashouts[c].status = "requested"
EscrowOver(c) == now >= cashouts[c].escrowUntil

\* approve(): the Vibes leave against the payout provider.  The transaction
\* written is the one post() answers, new or replayed.
ApproveCashout(k, c, p, ref) ==
    /\ Undecided(c)
    /\ EscrowOver(c)
    /\ LET row == cashouts[c]
       IN  Post([NewTxn(k, "cashout_paid", now,
                        Entry(Pending(row.subject), -row.bits) ++ Entry(FxBits, row.bits)
                          ++ Entry(FxCents, -row.cents) ++ Entry(PayoutClearing(p), row.cents))
                 EXCEPT !.from = row.subject, !.provider = p, !.receipt = ref, !.cashout = c,
                        !.bits = row.bits, !.cents = row.cents])
    /\ cashouts' = [cashouts EXCEPT ![c].status = "paid", ![c].settleTxn = k, ![c].payoutRef = ref]
    /\ UNCHANGED <<intents, now>>

\* deny(): the Vibes return to the creator, a project's to its owner.
DenyCashout(k, c) ==
    /\ Undecided(c)
    /\ LET row == cashouts[c]
       IN  Post([NewTxn(k, "cashout_denied", now,
                        Entry(Pending(row.subject), -row.bits) ++ Entry(Payable(row.subject), row.bits))
                 EXCEPT !.to = row.subject, !.reverses = row.requestTxn, !.cashout = c, !.bits = row.bits])
    /\ cashouts' = [cashouts EXCEPT ![c].status = "denied", ![c].settleTxn = k]
    /\ UNCHANGED <<intents, now>>

----------------------------------------------------------------------------
(* Reversals of provider receipts (reversals.js).                          *)

ReversalsOf(orig) == {t \in txns : t.reverses = orig.key /\ t.type \in {"refund", "chargeback"}}
ReversedCents(orig) == SumCents(ReversalsOf(orig))

\* Variant: what the provider reports is reversed as it stands.
CentsAsReported(orig, mode, n) == IF mode = "rest" THEN orig.cents - ReversedCents(orig) ELSE n

\* The cents this reversal covers: the provider's cumulative total, the amount
\* it names, or the rest; never more than is left.
CentsToReverse(orig, mode, n) ==
    LET done == ReversedCents(orig)
        asked == CASE mode = "cumulative" -> n - done
                   [] mode = "cents" -> n
                   [] mode = "rest" -> orig.cents - done
    IN  AtMost(asked, orig.cents - done)

\* Variant: the bits bought by the cents still unreversed.
BitsLeft(orig, done) == Round(orig.bits * (orig.cents - done), orig.cents)

\* The share of a purchase's bits that the cents up to `done' bought.
BitsCovered(orig, done) == Round(orig.bits * done, orig.cents)

\* Variant: each partial reversal is rounded by itself.
BitsOfPart(orig, done, cents) == BitsCovered(orig, cents)

\* The bits the next `cents' cover, once `done' are reversed.
BitsToReverse(orig, done, cents) == BitsCovered(orig, done + cents) - BitsCovered(orig, done)

\* Variants: the claw-back ignores what is left, or what the refund covers.
ClawAllCovered(orig, bits) == bits
ClawAllHeld(orig, bits) == AtLeast(0, balance[Credit(orig.to)])

\* What the buyer still holds of them.
Clawable(orig, bits) == AtLeast(0, AtMost(balance[Credit(orig.to)], bits))

\* What a purchase's reversal takes back, and where the rest is booked.
PurchaseReversal(orig, kind, cents) ==
    LET bits == BitsToReverse(orig, ReversedCents(orig), cents)
        clawed == Clawable(orig, bits)
        nonFx == cents - ValueCents(clawed)
        lossPart == IF kind = "chargeback" THEN nonFx ELSE AtMost(nonFx, ValueCents(bits - clawed))
    IN  [bits |-> bits,
         entries |-> Entry(Credit(orig.to), -clawed) ++ Entry(FxBits, clawed)
                       ++ Entry(FxCents, -ValueCents(clawed)) ++ Entry(Clearing(orig.provider), cents)
                       ++ Entry(Loss, -lossPart) ++ Entry(Refunds, -(nonFx - lossPart))]

\* A tip's reversal leaves the creator's payable alone.
TipReversal(orig, kind, cents) ==
    [bits |-> 0,
     entries |-> Entry(Clearing(orig.provider), cents)
                   ++ Entry(IF kind = "chargeback" THEN Loss ELSE Refunds, -cents)]

\* reverseReceipt(), for receipts of a purchase or a tip.  `ref' is the
\* provider's reference of the reversal, if it gives one.
ReverseReceipt(k, ref, origRef, kind, mode, n) ==
    /\ k \notin UsedKeys
    /\ ref # None => ~ReceiptUsed(ref)
    /\ ReceiptUsed(origRef)
    /\ LET orig == TxnByReceipt(origRef)
           cents == CentsToReverse(orig, mode, n)
           rev == IF orig.type = "purchase" THEN PurchaseReversal(orig, kind, cents)
                                            ELSE TipReversal(orig, kind, cents)
       IN  /\ orig.type \in {"purchase", "donation"}
           /\ cents > 0
           /\ Post([NewTxn(k, kind, now, rev.entries)
                    EXCEPT !.reverses = orig.key, !.from = orig.to, !.to = orig.from,
                           !.provider = orig.provider, !.receipt = ref,
                           !.bits = rev.bits, !.cents = cents])
           /\ intents' = IF orig.intent # None /\ ReversedCents(orig) + cents >= orig.cents
                         THEN [intents EXCEPT ![orig.intent].status = "refunded"]
                         ELSE intents
    /\ UNCHANGED <<cashouts, now>>

----------------------------------------------------------------------------
(* Staff adjustments (admin.js) and the clock.                             *)

\* adjust(): between any two accounts of one currency, with no funds check.
Adjust(k, from, to, amount) ==
    /\ from[3] = to[3]
    /\ k \notin UsedKeys
    /\ Post([NewTxn(k, "adjustment", now, Entry(from, -amount) ++ Entry(to, amount))
             EXCEPT !.bits = amount])
    /\ UNCHANGED <<intents, cashouts, now>>

Tick ==
    /\ now < MaxTime
    /\ now' = now + 1
    /\ UNCHANGED <<txns, balance, intents, cashouts>>

----------------------------------------------------------------------------
(* A request with a key of its own (server/api/idempotency.js, the console's *)
(* per-form action key, a provider event's key); ApiRequests drops that      *)
(* assumption.  Repeating a request finds its key used and changes nothing.  *)

PurchaseNext(k) ==
    \E ref \in Refs, p \in Providers, paid \in CentAmounts :
        \/ \E i \in Intents \cup {None}, u \in Users \cup {None}, b \in BitAmounts \cup {None} :
             SettlePurchase(k, ref, p, i, u, paid, b)
        \/ \E from \in Users \cup {None}, to \in Users : TipFromReceipt(k, ref, p, from, to, paid)

TransferNext(k) ==
    \/ \E from, to \in Users, amount \in BitAmounts : Transfer(k, from, to, amount)
    \/ \E orig \in txns, asked \in BitAmounts \cup {None} : RefundTransfer(k, orig, asked)
    \/ \E u \in Users, amount \in BitAmounts : Recycle(k, u, amount)

CashoutNext(k) ==
    \E c \in Cashouts :
        \/ \E u \in Users, p \in Projects \cup {None}, amount \in BitAmounts :
             RequestCashout(k, c, u, p, amount)
        \/ \E p \in Providers, ref \in Refs : ApproveCashout(k, c, p, ref)
        \/ DenyCashout(k, c)

ReversalNext(k) ==
    \E ref \in Refs \cup {None}, origRef \in Refs, kind \in {"refund", "chargeback"} :
        \E mode \in {"cumulative", "cents", "rest"}, n \in CentAmounts :
            ReverseReceipt(k, ref, origRef, kind, mode, n)

Next ==
    \/ \E i \in Intents :
         \/ \E u \in Users, p \in Providers, bits \in BitAmounts : CreateIntent(i, u, p, bits)
         \/ FailIntent(i)
    \/ \E k \in Keys \ UsedKeys :
         \/ PurchaseNext(k)
         \/ TransferNext(k)
         \/ CashoutNext(k)
         \/ ReversalNext(k)
         \/ \E from, to \in Adjustable, amount \in BitAmounts : Adjust(k, from, to, amount)
    \/ Tick

Spec == Init /\ [][Next]_vars

----------------------------------------------------------------------------
(* What the ledger promises.                                               *)

\* No staff adjustment has touched the accounts A.
Unadjusted(A) == \A t \in txns : t.type = "adjustment" => \A a \in A : t.entries[a] = 0

Total(e, A) == SumFunctionOnSet(e, A)

\* The checks of reconcile.js: what each would report.
Unbalanced == {t \in txns : Total(t.entries, BitsAccounts) # 0 \/ Total(t.entries, CentsAccounts) # 0}

FxBad ==
    {t \in txns :
       LET bits == t.entries[FxBits]
       IN  t.entries[FxCents] # (IF bits >= 0 THEN -ValueCents(bits) ELSE ValueCents(-bits))}

Requested(u) == {c \in Cashouts : cashouts[c].status = "requested" /\ cashouts[c].subject = u}
PendingBad ==
    {u \in Users :
       balance[Pending(u)] # SumFunctionOnSet([c \in Requested(u) |-> cashouts[c].bits], Requested(u))}

\* What a receipt moved through its provider's clearing account.
RcptBad ==
    {t \in txns :
       /\ t.provider # None
       /\ \/ /\ t.type \in {"purchase", "donation"}
             /\ t.receipt = None \/ t.entries[Clearing(t.provider)] # -t.cents
          \/ /\ t.type \in {"refund", "chargeback"}
             /\ t.entries[Clearing(t.provider)] # t.cents}

\* Every transaction's entries sum to zero in each currency, whatever operation
\* wrote it and with whatever rounding: ledger.js never has to refuse one
\* (reconcile.js, journal.zero_sum and journal.txn_balanced).
JournalBalanced == Unbalanced = {}

\* Also at rates where bits are not whole cents, and adjustments aside, every
\* transaction moves the value account by the rounded value of the bits it moves
\* (reconcile.js, fx.mirror).
FxMirror == \A t \in FxBad : t.type = "adjustment"

\* The cents set aside for creators are the value of the Vibes people, projects
\* and pending payouts hold, over any history of purchases, gifts, payouts and
\* reversals: exactly at a rate where bits are whole cents, and off by no more
\* than half a cent for each transaction at any other.  Adjustments between
\* people do not disturb it (ledger.js 13-20).
Backed ==
    LET drift == balance[FxCents] * BitsPerUsd - 100 * Total(balance, HeldAccounts)
        rounded == IF 100 % BitsPerUsd = 0 THEN 0 ELSE BitsPerUsd * Cardinality(txns)
    IN  Unadjusted(Accounts \ SpendableAccounts) => 2 * drift \in -rounded..rounded

\* Credit and payables are never spent below zero, neither by a spend nor by a
\* claw-back: only an adjustment that debits the account itself can overdraw it
\* (ledger.js requireFunds; reversals.js "clawed").
SpendableNonNegative ==
    \A a \in SpendableAccounts :
        (\A t \in txns : t.type = "adjustment" => t.entries[a] >= 0) => balance[a] >= 0

\* What a creator has pending is the sum of the cashouts still undecided
\* (reconcile.js, payouts.pending).
PendingIsRequested == \A u \in PendingBad : ~Unadjusted({Pending(u)})

\* The report of reconcile.js stays empty: the journal balances, the value account
\* mirrors and backs what people hold, pending Vibes are those of open cashouts and
\* every receipt moved its own cents (receipts.ledger).
Reconciles == JournalBalanced /\ FxMirror /\ Backed /\ PendingIsRequested /\ RcptBad = {}

\* A cashout row and the journal tell one story: one request, at most one
\* decision, of the kind the row says, for the amount the row says, and a payout
\* no earlier than the escrow the request promised (cashouts.js; reconcile.js,
\* payouts.references).
CashoutTrail ==
    \A c \in Cashouts :
        LET row == cashouts[c]
            trail == {t \in txns : t.cashout = c}
        IN  IF row = NoCashout THEN trail = {}
            ELSE \E req \in trail :
                   /\ req.type = "cashout_request" /\ req.bits = row.bits /\ req.from = row.subject
                   /\ IF row.status = "requested" THEN trail = {req}
                      ELSE \E dec \in trail :
                             /\ trail = {req, dec} /\ dec.key = row.settleTxn /\ dec.bits = row.bits
                             /\ dec.type = IF row.status = "paid" THEN "cashout_paid" ELSE "cashout_denied"
                             /\ row.status = "paid" =>
                                   dec.at >= req.at + EscrowDays /\ dec.receipt = row.payoutRef

\* However many partial refunds and chargebacks a provider reports, by amount or
\* by running total, no receipt is reversed beyond what was paid, and no gift is
\* refunded beyond what was given (reversals.js, transfers.js).
ReversedWithinPaid ==
    \A t \in txns :
        /\ t.receipt # None /\ t.type \in {"purchase", "donation"} => ReversedCents(t) =< t.cents
        /\ t.type = "donation" /\ t.receipt = None => SumBits(RefundsOf(t)) =< t.bits

\* The partial reversals of a purchase add up: however the refund is cut, the
\* bits called back are those the refunded cents bought, all of them once the
\* whole price is back (reversals.js, bits_reversed).
ReversalsAddUp ==
    \A t \in txns :
        t.type = "purchase" => SumBits(ReversalsOf(t)) = BitsCovered(t, ReversedCents(t))

\* Reversing a receipt never books a gain: at the default rate, what each partial
\* reversal takes out of the value account is covered by the cents that go back
\* to the provider (reversals.js, nonFx).
ReversalNeverGains ==
    \A t \in txns : t.type \in {"refund", "chargeback"} => t.entries[Loss] =< 0 /\ t.entries[Refunds] =< 0

\* An intent is never paid out twice: a second purchase for it appears only
\* after the first was wholly reversed, and a settled intent names the purchase
\* in force (purchases.js; intents.js markSettled).
IntentSettledOnce ==
    \A i \in Intents :
        LET inForce == {t \in txns : t.type = "purchase" /\ t.intent = i /\ ReversedCents(t) < t.cents}
        IN  /\ Cardinality(inForce) =< 1
            /\ intents[i].status = "settled" => \E t \in inForce : t.key = intents[i].settledTxn

\* Only money given by somebody else can be cashed out: what a creator has asked
\* for or been paid never exceeds the gifts received, less those refunded
\* (cashouts.js, "only money given to you can be cashed out").
OnlyGiftsLeave ==
    Unadjusted(Accounts) =>
        \A u \in Users :
            LET gifts == {t \in txns : t.type = "donation" /\ t.to = u /\ t.from # u}
                refunds == {t \in txns : t.type = "refund" /\ t.from = u /\ \E g \in gifts :
                                            t.reverses = g.key /\ g.receipt = None}
                leaving == {c \in Cashouts : cashouts[c].status \in {"requested", "paid"}
                                                /\ cashouts[c].subject = u}
            IN  SumFunctionOnSet([c \in leaving |-> cashouts[c].bits], leaving)
                    =< SumBits(gifts) - SumBits(refunds)

\* The cashouts, seen by a creator (CashoutPromise).
Promise ==
    INSTANCE CashoutPromise WITH
        phase <- [c \in Cashouts |-> cashouts[c].status],
        worth <- [c \in Cashouts |-> IF cashouts[c] = NoCashout THEN 0 ELSE cashouts[c].cents],
        paidOut <- [p \in Providers |-> balance[PayoutClearing(p)]]

\* Every history of the ledger is one of the promise, as long as nobody adjusts
\* the accounts payouts leave by: a cashout is paid once, for what it was worth
\* when requested, or its Vibes come back.
KeepsPromise == Promise!Spec

=============================================================================
