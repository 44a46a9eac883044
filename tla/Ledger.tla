------------------------------- MODULE Ledger -------------------------------
(***************************************************************************)
(* The journal of server/ledger.js and the account addresses of            *)
(* server/ops/common.js.                                                   *)
(*                                                                         *)
(* `txns' is the append-only journal, a set of transaction records; each   *)
(* has a unique idempotency key, which stands for the row id as well.      *)
(* `balance' is the account_balances cache, moved in the same database     *)
(* transaction as the entries.  A serializable transaction (money()) is    *)
(* one step of every module that extends this one.                         *)
(***************************************************************************)
EXTENDS Rates, Functions

CONSTANTS
    Users,      \* user subjects
    Projects,   \* developer projects that receive Vibes
    Providers,  \* payment and payout providers
    Keys,       \* idempotency keys
    Refs,       \* provider references: receipts, reversals, payout references
    Cashouts,   \* cashout ids
    Intents,    \* payment intent ids
    None,       \* a column that is NULL
    MaxSafe     \* Number.MAX_SAFE_INTEGER

VARIABLES txns, balance

ledgerVars == <<txns, balance>>

----------------------------------------------------------------------------
(* Accounts: <<kind, owner, currency>>.                                    *)

BITS == "vibes-bits"
CENTS == "usd-cents"

Credit(s) == <<"user_credit", s, BITS>>
Payable(s) == <<"creator_payable", s, BITS>>
Pending(s) == <<"payouts_pending", s, BITS>>
ProjectPayable(p) == <<"project_payable", p, BITS>>
FxBits == <<"fx_conversion", None, BITS>>
FxCents == <<"fx_conversion", None, CENTS>>
Revenue == <<"platform_revenue", None, CENTS>>
Refunds == <<"refunds", None, CENTS>>
Loss == <<"chargeback_loss", None, CENTS>>
Clearing(p) == <<"provider_clearing", p, CENTS>>
\* The owner "<provider>_payouts" of the clearing account payouts leave by.
PayoutClearing(p) == <<"provider_clearing", <<p, "payouts">>, CENTS>>

SpendableAccounts ==
    {Credit(s) : s \in Users} \cup {Payable(s) : s \in Users} \cup {ProjectPayable(p) : p \in Projects}
HeldAccounts == SpendableAccounts \cup {Pending(s) : s \in Users}
BitsAccounts == HeldAccounts \cup {FxBits}
CentsAccounts ==
    {FxCents, Revenue, Refunds, Loss}
        \cup {Clearing(p) : p \in Providers} \cup {PayoutClearing(p) : p \in Providers}
Accounts == BitsAccounts \cup CentsAccounts

----------------------------------------------------------------------------
(* Entries: what a transaction adds to each account.  Adding two entry     *)
(* functions is the per-account merge of post().                           *)

EntrySet == [Accounts -> Int]
NoEntries == [a \in Accounts |-> 0]
Entry(account, amount) == [a \in Accounts |-> IF a = account THEN amount ELSE 0]
e ++ f == [a \in Accounts |-> e[a] + f[a]]

\* Variant: the whole payment is booked as the value of the bits.
ReceiptWithoutRevenue(provider, paid, bits, target) ==
    Entry(Clearing(provider), -paid) ++ Entry(FxCents, paid) ++ Entry(FxBits, -bits) ++ Entry(target, bits)

\* Money received through a provider that becomes bits in `target'.
ReceiptEntries(provider, paid, bits, target) ==
    Entry(Clearing(provider), -paid)
        ++ Entry(Revenue, paid - ValueCents(bits)) ++ Entry(FxCents, ValueCents(bits))
        ++ Entry(FxBits, -bits) ++ Entry(target, bits)

\* receiptEntries refuses to credit bits worth more than was paid.
Backs(paid, bits) == ValueCents(bits) =< paid

----------------------------------------------------------------------------
(* Transactions.                                                           *)

Txn ==
    [key : Keys,
     type : {"purchase", "donation", "cashout_request", "cashout_paid", "cashout_denied",
             "recycle", "refund", "chargeback", "adjustment"},
     from : Users \cup {None}, to : Users \cup {None},
     provider : Providers \cup {None},
     receipt : Refs \cup {None},       \* receipt_ref, unique among transactions
     reverses : Keys \cup {None},      \* reverses_txn
     cashout : Cashouts \cup {None},   \* metadata.cashout_id
     intent : Intents \cup {None},     \* metadata.intent_id
     bits : Nat,                       \* metadata.bits / amount_bits / bits_reversed
     cents : Nat,                      \* metadata.paid_cents / cents / value_cents
     at : Nat,                         \* created_at
     entries : EntrySet]

\* A transaction whose optional columns are NULL.
NewTxn(k, type, at, entries) ==
    [key |-> k, type |-> type, from |-> None, to |-> None, provider |-> None, receipt |-> None,
     reverses |-> None, cashout |-> None, intent |-> None, bits |-> 0, cents |-> 0,
     at |-> at, entries |-> entries]

UsedKeys == {t.key : t \in txns}
TxnByKey(k) == CHOOSE t \in txns : t.key = k
ReceiptUsed(ref) == \E t \in txns : t.receipt = ref
TxnByReceipt(ref) == CHOOSE t \in txns : t.receipt = ref

\* SUM() over a column of some transactions.
SumBits(S) == SumFunctionOnSet([t \in S |-> t.bits], S)
SumCents(S) == SumFunctionOnSet([t \in S |-> t.cents], S)

InRange(n) == -MaxSafe =< n /\ n =< MaxSafe

(***************************************************************************)
(* post(): a known key answers the transaction it already names and moves  *)
(* nothing, whatever is asked now; otherwise the row, its entries and the  *)
(* balances are written together.  The write fails, and with it the whole  *)
(* step, when the receipt reference is taken (unique index) or a balance   *)
(* would leave the exact integer range.  post() also refuses entries that  *)
(* do not sum to zero; that check is left out, so that JournalBalanced     *)
(* shows no operation ever needs it.                                       *)
(***************************************************************************)
Post(t) ==
    IF t.key \in UsedKeys
    THEN UNCHANGED ledgerVars
    ELSE /\ t.receipt # None => ~ReceiptUsed(t.receipt)
         /\ \A a \in Accounts : t.entries[a] # 0 => InRange(balance[a] + t.entries[a])
         /\ txns' = txns \cup {t}
         /\ balance' = balance ++ t.entries

HasFunds(account, amount) == balance[account] >= amount

LedgerInit ==
    /\ txns = {}
    /\ balance = NoEntries

=============================================================================
