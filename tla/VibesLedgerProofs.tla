-------------------------- MODULE VibesLedgerProofs --------------------------
(***************************************************************************)
(* What VibesLedger promises, for every set of users, projects, keys,      *)
(* receipts and cashouts, every rate and every price tier.                 *)
(*                                                                         *)
(* First LedgerInv: the types, the entries of every transaction, what a    *)
(* receipt and a cashout posted.  Then StoryInv, on top of it: the books   *)
(* reconcile, a cashout's row and its transactions tell one story, an      *)
(* intent is settled once, and only gifts leave.                           *)
(***************************************************************************)
EXTENDS VibesLedger, MoneyLemmas

----------------------------------------------------------------------------
(* Entries and accounts.                                                   *)

\* One entry touches one account.
LEMMA EntryLaw ==
    ASSUME NEW b \in Accounts, NEW n \in Int
    PROVE  Entry(b, n) \in EntrySet /\ \A a \in Accounts : Entry(b, n)[a] = IF a = b THEN n ELSE 0
  BY DEF Entry, EntrySet

\* Merging entries adds them account by account.
LEMMA AddLaw ==
    ASSUME NEW e \in EntrySet, NEW f \in EntrySet
    PROVE  (e ++ f) \in EntrySet /\ \A a \in Accounts : (e ++ f)[a] = e[a] + f[a]
  BY DEF ++, EntrySet

\* The addresses the operations use are accounts.
LEMMA AccountTypes ==
    /\ \A u \in Users : Credit(u) \in Accounts /\ Payable(u) \in Accounts /\ Pending(u) \in Accounts
    /\ \A p \in Projects : ProjectPayable(p) \in Accounts
    /\ \A p \in Providers : Clearing(p) \in Accounts /\ PayoutClearing(p) \in Accounts
    /\ FxBits \in Accounts /\ FxCents \in Accounts /\ Revenue \in Accounts
    /\ Refunds \in Accounts /\ Loss \in Accounts
  BY DEF Accounts, BitsAccounts, HeldAccounts, SpendableAccounts, CentsAccounts

\* No spendable account is one of the others.
LEMMA SpendableApart ==
    ASSUME NEW a \in SpendableAccounts
    PROVE  /\ a \in Accounts
           /\ a \notin {FxBits, FxCents, Revenue, Refunds, Loss}
           /\ \A u : a # Pending(u)
           /\ \A p : a # Clearing(p) /\ a # PayoutClearing(p)
  BY DEF SpendableAccounts, Accounts, BitsAccounts, HeldAccounts, FxBits, FxCents, Revenue, Refunds,
         Loss, Pending, Clearing, PayoutClearing, Credit, Payable, ProjectPayable

----------------------------------------------------------------------------
(* Sums over transactions.                                                 *)

\* No transactions, no bits and no cents.
LEMMA SumsEmpty == SumBits({}) = 0 /\ SumCents({}) = 0
  BY SumEmpty DEF SumBits, SumCents

\* Sums of a transaction column are natural numbers.
LEMMA SumsType ==
    ASSUME NEW S, IsFiniteSet(S), S \subseteq Txn
    PROVE  SumBits(S) \in Nat /\ SumCents(S) \in Nat
<1>1. \A t \in S : [u \in S |-> u.bits][t] \in Nat /\ [u \in S |-> u.cents][t] \in Nat
  BY DEF Txn
<1> QED
  BY <1>1, SumNat DEF SumBits, SumCents

\* One transaction more adds its own amounts to a sum.
LEMMA SumsAdd ==
    ASSUME NEW S, IsFiniteSet(S), S \subseteq Txn, NEW x \in Txn, x \notin S
    PROVE  SumBits(S \cup {x}) = SumBits(S) + x.bits /\ SumCents(S \cup {x}) = SumCents(S) + x.cents
<1> DEFINE T == S \cup {x}
           bS == [t \in S |-> t.bits]
           bT == [t \in T |-> t.bits]
           cS == [t \in S |-> t.cents]
           cT == [t \in T |-> t.cents]
<1>1. \A t \in T : bT[t] = t.bits /\ bT[t] \in Int /\ cT[t] = t.cents /\ cT[t] \in Int
  BY DEF Txn
<1>2. \A t \in S : bS[t] = bT[t] /\ cS[t] = cT[t] /\ bT[t] \in Int /\ cT[t] \in Int
  BY <1>1
<1>3. x \in T /\ bT[x] = x.bits /\ cT[x] = x.cents
  OBVIOUS
<1> HIDE DEF bS, bT, cS, cT
<1>4. SumFunctionOnSet(bS, S) = SumFunctionOnSet(bT, S)
  BY <1>2, SumSame
<1>5. SumFunctionOnSet(cS, S) = SumFunctionOnSet(cT, S)
  BY <1>2, SumSame
<1>6. SumFunctionOnSet(bT, S \cup {x}) = SumFunctionOnSet(bT, S) + bT[x]
  BY <1>1, SumAdd
<1>7. SumFunctionOnSet(cT, S \cup {x}) = SumFunctionOnSet(cT, S) + cT[x]
  BY <1>1, SumAdd
<1> QED
  BY <1>3, <1>4, <1>5, <1>6, <1>7 DEF SumBits, SumCents, bS, bT, cS, cT

----------------------------------------------------------------------------
(* The journal: an invariant of txns alone.                                *)

KeysUnique == \A s, t \in txns : s.key = t.key => s = t
ReceiptsUnique == \A s, t \in txns : s.receipt = t.receipt /\ s.receipt # None => s = t
ReversalsKnown ==
    \A t \in txns : t.type \in {"refund", "chargeback"} => \E o \in txns : t.reverses = o.key

\* A purchase has a receipt; purchases and gifts have a recipient; their receipts
\* name a provider and an amount.
Sound(t) ==
    /\ t.type = "purchase" => t.receipt # None
    /\ t.type \in {"purchase", "donation"} => t.to \in Users
    /\ t.receipt # None /\ t.type \in {"purchase", "donation"} => t.cents > 0 /\ t.provider \in Providers
ReceiptsSound == \A t \in txns : Sound(t)

JournalInv ==
    /\ txns \subseteq Txn /\ IsFiniteSet(txns)
    /\ KeysUnique
    /\ ReceiptsUnique
    /\ ReversalsKnown
    /\ ReceiptsSound
    /\ ReversedWithinPaid
    /\ ReversalsAddUp

\* A transaction x that post() accepts under a new key.
Accepted(x) ==
    /\ x \in Txn
    /\ x.key \notin UsedKeys
    /\ x.receipt # None => ~ReceiptUsed(x.receipt)
    /\ txns' = txns \cup {x}

\* What an accepted transaction leaves alone, and what it adds to the sums.
LEMMA AcceptedBasics ==
    ASSUME JournalInv, NEW x, Accepted(x),
           Sound(x),
           x.type \in {"refund", "chargeback"} => \E o \in txns : x.reverses = o.key
    PROVE  /\ x \notin txns
           /\ txns' \subseteq Txn /\ IsFiniteSet(txns')
           /\ KeysUnique' /\ ReceiptsUnique' /\ ReversalsKnown' /\ ReceiptsSound'
<1>1. x \notin txns /\ \A t \in txns : t.key # x.key
  BY DEF Accepted, UsedKeys
<1>2. txns' \subseteq Txn /\ IsFiniteSet(txns')
  <2>1. IsFiniteSet(txns \cup {x})
    BY FS_AddElement DEF JournalInv
  <2> QED
    BY <2>1 DEF Accepted, JournalInv
<1>3. KeysUnique'
  BY <1>1 DEF KeysUnique, JournalInv, Accepted
<1>4. ReceiptsUnique'
  BY <1>1 DEF ReceiptsUnique, JournalInv, Accepted, ReceiptUsed
<1>5. ReversalsKnown'
  BY DEF ReversalsKnown, JournalInv, Accepted
<1>6. ReceiptsSound'
  BY DEF ReceiptsSound, Sound, JournalInv, Accepted
<1> QED
  BY <1>1, <1>2, <1>3, <1>4, <1>5, <1>6

\* Sums over the reversals of a transaction are natural numbers.
LEMMA SumsOfReversals ==
    ASSUME JournalInv
    PROVE  \A t : /\ ReversedCents(t) \in Nat /\ SumBits(ReversalsOf(t)) \in Nat
                  /\ SumBits(RefundsOf(t)) \in Nat
<1> SUFFICES ASSUME NEW t
             PROVE  /\ ReversedCents(t) \in Nat /\ SumBits(ReversalsOf(t)) \in Nat
                    /\ SumBits(RefundsOf(t)) \in Nat
  OBVIOUS
<1>1. IsFiniteSet(ReversalsOf(t)) /\ ReversalsOf(t) \subseteq Txn
  BY FS_Subset DEF ReversalsOf, JournalInv
<1>2. IsFiniteSet(RefundsOf(t)) /\ RefundsOf(t) \subseteq Txn
  BY FS_Subset DEF RefundsOf, JournalInv
<1> QED
  BY <1>1, <1>2, SumsType DEF ReversedCents

\* Sums over the reversals of t when x is accepted.
LEMMA ReversalsGrow ==
    ASSUME JournalInv, NEW x, Accepted(x), NEW t
    PROVE  /\ ~(x.reverses = t.key /\ x.type \in {"refund", "chargeback"}) =>
                ReversedCents(t)' = ReversedCents(t) /\ SumBits(ReversalsOf(t))' = SumBits(ReversalsOf(t))
           /\ x.reverses = t.key /\ x.type \in {"refund", "chargeback"} =>
                /\ ReversedCents(t)' = ReversedCents(t) + x.cents
                /\ SumBits(ReversalsOf(t))' = SumBits(ReversalsOf(t)) + x.bits
           /\ ~(x.reverses = t.key /\ x.type = "refund") =>
                SumBits(RefundsOf(t))' = SumBits(RefundsOf(t))
           /\ x.reverses = t.key /\ x.type = "refund" =>
                SumBits(RefundsOf(t))' = SumBits(RefundsOf(t)) + x.bits
<1> DEFINE R == ReversalsOf(t)
           F == RefundsOf(t)
<1>1. x \in Txn /\ x \notin txns
  BY DEF Accepted, UsedKeys
<1>2. IsFiniteSet(R) /\ R \subseteq Txn /\ x \notin R
  BY <1>1, FS_Subset DEF ReversalsOf, JournalInv
<1>3. IsFiniteSet(F) /\ F \subseteq Txn /\ x \notin F
  BY <1>1, FS_Subset DEF RefundsOf, JournalInv
<1>4. ReversalsOf(t)' = IF x.reverses = t.key /\ x.type \in {"refund", "chargeback"} THEN R \cup {x} ELSE R
  BY DEF ReversalsOf, Accepted
<1>5. RefundsOf(t)' = IF x.reverses = t.key /\ x.type = "refund" THEN F \cup {x} ELSE F
  BY DEF RefundsOf, Accepted
<1> HIDE DEF R, F
<1>6. SumBits(R \cup {x}) = SumBits(R) + x.bits /\ SumCents(R \cup {x}) = SumCents(R) + x.cents
  BY <1>1, <1>2, SumsAdd
<1>7. SumBits(F \cup {x}) = SumBits(F) + x.bits
  BY <1>1, <1>3, SumsAdd
<1>8. /\ ReversedCents(t) = SumCents(R) /\ SumBits(ReversalsOf(t)) = SumBits(R)
      /\ SumBits(RefundsOf(t)) = SumBits(F)
      /\ ReversedCents(t)' = SumCents(ReversalsOf(t)') /\ SumBits(ReversalsOf(t))' = SumBits(ReversalsOf(t)')
      /\ SumBits(RefundsOf(t))' = SumBits(RefundsOf(t)')
  BY DEF ReversedCents, R, F, SumBits, SumCents
<1> QED
  BY <1>4, <1>5, <1>6, <1>7, <1>8, Zenon

\* A new receipt has no reversals yet.
LEMMA FreshHasNone ==
    ASSUME JournalInv, NEW x, Accepted(x), x.type \notin {"refund", "chargeback"}
    PROVE  ReversedCents(x)' = 0 /\ SumBits(ReversalsOf(x))' = 0 /\ SumBits(RefundsOf(x))' = 0
<1>1. \A t \in txns : t.type \in {"refund", "chargeback"} => t.reverses # x.key
  BY DEF JournalInv, ReversalsKnown, Accepted, UsedKeys
<1>2. ReversalsOf(x)' = {} /\ RefundsOf(x)' = {}
  BY <1>1 DEF ReversalsOf, RefundsOf, Accepted
<1>3. /\ ReversedCents(x)' = SumCents(ReversalsOf(x)') /\ SumBits(ReversalsOf(x))' = SumBits(ReversalsOf(x)')
      /\ SumBits(RefundsOf(x))' = SumBits(RefundsOf(x)')
  BY DEF ReversedCents, SumBits, SumCents
<1> QED
  BY <1>2, <1>3, SumsEmpty, Zenon

\* A transaction that reverses nothing keeps the journal's invariant.
LEMMA PlainPosting ==
    ASSUME JournalInv, NEW x, Accepted(x),
           x.type \notin {"refund", "chargeback"},
           Sound(x)
    PROVE  JournalInv'
<1>1. /\ x \notin txns /\ txns' \subseteq Txn /\ IsFiniteSet(txns')
      /\ KeysUnique' /\ ReceiptsUnique' /\ ReversalsKnown' /\ ReceiptsSound'
  BY AcceptedBasics
<1>2. \A t : /\ ReversedCents(t)' = ReversedCents(t) /\ SumBits(ReversalsOf(t))' = SumBits(ReversalsOf(t))
             /\ SumBits(RefundsOf(t))' = SumBits(RefundsOf(t))
  BY ReversalsGrow
<1>3. ReversedCents(x)' = 0 /\ SumBits(ReversalsOf(x))' = 0 /\ SumBits(RefundsOf(x))' = 0
  BY FreshHasNone
<1>4. txns' = txns \cup {x} /\ x \in Txn /\ x.bits \in Nat /\ x.cents \in Nat
  BY DEF Accepted, Txn
<1>5. ReversedWithinPaid'
  BY <1>2, <1>3, <1>4 DEF JournalInv, ReversedWithinPaid
<1>6. ReversalsAddUp'
  <2>1. x.type = "purchase" => BitsCovered(x, 0) = 0
    <3>1. ASSUME x.type = "purchase" PROVE x.cents \in Nat \ {0} /\ x.bits * 0 = 0
      BY <1>4, <3>1 DEF Sound
    <3> QED
      BY <3>1, RoundZero DEF BitsCovered
  <2>2. \A t \in txns' : BitsCovered(t, ReversedCents(t))' = BitsCovered(t, ReversedCents(t)')
    BY DEF BitsCovered, Round
  <2>3. ASSUME NEW t \in txns', t.type = "purchase"
        PROVE  SumBits(ReversalsOf(t))' = BitsCovered(t, ReversedCents(t)')
    <3>1. CASE t \in txns
      BY <1>2, <2>3, <3>1 DEF JournalInv, ReversalsAddUp
    <3>2. CASE t = x
      BY <1>3, <2>1, <2>3, <3>2
    <3> QED
      BY <1>4, <3>1, <3>2
  <2> QED
    BY <2>2, <2>3 DEF ReversalsAddUp
<1> QED
  BY <1>1, <1>5, <1>6 DEF JournalInv

\* A reversal of o keeps it when it stays within what o leaves to reverse.
LEMMA ReversalPosting ==
    ASSUME JournalInv, NEW x, Accepted(x), NEW o \in txns,
           x.reverses = o.key, x.type \in {"refund", "chargeback"},
           o.type \in {"purchase", "donation"},
           o.receipt # None => x.cents =< o.cents - ReversedCents(o),
           o.type = "purchase" => x.bits = BitsToReverse(o, ReversedCents(o), x.cents),
           o.receipt = None => x.bits =< RefundableBits(o)
    PROVE  JournalInv'
<1>1. /\ x \notin txns /\ txns' \subseteq Txn /\ IsFiniteSet(txns')
      /\ KeysUnique' /\ ReceiptsUnique' /\ ReversalsKnown' /\ ReceiptsSound'
  <2>1. Sound(x)
    BY DEF Sound
  <2> QED
    BY <2>1, AcceptedBasics
<1>2. ASSUME NEW t \in txns, t # o
      PROVE  /\ ReversedCents(t)' = ReversedCents(t) /\ SumBits(ReversalsOf(t))' = SumBits(ReversalsOf(t))
             /\ SumBits(RefundsOf(t))' = SumBits(RefundsOf(t))
  <2>1. t.key # o.key
    BY <1>2 DEF JournalInv, KeysUnique
  <2> QED
    BY <2>1, ReversalsGrow
<1>3. /\ ReversedCents(o)' = ReversedCents(o) + x.cents
      /\ SumBits(ReversalsOf(o))' = SumBits(ReversalsOf(o)) + x.bits
      /\ SumBits(RefundsOf(o))' \in {SumBits(RefundsOf(o)), SumBits(RefundsOf(o)) + x.bits}
  BY ReversalsGrow
<1>4. /\ txns' = txns \cup {x} /\ x.bits \in Nat /\ x.cents \in Nat
      /\ o.bits \in Nat /\ o.cents \in Nat
      /\ ReversedCents(o) \in Nat /\ SumBits(ReversalsOf(o)) \in Nat /\ SumBits(RefundsOf(o)) \in Nat
  BY SumsOfReversals DEF JournalInv, Accepted, Txn
<1>5. ReversedWithinPaid'
  <2>1. o.receipt # None => ReversedCents(o)' =< o.cents
    BY <1>3, <1>4
  <2>2. o.type = "donation" /\ o.receipt = None => SumBits(RefundsOf(o))' =< o.bits
    BY <1>3, <1>4 DEF RefundableBits, JournalInv, ReversedWithinPaid
  <2> QED
    BY <1>2, <1>4, <2>1, <2>2 DEF JournalInv, ReversedWithinPaid
<1>6. ReversalsAddUp'
  <2>1. \A t \in txns' : BitsCovered(t, ReversedCents(t))' = BitsCovered(t, ReversedCents(t)')
    BY DEF BitsCovered, Round
  <2>2. o.type = "purchase" => SumBits(ReversalsOf(o))' = BitsCovered(o, ReversedCents(o)')
    <3>1. ASSUME o.type = "purchase"
          PROVE  /\ SumBits(ReversalsOf(o)) = BitsCovered(o, ReversedCents(o))
                 /\ x.bits = BitsCovered(o, ReversedCents(o) + x.cents) - BitsCovered(o, ReversedCents(o))
                 /\ o.cents \in Nat \ {0}
      BY <1>4, <3>1 DEF JournalInv, ReversalsAddUp, ReceiptsSound, Sound, BitsToReverse
    <3>2. ASSUME o.type = "purchase", NEW n \in Nat PROVE BitsCovered(o, n) \in Int
      <4>1. o.bits * n \in Int
        BY <1>4
      <4> QED
        BY <3>1, <3>2, <4>1, RoundType DEF BitsCovered
    <3>3. ReversedCents(o) + x.cents \in Nat
      BY <1>4
    <3> QED
      BY <1>3, <1>4, <3>1, <3>2, <3>3
  <2>3. ASSUME NEW t \in txns', t.type = "purchase"
        PROVE  SumBits(ReversalsOf(t))' = BitsCovered(t, ReversedCents(t)')
    <3>1. t \in txns
      BY <1>4, <2>3
    <3>2. CASE t = o
      BY <2>2, <2>3, <3>2
    <3>3. CASE t # o
      BY <1>2, <2>3, <3>1, <3>3 DEF JournalInv, ReversalsAddUp
    <3> QED
      BY <3>2, <3>3
  <2> QED
    BY <2>1, <2>3 DEF ReversalsAddUp
<1> QED
  BY <1>1, <1>5, <1>6 DEF JournalInv

----------------------------------------------------------------------------
(* The inductive invariant, and the three parts of it every posting step   *)
(* establishes.                                                            *)

\* A transaction settling an intent settles one that exists.
IntentsKnown == \A t \in txns : t.intent # None => intents[t.intent] # NoIntent

LedgerInv == TypeOK /\ JournalInv /\ SpendableNonNegative /\ IntentsKnown

\* What x does to each spendable account is covered.
Covered(x) ==
    \A a \in SpendableAccounts :
        x.type = "adjustment" \/ x.entries[a] >= 0 \/ balance[a] + x.entries[a] >= 0

\* A transaction with a fresh key is what post() writes.
LEMMA PostAccepts ==
    ASSUME NEW x \in Txn, x.key \notin UsedKeys, Post(x)
    PROVE  Accepted(x) /\ balance' = balance ++ x.entries
  BY DEF Post, Accepted, ledgerVars

\* A posted transaction moves each balance by its entry.
LEMMA BalancePosting ==
    ASSUME LedgerInv, NEW x, Accepted(x), balance' = balance ++ x.entries, Covered(x)
    PROVE  balance' \in EntrySet /\ SpendableNonNegative'
<1>1. balance \in EntrySet /\ x.entries \in EntrySet /\ txns' = txns \cup {x}
  BY DEF LedgerInv, TypeOK, Accepted, Txn
<1>2. balance' \in EntrySet /\ \A a \in Accounts : balance'[a] = balance[a] + x.entries[a]
  BY <1>1, AddLaw
<1>3. ASSUME NEW a \in SpendableAccounts, \A t \in txns' : t.type = "adjustment" => t.entries[a] >= 0
      PROVE  balance'[a] >= 0
  <2>1. a \in Accounts /\ balance[a] \in Int /\ x.entries[a] \in Int
    BY <1>1, SpendableApart DEF EntrySet
  <2>2. balance[a] >= 0 /\ (x.type = "adjustment" => x.entries[a] >= 0)
    BY <1>1, <1>3 DEF LedgerInv, SpendableNonNegative
  <2>3. x.entries[a] >= 0 \/ balance[a] + x.entries[a] >= 0
    BY <2>2 DEF Covered
  <2> QED
    BY <1>2, <2>1, <2>2, <2>3
<1> QED
  BY <1>2, <1>3 DEF SpendableNonNegative

\* A posting that reverses nothing.
LEMMA PlainStep ==
    ASSUME LedgerInv, NEW x \in Txn, x.key \notin UsedKeys, Post(x), Covered(x),
           x.type \notin {"refund", "chargeback"},
           Sound(x)
    PROVE  /\ JournalInv' /\ txns' \subseteq Txn /\ balance' \in EntrySet /\ SpendableNonNegative'
           /\ txns' = txns \cup {x}
<1>1. Accepted(x) /\ balance' = balance ++ x.entries
  BY PostAccepts
<1>2. JournalInv'
  BY <1>1, PlainPosting DEF LedgerInv
<1>3. balance' \in EntrySet /\ SpendableNonNegative'
  BY <1>1, BalancePosting
<1> QED
  BY <1>1, <1>2, <1>3 DEF JournalInv, Accepted

\* A posting that reverses o.
LEMMA ReversalStep ==
    ASSUME LedgerInv, NEW x \in Txn, x.key \notin UsedKeys, Post(x), Covered(x), NEW o \in txns,
           x.reverses = o.key, x.type \in {"refund", "chargeback"},
           o.type \in {"purchase", "donation"},
           o.receipt # None => x.cents =< o.cents - ReversedCents(o),
           o.type = "purchase" => x.bits = BitsToReverse(o, ReversedCents(o), x.cents),
           o.receipt = None => x.bits =< RefundableBits(o)
    PROVE  /\ JournalInv' /\ txns' \subseteq Txn /\ balance' \in EntrySet /\ SpendableNonNegative'
           /\ txns' = txns \cup {x}
<1>1. Accepted(x) /\ balance' = balance ++ x.entries
  BY PostAccepts
<1>2. JournalInv'
  BY <1>1, ReversalPosting DEF LedgerInv
<1>3. balance' \in EntrySet /\ SpendableNonNegative'
  BY <1>1, BalancePosting
<1> QED
  BY <1>1, <1>2, <1>3 DEF JournalInv, Accepted

\* The journal, balances and overdraft parts hold where nothing is posted.
LEMMA NothingPosted ==
    ASSUME LedgerInv, UNCHANGED ledgerVars
    PROVE  JournalInv' /\ txns' \subseteq Txn /\ balance' \in EntrySet /\ SpendableNonNegative'
  BY DEF LedgerInv, TypeOK, JournalInv, KeysUnique, ReceiptsUnique, ReversalsKnown, ReceiptsSound,
         ReversedWithinPaid, ReversalsAddUp, SpendableNonNegative, ledgerVars, ReversedCents, Sound,
         ReversalsOf, RefundsOf, BitsCovered, SumBits, SumCents

\* The empty ledger satisfies the invariant.
LEMMA InitInv == Init => LedgerInv
<1> SUFFICES ASSUME Init PROVE LedgerInv
  OBVIOUS
<1>1. txns = {} /\ balance \in EntrySet /\ \A a \in Accounts : balance[a] = 0
  BY DEF Init, LedgerInit, NoEntries, EntrySet
<1>2. TypeOK
  BY <1>1 DEF Init, TypeOK
<1>3. JournalInv
  BY <1>1, FS_EmptySet DEF JournalInv, KeysUnique, ReceiptsUnique, ReversalsKnown, ReceiptsSound,
         ReversedWithinPaid, ReversalsAddUp
<1>4. SpendableNonNegative
  BY <1>1, SpendableApart DEF SpendableNonNegative
<1> QED
  BY <1>1, <1>2, <1>3, <1>4 DEF LedgerInv, IntentsKnown

----------------------------------------------------------------------------
(* One lemma per action.                                                   *)

\* A gift preserves it: the giver's credit was checked.
LEMMA TransferInv ==
    ASSUME LedgerInv, NEW k \in Keys, NEW from \in Users, NEW to \in Users, NEW amount \in BitAmounts,
           Transfer(k, from, to, amount)
    PROVE  LedgerInv'
<1> DEFINE e == Entry(Credit(from), -amount) ++ Entry(Payable(to), amount)
           x == [NewTxn(k, "donation", now, e) EXCEPT !.from = from, !.to = to, !.bits = amount]
<1>1. amount \in Nat /\ -amount \in Int /\ now \in Nat /\ k \notin UsedKeys /\ Post(x)
  BY VibesAssumption DEF Transfer, LedgerInv, TypeOK
<1>2. e \in EntrySet /\ \A a \in Accounts :
        e[a] = (IF a = Credit(from) THEN -amount ELSE 0) + (IF a = Payable(to) THEN amount ELSE 0)
  BY <1>1, EntryLaw, AddLaw, AccountTypes
<1>3. Credit(from) \in Accounts /\ balance[Credit(from)] \in Int /\ balance[Credit(from)] >= amount
  BY AccountTypes DEF Transfer, HasFunds, LedgerInv, TypeOK, EntrySet
<1> HIDE DEF e
<1>4. /\ x \in Txn /\ x.key = k /\ x.type = "donation" /\ x.receipt = None /\ x.entries = e
      /\ x.to = to /\ x.intent = None
  BY <1>1, <1>2 DEF NewTxn, Txn
<1> HIDE DEF x
<1>5. Covered(x)
  <2> SUFFICES ASSUME NEW a \in SpendableAccounts PROVE x.entries[a] >= 0 \/ balance[a] + x.entries[a] >= 0
    BY DEF Covered
  <2>1. a \in Accounts
    BY SpendableApart
  <2>2. a = Credit(from) => a # Payable(to)
    BY DEF Credit, Payable
  <2> QED
    BY <1>1, <1>2, <1>3, <1>4, <2>1, <2>2
<1>6. Sound(x)
  BY <1>4 DEF Sound
<1>7. /\ JournalInv' /\ txns' \subseteq Txn /\ balance' \in EntrySet /\ SpendableNonNegative'
      /\ txns' = txns \cup {x}
  BY <1>1, <1>4, <1>5, <1>6, PlainStep
<1> QED
  BY <1>4, <1>7 DEF LedgerInv, TypeOK, IntentsKnown, Transfer

\* Recycling preserves it: the payable was checked.
LEMMA RecycleInv ==
    ASSUME LedgerInv, NEW k \in Keys, NEW u \in Users, NEW amount \in BitAmounts, Recycle(k, u, amount)
    PROVE  LedgerInv'
<1> DEFINE e == Entry(Payable(u), -amount) ++ Entry(Credit(u), amount)
           x == [NewTxn(k, "recycle", now, e) EXCEPT !.from = u, !.to = u, !.bits = amount]
<1>1. amount \in Nat /\ -amount \in Int /\ now \in Nat /\ k \notin UsedKeys /\ Post(x)
  BY VibesAssumption DEF Recycle, LedgerInv, TypeOK
<1>2. e \in EntrySet /\ \A a \in Accounts :
        e[a] = (IF a = Payable(u) THEN -amount ELSE 0) + (IF a = Credit(u) THEN amount ELSE 0)
  BY <1>1, EntryLaw, AddLaw, AccountTypes
<1>3. balance[Payable(u)] \in Int /\ balance[Payable(u)] >= amount
  BY AccountTypes DEF Recycle, HasFunds, LedgerInv, TypeOK, EntrySet
<1> HIDE DEF e
<1>4. /\ x \in Txn /\ x.key = k /\ x.type = "recycle" /\ x.receipt = None /\ x.entries = e
      /\ x.intent = None
  BY <1>1, <1>2 DEF NewTxn, Txn
<1> HIDE DEF x
<1>5. Covered(x)
  <2> SUFFICES ASSUME NEW a \in SpendableAccounts PROVE x.entries[a] >= 0 \/ balance[a] + x.entries[a] >= 0
    BY DEF Covered
  <2>1. a \in Accounts
    BY SpendableApart
  <2>2. a = Payable(u) => a # Credit(u)
    BY DEF Credit, Payable
  <2> QED
    BY <1>1, <1>2, <1>3, <1>4, <2>1, <2>2
<1>6. Sound(x)
  BY <1>4 DEF Sound
<1>7. /\ JournalInv' /\ txns' \subseteq Txn /\ balance' \in EntrySet /\ SpendableNonNegative'
      /\ txns' = txns \cup {x}
  BY <1>1, <1>4, <1>5, <1>6, PlainStep
<1> QED
  BY <1>4, <1>7 DEF LedgerInv, TypeOK, IntentsKnown, Recycle

\* Refunding a gift preserves it: no more than remains, out of what is held.
LEMMA RefundTransferInv ==
    ASSUME LedgerInv, NEW k \in Keys, NEW orig \in txns, NEW asked \in BitAmounts \cup {None},
           RefundTransfer(k, orig, asked)
    PROVE  LedgerInv'
<1> DEFINE amount == IF asked = None THEN RefundableBits(orig) ELSE asked
           e == Entry(Payable(orig.to), -amount) ++ Entry(Credit(orig.from), amount)
           x == [NewTxn(k, "refund", now, e)
                 EXCEPT !.reverses = orig.key, !.from = orig.to, !.to = orig.from, !.bits = amount]
<1>1. /\ orig.type = "donation" /\ orig.receipt = None /\ orig.key \in Keys
      /\ orig.from \in Users /\ orig.to \in Users /\ orig.bits \in Nat
  BY DEF RefundTransfer, LedgerInv, TypeOK, Txn, JournalInv, ReceiptsSound, Sound
<1>2. RefundableBits(orig) \in Nat
  <2>1. SumBits(RefundsOf(orig)) \in Nat /\ SumBits(RefundsOf(orig)) =< orig.bits
    BY <1>1, SumsOfReversals DEF LedgerInv, JournalInv, ReversedWithinPaid
  <2> QED
    BY <1>1, <2>1 DEF RefundableBits
<1>3. /\ amount \in Nat /\ -amount \in Int /\ now \in Nat /\ k \notin UsedKeys /\ Post(x)
      /\ amount =< RefundableBits(orig) /\ HasFunds(Payable(orig.to), amount)
  BY <1>2, VibesAssumption DEF RefundTransfer, LedgerInv, TypeOK
<1> HIDE DEF amount
<1>4. e \in EntrySet /\ \A a \in Accounts :
        e[a] = (IF a = Payable(orig.to) THEN -amount ELSE 0) + (IF a = Credit(orig.from) THEN amount ELSE 0)
  BY <1>1, <1>3, EntryLaw, AddLaw, AccountTypes
<1>5. balance[Payable(orig.to)] \in Int /\ balance[Payable(orig.to)] >= amount
  BY <1>1, <1>3, AccountTypes DEF HasFunds, LedgerInv, TypeOK, EntrySet
<1> HIDE DEF e
<1>6. /\ x \in Txn /\ x.key = k /\ x.type = "refund" /\ x.receipt = None /\ x.entries = e
      /\ x.intent = None /\ x.reverses = orig.key /\ x.bits = amount
  BY <1>1, <1>3, <1>4 DEF NewTxn, Txn
<1> HIDE DEF x
<1>7. Covered(x)
  <2> SUFFICES ASSUME NEW a \in SpendableAccounts PROVE x.entries[a] >= 0 \/ balance[a] + x.entries[a] >= 0
    BY DEF Covered
  <2>1. a \in Accounts
    BY SpendableApart
  <2>2. a = Payable(orig.to) => a # Credit(orig.from)
    BY DEF Credit, Payable
  <2> QED
    BY <1>3, <1>4, <1>5, <1>6, <2>1, <2>2
<1>8. /\ JournalInv' /\ txns' \subseteq Txn /\ balance' \in EntrySet /\ SpendableNonNegative'
      /\ txns' = txns \cup {x}
  BY <1>1, <1>3, <1>6, <1>7, ReversalStep
<1> QED
  BY <1>6, <1>8 DEF LedgerInv, TypeOK, IntentsKnown, RefundTransfer

\* What a receipt does to the accounts it touches.
LEMMA ReceiptLaw ==
    ASSUME NEW p \in Providers, NEW paid \in Nat, NEW bits \in Nat, NEW target \in SpendableAccounts
    PROVE  /\ ReceiptEntries(p, paid, bits, target) \in EntrySet
           /\ \A a \in SpendableAccounts : ReceiptEntries(p, paid, bits, target)[a] >= 0
<1>1. ValueCents(bits) \in Nat /\ -paid \in Int /\ -bits \in Int /\ paid - ValueCents(bits) \in Int
  BY ValueNat
<1>2. target \in Accounts
  BY SpendableApart
<1> DEFINE e1 == Entry(Clearing(p), -paid)
           e2 == Entry(Revenue, paid - ValueCents(bits))
           e3 == Entry(FxCents, ValueCents(bits))
           e4 == Entry(FxBits, -bits)
           e5 == Entry(target, bits)
<1>3. e1 \in EntrySet /\ e2 \in EntrySet /\ e3 \in EntrySet /\ e4 \in EntrySet /\ e5 \in EntrySet
  BY <1>1, <1>2, EntryLaw, AccountTypes
<1>4. ASSUME NEW a \in SpendableAccounts
      PROVE  e1[a] = 0 /\ e2[a] = 0 /\ e3[a] = 0 /\ e4[a] = 0 /\ e5[a] \in Nat
  BY <1>1, <1>2, EntryLaw, AccountTypes, SpendableApart
<1> HIDE DEF e1, e2, e3, e4, e5
<1>5. (e1 ++ e2) \in EntrySet /\ (e1 ++ e2 ++ e3) \in EntrySet /\ (e1 ++ e2 ++ e3 ++ e4) \in EntrySet
      /\ (e1 ++ e2 ++ e3 ++ e4 ++ e5) \in EntrySet
  BY <1>3, AddLaw
<1>6. ASSUME NEW a \in SpendableAccounts
      PROVE  (e1 ++ e2 ++ e3 ++ e4 ++ e5)[a] >= 0
  <2>1. a \in Accounts
    BY SpendableApart
  <2>2. (e1 ++ e2 ++ e3 ++ e4 ++ e5)[a] = e1[a] + e2[a] + e3[a] + e4[a] + e5[a]
    BY <1>3, <1>5, <2>1, AddLaw
  <2> QED
    BY <1>4, <2>2
<1> QED
  BY <1>5, <1>6 DEF e1, e2, e3, e4, e5, ReceiptEntries

\* A tip through a provider preserves it: a fresh receipt, only credited.
LEMMA TipFromReceiptInv ==
    ASSUME LedgerInv, NEW k \in Keys \ UsedKeys, NEW ref \in Refs, NEW p \in Providers,
           NEW from \in Users \cup {None}, NEW to \in Users, NEW paid \in CentAmounts,
           TipFromReceipt(k, ref, p, from, to, paid)
    PROVE  LedgerInv'
<1> DEFINE bits == BitsForValueCents(paid)
           e == ReceiptEntries(p, paid, bits, Payable(to))
           x == [NewTxn(k, "donation", now, e)
                 EXCEPT !.from = from, !.to = to, !.provider = p, !.receipt = ref,
                        !.bits = bits, !.cents = paid]
<1>1. paid \in Nat \ {0} /\ now \in Nat /\ Post(x)
  BY VibesAssumption DEF TipFromReceipt, LedgerInv, TypeOK
<1>2. bits \in Nat
  BY <1>1, BitsForValueNat
<1>3. Payable(to) \in SpendableAccounts
  BY DEF SpendableAccounts
<1> HIDE DEF bits
<1>4. e \in EntrySet /\ \A a \in SpendableAccounts : e[a] >= 0
  BY <1>1, <1>2, <1>3, ReceiptLaw
<1> HIDE DEF e
<1>5. /\ x \in Txn /\ x.key = k /\ x.type = "donation" /\ x.receipt = ref /\ x.entries = e
      /\ x.to = to /\ x.intent = None /\ x.cents = paid /\ x.provider = p
  BY <1>1, <1>2, <1>4 DEF NewTxn, Txn
<1> HIDE DEF x
<1>6. Sound(x) /\ Covered(x)
  BY <1>1, <1>4, <1>5 DEF Sound, Covered
<1>7. /\ JournalInv' /\ txns' \subseteq Txn /\ balance' \in EntrySet /\ SpendableNonNegative'
      /\ txns' = txns \cup {x}
  BY <1>1, <1>5, <1>6, PlainStep
<1> QED
  BY <1>5, <1>7 DEF LedgerInv, TypeOK, IntentsKnown, TipFromReceipt

\* Settling a purchase preserves it: a fresh receipt, only credited.
LEMMA SettlePurchaseInv ==
    ASSUME LedgerInv, NEW k \in Keys \ UsedKeys, NEW ref \in Refs, NEW p \in Providers,
           NEW i \in Intents \cup {None}, NEW u \in Users \cup {None}, NEW paid \in CentAmounts,
           NEW explicit \in BitAmounts \cup {None}, SettlePurchase(k, ref, p, i, u, paid, explicit)
    PROVE  LedgerInv'
<1> DEFINE subject == IF i = None THEN u ELSE intents[i].subject
           bits == BoughtBits(i, paid, explicit)
           e == ReceiptEntries(p, paid, bits, Credit(subject))
           x == [NewTxn(k, "purchase", now, e)
                 EXCEPT !.to = subject, !.provider = p, !.receipt = ref, !.intent = i,
                        !.bits = bits, !.cents = paid]
<1>1. paid \in Nat \ {0} /\ now \in Nat /\ Post(x) /\ None \notin Intents
  BY VibesAssumption DEF SettlePurchase, LedgerInv, TypeOK
<1>2. i # None => i \in Intents /\ intents[i] \in IntentRow /\ intents[i] # NoIntent
  BY DEF SettlePurchase, IntentOpen, LedgerInv, TypeOK
<1>3. subject \in Users
  BY <1>2 DEF SettlePurchase, IntentRow
<1>4. bits \in Nat
  <2>1. i # None => intents[i].bits \in Nat
    BY <1>2, VibesAssumption DEF IntentRow
  <2>2. BitsForPriceCents(paid) \in Nat
    BY <1>1, BoughtNat
  <2> QED
    BY <2>1, <2>2, VibesAssumption DEF BoughtBits
<1>5. Credit(subject) \in SpendableAccounts
  BY <1>3 DEF SpendableAccounts
<1> HIDE DEF bits, subject
<1>6. e \in EntrySet /\ \A a \in SpendableAccounts : e[a] >= 0
  BY <1>1, <1>4, <1>5, ReceiptLaw
<1> HIDE DEF e
<1>7. /\ x \in Txn /\ x.key = k /\ x.type = "purchase" /\ x.receipt = ref /\ x.entries = e
      /\ x.to = subject /\ x.intent = i /\ x.cents = paid /\ x.provider = p
  BY <1>1, <1>3, <1>4, <1>6 DEF NewTxn, Txn
<1> HIDE DEF x
<1>8. Sound(x) /\ Covered(x)
  BY <1>1, <1>3, <1>6, <1>7, VibesAssumption DEF Sound, Covered
<1>9. /\ JournalInv' /\ txns' \subseteq Txn /\ balance' \in EntrySet /\ SpendableNonNegative'
      /\ txns' = txns \cup {x}
  BY <1>1, <1>7, <1>8, PlainStep
<1>10. /\ intents' = IF i = None THEN intents
                     ELSE [intents EXCEPT ![i] = [intents[i] EXCEPT !.status = "settled", !.settledTxn = k]]
       /\ UNCHANGED <<cashouts, now>>
  BY DEF SettlePurchase
<1>11. i # None => [intents[i] EXCEPT !.status = "settled", !.settledTxn = k] \in IntentRow
  BY <1>2 DEF IntentRow
<1>12. intents' \in [Intents -> IntentRow \cup {NoIntent}]
  BY <1>2, <1>10, <1>11 DEF LedgerInv, TypeOK
<1>13. TypeOK'
  BY <1>9, <1>10, <1>12 DEF LedgerInv, TypeOK
<1>14. IntentsKnown'
  <2>1. i # None => [intents[i] EXCEPT !.status = "settled", !.settledTxn = k] # NoIntent
    BY <1>2 DEF IntentRow, NoIntent
  <2>2. ASSUME NEW j \in Intents, intents[j] # NoIntent PROVE intents'[j] # NoIntent
    BY <1>10, <2>1, <2>2 DEF LedgerInv, TypeOK
  <2>3. i # None => intents'[i] # NoIntent
    BY <1>2, <1>10, <2>1 DEF LedgerInv, TypeOK
  <2>4. \A t \in txns : t.intent # None => t.intent \in Intents /\ intents[t.intent] # NoIntent
    BY DEF LedgerInv, IntentsKnown, TypeOK, Txn
  <2> QED
    BY <1>7, <1>9, <2>2, <2>3, <2>4 DEF IntentsKnown
<1> QED
  BY <1>9, <1>13, <1>14 DEF LedgerInv

----------------------------------------------------------------------------
(* Cashouts.                                                               *)

\* Requesting a cashout preserves it: the source account was checked.
LEMMA RequestCashoutInv ==
    ASSUME LedgerInv, NEW k \in Keys, NEW c \in Cashouts, NEW u \in Users,
           NEW p \in Projects \cup {None}, NEW amount \in BitAmounts, RequestCashout(k, c, u, p, amount)
    PROVE  LedgerInv'
<1> DEFINE source == IF p = None THEN Payable(u) ELSE ProjectPayable(p)
           e == CashoutEntries(u, p, amount)
           x == [NewTxn(k, "cashout_request", now, e)
                 EXCEPT !.from = u, !.cashout = c, !.bits = amount, !.cents = ValueCents(amount)]
           row == [status |-> "requested", subject |-> u, project |-> p, bits |-> amount,
                   cents |-> ValueCents(amount), escrowUntil |-> now + EscrowDays,
                   requestTxn |-> k, settleTxn |-> None, payoutRef |-> None]
<1>1. /\ amount \in Nat /\ -amount \in Int /\ now \in Nat /\ k \notin UsedKeys /\ Post(x)
      /\ HasFunds(source, amount) /\ cashouts' = [cashouts EXCEPT ![c] = row] /\ UNCHANGED <<intents, now>>
  BY VibesAssumption DEF RequestCashout, LedgerInv, TypeOK
<1>2. ValueCents(amount) \in Nat /\ now + EscrowDays \in Nat
  BY <1>1, ValueNat, VibesAssumption
<1>3. source \in Accounts /\ source # Pending(u)
  BY AccountTypes DEF Payable, ProjectPayable, Pending
<1>4. e \in EntrySet /\ \A a \in Accounts :
        e[a] = (IF a = source THEN -amount ELSE 0) + (IF a = Pending(u) THEN amount ELSE 0)
  <2>1. CASE p = None
    BY <1>1, <2>1, EntryLaw, AddLaw, AccountTypes DEF CashoutEntries
  <2>2. CASE p # None
    <3> DEFINE e1 == Entry(ProjectPayable(p), -amount)
               e2 == Entry(Payable(u), amount)
               e3 == Entry(Payable(u), -amount)
               e4 == Entry(Pending(u), amount)
    <3>1. e1 \in EntrySet /\ e2 \in EntrySet /\ e3 \in EntrySet /\ e4 \in EntrySet
      BY <1>1, <2>2, EntryLaw, AccountTypes
    <3>2. \A a \in Accounts :
            /\ e1[a] = IF a = source THEN -amount ELSE 0
            /\ e2[a] = IF a = Payable(u) THEN amount ELSE 0
            /\ e3[a] = IF a = Payable(u) THEN -amount ELSE 0
            /\ e4[a] = IF a = Pending(u) THEN amount ELSE 0
      BY <1>1, <2>2, EntryLaw, AccountTypes
    <3> HIDE DEF e1, e2, e3, e4
    <3>3. (e1 ++ e2) \in EntrySet /\ (e1 ++ e2 ++ e3) \in EntrySet /\ (e1 ++ e2 ++ e3 ++ e4) \in EntrySet
      BY <3>1, AddLaw
    <3>4. \A a \in Accounts : (e1 ++ e2 ++ e3 ++ e4)[a] = e1[a] + e2[a] + e3[a] + e4[a]
      BY <3>1, <3>3, AddLaw
    <3>5. e = e1 ++ e2 ++ e3 ++ e4
      BY <2>2 DEF CashoutEntries, e1, e2, e3, e4
    <3> HIDE DEF e
    <3> QED
      BY <1>1, <3>2, <3>3, <3>4, <3>5
  <2> QED
    BY <2>1, <2>2
<1>5. balance[source] \in Int /\ balance[source] >= amount
  BY <1>1, <1>3 DEF HasFunds, LedgerInv, TypeOK, EntrySet
<1> HIDE DEF e
<1>6. /\ x \in Txn /\ x.key = k /\ x.type = "cashout_request" /\ x.receipt = None /\ x.entries = e
      /\ x.intent = None
  BY <1>1, <1>2, <1>4 DEF NewTxn, Txn
<1> HIDE DEF x, source
<1>7. Covered(x)
  <2> SUFFICES ASSUME NEW a \in SpendableAccounts PROVE x.entries[a] >= 0 \/ balance[a] + x.entries[a] >= 0
    BY DEF Covered
  <2>1. a \in Accounts
    BY SpendableApart
  <2> QED
    BY <1>1, <1>3, <1>4, <1>5, <1>6, <2>1
<1>8. Sound(x)
  BY <1>6 DEF Sound
<1>9. /\ JournalInv' /\ txns' \subseteq Txn /\ balance' \in EntrySet /\ SpendableNonNegative'
      /\ txns' = txns \cup {x}
  BY <1>1, <1>6, <1>7, <1>8, PlainStep
<1>10. row \in CashoutRow
  BY <1>1, <1>2 DEF CashoutRow
<1> HIDE DEF row
<1>11. cashouts' \in [Cashouts -> CashoutRow \cup {NoCashout}]
  BY <1>1, <1>10 DEF LedgerInv, TypeOK
<1> QED
  BY <1>1, <1>6, <1>9, <1>11 DEF LedgerInv, TypeOK, IntentsKnown

\* What a decided-on cashout row holds.
LEMMA CashoutRowLaw ==
    ASSUME NEW r \in CashoutRow
    PROVE  /\ r.subject \in Users /\ r.requestTxn \in Keys
           /\ r.bits \in Nat /\ r.cents \in Nat /\ -r.bits \in Int /\ -r.cents \in Int
<1>1. r.subject \in Users /\ r.requestTxn \in Keys /\ r.bits \in BitAmounts /\ r.cents \in Nat
  BY DEF CashoutRow
<1>2. r.bits \in Nat
  BY <1>1, VibesAssumption
<1> QED
  BY <1>1, <1>2

\* Paying a cashout preserves it: no spendable account is touched.
LEMMA ApproveCashoutInv ==
    ASSUME LedgerInv, NEW k \in Keys \ UsedKeys, NEW c \in Cashouts, NEW p \in Providers, NEW ref \in Refs,
           ApproveCashout(k, c, p, ref)
    PROVE  LedgerInv'
<1> DEFINE row == cashouts[c]
           e1 == Entry(Pending(row.subject), -row.bits)
           e2 == Entry(FxBits, row.bits)
           e3 == Entry(FxCents, -row.cents)
           e4 == Entry(PayoutClearing(p), row.cents)
           e == e1 ++ e2 ++ e3 ++ e4
           x == [NewTxn(k, "cashout_paid", now, e)
                 EXCEPT !.from = row.subject, !.provider = p, !.receipt = ref, !.cashout = c,
                        !.bits = row.bits, !.cents = row.cents]
           paid == [row EXCEPT !.status = "paid", !.settleTxn = k, !.payoutRef = ref]
<1>1. row \in CashoutRow
  BY DEF ApproveCashout, Undecided, LedgerInv, TypeOK, NoCashout
<1>2. row.subject \in Users /\ row.bits \in Nat /\ row.cents \in Nat /\ -row.bits \in Int /\ -row.cents \in Int
  BY <1>1, CashoutRowLaw
<1>3. now \in Nat /\ Post(x) /\ cashouts' = [cashouts EXCEPT ![c] = paid] /\ UNCHANGED <<intents, now>>
  BY DEF ApproveCashout, LedgerInv, TypeOK
<1>4. paid \in CashoutRow
  BY <1>1 DEF CashoutRow
<1> HIDE DEF row
<1>5. e1 \in EntrySet /\ e2 \in EntrySet /\ e3 \in EntrySet /\ e4 \in EntrySet
  BY <1>2, EntryLaw, AccountTypes
<1>6. ASSUME NEW a \in SpendableAccounts PROVE e1[a] = 0 /\ e2[a] = 0 /\ e3[a] = 0 /\ e4[a] = 0
  BY <1>2, EntryLaw, AccountTypes, SpendableApart
<1> HIDE DEF e1, e2, e3, e4
<1>7. (e1 ++ e2) \in EntrySet /\ (e1 ++ e2 ++ e3) \in EntrySet /\ e \in EntrySet
  BY <1>5, AddLaw
<1>8. \A a \in SpendableAccounts : e[a] >= 0
  <2> SUFFICES ASSUME NEW a \in SpendableAccounts PROVE e[a] = 0
    OBVIOUS
  <2>1. a \in Accounts
    BY SpendableApart
  <2>2. e[a] = e1[a] + e2[a] + e3[a] + e4[a]
    BY <1>5, <1>7, <2>1, AddLaw
  <2> QED
    BY <1>6, <2>2
<1> HIDE DEF e
<1>9. /\ x \in Txn /\ x.key = k /\ x.type = "cashout_paid" /\ x.entries = e /\ x.intent = None
  BY <1>2, <1>3, <1>7 DEF NewTxn, Txn
<1> HIDE DEF x, paid
<1>10. Sound(x) /\ Covered(x)
  BY <1>8, <1>9 DEF Sound, Covered
<1>11. /\ JournalInv' /\ txns' \subseteq Txn /\ balance' \in EntrySet /\ SpendableNonNegative'
       /\ txns' = txns \cup {x}
  BY <1>3, <1>9, <1>10, PlainStep
<1> QED
  BY <1>3, <1>4, <1>9, <1>11 DEF LedgerInv, TypeOK, IntentsKnown

\* Denying a cashout preserves it: the payable is only credited.
LEMMA DenyCashoutInv ==
    ASSUME LedgerInv, NEW k \in Keys \ UsedKeys, NEW c \in Cashouts, DenyCashout(k, c)
    PROVE  LedgerInv'
<1> DEFINE row == cashouts[c]
           e == Entry(Pending(row.subject), -row.bits) ++ Entry(Payable(row.subject), row.bits)
           x == [NewTxn(k, "cashout_denied", now, e)
                 EXCEPT !.to = row.subject, !.reverses = row.requestTxn, !.cashout = c, !.bits = row.bits]
           denied == [row EXCEPT !.status = "denied", !.settleTxn = k]
<1>1. row \in CashoutRow
  BY DEF DenyCashout, Undecided, LedgerInv, TypeOK, NoCashout
<1>2. row.subject \in Users /\ row.bits \in Nat /\ -row.bits \in Int /\ row.requestTxn \in Keys
  BY <1>1, CashoutRowLaw
<1>3. now \in Nat /\ Post(x) /\ cashouts' = [cashouts EXCEPT ![c] = denied] /\ UNCHANGED <<intents, now>>
  BY DEF DenyCashout, LedgerInv, TypeOK
<1>4. denied \in CashoutRow
  BY <1>1 DEF CashoutRow
<1> HIDE DEF row
<1>5. e \in EntrySet /\ \A a \in SpendableAccounts : e[a] >= 0
  BY <1>2, EntryLaw, AddLaw, AccountTypes, SpendableApart
<1> HIDE DEF e
<1>6. /\ x \in Txn /\ x.key = k /\ x.type = "cashout_denied" /\ x.entries = e /\ x.intent = None
  BY <1>2, <1>3, <1>5 DEF NewTxn, Txn
<1> HIDE DEF x, denied
<1>7. Sound(x) /\ Covered(x)
  BY <1>5, <1>6 DEF Sound, Covered
<1>8. /\ JournalInv' /\ txns' \subseteq Txn /\ balance' \in EntrySet /\ SpendableNonNegative'
      /\ txns' = txns \cup {x}
  BY <1>3, <1>6, <1>7, PlainStep
<1> QED
  BY <1>3, <1>4, <1>6, <1>8 DEF LedgerInv, TypeOK, IntentsKnown

----------------------------------------------------------------------------
(* Reversals of receipts, adjustments, and steps that post nothing.        *)

\* A reversal covers at least one cent and never more than remains.
LEMMA ReversalAmount ==
    ASSUME LedgerInv, NEW orig \in txns, orig.receipt # None, orig.type \in {"purchase", "donation"},
           NEW mode \in {"cumulative", "cents", "rest"}, NEW n \in CentAmounts
    PROVE  /\ CentsToReverse(orig, mode, n) \in Int
           /\ CentsToReverse(orig, mode, n) =< orig.cents - ReversedCents(orig)
<1>1. n \in Int /\ ReversedCents(orig) \in Nat /\ orig.cents \in Nat
  BY VibesAssumption, SumsOfReversals DEF LedgerInv, TypeOK, Txn
<1> DEFINE done == ReversedCents(orig)
           asked == CASE mode = "cumulative" -> n - done
                      [] mode = "cents" -> n
                      [] mode = "rest" -> orig.cents - done
<1>2. asked \in Int
  BY <1>1
<1>3. CentsToReverse(orig, mode, n) = AtMost(asked, orig.cents - done)
  BY DEF CentsToReverse
<1> HIDE DEF asked, done
<1>4. done \in Nat
  BY <1>1 DEF done
<1> QED
  BY <1>1, <1>2, <1>3, <1>4 DEF AtMost, done

\* What a purchase's reversal takes from each spendable account.
LEMMA PurchaseReversalLaw ==
    ASSUME LedgerInv, NEW orig \in txns, orig.type = "purchase", NEW kind \in {"refund", "chargeback"},
           NEW cents \in Nat
    PROVE  LET rev == PurchaseReversal(orig, kind, cents)
           IN  /\ rev.bits = BitsToReverse(orig, ReversedCents(orig), cents) /\ rev.bits \in Nat
               /\ rev.entries \in EntrySet
               /\ \A a \in SpendableAccounts : rev.entries[a] >= 0 \/ balance[a] + rev.entries[a] >= 0
<1> DEFINE done == ReversedCents(orig)
           bits == BitsToReverse(orig, done, cents)
           clawed == Clawable(orig, bits)
           value == ValueCents(clawed)
           nonFx == cents - value
           lossPart == IF kind = "chargeback" THEN nonFx ELSE AtMost(nonFx, ValueCents(bits - clawed))
           e1 == Entry(Credit(orig.to), -clawed)
           e2 == Entry(FxBits, clawed)
           e3 == Entry(FxCents, -value)
           e4 == Entry(Clearing(orig.provider), cents)
           e5 == Entry(Loss, -lossPart)
           e6 == Entry(Refunds, -(nonFx - lossPart))
           e == e1 ++ e2 ++ e3 ++ e4 ++ e5 ++ e6
<1>1. PurchaseReversal(orig, kind, cents) = [bits |-> bits, entries |-> e]
  BY DEF PurchaseReversal
<1>2. orig.to \in Users /\ orig.provider \in Providers /\ orig.bits \in Nat /\ orig.cents \in Nat \ {0}
      /\ done \in Nat
  <2>1. Sound(orig) /\ orig.bits \in Nat /\ orig.cents \in Nat
    BY DEF LedgerInv, TypeOK, Txn, JournalInv, ReceiptsSound
  <2> QED
    BY <2>1, SumsOfReversals DEF Sound, LedgerInv
<1> HIDE DEF done
<1>3. bits \in Nat
  <2> DEFINE m == orig.bits * done
             n == orig.bits * (done + cents)
  <2>1. m \in Int /\ n \in Int /\ m =< n
    <3>1. orig.bits * cents \in Nat /\ n = m + orig.bits * cents /\ m \in Int
      BY <1>2
    <3> QED
      BY <3>1
  <2>2. bits = Round(n, orig.cents) - Round(m, orig.cents)
    BY DEF BitsToReverse, BitsCovered
  <2> HIDE DEF m, n
  <2>3. Round(m, orig.cents) =< Round(n, orig.cents) /\ Round(m, orig.cents) \in Int /\ Round(n, orig.cents) \in Int
    BY <1>2, <2>1, RoundMonotone, RoundType
  <2> QED
    BY <2>2, <2>3
<1>4. Credit(orig.to) \in Accounts /\ balance[Credit(orig.to)] \in Int
  BY <1>2, AccountTypes DEF LedgerInv, TypeOK, EntrySet
<1> HIDE DEF bits
<1>5. /\ clawed \in Nat /\ clawed =< bits
      /\ clawed = 0 \/ clawed =< balance[Credit(orig.to)]
  BY <1>3, <1>4 DEF Clawable, AtLeast, AtMost
<1> HIDE DEF clawed
<1>6. value \in Nat /\ ValueCents(bits - clawed) \in Nat
  <2>1. bits - clawed \in Nat
    BY <1>3, <1>5
  <2> QED
    BY <1>5, <2>1, ValueNat
<1> HIDE DEF value
<1>7. nonFx \in Int /\ lossPart \in Int
  BY <1>6 DEF AtMost
<1> HIDE DEF nonFx, lossPart
<1>8. -clawed \in Int /\ -value \in Int /\ -lossPart \in Int /\ -(nonFx - lossPart) \in Int /\ cents \in Int
  BY <1>5, <1>6, <1>7
<1>9. /\ e1 \in EntrySet /\ e2 \in EntrySet /\ e3 \in EntrySet
      /\ e4 \in EntrySet /\ e5 \in EntrySet /\ e6 \in EntrySet
  BY <1>2, <1>5, <1>8, EntryLaw, AccountTypes
<1>10. ASSUME NEW a \in SpendableAccounts
       PROVE  /\ e1[a] = IF a = Credit(orig.to) THEN -clawed ELSE 0
              /\ e2[a] = 0 /\ e3[a] = 0 /\ e4[a] = 0 /\ e5[a] = 0 /\ e6[a] = 0
  <2>1. a \in Accounts /\ a \notin {FxBits, FxCents, Loss, Refunds, Clearing(orig.provider)}
    BY SpendableApart
  <2> QED
    BY <1>2, <1>5, <1>8, <2>1, EntryLaw, AccountTypes
<1> HIDE DEF e1, e2, e3, e4, e5, e6
<1>11. /\ (e1 ++ e2) \in EntrySet /\ (e1 ++ e2 ++ e3) \in EntrySet /\ (e1 ++ e2 ++ e3 ++ e4) \in EntrySet
       /\ (e1 ++ e2 ++ e3 ++ e4 ++ e5) \in EntrySet /\ e \in EntrySet
  BY <1>9, AddLaw
<1>12. ASSUME NEW a \in SpendableAccounts
       PROVE  e[a] >= 0 \/ balance[a] + e[a] >= 0
  <2>1. a \in Accounts /\ balance[a] \in Int
    BY SpendableApart DEF LedgerInv, TypeOK, EntrySet
  <2>2. e[a] = e1[a] + e2[a] + e3[a] + e4[a] + e5[a] + e6[a]
    BY <1>9, <1>11, <2>1, AddLaw
  <2>3. e[a] = IF a = Credit(orig.to) THEN -clawed ELSE 0
    BY <1>5, <1>10, <2>2
  <2> QED
    BY <1>5, <2>1, <2>3
<1> HIDE DEF e
<1> QED
  BY <1>1, <1>3, <1>11, <1>12 DEF bits, done

\* A tip's reversal leaves every spendable account alone.
LEMMA TipReversalLaw ==
    ASSUME NEW orig, orig.provider \in Providers, NEW kind \in {"refund", "chargeback"}, NEW cents \in Nat
    PROVE  LET rev == TipReversal(orig, kind, cents)
           IN  rev.bits = 0 /\ rev.entries \in EntrySet /\ \A a \in SpendableAccounts : rev.entries[a] >= 0
<1> DEFINE bearer == IF kind = "chargeback" THEN Loss ELSE Refunds
           e == Entry(Clearing(orig.provider), cents) ++ Entry(bearer, -cents)
<1>1. bearer \in Accounts /\ -cents \in Int /\ \A a \in SpendableAccounts : a # bearer
  BY AccountTypes, SpendableApart
<1> HIDE DEF bearer
<1>2. e \in EntrySet /\ \A a \in SpendableAccounts : e[a] >= 0
  BY <1>1, EntryLaw, AddLaw, AccountTypes, SpendableApart
<1> QED
  BY <1>2 DEF TipReversal, bearer

\* Reversing a receipt preserves it: capped in cents by what remains, in bits by what is held.
LEMMA ReverseReceiptInv ==
    ASSUME LedgerInv, NEW k \in Keys, NEW ref \in Refs \cup {None}, NEW origRef \in Refs,
           NEW kind \in {"refund", "chargeback"}, NEW mode \in {"cumulative", "cents", "rest"},
           NEW n \in CentAmounts, ReverseReceipt(k, ref, origRef, kind, mode, n)
    PROVE  LedgerInv'
<1> DEFINE orig == TxnByReceipt(origRef)
           cents == CentsToReverse(orig, mode, n)
           rev == IF orig.type = "purchase" THEN PurchaseReversal(orig, kind, cents)
                                            ELSE TipReversal(orig, kind, cents)
           x == [NewTxn(k, kind, now, rev.entries)
                 EXCEPT !.reverses = orig.key, !.from = orig.to, !.to = orig.from,
                        !.provider = orig.provider, !.receipt = ref, !.bits = rev.bits, !.cents = cents]
           over == orig.intent # None /\ ReversedCents(orig) + cents >= orig.cents
           gone == [intents[orig.intent] EXCEPT !.status = "refunded"]
<1>1. orig \in txns /\ orig.receipt = origRef /\ origRef # None
  BY VibesAssumption DEF ReverseReceipt, ReceiptUsed, TxnByReceipt
<1>2. /\ orig.type \in {"purchase", "donation"} /\ cents > 0 /\ Post(x) /\ k \notin UsedKeys
      /\ intents' = IF over THEN [intents EXCEPT ![orig.intent] = gone] ELSE intents
      /\ UNCHANGED <<cashouts, now>>
  BY DEF ReverseReceipt
<1> HIDE DEF orig
<1>3. cents \in Nat /\ cents =< orig.cents - ReversedCents(orig)
  BY <1>1, <1>2, ReversalAmount
<1>4. /\ orig.key \in Keys /\ orig.to \in Users /\ orig.from \in Users \cup {None}
      /\ orig.provider \in Providers /\ orig.intent \in Intents \cup {None}
      /\ orig.intent # None => intents[orig.intent] # NoIntent
  BY <1>1, <1>2 DEF LedgerInv, TypeOK, Txn, JournalInv, ReceiptsSound, Sound, IntentsKnown
<1> HIDE DEF cents
<1>5. /\ rev.bits \in Nat /\ rev.entries \in EntrySet
      /\ \A a \in SpendableAccounts : rev.entries[a] >= 0 \/ balance[a] + rev.entries[a] >= 0
      /\ orig.type = "purchase" => rev.bits = BitsToReverse(orig, ReversedCents(orig), cents)
  <2>1. CASE orig.type = "purchase"
    BY <1>1, <1>3, <2>1, PurchaseReversalLaw
  <2>2. CASE orig.type # "purchase"
    BY <1>3, <1>4, <2>2, TipReversalLaw
  <2> QED
    BY <2>1, <2>2
<1>6. now \in Nat
  BY DEF LedgerInv, TypeOK
<1> HIDE DEF rev
<1>7. /\ x \in Txn /\ x.key = k /\ x.type = kind /\ x.receipt = ref /\ x.entries = rev.entries
      /\ x.intent = None /\ x.reverses = orig.key /\ x.cents = cents /\ x.bits = rev.bits
  BY <1>3, <1>4, <1>5, <1>6 DEF NewTxn, Txn
<1> HIDE DEF x
<1>8. Covered(x)
  BY <1>5, <1>7 DEF Covered
<1>9. /\ JournalInv' /\ txns' \subseteq Txn /\ balance' \in EntrySet /\ SpendableNonNegative'
      /\ txns' = txns \cup {x}
  BY <1>1, <1>2, <1>3, <1>5, <1>7, <1>8, ReversalStep
<1>10. orig.intent # None => orig.intent \in Intents /\ gone \in IntentRow /\ gone # NoIntent
  <2>1. orig.intent # None => intents[orig.intent] \in IntentRow
    BY <1>4 DEF LedgerInv, TypeOK
  <2> QED
    BY <1>4, <2>1 DEF IntentRow, NoIntent
<1> HIDE DEF gone
<1>11. intents' \in [Intents -> IntentRow \cup {NoIntent}]
  BY <1>2, <1>10 DEF LedgerInv, TypeOK
<1>12. \A j \in Intents : intents[j] # NoIntent => intents'[j] # NoIntent
  BY <1>2, <1>10 DEF LedgerInv, TypeOK
<1>13. TypeOK'
  BY <1>2, <1>9, <1>11 DEF LedgerInv, TypeOK
<1>14. IntentsKnown'
  <2>1. \A t \in txns : t.intent # None => t.intent \in Intents /\ intents[t.intent] # NoIntent
    BY DEF LedgerInv, IntentsKnown, TypeOK, Txn
  <2> QED
    BY <1>7, <1>9, <1>12, <2>1 DEF IntentsKnown
<1> QED
  BY <1>9, <1>13, <1>14 DEF LedgerInv

\* An adjustment preserves it: whatever it overdraws, it names.
LEMMA AdjustInv ==
    ASSUME LedgerInv, NEW k \in Keys, NEW from \in Adjustable, NEW to \in Adjustable,
           NEW amount \in BitAmounts, Adjust(k, from, to, amount)
    PROVE  LedgerInv'
<1> DEFINE e == Entry(from, -amount) ++ Entry(to, amount)
           x == [NewTxn(k, "adjustment", now, e) EXCEPT !.bits = amount]
<1>1. amount \in Nat /\ -amount \in Int /\ now \in Nat /\ k \notin UsedKeys /\ Post(x)
  BY VibesAssumption DEF Adjust, LedgerInv, TypeOK
<1>2. e \in EntrySet
  BY <1>1, VibesAssumption, EntryLaw, AddLaw
<1> HIDE DEF e
<1>3. x \in Txn /\ x.key = k /\ x.type = "adjustment" /\ x.receipt = None /\ x.intent = None
  BY <1>1, <1>2 DEF NewTxn, Txn
<1> HIDE DEF x
<1>4. Sound(x) /\ Covered(x)
  BY <1>3 DEF Sound, Covered
<1>5. /\ JournalInv' /\ txns' \subseteq Txn /\ balance' \in EntrySet /\ SpendableNonNegative'
      /\ txns' = txns \cup {x}
  BY <1>1, <1>3, <1>4, PlainStep
<1> QED
  BY <1>3, <1>5 DEF LedgerInv, TypeOK, IntentsKnown, Adjust

\* A new intent preserves it.
LEMMA CreateIntentInv ==
    ASSUME LedgerInv, NEW i \in Intents, NEW u \in Users, NEW p \in Providers, NEW bits \in BitAmounts,
           CreateIntent(i, u, p, bits)
    PROVE  LedgerInv'
<1> DEFINE row == [status |-> "created", subject |-> u, provider |-> p, bits |-> bits,
                   amount |-> PriceCents(bits), settledTxn |-> None]
<1>1. intents' = [intents EXCEPT ![i] = row] /\ UNCHANGED <<txns, balance, cashouts, now>>
  BY DEF CreateIntent
<1>2. row \in IntentRow /\ row # NoIntent
  <2>1. PriceCents(bits) \in Nat
    BY PriceNat, VibesAssumption
  <2> QED
    BY <2>1 DEF IntentRow, NoIntent
<1>3. JournalInv' /\ txns' \subseteq Txn /\ balance' \in EntrySet /\ SpendableNonNegative'
  BY <1>1, NothingPosted DEF ledgerVars
<1> HIDE DEF row
<1>4. TypeOK'
  BY <1>1, <1>2, <1>3 DEF LedgerInv, TypeOK
<1>5. IntentsKnown'
  <2>1. \A t \in txns : t.intent # None => t.intent \in Intents /\ intents[t.intent] # NoIntent
    BY DEF LedgerInv, IntentsKnown, TypeOK, Txn
  <2> QED
    BY <1>1, <1>2, <2>1 DEF IntentsKnown, LedgerInv, TypeOK
<1> QED
  BY <1>3, <1>4, <1>5 DEF LedgerInv

\* A refused checkout preserves it.
LEMMA FailIntentInv ==
    ASSUME LedgerInv, NEW i \in Intents, FailIntent(i)
    PROVE  LedgerInv'
<1> DEFINE row == [intents[i] EXCEPT !.status = "failed"]
<1>1. intents' = [intents EXCEPT ![i] = row] /\ UNCHANGED <<txns, balance, cashouts, now>>
  BY DEF FailIntent
<1>2. row \in IntentRow /\ row # NoIntent
  <2>1. intents[i] \in IntentRow
    BY DEF FailIntent, LedgerInv, TypeOK, NoIntent
  <2> QED
    BY <2>1 DEF IntentRow, NoIntent
<1>3. JournalInv' /\ txns' \subseteq Txn /\ balance' \in EntrySet /\ SpendableNonNegative'
  BY <1>1, NothingPosted DEF ledgerVars
<1> HIDE DEF row
<1>4. TypeOK'
  BY <1>1, <1>2, <1>3 DEF LedgerInv, TypeOK
<1>5. IntentsKnown'
  <2>1. \A t \in txns : t.intent # None => t.intent \in Intents /\ intents[t.intent] # NoIntent
    BY DEF LedgerInv, IntentsKnown, TypeOK, Txn
  <2> QED
    BY <1>1, <1>2, <2>1 DEF IntentsKnown, LedgerInv, TypeOK
<1> QED
  BY <1>3, <1>4, <1>5 DEF LedgerInv

\* The clock, and steps of other components.
LEMMA IdleInv ==
    ASSUME LedgerInv, UNCHANGED <<txns, balance, intents, cashouts>>, now' \in Nat
    PROVE  LedgerInv'
<1>1. JournalInv' /\ txns' \subseteq Txn /\ balance' \in EntrySet /\ SpendableNonNegative'
  BY NothingPosted DEF ledgerVars
<1> QED
  BY <1>1 DEF LedgerInv, TypeOK, IntentsKnown

----------------------------------------------------------------------------
(* The invariant and what follows from it.                                 *)

\* Every step preserves the invariant.
LEMMA NextInv == LedgerInv /\ [Next]_vars => LedgerInv'
<1> SUFFICES ASSUME LedgerInv, [Next]_vars PROVE LedgerInv'
  OBVIOUS
<1>1. ASSUME NEW k \in Keys \ UsedKeys, PurchaseNext(k) PROVE LedgerInv'
  BY <1>1, SettlePurchaseInv, TipFromReceiptInv DEF PurchaseNext
<1>2. ASSUME NEW k \in Keys \ UsedKeys, TransferNext(k) PROVE LedgerInv'
  BY <1>2, TransferInv, RefundTransferInv, RecycleInv DEF TransferNext
<1>3. ASSUME NEW k \in Keys \ UsedKeys, CashoutNext(k) PROVE LedgerInv'
  BY <1>3, RequestCashoutInv, ApproveCashoutInv, DenyCashoutInv DEF CashoutNext
<1>4. ASSUME NEW k \in Keys \ UsedKeys, ReversalNext(k) PROVE LedgerInv'
  BY <1>4, ReverseReceiptInv DEF ReversalNext
<1>5. ASSUME NEW k \in Keys \ UsedKeys, NEW from \in Adjustable, NEW to \in Adjustable,
             NEW amount \in BitAmounts, Adjust(k, from, to, amount)
      PROVE  LedgerInv'
  BY <1>5, AdjustInv
<1>6. ASSUME NEW i \in Intents, NEW u \in Users, NEW p \in Providers, NEW bits \in BitAmounts,
             CreateIntent(i, u, p, bits)
      PROVE  LedgerInv'
  BY <1>6, CreateIntentInv
<1>7. ASSUME NEW i \in Intents, FailIntent(i) PROVE LedgerInv'
  BY <1>7, FailIntentInv
<1>8. CASE Tick
  <2>1. UNCHANGED <<txns, balance, intents, cashouts>> /\ now' \in Nat
    BY <1>8 DEF Tick, LedgerInv, TypeOK
  <2> QED
    BY <2>1, IdleInv
<1>9. CASE UNCHANGED vars
  <2>1. UNCHANGED <<txns, balance, intents, cashouts>> /\ now' \in Nat
    BY <1>9 DEF vars, LedgerInv, TypeOK
  <2> QED
    BY <2>1, IdleInv
<1> QED
  BY <1>1, <1>2, <1>3, <1>4, <1>5, <1>6, <1>7, <1>8, <1>9 DEF Next

\* Types, the journal's uniqueness and reversal bounds, and funds, in every reachable state.
THEOREM LedgerInvariant == Spec => []LedgerInv
  BY InitInv, NextInv, PTL DEF Spec

\* The rows and balances keep their types: every amount is a whole number that is
\* not negative, every balance an integer.
THEOREM TypeCorrect == Spec => []TypeOK
<1>1. LedgerInv => TypeOK
  BY DEF LedgerInv
<1> QED
  BY <1>1, LedgerInvariant, PTL

\* No interleaving of purchases, gifts, refunds, payouts and reversals overdraws
\* credit or a payable; only an adjustment that debits the account itself can
\* (requireFunds in ledger.js, the capped claw-back in reversals.js).
THEOREM NoOverdraft == Spec => []SpendableNonNegative
<1>1. LedgerInv => SpendableNonNegative
  BY DEF LedgerInv
<1> QED
  BY <1>1, LedgerInvariant, PTL

\* Whatever the provider reports, and however often, a receipt is never reversed
\* beyond what was paid, nor a gift refunded beyond what was given.
THEOREM NeverOverReversed == Spec => []ReversedWithinPaid
<1>1. LedgerInv => ReversedWithinPaid
  BY DEF LedgerInv, JournalInv
<1> QED
  BY <1>1, LedgerInvariant, PTL

\* However a refund is cut into parts, the bits called back are those the refunded
\* cents bought: rounding neither loses nor repeats any.
THEOREM PartialReversalsAddUp == Spec => []ReversalsAddUp
<1>1. LedgerInv => ReversalsAddUp
  BY DEF LedgerInv, JournalInv
<1> QED
  BY <1>1, LedgerInvariant, PTL

----------------------------------------------------------------------------
(* Accounts and what entries add up to.                                    *)

\* There are finitely many accounts.
LEMMA AccountsFinite ==
    /\ IsFiniteSet(Users) /\ IsFiniteSet(Cashouts)
    /\ IsFiniteSet(HeldAccounts) /\ IsFiniteSet(BitsAccounts) /\ IsFiniteSet(CentsAccounts)
<1>0. IsFiniteSet(Users) /\ IsFiniteSet(Projects) /\ IsFiniteSet(Providers) /\ IsFiniteSet(Cashouts)
  BY VibesAssumption
<1> DEFINE credits == {Credit(s) : s \in Users}
           payables == {Payable(s) : s \in Users}
           pendings == {Pending(s) : s \in Users}
           projects == {ProjectPayable(p) : p \in Projects}
           clearings == {Clearing(p) : p \in Providers}
           payouts == {PayoutClearing(p) : p \in Providers}
<1>2. IsFiniteSet(credits)
  <2> DEFINE f == [s \in Users |-> Credit(s)]
  <2>1. f \in [Users -> credits] /\ \A y \in credits : \E s \in Users : f[s] = y
    OBVIOUS
  <2> HIDE DEF f, credits
  <2> QED
    BY <1>0, <2>1, FiniteImage
<1>3. IsFiniteSet(payables)
  <2> DEFINE f == [s \in Users |-> Payable(s)]
  <2>1. f \in [Users -> payables] /\ \A y \in payables : \E s \in Users : f[s] = y
    OBVIOUS
  <2> HIDE DEF f, payables
  <2> QED
    BY <1>0, <2>1, FiniteImage
<1>4. IsFiniteSet(pendings)
  <2> DEFINE f == [s \in Users |-> Pending(s)]
  <2>1. f \in [Users -> pendings] /\ \A y \in pendings : \E s \in Users : f[s] = y
    OBVIOUS
  <2> HIDE DEF f, pendings
  <2> QED
    BY <1>0, <2>1, FiniteImage
<1>5. IsFiniteSet(projects)
  <2> DEFINE f == [s \in Projects |-> ProjectPayable(s)]
  <2>1. f \in [Projects -> projects] /\ \A y \in projects : \E s \in Projects : f[s] = y
    OBVIOUS
  <2> HIDE DEF f, projects
  <2> QED
    BY <1>0, <2>1, FiniteImage
<1>6. IsFiniteSet(clearings)
  <2> DEFINE f == [s \in Providers |-> Clearing(s)]
  <2>1. f \in [Providers -> clearings] /\ \A y \in clearings : \E s \in Providers : f[s] = y
    OBVIOUS
  <2> HIDE DEF f, clearings
  <2> QED
    BY <1>0, <2>1, FiniteImage
<1>7. IsFiniteSet(payouts)
  <2> DEFINE f == [s \in Providers |-> PayoutClearing(s)]
  <2>1. f \in [Providers -> payouts] /\ \A y \in payouts : \E s \in Providers : f[s] = y
    OBVIOUS
  <2> HIDE DEF f, payouts
  <2> QED
    BY <1>0, <2>1, FiniteImage
<1>8. HeldAccounts = (credits \cup payables \cup projects) \cup pendings
  BY DEF HeldAccounts, SpendableAccounts
<1>9. CentsAccounts = (((({FxCents} \cup {Revenue}) \cup {Refunds}) \cup {Loss}) \cup clearings) \cup payouts
  BY DEF CentsAccounts
<1>10. \A a : IsFiniteSet({a})
  BY FS_Singleton
<1> HIDE DEF credits, payables, pendings, projects, clearings, payouts
<1>11. IsFiniteSet(HeldAccounts)
  <2>1. IsFiniteSet(credits \cup payables)
    BY <1>2, <1>3, FS_Union
  <2>2. IsFiniteSet(credits \cup payables \cup projects)
    BY <1>5, <2>1, FS_Union
  <2> QED
    BY <1>4, <1>8, <2>2, FS_Union
<1>12. IsFiniteSet(BitsAccounts)
  BY <1>10, <1>11, FS_Union DEF BitsAccounts
<1>13. IsFiniteSet(CentsAccounts)
  <2>1. IsFiniteSet({FxCents} \cup {Revenue})
    BY <1>10, FS_Union
  <2>2. IsFiniteSet(({FxCents} \cup {Revenue}) \cup {Refunds})
    BY <1>10, <2>1, FS_Union
  <2>3. IsFiniteSet((({FxCents} \cup {Revenue}) \cup {Refunds}) \cup {Loss})
    BY <1>10, <2>2, FS_Union
  <2>4. IsFiniteSet(((({FxCents} \cup {Revenue}) \cup {Refunds}) \cup {Loss}) \cup clearings)
    BY <1>6, <2>3, FS_Union
  <2> QED
    BY <1>7, <1>9, <2>4, FS_Union
<1> QED
  BY <1>0, <1>11, <1>12, <1>13

\* Accounts of the two currencies are apart, and each address has one.
LEMMA Currencies ==
    /\ \A u \in Users : Credit(u) \in BitsAccounts /\ Payable(u) \in BitsAccounts /\ Pending(u) \in BitsAccounts
    /\ \A p \in Projects : ProjectPayable(p) \in BitsAccounts
    /\ \A p \in Providers : Clearing(p) \in CentsAccounts /\ PayoutClearing(p) \in CentsAccounts
    /\ FxBits \in BitsAccounts
    /\ FxCents \in CentsAccounts /\ Revenue \in CentsAccounts /\ Refunds \in CentsAccounts /\ Loss \in CentsAccounts
    /\ \A a \in BitsAccounts : a[3] = BITS /\ a \notin CentsAccounts
    /\ \A a \in CentsAccounts : a[3] = CENTS
    /\ BitsAccounts \subseteq Accounts /\ CentsAccounts \subseteq Accounts
    /\ BITS # CENTS
<1>1. \A a \in BitsAccounts : a[3] = BITS
  BY DEF BitsAccounts, HeldAccounts, SpendableAccounts, Credit, Payable, Pending, ProjectPayable, FxBits
<1>2. \A a \in CentsAccounts : a[3] = CENTS
  BY DEF CentsAccounts, FxCents, Revenue, Refunds, Loss, Clearing, PayoutClearing
<1>3. BITS # CENTS
  BY DEF BITS, CENTS
<1>4. /\ \A u \in Users : Credit(u) \in BitsAccounts /\ Payable(u) \in BitsAccounts /\ Pending(u) \in BitsAccounts
      /\ \A p \in Projects : ProjectPayable(p) \in BitsAccounts
      /\ FxBits \in BitsAccounts
  BY DEF BitsAccounts, HeldAccounts, SpendableAccounts
<1>5. /\ \A p \in Providers : Clearing(p) \in CentsAccounts /\ PayoutClearing(p) \in CentsAccounts
      /\ FxCents \in CentsAccounts /\ Revenue \in CentsAccounts /\ Refunds \in CentsAccounts /\ Loss \in CentsAccounts
  BY DEF CentsAccounts
<1>6. BitsAccounts \subseteq Accounts /\ CentsAccounts \subseteq Accounts
  BY DEF Accounts
<1> QED
  BY <1>1, <1>2, <1>3, <1>4, <1>5, <1>6

\* The total of one entry.
LEMMA EntryTotal ==
    ASSUME NEW A \in SUBSET Accounts, IsFiniteSet(A), NEW b \in Accounts, NEW n \in Int
    PROVE  Total(Entry(b, n), A) = IF b \in A THEN n ELSE 0
<1> DEFINE e == Entry(b, n)
<1>1. \A a \in A : e[a] \in Int /\ e[a] = IF a = b THEN n ELSE 0
  BY EntryLaw
<1> HIDE DEF e
<1>2. CASE b \notin A
  <2>1. \A a \in A : e[a] = 0
    BY <1>1, <1>2
  <2> QED
    BY <1>2, <2>1, SumZero DEF Total, e
<1>3. CASE b \in A
  <2>1. SumFunctionOnSet(e, A) = e[b] + SumFunctionOnSet(e, A \ {b})
    BY <1>1, <1>3, SumRemove
  <2>2. IsFiniteSet(A \ {b}) /\ \A a \in A \ {b} : e[a] = 0
    BY <1>1, FS_Subset
  <2>3. SumFunctionOnSet(e, A \ {b}) = 0
    BY <2>2, SumZero
  <2> QED
    BY <1>1, <1>3, <2>1, <2>3 DEF Total, e
<1> QED
  BY <1>2, <1>3

\* The total of merged entries.
LEMMA AddTotal ==
    ASSUME NEW A \in SUBSET Accounts, IsFiniteSet(A), NEW e \in EntrySet, NEW f \in EntrySet
    PROVE  Total(e ++ f, A) = Total(e, A) + Total(f, A) /\ Total(e, A) \in Int
<1> DEFINE h == e ++ f
<1>1. \A a \in A : e[a] \in Int /\ f[a] \in Int /\ h[a] = e[a] + f[a]
  BY AddLaw DEF EntrySet
<1> HIDE DEF h
<1>2. SumFunctionOnSet(h, A) = SumFunctionOnSet(e, A) + SumFunctionOnSet(f, A)
  BY <1>1, SumPlus
<1>3. SumFunctionOnSet(e, A) \in Int
  BY <1>1, SumType
<1> QED
  BY <1>2, <1>3 DEF Total, h

\* Entries that sum to zero in each currency.
Even(e) == Total(e, BitsAccounts) = 0 /\ Total(e, CentsAccounts) = 0

\* A move between two accounts of one currency is even.
LEMMA PairEven ==
    ASSUME NEW a \in Accounts, NEW b \in Accounts, a[3] = b[3], NEW n \in Int
    PROVE  /\ (Entry(a, -n) ++ Entry(b, n)) \in EntrySet /\ Even(Entry(a, -n) ++ Entry(b, n))
           /\ \A c \in Accounts : (Entry(a, -n) ++ Entry(b, n))[c]
                                      = (IF c = a THEN -n ELSE 0) + (IF c = b THEN n ELSE 0)
<1> DEFINE m == -n
           e == Entry(a, m)
           f == Entry(b, n)
<1>1. m \in Int /\ m + n = 0
  OBVIOUS
<1>2. a \in BitsAccounts <=> b \in BitsAccounts
  BY Currencies DEF Accounts
<1>3. a \in CentsAccounts <=> b \in CentsAccounts
  BY Currencies DEF Accounts
<1> HIDE DEF m
<1>4. e \in EntrySet /\ f \in EntrySet /\ \A c \in Accounts : e[c] = (IF c = a THEN m ELSE 0)
                                                             /\ f[c] = (IF c = b THEN n ELSE 0)
  BY <1>1, EntryLaw
<1>5. ASSUME NEW A \in SUBSET Accounts, IsFiniteSet(A), a \in A <=> b \in A
      PROVE  Total(e ++ f, A) = 0
  <2>1. Total(e, A) = IF a \in A THEN m ELSE 0
    BY <1>1, <1>5, EntryTotal
  <2>2. Total(f, A) = IF b \in A THEN n ELSE 0
    BY <1>5, EntryTotal
  <2>3. Total(e ++ f, A) = Total(e, A) + Total(f, A)
    BY <1>4, <1>5, AddTotal
  <2> QED
    BY <1>1, <1>5, <2>1, <2>2, <2>3
<1> HIDE DEF e, f
<1>6. Even(e ++ f)
  BY <1>2, <1>3, <1>5, AccountsFinite, Currencies DEF Even
<1>7. (e ++ f) \in EntrySet /\ \A c \in Accounts : (e ++ f)[c] = e[c] + f[c]
  BY <1>4, AddLaw
<1> QED
  BY <1>4, <1>6, <1>7 DEF e, f, m

\* Even entries merge to even entries.
LEMMA AddEven ==
    ASSUME NEW e \in EntrySet, NEW f \in EntrySet, Even(e), Even(f)
    PROVE  Even(e ++ f)
<1>1. Total(e ++ f, BitsAccounts) = Total(e, BitsAccounts) + Total(f, BitsAccounts)
  BY AddTotal, AccountsFinite, Currencies
<1>2. Total(e ++ f, CentsAccounts) = Total(e, CentsAccounts) + Total(f, CentsAccounts)
  BY AddTotal, AccountsFinite, Currencies
<1> QED
  BY <1>1, <1>2 DEF Even

\* No two addresses of different kinds or owners are one account.
LEMMA Apart ==
    /\ \A u, v : /\ Pending(u) # Credit(v) /\ Pending(u) # Payable(v) /\ Payable(u) # Credit(v)
                 /\ Payable(u) = Payable(v) => u = v
                 /\ Pending(u) = Pending(v) => u = v
    /\ \A u, p : Pending(u) # ProjectPayable(p) /\ Payable(u) # ProjectPayable(p) /\ Credit(u) # ProjectPayable(p)
    /\ \A u : Credit(u) # FxBits /\ Payable(u) # FxBits /\ Pending(u) # FxBits /\ ProjectPayable(u) # FxBits
    /\ \A p : Clearing(p) \notin {FxCents, Revenue, Refunds, Loss}
              /\ PayoutClearing(p) \notin {FxCents, Revenue, Refunds, Loss}
    /\ \A p, q : (Clearing(p) = Clearing(q) => p = q) /\ (PayoutClearing(p) = PayoutClearing(q) => p = q)
    /\ \A p, q \in Providers : Clearing(p) # PayoutClearing(q)
    /\ FxCents # Revenue /\ FxCents # Refunds /\ FxCents # Loss
    /\ Revenue # Refunds /\ Revenue # Loss /\ Refunds # Loss
<1>1. \A p, q \in Providers : p # <<q, "payouts">>
  BY VibesAssumption
<1> QED
  BY <1>1 DEF Credit, Payable, Pending, ProjectPayable, FxBits, Clearing, PayoutClearing, FxCents, Revenue,
              Refunds, Loss

\* Merging is associative.
LEMMA AddAssociative ==
    ASSUME NEW e \in EntrySet, NEW f \in EntrySet, NEW g \in EntrySet
    PROVE  (e ++ f) ++ g = e ++ (f ++ g)
<1>1. (e ++ f) \in EntrySet /\ (f ++ g) \in EntrySet
  BY AddLaw
<1>2. (e ++ f) ++ g \in EntrySet /\ e ++ (f ++ g) \in EntrySet
  BY <1>1, AddLaw
<1>3. ASSUME NEW a \in Accounts PROVE ((e ++ f) ++ g)[a] = (e ++ (f ++ g))[a]
  <2>1. e[a] \in Int /\ f[a] \in Int /\ g[a] \in Int
    BY DEF EntrySet
  <2>2. ((e ++ f) ++ g)[a] = (e[a] + f[a]) + g[a]
    BY <1>1, AddLaw
  <2>3. (e ++ (f ++ g))[a] = e[a] + (f[a] + g[a])
    BY <1>1, AddLaw
  <2> QED
    BY <2>1, <2>2, <2>3
<1> QED
  BY <1>2, <1>3 DEF EntrySet

\* The totals of an entry on a cents account.
LEMMA CentsTotals ==
    ASSUME NEW b \in CentsAccounts, NEW n \in Int
    PROVE  /\ Entry(b, n) \in EntrySet
           /\ Total(Entry(b, n), BitsAccounts) = 0 /\ Total(Entry(b, n), CentsAccounts) = n
<1>1. b \in Accounts /\ b \notin BitsAccounts
  BY Currencies
<1> QED
  BY <1>1, EntryTotal, EntryLaw, AccountsFinite, Currencies

----------------------------------------------------------------------------
(* What an operation posts.                                                *)

\* A transaction accepted now, with its entries added to the balances.
Posted(x) ==
    /\ Accepted(x)
    /\ x.at = now /\ x.entries \in EntrySet
    /\ balance' \in EntrySet
    /\ \A a \in Accounts : balance'[a] = balance[a] + x.entries[a]

\* The value account moves by the rounded value of the bits moved.
Mirrored(x) ==
    x.entries[FxCents] = IF x.entries[FxBits] >= 0 THEN -ValueCents(x.entries[FxBits])
                                                   ELSE ValueCents(-x.entries[FxBits])

\* A receipt, and a reversal of one, moves its own cents through its provider.
Receipted(x) ==
    x.provider # None =>
        /\ x.type \in {"purchase", "donation"} =>
              x.receipt # None /\ x.entries[Clearing(x.provider)] = -x.cents
        /\ x.type \in {"refund", "chargeback"} => x.entries[Clearing(x.provider)] = x.cents

\* What every posting but an adjustment keeps in order.
InOrder(x) ==
    /\ Even(x.entries)
    /\ Mirrored(x)
    /\ Receipted(x)
    /\ x.type = "purchase" => ValueCents(x.bits) =< x.cents

PayoutsStill(x) == \A p \in Providers : x.entries[PayoutClearing(p)] = 0
PendingStill(x) == \A u \in Users : x.entries[Pending(u)] = 0
ProjectsStill(x) == \A p \in Projects : x.entries[ProjectPayable(p)] = 0
NothingBorne(x) == x.entries[Loss] = 0 /\ x.entries[Refunds] = 0

\* n moves from a to b.
Moved(x, a, b, n) ==
    /\ Even(x.entries)
    /\ \A c \in Accounts : x.entries[c] = (IF c = a THEN -n ELSE 0) + (IF c = b THEN n ELSE 0)

\* Nothing is worth nothing.
LEMMA ValueZero == ValueCents(0) = 0
<1>1. 0 * 100 = 0
  OBVIOUS
<1> QED
  BY <1>1, RoundZero, RatesAssumption DEF ValueCents

\* A transaction that leaves the value account alone mirrors nothing.
LEMMA MirrorStill ==
    ASSUME NEW x, x.entries[FxBits] = 0, x.entries[FxCents] = 0
    PROVE  Mirrored(x)
<1> DEFINE v == ValueCents(0)
<1>1. v = 0
  BY ValueZero
<1> HIDE DEF v
<1>2. 0 = -v
  <2>1. v \in Int /\ 0 \in Int /\ v + 0 = 0
    BY <1>1
  <2> QED
    BY <2>1, Opposite, Zenon
<1>3. x.entries[FxBits] >= 0
  OBVIOUS
<1>4. x.entries[FxCents] = -ValueCents(x.entries[FxBits])
  BY <1>2, Zenon DEF v
<1> QED
  BY <1>3, <1>4 DEF Mirrored

\* A move of bits between people is in order, and touches nothing else.
LEMMA MovedLaw ==
    ASSUME NEW x, NEW a \in HeldAccounts, NEW b \in HeldAccounts, NEW n \in Int, Moved(x, a, b, n),
           x.provider = None, x.type # "purchase"
    PROVE  InOrder(x) /\ PayoutsStill(x) /\ NothingBorne(x)
<1>1. a \in BitsAccounts /\ b \in BitsAccounts /\ a # FxBits /\ b # FxBits
  BY Apart DEF HeldAccounts, SpendableAccounts, BitsAccounts
<1>2. \A c \in CentsAccounts : c \in Accounts /\ c # a /\ c # b
  BY <1>1, Currencies
<1>3. \A c \in CentsAccounts : x.entries[c] = 0
  BY <1>2 DEF Moved
<1>4. x.entries[FxBits] = 0
  BY <1>1, Currencies DEF Moved
<1>5. x.entries[FxCents] = 0 /\ NothingBorne(x) /\ PayoutsStill(x)
  BY <1>3, Currencies DEF NothingBorne, PayoutsStill
<1>6. Mirrored(x)
  BY <1>4, <1>5, MirrorStill
<1>7. Even(x.entries)
  BY DEF Moved
<1> QED
  BY <1>5, <1>6, <1>7 DEF InOrder, Receipted

\* What post() writes under a fresh key.
LEMMA PostShape ==
    ASSUME LedgerInv, NEW x \in Txn, x.key \notin UsedKeys, Post(x), x.at = now
    PROVE  Posted(x)
<1>1. Accepted(x) /\ balance' = balance ++ x.entries
  BY PostAccepts
<1>2. balance \in EntrySet /\ x.entries \in EntrySet
  BY DEF LedgerInv, TypeOK, Txn
<1> QED
  BY <1>1, <1>2, AddLaw DEF Posted

\* A gift.
LEMMA TransferShape ==
    ASSUME LedgerInv, NEW k \in Keys, NEW from \in Users, NEW to \in Users, NEW amount \in BitAmounts,
           Transfer(k, from, to, amount)
    PROVE  \E x : /\ Posted(x) /\ Moved(x, Credit(from), Payable(to), amount)
                  /\ x.type = "donation" /\ x.provider = None /\ x.receipt = None
                  /\ x.cashout = None /\ x.intent = None
                  /\ x.from = from /\ x.to = to /\ x.bits = amount /\ from # to
                  /\ UNCHANGED <<intents, cashouts, now>>
<1> DEFINE e == Entry(Credit(from), -amount) ++ Entry(Payable(to), amount)
           x == [NewTxn(k, "donation", now, e) EXCEPT !.from = from, !.to = to, !.bits = amount]
<1>1. amount \in Nat /\ now \in Nat /\ k \notin UsedKeys /\ Post(x) /\ from # to
      /\ UNCHANGED <<intents, cashouts, now>>
  BY VibesAssumption DEF Transfer, NotToSelf, LedgerInv, TypeOK
<1>2. Credit(from)[3] = Payable(to)[3]
  BY DEF Credit, Payable
<1>3. e \in EntrySet /\ Even(e) /\ \A a \in Accounts :
        e[a] = (IF a = Credit(from) THEN -amount ELSE 0) + (IF a = Payable(to) THEN amount ELSE 0)
  BY <1>1, <1>2, PairEven, AccountTypes
<1> HIDE DEF e
<1>4. /\ x \in Txn /\ x.key = k /\ x.at = now /\ x.entries = e
      /\ x.type = "donation" /\ x.provider = None /\ x.receipt = None
      /\ x.cashout = None /\ x.intent = None /\ x.from = from /\ x.to = to /\ x.bits = amount
  BY <1>1, <1>3 DEF NewTxn, Txn
<1> HIDE DEF x
<1>5. Posted(x)
  BY <1>1, <1>4, PostShape
<1>6. Moved(x, Credit(from), Payable(to), amount)
  BY <1>3, <1>4 DEF Moved
<1> QED
  BY <1>1, <1>4, <1>5, <1>6

\* Recycling.
LEMMA RecycleShape ==
    ASSUME LedgerInv, NEW k \in Keys, NEW u \in Users, NEW amount \in BitAmounts, Recycle(k, u, amount)
    PROVE  \E x : /\ Posted(x) /\ Moved(x, Payable(u), Credit(u), amount)
                  /\ x.type = "recycle" /\ x.provider = None /\ x.cashout = None /\ x.intent = None
                  /\ UNCHANGED <<intents, cashouts, now>>
<1> DEFINE e == Entry(Payable(u), -amount) ++ Entry(Credit(u), amount)
           x == [NewTxn(k, "recycle", now, e) EXCEPT !.from = u, !.to = u, !.bits = amount]
<1>1. amount \in Nat /\ now \in Nat /\ k \notin UsedKeys /\ Post(x) /\ UNCHANGED <<intents, cashouts, now>>
  BY VibesAssumption DEF Recycle, LedgerInv, TypeOK
<1>2. Payable(u)[3] = Credit(u)[3]
  BY DEF Credit, Payable
<1>3. e \in EntrySet /\ Even(e) /\ \A a \in Accounts :
        e[a] = (IF a = Payable(u) THEN -amount ELSE 0) + (IF a = Credit(u) THEN amount ELSE 0)
  BY <1>1, <1>2, PairEven, AccountTypes
<1> HIDE DEF e
<1>4. /\ x \in Txn /\ x.key = k /\ x.at = now /\ x.entries = e
      /\ x.type = "recycle" /\ x.provider = None /\ x.cashout = None /\ x.intent = None
  BY <1>1, <1>3 DEF NewTxn, Txn
<1> HIDE DEF x
<1>5. Posted(x)
  BY <1>1, <1>4, PostShape
<1>6. Moved(x, Payable(u), Credit(u), amount)
  BY <1>3, <1>4 DEF Moved
<1> QED
  BY <1>1, <1>4, <1>5, <1>6

\* The refund of a gift.
LEMMA RefundTransferShape ==
    ASSUME LedgerInv, NEW k \in Keys, NEW orig \in txns, NEW asked \in BitAmounts \cup {None},
           RefundTransfer(k, orig, asked)
    PROVE  \E x : /\ Posted(x) /\ Moved(x, Payable(orig.to), Credit(orig.from), x.bits)
                  /\ x.type = "refund" /\ x.provider = None /\ x.receipt = None
                  /\ x.cashout = None /\ x.intent = None
                  /\ x.reverses = orig.key /\ x.from = orig.to /\ x.bits \in Nat /\ x.cents = 0
                  /\ orig.type = "donation" /\ orig.receipt = None
                  /\ orig.from \in Users /\ orig.to \in Users
                  /\ UNCHANGED <<intents, cashouts, now>>
<1> DEFINE amount == IF asked = None THEN RefundableBits(orig) ELSE asked
           e == Entry(Payable(orig.to), -amount) ++ Entry(Credit(orig.from), amount)
           x == [NewTxn(k, "refund", now, e)
                 EXCEPT !.reverses = orig.key, !.from = orig.to, !.to = orig.from, !.bits = amount]
<1>1. /\ orig.type = "donation" /\ orig.receipt = None /\ orig.key \in Keys
      /\ orig.from \in Users /\ orig.to \in Users /\ orig.bits \in Nat
  BY DEF RefundTransfer, LedgerInv, TypeOK, Txn, JournalInv, ReceiptsSound, Sound
<1>2. RefundableBits(orig) \in Nat
  <2>1. SumBits(RefundsOf(orig)) \in Nat /\ SumBits(RefundsOf(orig)) =< orig.bits
    BY <1>1, SumsOfReversals DEF LedgerInv, JournalInv, ReversedWithinPaid
  <2> QED
    BY <1>1, <2>1 DEF RefundableBits
<1>3. amount \in Nat /\ now \in Nat /\ k \notin UsedKeys /\ Post(x) /\ UNCHANGED <<intents, cashouts, now>>
  BY <1>2, VibesAssumption DEF RefundTransfer, LedgerInv, TypeOK
<1> HIDE DEF amount
<1>4. Payable(orig.to)[3] = Credit(orig.from)[3]
  BY DEF Credit, Payable
<1>5. e \in EntrySet /\ Even(e) /\ \A a \in Accounts :
        e[a] = (IF a = Payable(orig.to) THEN -amount ELSE 0) + (IF a = Credit(orig.from) THEN amount ELSE 0)
  BY <1>1, <1>3, <1>4, PairEven, AccountTypes
<1> HIDE DEF e
<1>6. /\ x \in Txn /\ x.key = k /\ x.at = now /\ x.entries = e
      /\ x.type = "refund" /\ x.provider = None /\ x.receipt = None /\ x.cashout = None /\ x.intent = None
      /\ x.reverses = orig.key /\ x.from = orig.to /\ x.bits = amount /\ x.cents = 0
  BY <1>1, <1>3, <1>5 DEF NewTxn, Txn
<1> HIDE DEF x
<1>7. Posted(x)
  BY <1>3, <1>6, PostShape
<1>8. Moved(x, Payable(orig.to), Credit(orig.from), amount)
  BY <1>5, <1>6 DEF Moved
<1> QED
  BY <1>1, <1>3, <1>6, <1>7, <1>8

\* The request of a cashout.
LEMMA RequestCashoutShape ==
    ASSUME LedgerInv, NEW k \in Keys, NEW c \in Cashouts, NEW u \in Users,
           NEW p \in Projects \cup {None}, NEW amount \in BitAmounts, RequestCashout(k, c, u, p, amount)
    PROVE  LET source == IF p = None THEN Payable(u) ELSE ProjectPayable(p)
           IN  \E x : /\ Posted(x) /\ Moved(x, source, Pending(u), amount)
                      /\ source \in SpendableAccounts /\ HasFunds(source, amount)
                      /\ x.type = "cashout_request" /\ x.provider = None /\ x.receipt = None
                      /\ x.cashout = c /\ x.intent = None
                      /\ x.key = k /\ x.from = u /\ x.bits = amount
                      /\ cashouts[c] = NoCashout
                      /\ cashouts' = [cashouts EXCEPT ![c] =
                           [status |-> "requested", subject |-> u, project |-> p, bits |-> amount,
                            cents |-> ValueCents(amount), escrowUntil |-> now + EscrowDays,
                            requestTxn |-> k, settleTxn |-> None, payoutRef |-> None]]
                      /\ UNCHANGED <<intents, now>>
<1> DEFINE source == IF p = None THEN Payable(u) ELSE ProjectPayable(p)
           e == CashoutEntries(u, p, amount)
           e1 == Entry(ProjectPayable(p), -amount)
           e2 == Entry(Payable(u), amount)
           e3 == Entry(Payable(u), -amount)
           e4 == Entry(Pending(u), amount)
           d == Entry(source, -amount) ++ e4
           x == [NewTxn(k, "cashout_request", now, e)
                 EXCEPT !.from = u, !.cashout = c, !.bits = amount, !.cents = ValueCents(amount)]
           row == [status |-> "requested", subject |-> u, project |-> p, bits |-> amount,
                   cents |-> ValueCents(amount), escrowUntil |-> now + EscrowDays,
                   requestTxn |-> k, settleTxn |-> None, payoutRef |-> None]
<1>1. /\ amount \in Nat /\ -amount \in Int /\ now \in Nat /\ k \notin UsedKeys /\ Post(x)
      /\ cashouts[c] = NoCashout /\ cashouts' = [cashouts EXCEPT ![c] = row]
      /\ HasFunds(source, amount) /\ UNCHANGED <<intents, now>>
  BY VibesAssumption DEF RequestCashout, LedgerInv, TypeOK
<1>2. ValueCents(amount) \in Nat
  BY <1>1, ValueNat
<1>3. source \in SpendableAccounts /\ source \in Accounts /\ source[3] = Pending(u)[3]
  BY AccountTypes DEF Payable, ProjectPayable, Pending, SpendableAccounts
<1>4. d \in EntrySet /\ Even(d) /\ \A a \in Accounts :
        d[a] = (IF a = source THEN -amount ELSE 0) + (IF a = Pending(u) THEN amount ELSE 0)
  BY <1>1, <1>3, PairEven, AccountTypes
<1>5. e = d
  <2>1. CASE p = None
    BY <2>1 DEF CashoutEntries
  <2>2. CASE p # None
    <3>1. e1 \in EntrySet /\ e2 \in EntrySet /\ e3 \in EntrySet /\ e4 \in EntrySet
      BY <1>1, <2>2, EntryLaw, AccountTypes
    <3>2. \A a \in Accounts :
            /\ e2[a] = IF a = Payable(u) THEN amount ELSE 0
            /\ e3[a] = IF a = Payable(u) THEN -amount ELSE 0
      BY <1>1, <2>2, EntryLaw, AccountTypes
    <3>3. e = e1 ++ e2 ++ e3 ++ e4 /\ d = e1 ++ e4
      BY <2>2 DEF CashoutEntries
    <3> HIDE DEF e, d, e1, e2, e3, e4
    <3>4. (e1 ++ e2) \in EntrySet /\ (e1 ++ e2 ++ e3) \in EntrySet /\ e \in EntrySet
      BY <3>1, <3>3, AddLaw
    <3>5. ASSUME NEW a \in Accounts PROVE e[a] = d[a]
      <4>1. e[a] = e1[a] + e2[a] + e3[a] + e4[a] /\ d[a] = e1[a] + e4[a]
        BY <3>1, <3>3, <3>4, AddLaw
      <4>2. e1[a] \in Int /\ e4[a] \in Int
        BY <3>1 DEF EntrySet
      <4> QED
        BY <1>1, <3>2, <4>1, <4>2
    <3> QED
      BY <1>4, <3>4, <3>5 DEF EntrySet
  <2> QED
    BY <2>1, <2>2
<1> HIDE DEF e, d
<1>6. /\ x \in Txn /\ x.key = k /\ x.at = now /\ x.entries = d
      /\ x.type = "cashout_request" /\ x.provider = None /\ x.receipt = None
      /\ x.cashout = c /\ x.intent = None /\ x.from = u /\ x.bits = amount
  BY <1>1, <1>2, <1>4, <1>5 DEF NewTxn, Txn
<1> HIDE DEF x
<1>7. Posted(x)
  BY <1>1, <1>6, PostShape
<1>8. Moved(x, source, Pending(u), amount)
  BY <1>4, <1>6 DEF Moved
<1> QED
  BY <1>1, <1>3, <1>6, <1>7, <1>8

\* A requested row once it is denied, and once it is paid.
DeniedRow(row, k) == [row EXCEPT !.status = "denied", !.settleTxn = k]
PaidRow(row, k, ref) == [row EXCEPT !.status = "paid", !.settleTxn = k, !.payoutRef = ref]

\* The denial of a cashout.
LEMMA DenyCashoutShape ==
    ASSUME LedgerInv, NEW k \in Keys \ UsedKeys, NEW c \in Cashouts, DenyCashout(k, c)
    PROVE  LET row == cashouts[c]
           IN  \E x : /\ Posted(x) /\ Moved(x, Pending(row.subject), Payable(row.subject), row.bits)
                      /\ x.type = "cashout_denied" /\ x.provider = None
                      /\ x.cashout = c /\ x.intent = None /\ x.key = k /\ x.bits = row.bits
                      /\ row \in CashoutRow /\ row.status = "requested"
                      /\ cashouts' = [cashouts EXCEPT ![c] = DeniedRow(row, k)]
                      /\ UNCHANGED <<intents, now>>
<1> DEFINE row == cashouts[c]
           e == Entry(Pending(row.subject), -row.bits) ++ Entry(Payable(row.subject), row.bits)
           x == [NewTxn(k, "cashout_denied", now, e)
                 EXCEPT !.to = row.subject, !.reverses = row.requestTxn, !.cashout = c, !.bits = row.bits]
           denied == DeniedRow(row, k)
<1>1. row \in CashoutRow /\ row.status = "requested"
  BY DEF DenyCashout, Undecided, LedgerInv, TypeOK, NoCashout
<1>2. row.subject \in Users /\ row.bits \in Nat /\ row.requestTxn \in Keys
  BY <1>1, CashoutRowLaw
<1>3. now \in Nat /\ Post(x) /\ cashouts' = [cashouts EXCEPT ![c] = denied] /\ UNCHANGED <<intents, now>>
  BY DEF DenyCashout, DeniedRow, LedgerInv, TypeOK
<1> HIDE DEF row
<1> DEFINE less == -row.bits
<1>4. /\ less = -row.bits
      /\ Pending(row.subject) \in Accounts /\ Payable(row.subject) \in Accounts /\ row.bits \in Int
      /\ Pending(row.subject)[3] = Payable(row.subject)[3]
  BY <1>2, AccountTypes DEF Pending, Payable
<1> HIDE DEF less
<1> DEFINE d == Entry(Pending(row.subject), less) ++ Entry(Payable(row.subject), row.bits)
<1>5. d \in EntrySet /\ Even(d) /\ \A a \in Accounts :
        d[a] = (IF a = Pending(row.subject) THEN less ELSE 0)
                 + (IF a = Payable(row.subject) THEN row.bits ELSE 0)
  <2>1. d \in EntrySet /\ Even(d)
    BY <1>4, PairEven
  <2> QED
    BY <1>4, <2>1, EntryLaw, AddLaw
<1>9. e = d
  BY DEF less
<1> HIDE DEF d
<1> HIDE DEF e
<1>6. /\ x \in Txn /\ x.key = k /\ x.at = now /\ x.entries = e
      /\ x.type = "cashout_denied" /\ x.provider = None /\ x.cashout = c /\ x.intent = None /\ x.bits = row.bits
  BY <1>2, <1>3, <1>5, <1>9 DEF NewTxn, Txn
<1> HIDE DEF x
<1>7. Posted(x)
  BY <1>3, <1>6, PostShape
<1>8. Moved(x, Pending(row.subject), Payable(row.subject), row.bits)
  BY <1>4, <1>5, <1>6, <1>9 DEF Moved
<1> QED
  BY <1>1, <1>3, <1>6, <1>7, <1>8 DEF row

\* b bits leave u's pending account to the value account, n cents it to provider p.
PaidOut(e, u, p, b, n) ==
    /\ e \in EntrySet /\ Even(e)
    /\ \A a \in Accounts :
         e[a] = ((IF a = Pending(u) THEN -b ELSE 0) + (IF a = FxBits THEN b ELSE 0))
                  + ((IF a = FxCents THEN -n ELSE 0) + (IF a = PayoutClearing(p) THEN n ELSE 0))

\* The entries of an approval do.
LEMMA ApproveEntries ==
    ASSUME NEW u \in Users, NEW p \in Providers, NEW b \in Nat, NEW n \in Nat
    PROVE  PaidOut(Entry(Pending(u), -b) ++ Entry(FxBits, b) ++ Entry(FxCents, -n) ++ Entry(PayoutClearing(p), n),
                   u, p, b, n)
<1> DEFINE lb == -b
           ln == -n
<1>1. /\ Pending(u)[3] = FxBits[3] /\ FxCents[3] = PayoutClearing(p)[3]
      /\ Pending(u) \in Accounts /\ PayoutClearing(p) \in Accounts /\ FxBits \in Accounts /\ FxCents \in Accounts
      /\ b \in Int /\ n \in Int /\ lb = -b /\ ln = -n /\ ln \in Int
  BY AccountTypes DEF Pending, FxBits, FxCents, PayoutClearing
<1> HIDE DEF lb, ln
<1> DEFINE d1 == Entry(Pending(u), lb) ++ Entry(FxBits, b)
           d2 == Entry(FxCents, ln) ++ Entry(PayoutClearing(p), n)
<1>2. d1 \in EntrySet /\ Even(d1) /\ \A a \in Accounts :
        d1[a] = (IF a = Pending(u) THEN lb ELSE 0) + (IF a = FxBits THEN b ELSE 0)
  <2>1. d1 \in EntrySet /\ Even(d1)
    BY <1>1, PairEven
  <2> QED
    BY <1>1, <2>1, EntryLaw, AddLaw
<1>3. d2 \in EntrySet /\ Even(d2) /\ \A a \in Accounts :
        d2[a] = (IF a = FxCents THEN ln ELSE 0) + (IF a = PayoutClearing(p) THEN n ELSE 0)
  <2>1. d2 \in EntrySet /\ Even(d2)
    BY <1>1, PairEven
  <2> QED
    BY <1>1, <2>1, EntryLaw, AddLaw
<1>4. Entry(FxCents, ln) \in EntrySet /\ Entry(PayoutClearing(p), n) \in EntrySet
  BY <1>1, EntryLaw
<1> HIDE DEF d1
<1>5. d1 ++ Entry(FxCents, ln) ++ Entry(PayoutClearing(p), n) = d1 ++ d2
  BY <1>2, <1>4, AddAssociative
<1> HIDE DEF d2
<1>6. /\ (d1 ++ d2) \in EntrySet /\ Even(d1 ++ d2)
      /\ \A a \in Accounts : (d1 ++ d2)[a] = d1[a] + d2[a]
  BY <1>2, <1>3, AddLaw, AddEven
<1>7. \A a \in Accounts :
        (d1 ++ d2)[a] = ((IF a = Pending(u) THEN lb ELSE 0) + (IF a = FxBits THEN b ELSE 0))
                           + ((IF a = FxCents THEN ln ELSE 0) + (IF a = PayoutClearing(p) THEN n ELSE 0))
  BY <1>2, <1>3, <1>6
<1> QED
  BY <1>5, <1>6, <1>7, Zenon DEF PaidOut, d1, lb, ln

\* The payment of a cashout.
LEMMA ApproveCashoutShape ==
    ASSUME LedgerInv, NEW k \in Keys \ UsedKeys, NEW c \in Cashouts, NEW p \in Providers, NEW ref \in Refs,
           ApproveCashout(k, c, p, ref)
    PROVE  LET row == cashouts[c]
           IN  \E x : /\ Posted(x) /\ PaidOut(x.entries, row.subject, p, row.bits, row.cents)
                      /\ x.type = "cashout_paid" /\ x.receipt = ref
                      /\ x.cashout = c /\ x.intent = None /\ x.key = k /\ x.bits = row.bits
                      /\ row \in CashoutRow /\ row.status = "requested" /\ now >= row.escrowUntil
                      /\ cashouts' = [cashouts EXCEPT ![c] = PaidRow(row, k, ref)]
                      /\ UNCHANGED <<intents, now>>
<1> DEFINE row == cashouts[c]
           e == Entry(Pending(row.subject), -row.bits) ++ Entry(FxBits, row.bits)
                  ++ Entry(FxCents, -row.cents) ++ Entry(PayoutClearing(p), row.cents)
           x == [NewTxn(k, "cashout_paid", now, e)
                 EXCEPT !.from = row.subject, !.provider = p, !.receipt = ref, !.cashout = c,
                        !.bits = row.bits, !.cents = row.cents]
           paid == PaidRow(row, k, ref)
<1>1. row \in CashoutRow /\ row.status = "requested" /\ now >= row.escrowUntil
  BY DEF ApproveCashout, Undecided, EscrowOver, LedgerInv, TypeOK, NoCashout
<1>2. row.subject \in Users /\ row.bits \in Nat /\ row.cents \in Nat
  BY <1>1, CashoutRowLaw
<1>3. now \in Nat /\ Post(x) /\ cashouts' = [cashouts EXCEPT ![c] = paid] /\ UNCHANGED <<intents, now>>
  BY DEF ApproveCashout, PaidRow, LedgerInv, TypeOK
<1> HIDE DEF row
<1>4. PaidOut(e, row.subject, p, row.bits, row.cents) /\ e \in EntrySet
  <2>1. PaidOut(e, row.subject, p, row.bits, row.cents)
    BY <1>2, ApproveEntries, Zenon
  <2> QED
    BY <2>1 DEF PaidOut
<1> HIDE DEF e
<1>5. /\ x \in Txn /\ x.key = k /\ x.at = now /\ x.entries = e
      /\ x.type = "cashout_paid" /\ x.receipt = ref /\ x.cashout = c /\ x.intent = None /\ x.bits = row.bits
  BY <1>2, <1>3, <1>4 DEF NewTxn, Txn
<1> HIDE DEF x
<1>6. Posted(x)
  BY <1>3, <1>5, PostShape
<1> QED
  BY <1>1, <1>3, <1>4, <1>5, <1>6 DEF row

\* An adjustment.
LEMMA AdjustShape ==
    ASSUME LedgerInv, NEW k \in Keys, NEW from \in Adjustable, NEW to \in Adjustable,
           NEW amount \in BitAmounts, Adjust(k, from, to, amount)
    PROVE  \E x : /\ Posted(x) /\ Moved(x, from, to, amount) /\ x.type = "adjustment"
                  /\ x.provider = None /\ x.cashout = None /\ x.intent = None
                  /\ UNCHANGED <<intents, cashouts, now>>
<1> DEFINE e == Entry(from, -amount) ++ Entry(to, amount)
           x == [NewTxn(k, "adjustment", now, e) EXCEPT !.bits = amount]
<1>1. /\ amount \in Nat /\ now \in Nat /\ k \notin UsedKeys /\ Post(x) /\ from[3] = to[3]
      /\ from \in Accounts /\ to \in Accounts /\ UNCHANGED <<intents, cashouts, now>>
  BY VibesAssumption DEF Adjust, LedgerInv, TypeOK
<1>2. e \in EntrySet /\ Even(e) /\ \A a \in Accounts :
        e[a] = (IF a = from THEN -amount ELSE 0) + (IF a = to THEN amount ELSE 0)
  BY <1>1, PairEven
<1> HIDE DEF e
<1>3. x \in Txn /\ x.key = k /\ x.at = now /\ x.type = "adjustment" /\ x.provider = None
      /\ x.cashout = None /\ x.intent = None /\ x.entries = e
  BY <1>1, <1>2 DEF NewTxn, Txn
<1> HIDE DEF x
<1>4. Posted(x)
  BY <1>1, <1>3, PostShape
<1>5. Moved(x, from, to, amount)
  BY <1>2, <1>3 DEF Moved
<1> QED
  BY <1>1, <1>3, <1>4, <1>5

\* `paid' cents come in through provider p, and become bits in `target', the rest
\* revenue.
Received(e, p, paid, bits, target) ==
    /\ e \in EntrySet /\ Even(e)
    /\ \A a \in Accounts :
         e[a] = (IF a = Clearing(p) THEN -paid ELSE 0)
                  + (IF a = Revenue THEN paid - ValueCents(bits) ELSE 0)
                  + (IF a = FxCents THEN ValueCents(bits) ELSE 0)
                  + ((IF a = FxBits THEN -bits ELSE 0) + (IF a = target THEN bits ELSE 0))

\* The entries of a receipt do that.
LEMMA ReceiptEffects ==
    ASSUME NEW p \in Providers, NEW paid \in Nat, NEW bits \in Nat, NEW target \in SpendableAccounts
    PROVE  Received(ReceiptEntries(p, paid, bits, target), p, paid, bits, target)
<1> DEFINE v == ValueCents(bits)
           m == -paid
           r == paid - v
<1>1. v \in Nat /\ m \in Int /\ r \in Int /\ m + r + v = 0
  BY ValueNat
<1>2. target \in BitsAccounts /\ target \in Accounts /\ target[3] = FxBits[3]
  BY SpendableApart DEF BitsAccounts, HeldAccounts, SpendableAccounts, Credit, Payable, ProjectPayable, FxBits
<1> HIDE DEF v, m, r
<1> DEFINE e1 == Entry(Clearing(p), m)
           e2 == Entry(Revenue, r)
           e3 == Entry(FxCents, v)
           e4 == Entry(FxBits, -bits)
           e5 == Entry(target, bits)
<1>3. /\ e1 \in EntrySet /\ Total(e1, BitsAccounts) = 0 /\ Total(e1, CentsAccounts) = m
      /\ e2 \in EntrySet /\ Total(e2, BitsAccounts) = 0 /\ Total(e2, CentsAccounts) = r
      /\ e3 \in EntrySet /\ Total(e3, BitsAccounts) = 0 /\ Total(e3, CentsAccounts) = v
  BY <1>1, CentsTotals, Currencies
<1>4. /\ (e4 ++ e5) \in EntrySet /\ Even(e4 ++ e5)
      /\ \A a \in Accounts : (e4 ++ e5)[a] = (IF a = FxBits THEN -bits ELSE 0) + (IF a = target THEN bits ELSE 0)
  <2> DEFINE less == -bits
             d == Entry(FxBits, less) ++ e5
  <2>1. FxBits \in Accounts /\ FxBits[3] = target[3] /\ bits \in Int /\ less = -bits
    BY <1>2, AccountTypes
  <2> HIDE DEF less
  <2>2. d \in EntrySet /\ Even(d)
        /\ \A a \in Accounts : d[a] = (IF a = FxBits THEN less ELSE 0) + (IF a = target THEN bits ELSE 0)
    <3>1. d \in EntrySet /\ Even(d)
      BY <1>2, <2>1, PairEven
    <3> QED
      BY <1>2, <2>1, <3>1, EntryLaw, AddLaw
  <2> QED
    BY <2>2, Zenon DEF less
<1>5. e4 \in EntrySet /\ e5 \in EntrySet
  BY <1>2, EntryLaw, AccountTypes
<1>6. \A a \in Accounts : /\ e1[a] = IF a = Clearing(p) THEN m ELSE 0
                          /\ e2[a] = IF a = Revenue THEN r ELSE 0
                          /\ e3[a] = IF a = FxCents THEN v ELSE 0
  BY <1>1, EntryLaw, AccountTypes
<1> HIDE DEF e1, e2, e3, e4, e5
<1> DEFINE f == e1 ++ e2 ++ e3
<1>7. /\ (e1 ++ e2) \in EntrySet /\ f \in EntrySet
      /\ \A a \in Accounts : f[a] = e1[a] + e2[a] + e3[a]
  BY <1>3, AddLaw
<1>8. Even(f)
  <2>1. Total(e1 ++ e2, BitsAccounts) = 0 /\ Total(e1 ++ e2, CentsAccounts) = m + r
    BY <1>3, AddTotal, AccountsFinite, Currencies
  <2>2. Total(f, BitsAccounts) = 0 + 0 /\ Total(f, CentsAccounts) = (m + r) + v
    BY <1>3, <1>7, <2>1, AddTotal, AccountsFinite, Currencies
  <2> QED
    BY <1>1, <2>2 DEF Even
<1>9. f ++ e4 ++ e5 = f ++ (e4 ++ e5)
  BY <1>5, <1>7, AddAssociative
<1> HIDE DEF f
<1> DEFINE e == f ++ (e4 ++ e5)
<1>10. /\ e \in EntrySet /\ Even(e) /\ \A a \in Accounts : e[a] = f[a] + (e4 ++ e5)[a]
  BY <1>4, <1>7, <1>8, AddLaw, AddEven
<1>11. ReceiptEntries(p, paid, bits, target) = f ++ e4 ++ e5
  BY DEF ReceiptEntries, f, e1, e2, e3, e4, e5, m, r, v
<1>12. ReceiptEntries(p, paid, bits, target) = e
  BY <1>9, <1>11
<1> HIDE DEF e
<1>13. \A a \in Accounts : e[a] = (IF a = Clearing(p) THEN m ELSE 0)
                             + (IF a = Revenue THEN r ELSE 0)
                             + (IF a = FxCents THEN v ELSE 0)
                             + ((IF a = FxBits THEN -bits ELSE 0) + (IF a = target THEN bits ELSE 0))
  BY <1>4, <1>6, <1>7, <1>10
<1> QED
  BY <1>10, <1>12, <1>13 DEF Received, m, r, v

\* The intent i, if there is one, was open and is settled by k.
Settling(i, k) ==
    /\ i # None => /\ i \in Intents /\ intents[i] \in IntentRow
                   /\ ~(intents[i].status = "settled" /\ intents[i].settledTxn # None)
    /\ intents' = IF i = None THEN intents
                  ELSE [intents EXCEPT ![i] = [intents[i] EXCEPT !.status = "settled", !.settledTxn = k]]

\* A settled purchase.
LEMMA SettlePurchaseShape ==
    ASSUME LedgerInv, NEW k \in Keys \ UsedKeys, NEW ref \in Refs, NEW p \in Providers,
           NEW i \in Intents \cup {None}, NEW u \in Users \cup {None}, NEW paid \in CentAmounts,
           NEW explicit \in BitAmounts \cup {None}, SettlePurchase(k, ref, p, i, u, paid, explicit)
    PROVE  \E x : /\ Posted(x) /\ Received(x.entries, p, x.cents, x.bits, Credit(x.to))
                  /\ x.key = k /\ x.type = "purchase" /\ x.provider = p /\ x.receipt = ref /\ x.receipt # None
                  /\ x.cashout = None /\ x.intent = i /\ x.to \in Users
                  /\ x.cents \in Nat \ {0} /\ x.bits \in Nat /\ ValueCents(x.bits) =< x.cents
                  /\ Settling(i, k) /\ UNCHANGED <<cashouts, now>>
<1> DEFINE subject == IF i = None THEN u ELSE intents[i].subject
           bits == BoughtBits(i, paid, explicit)
           e == ReceiptEntries(p, paid, bits, Credit(subject))
           x == [NewTxn(k, "purchase", now, e)
                 EXCEPT !.to = subject, !.provider = p, !.receipt = ref, !.intent = i,
                        !.bits = bits, !.cents = paid]
<1>1. paid \in Nat \ {0} /\ now \in Nat /\ Post(x) /\ None \notin Intents /\ None \notin Refs
      /\ ValueCents(bits) =< paid
  BY VibesAssumption DEF SettlePurchase, Backs, LedgerInv, TypeOK
<1>2. i # None => /\ i \in Intents /\ intents[i] \in IntentRow
                  /\ ~(intents[i].status = "settled" /\ intents[i].settledTxn # None)
  BY DEF SettlePurchase, IntentOpen, LedgerInv, TypeOK
<1>3. subject \in Users
  BY <1>2 DEF SettlePurchase, IntentRow
<1>4. bits \in Nat
  <2>1. i # None => intents[i].bits \in Nat
    BY <1>2, VibesAssumption DEF IntentRow
  <2>2. BitsForPriceCents(paid) \in Nat
    BY <1>1, BoughtNat
  <2> QED
    BY <2>1, <2>2, VibesAssumption DEF BoughtBits
<1>5. Credit(subject) \in SpendableAccounts
  BY <1>3 DEF SpendableAccounts
<1>6. Settling(i, k) /\ UNCHANGED <<cashouts, now>>
  BY <1>2 DEF SettlePurchase, Settling
<1> HIDE DEF bits, subject
<1>7. Received(e, p, paid, bits, Credit(subject))
  BY <1>1, <1>4, <1>5, ReceiptEffects
<1>8. e \in EntrySet
  BY <1>7 DEF Received
<1> HIDE DEF e
<1>9. /\ x \in Txn /\ x.key = k /\ x.at = now /\ x.entries = e
      /\ x.type = "purchase" /\ x.provider = p /\ x.receipt = ref /\ x.cashout = None /\ x.intent = i
      /\ x.to = subject /\ x.cents = paid /\ x.bits = bits
  BY <1>1, <1>3, <1>4, <1>8 DEF NewTxn, Txn
<1> HIDE DEF x
<1>10. Posted(x)
  BY <1>1, <1>9, PostShape
<1>11. Received(x.entries, p, x.cents, x.bits, Credit(x.to))
  BY <1>7, <1>9
<1> QED
  BY <1>1, <1>3, <1>4, <1>6, <1>9, <1>10, <1>11

\* A tip through a provider.
LEMMA TipShape ==
    ASSUME LedgerInv, NEW k \in Keys \ UsedKeys, NEW ref \in Refs, NEW p \in Providers,
           NEW from \in Users \cup {None}, NEW to \in Users, NEW paid \in CentAmounts,
           TipFromReceipt(k, ref, p, from, to, paid)
    PROVE  \E x : /\ Posted(x) /\ Received(x.entries, p, x.cents, x.bits, Payable(to))
                  /\ x.type = "donation" /\ x.provider = p /\ x.receipt = ref /\ x.receipt # None
                  /\ x.cashout = None /\ x.intent = None /\ x.from = from /\ x.to = to /\ from # to
                  /\ x.cents \in Nat \ {0} /\ x.bits \in Nat
                  /\ UNCHANGED <<intents, cashouts, now>>
<1> DEFINE bits == BitsForValueCents(paid)
           e == ReceiptEntries(p, paid, bits, Payable(to))
           x == [NewTxn(k, "donation", now, e)
                 EXCEPT !.from = from, !.to = to, !.provider = p, !.receipt = ref,
                        !.bits = bits, !.cents = paid]
<1>1. paid \in Nat \ {0} /\ now \in Nat /\ Post(x) /\ None \notin Refs /\ from # to
      /\ UNCHANGED <<intents, cashouts, now>>
  BY VibesAssumption DEF TipFromReceipt, NotToSelf, LedgerInv, TypeOK
<1>2. bits \in Nat
  BY <1>1, BitsForValueNat
<1>3. Payable(to) \in SpendableAccounts
  BY DEF SpendableAccounts
<1> HIDE DEF bits
<1>4. Received(e, p, paid, bits, Payable(to))
  BY <1>1, <1>2, <1>3, ReceiptEffects
<1>5. e \in EntrySet
  BY <1>4 DEF Received
<1> HIDE DEF e
<1>6. /\ x \in Txn /\ x.key = k /\ x.at = now /\ x.entries = e
      /\ x.type = "donation" /\ x.provider = p /\ x.receipt = ref /\ x.cashout = None /\ x.intent = None
      /\ x.from = from /\ x.to = to /\ x.cents = paid /\ x.bits = bits
  BY <1>1, <1>2, <1>5 DEF NewTxn, Txn
<1> HIDE DEF x
<1>7. Posted(x)
  BY <1>1, <1>6, PostShape
<1>8. Received(x.entries, p, x.cents, x.bits, Payable(to))
  BY <1>4, <1>6
<1> QED
  BY <1>1, <1>2, <1>6, <1>7, <1>8

\* A receipt is in order, and touches nothing it does not name.
LEMMA ReceivedLaw ==
    ASSUME NEW x, NEW p \in Providers, NEW target \in SpendableAccounts,
           Received(x.entries, p, x.cents, x.bits, target), x.provider = p, x.receipt # None,
           x.type \in {"purchase", "donation"}, x.cents \in Nat, x.bits \in Nat,
           x.type = "purchase" => ValueCents(x.bits) =< x.cents
    PROVE  InOrder(x) /\ PayoutsStill(x) /\ PendingStill(x)
           /\ \A a \in SpendableAccounts : x.entries[a] = IF a = target THEN x.bits ELSE 0
<1>1. target \in BitsAccounts /\ target # FxBits /\ \A u : target # Pending(u)
  BY Apart DEF SpendableAccounts, HeldAccounts, BitsAccounts
<1>2. /\ -x.bits \in Int /\ -x.cents \in Int /\ ValueCents(x.bits) \in Nat
      /\ x.cents - ValueCents(x.bits) \in Int
  BY ValueNat
<1> DEFINE lb == -x.bits
           lc == -x.cents
           v == ValueCents(x.bits)
           r == x.cents - v
           e == x.entries
<1>3. \A a \in Accounts :
         e[a] = (IF a = Clearing(p) THEN lc ELSE 0) + (IF a = Revenue THEN r ELSE 0) + (IF a = FxCents THEN v ELSE 0)
                  + ((IF a = FxBits THEN lb ELSE 0) + (IF a = target THEN x.bits ELSE 0))
  BY DEF Received
<1>4. lb \in Int /\ lc \in Int /\ v \in Int /\ r \in Int
  BY <1>2
<1>4a. lb + x.bits = 0
  OBVIOUS
<1> HIDE DEF lb, lc, v, r, e
<1>5. ASSUME NEW a \in BitsAccounts
      PROVE  a \in Accounts /\ a # Clearing(p) /\ a # Revenue /\ a # FxCents
  BY Currencies
<1>6. ASSUME NEW a \in CentsAccounts
      PROVE  a \in Accounts /\ a # FxBits /\ a # target
  BY <1>1, Currencies
<1>7. e[FxBits] = lb
  BY <1>1, <1>3, <1>4, <1>5, Currencies
<1>8. e[FxCents] = v /\ e[Clearing(p)] = lc
  <2>1. Clearing(p) \in CentsAccounts /\ Clearing(p) # Revenue /\ Clearing(p) # FxCents /\ Revenue # FxCents
        /\ FxCents \in CentsAccounts
    BY Apart, Currencies
  <2> QED
    BY <1>3, <1>4, <1>6, <2>1
<1>9. PayoutsStill(x)
  <2> SUFFICES ASSUME NEW q \in Providers PROVE e[PayoutClearing(q)] = 0
    BY DEF PayoutsStill, e
  <2>1. /\ PayoutClearing(q) \in CentsAccounts /\ PayoutClearing(q) # Revenue /\ PayoutClearing(q) # FxCents
        /\ PayoutClearing(q) # Clearing(p)
    BY Apart, Currencies
  <2> QED
    BY <1>3, <1>4, <1>6, <2>1
<1>10. PendingStill(x)
  <2> SUFFICES ASSUME NEW u \in Users PROVE e[Pending(u)] = 0
    BY DEF PendingStill, e
  <2>1. Pending(u) \in BitsAccounts /\ Pending(u) # FxBits /\ Pending(u) # target
    BY <1>1, Apart, Currencies
  <2> QED
    BY <1>3, <1>4, <1>5, <2>1
<1>11. \A a \in SpendableAccounts : e[a] = IF a = target THEN x.bits ELSE 0
  <2> SUFFICES ASSUME NEW a \in SpendableAccounts PROVE e[a] = IF a = target THEN x.bits ELSE 0
    OBVIOUS
  <2>1. a \in BitsAccounts /\ a # FxBits
    BY SpendableApart DEF BitsAccounts, HeldAccounts
  <2> QED
    BY <1>3, <1>4, <1>5, <2>1
<1>12. Mirrored(x)
  <2>1. CASE x.bits = 0
    <3>1. lb = 0 /\ lb \in Int
      BY <1>4, <1>4a, <2>1
    <3>2. v = 0
      BY <2>1, ValueZero DEF v
    <3> QED
      BY <1>7, <1>8, <3>1, <3>2, MirrorStill DEF e
  <2>2. CASE x.bits # 0
    <3>1. ~(lb >= 0) /\ -lb = x.bits
      BY <2>2 DEF lb
    <3> QED
      BY <1>7, <1>8, <3>1 DEF Mirrored, e, v
  <2> QED
    BY <2>1, <2>2
<1>13. Receipted(x)
  BY <1>8 DEF Receipted, e, lc
<1>14. Even(x.entries)
  BY DEF Received
<1> QED
  BY <1>9, <1>10, <1>11, <1>12, <1>13, <1>14 DEF InOrder, e

\* A payout is in order, and moves its cents through its provider alone.
LEMMA PaidOutLaw ==
    ASSUME NEW x, NEW u \in Users, NEW p \in Providers, NEW b \in Nat, NEW n \in Nat,
           PaidOut(x.entries, u, p, b, n), n = ValueCents(b), x.type = "cashout_paid"
    PROVE  /\ InOrder(x)
           /\ \A q \in Providers : x.entries[PayoutClearing(q)] = IF q = p THEN n ELSE 0
           /\ \A v \in Users : x.entries[Pending(v)] = IF v = u THEN -b ELSE 0
           /\ \A a \in SpendableAccounts : x.entries[a] = 0
<1> DEFINE lb == -b
           ln == -n
           e == x.entries
<1>1. \A a \in Accounts :
        e[a] = ((IF a = Pending(u) THEN lb ELSE 0) + (IF a = FxBits THEN b ELSE 0))
                 + ((IF a = FxCents THEN ln ELSE 0) + (IF a = PayoutClearing(p) THEN n ELSE 0))
  BY DEF PaidOut
<1>2. lb \in Int /\ ln \in Int /\ b \in Int /\ n \in Int
  OBVIOUS
<1> HIDE DEF lb, ln, e
<1>3. \A a \in BitsAccounts : a \in Accounts /\ a # FxCents /\ a # PayoutClearing(p)
  BY Currencies
<1>4. \A a \in CentsAccounts : a \in Accounts /\ a # FxBits /\ a # Pending(u)
  BY Currencies
<1>5. e[FxBits] = b
  <2>1. FxBits \in BitsAccounts /\ FxBits # Pending(u)
    BY Apart, Currencies
  <2> QED
    BY <1>1, <1>2, <1>3, <2>1
<1>6. e[FxCents] = ln
  <2>1. FxCents \in CentsAccounts /\ FxCents # PayoutClearing(p)
    BY Apart, Currencies
  <2> QED
    BY <1>1, <1>2, <1>4, <2>1
<1>7. ASSUME NEW q \in Providers PROVE e[PayoutClearing(q)] = IF q = p THEN n ELSE 0
  <2>1. /\ PayoutClearing(q) \in CentsAccounts /\ FxCents # PayoutClearing(q)
        /\ PayoutClearing(q) = PayoutClearing(p) <=> q = p
    BY Apart, Currencies
  <2> QED
    BY <1>1, <1>2, <1>4, <2>1
<1>8. ASSUME NEW v \in Users PROVE e[Pending(v)] = IF v = u THEN lb ELSE 0
  <2>1. Pending(v) \in BitsAccounts /\ FxBits # Pending(v) /\ (Pending(v) = Pending(u) <=> v = u)
    BY Apart, Currencies
  <2> QED
    BY <1>1, <1>2, <1>3, <2>1
<1>9. ASSUME NEW a \in SpendableAccounts PROVE e[a] = 0
  <2>1. a \in BitsAccounts /\ a # FxBits /\ a # Pending(u)
    BY SpendableApart DEF BitsAccounts, HeldAccounts
  <2> QED
    BY <1>1, <1>2, <1>3, <2>1
<1>10. Mirrored(x)
  <2>1. e[FxBits] >= 0 /\ e[FxCents] = -ValueCents(e[FxBits])
    BY <1>5, <1>6 DEF ln
  <2> QED
    BY <2>1 DEF Mirrored, e
<1>11. Even(x.entries) /\ Receipted(x)
  BY DEF PaidOut, Receipted
<1>12. InOrder(x)
  BY <1>10, <1>11 DEF InOrder
<1> QED
  BY <1>7, <1>8, <1>9, <1>12 DEF e, lb

----------------------------------------------------------------------------
(* Reversals of receipts.                                                  *)

\* The two parts of a purchase's reversal: `clawed' bits back from the buyer's credit,
\* their value from the value account, the rest of the cents borne as loss or refunds.
TakenBack(e, u, p, clawed, cents, lossPart, refundPart) ==
    /\ e \in EntrySet /\ Even(e)
    /\ \A a \in Accounts :
         e[a] = ((IF a = Credit(u) THEN -clawed ELSE 0) + (IF a = FxBits THEN clawed ELSE 0))
                  + ((IF a = FxCents THEN -ValueCents(clawed) ELSE 0) + (IF a = Clearing(p) THEN cents ELSE 0)
                       + (IF a = Loss THEN -lossPart ELSE 0) + (IF a = Refunds THEN -refundPart ELSE 0))

\* Entries of that form are even when the parts cover the cents.
LEMMA TakenBackEntries ==
    ASSUME NEW u \in Users, NEW p \in Providers, NEW clawed \in Nat, NEW cents \in Nat,
           NEW l \in Int, NEW r \in Int, ValueCents(clawed) + l + r = cents
    PROVE  TakenBack(Entry(Credit(u), -clawed) ++ Entry(FxBits, clawed) ++ Entry(FxCents, -ValueCents(clawed))
                       ++ Entry(Clearing(p), cents) ++ Entry(Loss, -l) ++ Entry(Refunds, -r),
                     u, p, clawed, cents, l, r)
<1> DEFINE lc == -clawed
           lv == -ValueCents(clawed)
           ll == -l
           lr == -r
<1>1. /\ Credit(u)[3] = FxBits[3] /\ Credit(u) \in Accounts /\ FxBits \in Accounts
      /\ FxCents \in CentsAccounts /\ Clearing(p) \in CentsAccounts /\ Loss \in CentsAccounts
      /\ Refunds \in CentsAccounts
      /\ FxCents \in Accounts /\ Clearing(p) \in Accounts /\ Loss \in Accounts /\ Refunds \in Accounts
  BY AccountTypes, Currencies DEF Credit, FxBits
<1>2. /\ clawed \in Int /\ lc = -clawed /\ lc \in Int /\ lv \in Int /\ ll \in Int /\ lr \in Int /\ cents \in Int
      /\ lv + cents + ll + lr = 0
  BY ValueNat
<1> HIDE DEF lc, lv, ll, lr
<1> DEFINE d == Entry(Credit(u), lc) ++ Entry(FxBits, clawed)
           e3 == Entry(FxCents, lv)
           e4 == Entry(Clearing(p), cents)
           e5 == Entry(Loss, ll)
           e6 == Entry(Refunds, lr)
           e == d ++ e3 ++ e4 ++ e5 ++ e6
<1>3. d \in EntrySet /\ Even(d) /\ \A a \in Accounts :
        d[a] = (IF a = Credit(u) THEN lc ELSE 0) + (IF a = FxBits THEN clawed ELSE 0)
  <2>1. d \in EntrySet /\ Even(d)
    BY <1>1, <1>2, PairEven
  <2> QED
    BY <1>1, <1>2, <2>1, EntryLaw, AddLaw
<1>4. /\ e3 \in EntrySet /\ Total(e3, BitsAccounts) = 0 /\ Total(e3, CentsAccounts) = lv
      /\ e4 \in EntrySet /\ Total(e4, BitsAccounts) = 0 /\ Total(e4, CentsAccounts) = cents
      /\ e5 \in EntrySet /\ Total(e5, BitsAccounts) = 0 /\ Total(e5, CentsAccounts) = ll
      /\ e6 \in EntrySet /\ Total(e6, BitsAccounts) = 0 /\ Total(e6, CentsAccounts) = lr
  BY <1>1, <1>2, CentsTotals
<1>5. \A a \in Accounts :
        /\ e3[a] = IF a = FxCents THEN lv ELSE 0
        /\ e4[a] = IF a = Clearing(p) THEN cents ELSE 0
        /\ e5[a] = IF a = Loss THEN ll ELSE 0
        /\ e6[a] = IF a = Refunds THEN lr ELSE 0
  BY <1>1, <1>2, EntryLaw
<1> HIDE DEF d, e3, e4, e5, e6
<1>6. /\ (d ++ e3) \in EntrySet /\ (d ++ e3 ++ e4) \in EntrySet /\ (d ++ e3 ++ e4 ++ e5) \in EntrySet
      /\ e \in EntrySet
  BY <1>3, <1>4, AddLaw
<1>7. \A a \in Accounts : e[a] = d[a] + (e3[a] + e4[a] + e5[a] + e6[a])
  <2>1. \A a \in Accounts : e[a] = d[a] + e3[a] + e4[a] + e5[a] + e6[a]
    BY <1>3, <1>4, <1>6, AddLaw
  <2>2. \A a \in Accounts : d[a] \in Int /\ e3[a] \in Int /\ e4[a] \in Int /\ e5[a] \in Int /\ e6[a] \in Int
    BY <1>3, <1>4 DEF EntrySet
  <2> QED
    BY <2>1, <2>2
<1>8. Even(e)
  <2>1. Total(d ++ e3, BitsAccounts) = 0 /\ Total(d ++ e3, CentsAccounts) = lv
    <3>1. Total(d ++ e3, BitsAccounts) = 0 + 0 /\ Total(d ++ e3, CentsAccounts) = 0 + lv
      BY <1>3, <1>4, AddTotal, AccountsFinite, Currencies DEF Even
    <3> QED
      BY <1>2, <3>1
  <2>2. Total(d ++ e3 ++ e4, BitsAccounts) = 0 + 0 /\ Total(d ++ e3 ++ e4, CentsAccounts) = lv + cents
    BY <1>4, <1>6, <2>1, AddTotal, AccountsFinite, Currencies
  <2>3. /\ Total(d ++ e3 ++ e4 ++ e5, BitsAccounts) = 0 + 0 + 0
        /\ Total(d ++ e3 ++ e4 ++ e5, CentsAccounts) = lv + cents + ll
    BY <1>4, <1>6, <2>2, AddTotal, AccountsFinite, Currencies
  <2>4. Total(e, BitsAccounts) = 0 + 0 + 0 + 0 /\ Total(e, CentsAccounts) = lv + cents + ll + lr
    BY <1>4, <1>6, <2>3, AddTotal, AccountsFinite, Currencies
  <2> QED
    BY <1>2, <2>4 DEF Even
<1> HIDE DEF e
<1>9. \A a \in Accounts :
         e[a] = ((IF a = Credit(u) THEN lc ELSE 0) + (IF a = FxBits THEN clawed ELSE 0))
                  + ((IF a = FxCents THEN lv ELSE 0) + (IF a = Clearing(p) THEN cents ELSE 0)
                       + (IF a = Loss THEN ll ELSE 0) + (IF a = Refunds THEN lr ELSE 0))
  BY <1>3, <1>5, <1>7
<1> QED
  BY <1>6, <1>8, <1>9, Zenon DEF TakenBack, e, d, e3, e4, e5, e6, lc, lv, ll, lr

\* The bits a partial reversal calls back are worth no more than its cents, at the
\* default rate, of a purchase whose bits were worth no more than was paid.
LEMMA PartWorth ==
    ASSUME NEW bits \in Nat, NEW total \in Nat \ {0}, bits =< total, NEW done \in Nat, NEW cents \in Nat
    PROVE  Round(bits * (done + cents), total) - Round(bits * done, total) =< cents
<1> DEFINE m == bits * done
           n == bits * (done + cents)
           c == cents * total
<1>1. m \in Int /\ n \in Int /\ c \in Int /\ n =< m + c
  <2>1. bits * cents \in Int /\ n = m + bits * cents /\ m \in Int /\ c \in Int
    OBVIOUS
  <2>2. bits * cents =< c
    <3>1. (total - bits) * cents \in Nat /\ (total - bits) * cents = c - bits * cents
      OBVIOUS
    <3> QED
      BY <2>1, <3>1
  <2> QED
    BY <2>1, <2>2
<1>2. Round(m + c, total) = Round(m, total) + cents
  BY <1>1, RoundShift
<1> HIDE DEF m, n, c
<1>3. Round(n, total) =< Round(m + c, total)
  BY <1>1, RoundMonotone
<1>4. Round(n, total) \in Int /\ Round(m, total) \in Int
  BY <1>1, RoundType
<1>5. Round(n, total) - Round(m, total) =< cents
  BY <1>2, <1>3, <1>4
<1> QED
  BY <1>5 DEF m, n

\* Some of what orig bought is taken back, for some cents; no gain is booked at the
\* default rate.
TakenFor(e, orig, cents) ==
    \E clawed \in Nat, l \in Int, r \in Int :
        /\ TakenBack(e, orig.to, orig.provider, clawed, cents, l, r)
        /\ ValueCents(clawed) + l + r = cents
        /\ BitsPerUsd = 100 /\ ValueCents(orig.bits) =< orig.cents => l >= 0 /\ r >= 0

\* What a purchase's reversal takes back.
LEMMA PurchaseReversalShape ==
    ASSUME LedgerInv, NEW orig \in txns, orig.type = "purchase", NEW kind \in {"refund", "chargeback"},
           NEW cents \in Nat
    PROVE  TakenFor(PurchaseReversal(orig, kind, cents).entries, orig, cents)
<1> DEFINE done == ReversedCents(orig)
           bits == BitsToReverse(orig, done, cents)
           clawed == Clawable(orig, bits)
           value == ValueCents(clawed)
           nonFx == cents - value
           l == IF kind = "chargeback" THEN nonFx ELSE AtMost(nonFx, ValueCents(bits - clawed))
           r == nonFx - l
           e == Entry(Credit(orig.to), -clawed) ++ Entry(FxBits, clawed) ++ Entry(FxCents, -value)
                  ++ Entry(Clearing(orig.provider), cents) ++ Entry(Loss, -l) ++ Entry(Refunds, -r)
<1>1. PurchaseReversal(orig, kind, cents).entries = e
  BY DEF PurchaseReversal
<1>2. orig.to \in Users /\ orig.provider \in Providers /\ orig.bits \in Nat /\ orig.cents \in Nat \ {0}
      /\ done \in Nat
  <2>1. Sound(orig) /\ orig.bits \in Nat /\ orig.cents \in Nat
    BY DEF LedgerInv, TypeOK, Txn, JournalInv, ReceiptsSound
  <2> QED
    BY <2>1, SumsOfReversals DEF Sound, LedgerInv
<1>3. bits \in Nat
  BY PurchaseReversalLaw DEF PurchaseReversal
<1>4. BitsPerUsd = 100 /\ ValueCents(orig.bits) =< orig.cents => bits =< cents
  <2> SUFFICES ASSUME BitsPerUsd = 100, ValueCents(orig.bits) =< orig.cents PROVE bits =< cents
    OBVIOUS
  <2>1. orig.bits =< orig.cents
    BY <1>2, ValueDefault
  <2> QED
    BY <1>2, <2>1, PartWorth DEF BitsToReverse, BitsCovered
<1>5. balance[Credit(orig.to)] \in Int
  BY <1>2, AccountTypes DEF LedgerInv, TypeOK, EntrySet
<1> HIDE DEF done, bits
<1>6. clawed \in Nat /\ clawed =< bits
  BY <1>3, <1>5 DEF Clawable, AtLeast, AtMost
<1> HIDE DEF clawed
<1>7. value \in Nat /\ ValueCents(bits - clawed) \in Nat
  <2>1. bits - clawed \in Nat
    BY <1>3, <1>6
  <2> QED
    BY <1>6, <2>1, ValueNat
<1>8. BitsPerUsd = 100 /\ ValueCents(orig.bits) =< orig.cents => value =< cents
  BY <1>3, <1>4, <1>6, ValueDefault
<1> HIDE DEF value
<1>9. nonFx \in Int /\ l \in Int /\ r \in Int /\ value + l + r = cents
  BY <1>7 DEF AtMost
<1>10. value =< cents => l >= 0 /\ r >= 0
  BY <1>7 DEF AtMost
<1> HIDE DEF l, r
<1>11. TakenBack(e, orig.to, orig.provider, clawed, cents, l, r)
  BY <1>2, <1>6, <1>9, TakenBackEntries, Zenon DEF value
<1> HIDE DEF e
<1>12. /\ TakenBack(PurchaseReversal(orig, kind, cents).entries, orig.to, orig.provider, clawed, cents, l, r)
       /\ ValueCents(clawed) + l + r = cents
  BY <1>1, <1>9, <1>11 DEF value
<1>13. BitsPerUsd = 100 /\ ValueCents(orig.bits) =< orig.cents => l >= 0 /\ r >= 0
  BY <1>8, <1>10
<1>14. clawed \in Nat /\ l \in Int /\ r \in Int
  BY <1>6, <1>9
<1> HIDE DEF nonFx
<1> SUFFICES \E c \in Nat, m \in Int, q \in Int :
               /\ TakenBack(PurchaseReversal(orig, kind, cents).entries, orig.to, orig.provider, c, cents, m, q)
               /\ ValueCents(c) + m + q = cents
               /\ BitsPerUsd = 100 /\ ValueCents(orig.bits) =< orig.cents => m >= 0 /\ q >= 0
  BY DEF TakenFor
<1> USE <1>14
<1> WITNESS clawed \in Nat, l \in Int, r \in Int
<1> QED
  BY <1>12, <1>13

\* What a tip's reversal books: the provider's cents, borne by loss or refunds.
Borne(e, p, cents, bearer) ==
    /\ e \in EntrySet /\ Even(e)
    /\ \A a \in Accounts : e[a] = (IF a = Clearing(p) THEN cents ELSE 0) + (IF a = bearer THEN -cents ELSE 0)

\* A tip's reversal books that.
LEMMA TipReversalShape ==
    ASSUME NEW orig, orig.provider \in Providers, NEW kind \in {"refund", "chargeback"}, NEW cents \in Nat
    PROVE  \E bearer \in {Loss, Refunds} :
             Borne(TipReversal(orig, kind, cents).entries, orig.provider, cents, bearer)
<1> DEFINE p == orig.provider
           bearer == IF kind = "chargeback" THEN Loss ELSE Refunds
           less == -cents
           e == TipReversal(orig, kind, cents).entries
<1>1. bearer \in {Loss, Refunds} /\ less \in Int /\ cents + less = 0 /\ cents \in Int
  OBVIOUS
<1>2. e = Entry(Clearing(p), cents) ++ Entry(bearer, less)
  BY DEF TipReversal
<1> HIDE DEF bearer, less, p, e
<1>3. p \in Providers /\ bearer \in CentsAccounts /\ Clearing(p) \in CentsAccounts
      /\ bearer \in Accounts /\ Clearing(p) \in Accounts
  BY <1>1, Currencies, AccountTypes DEF p
<1> DEFINE e1 == Entry(Clearing(p), cents)
           e2 == Entry(bearer, less)
<1>4. /\ e1 \in EntrySet /\ Total(e1, BitsAccounts) = 0 /\ Total(e1, CentsAccounts) = cents
      /\ e2 \in EntrySet /\ Total(e2, BitsAccounts) = 0 /\ Total(e2, CentsAccounts) = less
  BY <1>1, <1>3, CentsTotals
<1>5. \A a \in Accounts : e1[a] = (IF a = Clearing(p) THEN cents ELSE 0) /\ e2[a] = (IF a = bearer THEN less ELSE 0)
  BY <1>1, <1>3, EntryLaw
<1> HIDE DEF e1, e2
<1>6. (e1 ++ e2) \in EntrySet /\ \A a \in Accounts : (e1 ++ e2)[a] = e1[a] + e2[a]
  BY <1>4, AddLaw
<1>7. Total(e1 ++ e2, BitsAccounts) = 0 + 0 /\ Total(e1 ++ e2, CentsAccounts) = cents + less
  BY <1>4, AddTotal, AccountsFinite, Currencies
<1>8. Even(e1 ++ e2)
  BY <1>1, <1>7 DEF Even
<1>9. e = e1 ++ e2
  BY <1>2 DEF e1, e2
<1>10. \A a \in Accounts : e[a] = (IF a = Clearing(p) THEN cents ELSE 0) + (IF a = bearer THEN less ELSE 0)
  BY <1>5, <1>6, <1>9
<1>11. Borne(e, p, cents, bearer)
  BY <1>6, <1>8, <1>9, <1>10, Zenon DEF Borne, less
<1> QED
  BY <1>1, <1>11 DEF p, e

\* What the reversal x of a receipt does to it.
Reverses(orig, x) ==
    /\ Posted(x)
    /\ orig.receipt # None /\ orig.type \in {"purchase", "donation"}
    /\ orig.to \in Users /\ orig.provider \in Providers
    /\ x.type \in {"refund", "chargeback"} /\ x.reverses = orig.key /\ x.from = orig.to
    /\ x.provider = orig.provider /\ x.cashout = None /\ x.intent = None
    /\ x.cents \in Nat \ {0} /\ x.cents =< orig.cents - ReversedCents(orig)
    /\ orig.type = "purchase" => TakenFor(x.entries, orig, x.cents)
    /\ orig.type = "donation" =>
         \E bearer \in {Loss, Refunds} : Borne(x.entries, orig.provider, x.cents, bearer)
    /\ intents' = IF orig.intent # None /\ ReversedCents(orig) + x.cents >= orig.cents
                  THEN [intents EXCEPT ![orig.intent] = [intents[orig.intent] EXCEPT !.status = "refunded"]]
                  ELSE intents
    /\ UNCHANGED <<cashouts, now>>

\* The reversal of a receipt.
LEMMA ReverseReceiptShape ==
    ASSUME LedgerInv, NEW k \in Keys, NEW ref \in Refs \cup {None}, NEW origRef \in Refs,
           NEW kind \in {"refund", "chargeback"}, NEW mode \in {"cumulative", "cents", "rest"},
           NEW n \in CentAmounts, ReverseReceipt(k, ref, origRef, kind, mode, n)
    PROVE  \E orig \in txns : \E x : Reverses(orig, x)
<1> DEFINE orig == TxnByReceipt(origRef)
           cents == CentsToReverse(orig, mode, n)
           rev == IF orig.type = "purchase" THEN PurchaseReversal(orig, kind, cents)
                                            ELSE TipReversal(orig, kind, cents)
           x == [NewTxn(k, kind, now, rev.entries)
                 EXCEPT !.reverses = orig.key, !.from = orig.to, !.to = orig.from,
                        !.provider = orig.provider, !.receipt = ref, !.bits = rev.bits, !.cents = cents]
<1>1. orig \in txns /\ orig.receipt = origRef /\ origRef # None
  BY VibesAssumption DEF ReverseReceipt, ReceiptUsed, TxnByReceipt
<1>2. /\ orig.type \in {"purchase", "donation"} /\ cents > 0 /\ Post(x) /\ k \notin UsedKeys
      /\ intents' = IF orig.intent # None /\ ReversedCents(orig) + cents >= orig.cents
                    THEN [intents EXCEPT ![orig.intent] = [intents[orig.intent] EXCEPT !.status = "refunded"]]
                    ELSE intents
      /\ UNCHANGED <<cashouts, now>>
  BY DEF ReverseReceipt
<1> HIDE DEF orig
<1>3. cents \in Nat /\ cents =< orig.cents - ReversedCents(orig)
  BY <1>1, <1>2, ReversalAmount
<1>4. /\ orig.key \in Keys /\ orig.to \in Users /\ orig.from \in Users \cup {None}
      /\ orig.provider \in Providers
  BY <1>1, <1>2 DEF LedgerInv, TypeOK, Txn, JournalInv, ReceiptsSound, Sound
<1>5. cents \in Nat \ {0}
  BY <1>2, <1>3
<1> HIDE DEF cents
<1>6. rev.bits \in Nat /\ rev.entries \in EntrySet
  <2>1. CASE orig.type = "purchase"
    BY <1>1, <1>3, <2>1, PurchaseReversalLaw
  <2>2. CASE orig.type # "purchase"
    BY <1>3, <1>4, <2>2, TipReversalLaw
  <2> QED
    BY <2>1, <2>2
<1>7. orig.type = "purchase" => TakenFor(rev.entries, orig, cents)
  BY <1>1, <1>3, PurchaseReversalShape
<1>8. orig.type = "donation" => \E bearer \in {Loss, Refunds} : Borne(rev.entries, orig.provider, cents, bearer)
  BY <1>3, <1>4, TipReversalShape
<1> HIDE DEF rev
<1>9. now \in Nat
  BY DEF LedgerInv, TypeOK
<1>10. /\ x \in Txn /\ x.key = k /\ x.at = now /\ x.entries = rev.entries
       /\ x.type = kind /\ x.reverses = orig.key /\ x.from = orig.to /\ x.provider = orig.provider
       /\ x.cashout = None /\ x.intent = None /\ x.cents = cents
  BY <1>3, <1>4, <1>6, <1>9 DEF NewTxn, Txn
<1> HIDE DEF x
<1>11. Posted(x)
  BY <1>2, <1>10, PostShape
<1>12. Reverses(orig, x)
  BY <1>1, <1>2, <1>3, <1>4, <1>5, <1>7, <1>8, <1>10, <1>11 DEF Reverses
<1> HIDE DEF orig
<1> QED
  BY <1>1, <1>12

\* A receipt's reversal is in order, and leaves payables, pending and payouts alone.
LEMMA ReversalLaw ==
    ASSUME NEW x, NEW orig, orig.to \in Users, orig.provider \in Providers, x.provider = orig.provider,
           x.type \in {"refund", "chargeback"}, x.cents \in Nat,
           \/ TakenFor(x.entries, orig, x.cents)
           \/ \E bearer \in {Loss, Refunds} : Borne(x.entries, orig.provider, x.cents, bearer)
    PROVE  /\ InOrder(x) /\ PayoutsStill(x) /\ PendingStill(x) /\ ProjectsStill(x)
           /\ \A u \in Users : x.entries[Payable(u)] = 0
           /\ BitsPerUsd = 100 /\ ValueCents(orig.bits) =< orig.cents =>
                x.entries[Loss] =< 0 /\ x.entries[Refunds] =< 0
<1> DEFINE e == x.entries
           p == orig.provider
           b == orig.to
           n == x.cents
<1>1. \A a \in BitsAccounts : a \in Accounts /\ a # FxCents /\ a # Clearing(p) /\ a # Loss /\ a # Refunds
  BY Currencies
<1>2. \A a \in CentsAccounts : a \in Accounts /\ a # FxBits /\ a # Credit(b)
  BY Currencies
<1>3. /\ FxBits \in BitsAccounts /\ FxCents \in CentsAccounts /\ Clearing(p) \in CentsAccounts
      /\ Loss \in CentsAccounts /\ Refunds \in CentsAccounts /\ Credit(b) # FxBits
      /\ Clearing(p) # FxCents /\ Clearing(p) # Loss /\ Clearing(p) # Refunds
      /\ FxCents # Loss /\ FxCents # Refunds /\ Loss # Refunds
  BY Apart, Currencies
<1>4. \A u \in Users : /\ Pending(u) \in BitsAccounts /\ Pending(u) # FxBits /\ Pending(u) # Credit(b)
                       /\ Payable(u) \in BitsAccounts /\ Payable(u) # FxBits /\ Payable(u) # Credit(b)
  BY Apart, Currencies
<1>5. \A q \in Providers : /\ PayoutClearing(q) \in CentsAccounts /\ PayoutClearing(q) # Clearing(p)
                           /\ PayoutClearing(q) # FxCents /\ PayoutClearing(q) # Loss /\ PayoutClearing(q) # Refunds
  BY Apart, Currencies
<1>6. \A q \in Projects : /\ ProjectPayable(q) \in BitsAccounts /\ ProjectPayable(q) # FxBits
                          /\ ProjectPayable(q) # Credit(b)
  BY Apart, Currencies
<1>7. CASE TakenFor(e, orig, n)
  <2>1. PICK clawed \in Nat, l \in Int, r \in Int :
          /\ TakenBack(e, b, p, clawed, n, l, r)
          /\ BitsPerUsd = 100 /\ ValueCents(orig.bits) =< orig.cents => l >= 0 /\ r >= 0
    BY <1>7 DEF TakenFor
  <2> DEFINE lc == -clawed
             lv == -ValueCents(clawed)
             ll == -l
             lr == -r
  <2>2. \A a \in Accounts :
          e[a] = ((IF a = Credit(b) THEN lc ELSE 0) + (IF a = FxBits THEN clawed ELSE 0))
                   + ((IF a = FxCents THEN lv ELSE 0) + (IF a = Clearing(p) THEN n ELSE 0)
                        + (IF a = Loss THEN ll ELSE 0) + (IF a = Refunds THEN lr ELSE 0))
    BY <2>1 DEF TakenBack
  <2>3. /\ lc \in Int /\ lv \in Int /\ ll \in Int /\ lr \in Int /\ clawed \in Int /\ n \in Int
        /\ l >= 0 => ll =< 0
        /\ r >= 0 => lr =< 0
    BY ValueNat
  <2> HIDE DEF lc, lv, ll, lr, e, p, b, n
  <2>4. ASSUME NEW a \in BitsAccounts, a # Credit(b), a # FxBits PROVE e[a] = 0
    BY <1>1, <2>2, <2>3, <2>4
  <2>5. e[FxBits] = clawed
    BY <1>1, <1>3, <2>2, <2>3
  <2>6. e[FxCents] = lv /\ e[Clearing(p)] = n /\ e[Loss] = ll /\ e[Refunds] = lr
    BY <1>2, <1>3, <2>2, <2>3
  <2>7. ASSUME NEW q \in Providers PROVE e[PayoutClearing(q)] = 0
    BY <1>2, <1>5, <2>2, <2>3
  <2>8. Mirrored(x)
    BY <2>5, <2>6 DEF Mirrored, e, lv
  <2>9. Even(e) /\ Receipted(x)
    BY <2>1, <2>6 DEF Receipted, TakenBack, e, p, n
  <2>10. PendingStill(x) /\ ProjectsStill(x) /\ \A u \in Users : e[Payable(u)] = 0
    BY <1>4, <1>6, <2>4 DEF PendingStill, ProjectsStill, e
  <2>11. PayoutsStill(x)
    BY <2>7 DEF PayoutsStill, e
  <2>12. BitsPerUsd = 100 /\ ValueCents(orig.bits) =< orig.cents => e[Loss] =< 0 /\ e[Refunds] =< 0
    BY <2>1, <2>3, <2>6
  <2> QED
    BY <2>8, <2>9, <2>10, <2>11, <2>12 DEF InOrder, e
<1>8. CASE \E bearer \in {Loss, Refunds} : Borne(e, p, n, bearer)
  <2>1. PICK bearer \in {Loss, Refunds} : Borne(e, p, n, bearer)
    BY <1>8
  <2> DEFINE ln == -n
  <2>2. \A a \in Accounts : e[a] = (IF a = Clearing(p) THEN n ELSE 0) + (IF a = bearer THEN ln ELSE 0)
    BY <2>1 DEF Borne
  <2>3. ln \in Int /\ n \in Int /\ ln =< 0
    OBVIOUS
  <2> HIDE DEF ln, e, p, b, n
  <2>4. ASSUME NEW a \in BitsAccounts PROVE e[a] = 0
    BY <1>1, <2>2, <2>3
  <2>5. e[FxCents] = 0 /\ e[Clearing(p)] = n /\ e[Loss] =< 0 /\ e[Refunds] =< 0
    BY <1>2, <1>3, <2>2, <2>3
  <2>6. ASSUME NEW q \in Providers PROVE e[PayoutClearing(q)] = 0
    BY <1>2, <1>5, <2>2, <2>3
  <2>7. Mirrored(x)
    BY <1>3, <2>4, <2>5, MirrorStill DEF e
  <2>8. Even(e) /\ Receipted(x)
    BY <2>1, <2>5 DEF Receipted, Borne, e, p, n
  <2>9. PendingStill(x) /\ ProjectsStill(x) /\ \A u \in Users : e[Payable(u)] = 0
    BY <1>4, <1>6, <2>4 DEF PendingStill, ProjectsStill, e
  <2>10. PayoutsStill(x)
    BY <2>6 DEF PayoutsStill, e
  <2> QED
    BY <2>5, <2>7, <2>8, <2>9, <2>10 DEF InOrder, e
<1> QED
  BY <1>7, <1>8

----------------------------------------------------------------------------
(* The books.                                                              *)

\* Every transaction is even, and all but adjustments are in order.
BooksInv == \A t \in txns : Even(t.entries) /\ (t.type # "adjustment" => InOrder(t))

Drift == balance[FxCents] * BitsPerUsd - 100 * Total(balance, HeldAccounts)
Slack == IF 100 % BitsPerUsd = 0 THEN 0 ELSE BitsPerUsd * Cardinality(txns)

\* Backed, without its local names.
LEMMA BackedForm == Backed <=> (Unadjusted(Accounts \ SpendableAccounts) => 2 * Drift \in -Slack..Slack)
  BY DEF Backed, Drift, Slack

\* What an even transaction moves between people leaves or enters the value account.
LEMMA HeldTotal ==
    ASSUME NEW e \in EntrySet, Even(e)
    PROVE  Total(e, HeldAccounts) \in Int /\ Total(e, HeldAccounts) + e[FxBits] = 0
<1>1. FxBits \notin HeldAccounts
  BY Apart DEF HeldAccounts, SpendableAccounts
<1>2. BitsAccounts = HeldAccounts \cup {FxBits}
  BY DEF BitsAccounts
<1>3. \A a \in HeldAccounts \cup {FxBits} : e[a] \in Int
  BY <1>2, Currencies DEF EntrySet
<1>4. SumFunctionOnSet(e, HeldAccounts \cup {FxBits}) = SumFunctionOnSet(e, HeldAccounts) + e[FxBits]
  BY <1>1, <1>3, AccountsFinite, SumAdd
<1>5. SumFunctionOnSet(e, HeldAccounts) \in Int
  BY <1>3, AccountsFinite, SumType
<1> QED
  BY <1>2, <1>4, <1>5 DEF Total, Even

\* A transaction in order drifts by no more than half a cent, an adjustment that
\* names spendable accounts alone not at all.
LEMMA DriftLaw ==
    ASSUME NEW x, x.entries \in EntrySet, Even(x.entries),
           Mirrored(x) \/ (x.entries[FxBits] = 0 /\ x.entries[FxCents] = 0)
    PROVE  LET off == x.entries[FxCents] * BitsPerUsd + 100 * x.entries[FxBits]
           IN  /\ off \in Int /\ 2 * off =< BitsPerUsd /\ -BitsPerUsd =< 2 * off
               /\ 100 % BitsPerUsd = 0 => off = 0
<1> DEFINE b == x.entries[FxBits]
           m == x.entries[FxCents]
<1>0. b \in Int /\ m \in Int /\ BitsPerUsd \in Nat \ {0}
  BY AccountTypes, RatesAssumption DEF EntrySet
<1>1. CASE b = 0 /\ m = 0
  <2>1. m * BitsPerUsd + 100 * b = 0
    BY <1>0, <1>1
  <2> QED
    BY <1>0, <2>1
<1>2. CASE Mirrored(x) /\ b >= 0
  <2> DEFINE v == ValueCents(b)
             off == v * BitsPerUsd - 100 * b
  <2>1. b \in Nat /\ m = -v
    BY <1>0, <1>2 DEF Mirrored
  <2>2. /\ off \in Int /\ 2 * off =< BitsPerUsd /\ -BitsPerUsd =< 2 * off
        /\ 100 % BitsPerUsd = 0 => off = 0
    BY <2>1, ValueError
  <2>3. v \in Nat
    BY <2>1, ValueNat
  <2> HIDE DEF v
  <2>4. (m * BitsPerUsd + 100 * b) + off = 0 /\ m * BitsPerUsd + 100 * b \in Int
    BY <1>0, <2>1, <2>3
  <2> DEFINE w == m * BitsPerUsd + 100 * b
  <2> HIDE DEF off, b, m, w
  <2>5. w + off = 0 /\ w \in Int
    BY <2>4 DEF w
  <2>6. /\ w \in Int /\ 2 * w =< BitsPerUsd /\ -BitsPerUsd =< 2 * w
        /\ off = 0 => w = 0
    BY <1>0, <2>2, <2>5
  <2> QED
    BY <2>2, <2>6 DEF w, b, m
<1>3. CASE Mirrored(x) /\ ~(b >= 0)
  <2> DEFINE c == -b
             v == ValueCents(c)
             off == v * BitsPerUsd - 100 * c
  <2>1. c \in Nat /\ m = v
    BY <1>0, <1>3 DEF Mirrored
  <2>2. /\ off \in Int /\ 2 * off =< BitsPerUsd /\ -BitsPerUsd =< 2 * off
        /\ 100 % BitsPerUsd = 0 => off = 0
    BY <2>1, ValueError
  <2>3. v \in Nat
    BY <2>1, ValueNat
  <2> HIDE DEF v
  <2>4. m * BitsPerUsd + 100 * b = off
    BY <1>0, <2>1, <2>3
  <2> QED
    BY <2>2, <2>4
<1> QED
  BY <1>0, <1>1, <1>2, <1>3

\* A transaction that is even, and in order unless it adjusts, keeps the books.
LEMMA BooksKept ==
    ASSUME BooksInv, NEW x, Accepted(x), Even(x.entries), x.type # "adjustment" => InOrder(x)
    PROVE  BooksInv'
  BY DEF BooksInv, Accepted

\* What the books say of the journal.
LEMMA BooksSay ==
    ASSUME BooksInv, txns \subseteq Txn
    PROVE  /\ JournalBalanced /\ FxMirror /\ RcptBad = {}
           /\ \A t \in txns : t.type = "purchase" => ValueCents(t.bits) =< t.cents
<1>1. JournalBalanced
  BY DEF BooksInv, Even, JournalBalanced, Unbalanced
<1>2. FxMirror
  BY DEF BooksInv, InOrder, Mirrored, FxMirror, FxBad
<1>3. RcptBad = {}
  <2> SUFFICES ASSUME NEW t \in RcptBad PROVE FALSE
    OBVIOUS
  <2>1. t \in txns /\ t.provider # None /\ t.type \in {"purchase", "donation", "refund", "chargeback"}
    BY DEF RcptBad
  <2>2. Receipted(t)
    BY <2>1 DEF BooksInv, InOrder
  <2> QED
    BY <2>1, <2>2 DEF RcptBad, Receipted
<1>4. \A t \in txns : t.type = "purchase" => ValueCents(t.bits) =< t.cents
  BY DEF BooksInv, InOrder
<1> QED
  BY <1>1, <1>2, <1>3, <1>4

\* The drift of the sum of two postings.
LEMMA DriftAdds ==
    ASSUME NEW r \in Nat \ {0}, NEW f \in Int, NEW m \in Int, NEW h \in Int, NEW t \in Int, NEW b \in Int,
           t + b = 0
    PROVE  (f + m) * r - 100 * (h + t) = (f * r - 100 * h) + (m * r + 100 * b)
<1>1. (f + m) * r = f * r + m * r
  OBVIOUS
<1>2. f * r \in Int /\ m * r \in Int
  OBVIOUS
<1> QED
  BY <1>1, <1>2

\* One posting more drifts by no more than its own half cent.
LEMMA SlackGrows ==
    ASSUME NEW r \in Nat \ {0}, NEW n \in Nat, NEW d \in Int, NEW off \in Int,
           2 * off =< r, -r =< 2 * off, 2 * d =< r * n, -(r * n) =< 2 * d
    PROVE  2 * (d + off) \in -(r * (n + 1)) .. r * (n + 1)
<1>1. r * (n + 1) = r * n + r /\ r * n \in Int
  OBVIOUS
<1> DEFINE s == r * n
           z == r * (n + 1)
<1>2. s \in Int /\ z \in Int /\ z = s + r /\ 2 * d =< s /\ -s =< 2 * d
  BY <1>1
<1> HIDE DEF s, z
<1>3. 2 * (d + off) \in -z .. z
  BY <1>2
<1> QED
  BY <1>3 DEF z

\* A posting keeps the backing of what people hold.
LEMMA BackedKept ==
    ASSUME LedgerInv, Backed, NEW x, Posted(x), Even(x.entries), x.type # "adjustment" => InOrder(x)
    PROVE  Backed'
<1> DEFINE A == Accounts \ SpendableAccounts
           f == balance[FxCents]
           h == Total(balance, HeldAccounts)
           m == x.entries[FxCents]
           b == x.entries[FxBits]
           t == Total(x.entries, HeldAccounts)
           n == Cardinality(txns)
           d == f * BitsPerUsd - 100 * h
           off == m * BitsPerUsd + 100 * b
<1>1. /\ FxCents \in Accounts /\ FxBits \in Accounts /\ HeldAccounts \subseteq Accounts
      /\ FxCents \in A /\ FxBits \in A
  BY AccountTypes, SpendableApart DEF Accounts, BitsAccounts
<1>2. /\ balance \in EntrySet /\ x.entries \in EntrySet /\ balance' \in EntrySet
      /\ \A a \in Accounts : balance'[a] = balance[a] + x.entries[a]
  BY DEF LedgerInv, TypeOK, Posted
<1>3. f \in Int /\ m \in Int /\ b \in Int /\ balance'[FxCents] = f + m
  BY <1>1, <1>2 DEF EntrySet
<1>4. t \in Int /\ t + b = 0
  BY <1>2, HeldTotal
<1>5. h \in Int /\ Total(balance', HeldAccounts) = h + t
  <2>1. \A a \in HeldAccounts :
          balance[a] \in Int /\ x.entries[a] \in Int /\ balance'[a] = balance[a] + x.entries[a]
    BY <1>1, <1>2 DEF EntrySet
  <2> QED
    BY <2>1, AccountsFinite, SumPlus, SumType DEF Total
<1>6. n \in Nat /\ Cardinality(txns') = n + 1
  <2>1. IsFiniteSet(txns) /\ x \notin txns /\ txns' = txns \cup {x}
    BY DEF LedgerInv, JournalInv, Posted, Accepted, UsedKeys
  <2> QED
    BY <2>1, FS_AddElement, FS_CardinalityType
<1>7. BitsPerUsd \in Nat \ {0}
  BY RatesAssumption
<1> SUFFICES ASSUME Unadjusted(A)'
             PROVE  (2 * Drift \in -Slack..Slack)'
  BY DEF Backed, Drift, Slack
<1>8. Unadjusted(A)
  BY DEF Unadjusted, Posted, Accepted
<1>9. 2 * Drift \in -Slack..Slack
  BY <1>8, BackedForm
<1>10. Mirrored(x) \/ (b = 0 /\ m = 0)
  <2>1. CASE x.type = "adjustment"
    BY <1>1, <2>1 DEF Unadjusted, Posted, Accepted
  <2>2. CASE x.type # "adjustment"
    BY <2>2 DEF InOrder
  <2> QED
    BY <2>1, <2>2
<1>11. /\ off \in Int /\ 2 * off =< BitsPerUsd /\ -BitsPerUsd =< 2 * off
       /\ 100 % BitsPerUsd = 0 => off = 0
  BY <1>2, <1>10, DriftLaw
<1>12. Drift = d /\ d \in Int
  BY <1>3, <1>5, <1>7 DEF Drift
<1>13. Drift' = d + off
  <2>1. Drift' = balance'[FxCents] * BitsPerUsd - 100 * Total(balance', HeldAccounts)
    BY DEF Drift
  <2>2. Drift' = (f + m) * BitsPerUsd - 100 * (h + t)
    BY <1>3, <1>5, <2>1
  <2> HIDE DEF f, m, h, t, b
  <2>3. (f + m) * BitsPerUsd - 100 * (h + t) = (f * BitsPerUsd - 100 * h) + (m * BitsPerUsd + 100 * b)
    BY <1>3, <1>4, <1>5, <1>7, DriftAdds
  <2> QED
    BY <2>2, <2>3
<1>14. Slack' = IF 100 % BitsPerUsd = 0 THEN 0 ELSE BitsPerUsd * (n + 1)
  BY <1>6 DEF Slack
<1> HIDE DEF d, off
<1>15. CASE 100 % BitsPerUsd = 0
  <2>1. Slack = 0 /\ Slack' = 0 /\ off = 0
    BY <1>11, <1>14, <1>15 DEF Slack
  <2> QED
    BY <1>9, <1>12, <1>13, <2>1
<1>16. CASE 100 % BitsPerUsd # 0
  <2>1. Slack = BitsPerUsd * n /\ Slack' = BitsPerUsd * (n + 1)
    BY <1>14, <1>16 DEF Slack
  <2>2. BitsPerUsd * n \in Int
    BY <1>6, <1>7
  <2>3. 2 * d =< BitsPerUsd * n /\ -(BitsPerUsd * n) =< 2 * d
    BY <1>9, <1>12, <2>1, <2>2
  <2>4. 2 * (d + off) \in -(BitsPerUsd * (n + 1)) .. BitsPerUsd * (n + 1)
    BY <1>6, <1>7, <1>11, <1>12, <2>3, SlackGrows
  <2> QED
    BY <1>13, <2>1, <2>4
<1> QED
  BY <1>15, <1>16

----------------------------------------------------------------------------
(* Cashout rows: f is a value `cashouts' may have.                         *)

RowFunctions == [Cashouts -> CashoutRow \cup {NoCashout}]
RequestedOf(f, u) == {c \in Cashouts : f[c].status = "requested" /\ f[c].subject = u}
LeavingOf(f, u) == {c \in Cashouts : f[c].status \in {"requested", "paid"} /\ f[c].subject = u}
BitsOf(f, S) == SumFunctionOnSet([c \in S |-> f[c].bits], S)

\* A row that is there has natural bits and cents; one that is not has no status.
LEMMA RowLaw ==
    ASSUME NEW f \in RowFunctions, NEW c \in Cashouts
    PROVE  /\ f[c].status \in {"requested", "paid", "denied"} =>
                /\ f[c] \in CashoutRow /\ f[c] # NoCashout /\ f[c].bits \in Nat /\ f[c].cents \in Nat
                /\ f[c].escrowUntil \in Nat /\ f[c].subject \in Users
           /\ f[c] # NoCashout => f[c] \in CashoutRow /\ f[c].status \in {"requested", "paid", "denied"}
           /\ f[c] = NoCashout => f[c].status = "none"
<1>1. NoCashout.status = "none"
  BY DEF NoCashout
<1>2. f[c] \in CashoutRow \/ f[c] = NoCashout
  BY DEF RowFunctions
<1>3. ASSUME NEW r \in CashoutRow
      PROVE  /\ r.status \in {"requested", "paid", "denied"} /\ r.bits \in Nat /\ r.cents \in Nat
             /\ r.escrowUntil \in Nat /\ r.subject \in Users
  BY VibesAssumption DEF CashoutRow
<1>4. ASSUME f[c] \in CashoutRow PROVE f[c] # NoCashout
  BY <1>1, <1>3, <1>4
<1> QED
  BY <1>1, <1>2, <1>3, <1>4

\* When only the row of c changes, so does the sum over any choice of rows.
LEMMA RowsChange ==
    ASSUME NEW f \in RowFunctions, NEW g \in RowFunctions, NEW c \in Cashouts,
           NEW S \in SUBSET Cashouts, NEW T \in SUBSET Cashouts,
           \A d \in S : f[d].bits \in Nat, \A d \in T : g[d].bits \in Nat,
           \A d \in Cashouts \ {c} : g[d] = f[d] /\ (d \in S <=> d \in T)
    PROVE  BitsOf(g, T) - (IF c \in T THEN g[c].bits ELSE 0)
             = BitsOf(f, S) - (IF c \in S THEN f[c].bits ELSE 0)
<1> DEFINE R == S \ {c}
           fs == [d \in S |-> f[d].bits]
           gt == [d \in T |-> g[d].bits]
<1>1. R = T \ {c} /\ IsFiniteSet(S) /\ IsFiniteSet(T) /\ IsFiniteSet(R)
  BY AccountsFinite, FS_Subset
<1>2. (\A d \in S : fs[d] \in Int) /\ (\A d \in T : gt[d] \in Int) /\ \A d \in R : gt[d] = fs[d]
  BY <1>1
<1>3. SumFunctionOnSet(gt, R) = SumFunctionOnSet(fs, R) /\ SumFunctionOnSet(fs, R) \in Int
  BY <1>1, <1>2, SumSame, SumType
<1>4. SumFunctionOnSet(fs, S) = SumFunctionOnSet(fs, R) + (IF c \in S THEN f[c].bits ELSE 0)
  <2>1. CASE c \in S
    <3>1. SumFunctionOnSet(fs, S) = fs[c] + SumFunctionOnSet(fs, S \ {c})
      BY <1>1, <1>2, <2>1, SumRemove
    <3>2. SumFunctionOnSet(fs, S) = f[c].bits + SumFunctionOnSet(fs, R) /\ f[c].bits \in Nat
      BY <2>1, <3>1
    <3> HIDE DEF fs, R
    <3> QED
      BY <1>3, <2>1, <3>2
  <2>2. CASE c \notin S
    <3>1. R = S
      BY <2>2
    <3>2. SumFunctionOnSet(fs, S) = SumFunctionOnSet(fs, R)
      BY <3>1, Zenon
    <3> HIDE DEF fs, R
    <3> QED
      BY <1>3, <2>2, <3>2
  <2> QED
    BY <2>1, <2>2
<1>5. SumFunctionOnSet(gt, T) = SumFunctionOnSet(gt, R) + (IF c \in T THEN g[c].bits ELSE 0)
  <2>1. CASE c \in T
    <3>1. SumFunctionOnSet(gt, T) = gt[c] + SumFunctionOnSet(gt, T \ {c})
      BY <1>1, <1>2, <2>1, SumRemove
    <3>2. SumFunctionOnSet(gt, T \ {c}) = SumFunctionOnSet(gt, R)
      BY <1>1, Zenon
    <3>3. gt[c] = g[c].bits /\ g[c].bits \in Nat
      BY <2>1
    <3> HIDE DEF gt, R
    <3> QED
      BY <1>3, <2>1, <3>1, <3>2, <3>3
  <2>2. CASE c \notin T
    <3>1. T \ {c} = T
      BY <2>2
    <3>2. SumFunctionOnSet(gt, T) = SumFunctionOnSet(gt, R)
      BY <1>1, <3>1, Zenon
    <3> HIDE DEF gt, R
    <3> QED
      BY <1>3, <2>2, <3>2
  <2> QED
    BY <2>1, <2>2
<1>6. (IF c \in S THEN f[c].bits ELSE 0) \in Nat /\ (IF c \in T THEN g[c].bits ELSE 0) \in Nat
  OBVIOUS
<1> QED
  BY <1>3, <1>4, <1>5, <1>6 DEF BitsOf

\* What is requested by each creator, and what has left or may, before and after the
\* row of c changes from `requested' or nothing.
LEMMA RowSums ==
    ASSUME NEW f \in RowFunctions, NEW g \in RowFunctions, NEW c \in Cashouts,
           \A d \in Cashouts \ {c} : g[d] = f[d],
           NEW u
    PROVE  /\ BitsOf(f, RequestedOf(f, u)) \in Nat /\ BitsOf(f, LeavingOf(f, u)) \in Nat
           /\ f[c] = NoCashout /\ g[c] # NoCashout /\ g[c].status = "requested" =>
                LET n == IF g[c].subject = u THEN g[c].bits ELSE 0
                IN  /\ BitsOf(g, RequestedOf(g, u)) = BitsOf(f, RequestedOf(f, u)) + n
                    /\ BitsOf(g, LeavingOf(g, u)) = BitsOf(f, LeavingOf(f, u)) + n
           /\ f[c].status = "requested" /\ g[c].status = "paid"
              /\ g[c].subject = f[c].subject /\ g[c].bits = f[c].bits =>
                LET n == IF f[c].subject = u THEN f[c].bits ELSE 0
                IN  /\ BitsOf(g, RequestedOf(g, u)) = BitsOf(f, RequestedOf(f, u)) - n
                    /\ BitsOf(g, LeavingOf(g, u)) = BitsOf(f, LeavingOf(f, u))
           /\ f[c].status = "requested" /\ g[c].status = "denied"
              /\ g[c].subject = f[c].subject /\ g[c].bits = f[c].bits =>
                LET n == IF f[c].subject = u THEN f[c].bits ELSE 0
                IN  /\ BitsOf(g, RequestedOf(g, u)) = BitsOf(f, RequestedOf(f, u)) - n
                    /\ BitsOf(g, LeavingOf(g, u)) = BitsOf(f, LeavingOf(f, u)) - n
<1> DEFINE fr == RequestedOf(f, u)
           fl == LeavingOf(f, u)
           gr == RequestedOf(g, u)
           gl == LeavingOf(g, u)
<1>1. /\ fr \in SUBSET Cashouts /\ fl \in SUBSET Cashouts /\ gr \in SUBSET Cashouts /\ gl \in SUBSET Cashouts
      /\ c \in fr <=> f[c].status = "requested" /\ f[c].subject = u
      /\ c \in gr <=> g[c].status = "requested" /\ g[c].subject = u
      /\ c \in fl <=> f[c].status \in {"requested", "paid"} /\ f[c].subject = u
      /\ c \in gl <=> g[c].status \in {"requested", "paid"} /\ g[c].subject = u
      /\ \A d \in Cashouts \ {c} : (d \in fr <=> d \in gr) /\ (d \in fl <=> d \in gl)
  BY DEF RequestedOf, LeavingOf
<1>2. /\ \A d \in fr : f[d].bits \in Nat
      /\ \A d \in fl : f[d].bits \in Nat
      /\ \A d \in gr : g[d].bits \in Nat
      /\ \A d \in gl : g[d].bits \in Nat
  BY RowLaw DEF RequestedOf, LeavingOf
<1> HIDE DEF fr, fl, gr, gl
<1>3. ASSUME NEW h, NEW S \in SUBSET Cashouts, \A d \in S : h[d].bits \in Nat PROVE BitsOf(h, S) \in Nat
  <2>1. IsFiniteSet(S) /\ \A d \in S : [e \in S |-> h[e].bits][d] \in Nat
    BY <1>3, AccountsFinite, FS_Subset
  <2> QED
    BY <2>1, SumNat DEF BitsOf
<1>4. /\ BitsOf(f, fr) \in Nat /\ BitsOf(f, fl) \in Nat /\ BitsOf(g, gr) \in Nat /\ BitsOf(g, gl) \in Nat
  BY <1>1, <1>2, <1>3
<1>5. BitsOf(g, gr) - (IF c \in gr THEN g[c].bits ELSE 0) = BitsOf(f, fr) - (IF c \in fr THEN f[c].bits ELSE 0)
  BY <1>1, <1>2, RowsChange
<1>6. BitsOf(g, gl) - (IF c \in gl THEN g[c].bits ELSE 0) = BitsOf(f, fl) - (IF c \in fl THEN f[c].bits ELSE 0)
  BY <1>1, <1>2, RowsChange
<1>7. /\ c \in fr => f[c].bits \in Nat
      /\ c \in fl => f[c].bits \in Nat
      /\ c \in gr => g[c].bits \in Nat
      /\ c \in gl => g[c].bits \in Nat
  BY <1>2
<1> DEFINE A == BitsOf(f, fr)
           B == BitsOf(f, fl)
           C == BitsOf(g, gr)
           D == BitsOf(g, gl)
<1>8. A \in Nat /\ B \in Nat /\ C \in Nat /\ D \in Nat
  BY <1>4
<1>9. /\ C - (IF c \in gr THEN g[c].bits ELSE 0) = A - (IF c \in fr THEN f[c].bits ELSE 0)
      /\ D - (IF c \in gl THEN g[c].bits ELSE 0) = B - (IF c \in fl THEN f[c].bits ELSE 0)
  BY <1>5, <1>6
<1> HIDE DEF A, B, C, D
<1>10. ASSUME f[c] = NoCashout, g[c] # NoCashout, g[c].status = "requested"
       PROVE  LET n == IF g[c].subject = u THEN g[c].bits ELSE 0 IN C = A + n /\ D = B + n
  <2>1. c \notin fr /\ c \notin fl
    BY <1>1, <1>10, RowLaw
  <2>2. CASE g[c].subject = u
    <3>1. c \in gr /\ c \in gl
      BY <1>1, <1>10, <2>2
    <3> QED
      BY <1>7, <1>8, <1>9, <2>1, <2>2, <3>1
  <2>3. CASE g[c].subject # u
    <3>1. c \notin gr /\ c \notin gl
      BY <1>1, <2>3
    <3> QED
      BY <1>8, <1>9, <2>1, <2>3, <3>1
  <2> QED
    BY <2>2, <2>3
<1>11. ASSUME f[c].status = "requested", g[c].status = "paid", g[c].subject = f[c].subject, g[c].bits = f[c].bits
       PROVE  LET n == IF f[c].subject = u THEN f[c].bits ELSE 0 IN C = A - n /\ D = B
  <2>1. c \notin gr
    BY <1>1, <1>11
  <2>2. CASE f[c].subject = u
    <3>1. c \in fr /\ c \in fl /\ c \in gl
      BY <1>1, <1>11, <2>2
    <3> QED
      BY <1>7, <1>8, <1>9, <1>11, <2>1, <2>2, <3>1
  <2>3. CASE f[c].subject # u
    <3>1. c \notin fr /\ c \notin fl /\ c \notin gl
      BY <1>1, <1>11, <2>3
    <3> QED
      BY <1>8, <1>9, <2>1, <2>3, <3>1
  <2> QED
    BY <2>2, <2>3
<1>12. ASSUME f[c].status = "requested", g[c].status = "denied", g[c].subject = f[c].subject, g[c].bits = f[c].bits
       PROVE  LET n == IF f[c].subject = u THEN f[c].bits ELSE 0 IN C = A - n /\ D = B - n
  <2>1. c \notin gr /\ c \notin gl
    BY <1>1, <1>12
  <2>2. CASE f[c].subject = u
    <3>1. c \in fr /\ c \in fl
      BY <1>1, <1>12, <2>2
    <3> QED
      BY <1>7, <1>8, <1>9, <2>1, <2>2, <3>1
  <2>3. CASE f[c].subject # u
    <3>1. c \notin fr /\ c \notin fl
      BY <1>1, <2>3
    <3> QED
      BY <1>8, <1>9, <2>1, <2>3, <3>1
  <2> QED
    BY <2>2, <2>3
<1> QED
  BY <1>8, <1>10, <1>11, <1>12 DEF A, B, C, D, fr, fl, gr, gl

----------------------------------------------------------------------------
(* Pending Vibes and the rows' worth.                                      *)

\* A row is worth the value of its bits when it was requested.
RowsWorth == \A c \in Cashouts : cashouts[c] # NoCashout => cashouts[c].cents = ValueCents(cashouts[c].bits)

\* Sums over rows are natural numbers.
LEMMA RowSumsType ==
    ASSUME LedgerInv, NEW u
    PROVE  /\ BitsOf(cashouts, RequestedOf(cashouts, u)) \in Nat
           /\ BitsOf(cashouts, LeavingOf(cashouts, u)) \in Nat
<1>1. cashouts \in RowFunctions
  BY DEF LedgerInv, TypeOK, RowFunctions
<1>2. ASSUME NEW S \in SUBSET Cashouts, \A c \in S : cashouts[c].bits \in Nat
      PROVE  BitsOf(cashouts, S) \in Nat
  <2>1. IsFiniteSet(S) /\ \A c \in S : [d \in S |-> cashouts[d].bits][c] \in Nat
    BY <1>2, AccountsFinite, FS_Subset
  <2> QED
    BY <2>1, SumNat DEF BitsOf
<1>3. RequestedOf(cashouts, u) \in SUBSET Cashouts /\ LeavingOf(cashouts, u) \in SUBSET Cashouts
  BY DEF RequestedOf, LeavingOf
<1>4. /\ \A c \in RequestedOf(cashouts, u) : cashouts[c].bits \in Nat
      /\ \A c \in LeavingOf(cashouts, u) : cashouts[c].bits \in Nat
  BY <1>1, RowLaw DEF RequestedOf, LeavingOf
<1> QED
  BY <1>2, <1>3, <1>4

\* What is pending for a creator is requested, unless an adjustment interfered.
PendingInv ==
    \A u \in Users : Unadjusted({Pending(u)}) => balance[Pending(u)] = BitsOf(cashouts, RequestedOf(cashouts, u))

\* It is the report's promise.
LEMMA PendingForm == PendingInv => PendingIsRequested
<1> SUFFICES ASSUME PendingInv, NEW u \in PendingBad PROVE ~Unadjusted({Pending(u)})
  BY DEF PendingIsRequested
<1>1. /\ u \in Users
      /\ balance[Pending(u)] # SumFunctionOnSet([c \in Requested(u) |-> cashouts[c].bits], Requested(u))
  BY DEF PendingBad
<1>2. Requested(u) = RequestedOf(cashouts, u)
  BY DEF Requested, RequestedOf
<1> QED
  BY <1>1, <1>2 DEF PendingInv, BitsOf

\* A posting that moves each pending account as the requests move keeps it.
LEMMA PendingKept ==
    ASSUME LedgerInv, PendingInv, NEW x, Posted(x),
           \A u \in Users :
             Unadjusted({Pending(u)})' =>
                BitsOf(cashouts', RequestedOf(cashouts', u))
                  = BitsOf(cashouts, RequestedOf(cashouts, u)) + x.entries[Pending(u)]
    PROVE  PendingInv'
<1> SUFFICES ASSUME NEW u \in Users, Unadjusted({Pending(u)})'
             PROVE  balance'[Pending(u)] = BitsOf(cashouts', RequestedOf(cashouts', u))
  BY DEF PendingInv
<1>1. Unadjusted({Pending(u)})
  BY DEF Unadjusted, Posted, Accepted
<1>2. balance'[Pending(u)] = balance[Pending(u)] + x.entries[Pending(u)]
  BY AccountTypes DEF Posted
<1> QED
  BY <1>1, <1>2 DEF PendingInv

\* One that leaves pending accounts and rows alone does, and so does an adjustment.
LEMMA PendingUntouched ==
    ASSUME LedgerInv, PendingInv, NEW x, Posted(x), cashouts' = cashouts,
           PendingStill(x) \/ x.type = "adjustment"
    PROVE  PendingInv'
<1>1. ASSUME NEW u \in Users, Unadjusted({Pending(u)})'
      PROVE  BitsOf(cashouts', RequestedOf(cashouts', u))
                = BitsOf(cashouts, RequestedOf(cashouts, u)) + x.entries[Pending(u)]
  <2>1. x.entries[Pending(u)] = 0
    BY <1>1 DEF PendingStill, Unadjusted, Posted, Accepted
  <2> QED
    BY <1>1, <2>1, RowSumsType
<1> QED
  BY <1>1, PendingKept

----------------------------------------------------------------------------
(* Gifts.                                                                  *)

GiftsTo(J, u) == {t \in J : t.type = "donation" /\ t.to = u /\ t.from # u}
GiftRefunds(J, u) ==
    {t \in J : t.type = "refund" /\ t.from = u
                 /\ \E g \in GiftsTo(J, u) : t.reverses = g.key /\ g.receipt = None}

\* Without adjustments projects hold nothing, and what a creator holds, has asked for
\* and has been paid is no more than the gifts received, less those refunded.
GiftInv ==
    Unadjusted(Accounts) =>
        /\ \A p \in Projects : balance[ProjectPayable(p)] = 0
        /\ \A u \in Users :
             balance[Payable(u)] + BitsOf(cashouts, LeavingOf(cashouts, u))
               =< SumBits(GiftsTo(txns, u)) - SumBits(GiftRefunds(txns, u))

\* Then only gifts leave: a payable is not overdrawn.
LEMMA GiftForm == LedgerInv /\ GiftInv => OnlyGiftsLeave
<1> SUFFICES ASSUME LedgerInv, GiftInv, Unadjusted(Accounts), NEW u \in Users
             PROVE  BitsOf(cashouts, LeavingOf(cashouts, u))
                      =< SumBits(GiftsTo(txns, u)) - SumBits(GiftRefunds(txns, u))
  BY DEF OnlyGiftsLeave, BitsOf, LeavingOf, GiftsTo, GiftRefunds
<1>1. Payable(u) \in SpendableAccounts /\ Payable(u) \in Accounts /\ balance[Payable(u)] \in Int
  BY AccountTypes DEF SpendableAccounts, LedgerInv, TypeOK, EntrySet
<1>2. \A t \in txns : t.type = "adjustment" => t.entries[Payable(u)] >= 0
  BY <1>1 DEF Unadjusted
<1>3. balance[Payable(u)] >= 0
  BY <1>1, <1>2 DEF LedgerInv, SpendableNonNegative
<1>4. BitsOf(cashouts, LeavingOf(cashouts, u)) \in Int
  BY RowSumsType
<1>5. SumBits(GiftsTo(txns, u)) \in Nat /\ SumBits(GiftRefunds(txns, u)) \in Nat
  <2>1. /\ GiftsTo(txns, u) \subseteq txns /\ GiftRefunds(txns, u) \subseteq txns
        /\ txns \subseteq Txn /\ IsFiniteSet(txns)
    BY DEF GiftsTo, GiftRefunds, LedgerInv, JournalInv
  <2>2. IsFiniteSet(GiftsTo(txns, u)) /\ IsFiniteSet(GiftRefunds(txns, u))
    BY <2>1, FS_Subset
  <2> QED
    BY <2>1, <2>2, SumsType
<1>6. balance[Payable(u)] + BitsOf(cashouts, LeavingOf(cashouts, u))
        =< SumBits(GiftsTo(txns, u)) - SumBits(GiftRefunds(txns, u))
  BY DEF GiftInv
<1> QED
  BY <1>1, <1>3, <1>4, <1>5, <1>6

\* What a posting adds to a creator's gifts, and to their refunds.
GiftOf(x, u) == IF x.type = "donation" /\ x.to = u /\ x.from # u THEN x.bits ELSE 0
RefundOf(x, u) ==
    IF x.type = "refund" /\ x.from = u /\ \E g \in GiftsTo(txns, u) : x.reverses = g.key /\ g.receipt = None
    THEN x.bits ELSE 0

\* That is how they grow.
LEMMA GiftsGrow ==
    ASSUME LedgerInv, NEW x, Posted(x), NEW u
    PROVE  /\ SumBits(GiftsTo(txns, u)) \in Nat /\ SumBits(GiftRefunds(txns, u)) \in Nat
           /\ GiftOf(x, u) \in Nat /\ RefundOf(x, u) \in Nat
           /\ SumBits(GiftsTo(txns', u)) = SumBits(GiftsTo(txns, u)) + GiftOf(x, u)
           /\ SumBits(GiftRefunds(txns', u)) = SumBits(GiftRefunds(txns, u)) + RefundOf(x, u)
<1> DEFINE G == GiftsTo(txns, u)
           R == GiftRefunds(txns, u)
<1>1. /\ txns' = txns \cup {x} /\ x \in Txn /\ x \notin txns /\ txns \subseteq Txn /\ IsFiniteSet(txns)
      /\ x.key \notin UsedKeys
  BY DEF Posted, Accepted, UsedKeys, LedgerInv, JournalInv
<1>2. /\ G \subseteq txns /\ R \subseteq txns /\ G \subseteq Txn /\ R \subseteq Txn
      /\ x \notin G /\ x \notin R
  BY <1>1 DEF GiftsTo, GiftRefunds
<1>3. IsFiniteSet(G) /\ IsFiniteSet(R)
  BY <1>1, <1>2, FS_Subset
<1>4. SumBits(G) \in Nat /\ SumBits(R) \in Nat
  BY <1>2, <1>3, SumsType
<1>5. x.bits \in Nat
  BY <1>1 DEF Txn
<1>6. SumBits(GiftsTo(txns', u)) = SumBits(G) + GiftOf(x, u)
  <2>1. CASE x.type = "donation" /\ x.to = u /\ x.from # u
    <3>1. GiftsTo(txns', u) = G \cup {x}
      BY <1>1, <2>1 DEF GiftsTo
    <3>2. SumBits(G \cup {x}) = SumBits(G) + x.bits
      BY <1>1, <1>2, <1>3, SumsAdd
    <3> HIDE DEF G
    <3> QED
      BY <2>1, <3>1, <3>2 DEF GiftOf
  <2>2. CASE ~(x.type = "donation" /\ x.to = u /\ x.from # u)
    <3>1. GiftsTo(txns', u) = G
      BY <1>1, <2>2 DEF GiftsTo
    <3> HIDE DEF G
    <3> QED
      BY <1>4, <2>2, <3>1 DEF GiftOf
  <2> QED
    BY <2>1, <2>2
<1>7. ASSUME NEW t \in txns, t.type = "refund"
      PROVE  (\E g \in GiftsTo(txns', u) : t.reverses = g.key /\ g.receipt = None)
               <=> \E g \in G : t.reverses = g.key /\ g.receipt = None
  <2>1. PICK o \in txns : t.reverses = o.key
    BY <1>7 DEF LedgerInv, JournalInv, ReversalsKnown
  <2>2. t.reverses # x.key
    BY <1>1, <2>1 DEF UsedKeys
  <2> QED
    BY <1>1, <2>2 DEF GiftsTo
<1>8. ASSUME x.type = "refund" PROVE GiftsTo(txns', u) = G
  BY <1>1, <1>8 DEF GiftsTo
<1>9. SumBits(GiftRefunds(txns', u)) = SumBits(R) + RefundOf(x, u)
  <2>1. CASE x.type = "refund" /\ x.from = u /\ \E g \in G : x.reverses = g.key /\ g.receipt = None
    <3>1. GiftRefunds(txns', u) = R \cup {x}
      BY <1>1, <1>8, <2>1 DEF GiftRefunds
    <3>2. SumBits(R \cup {x}) = SumBits(R) + x.bits
      BY <1>1, <1>2, <1>3, SumsAdd
    <3> HIDE DEF R
    <3> QED
      BY <2>1, <3>1, <3>2 DEF RefundOf
  <2>2. CASE ~(x.type = "refund" /\ x.from = u /\ \E g \in G : x.reverses = g.key /\ g.receipt = None)
    <3>1. ASSUME NEW t \in GiftRefunds(txns', u) PROVE t \in R
      <4>1. t \in txns \cup {x} /\ t.type = "refund" /\ t.from = u
            /\ \E g \in GiftsTo(txns', u) : t.reverses = g.key /\ g.receipt = None
        BY <1>1, <3>1 DEF GiftRefunds
      <4>2. t # x
        BY <1>8, <2>2, <4>1
      <4>3. t \in txns /\ \E g \in G : t.reverses = g.key /\ g.receipt = None
        BY <1>7, <4>1, <4>2
      <4> QED
        BY <4>1, <4>3 DEF GiftRefunds
    <3>2. ASSUME NEW t \in R PROVE t \in GiftRefunds(txns', u)
      <4>1. t \in txns /\ t.type = "refund" /\ t.from = u /\ \E g \in G : t.reverses = g.key /\ g.receipt = None
        BY <3>2 DEF GiftRefunds
      <4>2. \E g \in GiftsTo(txns', u) : t.reverses = g.key /\ g.receipt = None
        BY <1>7, <4>1
      <4> QED
        BY <1>1, <4>1, <4>2 DEF GiftRefunds
    <3>3. GiftRefunds(txns', u) = R
      BY <3>1, <3>2
    <3> HIDE DEF R
    <3> QED
      BY <1>4, <2>2, <3>3 DEF RefundOf
  <2> QED
    BY <2>1, <2>2
<1>10. GiftOf(x, u) \in Nat /\ RefundOf(x, u) \in Nat
  BY <1>5 DEF GiftOf, RefundOf
<1> QED
  BY <1>4, <1>6, <1>9, <1>10

\* A posting that gives a creator no more than a gift, and takes off what it refunds,
\* keeps the bound.
LEMMA GiftKept ==
    ASSUME LedgerInv, GiftInv, NEW x, Posted(x),
           Unadjusted(Accounts)' =>
             /\ ProjectsStill(x)
             /\ \A u \in Users :
                  /\ BitsOf(cashouts, LeavingOf(cashouts, u)) \in Int
                  /\ BitsOf(cashouts', LeavingOf(cashouts', u)) \in Int
                  /\ x.entries[Payable(u)] + BitsOf(cashouts', LeavingOf(cashouts', u))
                       =< BitsOf(cashouts, LeavingOf(cashouts, u)) + GiftOf(x, u) - RefundOf(x, u)
    PROVE  GiftInv'
<1> SUFFICES ASSUME Unadjusted(Accounts)'
             PROVE  /\ \A p \in Projects : balance'[ProjectPayable(p)] = 0
                    /\ \A u \in Users :
                         balance'[Payable(u)] + BitsOf(cashouts', LeavingOf(cashouts', u))
                           =< SumBits(GiftsTo(txns', u)) - SumBits(GiftRefunds(txns', u))
  <2>1. /\ \A u : GiftsTo(txns, u)' = GiftsTo(txns', u) /\ GiftRefunds(txns, u)' = GiftRefunds(txns', u)
        /\ \A u : LeavingOf(cashouts, u)' = LeavingOf(cashouts', u)
    BY DEF GiftsTo, GiftRefunds, LeavingOf
  <2> QED
    BY <2>1 DEF GiftInv
<1>1. Unadjusted(Accounts)
  BY DEF Unadjusted, Posted, Accepted
<1>2. ASSUME NEW p \in Projects PROVE balance'[ProjectPayable(p)] = 0
  BY <1>1, AccountTypes DEF GiftInv, ProjectsStill, Posted
<1>3. ASSUME NEW u \in Users
      PROVE  balance'[Payable(u)] + BitsOf(cashouts', LeavingOf(cashouts', u))
               =< SumBits(GiftsTo(txns', u)) - SumBits(GiftRefunds(txns', u))
  <2> DEFINE b == balance[Payable(u)]
             e == x.entries[Payable(u)]
             l == BitsOf(cashouts, LeavingOf(cashouts, u))
             m == BitsOf(cashouts', LeavingOf(cashouts', u))
             g == SumBits(GiftsTo(txns, u))
             r == SumBits(GiftRefunds(txns, u))
             gx == GiftOf(x, u)
             rx == RefundOf(x, u)
  <2>1. b \in Int /\ e \in Int /\ balance'[Payable(u)] = b + e
    BY AccountTypes DEF LedgerInv, TypeOK, Posted, EntrySet
  <2>2. l \in Int /\ m \in Int /\ e + m =< l + gx - rx
    BY <1>3
  <2>3. /\ g \in Nat /\ r \in Nat /\ gx \in Nat /\ rx \in Nat
        /\ SumBits(GiftsTo(txns', u)) = g + gx /\ SumBits(GiftRefunds(txns', u)) = r + rx
    BY GiftsGrow
  <2>4. b + l =< g - r
    BY <1>1 DEF GiftInv
  <2> HIDE DEF b, e, l, m, g, r, gx, rx
  <2>5. (b + e) + m =< (g + gx) - (r + rx)
    BY <2>1, <2>2, <2>3, <2>4
  <2> QED
    BY <2>1, <2>3, <2>5 DEF m
<1> QED
  BY <1>2, <1>3

\* So does one that leaves the rows alone.
LEMMA GiftUntouched ==
    ASSUME LedgerInv, GiftInv, NEW x, Posted(x), cashouts' = cashouts,
           Unadjusted(Accounts)' =>
             /\ ProjectsStill(x)
             /\ \A u \in Users : x.entries[Payable(u)] =< GiftOf(x, u) - RefundOf(x, u)
    PROVE  GiftInv'
<1>1. ASSUME Unadjusted(Accounts)', NEW u \in Users
      PROVE  /\ BitsOf(cashouts, LeavingOf(cashouts, u)) \in Int
             /\ BitsOf(cashouts', LeavingOf(cashouts', u)) \in Int
             /\ x.entries[Payable(u)] + BitsOf(cashouts', LeavingOf(cashouts', u))
                  =< BitsOf(cashouts, LeavingOf(cashouts, u)) + GiftOf(x, u) - RefundOf(x, u)
  <2> DEFINE e == x.entries[Payable(u)]
             l == BitsOf(cashouts, LeavingOf(cashouts, u))
             gx == GiftOf(x, u)
             rx == RefundOf(x, u)
  <2>1. l \in Nat /\ e \in Int /\ gx \in Nat /\ rx \in Nat /\ e =< gx - rx
    BY <1>1, RowSumsType, GiftsGrow, AccountTypes DEF Posted, EntrySet
  <2>2. BitsOf(cashouts', LeavingOf(cashouts', u)) = l
    OBVIOUS
  <2> HIDE DEF e, l, gx, rx
  <2>3. e + l =< l + gx - rx
    BY <2>1
  <2> QED
    BY <2>1, <2>2, <2>3 DEF e, l, gx, rx
<1> QED
  BY <1>1, GiftKept

----------------------------------------------------------------------------
(* A cashout's row and its transactions.                                   *)

TrailOf(J, c) == {t \in J : t.cashout = c}

\* The story CashoutTrail tells, with the escrow the request promised.
Trailed(row, trail) ==
    IF row = NoCashout THEN trail = {}
    ELSE \E req \in trail :
           /\ req.type = "cashout_request" /\ req.bits = row.bits /\ req.from = row.subject
           /\ row.escrowUntil = req.at + EscrowDays
           /\ IF row.status = "requested" THEN trail = {req}
              ELSE \E dec \in trail :
                     /\ trail = {req, dec} /\ dec.key = row.settleTxn /\ dec.bits = row.bits
                     /\ dec.type = IF row.status = "paid" THEN "cashout_paid" ELSE "cashout_denied"
                     /\ row.status = "paid" => dec.at >= row.escrowUntil /\ dec.receipt = row.payoutRef

TrailInv == \A c \in Cashouts : Trailed(cashouts[c], TrailOf(txns, c))

\* Such trails are what CashoutTrail asks for.
LEMMA TrailForm == TrailInv => CashoutTrail
<1> SUFFICES ASSUME TrailInv, NEW c \in Cashouts
             PROVE  LET row == cashouts[c]
                        trail == TrailOf(txns, c)
                    IN  IF row = NoCashout THEN trail = {}
                        ELSE \E req \in trail :
                               /\ req.type = "cashout_request" /\ req.bits = row.bits /\ req.from = row.subject
                               /\ IF row.status = "requested" THEN trail = {req}
                                  ELSE \E dec \in trail :
                                         /\ trail = {req, dec} /\ dec.key = row.settleTxn /\ dec.bits = row.bits
                                         /\ dec.type = IF row.status = "paid" THEN "cashout_paid" ELSE "cashout_denied"
                                         /\ row.status = "paid" =>
                                               dec.at >= req.at + EscrowDays /\ dec.receipt = row.payoutRef
  BY DEF CashoutTrail, TrailOf
<1>1. Trailed(cashouts[c], TrailOf(txns, c))
  BY DEF TrailInv
<1>2. CASE cashouts[c] = NoCashout
  BY <1>1, <1>2 DEF Trailed
<1>3. CASE cashouts[c] # NoCashout
  <2>1. PICK req \in TrailOf(txns, c) :
           /\ req.type = "cashout_request" /\ req.bits = cashouts[c].bits /\ req.from = cashouts[c].subject
           /\ cashouts[c].escrowUntil = req.at + EscrowDays
           /\ IF cashouts[c].status = "requested" THEN TrailOf(txns, c) = {req}
              ELSE \E dec \in TrailOf(txns, c) :
                     /\ TrailOf(txns, c) = {req, dec} /\ dec.key = cashouts[c].settleTxn /\ dec.bits = cashouts[c].bits
                     /\ dec.type = IF cashouts[c].status = "paid" THEN "cashout_paid" ELSE "cashout_denied"
                     /\ cashouts[c].status = "paid" =>
                           dec.at >= cashouts[c].escrowUntil /\ dec.receipt = cashouts[c].payoutRef
    BY <1>1, <1>3, Zenon DEF Trailed
  <2>2. CASE cashouts[c].status = "requested"
    BY <1>3, <2>1, <2>2
  <2>3. CASE cashouts[c].status # "requested"
    <3>1. PICK dec \in TrailOf(txns, c) :
             /\ TrailOf(txns, c) = {req, dec} /\ dec.key = cashouts[c].settleTxn /\ dec.bits = cashouts[c].bits
             /\ dec.type = IF cashouts[c].status = "paid" THEN "cashout_paid" ELSE "cashout_denied"
             /\ cashouts[c].status = "paid" =>
                   dec.at >= cashouts[c].escrowUntil /\ dec.receipt = cashouts[c].payoutRef
      BY <2>1, <2>3
    <3>2. cashouts[c].status = "paid" => dec.at >= req.at + EscrowDays
      BY <2>1, <3>1
    <3> QED
      BY <1>3, <2>1, <2>3, <3>1, <3>2, Zenon
  <2> QED
    BY <2>2, <2>3
<1> QED
  BY <1>2, <1>3

\* A posting about no cashout keeps every trail.
LEMMA TrailUntouched ==
    ASSUME TrailInv, NEW x, Posted(x), x.cashout = None, cashouts' = cashouts
    PROVE  TrailInv'
<1> SUFFICES ASSUME NEW c \in Cashouts PROVE Trailed(cashouts'[c], TrailOf(txns', c))
  BY DEF TrailInv, TrailOf
<1>1. TrailOf(txns', c) = TrailOf(txns, c)
  BY VibesAssumption DEF TrailOf, Posted, Accepted
<1> QED
  BY <1>1 DEF TrailInv

\* One about c must tell c's new row.
LEMMA TrailKept ==
    ASSUME LedgerInv, TrailInv, NEW x, Posted(x), NEW c \in Cashouts, x.cashout = c, NEW row,
           cashouts' = [cashouts EXCEPT ![c] = row], Trailed(row, TrailOf(txns, c) \cup {x})
    PROVE  TrailInv'
<1> SUFFICES ASSUME NEW d \in Cashouts PROVE Trailed(cashouts'[d], TrailOf(txns', d))
  BY DEF TrailInv, TrailOf
<1>1. txns' = txns \cup {x} /\ cashouts'[d] = IF d = c THEN row ELSE cashouts[d]
  BY DEF Posted, Accepted, LedgerInv, TypeOK
<1>2. CASE d = c
  <2>1. TrailOf(txns', d) = TrailOf(txns, c) \cup {x}
    BY <1>1, <1>2 DEF TrailOf
  <2> QED
    BY <1>1, <1>2, <2>1
<1>3. CASE d # c
  <2>1. TrailOf(txns', d) = TrailOf(txns, d)
    BY <1>1, <1>3 DEF TrailOf
  <2> QED
    BY <1>1, <1>3, <2>1 DEF TrailInv
<1> QED
  BY <1>2, <1>3

\* A decision appended to a requested cashout's trail tells the decided row.
LEMMA TrailDecided ==
    ASSUME NEW old, NEW new, NEW trail, NEW x,
           old.status = "requested", old # NoCashout, Trailed(old, trail),
           new.bits = old.bits, new.subject = old.subject, new.escrowUntil = old.escrowUntil,
           new # NoCashout, new.status \in {"paid", "denied"},
           x.key = new.settleTxn, x.bits = new.bits,
           x.type = IF new.status = "paid" THEN "cashout_paid" ELSE "cashout_denied",
           new.status = "paid" => x.at >= new.escrowUntil /\ x.receipt = new.payoutRef
    PROVE  Trailed(new, trail \cup {x})
<1>1. PICK req \in trail :
         /\ req.type = "cashout_request" /\ req.bits = old.bits /\ req.from = old.subject
         /\ old.escrowUntil = req.at + EscrowDays
         /\ trail = {req}
  BY DEF Trailed
<1>2. trail \cup {x} = {req, x}
  BY <1>1
<1> QED
  BY <1>1, <1>2 DEF Trailed

----------------------------------------------------------------------------
(* Intents.                                                                *)

\* A purchase not wholly reversed.
InForce(t) == t.type = "purchase" /\ ReversedCents(t) < t.cents

\* Only purchases settle intents, and an intent is settled exactly when a purchase of
\* it is in force, which it names.
IntentInv ==
    /\ \A t \in txns : t.intent # None => t.type = "purchase"
    /\ \A t \in txns : t.intent # None /\ InForce(t) =>
          intents[t.intent].status = "settled" /\ intents[t.intent].settledTxn = t.key
    /\ \A i \in Intents : intents[i].status = "settled" =>
          \E t \in txns : t.intent = i /\ InForce(t) /\ t.key = intents[i].settledTxn

\* Then an intent is settled once.
LEMMA IntentForm == LedgerInv /\ IntentInv => IntentSettledOnce
<1> SUFFICES ASSUME LedgerInv, IntentInv, NEW i \in Intents
             PROVE  LET inForce == {t \in txns : t.type = "purchase" /\ t.intent = i /\ ReversedCents(t) < t.cents}
                    IN  /\ Cardinality(inForce) =< 1
                        /\ intents[i].status = "settled" => \E t \in inForce : t.key = intents[i].settledTxn
  BY DEF IntentSettledOnce
<1> DEFINE S == {t \in txns : t.type = "purchase" /\ t.intent = i /\ ReversedCents(t) < t.cents}
<1>1. \A t \in txns : t.intent = i /\ InForce(t) <=> t \in S
  BY DEF InForce
<1>2. S \subseteq txns
  OBVIOUS
<1> HIDE DEF S
<1>3. intents[i].status = "settled" => \E t \in S : t.key = intents[i].settledTxn
  BY <1>1 DEF IntentInv
<1>4. i # None
  BY VibesAssumption
<1>5. \A s, t \in S : s = t
  BY <1>1, <1>2, <1>4 DEF IntentInv, LedgerInv, JournalInv, KeysUnique
<1>6. Cardinality(S) =< 1
  <2>1. CASE S = {}
    BY <2>1, FS_EmptySet
  <2>2. CASE S # {}
    <3>1. PICK t \in S : TRUE
      BY <2>2
    <3>2. S = {t}
      BY <1>5, <3>1
    <3> QED
      BY <3>2, FS_Singleton
  <2> QED
    BY <2>1, <2>2
<1> QED
  BY <1>3, <1>6 DEF S

\* A posting that settles no intent and leaves in force what is keeps it.
LEMMA IntentUntouched ==
    ASSUME LedgerInv, IntentInv, NEW x, Posted(x), x.intent = None, intents' = intents,
           \A t \in txns : t.intent # None => (InForce(t)' <=> InForce(t))
    PROVE  IntentInv'
<1>1. txns' = txns \cup {x}
  BY DEF Posted, Accepted
<1>2. \A t \in txns' : t.intent # None => t \in txns
  BY <1>1
<1>3. \A i \in Intents : i # None
  BY VibesAssumption
<1>4. \A t \in txns' : t.intent # None => t.type = "purchase"
  BY <1>2 DEF IntentInv
<1>5. \A t \in txns' : t.intent # None /\ InForce(t)' =>
          intents'[t.intent].status = "settled" /\ intents'[t.intent].settledTxn = t.key
  BY <1>2 DEF IntentInv
<1>6. \A i \in Intents : intents'[i].status = "settled" =>
          \E t \in txns' : t.intent = i /\ InForce(t)' /\ t.key = intents'[i].settledTxn
  BY <1>1, <1>3 DEF IntentInv
<1> QED
  BY <1>4, <1>5, <1>6 DEF IntentInv

\* What reverses nothing leaves in force what is.
LEMMA InForceSame ==
    ASSUME LedgerInv, NEW x, Posted(x), NEW t \in txns,
           ~(x.reverses = t.key /\ x.type \in {"refund", "chargeback"})
    PROVE  InForce(t)' <=> InForce(t)
<1>1. ReversedCents(t)' = ReversedCents(t)
  BY ReversalsGrow DEF LedgerInv, Posted
<1> QED
  BY <1>1 DEF InForce

\* The purchase that settles an open intent is the one in force.
LEMMA IntentSettled ==
    ASSUME LedgerInv, IntentInv, NEW x, Posted(x), x.type = "purchase", x.cents \in Nat \ {0},
           NEW i \in Intents, x.intent = i, NEW row,
           intents[i] \in IntentRow, ~(intents[i].status = "settled" /\ intents[i].settledTxn # None),
           intents' = [intents EXCEPT ![i] = row], row.status = "settled", row.settledTxn = x.key
    PROVE  IntentInv'
<1>1. txns' = txns \cup {x} /\ JournalInv /\ Accepted(x) /\ x \in Txn /\ txns \subseteq Txn
  BY DEF Posted, Accepted, LedgerInv, JournalInv
<1>2. \A j \in Intents : j # None /\ intents'[j] = IF j = i THEN row ELSE intents[j]
  BY VibesAssumption DEF LedgerInv, TypeOK
<1>3. \A t \in txns : InForce(t)' <=> InForce(t)
  BY <1>1, InForceSame
<1>4. InForce(x)'
  <2>1. ReversedCents(x)' = 0
    BY <1>1, FreshHasNone
  <2> QED
    BY <2>1 DEF InForce
<1>5. \A t \in txns : t.intent = i => ~InForce(t)
  <2> SUFFICES ASSUME NEW t \in txns, t.intent = i, InForce(t) PROVE FALSE
    OBVIOUS
  <2>1. intents[i].status = "settled" /\ intents[i].settledTxn = t.key
    BY <1>2 DEF IntentInv
  <2>2. t.key # None
    BY <1>1, VibesAssumption DEF Txn
  <2> QED
    BY <2>1, <2>2
<1>6. \A t \in txns' : t.intent # None => t.type = "purchase"
  BY <1>1 DEF IntentInv
<1>7. ASSUME NEW t \in txns', t.intent # None, InForce(t)'
      PROVE  intents'[t.intent].status = "settled" /\ intents'[t.intent].settledTxn = t.key
  <2>1. CASE t = x
    BY <1>2, <2>1
  <2>2. CASE t # x
    <3>1. t \in txns /\ InForce(t) /\ t.intent # i /\ t.intent \in Intents
      BY <1>1, <1>3, <1>5, <1>7, <2>2 DEF Txn
    <3> QED
      BY <1>2, <1>7, <3>1 DEF IntentInv
  <2> QED
    BY <2>1, <2>2
<1>8. ASSUME NEW j \in Intents, intents'[j].status = "settled"
      PROVE  \E t \in txns' : t.intent = j /\ InForce(t)' /\ t.key = intents'[j].settledTxn
  <2>1. CASE j = i
    BY <1>1, <1>2, <1>4, <2>1
  <2>2. CASE j # i
    <3>1. intents'[j] = intents[j]
      BY <1>2, <2>2
    <3>2. PICK t \in txns : t.intent = j /\ InForce(t) /\ t.key = intents[j].settledTxn
      BY <1>8, <3>1 DEF IntentInv
    <3> QED
      BY <1>1, <1>3, <3>1, <3>2
  <2> QED
    BY <2>1, <2>2
<1> QED
  BY <1>6, <1>7, <1>8 DEF IntentInv

\* Reversing the last of a purchase takes it out of force, and its intent with it.
LEMMA IntentReversed ==
    ASSUME LedgerInv, IntentInv, NEW x, Posted(x), NEW orig \in txns, x.intent = None,
           x.type \in {"refund", "chargeback"}, x.reverses = orig.key,
           x.cents \in Nat \ {0}, x.cents =< orig.cents - ReversedCents(orig),
           intents' = IF orig.intent # None /\ ReversedCents(orig) + x.cents >= orig.cents
                      THEN [intents EXCEPT ![orig.intent] = [intents[orig.intent] EXCEPT !.status = "refunded"]]
                      ELSE intents
    PROVE  IntentInv'
<1>1. txns' = txns \cup {x} /\ JournalInv /\ Accepted(x) /\ x \in Txn /\ txns \subseteq Txn
  BY DEF Posted, Accepted, LedgerInv, JournalInv
<1>2. ReversedCents(orig) \in Nat /\ orig.cents \in Nat
  BY <1>1, SumsOfReversals DEF Txn
<1>3. ReversedCents(orig)' = ReversedCents(orig) + x.cents
  BY <1>1, ReversalsGrow
<1>4. \A t \in txns : t # orig => (InForce(t)' <=> InForce(t))
  <2> SUFFICES ASSUME NEW t \in txns, t # orig PROVE InForce(t)' <=> InForce(t)
    OBVIOUS
  <2>1. x.reverses # t.key
    BY <1>1 DEF JournalInv, KeysUnique
  <2> QED
    BY <2>1, InForceSame
<1>5. CASE orig.intent = None
  BY <1>4, <1>5, IntentUntouched
<1>6. CASE orig.intent # None /\ ReversedCents(orig) + x.cents < orig.cents
  <2>1. InForce(orig)' <=> InForce(orig)
    BY <1>2, <1>3, <1>6 DEF InForce
  <2>2. intents' = intents
    BY <1>2, <1>6
  <2> QED
    BY <1>4, <2>1, <2>2, IntentUntouched
<1>7. CASE orig.intent # None /\ ReversedCents(orig) + x.cents >= orig.cents
  <2> DEFINE i == orig.intent
             row == [intents[i] EXCEPT !.status = "refunded"]
  <2>1. i \in Intents /\ intents[i] # NoIntent /\ intents[i] \in IntentRow
    BY <1>1, <1>7 DEF Txn, LedgerInv, IntentsKnown, TypeOK
  <2>2. row.status = "refunded"
    BY <2>1 DEF IntentRow
  <2>3. \A j \in Intents : j # None /\ intents'[j] = IF j = i THEN row ELSE intents[j]
    BY <1>7, <2>1, VibesAssumption DEF LedgerInv, TypeOK
  <2> HIDE DEF row
  <2>4. ~InForce(orig)' /\ InForce(orig)
    BY <1>2, <1>3, <1>7 DEF InForce, IntentInv
  <2>5. \A t \in txns : t.intent = i /\ InForce(t) => t = orig
    BY <1>7, <2>4 DEF IntentInv, LedgerInv, JournalInv, KeysUnique
  <2>6. \A t \in txns' : t.intent # None => t \in txns
    BY <1>1
  <2>7. \A t \in txns' : t.intent # None => t.type = "purchase"
    BY <2>6 DEF IntentInv
  <2>8. ASSUME NEW t \in txns', t.intent # None, InForce(t)'
        PROVE  intents'[t.intent].status = "settled" /\ intents'[t.intent].settledTxn = t.key
    <3>1. t \in txns /\ t # orig /\ InForce(t) /\ t.intent \in Intents
      BY <1>1, <1>4, <2>4, <2>6, <2>8 DEF Txn
    <3>2. t.intent # i
      BY <2>5, <3>1
    <3> QED
      BY <2>3, <2>8, <3>1, <3>2 DEF IntentInv
  <2>9. ASSUME NEW j \in Intents, intents'[j].status = "settled"
        PROVE  \E t \in txns' : t.intent = j /\ InForce(t)' /\ t.key = intents'[j].settledTxn
    <3>1. j # i /\ intents'[j] = intents[j]
      BY <2>2, <2>3, <2>9
    <3>2. PICK t \in txns : t.intent = j /\ InForce(t) /\ t.key = intents[j].settledTxn
      BY <2>9, <3>1 DEF IntentInv
    <3> QED
      BY <1>1, <1>4, <3>1, <3>2
  <2> QED
    BY <2>7, <2>8, <2>9 DEF IntentInv
<1> QED
  BY <1>2, <1>5, <1>6, <1>7

\* Where nothing is posted, a new intent, or one that failed before it was settled, keeps it.
LEMMA IntentChanged ==
    ASSUME LedgerInv, IntentInv, txns' = txns, NEW i \in Intents, NEW row,
           intents' = [intents EXCEPT ![i] = row], row.status # "settled",
           intents[i] = NoIntent \/ intents[i].status = "created"
    PROVE  IntentInv'
<1>1. \A t : ReversedCents(t)' = ReversedCents(t)
  BY DEF ReversedCents, ReversalsOf
<1>2. \A t : InForce(t)' <=> InForce(t)
  BY <1>1 DEF InForce
<1>3. \A j \in Intents : j # None /\ intents'[j] = IF j = i THEN row ELSE intents[j]
  BY VibesAssumption DEF LedgerInv, TypeOK
<1>4. intents[i].status # "settled"
  BY DEF NoIntent
<1>5. \A t \in txns : t.intent \in Intents \cup {None}
  BY DEF LedgerInv, JournalInv, Txn
<1>6. \A t \in txns' : t.intent # None => t.type = "purchase"
  BY DEF IntentInv
<1>7. \A t \in txns' : t.intent # None /\ InForce(t)' =>
          intents'[t.intent].status = "settled" /\ intents'[t.intent].settledTxn = t.key
  BY <1>2, <1>3, <1>4, <1>5 DEF IntentInv
<1>8. \A j \in Intents : intents'[j].status = "settled" =>
          \E t \in txns' : t.intent = j /\ InForce(t)' /\ t.key = intents'[j].settledTxn
  BY <1>2, <1>3 DEF IntentInv
<1> QED
  BY <1>6, <1>7, <1>8 DEF IntentInv

----------------------------------------------------------------------------
(* All parts together, and one lemma per action.                           *)

StoryInv == BooksInv /\ Backed /\ RowsWorth /\ PendingInv /\ GiftInv /\ TrailInv /\ IntentInv

\* A posting about no cashout keeps the parts when it is in order, leaves pending
\* accounts alone and gives creators no more than gifts.
LEMMA QuietStory ==
    ASSUME LedgerInv, StoryInv, NEW x, Posted(x), Even(x.entries),
           x.type = "adjustment" \/ (InOrder(x) /\ PendingStill(x)),
           x.cashout = None, cashouts' = cashouts,
           Unadjusted(Accounts)' =>
             /\ ProjectsStill(x)
             /\ \A u \in Users : x.entries[Payable(u)] =< GiftOf(x, u) - RefundOf(x, u),
           IntentInv'
    PROVE  StoryInv'
<1>1. BooksInv'
  BY BooksKept DEF StoryInv, Posted
<1>2. Backed'
  BY BackedKept DEF StoryInv
<1>3. RowsWorth'
  BY DEF StoryInv, RowsWorth
<1>4. PendingInv'
  BY PendingUntouched DEF StoryInv
<1>5. GiftInv'
  BY GiftUntouched DEF StoryInv
<1>6. TrailInv'
  BY TrailUntouched DEF StoryInv
<1> QED
  BY <1>1, <1>2, <1>3, <1>4, <1>5, <1>6 DEF StoryInv

\* One that settles no intent and reverses nothing leaves intents alone.
LEMMA QuietIntents ==
    ASSUME LedgerInv, StoryInv, NEW x, Posted(x), x.intent = None, intents' = intents,
           x.type \notin {"refund", "chargeback"}
    PROVE  IntentInv'
  BY InForceSame, IntentUntouched DEF StoryInv

\* A gift.
LEMMA TransferStory ==
    ASSUME LedgerInv, StoryInv, NEW k \in Keys, NEW from \in Users, NEW to \in Users,
           NEW amount \in BitAmounts, Transfer(k, from, to, amount)
    PROVE  StoryInv'
<1>1. PICK x : /\ Posted(x) /\ Moved(x, Credit(from), Payable(to), amount)
               /\ x.type = "donation" /\ x.provider = None
               /\ x.cashout = None /\ x.intent = None
               /\ x.from = from /\ x.to = to /\ x.bits = amount /\ from # to
               /\ UNCHANGED <<intents, cashouts, now>>
  BY TransferShape
<1>2. amount \in Nat /\ -amount \in Int
  BY VibesAssumption
<1>3. Credit(from) \in HeldAccounts /\ Payable(to) \in HeldAccounts
  BY DEF HeldAccounts, SpendableAccounts
<1>4. InOrder(x) /\ Even(x.entries)
  <2>1. x.type # "purchase" /\ amount \in Int
    BY <1>1, <1>2
  <2>2. InOrder(x)
    BY <1>1, <1>3, <2>1, MovedLaw
  <2> QED
    BY <2>2 DEF InOrder
<1>5. \A a \in Accounts :
        x.entries[a] = (IF a = Credit(from) THEN -amount ELSE 0) + (IF a = Payable(to) THEN amount ELSE 0)
  BY <1>1 DEF Moved
<1>6. PendingStill(x) /\ ProjectsStill(x)
  BY <1>5, Apart, AccountTypes DEF PendingStill, ProjectsStill
<1>7. ASSUME NEW u \in Users PROVE x.entries[Payable(u)] =< GiftOf(x, u) - RefundOf(x, u)
  <2>1. x.entries[Payable(u)] = IF u = to THEN amount ELSE 0
    BY <1>2, <1>5, Apart, AccountTypes
  <2>2. GiftOf(x, u) = IF u = to THEN amount ELSE 0
    BY <1>1 DEF GiftOf
  <2>3. RefundOf(x, u) = 0
    BY <1>1 DEF RefundOf
  <2> QED
    BY <1>2, <2>1, <2>2, <2>3
<1>8. IntentInv'
  BY <1>1, QuietIntents
<1> QED
  BY <1>1, <1>4, <1>6, <1>7, <1>8, QuietStory

\* Recycling.
LEMMA RecycleStory ==
    ASSUME LedgerInv, StoryInv, NEW k \in Keys, NEW u \in Users, NEW amount \in BitAmounts,
           Recycle(k, u, amount)
    PROVE  StoryInv'
<1>1. PICK x : /\ Posted(x) /\ Moved(x, Payable(u), Credit(u), amount)
               /\ x.type = "recycle" /\ x.provider = None /\ x.cashout = None /\ x.intent = None
               /\ UNCHANGED <<intents, cashouts, now>>
  BY RecycleShape
<1>2. amount \in Nat /\ -amount \in Int
  BY VibesAssumption
<1>3. Credit(u) \in HeldAccounts /\ Payable(u) \in HeldAccounts
  BY DEF HeldAccounts, SpendableAccounts
<1>4. InOrder(x) /\ Even(x.entries)
  <2>1. x.type # "purchase" /\ amount \in Int
    BY <1>1, <1>2
  <2>2. InOrder(x)
    BY <1>1, <1>3, <2>1, MovedLaw
  <2> QED
    BY <2>2 DEF InOrder
<1>5. \A a \in Accounts :
        x.entries[a] = (IF a = Payable(u) THEN -amount ELSE 0) + (IF a = Credit(u) THEN amount ELSE 0)
  BY <1>1 DEF Moved
<1>6. PendingStill(x) /\ ProjectsStill(x)
  BY <1>5, Apart, AccountTypes DEF PendingStill, ProjectsStill
<1>7. ASSUME NEW v \in Users PROVE x.entries[Payable(v)] =< GiftOf(x, v) - RefundOf(x, v)
  <2>1. x.entries[Payable(v)] =< 0
    BY <1>2, <1>5, Apart, AccountTypes
  <2>2. GiftOf(x, v) = 0 /\ RefundOf(x, v) = 0
    BY <1>1 DEF GiftOf, RefundOf
  <2>3. x.entries[Payable(v)] \in Int
    BY <1>1, AccountTypes DEF Posted, EntrySet
  <2> QED
    BY <2>1, <2>2, <2>3
<1>8. IntentInv'
  BY <1>1, QuietIntents
<1> QED
  BY <1>1, <1>4, <1>6, <1>7, <1>8, QuietStory

\* The refund of a gift: what is refunded leaves the recipient's payable.
LEMMA RefundTransferStory ==
    ASSUME LedgerInv, StoryInv, NEW k \in Keys, NEW orig \in txns, NEW asked \in BitAmounts \cup {None},
           RefundTransfer(k, orig, asked)
    PROVE  StoryInv'
<1>1. PICK x : /\ Posted(x) /\ Moved(x, Payable(orig.to), Credit(orig.from), x.bits)
               /\ x.type = "refund" /\ x.provider = None
               /\ x.cashout = None /\ x.intent = None
               /\ x.reverses = orig.key /\ x.from = orig.to /\ x.bits \in Nat
               /\ orig.type = "donation" /\ orig.receipt = None
               /\ orig.from \in Users /\ orig.to \in Users
               /\ UNCHANGED <<intents, cashouts, now>>
  BY RefundTransferShape
<1> DEFINE n == x.bits
<1>2. n \in Nat /\ -n \in Int
  BY <1>1
<1>3. Credit(orig.from) \in HeldAccounts /\ Payable(orig.to) \in HeldAccounts
  BY <1>1 DEF HeldAccounts, SpendableAccounts
<1>4. InOrder(x) /\ Even(x.entries)
  <2>1. x.type # "purchase" /\ x.bits \in Int
    BY <1>1, <1>2
  <2>2. InOrder(x)
    BY <1>1, <1>3, <2>1, MovedLaw
  <2> QED
    BY <2>2 DEF InOrder
<1>5. \A a \in Accounts :
        x.entries[a] = (IF a = Payable(orig.to) THEN -n ELSE 0) + (IF a = Credit(orig.from) THEN n ELSE 0)
  BY <1>1 DEF Moved
<1>6. PendingStill(x) /\ ProjectsStill(x)
  BY <1>2, <1>5, Apart, AccountTypes DEF PendingStill, ProjectsStill
<1>7. ASSUME NEW u \in Users PROVE x.entries[Payable(u)] =< GiftOf(x, u) - RefundOf(x, u)
  <2>1. x.entries[Payable(u)] = IF u = orig.to THEN -n ELSE 0
    BY <1>2, <1>5, Apart, AccountTypes
  <2>2. GiftOf(x, u) = 0
    BY <1>1 DEF GiftOf
  <2>3. RefundOf(x, u) = 0 \/ (u = orig.to /\ RefundOf(x, u) = n)
    BY <1>1 DEF RefundOf
  <2> HIDE DEF n
  <2>4. CASE u = orig.to
    BY <1>2, <2>1, <2>2, <2>3, <2>4
  <2>5. CASE u # orig.to
    BY <1>2, <2>1, <2>2, <2>3, <2>5
  <2> QED
    BY <2>4, <2>5
<1>8. IntentInv'
  <2>1. ASSUME NEW t \in txns, t.intent # None PROVE InForce(t)' <=> InForce(t)
    <3>1. t.type = "purchase" /\ t # orig
      BY <1>1, <2>1 DEF StoryInv, IntentInv
    <3>2. x.reverses # t.key
      BY <1>1, <3>1 DEF LedgerInv, JournalInv, KeysUnique
    <3> QED
      BY <1>1, <3>2, InForceSame
  <2> QED
    BY <1>1, <2>1, IntentUntouched DEF StoryInv
<1> QED
  BY <1>1, <1>4, <1>6, <1>7, <1>8, QuietStory

\* An adjustment: what the parts say of unadjusted accounts is not about it.
LEMMA AdjustStory ==
    ASSUME LedgerInv, StoryInv, NEW k \in Keys, NEW from \in Adjustable, NEW to \in Adjustable,
           NEW amount \in BitAmounts, Adjust(k, from, to, amount)
    PROVE  StoryInv'
<1>1. PICK x : /\ Posted(x) /\ Moved(x, from, to, amount) /\ x.type = "adjustment"
               /\ x.cashout = None /\ x.intent = None
               /\ UNCHANGED <<intents, cashouts, now>>
  BY AdjustShape
<1>2. ASSUME Unadjusted(Accounts)'
      PROVE  /\ ProjectsStill(x)
             /\ \A u \in Users : x.entries[Payable(u)] =< GiftOf(x, u) - RefundOf(x, u)
  <2>1. \A a \in Accounts : x.entries[a] = 0
    BY <1>1, <1>2 DEF Unadjusted, Posted, Accepted
  <2>2. \A u : GiftOf(x, u) = 0 /\ RefundOf(x, u) = 0
    BY <1>1 DEF GiftOf, RefundOf
  <2> QED
    BY <2>1, <2>2, AccountTypes DEF ProjectsStill
<1>3. IntentInv'
  BY <1>1, QuietIntents
<1>4. Even(x.entries)
  BY <1>1 DEF Moved
<1> QED
  BY <1>1, <1>2, <1>3, <1>4, QuietStory

\* A settled purchase.
LEMMA SettlePurchaseStory ==
    ASSUME LedgerInv, StoryInv, NEW k \in Keys \ UsedKeys, NEW ref \in Refs, NEW p \in Providers,
           NEW i \in Intents \cup {None}, NEW u \in Users \cup {None}, NEW paid \in CentAmounts,
           NEW explicit \in BitAmounts \cup {None}, SettlePurchase(k, ref, p, i, u, paid, explicit)
    PROVE  StoryInv'
<1>1. PICK x : /\ Posted(x) /\ Received(x.entries, p, x.cents, x.bits, Credit(x.to))
               /\ x.key = k /\ x.type = "purchase" /\ x.provider = p /\ x.receipt = ref /\ x.receipt # None
               /\ x.cashout = None /\ x.intent = i /\ x.to \in Users
               /\ x.cents \in Nat \ {0} /\ x.bits \in Nat /\ ValueCents(x.bits) =< x.cents
               /\ Settling(i, k) /\ UNCHANGED <<cashouts, now>>
  BY SettlePurchaseShape
<1>2. Credit(x.to) \in SpendableAccounts
  BY <1>1 DEF SpendableAccounts
<1>3. /\ InOrder(x) /\ PendingStill(x)
      /\ \A a \in SpendableAccounts : x.entries[a] = IF a = Credit(x.to) THEN x.bits ELSE 0
  BY <1>1, <1>2, ReceivedLaw
<1>4. Even(x.entries)
  BY <1>1 DEF Received
<1>5. ProjectsStill(x) /\ \A v \in Users : x.entries[Payable(v)] = 0
  BY <1>3, Apart DEF ProjectsStill, SpendableAccounts
<1>6. \A v : GiftOf(x, v) = 0 /\ RefundOf(x, v) = 0
  BY <1>1 DEF GiftOf, RefundOf
<1>7. IntentInv'
  <2>1. CASE i = None
    <3>1. intents' = intents /\ x.intent = None /\ x.type \notin {"refund", "chargeback"}
      BY <1>1, <2>1 DEF Settling
    <3> QED
      BY <1>1, <3>1, QuietIntents
  <2>2. CASE i # None
    <3> DEFINE row == [intents[i] EXCEPT !.status = "settled", !.settledTxn = k]
    <3>1. row.status = "settled" /\ row.settledTxn = x.key
      BY <1>1, <2>2 DEF IntentRow, Settling
    <3>2. /\ i \in Intents /\ intents[i] \in IntentRow
          /\ ~(intents[i].status = "settled" /\ intents[i].settledTxn # None)
          /\ intents' = [intents EXCEPT ![i] = row]
      BY <1>1, <2>2 DEF Settling
    <3> HIDE DEF row
    <3> QED
      BY <1>1, <2>2, <3>1, <3>2, IntentSettled DEF StoryInv
  <2> QED
    BY <2>1, <2>2
<1> QED
  BY <1>1, <1>3, <1>4, <1>5, <1>6, <1>7, QuietStory

\* A tip through a provider: money given to somebody else.
LEMMA TipStory ==
    ASSUME LedgerInv, StoryInv, NEW k \in Keys \ UsedKeys, NEW ref \in Refs, NEW p \in Providers,
           NEW from \in Users \cup {None}, NEW to \in Users, NEW paid \in CentAmounts,
           TipFromReceipt(k, ref, p, from, to, paid)
    PROVE  StoryInv'
<1>1. PICK x : /\ Posted(x) /\ Received(x.entries, p, x.cents, x.bits, Payable(to))
               /\ x.type = "donation" /\ x.provider = p /\ x.receipt = ref /\ x.receipt # None
               /\ x.cashout = None /\ x.intent = None /\ x.from = from /\ x.to = to /\ from # to
               /\ x.cents \in Nat \ {0} /\ x.bits \in Nat
               /\ UNCHANGED <<intents, cashouts, now>>
  BY TipShape
<1>2. Payable(to) \in SpendableAccounts
  BY <1>1 DEF SpendableAccounts
<1>3. /\ InOrder(x) /\ PendingStill(x)
      /\ \A a \in SpendableAccounts : x.entries[a] = IF a = Payable(to) THEN x.bits ELSE 0
  BY <1>1, <1>2, ReceivedLaw
<1>4. Even(x.entries)
  BY <1>1 DEF Received
<1>5. ProjectsStill(x)
  BY <1>3, Apart DEF ProjectsStill, SpendableAccounts
<1>6. ASSUME NEW u \in Users PROVE x.entries[Payable(u)] =< GiftOf(x, u) - RefundOf(x, u)
  <2>1. x.entries[Payable(u)] = IF u = to THEN x.bits ELSE 0
    BY <1>3, Apart DEF SpendableAccounts
  <2>2. GiftOf(x, u) = (IF u = to THEN x.bits ELSE 0) /\ RefundOf(x, u) = 0
    BY <1>1 DEF GiftOf, RefundOf
  <2> QED
    BY <1>1, <2>1, <2>2
<1>7. IntentInv'
  BY <1>1, QuietIntents
<1> QED
  BY <1>1, <1>3, <1>4, <1>5, <1>6, <1>7, QuietStory

\* The reversal of a receipt: no gift, and the payables stay.
LEMMA ReverseReceiptStory ==
    ASSUME LedgerInv, StoryInv, NEW k \in Keys, NEW ref \in Refs \cup {None}, NEW origRef \in Refs,
           NEW kind \in {"refund", "chargeback"}, NEW mode \in {"cumulative", "cents", "rest"},
           NEW n \in CentAmounts, ReverseReceipt(k, ref, origRef, kind, mode, n)
    PROVE  StoryInv'
<1>0. PICK orig \in txns : \E x : Reverses(orig, x)
  BY ReverseReceiptShape
<1>1. PICK x : Reverses(orig, x)
  BY <1>0
<1> USE DEF Reverses
<1>2. \/ TakenFor(x.entries, orig, x.cents)
      \/ \E bearer \in {Loss, Refunds} : Borne(x.entries, orig.provider, x.cents, bearer)
  BY <1>1
<1>3. InOrder(x) /\ PendingStill(x) /\ ProjectsStill(x) /\ \A u \in Users : x.entries[Payable(u)] = 0
  BY <1>1, <1>2, ReversalLaw
<1>4. Even(x.entries)
  BY <1>3 DEF InOrder
<1>5. ASSUME NEW u PROVE GiftOf(x, u) = 0 /\ RefundOf(x, u) = 0
  <2>1. ASSUME NEW g \in GiftsTo(txns, u), x.reverses = g.key, g.receipt = None PROVE FALSE
    <3>1. g = orig
      BY <1>1, <2>1 DEF GiftsTo, LedgerInv, JournalInv, KeysUnique
    <3> QED
      BY <1>1, <2>1, <3>1
  <2> QED
    BY <1>1, <2>1 DEF GiftOf, RefundOf
<1>6. IntentInv'
  BY <1>1, IntentReversed DEF StoryInv
<1> QED
  BY <1>1, <1>3, <1>4, <1>5, <1>6, QuietStory

\* A requested cashout: what leaves the payable is pending and in the row.
LEMMA RequestCashoutStory ==
    ASSUME LedgerInv, StoryInv, NEW k \in Keys, NEW c \in Cashouts, NEW u \in Users,
           NEW p \in Projects \cup {None}, NEW amount \in BitAmounts, RequestCashout(k, c, u, p, amount)
    PROVE  StoryInv'
<1> DEFINE source == IF p = None THEN Payable(u) ELSE ProjectPayable(p)
           row == [status |-> "requested", subject |-> u, project |-> p, bits |-> amount,
                   cents |-> ValueCents(amount), escrowUntil |-> now + EscrowDays,
                   requestTxn |-> k, settleTxn |-> None, payoutRef |-> None]
<1>1. PICK x : /\ Posted(x) /\ Moved(x, source, Pending(u), amount)
               /\ source \in SpendableAccounts /\ HasFunds(source, amount)
               /\ x.type = "cashout_request" /\ x.provider = None /\ x.receipt = None
               /\ x.cashout = c /\ x.intent = None
               /\ x.key = k /\ x.from = u /\ x.bits = amount
               /\ cashouts[c] = NoCashout
               /\ cashouts' = [cashouts EXCEPT ![c] = row]
               /\ UNCHANGED <<intents, now>>
  BY RequestCashoutShape
<1>2. amount \in Nat /\ amount > 0 /\ -amount \in Int
  BY VibesAssumption
<1>3. /\ row.status = "requested" /\ row.subject = u /\ row.bits = amount /\ row.cents = ValueCents(amount)
      /\ row.escrowUntil = now + EscrowDays /\ row # NoCashout
  BY DEF NoCashout
<1>4. LedgerInv'
  BY RequestCashoutInv
<1>5. /\ cashouts \in RowFunctions /\ cashouts' \in RowFunctions
      /\ cashouts'[c] = row /\ \A d \in Cashouts \ {c} : cashouts'[d] = cashouts[d]
  BY <1>1, <1>4 DEF LedgerInv, TypeOK, RowFunctions
<1> HIDE DEF row
<1>6. ASSUME NEW v
      PROVE  /\ BitsOf(cashouts, RequestedOf(cashouts, v)) \in Nat /\ BitsOf(cashouts, LeavingOf(cashouts, v)) \in Nat
             /\ BitsOf(cashouts', RequestedOf(cashouts', v))
                  = BitsOf(cashouts, RequestedOf(cashouts, v)) + (IF v = u THEN amount ELSE 0)
             /\ BitsOf(cashouts', LeavingOf(cashouts', v))
                  = BitsOf(cashouts, LeavingOf(cashouts, v)) + (IF v = u THEN amount ELSE 0)
  <2> DEFINE g == cashouts'
  <2>1. g \in RowFunctions /\ cashouts[c] = NoCashout /\ g[c] # NoCashout /\ g[c].status = "requested"
        /\ g[c].subject = u /\ g[c].bits = amount /\ \A d \in Cashouts \ {c} : g[d] = cashouts[d]
    BY <1>1, <1>3, <1>5
  <2> HIDE DEF g
  <2>2. LET n == IF g[c].subject = v THEN g[c].bits ELSE 0
        IN  /\ BitsOf(g, RequestedOf(g, v)) = BitsOf(cashouts, RequestedOf(cashouts, v)) + n
            /\ BitsOf(g, LeavingOf(g, v)) = BitsOf(cashouts, LeavingOf(cashouts, v)) + n
            /\ BitsOf(cashouts, RequestedOf(cashouts, v)) \in Nat /\ BitsOf(cashouts, LeavingOf(cashouts, v)) \in Nat
    BY <1>5, <2>1, RowSums
  <2> QED
    BY <2>1, <2>2 DEF g
<1>7. source \in HeldAccounts /\ Pending(u) \in HeldAccounts /\ source \in Accounts
  BY <1>1, SpendableApart DEF HeldAccounts
<1>8. InOrder(x) /\ Even(x.entries)
  <2>1. x.type # "purchase" /\ amount \in Int
    BY <1>1, <1>2
  <2>2. InOrder(x)
    BY <1>1, <1>7, <2>1, MovedLaw
  <2> QED
    BY <2>2 DEF InOrder
<1>9. \A a \in Accounts :
        x.entries[a] = (IF a = source THEN -amount ELSE 0) + (IF a = Pending(u) THEN amount ELSE 0)
  BY <1>1 DEF Moved
<1>10. BooksInv' /\ Backed'
  BY <1>1, <1>8, BooksKept, BackedKept DEF StoryInv, Posted
<1>11. RowsWorth'
  BY <1>3, <1>5 DEF StoryInv, RowsWorth
<1>12. PendingInv'
  <2>1. ASSUME NEW v \in Users PROVE x.entries[Pending(v)] = IF v = u THEN amount ELSE 0
    BY <1>1, <1>2, <1>9, Apart, AccountTypes DEF SpendableAccounts
  <2> QED
    BY <1>1, <1>6, <2>1, PendingKept DEF StoryInv
<1>13. GiftInv'
  <2>1. ASSUME Unadjusted(Accounts)' PROVE p = None
    <3>1. Unadjusted(Accounts)
      BY <1>1, <2>1 DEF Unadjusted, Posted, Accepted
    <3>2. p # None => balance[ProjectPayable(p)] = 0
      BY <3>1 DEF StoryInv, GiftInv
    <3> QED
      BY <1>1, <1>2, <3>2 DEF HasFunds
  <2>2. \A v : GiftOf(x, v) = 0 /\ RefundOf(x, v) = 0
    BY <1>1 DEF GiftOf, RefundOf
  <2>3. ASSUME p = None
        PROVE  ProjectsStill(x) /\ \A v \in Users : x.entries[Payable(v)] = IF v = u THEN -amount ELSE 0
    BY <1>2, <1>9, <2>3, Apart, AccountTypes DEF ProjectsStill
  <2>4. ASSUME p = None, NEW v \in Users
        PROVE  /\ BitsOf(cashouts, LeavingOf(cashouts, v)) \in Int
               /\ BitsOf(cashouts', LeavingOf(cashouts', v)) \in Int
               /\ x.entries[Payable(v)] + BitsOf(cashouts', LeavingOf(cashouts', v))
                    =< BitsOf(cashouts, LeavingOf(cashouts, v)) + GiftOf(x, v) - RefundOf(x, v)
    <3> DEFINE l == BitsOf(cashouts, LeavingOf(cashouts, v))
               m == BitsOf(cashouts', LeavingOf(cashouts', v))
               e == x.entries[Payable(v)]
    <3>1. l \in Nat /\ m = l + (IF v = u THEN amount ELSE 0) /\ e = IF v = u THEN -amount ELSE 0
      BY <1>6, <2>3, <2>4
    <3> HIDE DEF l, m, e
    <3>2. m \in Int /\ e + m =< l + 0 - 0
      BY <1>2, <3>1
    <3> QED
      BY <2>2, <3>1, <3>2 DEF l, m, e
  <2> QED
    BY <1>1, <2>1, <2>3, <2>4, GiftKept DEF StoryInv
<1>14. TrailInv'
  <2>1. TrailOf(txns, c) = {}
    BY <1>1 DEF StoryInv, TrailInv, Trailed
  <2>2. Trailed(row, TrailOf(txns, c) \cup {x})
    BY <1>1, <1>3, <2>1 DEF Trailed, Posted
  <2> QED
    BY <1>1, <2>2, TrailKept DEF StoryInv
<1>15. IntentInv'
  BY <1>1, QuietIntents
<1> QED
  BY <1>10, <1>11, <1>12, <1>13, <1>14, <1>15 DEF StoryInv

\* A denied cashout: its Vibes return to the creator's payable.
LEMMA DenyCashoutStory ==
    ASSUME LedgerInv, StoryInv, NEW k \in Keys \ UsedKeys, NEW c \in Cashouts, DenyCashout(k, c)
    PROVE  StoryInv'
<1> DEFINE old == cashouts[c]
           row == DeniedRow(old, k)
           u == old.subject
           b == old.bits
<1>1. PICK x : /\ Posted(x) /\ Moved(x, Pending(u), Payable(u), b)
               /\ x.type = "cashout_denied" /\ x.provider = None
               /\ x.cashout = c /\ x.intent = None /\ x.key = k /\ x.bits = b
               /\ old \in CashoutRow /\ old.status = "requested"
               /\ cashouts' = [cashouts EXCEPT ![c] = row]
               /\ UNCHANGED <<intents, now>>
  BY DenyCashoutShape
<1>2. LedgerInv'
  BY DenyCashoutInv
<1>3. /\ row.status = "denied" /\ row.subject = u /\ row.bits = b /\ row.cents = old.cents
      /\ row.escrowUntil = old.escrowUntil /\ row.settleTxn = k
  BY <1>1 DEF CashoutRow, DeniedRow
<1>4. b \in Nat /\ -b \in Int /\ u \in Users /\ old # NoCashout
  BY <1>1, VibesAssumption DEF CashoutRow, NoCashout
<1>5. row # NoCashout
  BY <1>3 DEF NoCashout
<1> HIDE DEF row
<1>6. \A d \in Cashouts : cashouts'[d] = IF d = c THEN row ELSE cashouts[d]
  BY <1>1 DEF LedgerInv, TypeOK
<1>7. ASSUME NEW v
      PROVE  /\ BitsOf(cashouts, RequestedOf(cashouts, v)) \in Nat /\ BitsOf(cashouts, LeavingOf(cashouts, v)) \in Nat
             /\ BitsOf(cashouts', RequestedOf(cashouts', v))
                  = BitsOf(cashouts, RequestedOf(cashouts, v)) - (IF u = v THEN b ELSE 0)
             /\ BitsOf(cashouts', LeavingOf(cashouts', v))
                  = BitsOf(cashouts, LeavingOf(cashouts, v)) - (IF u = v THEN b ELSE 0)
  <2> DEFINE g == cashouts'
  <2>1. /\ cashouts \in RowFunctions /\ g \in RowFunctions
        /\ \A d \in Cashouts \ {c} : g[d] = cashouts[d]
        /\ cashouts[c].status = "requested" /\ g[c].status = "denied"
        /\ g[c].subject = cashouts[c].subject /\ g[c].bits = cashouts[c].bits
    BY <1>1, <1>2, <1>3, <1>6 DEF LedgerInv, TypeOK, RowFunctions
  <2> HIDE DEF g
  <2>2. LET n == IF cashouts[c].subject = v THEN cashouts[c].bits ELSE 0
        IN  /\ BitsOf(cashouts, RequestedOf(cashouts, v)) \in Nat
            /\ BitsOf(cashouts, LeavingOf(cashouts, v)) \in Nat
            /\ BitsOf(g, RequestedOf(g, v)) = BitsOf(cashouts, RequestedOf(cashouts, v)) - n
            /\ BitsOf(g, LeavingOf(g, v)) = BitsOf(cashouts, LeavingOf(cashouts, v)) - n
    BY <2>1, RowSums
  <2> QED
    BY <2>2 DEF g
<1>8. Pending(u) \in HeldAccounts /\ Payable(u) \in HeldAccounts
  BY <1>4 DEF HeldAccounts, SpendableAccounts
<1>9. InOrder(x) /\ Even(x.entries)
  <2>1. x.type # "purchase" /\ b \in Int
    BY <1>1, <1>4
  <2>2. InOrder(x)
    BY <1>1, <1>8, <2>1, MovedLaw
  <2> QED
    BY <2>2 DEF InOrder
<1>10. \A a \in Accounts : x.entries[a] = (IF a = Pending(u) THEN -b ELSE 0) + (IF a = Payable(u) THEN b ELSE 0)
  BY <1>1 DEF Moved
<1>11. BooksInv' /\ Backed'
  BY <1>1, <1>9, BooksKept, BackedKept DEF StoryInv, Posted
<1>12. RowsWorth'
  BY <1>3, <1>4, <1>6 DEF StoryInv, RowsWorth
<1> HIDE DEF u, b
<1>13. PendingInv'
  <2>1. ASSUME NEW v \in Users
        PROVE  BitsOf(cashouts', RequestedOf(cashouts', v))
                 = BitsOf(cashouts, RequestedOf(cashouts, v)) + x.entries[Pending(v)]
    <3>1. x.entries[Pending(v)] = IF u = v THEN -b ELSE 0
      BY <1>4, <1>10, Apart, AccountTypes
    <3>2. BitsOf(cashouts', RequestedOf(cashouts', v))
            = BitsOf(cashouts, RequestedOf(cashouts, v)) - (IF u = v THEN b ELSE 0)
          /\ BitsOf(cashouts, RequestedOf(cashouts, v)) \in Nat
      BY <1>7
    <3> QED
      BY <1>4, <3>1, <3>2
  <2> QED
    BY <1>1, <2>1, PendingKept DEF StoryInv
<1>14. GiftInv'
  <2>1. \A v : GiftOf(x, v) = 0 /\ RefundOf(x, v) = 0
    BY <1>1 DEF GiftOf, RefundOf
  <2>2. ProjectsStill(x) /\ \A v \in Users : x.entries[Payable(v)] = IF u = v THEN b ELSE 0
    BY <1>4, <1>10, Apart, AccountTypes DEF ProjectsStill
  <2>3. ASSUME NEW v \in Users
        PROVE  /\ BitsOf(cashouts, LeavingOf(cashouts, v)) \in Int
               /\ BitsOf(cashouts', LeavingOf(cashouts', v)) \in Int
               /\ x.entries[Payable(v)] + BitsOf(cashouts', LeavingOf(cashouts', v))
                    =< BitsOf(cashouts, LeavingOf(cashouts, v)) + GiftOf(x, v) - RefundOf(x, v)
    <3> DEFINE l == BitsOf(cashouts, LeavingOf(cashouts, v))
               m == BitsOf(cashouts', LeavingOf(cashouts', v))
               e == x.entries[Payable(v)]
    <3>1. l \in Nat /\ m = l - (IF u = v THEN b ELSE 0) /\ e = IF u = v THEN b ELSE 0
      BY <1>7, <2>2
    <3> HIDE DEF l, m, e
    <3>2. m \in Int /\ e + m =< l + 0 - 0
      BY <1>4, <3>1
    <3> QED
      BY <2>1, <3>1, <3>2 DEF l, m, e
  <2> QED
    BY <1>1, <2>2, <2>3, GiftKept DEF StoryInv
<1>15. TrailInv'
  <2>1. Trailed(old, TrailOf(txns, c))
    BY DEF StoryInv, TrailInv
  <2>2. old.status = "requested" /\ row.bits = old.bits /\ row.subject = old.subject
        /\ x.type = "cashout_denied" /\ x.key = row.settleTxn /\ x.bits = row.bits
    BY <1>1, <1>3 DEF u, b
  <2> HIDE DEF old
  <2>3. Trailed(row, TrailOf(txns, c) \cup {x})
    BY <1>3, <1>4, <1>5, <2>1, <2>2, TrailDecided
  <2> QED
    BY <1>1, <2>3, TrailKept DEF StoryInv
<1>16. IntentInv'
  BY <1>1, QuietIntents
<1> QED
  BY <1>11, <1>12, <1>13, <1>14, <1>15, <1>16 DEF StoryInv

\* A paid cashout: its Vibes leave against the cents the row promised.
LEMMA ApproveCashoutStory ==
    ASSUME LedgerInv, StoryInv, NEW k \in Keys \ UsedKeys, NEW c \in Cashouts, NEW p \in Providers,
           NEW ref \in Refs, ApproveCashout(k, c, p, ref)
    PROVE  StoryInv'
<1> DEFINE old == cashouts[c]
           row == PaidRow(old, k, ref)
           u == old.subject
           b == old.bits
<1>1. PICK x : /\ Posted(x) /\ PaidOut(x.entries, u, p, b, old.cents)
               /\ x.type = "cashout_paid" /\ x.receipt = ref
               /\ x.cashout = c /\ x.intent = None /\ x.key = k /\ x.bits = b
               /\ old \in CashoutRow /\ old.status = "requested" /\ now >= old.escrowUntil
               /\ cashouts' = [cashouts EXCEPT ![c] = row]
               /\ UNCHANGED <<intents, now>>
  BY ApproveCashoutShape
<1>2. LedgerInv'
  BY ApproveCashoutInv
<1>3. /\ row.status = "paid" /\ row.subject = u /\ row.bits = b /\ row.cents = old.cents
      /\ row.escrowUntil = old.escrowUntil /\ row.settleTxn = k /\ row.payoutRef = ref
  BY <1>1 DEF CashoutRow, PaidRow
<1>4. b \in Nat /\ -b \in Int /\ u \in Users /\ old # NoCashout /\ old.cents \in Nat
  BY <1>1, VibesAssumption DEF CashoutRow, NoCashout
<1>5. row # NoCashout
  BY <1>3 DEF NoCashout
<1> HIDE DEF row
<1>6. \A d \in Cashouts : cashouts'[d] = IF d = c THEN row ELSE cashouts[d]
  BY <1>1 DEF LedgerInv, TypeOK
<1>7. ASSUME NEW v
      PROVE  /\ BitsOf(cashouts, RequestedOf(cashouts, v)) \in Nat /\ BitsOf(cashouts, LeavingOf(cashouts, v)) \in Nat
             /\ BitsOf(cashouts', RequestedOf(cashouts', v))
                  = BitsOf(cashouts, RequestedOf(cashouts, v)) - (IF u = v THEN b ELSE 0)
             /\ BitsOf(cashouts', LeavingOf(cashouts', v)) = BitsOf(cashouts, LeavingOf(cashouts, v))
  <2> DEFINE g == cashouts'
  <2>1. /\ cashouts \in RowFunctions /\ g \in RowFunctions
        /\ \A d \in Cashouts \ {c} : g[d] = cashouts[d]
        /\ cashouts[c].status = "requested" /\ g[c].status = "paid"
        /\ g[c].subject = cashouts[c].subject /\ g[c].bits = cashouts[c].bits
    BY <1>1, <1>2, <1>3, <1>6 DEF LedgerInv, TypeOK, RowFunctions
  <2> HIDE DEF g
  <2>2. LET n == IF cashouts[c].subject = v THEN cashouts[c].bits ELSE 0
        IN  /\ BitsOf(cashouts, RequestedOf(cashouts, v)) \in Nat
            /\ BitsOf(cashouts, LeavingOf(cashouts, v)) \in Nat
            /\ BitsOf(g, RequestedOf(g, v)) = BitsOf(cashouts, RequestedOf(cashouts, v)) - n
            /\ BitsOf(g, LeavingOf(g, v)) = BitsOf(cashouts, LeavingOf(cashouts, v))
    BY <2>1, RowSums
  <2> QED
    BY <2>2 DEF g
<1>8. old.cents = ValueCents(b)
  BY <1>4 DEF StoryInv, RowsWorth
<1>9. /\ InOrder(x) /\ Even(x.entries)
      /\ \A v \in Users : x.entries[Pending(v)] = IF v = u THEN -b ELSE 0
      /\ \A a \in SpendableAccounts : x.entries[a] = 0
  <2> HIDE DEF u, b
  <2>1. /\ InOrder(x) /\ \A v \in Users : x.entries[Pending(v)] = IF v = u THEN -b ELSE 0
        /\ \A a \in SpendableAccounts : x.entries[a] = 0
    BY <1>1, <1>4, <1>8, PaidOutLaw
  <2> QED
    BY <2>1 DEF InOrder
<1>10. BooksInv' /\ Backed'
  BY <1>1, <1>9, BooksKept, BackedKept DEF StoryInv, Posted
<1>11. RowsWorth'
  BY <1>3, <1>6, <1>8 DEF StoryInv, RowsWorth
<1> HIDE DEF u, b
<1>12. PendingInv'
  <2>1. ASSUME NEW v \in Users
        PROVE  BitsOf(cashouts', RequestedOf(cashouts', v))
                 = BitsOf(cashouts, RequestedOf(cashouts, v)) + x.entries[Pending(v)]
    <3>1. BitsOf(cashouts', RequestedOf(cashouts', v))
            = BitsOf(cashouts, RequestedOf(cashouts, v)) - (IF u = v THEN b ELSE 0)
          /\ BitsOf(cashouts, RequestedOf(cashouts, v)) \in Nat
      BY <1>7
    <3> QED
      BY <1>4, <1>9, <3>1
  <2> QED
    BY <1>1, <2>1, PendingKept DEF StoryInv
<1>13. GiftInv'
  <2>1. \A v : GiftOf(x, v) = 0 /\ RefundOf(x, v) = 0
    BY <1>1 DEF GiftOf, RefundOf
  <2>2. ProjectsStill(x) /\ \A v \in Users : x.entries[Payable(v)] = 0
    BY <1>9 DEF ProjectsStill, SpendableAccounts
  <2>3. ASSUME NEW v \in Users
        PROVE  /\ BitsOf(cashouts, LeavingOf(cashouts, v)) \in Int
               /\ BitsOf(cashouts', LeavingOf(cashouts', v)) \in Int
               /\ x.entries[Payable(v)] + BitsOf(cashouts', LeavingOf(cashouts', v))
                    =< BitsOf(cashouts, LeavingOf(cashouts, v)) + GiftOf(x, v) - RefundOf(x, v)
    BY <1>7, <2>1, <2>2
  <2> QED
    BY <1>1, <2>2, <2>3, GiftKept DEF StoryInv
<1>14. TrailInv'
  <2>1. Trailed(old, TrailOf(txns, c))
    BY DEF StoryInv, TrailInv
  <2>2. old.status = "requested" /\ row.bits = old.bits /\ row.subject = old.subject
        /\ x.type = "cashout_paid" /\ x.key = row.settleTxn /\ x.bits = row.bits
        /\ x.at >= row.escrowUntil /\ x.receipt = row.payoutRef
    BY <1>1, <1>3 DEF u, b, Posted
  <2> HIDE DEF old
  <2>3. Trailed(row, TrailOf(txns, c) \cup {x})
    BY <1>3, <1>4, <1>5, <2>1, <2>2, TrailDecided
  <2> QED
    BY <1>1, <2>3, TrailKept DEF StoryInv
<1>15. IntentInv'
  BY <1>1, QuietIntents
<1> QED
  BY <1>10, <1>11, <1>12, <1>13, <1>14, <1>15 DEF StoryInv

\* Steps that post nothing keep every part but the intents.
LEMMA StillStory ==
    ASSUME StoryInv, UNCHANGED <<txns, balance, cashouts>>, IntentInv'
    PROVE  StoryInv'
<1>1. BooksInv' /\ Backed'
  BY DEF StoryInv, BooksInv, Backed, Unadjusted
<1>2. RowsWorth' /\ PendingInv' /\ TrailInv'
  BY DEF StoryInv, RowsWorth, PendingInv, TrailInv, Unadjusted
<1>3. GiftInv'
  BY DEF StoryInv, GiftInv, Unadjusted
<1> QED
  BY <1>1, <1>2, <1>3 DEF StoryInv

\* A new intent.
LEMMA CreateIntentStory ==
    ASSUME LedgerInv, StoryInv, NEW i \in Intents, NEW u \in Users, NEW p \in Providers,
           NEW bits \in BitAmounts, CreateIntent(i, u, p, bits)
    PROVE  StoryInv'
<1> DEFINE row == [status |-> "created", subject |-> u, provider |-> p, bits |-> bits,
                   amount |-> PriceCents(bits), settledTxn |-> None]
<1>1. /\ intents[i] = NoIntent /\ intents' = [intents EXCEPT ![i] = row] /\ row.status # "settled"
      /\ UNCHANGED <<txns, balance, cashouts>>
  BY DEF CreateIntent
<1> HIDE DEF row
<1>2. IntentInv'
  BY <1>1, IntentChanged DEF StoryInv
<1> QED
  BY <1>1, <1>2, StillStory

\* A checkout that failed to open.
LEMMA FailIntentStory ==
    ASSUME LedgerInv, StoryInv, NEW i \in Intents, FailIntent(i)
    PROVE  StoryInv'
<1> DEFINE row == [intents[i] EXCEPT !.status = "failed"]
<1>1. /\ intents[i].status = "created" /\ intents' = [intents EXCEPT ![i] = row]
      /\ UNCHANGED <<txns, balance, cashouts>>
  BY DEF FailIntent
<1>2. row.status = "failed"
  BY <1>1 DEF LedgerInv, TypeOK, IntentRow, NoIntent
<1> HIDE DEF row
<1>3. IntentInv'
  BY <1>1, <1>2, IntentChanged DEF StoryInv
<1> QED
  BY <1>1, <1>3, StillStory

\* The clock and stuttering leave the ledger alone.
LEMMA IdleStory ==
    ASSUME LedgerInv, StoryInv, UNCHANGED <<txns, balance, intents, cashouts>>
    PROVE  StoryInv'
<1>1. \A t : InForce(t)' <=> InForce(t)
  BY DEF InForce, ReversedCents, ReversalsOf
<1>2. IntentInv'
  BY <1>1 DEF StoryInv, IntentInv
<1> QED
  BY <1>2, StillStory

\* The empty ledger has every part.
LEMMA InitStory == Init => StoryInv
<1> SUFFICES ASSUME Init PROVE StoryInv
  OBVIOUS
<1>1. /\ txns = {} /\ balance = NoEntries /\ \A a \in Accounts : balance[a] = 0
      /\ \A i \in Intents : intents[i].status = "none"
      /\ \A c \in Cashouts : cashouts[c] = NoCashout /\ cashouts[c].status = "none"
  BY DEF Init, LedgerInit, NoEntries, NoIntent, NoCashout
<1>2. BooksInv /\ RowsWorth /\ IntentInv
  BY <1>1 DEF BooksInv, RowsWorth, IntentInv
<1>3. TrailInv
  BY <1>1 DEF TrailInv, Trailed, TrailOf
<1>4. \A u : RequestedOf(cashouts, u) = {} /\ LeavingOf(cashouts, u) = {}
  BY <1>1 DEF RequestedOf, LeavingOf
<1>5. BitsOf(cashouts, {}) = 0
  BY SumEmpty DEF BitsOf
<1>6. PendingInv
  BY <1>1, <1>4, <1>5, AccountTypes DEF PendingInv
<1>7. GiftInv
  <2>1. \A u : GiftsTo(txns, u) = {} /\ GiftRefunds(txns, u) = {}
    BY <1>1 DEF GiftsTo, GiftRefunds
  <2>2. SumBits({}) = 0
    BY SumsEmpty
  <2> QED
    BY <1>1, <1>4, <1>5, <2>1, <2>2, AccountTypes DEF GiftInv
<1>8. Backed
  <2>1. HeldAccounts \subseteq Accounts /\ FxCents \in Accounts
    BY AccountTypes DEF Accounts, BitsAccounts
  <2>2. Total(balance, HeldAccounts) = 0
    BY <1>1, <2>1, AccountsFinite, SumZero DEF Total
  <2>3. balance[FxCents] * BitsPerUsd - 100 * Total(balance, HeldAccounts) = 0
    BY <1>1, <2>1, <2>2, RatesAssumption
  <2>4. Cardinality(txns) = 0
    BY <1>1, FS_EmptySet
  <2>5. BitsPerUsd * Cardinality(txns) = 0
    BY <2>4, RatesAssumption
  <2>6. Drift = 0 /\ Slack = 0
    BY <2>3, <2>5 DEF Drift, Slack
  <2> QED
    BY <2>6, BackedForm
<1> QED
  BY <1>2, <1>3, <1>6, <1>7, <1>8 DEF StoryInv

\* Every step keeps them.
LEMMA NextStory == LedgerInv /\ StoryInv /\ [Next]_vars => StoryInv'
<1> SUFFICES ASSUME LedgerInv, StoryInv, [Next]_vars PROVE StoryInv'
  OBVIOUS
<1>1. ASSUME NEW k \in Keys \ UsedKeys, PurchaseNext(k) PROVE StoryInv'
  BY <1>1, SettlePurchaseStory, TipStory DEF PurchaseNext
<1>2. ASSUME NEW k \in Keys \ UsedKeys, TransferNext(k) PROVE StoryInv'
  BY <1>2, TransferStory, RefundTransferStory, RecycleStory DEF TransferNext
<1>3. ASSUME NEW k \in Keys \ UsedKeys, CashoutNext(k) PROVE StoryInv'
  BY <1>3, RequestCashoutStory, ApproveCashoutStory, DenyCashoutStory DEF CashoutNext
<1>4. ASSUME NEW k \in Keys \ UsedKeys, ReversalNext(k) PROVE StoryInv'
  BY <1>4, ReverseReceiptStory DEF ReversalNext
<1>5. ASSUME NEW k \in Keys \ UsedKeys, NEW from \in Adjustable, NEW to \in Adjustable,
             NEW amount \in BitAmounts, Adjust(k, from, to, amount)
      PROVE  StoryInv'
  BY <1>5, AdjustStory
<1>6. ASSUME NEW i \in Intents, NEW u \in Users, NEW p \in Providers, NEW bits \in BitAmounts,
             CreateIntent(i, u, p, bits)
      PROVE  StoryInv'
  BY <1>6, CreateIntentStory
<1>7. ASSUME NEW i \in Intents, FailIntent(i) PROVE StoryInv'
  BY <1>7, FailIntentStory
<1>8. CASE Tick \/ UNCHANGED vars
  BY <1>8, IdleStory DEF Tick, vars
<1> QED
  BY <1>1, <1>2, <1>3, <1>4, <1>5, <1>6, <1>7, <1>8 DEF Next

\* The books, the rows, the trails, the intents and the gifts tell one story in every
\* reachable state.
THEOREM StoryInvariant == Spec => [](LedgerInv /\ StoryInv)
<1>1. Init => LedgerInv /\ StoryInv
  BY InitInv, InitStory
<1>2. (LedgerInv /\ StoryInv) /\ [Next]_vars => (LedgerInv /\ StoryInv)'
  BY NextInv, NextStory
<1> QED
  BY <1>1, <1>2, PTL DEF Spec

\* The report of reconcile.js stays empty, whatever was bought, given, cashed out,
\* reversed or adjusted: every transaction balances, the value account mirrors the bits
\* moved and backs what people hold, pending Vibes are those of open cashouts, and every
\* receipt moved its own cents.
THEOREM BooksReconcile == Spec => []Reconciles
<1>1. LedgerInv /\ StoryInv => Reconciles
  BY BooksSay, PendingForm DEF LedgerInv, TypeOK, StoryInv, Reconciles
<1> QED
  BY <1>1, StoryInvariant, PTL

\* A cashout's row and the journal tell one story: one request, at most one decision, for
\* the amount asked, paid no earlier than the escrow (cashouts.js).
THEOREM CashoutsTrail == Spec => []CashoutTrail
<1>1. LedgerInv /\ StoryInv => CashoutTrail
  BY TrailForm DEF StoryInv
<1> QED
  BY <1>1, StoryInvariant, PTL

\* However often an intent is settled, failed or refunded, at most one purchase of it is
\* in force, and a settled intent names it (purchases.js, intents.js).
THEOREM IntentsSettleOnce == Spec => []IntentSettledOnce
<1>1. LedgerInv /\ StoryInv => IntentSettledOnce
  BY IntentForm DEF StoryInv
<1> QED
  BY <1>1, StoryInvariant, PTL

\* Only money given by somebody else leaves as a cashout, less what was refunded of it.
THEOREM OnlyGiftsCashOut == Spec => []OnlyGiftsLeave
<1>1. LedgerInv /\ StoryInv => OnlyGiftsLeave
  BY GiftForm DEF StoryInv
<1> QED
  BY <1>1, StoryInvariant, PTL

----------------------------------------------------------------------------
(* Reversals book no gain at the default rate.                             *)

\* A posting that reverses nothing books none.
LEMMA NoGainPosted ==
    ASSUME ReversalNeverGains, NEW x, Posted(x),
           x.type \in {"refund", "chargeback"} => x.entries[Loss] =< 0 /\ x.entries[Refunds] =< 0
    PROVE  ReversalNeverGains'
  BY DEF ReversalNeverGains, Posted, Accepted

\* Nor does the refund of a gift, or the reversal of a receipt.
LEMMA NoGainStep ==
    ASSUME BitsPerUsd = 100, LedgerInv, StoryInv, ReversalNeverGains, [Next]_vars
    PROVE  ReversalNeverGains'
<1>1. ASSUME NEW k \in Keys \ UsedKeys, PurchaseNext(k) PROVE ReversalNeverGains'
  <2>1. ASSUME NEW ref \in Refs, NEW p \in Providers, NEW paid \in CentAmounts,
               NEW i \in Intents \cup {None}, NEW u \in Users \cup {None}, NEW b \in BitAmounts \cup {None},
               SettlePurchase(k, ref, p, i, u, paid, b)
        PROVE  ReversalNeverGains'
    <3>1. PICK x : Posted(x) /\ x.type = "purchase"
      BY <2>1, SettlePurchaseShape
    <3> QED
      BY <3>1, NoGainPosted
  <2>2. ASSUME NEW ref \in Refs, NEW p \in Providers, NEW paid \in CentAmounts,
               NEW from \in Users \cup {None}, NEW to \in Users, TipFromReceipt(k, ref, p, from, to, paid)
        PROVE  ReversalNeverGains'
    <3>1. PICK x : Posted(x) /\ x.type = "donation"
      BY <2>2, TipShape
    <3> QED
      BY <3>1, NoGainPosted
  <2> QED
    BY <1>1, <2>1, <2>2 DEF PurchaseNext
<1>2. ASSUME NEW k \in Keys \ UsedKeys, TransferNext(k) PROVE ReversalNeverGains'
  <2>1. ASSUME NEW from \in Users, NEW to \in Users, NEW amount \in BitAmounts, Transfer(k, from, to, amount)
        PROVE  ReversalNeverGains'
    <3>1. PICK x : Posted(x) /\ x.type = "donation"
      BY <2>1, TransferShape
    <3> QED
      BY <3>1, NoGainPosted
  <2>2. ASSUME NEW orig \in txns, NEW asked \in BitAmounts \cup {None}, RefundTransfer(k, orig, asked)
        PROVE  ReversalNeverGains'
    <3>1. PICK x : /\ Posted(x) /\ Moved(x, Payable(orig.to), Credit(orig.from), x.bits)
                   /\ x.type = "refund" /\ x.provider = None /\ x.bits \in Nat
                   /\ orig.from \in Users /\ orig.to \in Users
      BY <2>2, RefundTransferShape
    <3>2. Credit(orig.from) \in HeldAccounts /\ Payable(orig.to) \in HeldAccounts
      BY <3>1 DEF HeldAccounts, SpendableAccounts
    <3>3. x.type # "purchase" /\ x.bits \in Int
      BY <3>1
    <3>4. NothingBorne(x)
      BY <3>1, <3>2, <3>3, MovedLaw
    <3>5. x.entries[Loss] =< 0 /\ x.entries[Refunds] =< 0
      BY <3>4 DEF NothingBorne
    <3> QED
      BY <3>1, <3>5, NoGainPosted
  <2>3. ASSUME NEW u \in Users, NEW amount \in BitAmounts, Recycle(k, u, amount)
        PROVE  ReversalNeverGains'
    <3>1. PICK x : Posted(x) /\ x.type = "recycle"
      BY <2>3, RecycleShape
    <3> QED
      BY <3>1, NoGainPosted
  <2> QED
    BY <1>2, <2>1, <2>2, <2>3 DEF TransferNext
<1>3. ASSUME NEW k \in Keys \ UsedKeys, CashoutNext(k) PROVE ReversalNeverGains'
  <2>1. ASSUME NEW c \in Cashouts, NEW u \in Users, NEW p \in Projects \cup {None}, NEW amount \in BitAmounts,
               RequestCashout(k, c, u, p, amount)
        PROVE  ReversalNeverGains'
    <3>1. PICK x : Posted(x) /\ x.type = "cashout_request"
      BY <2>1, RequestCashoutShape
    <3> QED
      BY <3>1, NoGainPosted
  <2>2. ASSUME NEW c \in Cashouts, NEW p \in Providers, NEW ref \in Refs, ApproveCashout(k, c, p, ref)
        PROVE  ReversalNeverGains'
    <3>1. PICK x : Posted(x) /\ x.type = "cashout_paid"
      BY <2>2, ApproveCashoutShape
    <3> QED
      BY <3>1, NoGainPosted
  <2>3. ASSUME NEW c \in Cashouts, DenyCashout(k, c) PROVE ReversalNeverGains'
    <3>1. PICK x : Posted(x) /\ x.type = "cashout_denied"
      BY <2>3, DenyCashoutShape
    <3> QED
      BY <3>1, NoGainPosted
  <2> QED
    BY <1>3, <2>1, <2>2, <2>3 DEF CashoutNext
<1>4. ASSUME NEW k \in Keys \ UsedKeys, ReversalNext(k) PROVE ReversalNeverGains'
  <2>1. ASSUME NEW ref \in Refs \cup {None}, NEW origRef \in Refs, NEW kind \in {"refund", "chargeback"},
               NEW mode \in {"cumulative", "cents", "rest"}, NEW n \in CentAmounts,
               ReverseReceipt(k, ref, origRef, kind, mode, n)
        PROVE  ReversalNeverGains'
    <3>0. PICK orig \in txns : \E x : Reverses(orig, x)
      BY <2>1, ReverseReceiptShape
    <3>1. PICK x :
             /\ Posted(x)
             /\ orig.type \in {"purchase", "donation"}
             /\ orig.to \in Users /\ orig.provider \in Providers
             /\ x.type \in {"refund", "chargeback"} /\ x.provider = orig.provider /\ x.cents \in Nat \ {0}
             /\ orig.type = "purchase" => TakenFor(x.entries, orig, x.cents)
             /\ orig.type = "donation" =>
                  \E bearer \in {Loss, Refunds} : Borne(x.entries, orig.provider, x.cents, bearer)
      BY <3>0 DEF Reverses
    <3>2. CASE orig.type = "purchase"
      <4>1. ValueCents(orig.bits) =< orig.cents
        BY <3>2, BooksSay DEF StoryInv, LedgerInv, TypeOK
      <4>2. x.entries[Loss] =< 0 /\ x.entries[Refunds] =< 0
        BY <3>1, <3>2, <4>1, ReversalLaw
      <4> QED
        BY <3>1, <4>2, NoGainPosted
    <3>3. CASE orig.type = "donation"
      <4>1. PICK bearer \in {Loss, Refunds} : Borne(x.entries, orig.provider, x.cents, bearer)
        BY <3>1, <3>3
      <4>2. \A a \in Accounts :
              x.entries[a] = (IF a = Clearing(orig.provider) THEN x.cents ELSE 0)
                               + (IF a = bearer THEN -x.cents ELSE 0)
        BY <4>1 DEF Borne
      <4>3. /\ Loss \in Accounts /\ Refunds \in Accounts
            /\ Loss # Clearing(orig.provider) /\ Refunds # Clearing(orig.provider)
        BY AccountTypes, Apart
      <4>4. x.entries[Loss] =< 0 /\ x.entries[Refunds] =< 0
        BY <3>1, <4>2, <4>3
      <4> QED
        BY <3>1, <4>4, NoGainPosted
    <3> QED
      BY <3>1, <3>2, <3>3
  <2> QED
    BY <1>4, <2>1 DEF ReversalNext
<1>5. ASSUME NEW k \in Keys \ UsedKeys, NEW from \in Adjustable, NEW to \in Adjustable,
             NEW amount \in BitAmounts, Adjust(k, from, to, amount)
      PROVE  ReversalNeverGains'
  <2>1. PICK x : Posted(x) /\ x.type = "adjustment"
    BY <1>5, AdjustShape
  <2> QED
    BY <2>1, NoGainPosted
<1>6. ASSUME txns' = txns PROVE ReversalNeverGains'
  BY <1>6 DEF ReversalNeverGains
<1> QED
  BY <1>1, <1>2, <1>3, <1>4, <1>5, <1>6 DEF Next, CreateIntent, FailIntent, Tick, vars

\* At the default rate reversing a receipt never books a gain, however the refund is cut:
\* what leaves the value account is covered by the cents that go back.
THEOREM NoGainFromReversal ==
    ASSUME BitsPerUsd = 100
    PROVE  Spec => []ReversalNeverGains
<1>1. Init => ReversalNeverGains
  BY DEF Init, LedgerInit, ReversalNeverGains
<1>2. LedgerInv /\ StoryInv /\ ReversalNeverGains /\ [Next]_vars => ReversalNeverGains'
  BY NoGainStep
<1> QED
  BY <1>1, <1>2, StoryInvariant, PTL DEF Spec

----------------------------------------------------------------------------
(* The refinement of CashoutPromise.                                       *)

PhaseOf(f) == [c \in Cashouts |-> f[c].status]
WorthOf(f) == [c \in Cashouts |-> IF f[c] = NoCashout THEN 0 ELSE f[c].cents]
PaidNow(b) == [p \in Providers |-> b[PayoutClearing(p)]]

\* A step that leaves the rows and the payout accounts alone is a stutter of the promise.
LEMMA PromiseStays ==
    ASSUME cashouts' = cashouts, \A p \in Providers : balance'[PayoutClearing(p)] = balance[PayoutClearing(p)]
    PROVE  [Promise!Next]_(Promise!promiseVars)
<1>1. PaidNow(balance') = PaidNow(balance)
  BY DEF PaidNow
<1> QED
  BY <1>1 DEF Promise!promiseVars, PaidNow

\* A posting that leaves them alone.
LEMMA PromiseStill ==
    ASSUME LedgerInv, NEW x, Posted(x), PayoutsStill(x), cashouts' = cashouts
    PROVE  [Promise!Next]_(Promise!promiseVars)
<1>1. ASSUME NEW p \in Providers PROVE balance'[PayoutClearing(p)] = balance[PayoutClearing(p)]
  BY AccountTypes DEF Posted, PayoutsStill, LedgerInv, TypeOK, EntrySet
<1> QED
  BY <1>1, PromiseStays

\* A request asks for what the row says it is worth.
LEMMA PromiseRequest ==
    ASSUME LedgerInv, StoryInv, NEW k \in Keys, NEW c \in Cashouts, NEW u \in Users,
           NEW p \in Projects \cup {None}, NEW amount \in BitAmounts, RequestCashout(k, c, u, p, amount)
    PROVE  Promise!Next
<1> DEFINE source == IF p = None THEN Payable(u) ELSE ProjectPayable(p)
           row == [status |-> "requested", subject |-> u, project |-> p, bits |-> amount,
                   cents |-> ValueCents(amount), escrowUntil |-> now + EscrowDays,
                   requestTxn |-> k, settleTxn |-> None, payoutRef |-> None]
           worth == WorthOf(cashouts')
<1>1. PICK x : /\ Posted(x) /\ Moved(x, source, Pending(u), amount)
               /\ source \in SpendableAccounts
               /\ x.type = "cashout_request" /\ x.provider = None
               /\ cashouts[c] = NoCashout
               /\ cashouts' = [cashouts EXCEPT ![c] = row]
  BY RequestCashoutShape
<1>2. amount \in Nat /\ amount \in Int /\ x.type # "purchase"
  BY <1>1, VibesAssumption
<1>3. row.status = "requested" /\ row.cents = ValueCents(amount) /\ row # NoCashout /\ row.cents \in Nat
  BY <1>2, ValueNat DEF NoCashout
<1> HIDE DEF row
<1>4. cashouts'[c] = row /\ \A d \in Cashouts \ {c} : cashouts'[d] = cashouts[d]
  BY <1>1 DEF LedgerInv, TypeOK
<1>5. PayoutsStill(x)
  <2>1. source \in HeldAccounts /\ Pending(u) \in HeldAccounts
    BY <1>1 DEF HeldAccounts
  <2> HIDE DEF source
  <2> QED
    BY <1>1, <1>2, <2>1, MovedLaw
<1>6. PaidNow(balance') = PaidNow(balance)
  <2>1. ASSUME NEW q \in Providers PROVE balance'[PayoutClearing(q)] = balance[PayoutClearing(q)]
    BY <1>1, <1>5, AccountTypes DEF Posted, PayoutsStill, LedgerInv, TypeOK, EntrySet
  <2> QED
    BY <2>1 DEF PaidNow
<1>7. PhaseOf(cashouts)[c] = "none" /\ PhaseOf(cashouts') = [PhaseOf(cashouts) EXCEPT ![c] = "requested"]
  <2>1. cashouts[c].status = "none"
    BY <1>1 DEF NoCashout
  <2>2. \A d \in Cashouts : cashouts'[d].status = IF d = c THEN "requested" ELSE cashouts[d].status
    BY <1>1, <1>3, <1>4
  <2> QED
    BY <2>1, <2>2 DEF PhaseOf
<1>8. WorthOf(cashouts')[c] \in Nat /\ WorthOf(cashouts') = [WorthOf(cashouts) EXCEPT ![c] = WorthOf(cashouts')[c]]
  BY <1>3, <1>4 DEF WorthOf
<1>9. Promise!Request(c)
  BY <1>6, <1>7, <1>8 DEF Promise!Request, PhaseOf, WorthOf, PaidNow
<1> QED
  BY <1>9 DEF Promise!Next

\* A denial is one of the promise, and pays nothing.
LEMMA PromiseDeny ==
    ASSUME LedgerInv, StoryInv, NEW k \in Keys \ UsedKeys, NEW c \in Cashouts, DenyCashout(k, c)
    PROVE  Promise!Next
<1> DEFINE old == cashouts[c]
           row == DeniedRow(old, k)
<1>1. PICK x : /\ Posted(x) /\ Moved(x, Pending(old.subject), Payable(old.subject), old.bits)
               /\ x.type = "cashout_denied" /\ x.provider = None
               /\ old \in CashoutRow /\ old.status = "requested"
               /\ cashouts' = [cashouts EXCEPT ![c] = row]
  BY DenyCashoutShape
<1>2. /\ old.subject \in Users /\ old.bits \in Int /\ x.type # "purchase" /\ old # NoCashout
      /\ row.status = "denied" /\ row.cents = old.cents /\ row # NoCashout
  <2>1. /\ old.subject \in Users /\ old.bits \in Int /\ x.type # "purchase"
        /\ row.status = "denied" /\ row.cents = old.cents
    BY <1>1, VibesAssumption DEF CashoutRow, DeniedRow
  <2> QED
    BY <1>1, <2>1 DEF NoCashout
<1> HIDE DEF row
<1>3. cashouts'[c] = row /\ \A d \in Cashouts \ {c} : cashouts'[d] = cashouts[d]
  BY <1>1 DEF LedgerInv, TypeOK
<1>4. PayoutsStill(x)
  <2>1. Pending(old.subject) \in HeldAccounts /\ Payable(old.subject) \in HeldAccounts
    BY <1>2 DEF HeldAccounts, SpendableAccounts
  <2> QED
    BY <1>1, <1>2, <2>1, MovedLaw
<1>5. PaidNow(balance') = PaidNow(balance)
  <2>1. ASSUME NEW q \in Providers PROVE balance'[PayoutClearing(q)] = balance[PayoutClearing(q)]
    BY <1>1, <1>4, AccountTypes DEF Posted, PayoutsStill, LedgerInv, TypeOK, EntrySet
  <2> QED
    BY <2>1 DEF PaidNow
<1>6. PhaseOf(cashouts)[c] = "requested" /\ PhaseOf(cashouts') = [PhaseOf(cashouts) EXCEPT ![c] = "denied"]
  <2>1. cashouts[c].status = "requested"
    BY <1>1
  <2>2. \A d \in Cashouts : cashouts'[d].status = IF d = c THEN "denied" ELSE cashouts[d].status
    BY <1>1, <1>2, <1>3
  <2> QED
    BY <2>1, <2>2 DEF PhaseOf
<1>7. WorthOf(cashouts') = WorthOf(cashouts)
  BY <1>2, <1>3 DEF WorthOf
<1>8. Promise!Deny(c)
  BY <1>5, <1>6, <1>7 DEF Promise!Deny, PhaseOf, WorthOf, PaidNow
<1> QED
  BY <1>8 DEF Promise!Next

\* An approval pays what was promised, through one provider.
LEMMA PromisePay ==
    ASSUME LedgerInv, StoryInv, NEW k \in Keys \ UsedKeys, NEW c \in Cashouts, NEW p \in Providers,
           NEW ref \in Refs, ApproveCashout(k, c, p, ref)
    PROVE  Promise!Next
<1> DEFINE old == cashouts[c]
           row == PaidRow(old, k, ref)
           b == old.bits
           n == old.cents
           u == old.subject
<1>1. PICK x : /\ Posted(x) /\ PaidOut(x.entries, u, p, b, n)
               /\ x.type = "cashout_paid"
               /\ old \in CashoutRow /\ old.status = "requested"
               /\ cashouts' = [cashouts EXCEPT ![c] = row]
  BY ApproveCashoutShape
<1>2. /\ u \in Users /\ b \in Nat /\ n \in Nat /\ old # NoCashout
      /\ row.status = "paid" /\ row.cents = n /\ row # NoCashout
  <2>1. u \in Users /\ b \in Nat /\ n \in Nat /\ row.status = "paid" /\ row.cents = n
    BY <1>1, VibesAssumption DEF CashoutRow, PaidRow
  <2> QED
    BY <1>1, <2>1 DEF NoCashout
<1> HIDE DEF row
<1>3. cashouts'[c] = row /\ \A d \in Cashouts \ {c} : cashouts'[d] = cashouts[d]
  BY <1>1 DEF LedgerInv, TypeOK
<1>4. n = ValueCents(b)
  BY <1>2 DEF StoryInv, RowsWorth
<1>5. WorthOf(cashouts)[c] = n
  BY <1>2 DEF WorthOf
<1>6. \A q \in Providers : x.entries[PayoutClearing(q)] = IF q = p THEN n ELSE 0
  <2> HIDE DEF u, b, n
  <2> QED
    BY <1>1, <1>2, <1>4, PaidOutLaw
<1>7. PaidNow(balance') = [PaidNow(balance) EXCEPT ![p] = @ + WorthOf(cashouts)[c]]
  <2>1. ASSUME NEW q \in Providers
        PROVE  balance'[PayoutClearing(q)] = balance[PayoutClearing(q)] + (IF q = p THEN n ELSE 0)
    BY <1>1, <1>6, AccountTypes DEF Posted
  <2>2. ASSUME NEW q \in Providers PROVE balance[PayoutClearing(q)] \in Int
    BY AccountTypes DEF LedgerInv, TypeOK, EntrySet
  <2> DEFINE worth == WorthOf(cashouts)[c]
  <2>3. worth = n
    BY <1>5
  <2> HIDE DEF n, worth
  <2>4. ASSUME NEW q \in Providers
        PROVE  PaidNow(balance')[q] = IF q = p THEN PaidNow(balance)[q] + worth ELSE PaidNow(balance)[q]
    BY <2>1, <2>2, <2>3 DEF PaidNow
  <2>5. PaidNow(balance') = [PaidNow(balance) EXCEPT ![p] = @ + worth]
    BY <2>4 DEF PaidNow
  <2> QED
    BY <2>5 DEF worth
<1>8. PhaseOf(cashouts)[c] = "requested" /\ PhaseOf(cashouts') = [PhaseOf(cashouts) EXCEPT ![c] = "paid"]
  <2>1. cashouts[c].status = "requested"
    BY <1>1
  <2>2. \A d \in Cashouts : cashouts'[d].status = IF d = c THEN "paid" ELSE cashouts[d].status
    BY <1>1, <1>2, <1>3
  <2> QED
    BY <2>1, <2>2 DEF PhaseOf
<1>9. WorthOf(cashouts') = WorthOf(cashouts)
  BY <1>2, <1>3 DEF WorthOf
<1>10. Promise!Pay(c, p)
  BY <1>7, <1>8, <1>9 DEF Promise!Pay, PhaseOf, WorthOf, PaidNow
<1> QED
  BY <1>10 DEF Promise!Next

\* Every step is one of the promise or changes nothing it sees, as long as the accounts
\* payouts leave by are not adjusted.
LEMMA PromiseNext ==
    ASSUME \A p \in Providers : PayoutClearing(p) \notin Adjustable,
           LedgerInv, StoryInv, [Next]_vars
    PROVE  [Promise!Next]_(Promise!promiseVars)
<1>1. ASSUME NEW k \in Keys \ UsedKeys, PurchaseNext(k) PROVE [Promise!Next]_(Promise!promiseVars)
  <2>1. ASSUME NEW ref \in Refs, NEW p \in Providers, NEW paid \in CentAmounts,
               NEW i \in Intents \cup {None}, NEW u \in Users \cup {None}, NEW b \in BitAmounts \cup {None},
               SettlePurchase(k, ref, p, i, u, paid, b)
        PROVE  [Promise!Next]_(Promise!promiseVars)
    <3>1. PICK x : /\ Posted(x) /\ Received(x.entries, p, x.cents, x.bits, Credit(x.to))
                   /\ x.type = "purchase" /\ x.provider = p /\ x.receipt # None /\ x.to \in Users
                   /\ x.cents \in Nat \ {0} /\ x.bits \in Nat /\ ValueCents(x.bits) =< x.cents
                   /\ cashouts' = cashouts
      BY <2>1, SettlePurchaseShape
    <3>2. Credit(x.to) \in SpendableAccounts
      BY <3>1 DEF SpendableAccounts
    <3>3. PayoutsStill(x)
      BY <3>1, <3>2, ReceivedLaw
    <3> QED
      BY <3>1, <3>3, PromiseStill
  <2>2. ASSUME NEW ref \in Refs, NEW p \in Providers, NEW paid \in CentAmounts,
               NEW from \in Users \cup {None}, NEW to \in Users, TipFromReceipt(k, ref, p, from, to, paid)
        PROVE  [Promise!Next]_(Promise!promiseVars)
    <3>1. PICK x : /\ Posted(x) /\ Received(x.entries, p, x.cents, x.bits, Payable(to))
                   /\ x.type = "donation" /\ x.provider = p /\ x.receipt # None
                   /\ x.cents \in Nat \ {0} /\ x.bits \in Nat
                   /\ cashouts' = cashouts
      BY <2>2, TipShape
    <3>2. Payable(to) \in SpendableAccounts
      BY DEF SpendableAccounts
    <3>3. PayoutsStill(x)
      BY <3>1, <3>2, ReceivedLaw
    <3> QED
      BY <3>1, <3>3, PromiseStill
  <2> QED
    BY <1>1, <2>1, <2>2 DEF PurchaseNext
<1>2. ASSUME NEW k \in Keys \ UsedKeys, TransferNext(k) PROVE [Promise!Next]_(Promise!promiseVars)
  <2>1. ASSUME NEW x, Posted(x), NEW a \in HeldAccounts, NEW b \in HeldAccounts, NEW n \in Int, Moved(x, a, b, n),
               x.provider = None, x.type # "purchase", cashouts' = cashouts
        PROVE  [Promise!Next]_(Promise!promiseVars)
    <3>1. PayoutsStill(x)
      BY <2>1, MovedLaw
    <3> QED
      BY <2>1, <3>1, PromiseStill
  <2>2. \A u \in Users : Credit(u) \in HeldAccounts /\ Payable(u) \in HeldAccounts
    BY DEF HeldAccounts, SpendableAccounts
  <2>3. ASSUME NEW from \in Users, NEW to \in Users, NEW amount \in BitAmounts, Transfer(k, from, to, amount)
        PROVE  [Promise!Next]_(Promise!promiseVars)
    <3>1. PICK x : /\ Posted(x) /\ Moved(x, Credit(from), Payable(to), amount)
                   /\ x.type = "donation" /\ x.provider = None /\ cashouts' = cashouts
      BY <2>3, TransferShape
    <3>2. amount \in Int /\ x.type # "purchase"
      BY <3>1, VibesAssumption
    <3> QED
      BY <2>1, <2>2, <3>1, <3>2
  <2>4. ASSUME NEW orig \in txns, NEW asked \in BitAmounts \cup {None}, RefundTransfer(k, orig, asked)
        PROVE  [Promise!Next]_(Promise!promiseVars)
    <3>1. PICK x : /\ Posted(x) /\ Moved(x, Payable(orig.to), Credit(orig.from), x.bits)
                   /\ x.type = "refund" /\ x.provider = None /\ x.bits \in Nat
                   /\ orig.from \in Users /\ orig.to \in Users /\ cashouts' = cashouts
      BY <2>4, RefundTransferShape
    <3>2. x.bits \in Int /\ x.type # "purchase"
      BY <3>1
    <3> QED
      BY <2>1, <2>2, <3>1, <3>2
  <2>5. ASSUME NEW u \in Users, NEW amount \in BitAmounts, Recycle(k, u, amount)
        PROVE  [Promise!Next]_(Promise!promiseVars)
    <3>1. PICK x : /\ Posted(x) /\ Moved(x, Payable(u), Credit(u), amount)
                   /\ x.type = "recycle" /\ x.provider = None /\ cashouts' = cashouts
      BY <2>5, RecycleShape
    <3>2. amount \in Int /\ x.type # "purchase"
      BY <3>1, VibesAssumption
    <3> QED
      BY <2>1, <2>2, <3>1, <3>2
  <2> QED
    BY <1>2, <2>3, <2>4, <2>5 DEF TransferNext
<1>3. ASSUME NEW k \in Keys \ UsedKeys, CashoutNext(k) PROVE [Promise!Next]_(Promise!promiseVars)
  BY <1>3, PromiseRequest, PromisePay, PromiseDeny DEF CashoutNext
<1>4. ASSUME NEW k \in Keys \ UsedKeys, ReversalNext(k) PROVE [Promise!Next]_(Promise!promiseVars)
  <2>1. ASSUME NEW ref \in Refs \cup {None}, NEW origRef \in Refs, NEW kind \in {"refund", "chargeback"},
               NEW mode \in {"cumulative", "cents", "rest"}, NEW n \in CentAmounts,
               ReverseReceipt(k, ref, origRef, kind, mode, n)
        PROVE  [Promise!Next]_(Promise!promiseVars)
    <3>0. PICK orig \in txns : \E x : Reverses(orig, x)
      BY <2>1, ReverseReceiptShape
    <3>1. PICK x :
             /\ Posted(x)
             /\ orig.type \in {"purchase", "donation"}
             /\ orig.to \in Users /\ orig.provider \in Providers
             /\ x.type \in {"refund", "chargeback"} /\ x.provider = orig.provider /\ x.cents \in Nat \ {0}
             /\ orig.type = "purchase" => TakenFor(x.entries, orig, x.cents)
             /\ orig.type = "donation" =>
                  \E bearer \in {Loss, Refunds} : Borne(x.entries, orig.provider, x.cents, bearer)
             /\ cashouts' = cashouts
      BY <3>0 DEF Reverses
    <3>2. \/ TakenFor(x.entries, orig, x.cents)
          \/ \E bearer \in {Loss, Refunds} : Borne(x.entries, orig.provider, x.cents, bearer)
      BY <3>1
    <3>3. PayoutsStill(x)
      BY <3>1, <3>2, ReversalLaw
    <3> QED
      BY <3>1, <3>3, PromiseStill
  <2> QED
    BY <1>4, <2>1 DEF ReversalNext
<1>5. ASSUME NEW k \in Keys \ UsedKeys, NEW from \in Adjustable, NEW to \in Adjustable,
             NEW amount \in BitAmounts, Adjust(k, from, to, amount)
      PROVE  [Promise!Next]_(Promise!promiseVars)
  <2>1. PICK x : Posted(x) /\ Moved(x, from, to, amount) /\ cashouts' = cashouts
    BY <1>5, AdjustShape
  <2>2. PayoutsStill(x)
    BY <2>1, AccountTypes DEF PayoutsStill, Moved
  <2> QED
    BY <2>1, <2>2, PromiseStill
<1>6. ASSUME cashouts' = cashouts, balance' = balance PROVE [Promise!Next]_(Promise!promiseVars)
  BY <1>6, PromiseStays
<1> QED
  BY <1>1, <1>2, <1>3, <1>4, <1>5, <1>6 DEF Next, CreateIntent, FailIntent, Tick, vars

\* The ledger implements the promise a creator may rely on (CashoutPromise), as long as
\* nobody adjusts the accounts payouts leave by: a cashout is asked for once, decided once,
\* and paid exactly what it was worth when it was requested.
THEOREM CashoutPromiseKept ==
    ASSUME \A p \in Providers : PayoutClearing(p) \notin Adjustable
    PROVE  Spec => KeepsPromise
<1>1. Init => Promise!Init
  BY AccountTypes DEF Init, LedgerInit, NoEntries, NoCashout, Promise!Init
<1>2. LedgerInv /\ StoryInv /\ [Next]_vars => [Promise!Next]_(Promise!promiseVars)
  BY PromiseNext
<1> QED
  BY <1>1, <1>2, StoryInvariant, PTL DEF Spec, KeepsPromise, Promise!Spec

=============================================================================
