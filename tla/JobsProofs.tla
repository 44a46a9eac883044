------------------------------ MODULE JobsProofs ------------------------------
(***************************************************************************)
(* Proofs about the scheduled jobs: the import of Live's money state       *)
(* (LiveImport), for any users, rows, orders and subscriptions of Live and *)
(* any number of runs, and metering (Metering, Pricing), for any readings, *)
(* cards, allowances, budgets and number of sweeps.                        *)
(*                                                                         *)
(* The import's invariant says what the last run that committed has left,  *)
(* in terms of the snapshot it read: the rows it had are replayed, its     *)
(* orders' decisions are followed, the people it could not name have a     *)
(* hold, and the accounts of whoever it showed are opened at Live's        *)
(* columns.  A step of Billing moves none of these, and the next run finds *)
(* in its snapshot at least the rows of the last.                          *)
(*                                                                         *)
(* Metering's invariant says of each account, each allowance and each      *)
(* budget's window what it is in terms of the rated readings; a rating     *)
(* moves all of them by the same charge.                                   *)
(***************************************************************************)
EXTENDS LiveImport, Metering, MoneyLemmas, SequenceTheorems

----------------------------------------------------------------------------
(* The import.                                                             *)

LiveSubRow == [state : {"active", "canceled"}, end : Nat]
LiveState ==
    [credit : [LiveUsers -> Nat], payable : [LiveUsers -> Nat],
     rows : [LiveTxns -> {"none", "escrow", "completed", "refunded"}],
     orders : [Orders -> {"none", "pending", "credited", "failed"}],
     subs : [LiveSubs -> LiveSubRow \cup {Nothing}],
     connections : [Accounts -> LiveUsers \cup {NoUser}]]
RunRow == [state : {"read"}, only : BOOLEAN, live : LiveState, users : SUBSET LiveUsers]
DoneRow == [state : {"done"}, live : LiveState, users : SUBSET LiveUsers]
Sides == {"subject", "hold"}
IntentRow == [state : {"created", "expired", "failed", "settled"}, owner : Sides, here : BOOLEAN]
CashoutRow == [state : {"requested", "paid", "denied"}, owner : Sides]
SubRow == [state : {"active", "canceled", "expired"}, end : Nat, cover : Nat]
OwnerRow == [subject : LiveUsers, source : {"live-import", "admin"}]

ImportTypes ==
    /\ live \in LiveState /\ mapped \in SUBSET LiveUsers /\ era \in {"shadow", "billing"}
    /\ run \in RunRow \cup {Nothing} /\ lastRun \in DoneRow \cup {Nothing}
    /\ booked \in SUBSET LiveTxns
    /\ imported \in [ImportAccounts -> Int] /\ native \in [ImportAccounts -> Int]
    /\ intents \in [Orders -> IntentRow \cup {Nothing}]
    /\ cashouts \in [LiveTxns -> CashoutRow \cup {Nothing}]
    /\ holds \in [LiveUsers -> {"none", "held", "resolved"}]
    /\ subs \in [LiveSubs -> SubRow \cup {Nothing}]
    /\ owners \in [Accounts -> OwnerRow \cup {Nothing}]

\* The rows a snapshot of Live has; those in escrow are cashouts.
RowsIn(s) == {k \in LiveTxns : s.rows[k] # "none"}
Escrowed(s) == \A k \in LiveTxns : s.rows[k] = "escrow" => LiveTxnOf[k].type = "cashout"

\* What was replayed is in every snapshot since, and of the last one all was.
SnapshotsSound ==
    /\ Escrowed(live) /\ booked \subseteq RowsIn(live)
    /\ run # Nothing => /\ Escrowed(run.live) /\ booked \subseteq RowsIn(run.live)
                        /\ RowsIn(run.live) \subseteq RowsIn(live) /\ run.users \subseteq mapped
    /\ lastRun # Nothing => RowsIn(lastRun.live) \subseteq booked

\* A cashout came from a replayed row, and is its subject's if the last run knew one.
CashoutsSound ==
    \A k \in LiveTxns : cashouts[k] # Nothing =>
        /\ k \in booked
        /\ lastRun # Nothing /\ LiveTxnOf[k].from \in lastRun.users => cashouts[k].owner = "subject"

\* What Billing settles itself it settles after the cutover; intents follow what the
\* last run read, and from the cutover on Live's orders stand still.
SettledHere ==
    \A o \in Orders : intents[o] # Nothing /\ intents[o].here => era = "billing" /\ intents[o].state = "settled"
OrdersFollowed ==
    \A o \in Orders :
        /\ lastRun.live.orders[o] # "none" => intents[o] # Nothing
        /\ lastRun.live.orders[o] = "credited" => intents[o].state = "settled"
        /\ lastRun.live.orders[o] = "failed" => intents[o].state \in {"failed", "settled"}
OrdersStill ==
    /\ lastRun # Nothing /\ lastRun.live.orders = live.orders
    /\ run # Nothing => run.live.orders = live.orders
OrdersSound ==
    /\ SettledHere
    /\ lastRun # Nothing => OrdersFollowed
    /\ era = "billing" => OrdersStill
    /\ CreditedOnceAnywhere

\* Whom a snapshot shows; whom the last run showed and could not name has a hold.
Shown(s, u) ==
    \/ s.credit[u] # 0 \/ s.payable[u] # 0
    \/ RowsOf(s, u) \cup OrdersOf(s, u) # {} \/ SubsOf(s, u) # {}
HoldsSound ==
    lastRun # Nothing =>
        \A u \in LiveUsers : /\ u \in lastRun.users => holds[u] # "held"
                             /\ u \notin lastRun.users /\ Shown(lastRun.live, u) => holds[u] = "held"

\* The accounts of whoever was shown, or is held, stand at Live's columns.
OpeningsSound ==
    lastRun # Nothing =>
        \A u \in LiveUsers : Shown(lastRun.live, u) \/ holds[u] = "held" =>
            LET o == OwnerIn(lastRun.users, u)
            IN  /\ imported[Credit(u, o)] = lastRun.live.credit[u]
                /\ imported[Payable(u, o)] = lastRun.live.payable[u]

OwnersKnown == \A a \in Accounts : owners[a] = Nothing \/ owners[a].subject \in mapped

\* Cashouts asked for by a user, of their subject or their hold, and their bits.
AskedOf(C, u, o) ==
    {k \in LiveTxns : C[k].state = "requested" /\ C[k].owner = o /\ LiveTxnOf[k].from = u}
BitsIn(S) == SumFunctionOnSet([k \in S |-> LiveTxnOf[k].amount], S)
EscrowSound(I, N, C) ==
    \A u \in LiveUsers, o \in Sides : I[PendingOf(u, o)] + N[PendingOf(u, o)] = BitsIn(AskedOf(C, u, o))
EscrowIs == EscrowSound(imported, native, cashouts)

ImportIInv ==
    /\ ImportTypes
    /\ SnapshotsSound /\ CashoutsSound /\ OrdersSound /\ HoldsSound /\ OpeningsSound
    /\ EscrowIs /\ PeriodsEntitled /\ OwnersKnown

----------------------------------------------------------------------------
(* Types and accounts.                                                     *)

\* Nothing is no row of any table.
LEMMA NothingLaw ==
    /\ Nothing \notin RunRow /\ Nothing \notin DoneRow /\ Nothing \notin LiveSubRow
    /\ Nothing \notin IntentRow /\ Nothing \notin CashoutRow /\ Nothing \notin SubRow
  BY DEF Nothing, RunRow, DoneRow, LiveSubRow, IntentRow, CashoutRow, SubRow

\* The accounts of a user.
LEMMA AccountsLaw ==
    ASSUME NEW u \in LiveUsers, NEW o \in Sides
    PROVE  Credit(u, o) \in ImportAccounts /\ Payable(u, o) \in ImportAccounts /\ PendingOf(u, o) \in ImportAccounts
  BY DEF Sides, ImportAccounts, Kinds, Credit, Payable, PendingOf

\* Whose account it is.
LEMMA OwnerLaw == \A U, u : OwnerIn(U, u) \in Sides
  BY DEF OwnerIn, Sides

\* What the report says of escrow is what the invariant says.
LEMMA EscrowMeans == EscrowBacked <=> EscrowIs
  BY DEF EscrowBacked, EscrowIs, EscrowSound, AskedOf, BitsIn, Held, Sides

\* Bits of a set of rows.
LEMMA BitsType ==
    ASSUME NEW S \in SUBSET LiveTxns
    PROVE  IsFiniteSet(S) /\ BitsIn(S) \in Int
<1> DEFINE f == [k \in S |-> LiveTxnOf[k].amount]
<1>1. IsFiniteSet(S)
  BY FS_Subset, ImportAssumption
<1>2. \A k \in S : f[k] \in Int
  BY ImportAssumption
<1> HIDE DEF f
<1>3. SumFunctionOnSet(f, S) \in Int
  BY <1>1, <1>2, SumType
<1> QED
  BY <1>1, <1>3 DEF BitsIn, f

\* Those of two sets of rows apart.
LEMMA BitsUnion ==
    ASSUME NEW S \in SUBSET LiveTxns, NEW T \in SUBSET LiveTxns, S \cap T = {}
    PROVE  BitsIn(S \cup T) = BitsIn(S) + BitsIn(T)
<1> DEFINE f == [k \in S \cup T |-> LiveTxnOf[k].amount]
           g == [k \in S |-> LiveTxnOf[k].amount]
           h == [k \in T |-> LiveTxnOf[k].amount]
<1>1. IsFiniteSet(S) /\ IsFiniteSet(T)
  BY BitsType
<1>2. /\ \A k \in S \cup T : f[k] \in Int
      /\ \A k \in S : f[k] \in Int /\ g[k] = f[k]
      /\ \A k \in T : f[k] \in Int /\ h[k] = f[k]
  BY ImportAssumption
<1> HIDE DEF f, g, h
<1>3. SumFunctionOnSet(f, S \cup T) = SumFunctionOnSet(f, S) + SumFunctionOnSet(f, T)
  BY <1>1, <1>2, SumUnion
<1>4. SumFunctionOnSet(g, S) = SumFunctionOnSet(f, S)
  BY <1>1, <1>2, SumSame
<1>5. SumFunctionOnSet(h, T) = SumFunctionOnSet(f, T)
  BY <1>1, <1>2, SumSame
<1> QED
  BY <1>3, <1>4, <1>5 DEF BitsIn, f, g, h

\* Those of one row, and of none.
LEMMA BitsOne ==
    ASSUME NEW k \in LiveTxns
    PROVE  BitsIn({k}) = LiveTxnOf[k].amount /\ BitsIn({}) = 0
<1> DEFINE f == [x \in {k} |-> LiveTxnOf[x].amount]
           e == [x \in {} |-> LiveTxnOf[x].amount]
<1>1. IsFiniteSet({}) /\ k \notin {} /\ {} \cup {k} = {k}
  BY FS_EmptySet
<1>2. \A y \in {} \cup {k} : f[y] \in Int
  BY ImportAssumption
<1>3. f[k] = LiveTxnOf[k].amount /\ f[k] \in Int
  BY ImportAssumption
<1> HIDE DEF f, e
<1>4. SumFunctionOnSet(f, {} \cup {k}) = SumFunctionOnSet(f, {}) + f[k]
  BY <1>1, <1>2, SumAdd
<1>5. SumFunctionOnSet(f, {}) = 0 /\ SumFunctionOnSet(e, {}) = 0
  BY SumEmpty
<1>6. SumFunctionOnSet(f, {k}) = f[k]
  BY <1>1, <1>3, <1>4, <1>5
<1>7. BitsIn({k}) = LiveTxnOf[k].amount
  BY <1>3, <1>6 DEF BitsIn, f
<1>8. BitsIn({}) = 0
  BY <1>5 DEF BitsIn, e
<1> QED
  BY <1>7, <1>8

\* Of no row.
LEMMA BitsNone == BitsIn({}) = 0
<1> DEFINE e == [x \in {} |-> LiveTxnOf[x].amount]
<1> HIDE DEF e
<1>1. SumFunctionOnSet(e, {}) = 0
  BY SumEmpty
<1> QED
  BY <1>1 DEF BitsIn, e

----------------------------------------------------------------------------
(* The first state.                                                        *)

\* Nothing is imported yet.
LEMMA ImportStarts == ImportInit => ImportIInv
<1> SUFFICES ASSUME ImportInit PROVE ImportIInv
  OBVIOUS
<1>1. ImportTypes
  <2>1. live \in LiveState
    BY DEF ImportInit, LiveState
  <2>2. imported \in [ImportAccounts -> Int] /\ native \in [ImportAccounts -> Int]
    BY DEF ImportInit
  <2> QED
    BY <2>1, <2>2 DEF ImportInit, ImportTypes
<1>2. SnapshotsSound /\ HoldsSound /\ OpeningsSound
  BY DEF ImportInit, SnapshotsSound, HoldsSound, OpeningsSound, Escrowed
<1>3. CashoutsSound /\ OrdersSound /\ PeriodsEntitled /\ OwnersKnown
  BY DEF ImportInit, CashoutsSound, OrdersSound, SettledHere, PeriodsEntitled, OwnersKnown, CreditedOnceAnywhere
<1>4. EscrowIs
  <2> SUFFICES ASSUME NEW u \in LiveUsers, NEW o \in Sides
               PROVE  imported[PendingOf(u, o)] + native[PendingOf(u, o)] = BitsIn(AskedOf(cashouts, u, o))
    BY DEF EscrowIs, EscrowSound
  <2>1. AskedOf(cashouts, u, o) = {}
    BY DEF AskedOf, ImportInit, Nothing
  <2>2. imported[PendingOf(u, o)] = 0 /\ native[PendingOf(u, o)] = 0
    BY AccountsLaw DEF ImportInit
  <2> QED
    BY <2>1, <2>2, BitsNone
<1> QED
  BY <1>1, <1>2, <1>3, <1>4 DEF ImportIInv

----------------------------------------------------------------------------
(* Live and the Network.                                                   *)

\* Live moves on: its rows stay, and from the cutover on so do its orders.
LEMMA LiveMoves ==
    ASSUME ImportIInv, live' \in LiveState, RowsIn(live) \subseteq RowsIn(live'), Escrowed(live'),
           era = "billing" => live'.orders = live.orders,
           UNCHANGED <<mapped, era, run, lastRun, runs, natives, billingVars>>
    PROVE  ImportIInv'
<1> USE DEF billingVars, ledgerVars
<1>1. ImportTypes'
  BY DEF ImportIInv, ImportTypes
<1>2. SnapshotsSound'
  BY DEF ImportIInv, SnapshotsSound
<1>3. CashoutsSound'
  BY DEF ImportIInv, CashoutsSound
<1>4. OrdersSound'
  <2>1. SettledHere'
    BY DEF ImportIInv, OrdersSound, SettledHere
  <2>2. (lastRun # Nothing => OrdersFollowed)'
    BY DEF ImportIInv, OrdersSound, OrdersFollowed
  <2>3. (era = "billing" => OrdersStill)'
    BY DEF ImportIInv, OrdersSound, OrdersStill
  <2>4. CreditedOnceAnywhere'
    BY DEF ImportIInv, OrdersSound, SettledHere, CreditedOnceAnywhere
  <2> QED
    BY <2>1, <2>2, <2>3, <2>4 DEF OrdersSound
<1>5. HoldsSound' /\ OpeningsSound'
  BY DEF ImportIInv, HoldsSound, OpeningsSound
<1>6. EscrowIs'
  BY DEF ImportIInv, EscrowIs
<1>7. PeriodsEntitled' /\ OwnersKnown'
  BY DEF ImportIInv, PeriodsEntitled, OwnersKnown
<1> QED
  BY <1>1, <1>2, <1>3, <1>4, <1>5, <1>6, <1>7 DEF ImportIInv

\* Columns stay columns while none is overdrawn.
LEMMA ColumnsType ==
    ASSUME live \in LiveState, NEW k \in LiveTxns, NEW kind \in {"credit", "payable"}
    PROVE  /\ Columns(kind, k) = [u \in LiveUsers |-> Columns(kind, k)[u]]
           /\ \A u \in LiveUsers : Columns(kind, k)[u] \in Int
<1>1. LiveTxnOf[k].amount \in Int
  BY ImportAssumption
<1>2. \A u \in LiveUsers : live[kind][u] \in Int
  BY DEF LiveState
<1>3. \A u \in LiveUsers : Gain(k, Gives(k), Takes(k), <<kind, u>>) \in Int
  BY <1>1 DEF Gain
<1> QED
  BY <1>2, <1>3 DEF Columns

\* A new row.
LEMMA LiveRowKeeps ==
    ASSUME ImportIInv, NEW k \in LiveTxns, NEW status \in {"escrow", "completed"}, LiveRow(k, status)
    PROVE  /\ live' \in LiveState /\ RowsIn(live) \subseteq RowsIn(live') /\ Escrowed(live')
           /\ (era = "billing" => live'.orders = live.orders)
<1>1. live \in LiveState /\ Escrowed(live)
  BY DEF ImportIInv, ImportTypes, SnapshotsSound
<1> DEFINE credit == Columns("credit", k)
           payable == Columns("payable", k)
           orders == [o \in Orders |-> IF o = k THEN "credited" ELSE live.orders[o]]
<1>2. /\ live' = [live EXCEPT !.rows[k] = status, !.credit = credit, !.payable = payable, !.orders = orders]
      /\ \A u \in LiveUsers : credit[u] >= 0 /\ payable[u] >= 0
      /\ era = "shadow" /\ (status = "escrow" => LiveTxnOf[k].type = "cashout")
  BY DEF LiveRow
<1>3. credit \in [LiveUsers -> Nat] /\ payable \in [LiveUsers -> Nat]
  <2>1. /\ credit = [u \in LiveUsers |-> credit[u]] /\ payable = [u \in LiveUsers |-> payable[u]]
        /\ \A u \in LiveUsers : credit[u] \in Int /\ payable[u] \in Int
    BY <1>1, ColumnsType
  <2> HIDE DEF credit, payable
  <2>2. \A u \in LiveUsers : credit[u] \in Nat /\ payable[u] \in Nat
    BY <1>2, <2>1
  <2> QED
    BY <2>1, <2>2
<1>4. orders \in [Orders -> {"none", "pending", "credited", "failed"}]
  BY <1>1 DEF LiveState
<1> HIDE DEF credit, payable, orders
<1>5. live' \in LiveState /\ live'.rows = [live.rows EXCEPT ![k] = status]
  BY <1>1, <1>2, <1>3, <1>4 DEF LiveState
<1>6. RowsIn(live) \subseteq RowsIn(live') /\ Escrowed(live')
  BY <1>1, <1>2, <1>5 DEF RowsIn, Escrowed, LiveState
<1> QED
  BY <1>2, <1>5, <1>6

\* Live decides an escrow of its own.
LEMMA LiveDecidesKeeps ==
    ASSUME ImportIInv, NEW k \in LiveTxns, NEW status \in {"completed", "refunded"}, LiveDecides(k, status)
    PROVE  /\ live' \in LiveState /\ RowsIn(live) \subseteq RowsIn(live') /\ Escrowed(live')
           /\ (era = "billing" => live'.orders = live.orders)
<1>1. live \in LiveState /\ Escrowed(live) /\ LiveTxnOf[k].amount \in Nat
  BY ImportAssumption DEF ImportIInv, ImportTypes, SnapshotsSound
<1> DEFINE from == LiveTxnOf[k].from
           back == IF status = "refunded" THEN LiveTxnOf[k].amount ELSE 0
<1>2. /\ live' = [live EXCEPT !.rows[k] = status, !.payable[from] = live.payable[from] + back]
      /\ era = "shadow"
  BY DEF LiveDecides
<1>3. back \in Nat
  BY <1>1
<1> HIDE DEF from, back
<1>4. [live.payable EXCEPT ![from] = live.payable[from] + back] \in [LiveUsers -> Nat]
  <2> DEFINE payable == live.payable
             sum == payable[from] + back
  <2>1. payable \in [LiveUsers -> Nat]
    BY <1>1 DEF LiveState
  <2>2. from \in LiveUsers => sum \in Nat
    BY <1>3, <2>1
  <2> HIDE DEF payable, sum
  <2>3. [payable EXCEPT ![from] = sum] \in [LiveUsers -> Nat]
    BY <2>1, <2>2
  <2> QED
    BY <2>3 DEF payable, sum
<1>5. live' \in LiveState /\ live'.rows = [live.rows EXCEPT ![k] = status]
  BY <1>1, <1>2, <1>4 DEF LiveState
<1>6. RowsIn(live) \subseteq RowsIn(live') /\ Escrowed(live')
  BY <1>1, <1>2, <1>5 DEF RowsIn, Escrowed, LiveState
<1> QED
  BY <1>2, <1>5, <1>6

\* Every move of Live keeps the invariant.
LEMMA LiveMovesOnKeeps == ASSUME ImportIInv, LiveMovesOn PROVE ImportIInv'
<1>1. live \in LiveState /\ Escrowed(live)
  BY DEF ImportIInv, ImportTypes, SnapshotsSound
<1>2. /\ live' \in LiveState /\ RowsIn(live) \subseteq RowsIn(live') /\ Escrowed(live')
      /\ (era = "billing" => live'.orders = live.orders)
  <2>1. CASE \E k \in LiveTxns : \E status \in {"escrow", "completed"} : LiveRow(k, status)
    BY <2>1, LiveRowKeeps
  <2>2. CASE \E k \in LiveTxns : \E status \in {"completed", "refunded"} : LiveDecides(k, status)
    BY <2>2, LiveDecidesKeeps
  <2>3. CASE \E o \in Orders : \E status \in {"pending", "failed"} : LiveOrder(o, status)
    BY <1>1, <2>3 DEF LiveOrder, LiveState, RowsIn, Escrowed
  <2> QED
    BY <2>1, <2>2, <2>3 DEF LiveMovesOn
<1> QED
  BY <1>2, LiveMoves DEF LiveMovesOn

\* So does a subscription,
LEMMA LiveSubscribesKeeps == ASSUME ImportIInv, LiveSubscribes PROVE ImportIInv'
<1>1. live \in LiveState /\ Escrowed(live)
  BY DEF ImportIInv, ImportTypes, SnapshotsSound
<1>2. PICK s \in LiveSubs : \E state \in {"active", "canceled"}, end \in Today..MaxEnd : LiveSub(s, state, end)
  BY DEF LiveSubscribes
<1>3. PICK state \in {"active", "canceled"}, end \in Today..MaxEnd : LiveSub(s, state, end)
  BY <1>2
<1>4. [state |-> state, end |-> end] \in LiveSubRow
  BY ImportAssumption DEF LiveSubRow
<1>5. live' = [live EXCEPT !.subs[s] = [state |-> state, end |-> end]]
  BY <1>3 DEF LiveSub
<1>6. live' \in LiveState /\ live'.rows = live.rows /\ live'.orders = live.orders
  BY <1>1, <1>4, <1>5 DEF LiveState
<1>7. RowsIn(live) \subseteq RowsIn(live') /\ Escrowed(live')
  BY <1>1, <1>6 DEF RowsIn, Escrowed
<1> QED
  BY <1>6, <1>7, LiveMoves DEF LiveSubscribes

\* and a connection.
LEMMA LiveReconnectsKeeps == ASSUME ImportIInv, LiveReconnects PROVE ImportIInv'
<1>1. live \in LiveState /\ Escrowed(live)
  BY DEF ImportIInv, ImportTypes, SnapshotsSound
<1>2. live' \in LiveState /\ live'.rows = live.rows /\ live'.orders = live.orders
  BY <1>1 DEF LiveReconnects, LiveConnects, LiveState
<1>3. RowsIn(live) \subseteq RowsIn(live') /\ Escrowed(live')
  BY <1>1, <1>2 DEF RowsIn, Escrowed
<1> QED
  BY <1>2, <1>3, LiveMoves DEF LiveReconnects

----------------------------------------------------------------------------
(* Steps that book nothing.                                                *)

\* Where the ledger's tables and what the last run read stay as they are, so does
\* what is said of them alone.
LEMMA LedgerStill ==
    ASSUME ImportIInv, UNCHANGED <<lastRun, ledgerVars, subs>>
    PROVE  HoldsSound' /\ OpeningsSound' /\ CashoutsSound' /\ EscrowIs' /\ PeriodsEntitled'
<1> USE DEF ledgerVars
<1>1. HoldsSound' /\ OpeningsSound'
  BY DEF ImportIInv, HoldsSound, OpeningsSound
<1>2. CashoutsSound' /\ EscrowIs' /\ PeriodsEntitled'
  BY DEF ImportIInv, CashoutsSound, EscrowIs, PeriodsEntitled
<1> QED
  BY <1>1, <1>2

\* And of intents, where Live and the era do too and a run in flight has Live's orders.
LEMMA OrdersAlone ==
    ASSUME ImportIInv, UNCHANGED <<live, era, lastRun, intents>>,
           era = "billing" /\ run' # Nothing => run'.live.orders = live.orders
    PROVE  OrdersSound'
<1>1. SettledHere'
  BY DEF ImportIInv, OrdersSound, SettledHere
<1>2. (lastRun # Nothing => OrdersFollowed)'
  BY DEF ImportIInv, OrdersSound, OrdersFollowed
<1>3. (era = "billing" => OrdersStill)'
  BY DEF ImportIInv, OrdersSound, OrdersStill
<1>4. CreditedOnceAnywhere'
  BY DEF ImportIInv, OrdersSound, CreditedOnceAnywhere
<1> QED
  BY <1>1, <1>2, <1>3, <1>4 DEF OrdersSound

\* The Network learns of a user.
LEMMA ResolveKeeps == ASSUME ImportIInv, NEW u \in LiveUsers, Resolve(u) PROVE ImportIInv'
<1>1. ImportTypes'
  BY DEF ImportIInv, ImportTypes, Resolve, billingVars, ledgerVars
<1>2. SnapshotsSound'
  BY DEF ImportIInv, SnapshotsSound, Resolve, billingVars, ledgerVars
<1>3. OwnersKnown'
  BY DEF ImportIInv, OwnersKnown, Resolve, billingVars
<1>4. OrdersSound'
  <2>1. era = "billing" /\ run' # Nothing => run'.live.orders = live.orders
    BY DEF ImportIInv, OrdersSound, OrdersStill, Resolve
  <2> QED
    BY <2>1, OrdersAlone DEF Resolve, billingVars, ledgerVars
<1> QED
  BY <1>1, <1>2, <1>3, <1>4, LedgerStill DEF ImportIInv, Resolve, billingVars

\* A run reads Live.
LEMMA StartRunKeeps == ASSUME ImportIInv, NEW only \in BOOLEAN, StartRun(only) PROVE ImportIInv'
<1>1. ImportTypes'
  <2>1. run' \in RunRow
    BY DEF ImportIInv, ImportTypes, StartRun, RunRow
  <2> QED
    BY <2>1 DEF ImportIInv, ImportTypes, StartRun, billingVars, ledgerVars
<1>2. SnapshotsSound'
  BY DEF ImportIInv, SnapshotsSound, StartRun, billingVars, ledgerVars
<1>3. OwnersKnown'
  BY DEF ImportIInv, OwnersKnown, StartRun, billingVars
<1>4. OrdersSound'
  <2>1. run'.live.orders = live.orders
    BY DEF StartRun
  <2> QED
    BY <2>1, OrdersAlone DEF StartRun, billingVars, ledgerVars
<1> QED
  BY <1>1, <1>2, <1>3, <1>4, LedgerStill DEF ImportIInv, StartRun, billingVars

\* A run is rolled back.
LEMMA RollBackKeeps == ASSUME ImportIInv, RollBack PROVE ImportIInv'
<1>1. ImportTypes'
  BY DEF ImportIInv, ImportTypes, RollBack, billingVars, ledgerVars
<1>2. SnapshotsSound'
  BY DEF ImportIInv, SnapshotsSound, RollBack, billingVars, ledgerVars
<1>3. OwnersKnown'
  BY DEF ImportIInv, OwnersKnown, RollBack, billingVars
<1>4. OrdersSound'
  BY OrdersAlone DEF RollBack, billingVars, ledgerVars
<1> QED
  BY <1>1, <1>2, <1>3, <1>4, LedgerStill DEF ImportIInv, RollBack, billingVars

\* The importer maps an account to somebody the Network knew.
LEMMA ImportOwnerLaw ==
    ASSUME ImportIInv, run.state = "read", NEW a \in Accounts
    PROVE  /\ ImportOwner(a) \in OwnerRow \cup {Nothing}
           /\ ImportOwner(a) = Nothing \/ ImportOwner(a).subject \in mapped
<1>1. run # Nothing /\ run \in RunRow /\ run.users \subseteq mapped /\ mapped \subseteq LiveUsers
  BY DEF ImportIInv, ImportTypes, SnapshotsSound, Nothing
<1>2. owners[a] \in OwnerRow \cup {Nothing} /\ (owners[a] = Nothing \/ owners[a].subject \in mapped)
  BY DEF ImportIInv, ImportTypes, OwnersKnown
<1>3. CASE run.live.connections[a] \in run.users /\ MayMap(a)
  <2>1. ImportOwner(a) = [subject |-> run.live.connections[a], source |-> "live-import"]
    BY <1>3 DEF ImportOwner
  <2> QED
    BY <1>1, <1>3, <2>1 DEF OwnerRow
<1>4. CASE ~(run.live.connections[a] \in run.users /\ MayMap(a))
  <2>1. ImportOwner(a) = owners[a]
    BY <1>4 DEF ImportOwner
  <2> QED
    BY <1>2, <2>1
<1> QED
  BY <1>3, <1>4

\* The accounts after a run.
LEMMA OwnersImported ==
    ASSUME ImportIInv, run.state = "read", mapped' = mapped, owners' = [a \in Accounts |-> ImportOwner(a)]
    PROVE  owners' \in [Accounts -> OwnerRow \cup {Nothing}] /\ OwnersKnown'
  BY ImportOwnerLaw DEF OwnersKnown

\* Importing the accounts alone keeps the invariant.
LEMMA ApplyAccountsKeeps == ASSUME ImportIInv, ApplyAccounts PROVE ImportIInv'
<1>1. owners' \in [Accounts -> OwnerRow \cup {Nothing}] /\ OwnersKnown'
  BY OwnersImported DEF ApplyAccounts
<1>2. ImportTypes'
  BY <1>1 DEF ImportIInv, ImportTypes, ApplyAccounts, ledgerVars
<1>3. SnapshotsSound'
  BY DEF ImportIInv, SnapshotsSound, ApplyAccounts, ledgerVars
<1>4. OrdersSound'
  BY OrdersAlone DEF ApplyAccounts, ledgerVars
<1> QED
  BY <1>1, <1>2, <1>3, <1>4, LedgerStill DEF ImportIInv, ApplyAccounts

\* An operator maps one.
LEMMA AdminMapKeeps ==
    ASSUME ImportIInv, NEW a \in Accounts, NEW u \in LiveUsers, AdminMap(a, u) PROVE ImportIInv'
<1>1. [subject |-> u, source |-> "admin"] \in OwnerRow
  BY DEF OwnerRow
<1>2. ImportTypes'
  BY <1>1 DEF ImportIInv, ImportTypes, AdminMap, ledgerVars
<1>3. SnapshotsSound'
  BY DEF ImportIInv, SnapshotsSound, AdminMap, ledgerVars
<1>4. OrdersSound'
  <2>1. era = "billing" /\ run' # Nothing => run'.live.orders = live.orders
    BY DEF ImportIInv, OrdersSound, OrdersStill, AdminMap
  <2> QED
    BY <2>1, OrdersAlone DEF AdminMap, ledgerVars
<1>5. OwnersKnown'
  BY DEF ImportIInv, ImportTypes, OwnersKnown, AdminMap
<1> QED
  BY <1>2, <1>3, <1>4, <1>5, LedgerStill DEF ImportIInv, AdminMap

\* The cutover: the last import had read what Live still shows.
LEMMA CutOverKeeps == ASSUME ImportIInv, CutOver PROVE ImportIInv'
<1>1. ImportTypes'
  BY DEF ImportIInv, ImportTypes, CutOver, billingVars, ledgerVars
<1>2. SnapshotsSound'
  BY DEF ImportIInv, SnapshotsSound, CutOver, billingVars, ledgerVars
<1>3. OwnersKnown'
  BY DEF ImportIInv, OwnersKnown, CutOver, billingVars
<1>4. OrdersSound'
  <2>1. lastRun.live.orders = live.orders
    <3>1. live \in LiveState
      BY DEF ImportIInv, ImportTypes
    <3>2. [live EXCEPT !.connections = lastRun.live.connections].orders = live.orders
      BY <3>1 DEF LiveState
    <3> QED
      BY <3>2 DEF CutOver
  <2>2. SettledHere'
    BY DEF ImportIInv, OrdersSound, SettledHere, CutOver, billingVars, ledgerVars
  <2>3. (lastRun # Nothing => OrdersFollowed)'
    BY DEF ImportIInv, OrdersSound, OrdersFollowed, CutOver, billingVars, ledgerVars
  <2>4. (era = "billing" => OrdersStill)'
    BY <2>1 DEF OrdersStill, CutOver
  <2>5. CreditedOnceAnywhere'
    BY DEF ImportIInv, OrdersSound, CreditedOnceAnywhere, CutOver, billingVars, ledgerVars
  <2> QED
    BY <2>2, <2>3, <2>4, <2>5 DEF OrdersSound
<1> QED
  BY <1>1, <1>2, <1>3, <1>4, LedgerStill DEF ImportIInv, CutOver, billingVars

----------------------------------------------------------------------------
(* What Billing does itself.                                               *)

\* An intent is settled that Live never credited.
LEMMA SettleIntentKeeps == ASSUME ImportIInv, NEW o \in Orders, SettleIntent(o) PROVE ImportIInv'
<1> DEFINE settled == [intents[o] EXCEPT !.state = "settled", !.here = TRUE]
           account == Credit(LiveTxnOf[o].to, intents[o].owner)
<1>1. /\ era = "billing" /\ intents[o] # Nothing /\ ~intents[o].here /\ intents[o].state # "settled"
      /\ intents' = [intents EXCEPT ![o] = settled]
  BY DEF SettleIntent, SettledInLive, ImportIInv, ImportTypes
<1>2. intents[o] \in IntentRow
  BY <1>1 DEF ImportIInv, ImportTypes
<1>3. settled \in IntentRow /\ settled # Nothing /\ settled.state = "settled" /\ settled.here = TRUE
  BY <1>2, NothingLaw DEF IntentRow
<1>4. /\ native' \in [ImportAccounts -> Int]
      /\ \A u \in LiveUsers, s \in Sides : native'[PendingOf(u, s)] = native[PendingOf(u, s)]
  <2>1. native' = [native EXCEPT ![account] = native[account] + LiveTxnOf[o].amount]
    BY DEF SettleIntent
  <2>2. native \in [ImportAccounts -> Int] /\ o \in LiveTxns /\ LiveTxnOf[o].amount \in Int
    BY ImportAssumption DEF ImportIInv, ImportTypes
  <2>3. \A u \in LiveUsers, s \in Sides : PendingOf(u, s) # account /\ PendingOf(u, s) \in ImportAccounts
    BY AccountsLaw DEF PendingOf, Credit
  <2> HIDE DEF account
  <2>4. account \in ImportAccounts => native[account] + LiveTxnOf[o].amount \in Int
    BY <2>2
  <2> QED
    BY <2>1, <2>2, <2>3, <2>4
<1> HIDE DEF settled, account
<1>5. ImportTypes'
  BY <1>1, <1>3, <1>4 DEF ImportIInv, ImportTypes, SettleIntent
<1>6. SnapshotsSound' /\ OwnersKnown'
  BY DEF ImportIInv, SnapshotsSound, OwnersKnown, SettleIntent
<1>7. CashoutsSound' /\ HoldsSound' /\ OpeningsSound' /\ PeriodsEntitled'
  BY DEF ImportIInv, CashoutsSound, HoldsSound, OpeningsSound, PeriodsEntitled, SettleIntent
<1>8. OrdersSound'
  <2>1. intents \in [Orders -> IntentRow \cup {Nothing}]
    BY DEF ImportIInv, ImportTypes
  <2>2. lastRun # Nothing /\ lastRun.live.orders = live.orders /\ OrdersFollowed
    BY <1>1 DEF ImportIInv, OrdersSound, OrdersStill
  <2>3. live.orders[o] # "credited"
    BY <1>1, <2>2 DEF OrdersFollowed
  <2>4. SettledHere'
    BY <1>1, <1>3, <2>1 DEF ImportIInv, OrdersSound, SettledHere, SettleIntent
  <2>5. OrdersFollowed'
    BY <1>1, <1>3, <2>1, <2>2 DEF OrdersFollowed, SettleIntent
  <2>6. OrdersStill'
    BY <1>1 DEF ImportIInv, OrdersSound, OrdersStill, SettleIntent
  <2>7. CreditedOnceAnywhere'
    BY <1>1, <1>3, <2>1, <2>3 DEF ImportIInv, OrdersSound, CreditedOnceAnywhere, SettleIntent
  <2> QED
    BY <2>4, <2>5, <2>6, <2>7 DEF OrdersSound
<1>9. EscrowIs'
  BY <1>4 DEF ImportIInv, EscrowIs, EscrowSound, SettleIntent
<1> QED
  BY <1>5, <1>6, <1>7, <1>8, <1>9 DEF ImportIInv

\* A transfer between people.
LEMMA NativeTransferKeeps ==
    ASSUME ImportIInv, NEW u \in LiveUsers, NEW v \in LiveUsers, NativeTransfer(u, v) PROVE ImportIInv'
<1> DEFINE from == Credit(u, "subject")
           to == Payable(v, "subject")
<1>1. native' = [native EXCEPT ![from] = native[from] - 1, ![to] = native[to] + 1]
  BY DEF NativeTransfer, Credit, Payable
<1>2. from \in ImportAccounts /\ to \in ImportAccounts /\ native \in [ImportAccounts -> Int]
  BY AccountsLaw DEF Sides, ImportIInv, ImportTypes
<1>3. \A w \in LiveUsers, s \in Sides : PendingOf(w, s) \notin {from, to} /\ PendingOf(w, s) \in ImportAccounts
  BY AccountsLaw DEF PendingOf, Credit, Payable
<1> HIDE DEF from, to
<1>4. /\ native' \in [ImportAccounts -> Int]
      /\ \A w \in LiveUsers, s \in Sides : native'[PendingOf(w, s)] = native[PendingOf(w, s)]
  BY <1>1, <1>2, <1>3
<1>5. ImportTypes'
  BY <1>4 DEF ImportIInv, ImportTypes, NativeTransfer
<1>6. SnapshotsSound' /\ OwnersKnown'
  BY DEF ImportIInv, SnapshotsSound, OwnersKnown, NativeTransfer
<1>7. CashoutsSound' /\ HoldsSound' /\ OpeningsSound' /\ PeriodsEntitled'
  BY DEF ImportIInv, CashoutsSound, HoldsSound, OpeningsSound, PeriodsEntitled, NativeTransfer
<1>8. OrdersSound'
  <2>1. era = "billing" /\ run' # Nothing => run'.live.orders = live.orders
    BY DEF ImportIInv, OrdersSound, OrdersStill, NativeTransfer
  <2> QED
    BY <2>1, OrdersAlone DEF NativeTransfer
<1>9. EscrowIs'
  BY <1>4 DEF ImportIInv, EscrowIs, EscrowSound, NativeTransfer
<1> QED
  BY <1>5, <1>6, <1>7, <1>8, <1>9 DEF ImportIInv

\* A renewal pays what it extends.
LEMMA RenewNativelyKeeps == ASSUME ImportIInv, NEW s \in LiveSubs, RenewNatively(s) PROVE ImportIInv'
<1> DEFINE end == subs[s].end + 1
           cover == LaterOf(subs[s].cover, end)
           renewed == [subs[s] EXCEPT !.end = end, !.cover = cover]
<1>1. subs[s] \in SubRow /\ subs \in [LiveSubs -> SubRow \cup {Nothing}]
  BY DEF ImportIInv, ImportTypes, RenewNatively
<1>2. subs' = [subs EXCEPT ![s] = renewed]
  BY <1>1 DEF RenewNatively, SubRow
<1>3. end \in Nat /\ cover \in Nat /\ cover >= end
  BY <1>1 DEF SubRow, LaterOf
<1> HIDE DEF end, cover
<1>4. renewed \in SubRow /\ renewed.cover >= renewed.end
  BY <1>1, <1>3 DEF SubRow
<1> HIDE DEF renewed
<1>5. ImportTypes'
  BY <1>1, <1>2, <1>4 DEF ImportIInv, ImportTypes, RenewNatively, ledgerVars
<1>6. PeriodsEntitled'
  BY <1>1, <1>2, <1>4 DEF ImportIInv, PeriodsEntitled
<1>7. SnapshotsSound' /\ OwnersKnown'
  BY DEF ImportIInv, SnapshotsSound, OwnersKnown, RenewNatively, ledgerVars
<1>8. CashoutsSound' /\ HoldsSound' /\ OpeningsSound' /\ EscrowIs'
  BY DEF ImportIInv, CashoutsSound, HoldsSound, OpeningsSound, EscrowIs, RenewNatively, ledgerVars
<1>9. OrdersSound'
  <2>1. era = "billing" /\ run' # Nothing => run'.live.orders = live.orders
    BY DEF ImportIInv, OrdersSound, OrdersStill, RenewNatively
  <2> QED
    BY <2>1, OrdersAlone DEF RenewNatively, ledgerVars
<1> QED
  BY <1>5, <1>6, <1>7, <1>8, <1>9 DEF ImportIInv

\* A decision takes the cashout out of what is asked for, and its bits out of escrow.
LEMMA DecideCashoutKeeps ==
    ASSUME ImportIInv, NEW k \in LiveTxns, NEW decision \in {"paid", "denied"}, DecideCashout(k, decision)
    PROVE  ImportIInv'
<1> DEFINE c == cashouts[k]
           decided == [c EXCEPT !.state = decision]
           from == LiveTxnOf[k].from
           amount == LiveTxnOf[k].amount
           escrow == PendingOf(from, c.owner)
           payable == Payable(from, c.owner)
           returned == IF decision = "denied" THEN amount ELSE 0
<1>1. /\ era = "billing" /\ c.state = "requested"
      /\ cashouts' = [cashouts EXCEPT ![k] = decided]
      /\ native' = [native EXCEPT ![escrow] = native[escrow] - amount, ![payable] = native[payable] + returned]
      /\ UNCHANGED <<live, mapped, era, run, lastRun, runs, natives, booked, imported, intents, holds, subs, owners>>
  BY DEF DecideCashout, PendingOf, Payable
<1>2. c \in CashoutRow /\ cashouts \in [LiveTxns -> CashoutRow \cup {Nothing}]
  BY <1>1 DEF ImportIInv, ImportTypes, Nothing
<1>3. decided \in CashoutRow /\ decided # Nothing /\ decided.state # "requested" /\ decided.owner = c.owner
  BY <1>2, NothingLaw DEF CashoutRow
<1>4. amount \in Int /\ returned \in Int /\ native \in [ImportAccounts -> Int]
  BY ImportAssumption DEF ImportIInv, ImportTypes
<1>5. c.owner \in Sides /\ escrow # payable
  BY <1>2 DEF CashoutRow, PendingOf, Payable
<1>6. /\ native' \in [ImportAccounts -> Int]
      /\ \A a \in ImportAccounts : native'[a] = IF a = escrow THEN native[a] - amount
                                                ELSE IF a = payable THEN native[a] + returned ELSE native[a]
  <2> HIDE DEF escrow, payable, amount, returned
  <2>1. escrow \in ImportAccounts => native[escrow] - amount \in Int
    BY <1>4
  <2>2. payable \in ImportAccounts => native[payable] + returned \in Int
    BY <1>4
  <2> QED
    BY <1>1, <1>4, <1>5, <2>1, <2>2
<1>7. ImportTypes'
  <2> HIDE DEF decided, c
  <2> QED
    BY <1>1, <1>2, <1>3, <1>6 DEF ImportIInv, ImportTypes
<1>8. SnapshotsSound' /\ OwnersKnown' /\ HoldsSound' /\ OpeningsSound' /\ PeriodsEntitled'
  BY <1>1 DEF ImportIInv, SnapshotsSound, OwnersKnown, HoldsSound, OpeningsSound, PeriodsEntitled
<1>9. CashoutsSound'
  <2> HIDE DEF decided
  <2> QED
    BY <1>1, <1>2, <1>3, NothingLaw DEF ImportIInv, CashoutsSound
<1>10. OrdersSound'
  <2>1. era = "billing" /\ run' # Nothing => run'.live.orders = live.orders
    BY <1>1 DEF ImportIInv, OrdersSound, OrdersStill
  <2> QED
    BY <1>1, <2>1, OrdersAlone
<1>11. EscrowIs'
  <2> SUFFICES ASSUME NEW u \in LiveUsers, NEW o \in Sides
               PROVE  imported'[PendingOf(u, o)] + native'[PendingOf(u, o)] = BitsIn(AskedOf(cashouts', u, o))
    BY DEF EscrowIs, EscrowSound
  <2> DEFINE before == AskedOf(cashouts, u, o)
             after == AskedOf(cashouts', u, o)
             P == PendingOf(u, o)
  <2>1. P \in ImportAccounts /\ P # payable /\ (P = escrow <=> from = u /\ c.owner = o)
    BY AccountsLaw DEF PendingOf, Payable
  <2>2. imported[P] + native[P] = BitsIn(before)
    BY DEF ImportIInv, EscrowIs, EscrowSound
  <2>3. before \in SUBSET LiveTxns /\ after \in SUBSET LiveTxns
    BY DEF AskedOf
  <2>4. CASE from = u /\ c.owner = o
    <3>1. before = after \cup {k} /\ after \cap {k} = {}
      BY <1>1, <1>2, <1>3, <2>4 DEF AskedOf
    <3>2. BitsIn(before) = BitsIn(after) + amount
      <4> HIDE DEF before, after
      <4> QED
        BY <2>3, <3>1, BitsUnion, BitsOne
    <3>3. native'[P] = native[P] - amount
      BY <1>6, <2>1, <2>4
    <3>4. native[P] \in Int /\ imported[P] \in Int /\ BitsIn(after) \in Int
      BY <2>1, <2>3, BitsType DEF ImportIInv, ImportTypes
    <3> HIDE DEF before, after, P, amount
    <3>5. imported'[P] + native'[P] = BitsIn(after)
      BY <1>1, <1>4, <2>2, <3>2, <3>3, <3>4
    <3> QED
      BY <3>5 DEF P, after
  <2>5. CASE ~(from = u /\ c.owner = o)
    <3>1. after = before
      BY <1>1, <1>2, <1>3, <2>5 DEF AskedOf
    <3>2. native'[P] = native[P]
      BY <1>6, <2>1, <2>5
    <3> HIDE DEF before, after, P
    <3>3. imported'[P] + native'[P] = BitsIn(after)
      BY <1>1, <2>2, <3>1, <3>2
    <3> QED
      BY <3>3 DEF P, after
  <2> QED
    BY <2>4, <2>5
<1> QED
  BY <1>7, <1>8, <1>9, <1>10, <1>11 DEF ImportIInv

----------------------------------------------------------------------------
(* A whole import.                                                         *)

\* What the run read.
LEMMA RunRead ==
    ASSUME ImportIInv, run.state = "read"
    PROVE  /\ run # Nothing /\ run.live \in LiveState /\ run.users \in SUBSET LiveUsers
           /\ run.users \subseteq mapped /\ Escrowed(run.live)
           /\ booked \subseteq RowsIn(run.live) /\ RowsIn(run.live) \subseteq RowsIn(live)
           /\ (era = "billing" => lastRun # Nothing /\ run.live.orders = live.orders)
<1>1. run # Nothing /\ run \in RunRow
  BY DEF ImportIInv, ImportTypes, Nothing
<1>2. run.live \in LiveState /\ run.users \in SUBSET LiveUsers
  BY <1>1 DEF RunRow
<1>3. /\ run.users \subseteq mapped /\ Escrowed(run.live)
      /\ booked \subseteq RowsIn(run.live) /\ RowsIn(run.live) \subseteq RowsIn(live)
  BY <1>1 DEF ImportIInv, SnapshotsSound
<1>4. era = "billing" => lastRun # Nothing /\ run.live.orders = live.orders
  BY <1>1 DEF ImportIInv, OrdersSound, OrdersStill
<1> QED
  BY <1>1, <1>2, <1>3, <1>4

\* The rows that are new are those the last runs had not replayed.
LEMMA NewRowsLaw ==
    ASSUME ImportIInv, run.state = "read"
    PROVE  /\ NewRows \in SUBSET LiveTxns /\ NewRows \cap booked = {}
           /\ booked \cup NewRows = RowsIn(run.live)
  BY RunRead DEF NewRows, RowsIn, ImportIInv, ImportTypes

\* Concerned are the people shown and those on hold.
LEMMA ConcernedLaw ==
    ASSUME NEW u \in LiveUsers
    PROVE  u \in Concerned <=> Shown(run.live, u) \/ holds[u] = "held"
  BY DEF Concerned, Shown

\* An order is followed to where Live has it.
LEMMA IntentsFollow ==
    ASSUME ImportIInv, run.state = "read", NEW stale \in BOOLEAN, ImportOrders(stale)
    PROVE  /\ intents' \in [Orders -> IntentRow \cup {Nothing}]
           /\ \A o \in Orders :
                /\ run.live.orders[o] # "none" => intents'[o] # Nothing
                /\ run.live.orders[o] = "credited" => intents'[o].state = "settled"
                /\ run.live.orders[o] = "failed" => intents'[o].state \in {"failed", "settled"}
                /\ intents'[o] # Nothing /\ intents'[o].here => intents'[o] = intents[o]
                /\ intents[o] # Nothing /\ intents[o].here => intents'[o] = intents[o]
<1>1. intents \in [Orders -> IntentRow \cup {Nothing}] /\ run.live \in LiveState
      /\ \A o \in Orders : intents[o] # Nothing /\ intents[o].here => intents[o].state = "settled"
  BY RunRead DEF ImportIInv, ImportTypes, OrdersSound, SettledHere
<1>2. SUFFICES ASSUME NEW o \in Orders
               PROVE  /\ intents'[o] \in IntentRow \cup {Nothing}
                      /\ run.live.orders[o] # "none" => intents'[o] # Nothing
                      /\ run.live.orders[o] = "credited" => intents'[o].state = "settled"
                      /\ run.live.orders[o] = "failed" => intents'[o].state \in {"failed", "settled"}
                      /\ intents'[o] # Nothing /\ intents'[o].here => intents'[o] = intents[o]
                      /\ intents[o] # Nothing /\ intents[o].here => intents'[o] = intents[o]
  BY DEF ImportOrders
<1> DEFINE status == run.live.orders[o]
<1>3. status \in {"none", "pending", "credited", "failed"}
  BY <1>1 DEF LiveState
<1>4. CASE status = "none"
  <2>1. intents'[o] = intents[o]
    BY <1>4 DEF ImportOrders
  <2> QED
    BY <1>1, <1>4, <2>1
<1>5. CASE status # "none" /\ intents[o] # Nothing
  <2>1. intents'[o] = Followed(o, status)
    BY <1>5 DEF ImportOrders
  <2>2. intents[o] \in IntentRow
    BY <1>1, <1>5
  <2>3. CASE intents[o].here \/ intents[o].state = "settled"
    <3>1. intents'[o] = intents[o] /\ intents[o].state = "settled"
      BY <1>1, <1>5, <2>1, <2>3 DEF Followed
    <3> QED
      BY <1>1, <1>5, <3>1
  <2>4. CASE ~(intents[o].here \/ intents[o].state = "settled")
    <3>1. CASE status = "credited"
      <4>1. intents'[o] = [intents[o] EXCEPT !.state = "settled"]
        BY <2>1, <2>4, <3>1 DEF Followed
      <4>2. intents'[o] \in IntentRow /\ intents'[o].state = "settled" /\ ~intents'[o].here
        BY <2>2, <2>4, <4>1 DEF IntentRow
      <4> QED
        BY <2>4, <3>1, <4>2, NothingLaw
    <3>2. CASE status = "failed" /\ intents[o].state \in {"created", "expired"}
      <4>1. intents'[o] = [intents[o] EXCEPT !.state = "failed"]
        BY <2>1, <2>4, <3>2 DEF Followed
      <4>2. intents'[o] \in IntentRow /\ intents'[o].state = "failed" /\ ~intents'[o].here
        BY <2>2, <2>4, <4>1 DEF IntentRow
      <4> QED
        BY <2>4, <3>2, <4>2, NothingLaw
    <3>3. CASE status # "credited" /\ ~(status = "failed" /\ intents[o].state \in {"created", "expired"})
      <4>1. intents'[o] = intents[o]
        BY <2>1, <2>4, <3>3 DEF Followed
      <4>2. status = "failed" => intents[o].state = "failed"
        BY <2>2, <2>4, <3>3 DEF IntentRow
      <4> QED
        BY <1>5, <2>2, <3>3, <4>1, <4>2
    <3> QED
      BY <3>1, <3>2, <3>3
  <2> QED
    BY <2>3, <2>4
<1>6. CASE status # "none" /\ intents[o] = Nothing
  <2> DEFINE owner == OwnerIn(run.users, LiveTxnOf[o].to)
  <2>1. intents'[o] = FreshIntent(status, stale, owner) /\ owner \in Sides
    BY <1>6, OwnerLaw DEF ImportOrders
  <2> HIDE DEF owner
  <2>2. /\ intents'[o] \in IntentRow /\ ~intents'[o].here
        /\ status = "credited" => intents'[o].state = "settled"
        /\ status = "failed" => intents'[o].state = "failed"
    BY <2>1 DEF FreshIntent, IntentRow
  <2> QED
    BY <1>6, <2>2, NothingLaw
<1> QED
  BY <1>4, <1>5, <1>6

\* What is said of orders after it.
LEMMA ApplyOrders ==
    ASSUME ImportIInv, ApplyRun
    PROVE  intents' \in [Orders -> IntentRow \cup {Nothing}] /\ OrdersSound'
<1>1. run.state = "read" /\ lastRun' = [state |-> "done", live |-> run.live, users |-> run.users]
      /\ run' = Nothing /\ live' = live /\ era' = era
  BY DEF ApplyRun
<1>2. PICK stale \in BOOLEAN : ImportOrders(stale)
  BY DEF ApplyRun
<1>3. /\ intents' \in [Orders -> IntentRow \cup {Nothing}]
      /\ \A o \in Orders :
           /\ run.live.orders[o] # "none" => intents'[o] # Nothing
           /\ run.live.orders[o] = "credited" => intents'[o].state = "settled"
           /\ run.live.orders[o] = "failed" => intents'[o].state \in {"failed", "settled"}
           /\ intents'[o] # Nothing /\ intents'[o].here => intents'[o] = intents[o]
  BY <1>1, <1>2, IntentsFollow
<1>4. lastRun' # Nothing /\ lastRun'.live = run.live
  BY <1>1 DEF Nothing
<1>5. OrdersFollowed'
  BY <1>3, <1>4 DEF OrdersFollowed
<1>6. (era = "billing" => OrdersStill)'
  BY <1>1, <1>4, RunRead DEF OrdersStill
<1>7. SettledHere'
  BY <1>1, <1>3 DEF ImportIInv, OrdersSound, SettledHere
<1>8. CreditedOnceAnywhere'
  BY <1>1, <1>3 DEF ImportIInv, OrdersSound, CreditedOnceAnywhere
<1> QED
  BY <1>3, <1>5, <1>6, <1>7, <1>8 DEF OrdersSound

\* Cashouts after it: those of new rows, and the others with whoever has them now.
LEMMA ApplyCashouts ==
    ASSUME ImportIInv, ApplyRun
    PROVE  /\ cashouts' \in [LiveTxns -> CashoutRow \cup {Nothing}]
           /\ CashoutsSound'
<1>1. /\ run.state = "read" /\ lastRun' = [state |-> "done", live |-> run.live, users |-> run.users]
      /\ booked' = booked \cup NewRows
      /\ cashouts' = [k \in LiveTxns |->
           IF k \in NewRows /\ LiveTxnOf[k].type = "cashout" /\ LiveTxnOf[k].amount > 0 THEN OpenCashout(k)
           ELSE HandedOver(cashouts[k], LiveTxnOf[k].from)]
  BY DEF ApplyRun, ImportHistory
<1>2. cashouts \in [LiveTxns -> CashoutRow \cup {Nothing}]
  BY DEF ImportIInv, ImportTypes
<1>3. ASSUME NEW k \in LiveTxns
      PROVE  /\ cashouts'[k] \in CashoutRow \cup {Nothing}
             /\ cashouts'[k] # Nothing =>
                   /\ k \in booked'
                   /\ LiveTxnOf[k].from \in run.users => cashouts'[k].owner = "subject"
  <2> DEFINE from == LiveTxnOf[k].from
  <2>1. CASE k \in NewRows /\ LiveTxnOf[k].type = "cashout" /\ LiveTxnOf[k].amount > 0
    <3> DEFINE owner == OwnerIn(run.users, from)
    <3>1. cashouts'[k] = OpenCashout(k) /\ owner \in Sides /\ (from \in run.users => owner = "subject")
      BY <1>1, <2>1, OwnerLaw DEF OwnerIn
    <3>2. cashouts'[k] \in CashoutRow /\ cashouts'[k].owner = owner
      BY <3>1 DEF OpenCashout, CashoutRow
    <3> QED
      BY <1>1, <2>1, <3>1, <3>2
  <2>2. CASE ~(k \in NewRows /\ LiveTxnOf[k].type = "cashout" /\ LiveTxnOf[k].amount > 0)
    <3>1. cashouts'[k] = HandedOver(cashouts[k], from)
      BY <1>1, <2>2
    <3>2. CASE cashouts[k] = Nothing
      BY <3>1, <3>2 DEF HandedOver
    <3>3. CASE cashouts[k] # Nothing
      <4>1. cashouts[k] \in CashoutRow /\ k \in booked
        BY <1>2, <3>3 DEF ImportIInv, CashoutsSound
      <4>2. CASE from \in Concerned \cap run.users
        <5>1. cashouts'[k] = [cashouts[k] EXCEPT !.owner = "subject"]
          BY <3>1, <3>3, <4>2 DEF HandedOver
        <5>2. cashouts'[k] \in CashoutRow /\ cashouts'[k].owner = "subject"
          BY <4>1, <5>1 DEF CashoutRow, Sides
        <5> QED
          BY <1>1, <4>1, <5>2
      <4>3. CASE from \notin Concerned \cap run.users
        <5>1. cashouts'[k] = cashouts[k]
          BY <3>1, <4>3 DEF HandedOver
        <5>2. from \notin run.users
          <6>1. SUFFICES ASSUME from \in run.users PROVE from \in Concerned
            BY <4>3
          <6>2. from \in LiveUsers /\ k \in RowsIn(run.live)
            BY <1>1, <4>1, <6>1, RunRead
          <6>3. k \in RowsOf(run.live, from)
            BY <6>2 DEF RowsOf, RowsIn
          <6> QED
            BY <6>2, <6>3, ConcernedLaw DEF Shown
        <5> QED
          BY <1>1, <4>1, <5>1, <5>2
      <4> QED
        BY <4>2, <4>3
    <3> QED
      BY <3>2, <3>3
  <2> QED
    BY <2>1, <2>2
<1>4. lastRun'.users = run.users
  BY <1>1
<1>5. cashouts' \in [LiveTxns -> CashoutRow \cup {Nothing}]
  BY <1>1, <1>3
<1>6. CashoutsSound'
  BY <1>3, <1>4 DEF CashoutsSound
<1> QED
  BY <1>5, <1>6

\* Holds after it.
LEMMA ApplyHolds ==
    ASSUME ImportIInv, ApplyRun
    PROVE  /\ holds' \in [LiveUsers -> {"none", "held", "resolved"}]
           /\ HoldsSound'
           /\ \A u \in LiveUsers : holds'[u] = "held" => u \in Concerned
<1>1. /\ run.state = "read" /\ lastRun' = [state |-> "done", live |-> run.live, users |-> run.users]
      /\ holds' = [u \in LiveUsers |->
           CASE u \in Concerned /\ u \notin run.users -> "held"
             [] u \in Concerned \cap run.users /\ holds[u] = "held" -> "resolved"
             [] OTHER -> holds[u]]
  BY DEF ApplyRun, ImportHistory
<1>2. holds \in [LiveUsers -> {"none", "held", "resolved"}]
  BY DEF ImportIInv, ImportTypes
<1>3. ASSUME NEW u \in LiveUsers
      PROVE  /\ holds'[u] \in {"none", "held", "resolved"}
             /\ u \in run.users => holds'[u] # "held"
             /\ u \notin run.users /\ Shown(run.live, u) => holds'[u] = "held"
             /\ holds'[u] = "held" => u \in Concerned
  <2>1. u \in Concerned <=> Shown(run.live, u) \/ holds[u] = "held"
    BY ConcernedLaw
  <2>2. CASE u \in Concerned /\ u \notin run.users
    <3>1. holds'[u] = "held"
      BY <1>1, <2>2
    <3> QED
      BY <2>2, <3>1
  <2>3. CASE u \in Concerned \cap run.users /\ holds[u] = "held"
    <3>1. holds'[u] = "resolved"
      BY <1>1, <2>3
    <3> QED
      BY <2>3, <3>1
  <2>4. CASE ~(u \in Concerned /\ u \notin run.users) /\ ~(u \in Concerned \cap run.users /\ holds[u] = "held")
    <3>1. holds'[u] = holds[u]
      BY <1>1, <2>4
    <3> QED
      BY <1>2, <2>1, <2>4, <3>1
  <2> QED
    BY <2>2, <2>3, <2>4
<1>4. lastRun'.users = run.users /\ lastRun'.live = run.live
  BY <1>1
<1>5. HoldsSound'
  BY <1>3, <1>4 DEF HoldsSound
<1>6. holds' \in [LiveUsers -> {"none", "held", "resolved"}]
  BY <1>1, <1>3
<1> QED
  BY <1>3, <1>5, <1>6

----------------------------------------------------------------------------
(* The balances a whole import leaves.                                     *)

\* What replaying puts in an account.
EntriesOn(a) == SumFunctionOnSet([k \in NewRows |-> EntryOn(k, a)], NewRows)

\* An integer.
LEMMA EntriesType ==
    ASSUME NEW a
    PROVE  EntriesOn(a) \in Int /\ \A k \in LiveTxns : EntryOn(k, a) \in Int
<1> DEFINE f == [k \in NewRows |-> EntryOn(k, a)]
<1>1. \A k \in LiveTxns : EntryOn(k, a) \in Int
  BY ImportAssumption DEF EntryOn, Gain
<1>2. NewRows \subseteq LiveTxns /\ IsFiniteSet(NewRows)
  BY FS_Subset, ImportAssumption DEF NewRows
<1>3. \A k \in NewRows : f[k] \in Int
  BY <1>1, <1>2
<1> HIDE DEF f
<1>4. SumFunctionOnSet(f, NewRows) \in Int
  BY <1>2, <1>3, SumType
<1> QED
  BY <1>1, <1>4 DEF EntriesOn, f

\* The balances, account by account.
Parked(u, kind) ==
    imported[<<kind, u, "hold">>] + EntriesOn(<<kind, u, "hold">>) + native[<<kind, u, "hold">>]
ReleasedTo(kind, u, o) ==
    LET before == imported[<<kind, u, o>>] + EntriesOn(<<kind, u, o>>)
    IN  IF u \notin Concerned \cap run.users THEN before
        ELSE IF o = "hold" THEN before - Parked(u, kind) ELSE before + Parked(u, kind)

\* Opened, released and replayed.
LEMMA BalancesLaw ==
    ASSUME ImportTypes, NEW kind \in Kinds, NEW u \in LiveUsers, NEW o \in Sides
    PROVE  /\ ReleasedTo(kind, u, o) \in Int
           /\ Balances[<<kind, u, o>>] = IF kind # "pending" /\ u \in Concerned /\ o = OwnerIn(run.users, u)
                                         THEN run.live[kind][u] ELSE ReleasedTo(kind, u, o)
<1> DEFINE a == <<kind, u, o>>
           hold == <<kind, u, "hold">>
           parked == Replayed[hold] + native[hold]
<1>1. a \in ImportAccounts /\ hold \in ImportAccounts /\ a[1] = kind /\ a[2] = u /\ a[3] = o
  BY DEF ImportAccounts, Sides
<1>2. Replayed[a] = imported[a] + EntriesOn(a) /\ Replayed[hold] = imported[hold] + EntriesOn(hold)
  BY <1>1 DEF Replayed, EntriesOn
<1>3. imported[a] \in Int /\ imported[hold] \in Int /\ native[hold] \in Int
  BY <1>1 DEF ImportTypes
<1>4. EntriesOn(a) \in Int /\ EntriesOn(hold) \in Int
  BY EntriesType
<1>5. ReleasedTo(kind, u, o) \in Int
  BY <1>3, <1>4 DEF ReleasedTo, Parked
<1>6. Released(Replayed)[a] = ReleasedTo(kind, u, o)
  <2>1. Released(Replayed)[a] = CASE u \notin Concerned \cap run.users -> Replayed[a]
                                  [] u \in Concerned \cap run.users /\ o = "hold" -> Replayed[a] - parked
                                  [] OTHER -> Replayed[a] + parked
    BY <1>1 DEF Released
  <2>2. parked = Parked(u, kind)
    BY <1>2 DEF Parked
  <2> HIDE DEF parked, a, hold
  <2>3. CASE u \notin Concerned \cap run.users
    BY <1>2, <2>1, <2>3 DEF ReleasedTo, a
  <2>4. CASE u \in Concerned \cap run.users /\ o = "hold"
    BY <1>2, <2>1, <2>2, <2>4 DEF ReleasedTo, a
  <2>5. CASE u \in Concerned \cap run.users /\ o # "hold"
    BY <1>2, <2>1, <2>2, <2>5 DEF ReleasedTo, a
  <2> QED
    BY <2>3, <2>4, <2>5
<1>7. Balances[a] = IF a[1] # "pending" /\ a[2] \in Concerned /\ a[3] = OwnerIn(run.users, a[2])
                    THEN run.live[a[1]][a[2]] ELSE Released(Replayed)[a]
  BY <1>1 DEF Balances, Opened
<1> QED
  BY <1>1, <1>5, <1>6, <1>7

\* They are integers.
LEMMA BalancesType ==
    ASSUME ImportIInv, run.state = "read"
    PROVE  Balances \in [ImportAccounts -> Int]
<1>1. ImportTypes /\ run.live \in LiveState
  BY RunRead DEF ImportIInv
<1>2. Balances = [a \in ImportAccounts |-> Balances[a]]
  BY DEF Balances, Opened
<1>3. SUFFICES ASSUME NEW a \in ImportAccounts PROVE Balances[a] \in Int
  BY <1>2
<1>4. PICK kind \in Kinds, u \in LiveUsers, o \in Sides : a = <<kind, u, o>>
  BY DEF ImportAccounts, Sides
<1>5. kind # "pending" => run.live[kind][u] \in Int
  <2>1. run.live.credit[u] \in Int /\ run.live.payable[u] \in Int
    BY <1>1 DEF LiveState
  <2> QED
    BY <2>1 DEF Kinds
<1>6. ReleasedTo(kind, u, o) \in Int
  BY <1>1, BalancesLaw
<1>7. Balances[<<kind, u, o>>] = IF kind # "pending" /\ u \in Concerned /\ o = OwnerIn(run.users, u)
                                 THEN run.live[kind][u] ELSE ReleasedTo(kind, u, o)
  BY <1>1, BalancesLaw
<1> QED
  BY <1>4, <1>5, <1>6, <1>7

\* Whoever is concerned is opened at Live's columns.
LEMMA ApplyOpenings == ASSUME ImportIInv, ApplyRun PROVE OpeningsSound'
<1>1. /\ run.state = "read" /\ lastRun' = [state |-> "done", live |-> run.live, users |-> run.users]
      /\ imported' = Balances
  BY DEF ApplyRun, ImportHistory
<1>2. lastRun'.users = run.users /\ lastRun'.live = run.live
  BY <1>1
<1>3. SUFFICES ASSUME NEW u \in LiveUsers, Shown(run.live, u) \/ holds'[u] = "held"
               PROVE  /\ imported'[Credit(u, OwnerIn(run.users, u))] = run.live.credit[u]
                      /\ imported'[Payable(u, OwnerIn(run.users, u))] = run.live.payable[u]
  BY <1>2 DEF OpeningsSound
<1>4. u \in Concerned
  BY <1>3, ApplyHolds, ConcernedLaw
<1>5. ImportTypes /\ OwnerIn(run.users, u) \in Sides /\ "credit" \in Kinds /\ "payable" \in Kinds
  BY OwnerLaw DEF ImportIInv, Kinds
<1>6. Balances[<<"credit", u, OwnerIn(run.users, u)>>] = run.live["credit"][u]
  BY <1>4, <1>5, BalancesLaw
<1>7. Balances[<<"payable", u, OwnerIn(run.users, u)>>] = run.live["payable"][u]
  BY <1>4, <1>5, BalancesLaw
<1> QED
  BY <1>1, <1>6, <1>7 DEF Credit, Payable

\* Rows that put bits in escrow, for whoever owns them now.
NewAsked(u, o) ==
    {k \in NewRows : /\ run.live.rows[k] = "escrow" /\ LiveTxnOf[k].amount > 0
                     /\ LiveTxnOf[k].from = u /\ OwnerIn(run.users, u) = o}

\* Replaying puts their bits in escrow, and nothing else there.
LEMMA EntriesInEscrow ==
    ASSUME ImportIInv, run.state = "read", NEW u \in LiveUsers, NEW o \in Sides
    PROVE  EntriesOn(PendingOf(u, o)) = BitsIn(NewAsked(u, o))
<1> DEFINE a == PendingOf(u, o)
           R == NewAsked(u, o)
           f == [k \in NewRows |-> EntryOn(k, a)]
           g == [k \in R |-> LiveTxnOf[k].amount]
<1>1. a[1] = "pending" /\ a[2] = u /\ a[3] = o
  BY DEF PendingOf
<1>2. NewRows \subseteq LiveTxns /\ IsFiniteSet(NewRows) /\ R \subseteq NewRows
  BY FS_Subset, ImportAssumption DEF NewRows, NewAsked
<1>3. ASSUME NEW k \in NewRows
      PROVE  EntryOn(k, a) = IF k \in R THEN LiveTxnOf[k].amount ELSE 0
  <2> DEFINE t == LiveTxnOf[k]
             status == run.live.rows[k]
             to == IF status = "escrow" THEN <<"pending", t.from>> ELSE Takes(k)
  <2>1. t.type \in LiveTypes /\ t.amount \in Nat
    BY <1>2, ImportAssumption
  <2>2. Gives(k) # <<"pending", u>> /\ Takes(k) # <<"pending", u>>
    BY <2>1 DEF Gives, Takes, Nowhere, LiveTypes
  <2>3. EntryOn(k, a) = IF status = "refunded" \/ o # OwnerIn(run.users, u) THEN 0
                        ELSE Gain(k, Gives(k), to, <<"pending", u>>)
    BY <1>1 DEF EntryOn
  <2>4. to = <<"pending", u>> <=> status = "escrow" /\ t.from = u
    BY <2>2
  <2>5. Gain(k, Gives(k), to, <<"pending", u>>) = IF to = <<"pending", u>> THEN t.amount ELSE 0
    BY <2>1, <2>2 DEF Gain
  <2>6. k \in R <=> status = "escrow" /\ t.amount > 0 /\ t.from = u /\ OwnerIn(run.users, u) = o
    BY DEF NewAsked
  <2> HIDE DEF a, R, to
  <2>7. CASE k \in R
    BY <2>1, <2>3, <2>4, <2>5, <2>6, <2>7
  <2>8. CASE k \notin R
    BY <2>1, <2>3, <2>4, <2>5, <2>6, <2>8
  <2> QED
    BY <2>7, <2>8
<1>4. /\ \A k \in R : f[k] \in Int /\ g[k] = f[k]
      /\ \A k \in NewRows \ R : f[k] = 0
  <2>1. \A k \in R : LiveTxnOf[k].amount \in Int
    BY <1>2, ImportAssumption
  <2> HIDE DEF a, R
  <2> QED
    BY <1>2, <1>3, <2>1
<1>5. IsFiniteSet(R)
  BY <1>2, FS_Subset
<1> HIDE DEF a, R, f, g
<1>6. SumFunctionOnSet(f, NewRows) = SumFunctionOnSet(f, R)
  BY <1>2, <1>4, SumSupport
<1>7. SumFunctionOnSet(g, R) = SumFunctionOnSet(f, R)
  BY <1>4, <1>5, SumSame
<1>8. EntriesOn(a) = SumFunctionOnSet(f, NewRows)
  BY DEF EntriesOn, f
<1>9. BitsIn(R) = SumFunctionOnSet(g, R)
  BY DEF BitsIn, g
<1> QED
  BY <1>6, <1>7, <1>8, <1>9 DEF a, R

\* What is asked for after it: what was, with whoever has it now, and the new rows.
LEMMA AskedAfter ==
    ASSUME ImportIInv, ApplyRun, NEW u \in LiveUsers, NEW o \in Sides
    PROVE  /\ u \in Concerned \cap run.users /\ o = "hold" => AskedOf(cashouts', u, o) = {}
           /\ u \in Concerned \cap run.users /\ o = "subject" =>
                 AskedOf(cashouts', u, o)
                   = (AskedOf(cashouts, u, "subject") \cup AskedOf(cashouts, u, "hold")) \cup NewAsked(u, o)
           /\ u \notin Concerned \cap run.users =>
                 AskedOf(cashouts', u, o) = AskedOf(cashouts, u, o) \cup NewAsked(u, o)
<1>1. /\ run.state = "read"
      /\ cashouts' = [k \in LiveTxns |->
           IF k \in NewRows /\ LiveTxnOf[k].type = "cashout" /\ LiveTxnOf[k].amount > 0 THEN OpenCashout(k)
           ELSE HandedOver(cashouts[k], LiveTxnOf[k].from)]
  BY DEF ApplyRun, ImportHistory
<1>2. /\ cashouts \in [LiveTxns -> CashoutRow \cup {Nothing}] /\ Escrowed(run.live)
      /\ \A k \in LiveTxns : cashouts[k] # Nothing => k \in booked
      /\ NewRows \cap booked = {} /\ NewRows \subseteq LiveTxns
  BY <1>1, RunRead, NewRowsLaw DEF ImportIInv, ImportTypes, CashoutsSound
<1> DEFINE moves == u \in Concerned \cap run.users
<1>3. ASSUME NEW k \in LiveTxns, LiveTxnOf[k].from = u
      PROVE  k \in AskedOf(cashouts', u, o) <=>
               \/ k \in NewAsked(u, o)
               \/ /\ cashouts[k] # Nothing /\ cashouts[k].state = "requested"
                  /\ IF moves THEN o = "subject" ELSE cashouts[k].owner = o
  <2>1. CASE k \in NewRows /\ LiveTxnOf[k].type = "cashout" /\ LiveTxnOf[k].amount > 0
    <3>1. cashouts'[k] = OpenCashout(k) /\ cashouts[k] = Nothing
      BY <1>1, <1>2, <2>1
    <3>2. cashouts'[k].owner = OwnerIn(run.users, u)
      BY <1>3, <3>1 DEF OpenCashout
    <3>3. cashouts'[k].state = "requested" <=> run.live.rows[k] = "escrow"
      BY <3>1 DEF OpenCashout
    <3> QED
      BY <1>3, <2>1, <3>1, <3>2, <3>3 DEF AskedOf, NewAsked
  <2>2. CASE ~(k \in NewRows /\ LiveTxnOf[k].type = "cashout" /\ LiveTxnOf[k].amount > 0)
    <3>1. cashouts'[k] = HandedOver(cashouts[k], u) /\ k \notin NewAsked(u, o)
      BY <1>1, <1>2, <1>3, <2>2 DEF NewAsked, Escrowed
    <3>2. CASE cashouts[k] = Nothing
      BY <3>1, <3>2 DEF HandedOver, AskedOf, Nothing
    <3>3. CASE cashouts[k] # Nothing /\ moves
      <4>1. cashouts'[k] = [cashouts[k] EXCEPT !.owner = "subject"] /\ cashouts[k] \in CashoutRow
        BY <1>2, <3>1, <3>3 DEF HandedOver
      <4>2. cashouts'[k].state = cashouts[k].state /\ cashouts'[k].owner = "subject"
        BY <4>1 DEF CashoutRow
      <4> QED
        BY <1>3, <3>1, <3>3, <4>2 DEF AskedOf
    <3>4. CASE cashouts[k] # Nothing /\ ~moves
      <4>1. cashouts'[k] = cashouts[k]
        BY <3>1, <3>4 DEF HandedOver
      <4> QED
        BY <1>3, <3>1, <3>4, <4>1 DEF AskedOf
    <3> QED
      BY <3>2, <3>3, <3>4
  <2> QED
    BY <2>1, <2>2
<1>4. \A k \in LiveTxns, s \in Sides :
        k \in AskedOf(cashouts, u, s) <=>
          cashouts[k] # Nothing /\ cashouts[k].state = "requested" /\ cashouts[k].owner = s /\ LiveTxnOf[k].from = u
  BY DEF AskedOf, Nothing
<1>5. \A k \in LiveTxns : cashouts[k] # Nothing => cashouts[k].owner \in Sides
  BY <1>2 DEF CashoutRow
<1>6. /\ AskedOf(cashouts', u, o) \subseteq LiveTxns /\ NewAsked(u, o) \subseteq LiveTxns
      /\ \A s \in Sides : AskedOf(cashouts, u, s) \subseteq LiveTxns
      /\ \A k \in AskedOf(cashouts', u, o) : LiveTxnOf[k].from = u
      /\ \A k \in NewAsked(u, o) : LiveTxnOf[k].from = u /\ OwnerIn(run.users, u) = o
  BY <1>2 DEF AskedOf, NewAsked
<1>7. moves => OwnerIn(run.users, u) = "subject"
  BY DEF OwnerIn
<1>8. "subject" \in Sides /\ "hold" \in Sides /\ \A s \in Sides : s = "subject" \/ s = "hold"
  BY DEF Sides
<1>9. CASE moves /\ o = "hold"
  <2>1. NewAsked(u, o) = {}
    BY <1>6, <1>7, <1>9
  <2> QED
    BY <1>3, <1>6, <1>9, <2>1
<1>10. CASE moves /\ o = "subject"
  <2>1. ASSUME NEW k
        PROVE  k \in AskedOf(cashouts', u, o) <=>
                 k \in (AskedOf(cashouts, u, "subject") \cup AskedOf(cashouts, u, "hold")) \cup NewAsked(u, o)
    BY <1>3, <1>4, <1>5, <1>6, <1>8, <1>10
  <2>2. AskedOf(cashouts', u, o)
          = (AskedOf(cashouts, u, "subject") \cup AskedOf(cashouts, u, "hold")) \cup NewAsked(u, o)
    BY <2>1
  <2> QED
    BY <1>10, <2>2
<1>11. CASE ~moves
  <2>1. ASSUME NEW k
        PROVE  k \in AskedOf(cashouts', u, o) <=> k \in AskedOf(cashouts, u, o) \cup NewAsked(u, o)
    BY <1>3, <1>4, <1>6, <1>11
  <2>2. AskedOf(cashouts', u, o) = AskedOf(cashouts, u, o) \cup NewAsked(u, o)
    BY <2>1
  <2> QED
    BY <1>11, <2>2
<1> QED
  BY <1>8, <1>9, <1>10, <1>11

\* Escrow stays what is asked for.
LEMMA ApplyEscrow == ASSUME ImportIInv, ApplyRun PROVE EscrowIs'
<1>1. run.state = "read" /\ imported' = Balances /\ native' = native
  BY DEF ApplyRun, ImportHistory
<1>2. ImportTypes /\ "pending" \in Kinds /\ "subject" \in Sides /\ "hold" \in Sides
  BY DEF ImportIInv, Kinds, Sides
<1> SUFFICES ASSUME NEW u \in LiveUsers, NEW o \in Sides
             PROVE  imported'[PendingOf(u, o)] + native'[PendingOf(u, o)] = BitsIn(AskedOf(cashouts', u, o))
  BY DEF EscrowIs, EscrowSound
<1> DEFINE pending(s) == imported[PendingOf(u, s)] + native[PendingOf(u, s)]
           asked(s) == AskedOf(cashouts, u, s)
           new(s) == NewAsked(u, s)
<1>3. \A s \in Sides :
        /\ imported[PendingOf(u, s)] \in Int /\ native[PendingOf(u, s)] \in Int
        /\ pending(s) = BitsIn(asked(s))
        /\ EntriesOn(PendingOf(u, s)) = BitsIn(new(s)) /\ BitsIn(new(s)) \in Int /\ BitsIn(asked(s)) \in Int
        /\ asked(s) \in SUBSET LiveTxns /\ new(s) \in SUBSET LiveTxns
  <2> SUFFICES ASSUME NEW s \in Sides
               PROVE  /\ imported[PendingOf(u, s)] \in Int /\ native[PendingOf(u, s)] \in Int
                      /\ pending(s) = BitsIn(asked(s))
                      /\ EntriesOn(PendingOf(u, s)) = BitsIn(new(s)) /\ BitsIn(new(s)) \in Int
                      /\ BitsIn(asked(s)) \in Int
                      /\ asked(s) \in SUBSET LiveTxns /\ new(s) \in SUBSET LiveTxns
    OBVIOUS
  <2>1. imported[PendingOf(u, s)] \in Int /\ native[PendingOf(u, s)] \in Int
    BY <1>2, AccountsLaw DEF ImportTypes
  <2>2. pending(s) = BitsIn(asked(s))
    BY DEF ImportIInv, EscrowIs, EscrowSound
  <2>3. asked(s) \in SUBSET LiveTxns /\ new(s) \in SUBSET LiveTxns
    BY DEF AskedOf, NewAsked, NewRows
  <2>4. EntriesOn(PendingOf(u, s)) = BitsIn(new(s))
    BY <1>1, EntriesInEscrow
  <2>5. BitsIn(new(s)) \in Int /\ BitsIn(asked(s)) \in Int
    <3> HIDE DEF asked, new
    <3> QED
      BY <2>3, BitsType
  <2> QED
    BY <2>1, <2>2, <2>3, <2>4, <2>5
<1>4. Balances[PendingOf(u, o)] = ReleasedTo("pending", u, o)
  BY <1>2, BalancesLaw DEF PendingOf
<1>5. \A s \in Sides : asked(s) \cap new(o) = {} /\ asked("subject") \cap asked("hold") = {}
  <2>1. \A s \in Sides : asked(s) \subseteq booked
    BY DEF AskedOf, Nothing, ImportIInv, CashoutsSound
  <2>2. new(o) \cap booked = {}
    BY DEF NewAsked, NewRows
  <2>3. asked("subject") \cap asked("hold") = {}
    BY DEF AskedOf
  <2> QED
    BY <2>1, <2>2, <2>3
<1> DEFINE P(s) == EntriesOn(PendingOf(u, s))
<1>6. CASE u \in Concerned \cap run.users /\ o = "hold"
  <2>1. AskedOf(cashouts', u, o) = {}
    BY <1>6, AskedAfter
  <2>2. ReleasedTo("pending", u, o)
          = imported[PendingOf(u, "hold")] + P("hold")
              - (imported[PendingOf(u, "hold")] + P("hold") + native[PendingOf(u, "hold")])
    <3>1. u \in Concerned \cap run.users
      BY <1>6
    <3>2. ReleasedTo("pending", u, "hold")
            = imported[PendingOf(u, "hold")] + P("hold")
                - (imported[PendingOf(u, "hold")] + P("hold") + native[PendingOf(u, "hold")])
      <4> DEFINE hold == <<"pending", u, "hold">>
      <4>1. imported[hold] \in Int /\ native[hold] \in Int /\ EntriesOn(hold) \in Int
        BY <1>2, <1>3, EntriesType DEF PendingOf
      <4>2. Parked(u, "pending") = imported[hold] + EntriesOn(hold) + native[hold] /\ Parked(u, "pending") \in Int
        BY <4>1 DEF Parked
      <4>3. ReleasedTo("pending", u, "hold") = imported[hold] + EntriesOn(hold) - Parked(u, "pending")
        BY <3>1, <4>1, <4>2 DEF ReleasedTo
      <4> QED
        BY <4>2, <4>3 DEF PendingOf
    <3> HIDE DEF P
    <3> QED
      BY <1>6, <3>2
  <2>3. ReleasedTo("pending", u, o) = -native[PendingOf(u, o)]
    BY <1>2, <1>3, <1>6, <2>2
  <2>4. imported'[PendingOf(u, o)] + native'[PendingOf(u, o)] = 0
    BY <1>1, <1>2, <1>3, <1>4, <2>3
  <2> QED
    BY <2>1, <2>4, BitsNone
<1>7. CASE u \in Concerned \cap run.users /\ o = "subject"
  <2>1. AskedOf(cashouts', u, o) = (asked("subject") \cup asked("hold")) \cup new(o)
    BY <1>7, AskedAfter
  <2>2. ReleasedTo("pending", u, o)
          = imported[PendingOf(u, "subject")] + P("subject")
              + (imported[PendingOf(u, "hold")] + P("hold") + native[PendingOf(u, "hold")])
    BY <1>7 DEF ReleasedTo, Parked, PendingOf
  <2>3. P("hold") = 0
    <3>1. new("hold") = {}
      BY <1>7 DEF NewAsked, OwnerIn
    <3> QED
      BY <1>2, <1>3, <3>1, BitsNone
  <2>4. BitsIn((asked("subject") \cup asked("hold")) \cup new(o))
          = BitsIn(asked("subject")) + BitsIn(asked("hold")) + BitsIn(new(o))
    <3>1. /\ asked("subject") \in SUBSET LiveTxns /\ asked("hold") \in SUBSET LiveTxns /\ new(o) \in SUBSET LiveTxns
          /\ asked("subject") \cap asked("hold") = {}
          /\ (asked("subject") \cup asked("hold")) \cap new(o) = {}
      BY <1>2, <1>3, <1>5
    <3> HIDE DEF asked, new
    <3>2. BitsIn(asked("subject") \cup asked("hold")) = BitsIn(asked("subject")) + BitsIn(asked("hold"))
      BY <3>1, BitsUnion
    <3>3. BitsIn((asked("subject") \cup asked("hold")) \cup new(o))
            = BitsIn(asked("subject") \cup asked("hold")) + BitsIn(new(o))
      BY <3>1, BitsUnion
    <3> QED
      BY <3>2, <3>3
  <2> HIDE DEF asked, new, P
  <2>5. imported'[PendingOf(u, o)] + native'[PendingOf(u, o)]
          = BitsIn(asked("subject")) + BitsIn(asked("hold")) + BitsIn(new(o))
    BY <1>1, <1>2, <1>3, <1>4, <1>7, <2>2, <2>3 DEF P
  <2> QED
    BY <2>1, <2>4, <2>5
<1>8. CASE u \notin Concerned \cap run.users
  <2>1. AskedOf(cashouts', u, o) = asked(o) \cup new(o)
    BY <1>8, AskedAfter
  <2>2. ReleasedTo("pending", u, o) = imported[PendingOf(u, o)] + P(o)
    BY <1>8 DEF ReleasedTo, PendingOf
  <2>3. BitsIn(asked(o) \cup new(o)) = BitsIn(asked(o)) + BitsIn(new(o))
    <3>1. asked(o) \in SUBSET LiveTxns /\ new(o) \in SUBSET LiveTxns /\ asked(o) \cap new(o) = {}
      BY <1>3, <1>5
    <3> HIDE DEF asked, new
    <3> QED
      BY <3>1, BitsUnion
  <2>4. imported'[PendingOf(u, o)] + native'[PendingOf(u, o)] = BitsIn(asked(o)) + BitsIn(new(o))
    BY <1>1, <1>3, <1>4, <2>2
  <2> QED
    BY <2>1, <2>3, <2>4
<1>9. o = "subject" \/ o = "hold"
  BY DEF Sides
<1> QED
  BY <1>6, <1>7, <1>8, <1>9

\* An imported period is paid to its end.
LEMMA SubsImported ==
    ASSUME ImportIInv, run.state = "read", NEW s \in LiveSubs
    PROVE  LET sub == ImportSub(s)
           IN  /\ sub \in SubRow \cup {Nothing}
               /\ sub # Nothing /\ sub.state # "expired" /\ sub.end > Today => sub.cover >= sub.end
<1> DEFINE row == run.live.subs[s]
<1>1. /\ row \in LiveSubRow \cup {Nothing} /\ subs[s] \in SubRow \cup {Nothing}
      /\ subs[s] # Nothing /\ subs[s].state # "expired" /\ subs[s].end > Today => subs[s].cover >= subs[s].end
  BY RunRead DEF ImportIInv, ImportTypes, LiveState, PeriodsEntitled
<1>2. CASE row = Nothing \/ ~({SubOf[s][1], SubOf[s][2]} \subseteq run.users)
  <2>1. ImportSub(s) = subs[s]
    BY <1>2 DEF ImportSub
  <2> QED
    BY <1>1, <2>1
<1>3. CASE ~(row = Nothing \/ ~({SubOf[s][1], SubOf[s][2]} \subseteq run.users))
  <2> DEFINE state == IF row.state = "active" /\ row.end =< Today THEN "expired" ELSE row.state
             cover == IF row.end > Today THEN Cover(s, row.end) ELSE IF subs[s] = Nothing THEN 0 ELSE subs[s].cover
  <2>1. ImportSub(s) = [state |-> state, end |-> row.end, cover |-> cover]
    BY <1>3 DEF ImportSub
  <2>2. row \in LiveSubRow /\ row.end \in Nat /\ row.state \in {"active", "canceled"}
    BY <1>1, <1>3 DEF LiveSubRow
  <2>3. subs[s] # Nothing => subs[s].cover \in Nat
    BY <1>1 DEF SubRow
  <2>4. Today \in Nat
    BY ImportAssumption
  <2>5. state \in {"active", "canceled", "expired"}
    BY <2>2
  <2> HIDE DEF row
  <2>6. cover \in Nat /\ (row.end > Today => cover >= row.end)
    BY <2>2, <2>3, <2>4 DEF Cover, LaterOf
  <2> HIDE DEF state, cover
  <2>7. ImportSub(s) \in SubRow /\ ImportSub(s).end = row.end /\ ImportSub(s).cover = cover
    BY <2>1, <2>2, <2>5, <2>6 DEF SubRow
  <2> QED
    BY <2>6, <2>7
<1> QED
  BY <1>2, <1>3

\* A whole import keeps the invariant.
LEMMA ApplyRunKeeps == ASSUME ImportIInv, ApplyRun PROVE ImportIInv'
<1>1. /\ run.state = "read" /\ run' = Nothing
      /\ lastRun' = [state |-> "done", live |-> run.live, users |-> run.users]
      /\ booked' = booked \cup NewRows /\ imported' = Balances
      /\ subs' = [s \in LiveSubs |-> ImportSub(s)]
      /\ owners' = [a \in Accounts |-> ImportOwner(a)]
      /\ UNCHANGED <<live, mapped, era, runs, natives, native>>
  BY DEF ApplyRun, ImportHistory
<1>2. subs' \in [LiveSubs -> SubRow \cup {Nothing}] /\ PeriodsEntitled'
  BY <1>1, SubsImported DEF PeriodsEntitled
<1>3. owners' \in [Accounts -> OwnerRow \cup {Nothing}] /\ OwnersKnown'
  BY <1>1, OwnersImported
<1>4. ImportTypes'
  <2>1. lastRun' \in DoneRow
    BY <1>1, RunRead DEF DoneRow
  <2>2. booked' \in SUBSET LiveTxns
    BY <1>1, NewRowsLaw DEF ImportIInv, ImportTypes
  <2>3. imported' \in [ImportAccounts -> Int]
    BY <1>1, BalancesType
  <2>4. /\ live' \in LiveState /\ mapped' \in SUBSET LiveUsers /\ era' \in {"shadow", "billing"}
        /\ native' \in [ImportAccounts -> Int]
    BY <1>1 DEF ImportIInv, ImportTypes
  <2> QED
    BY <1>1, <1>2, <1>3, <2>1, <2>2, <2>3, <2>4, ApplyOrders, ApplyCashouts, ApplyHolds DEF ImportTypes
<1>5. SnapshotsSound'
  <2>1. booked' = RowsIn(run.live) /\ RowsIn(run.live) \subseteq RowsIn(live)
    BY <1>1, RunRead, NewRowsLaw
  <2>2. lastRun'.live = run.live /\ Escrowed(live)
    BY <1>1 DEF ImportIInv, SnapshotsSound
  <2> QED
    BY <1>1, <2>1, <2>2 DEF SnapshotsSound
<1> QED
  BY <1>2, <1>3, <1>4, <1>5, ApplyOrders, ApplyCashouts, ApplyHolds, ApplyOpenings, ApplyEscrow DEF ImportIInv

----------------------------------------------------------------------------
(* The import's promises.                                                  *)

\* Every step keeps the invariant.
LEMMA ImportSteps == ImportIInv /\ [ImportNext]_importVars => ImportIInv'
<1> SUFFICES ASSUME ImportIInv, [ImportNext]_importVars PROVE ImportIInv'
  OBVIOUS
<1>1. CASE LiveMovesOn
  BY <1>1, LiveMovesOnKeeps
<1>2. CASE LiveSubscribes
  BY <1>2, LiveSubscribesKeeps
<1>3. CASE LiveReconnects
  BY <1>3, LiveReconnectsKeeps
<1>4. CASE \E u \in LiveUsers : Resolve(u)
  BY <1>4, ResolveKeeps
<1>5. CASE ImporterStep
  BY <1>5, StartRunKeeps, ApplyRunKeeps, ApplyAccountsKeeps, RollBackKeeps, CutOverKeeps DEF ImporterStep
<1>6. CASE BillingStep
  BY <1>6, SettleIntentKeeps, DecideCashoutKeeps, NativeTransferKeeps, RenewNativelyKeeps DEF BillingStep
<1>7. CASE StaffMaps
  BY <1>7, AdminMapKeeps DEF StaffMaps
<1>8. CASE UNCHANGED importVars
  <2>1. RowsIn(live) \subseteq RowsIn(live') /\ live' \in LiveState /\ Escrowed(live')
    BY <1>8 DEF importVars, ImportIInv, ImportTypes, SnapshotsSound
  <2> QED
    BY <1>8, <2>1, LiveMoves DEF importVars
<1> QED
  BY <1>1, <1>2, <1>3, <1>4, <1>5, <1>6, <1>7, <1>8 DEF ImportNext

\* The inductive invariant of the import holds for any users, rows, orders and runs.
THEOREM ImportInvariant == ImportSpec => []ImportIInv
  BY ImportStarts, ImportSteps, PTL DEF ImportSpec

\* What Live had is what Billing has after each run and between runs: the columns of
\* whoever was shown, the escrow of cashouts under way, the paid periods.
THEOREM LiveCarriedOver == ImportSpec => []CarriedOver
<1>1. ImportIInv => CarriedOver
  <2> SUFFICES ASSUME ImportIInv PROVE CarriedOver
    OBVIOUS
  <2>1. ImportTypeOK
    <3>1. \A o \in Orders : intents[o] \in IntentRow \cup {Nothing}
      BY DEF ImportIInv, ImportTypes
    <3>2. \A k \in LiveTxns : cashouts[k] \in CashoutRow \cup {Nothing}
      BY DEF ImportIInv, ImportTypes
    <3>3. \A a \in Accounts : owners[a] = Nothing \/ owners[a].subject \in mapped
      BY DEF ImportIInv, OwnersKnown
    <3> QED
      BY <3>1, <3>2, <3>3 DEF ImportTypeOK, ImportIInv, ImportTypes, IntentRow, CashoutRow, Sides
  <2>2. ImportedIsLives
    BY DEF ImportIInv, OpeningsSound, ImportedIsLives, Shown
  <2>3. EscrowBacked /\ PeriodsEntitled
    BY EscrowMeans DEF ImportIInv
  <2> QED
    BY <2>1, <2>2, <2>3 DEF CarriedOver
<1> QED
  BY <1>1, ImportInvariant, PTL

\* An order Live credited is never settled a second time in Billing.
THEOREM LiveCreditsOnce == ImportSpec => []CreditedOnceAnywhere
<1>1. ImportIInv => CreditedOnceAnywhere
  BY DEF ImportIInv, OrdersSound
<1> QED
  BY <1>1, ImportInvariant, PTL

\* A run over the last one's snapshot follows no order anywhere,
LEMMA RerunOrders ==
    ASSUME ImportIInv, ApplyRun, lastRun # Nothing, run.live = lastRun.live
    PROVE  intents' = intents
<1>1. PICK stale \in BOOLEAN : ImportOrders(stale)
  BY DEF ApplyRun
<1>2. intents \in [Orders -> IntentRow \cup {Nothing}] /\ OrdersFollowed /\ run.live \in LiveState
  BY RunRead DEF ImportIInv, ImportTypes, OrdersSound, ApplyRun
<1>3. ASSUME NEW o \in Orders PROVE intents'[o] = intents[o]
  <2> DEFINE status == run.live.orders[o]
  <2>1. /\ status \in {"none", "pending", "credited", "failed"}
        /\ status # "none" => intents[o] \in IntentRow /\ intents[o] # Nothing
        /\ status = "credited" => intents[o].state = "settled"
        /\ status = "failed" => intents[o].state \in {"failed", "settled"}
    BY <1>2 DEF OrdersFollowed, LiveState
  <2>2. CASE status = "none"
    BY <1>1, <2>2 DEF ImportOrders
  <2>3. CASE status # "none"
    <3>1. intents'[o] = Followed(o, status)
      BY <1>1, <2>1, <2>3 DEF ImportOrders
    <3>2. CASE intents[o].here \/ intents[o].state = "settled"
      BY <3>1, <3>2 DEF Followed
    <3>3. CASE ~(intents[o].here \/ intents[o].state = "settled")
      <4>1. status # "credited" /\ ~(status = "failed" /\ intents[o].state \in {"created", "expired"})
        BY <2>1, <3>3
      <4> QED
        BY <3>1, <3>3, <4>1 DEF Followed
    <3> QED
      BY <3>2, <3>3
  <2> QED
    BY <2>2, <2>3
<1>4. intents' = [o \in Orders |-> intents'[o]]
  BY <1>1 DEF ImportOrders
<1> QED
  BY <1>2, <1>3, <1>4

\* replays no row, moves no cashout and no hold,
LEMMA RerunRows ==
    ASSUME ImportIInv, ApplyRun, lastRun # Nothing, run.live = lastRun.live, run.users = lastRun.users
    PROVE  NewRows = {} /\ booked' = booked /\ cashouts' = cashouts /\ holds' = holds
<1>1. /\ run.state = "read" /\ booked' = booked \cup NewRows
      /\ cashouts' = [k \in LiveTxns |->
           IF k \in NewRows /\ LiveTxnOf[k].type = "cashout" /\ LiveTxnOf[k].amount > 0 THEN OpenCashout(k)
           ELSE HandedOver(cashouts[k], LiveTxnOf[k].from)]
      /\ holds' = [u \in LiveUsers |->
           CASE u \in Concerned /\ u \notin run.users -> "held"
             [] u \in Concerned \cap run.users /\ holds[u] = "held" -> "resolved"
             [] OTHER -> holds[u]]
  BY DEF ApplyRun, ImportHistory
<1>2. NewRows = {}
  <2>1. RowsIn(run.live) \subseteq booked
    BY DEF ImportIInv, SnapshotsSound
  <2> QED
    BY <2>1 DEF NewRows, RowsIn
<1>3. /\ cashouts \in [LiveTxns -> CashoutRow \cup {Nothing}]
      /\ holds \in [LiveUsers -> {"none", "held", "resolved"}]
  BY DEF ImportIInv, ImportTypes
<1>4. ASSUME NEW k \in LiveTxns PROVE cashouts'[k] = cashouts[k]
  <2>1. cashouts'[k] = HandedOver(cashouts[k], LiveTxnOf[k].from)
    BY <1>1, <1>2
  <2>2. CASE cashouts[k] # Nothing /\ LiveTxnOf[k].from \in Concerned \cap run.users
    <3>1. cashouts[k] \in CashoutRow /\ cashouts[k].owner = "subject"
      BY <1>3, <2>2 DEF ImportIInv, CashoutsSound
    <3>2. [cashouts[k] EXCEPT !.owner = "subject"] = cashouts[k]
      BY <3>1 DEF CashoutRow
    <3> QED
      BY <2>1, <2>2, <3>2 DEF HandedOver
  <2>3. CASE ~(cashouts[k] # Nothing /\ LiveTxnOf[k].from \in Concerned \cap run.users)
    BY <2>1, <2>3 DEF HandedOver
  <2> QED
    BY <2>2, <2>3
<1>5. ASSUME NEW u \in LiveUsers PROVE holds'[u] = holds[u]
  <2>1. u \in Concerned <=> Shown(run.live, u) \/ holds[u] = "held"
    BY ConcernedLaw
  <2>2. /\ u \in run.users => holds[u] # "held"
        /\ u \notin run.users /\ Shown(run.live, u) => holds[u] = "held"
    BY DEF ImportIInv, HoldsSound
  <2> QED
    BY <1>1, <2>1, <2>2
<1>6. cashouts' = cashouts
  BY <1>1, <1>3, <1>4
<1>7. holds' = holds
  BY <1>1, <1>3, <1>5
<1> QED
  BY <1>1, <1>2, <1>6, <1>7

\* and books no bit, unless some are parked on the hold of somebody known.
LEMMA RerunBalances ==
    ASSUME ImportIInv, ApplyRun, lastRun # Nothing, run.live = lastRun.live, run.users = lastRun.users, NothingParked
    PROVE  imported' = imported
<1>1. run.state = "read" /\ imported' = Balances /\ NewRows = {} /\ ImportTypes
  BY RerunRows DEF ApplyRun, ImportHistory, ImportIInv
<1>2. \A a : EntriesOn(a) = 0
  BY <1>1, SumEmpty DEF EntriesOn
<1>3. ASSUME NEW kind \in Kinds, NEW u \in LiveUsers, NEW o \in Sides
      PROVE  Balances[<<kind, u, o>>] = imported[<<kind, u, o>>]
  <2> DEFINE a == <<kind, u, o>>
             hold == <<kind, u, "hold">>
  <2>1. a \in ImportAccounts /\ hold \in ImportAccounts
    BY DEF ImportAccounts, Sides
  <2>2. imported[a] \in Int /\ imported[hold] \in Int /\ native[hold] \in Int
    BY <1>1, <2>1 DEF ImportTypes
  <2>3. u \in run.users => imported[hold] + native[hold] = 0
    BY DEF NothingParked, Held
  <2>4. u \in run.users => Parked(u, kind) = 0
    BY <1>2, <2>2, <2>3 DEF Parked
  <2>5. ReleasedTo(kind, u, o) = imported[a]
    <3>1. imported[a] + EntriesOn(a) = imported[a]
      BY <1>2, <2>2
    <3>2. CASE u \notin Concerned \cap run.users
      BY <3>1, <3>2 DEF ReleasedTo
    <3>3. CASE u \in Concerned \cap run.users
      <4>1. Parked(u, kind) = 0
        BY <2>4, <3>3
      <4> HIDE DEF a
      <4>2. imported[a] - 0 = imported[a] /\ imported[a] + 0 = imported[a]
        BY <2>2
      <4> QED
        BY <3>1, <3>3, <4>1, <4>2 DEF ReleasedTo, a
    <3> QED
      BY <3>2, <3>3
  <2>6. CASE kind # "pending" /\ u \in Concerned /\ o = OwnerIn(run.users, u)
    <3>1. Shown(lastRun.live, u) \/ holds[u] = "held"
      BY <2>6, ConcernedLaw
    <3>2. /\ imported[<<"credit", u, OwnerIn(lastRun.users, u)>>] = lastRun.live["credit"][u]
          /\ imported[<<"payable", u, OwnerIn(lastRun.users, u)>>] = lastRun.live["payable"][u]
      BY <3>1 DEF ImportIInv, OpeningsSound, Credit, Payable
    <3>3. kind = "credit" \/ kind = "payable"
      BY <2>6 DEF Kinds
    <3>4. imported[a] = run.live[kind][u]
      BY <2>6, <3>2, <3>3
    <3> QED
      BY <1>1, <2>6, <3>4, BalancesLaw
  <2>7. CASE ~(kind # "pending" /\ u \in Concerned /\ o = OwnerIn(run.users, u))
    BY <1>1, <2>5, <2>7, BalancesLaw
  <2> QED
    BY <2>6, <2>7
<1>4. \A a \in ImportAccounts : Balances[a] = imported[a]
  <2> SUFFICES ASSUME NEW a \in ImportAccounts PROVE Balances[a] = imported[a]
    OBVIOUS
  <2>1. PICK kind \in Kinds, u \in LiveUsers, o \in Sides : a = <<kind, u, o>>
    BY DEF ImportAccounts, Sides
  <2> QED
    BY <1>3, <2>1
<1>5. Balances = [a \in ImportAccounts |-> Balances[a]]
  BY DEF Balances, Opened
<1>6. imported = [a \in ImportAccounts |-> imported[a]]
  BY <1>1 DEF ImportTypes
<1> QED
  BY <1>1, <1>4, <1>5, <1>6

\* What an operator mapped stays.
LEMMA AdminMapStays ==
    ASSUME ImportIInv, [ImportNext]_importVars, NEW a \in Accounts, owners[a] # Nothing, owners[a].source = "admin"
    PROVE  owners'[a].source = "admin"
<1>1. CASE owners' = owners
  BY <1>1
<1>2. CASE owners' = [b \in Accounts |-> ImportOwner(b)]
  <2>1. ImportOwner(a) = owners[a]
    BY DEF ImportOwner, MayMap
  <2> QED
    BY <1>2, <2>1
<1>3. CASE StaffMaps
  <2>1. PICK b \in Accounts, u \in LiveUsers : owners' = [owners EXCEPT ![b] = [subject |-> u, source |-> "admin"]]
    BY <1>3 DEF StaffMaps, AdminMap
  <2>2. owners \in [Accounts -> OwnerRow \cup {Nothing}]
    BY DEF ImportIInv, ImportTypes
  <2> QED
    BY <2>1, <2>2
<1>4. \/ owners' = owners
      \/ owners' = [b \in Accounts |-> ImportOwner(b)]
      \/ StaffMaps
  <2>1. CASE LiveMovesOn \/ LiveSubscribes \/ LiveReconnects \/ \E u \in LiveUsers : Resolve(u)
    BY <2>1 DEF LiveMovesOn, LiveSubscribes, LiveReconnects, Resolve, billingVars
  <2>2. CASE ImporterStep
    BY <2>2 DEF ImporterStep, StartRun, ApplyRun, ApplyAccounts, RollBack, CutOver, billingVars
  <2>3. CASE BillingStep
    BY <2>3 DEF BillingStep, SettleIntent, DecideCashout, NativeTransfer, RenewNatively
  <2>4. CASE UNCHANGED importVars
    BY <2>4 DEF importVars, billingVars
  <2> QED
    BY <2>1, <2>2, <2>3, <2>4 DEF ImportNext
<1> QED
  BY <1>1, <1>2, <1>3, <1>4

\* A later run leaves alone what it did not change itself: all of it where Live stands
\* still, and an operator's mapping always (live.js 40-41, applyProviderAccounts).
THEOREM LaterRunsLeaveAlone == ImportSpec => LeavesAlone
<1>1. ImportIInv /\ [ImportNext]_importVars =>
        [ApplyRun /\ lastRun # Nothing /\ run.live = lastRun.live /\ run.users = lastRun.users /\ NothingParked
           => UNCHANGED ledgerVars]_importVars
  <2> SUFFICES ASSUME ImportIInv, ApplyRun, lastRun # Nothing, run.live = lastRun.live, run.users = lastRun.users,
                      NothingParked
               PROVE  UNCHANGED ledgerVars
    OBVIOUS
  <2>1. native' = native
    BY DEF ApplyRun
  <2> QED
    BY <2>1, RerunOrders, RerunRows, RerunBalances DEF ledgerVars
<1>2. ImportIInv /\ [ImportNext]_importVars =>
        [\A a \in Accounts : owners[a] # Nothing /\ owners[a].source = "admin"
           => owners'[a].source = "admin"]_importVars
  BY AdminMapStays
<1> QED
  BY <1>1, <1>2, ImportInvariant, PTL DEF ImportSpec, LeavesAlone, RerunChangesNothing, AdminMapKept

----------------------------------------------------------------------------
(* Metering.                                                               *)

AllowanceRow == [person : People, service : Services, period : Periods, start : Nat, end : Nat,
                 granted : Nat, used : Nat, expired : Nat]
BudgetRow == [period : Periods, start : Nat, end : Nat, budget : Nat, spent : Nat]
Refusals == {"amount_overflow"} \cup Retried
RaterState ==
    {Waiting} \cup [phase : {"rows"}, left : SUBSET Readings]
    \cup [phase : {"rating"}, left : SUBSET Readings, at : Readings, cards : SUBSET Cards, frozen : BOOLEAN]
    \cup [phase : {"refused"}, left : SUBSET Readings, at : Readings, error : Refusals]

\* Sums over readings, and the readings charged to a person or under a window.
Charges(u, S) == SumFunctionOnSet([k \in S |-> u[k].charge], S)
Promos(u, S) == SumFunctionOnSet([k \in S |-> u[k].promo], S)
PaidBy(u, p) == {k \in Readings : u[k].state = "rated" /\ ReadingOf[k].person = p}
PaidUnder(u, p, s, t) == {k \in PaidBy(u, p) : <<s, t>> \in u[k].under}

\* The windows of a person, and what was used of them.
Mine(rows, p) == {i \in DOMAIN rows : rows[i].person = p}
UsedOf(rows, S) == SumFunctionOnSet([i \in S |-> rows[i].used], S)

MeterTypes ==
    /\ cards \in SUBSET Cards /\ usage \in [Readings -> Reading]
    /\ bits \in [MeterAccounts -> Int] /\ rater \in [Raters -> RaterState]
    /\ stopped \in BOOLEAN /\ day \in 0..LastDay /\ taken \in Nat

RowsSound(rows) ==
    /\ rows \in Seq(AllowanceRow)
    /\ \A i \in DOMAIN rows : rows[i].used + rows[i].expired =< rows[i].granted

\* A reading without a charge has cost nothing; a charge was priced by a card.
ReadingSound(k, row) ==
    IF row.state = "rated"
    THEN /\ ReadingOf[k].person \in People
         /\ \E c \in Cards : /\ c.id = row.card /\ Fits(c, ReadingOf[k])
                             /\ row.charge + row.promo = ChargeFor(c, ReadingOf[k].quantity)
    ELSE row.charge = 0 /\ row.promo = 0 /\ row.under = {}

MoneyTaken(u, money) ==
    /\ \A p \in People : money[CreditOf(p)] >= 0 /\ money[CreditOf(p)] = Money - Charges(u, PaidBy(u, p))
    /\ money[BitsRevenue] = Charges(u, Readings)

\* The allowance a person holds is within what the windows have left, and short of it
\* by no more than was taken by hand.
Pocket(rows, money, p) ==
    LET left == TotalLeft(rows, Mine(rows, p))
    IN  money[Promo(p)] \in 0..left /\ left - money[Promo(p)] =< taken

UsedPaid(rows, u) == \A p \in People : UsedOf(rows, Mine(rows, p)) = Promos(u, PaidBy(u, p))

\* A window counts what was charged under it, by a budget its owner set.
WindowSound(u, p, s, t, row) ==
    /\ row \in BudgetRow /\ row.start = t /\ t \in 0..LastDay
    /\ <<p, s, row.period, row.budget>> \in BudgetSets
    /\ row.spent = Charges(u, PaidUnder(u, p, s, t))
    /\ \E b \in BudgetSets : b[1] = p /\ b[2] = s /\ row.spent =< b[4]

BudgetSound(u, p, s, budget) ==
    /\ budget = NoBudget \/ budget.newest \in DOMAIN budget.rows
    /\ \A t \in DOMAIN budget.rows : WindowSound(u, p, s, t, budget.rows[t])
    /\ \A k \in PaidBy(u, p), t \in 0..LastDay : <<s, t>> \in u[k].under => t \in DOMAIN budget.rows

BudgetsSound ==
    /\ DOMAIN budgets = People \X Services
    /\ \A p \in People, s \in Services : BudgetSound(usage, p, s, budgets[p, s])

MeterIInv ==
    /\ MeterTypes /\ RowsSound(allowances)
    /\ \A k \in Readings : ReadingSound(k, usage[k])
    /\ MoneyTaken(usage, bits)
    /\ \A p \in People : Pocket(allowances, bits, p)
    /\ UsedPaid(allowances, usage)
    /\ BudgetsSound

\* The first day of a window is a day, and no later than the day it is of.
LEMMA WindowStartType ==
    ASSUME NEW period \in Periods, NEW t \in 0..LastDay
    PROVE  WindowStart(period, t) \in 0..LastDay /\ WindowEnd(period, t) \in Nat
<1>. DEFINE d == WindowDays[period]
<1>1. d \in Nat /\ LastDay \in Nat
  BY MeteringAssumption
<1>2. d # 0 => t % d \in 0..t
  BY <1>1
<1>. QED
  BY <1>1, <1>2 DEF WindowStart, WindowEnd, Never

\* What a reading costs under a card is a natural number of bits.
LEMMA ChargeForType ==
    ASSUME NEW c \in Cards, NEW k \in Readings
    PROVE  ChargeFor(c, ReadingOf[k].quantity) \in Nat
<1>. DEFINE n == ReadingOf[k].quantity * c.price
            q == (n + c.size - 1) \div c.size
<1>1. ReadingOf[k].quantity \in Nat /\ c.price \in Nat /\ c.size \in Nat \ {0}
  BY MeteringAssumption
<1>2. n \in Nat
  BY <1>1
<1>. HIDE DEF n
<1>3. q \in Int /\ n + c.size - 1 < c.size * q + c.size
  <2>. DEFINE m == n + c.size - 1
  <2>1. m \in Int
    BY <1>1, <1>2
  <2>. HIDE DEF m
  <2>2. m \div c.size \in Int /\ m < c.size * (m \div c.size) + c.size
    BY <1>1, <2>1, DivLaw
  <2>. QED
    BY <2>2 DEF m
<1>. HIDE DEF q
<1>4. q >= 0
  <2>1. SUFFICES ASSUME q =< -1 PROVE FALSE
    BY <1>3
  <2>2. c.size * q =< -c.size
    BY <1>1, <1>3, <2>1
  <2>. QED
    BY <1>1, <1>2, <1>3, <2>2
<1>. QED
  BY <1>3, <1>4 DEF ChargeFor, Ceil, n, q

\* A picked card is one of the cards and fits.
LEMMA PickedFits ==
    ASSUME NEW S, NEW r, NEW c \in PickCard(S, r)
    PROVE  c \in S /\ Fits(c, r)
  BY DEF PickCard

\* The indexes of allowances are a finite set, and what a window has left is a number.
LEMMA RowsFinite ==
    ASSUME NEW rows, RowsSound(rows)
    PROVE  /\ DOMAIN rows = 1..Len(rows) /\ Len(rows) \in Nat /\ IsFiniteSet(DOMAIN rows)
           /\ \A i \in DOMAIN rows : rows[i] \in AllowanceRow /\ Left(i, rows) \in Nat
           /\ \A p : IsFiniteSet(Mine(rows, p)) /\ Mine(rows, p) \subseteq DOMAIN rows
<1>1. DOMAIN rows = 1..Len(rows) /\ Len(rows) \in Nat
  BY DEF RowsSound
<1>2. IsFiniteSet(DOMAIN rows)
  BY <1>1, FS_Interval
<1>3. \A i \in DOMAIN rows : rows[i] \in AllowanceRow
  BY <1>1 DEF RowsSound
<1>4. \A i \in DOMAIN rows : Left(i, rows) \in Nat
  <2>. SUFFICES ASSUME NEW i \in DOMAIN rows PROVE Left(i, rows) \in Nat
    OBVIOUS
  <2>1. rows[i].granted \in Nat /\ rows[i].used \in Nat /\ rows[i].expired \in Nat
    BY <1>3 DEF AllowanceRow
  <2>2. rows[i].used + rows[i].expired =< rows[i].granted
    BY DEF RowsSound
  <2>. QED
    BY ONLY <2>1, <2>2 DEF Left
<1>5. \A p : Mine(rows, p) \subseteq DOMAIN rows
  BY DEF Mine
<1>6. \A p : IsFiniteSet(Mine(rows, p))
  BY <1>2, <1>5, FS_Subset
<1>. QED
  BY <1>1, <1>2, <1>3, <1>4, <1>5, <1>6

\* What some windows have left together is a natural number, and no more than what
\* more windows have.
LEMMA LeftTogether ==
    ASSUME NEW rows, RowsSound(rows), NEW S \in SUBSET DOMAIN rows, NEW R \in SUBSET S
    PROVE  /\ TotalLeft(rows, S) \in Nat /\ TotalLeft(rows, R) \in Nat
           /\ TotalLeft(rows, S) = TotalLeft(rows, R) + TotalLeft(rows, S \ R)
           /\ TotalLeft(rows, R) =< TotalLeft(rows, S)
<1>. DEFINE f(T) == [i \in T |-> Left(i, rows)]
<1>1. IsFiniteSet(S) /\ IsFiniteSet(R) /\ IsFiniteSet(S \ R)
  BY RowsFinite, FS_Subset
<1>2. \A i \in S : Left(i, rows) \in Nat
  BY RowsFinite
<1>3. \A T \in SUBSET S : \A i \in T : f(T)[i] = Left(i, rows)
  OBVIOUS
<1>4. TotalLeft(rows, S) \in Nat /\ TotalLeft(rows, R) \in Nat /\ TotalLeft(rows, S \ R) \in Nat
  <2>1. \A T \in SUBSET S : IsFiniteSet(T) => SumFunctionOnSet(f(T), T) \in Nat
    <3>. SUFFICES ASSUME NEW T \in SUBSET S, IsFiniteSet(T) PROVE SumFunctionOnSet(f(T), T) \in Nat
      OBVIOUS
    <3>1. \A i \in T : f(T)[i] \in Nat
      BY <1>2
    <3>. HIDE DEF f
    <3>. QED
      BY <3>1, SumNat
  <2>. QED
    BY <1>1, <2>1 DEF TotalLeft
<1>5. SumFunctionOnSet(f(S), S) = SumFunctionOnSet(f(S), R) + SumFunctionOnSet(f(S), S \ R)
  <2>1. S = R \cup (S \ R) /\ R \cap (S \ R) = {}
    OBVIOUS
  <2>2. \A i \in R \cup (S \ R) : f(S)[i] \in Int
    BY <1>2
  <2>. HIDE DEF f
  <2>3. SumFunctionOnSet(f(S), R \cup (S \ R)) = SumFunctionOnSet(f(S), R) + SumFunctionOnSet(f(S), S \ R)
    BY <1>1, <2>1, <2>2, SumUnion
  <2>. QED
    BY <2>1, <2>3
<1>6. \A T \in SUBSET S : IsFiniteSet(T) => SumFunctionOnSet(f(S), T) = SumFunctionOnSet(f(T), T)
  <2>. SUFFICES ASSUME NEW T \in SUBSET S, IsFiniteSet(T)
                PROVE SumFunctionOnSet(f(S), T) = SumFunctionOnSet(f(T), T)
    OBVIOUS
  <2>1. \A i \in T : f(T)[i] \in Int /\ f(S)[i] = f(T)[i]
    BY <1>2
  <2>. HIDE DEF f
  <2>. QED
    BY <2>1, SumSame
<1>7. TotalLeft(rows, S) = TotalLeft(rows, R) + TotalLeft(rows, S \ R)
  <2>1. SumFunctionOnSet(f(S), R) = TotalLeft(rows, R) /\ SumFunctionOnSet(f(S), S \ R) = TotalLeft(rows, S \ R)
    BY <1>1, <1>6 DEF TotalLeft
  <2>2. SumFunctionOnSet(f(S), S) = TotalLeft(rows, S)
    BY DEF TotalLeft
  <2>. QED
    BY <1>5, <2>1, <2>2
<1>. QED
  BY <1>4, <1>7

----------------------------------------------------------------------------
(* What is drawn from an allowance.                                        *)

\* Of two windows one is drawn from first.
LEMMA SoonerOrder ==
    ASSUME NEW rows, RowsSound(rows), NEW i \in DOMAIN rows, NEW j \in DOMAIN rows
    PROVE  /\ ~Sooner(i, i, rows)
           /\ i # j => Sooner(i, j, rows) \/ Sooner(j, i, rows)
           /\ ~(Sooner(i, j, rows) /\ Sooner(j, i, rows))
<1>1. i \in Nat /\ j \in Nat /\ rows[i].end \in Nat /\ rows[j].end \in Nat
  BY RowsFinite DEF AllowanceRow
<1>. QED
  BY <1>1 DEF Sooner

\* Some windows that are not none have one that is drawn from last.
LEMMA LastToEnd ==
    ASSUME NEW rows, RowsSound(rows), NEW S \in SUBSET DOMAIN rows, S # {}
    PROVE  \E m \in S : \A i \in S \ {m} : Sooner(i, m, rows)
<1>1. IsFiniteSet(S) /\ \A i \in S : i \in Nat /\ rows[i].end \in Nat
  BY RowsFinite, FS_Subset DEF AllowanceRow
<1>2. PICK e \in S : \A i \in S : rows[i].end =< rows[e].end
  <2>. DEFINE f == [i \in S |-> rows[i].end]
  <2>1. \A i \in S : f[i] \in Int /\ f[i] = rows[i].end
    BY <1>1
  <2>. HIDE DEF f
  <2>2. \E e \in S : \A i \in S : f[i] =< f[e]
    BY <1>1, <2>1, FiniteMax
  <2>. QED
    BY <2>1, <2>2
<1>. DEFINE R == {i \in S : rows[i].end = rows[e].end}
            g == [i \in R |-> i]
<1>3. R # {} /\ IsFiniteSet(R) /\ R \subseteq S
  BY <1>1, FS_Subset
<1>4. \A i \in R : g[i] \in Int /\ g[i] = i
  BY <1>1
<1>5. PICK m \in R : \A i \in R : i =< m
  <2>. HIDE DEF g, R
  <2>1. \E m \in R : \A i \in R : g[i] =< g[m]
    BY <1>3, <1>4, FiniteMax
  <2>. QED
    BY <1>4, <2>1
<1>6. \A i \in S \ {m} : Sooner(i, m, rows)
  BY <1>1, <1>2, <1>5 DEF Sooner
<1>. QED
  BY <1>5, <1>6

\* The windows before which no other window is: what they give together is what is
\* wanted, or all they have.
LEMMA DrawnSum ==
    ASSUME NEW rows, RowsSound(rows), NEW usable \in SUBSET DOMAIN rows, NEW total \in Nat
    PROVE  LET d == DrawnFrom(rows, usable, total)
           IN  /\ DOMAIN d = usable
               /\ \A i \in usable : d[i] \in 0..Left(i, rows)
               /\ SumFunctionOnSet(d, usable) \in 0..total
<1>. DEFINE d == DrawnFrom(rows, usable, total)
            before(i) == TotalLeft(rows, {j \in usable : Sooner(j, i, rows)})
            Earlier(S) == \A i \in S : \A j \in usable : Sooner(j, i, rows) => j \in S
            Full(S) == SumFunctionOnSet(d, S) = AtMostBits(total, TotalLeft(rows, S))
            N == {n \in Nat : \A S \in SUBSET usable : Cardinality(S) = n /\ Earlier(S) => Full(S)}
<1>1. DOMAIN d = usable
  BY DEF DrawnFrom
<1>2. \A i \in usable : d[i] = IF before(i) > total THEN 0 ELSE AtMostBits(Left(i, rows), total - before(i))
  BY DEF DrawnFrom
<1>3. \A S \in SUBSET usable : IsFiniteSet(S) /\ TotalLeft(rows, S) \in Nat
  BY RowsFinite, LeftTogether, FS_Subset
<1>4. \A i \in usable : before(i) \in Nat /\ Left(i, rows) \in Nat
  BY <1>3, RowsFinite
<1>. HIDE DEF before
<1>5. \A i \in usable : d[i] \in 0..Left(i, rows)
  <2>. SUFFICES ASSUME NEW i \in usable PROVE d[i] \in 0..Left(i, rows)
    OBVIOUS
  <2>1. before(i) \in Nat /\ Left(i, rows) \in Nat
    BY <1>4
  <2>2. d[i] = IF before(i) > total THEN 0 ELSE AtMostBits(Left(i, rows), total - before(i))
    BY <1>2
  <2>. HIDE DEF d
  <2>. QED
    BY <2>1, <2>2 DEF AtMostBits
<1>6. \A i \in usable : d[i] \in Nat
  BY <1>4, <1>5
<1>. HIDE DEF d
<1>7. 0 \in N
  <2>. SUFFICES ASSUME NEW S \in SUBSET usable, Cardinality(S) = 0 PROVE Full(S)
    OBVIOUS
  <2>1. S = {}
    BY <1>3, FS_EmptySet
  <2>2. TotalLeft(rows, {}) = 0
    BY SumEmpty DEF TotalLeft
  <2>. QED
    BY <2>1, <2>2, SumEmpty DEF AtMostBits
<1>8. \A n \in Nat : n \in N => n + 1 \in N
  <2>. SUFFICES ASSUME NEW n \in Nat, n \in N,
                       NEW S \in SUBSET usable, Cardinality(S) = n + 1, Earlier(S)
                PROVE  Full(S)
    OBVIOUS
  <2>1. S # {}
    BY FS_EmptySet
  <2>2. PICK m \in S : \A i \in S \ {m} : Sooner(i, m, rows)
    BY <2>1, LastToEnd
  <2>. DEFINE R == S \ {m}
  <2>3. R = {j \in usable : Sooner(j, m, rows)}
    BY <2>2, SoonerOrder
  <2>4. Earlier(R)
    <3>. SUFFICES ASSUME NEW i \in R, NEW j \in usable, Sooner(j, i, rows) PROVE j \in R
      OBVIOUS
    <3>1. j \in S
      OBVIOUS
    <3>2. j # m
      BY <2>2, SoonerOrder
    <3>. QED
      BY <3>1, <3>2
  <2>5. Cardinality(R) = n
    BY <1>3, FS_RemoveElement
  <2>6. SumFunctionOnSet(d, R) = AtMostBits(total, TotalLeft(rows, R))
    BY <2>4, <2>5
  <2>7. SumFunctionOnSet(d, S) = d[m] + SumFunctionOnSet(d, R)
    <3>1. \A y \in S : d[y] \in Int
      BY <1>6
    <3>. QED
      BY <1>3, <3>1, SumRemove
  <2>8. TotalLeft(rows, S) = TotalLeft(rows, R) + Left(m, rows)
    <3>1. TotalLeft(rows, S) = TotalLeft(rows, R) + TotalLeft(rows, S \ R)
      <4>1. S \in SUBSET DOMAIN rows /\ R \in SUBSET S
        OBVIOUS
      <4>. HIDE DEF R
      <4>. QED
        BY <4>1, LeftTogether
    <3>2. S \ R = {m}
      OBVIOUS
    <3>3. TotalLeft(rows, {m}) = Left(m, rows)
      <4>. DEFINE f == [i \in {m} |-> Left(i, rows)]
      <4>0. Left(m, rows) \in Nat
        BY <1>4
      <4>1. f[m] = Left(m, rows) /\ \A y \in {m} : f[y] \in Int
        BY <4>0
      <4>. HIDE DEF f
      <4>2. SumFunctionOnSet(f, {m}) = f[m] + SumFunctionOnSet(f, {m} \ {m})
        BY <4>1, SumRemove, FS_Singleton
      <4>3. {m} \ {m} = {} /\ SumFunctionOnSet(f, {}) = 0
        BY SumEmpty
      <4>. QED
        BY <1>4, <4>1, <4>2, <4>3 DEF TotalLeft, f
    <3>. QED
      BY <3>1, <3>2, <3>3
  <2>9. d[m] = IF TotalLeft(rows, R) > total THEN 0 ELSE AtMostBits(Left(m, rows), total - TotalLeft(rows, R))
    BY <1>2, <2>3 DEF before
  <2>10. TotalLeft(rows, R) \in Nat /\ Left(m, rows) \in Nat
    BY <1>3, <1>4
  <2>. HIDE DEF R
  <2>. QED
    BY <2>6, <2>7, <2>8, <2>9, <2>10 DEF AtMostBits
<1>9. Full(usable)
  <2>1. Nat \subseteq N
    <3>. HIDE DEF N
    <3>. QED
      BY <1>7, <1>8, Induction
  <2>2. Cardinality(usable) \in Nat
    BY <1>3, FS_CardinalityType
  <2>. QED
    BY <2>1, <2>2
<1>10. SumFunctionOnSet(d, usable) \in 0..total
  BY <1>3, <1>9 DEF AtMostBits
<1>. QED
  BY <1>1, <1>5, <1>10 DEF d

----------------------------------------------------------------------------
(* What allowances and the accounts behind them become.                    *)

\* The accounts are apart.
LEMMA AccountsApart ==
    /\ PromoReserve \in MeterAccounts /\ BitsRevenue \in MeterAccounts /\ PromoReserve # BitsRevenue
    /\ \A p \in People : /\ CreditOf(p) \in MeterAccounts /\ Promo(p) \in MeterAccounts
                         /\ CreditOf(p) \notin {PromoReserve, BitsRevenue}
                         /\ Promo(p) \notin {PromoReserve, BitsRevenue}
    /\ \A p, q \in People : /\ CreditOf(p) # Promo(q)
                            /\ p # q => CreditOf(p) # CreditOf(q) /\ Promo(p) # Promo(q)
  BY DEF MeterAccounts, CreditOf, Promo, PromoReserve, BitsRevenue

\* Windows with as much left have as much left together.
LEMMA SameLeft ==
    ASSUME NEW rows, NEW old, NEW S, \A i \in S : Left(i, rows) = Left(i, old)
    PROVE  TotalLeft(rows, S) = TotalLeft(old, S)
<1>1. [i \in S |-> Left(i, rows)] = [i \in S |-> Left(i, old)]
  OBVIOUS
<1>. QED
  BY <1>1 DEF TotalLeft

\* A function from 1..n is a sequence.
LEMMA IsRows ==
    ASSUME NEW n \in Nat, NEW rows \in [1..n -> AllowanceRow]
    PROVE  rows \in Seq(AllowanceRow)
  OBVIOUS

\* A window that ended keeps all but what it had left, and the account keeps no more
\* than the windows have.
LEMMA LapseKeeps ==
    ASSUME MeterTypes, RowsSound(allowances), \A q \in People : Pocket(allowances, bits, q), NEW p \in People
    PROVE  /\ RowsSound(Lapsed(p)) /\ DOMAIN Lapsed(p) = DOMAIN allowances
           /\ \A i \in DOMAIN allowances : /\ Lapsed(p)[i].person = allowances[i].person
                                           /\ Lapsed(p)[i].used = allowances[i].used
           /\ AfterLapse(p) \in [MeterAccounts -> Int]
           /\ \A a \in MeterAccounts \ {Promo(p), PromoReserve} : AfterLapse(p)[a] = bits[a]
           /\ \A q \in People : Pocket(Lapsed(p), AfterLapse(p), q)
<1>. DEFINE rows == Lapsed(p)
            E == Ended(p)
            M(q) == Mine(allowances, q)
            money == AfterLapse(p)
            n == Len(allowances)
            ended == TotalLeft(allowances, E)
<1>1. /\ DOMAIN allowances = 1..n /\ n \in Nat
      /\ \A i \in DOMAIN allowances : allowances[i] \in AllowanceRow /\ Left(i, allowances) \in Nat
      /\ \A q : IsFiniteSet(M(q)) /\ M(q) \subseteq DOMAIN allowances
  BY RowsFinite
<1>2. DOMAIN rows = DOMAIN allowances
  BY DEF Lapsed
<1>3. \A i \in DOMAIN allowances :
        rows[i] = IF i \in E THEN [allowances[i] EXCEPT !.expired = @ + Left(i, allowances)] ELSE allowances[i]
  BY DEF Lapsed
<1>4. E \subseteq M(p)
  BY DEF Ended, Mine
<1>. HIDE DEF rows, E
<1>5. \A i \in DOMAIN allowances :
        /\ rows[i] \in AllowanceRow /\ rows[i].used + rows[i].expired =< rows[i].granted
        /\ rows[i].person = allowances[i].person /\ rows[i].used = allowances[i].used
        /\ Left(i, rows) = IF i \in E THEN 0 ELSE Left(i, allowances)
  <2>. SUFFICES ASSUME NEW i \in DOMAIN allowances
                PROVE  /\ rows[i] \in AllowanceRow /\ rows[i].used + rows[i].expired =< rows[i].granted
                       /\ rows[i].person = allowances[i].person /\ rows[i].used = allowances[i].used
                       /\ Left(i, rows) = IF i \in E THEN 0 ELSE Left(i, allowances)
    OBVIOUS
  <2>1. allowances[i] \in AllowanceRow /\ Left(i, allowances) \in Nat
        /\ allowances[i].used + allowances[i].expired =< allowances[i].granted
    BY <1>1 DEF RowsSound
  <2>2. CASE i \in E
    <3>1. rows[i] = [allowances[i] EXCEPT !.expired = @ + Left(i, allowances)]
      BY <1>3, <2>2
    <3>. QED
      BY <2>1, <2>2, <3>1 DEF AllowanceRow, Left
  <2>3. CASE i \notin E
    <3>1. rows[i] = allowances[i]
      BY <1>3, <2>3
    <3>. QED
      BY <2>1, <2>3, <3>1 DEF Left
  <2>. QED
    BY <2>2, <2>3
<1>6. RowsSound(rows)
  <2>1. rows = [i \in 1..n |-> rows[i]]
    BY <1>1, <1>2 DEF rows, Lapsed
  <2>2. rows \in [1..n -> AllowanceRow]
    BY <1>1, <1>5, <2>1
  <2>3. rows \in Seq(AllowanceRow)
    BY <1>1, <2>2, IsRows
  <2>. QED
    BY <1>2, <1>5, <2>3 DEF RowsSound
<1>7. ended \in Nat /\ TotalLeft(allowances, M(p)) \in Nat
      /\ TotalLeft(allowances, M(p)) = ended + TotalLeft(allowances, M(p) \ E)
  <2>1. M(p) \in SUBSET DOMAIN allowances /\ E \in SUBSET M(p)
    BY <1>1, <1>4
  <2>. HIDE DEF M
  <2>. QED
    BY <2>1, LeftTogether
<1>8. \A q \in People : bits[Promo(q)] \in Int /\ bits[Promo(q)] >= 0
  <2>1. \A q \in People : TotalLeft(allowances, M(q)) \in Nat
    BY <1>1, LeftTogether
  <2>. QED
    BY <2>1 DEF Pocket
<1>9. LapsedBits(p) = AtMostBits(ended, bits[Promo(p)]) /\ LapsedBits(p) \in Nat
  BY <1>7, <1>8 DEF LapsedBits, AtMostBits, E
<1>10. money \in [MeterAccounts -> Int]
  <2>1. bits \in [MeterAccounts -> Int]
    BY DEF MeterTypes
  <2>. QED
    BY <1>9, <2>1, AccountsApart DEF AfterLapse
<1>11. /\ money[Promo(p)] = bits[Promo(p)] - LapsedBits(p)
       /\ \A a \in MeterAccounts \ {Promo(p), PromoReserve} : money[a] = bits[a]
  <2>1. bits \in [MeterAccounts -> Int]
    BY DEF MeterTypes
  <2>. QED
    BY <1>9, <2>1, AccountsApart DEF AfterLapse
<1>12. \A q \in People : Mine(rows, q) = M(q)
  BY <1>2, <1>5 DEF Mine
<1>. HIDE DEF money
<1>13. Pocket(rows, money, p)
  <2>1. TotalLeft(rows, M(p)) = TotalLeft(rows, E) + TotalLeft(rows, M(p) \ E)
    <3>1. M(p) \in SUBSET DOMAIN rows /\ E \in SUBSET M(p)
      BY <1>1, <1>2, <1>4
    <3>. QED
      BY <1>6, <3>1, LeftTogether
  <2>2. TotalLeft(rows, E) = 0
    <3>1. \A i \in E : Left(i, rows) = 0
      BY <1>1, <1>4, <1>5
    <3>2. IsFiniteSet(E)
      BY <1>1, <1>4, FS_Subset
    <3>. QED
      BY <3>1, <3>2, SumZero DEF TotalLeft
  <2>3. TotalLeft(rows, M(p) \ E) = TotalLeft(allowances, M(p) \ E)
    <3>1. \A i \in M(p) \ E : Left(i, rows) = Left(i, allowances)
      BY <1>1, <1>5
    <3>. QED
      BY <3>1, SameLeft
  <2>4. TotalLeft(allowances, M(p) \ E) \in Nat
    <3>1. M(p) \in SUBSET DOMAIN allowances /\ M(p) \ E \in SUBSET M(p)
      BY <1>1
    <3>. QED
      BY <3>1, LeftTogether
  <2>5. bits[Promo(p)] \in 0..TotalLeft(allowances, M(p)) /\ TotalLeft(allowances, M(p)) - bits[Promo(p)] =< taken
    BY DEF Pocket
  <2>6. taken \in Nat
    BY DEF MeterTypes
  <2>. DEFINE left == TotalLeft(rows, Mine(rows, p))
  <2>7. left = TotalLeft(allowances, M(p) \ E)
    BY <1>12, <2>1, <2>2, <2>3, <2>4
  <2>. HIDE DEF left, ended
  <2>8. money[Promo(p)] \in 0..left /\ left - money[Promo(p)] =< taken
    BY <1>7, <1>8, <1>9, <1>11, <2>4, <2>5, <2>6, <2>7 DEF AtMostBits
  <2>. QED
    BY <2>8 DEF Pocket, left
<1>14. \A q \in People \ {p} : Pocket(rows, money, q)
  <2>. SUFFICES ASSUME NEW q \in People \ {p} PROVE Pocket(rows, money, q)
    OBVIOUS
  <2>1. \A i \in M(q) : Left(i, rows) = Left(i, allowances)
    BY <1>1, <1>4, <1>5 DEF Mine
  <2>2. TotalLeft(rows, Mine(rows, q)) = TotalLeft(allowances, M(q))
    BY <1>12, <2>1, SameLeft
  <2>3. money[Promo(q)] = bits[Promo(q)]
    BY <1>11, AccountsApart
  <2>. QED
    BY <2>2, <2>3 DEF Pocket
<1>. QED
  BY <1>2, <1>5, <1>6, <1>10, <1>11, <1>13, <1>14 DEF money, rows

\* A draw takes the same from the windows as from the account.
LEMMA DrawKeeps ==
    ASSUME NEW rows, RowsSound(rows), NEW money \in [MeterAccounts -> Int], taken \in Nat,
           \A q \in People : Pocket(rows, money, q),
           NEW p \in People, NEW d, DOMAIN d \subseteq Mine(rows, p),
           \A i \in DOMAIN d : d[i] \in 0..Left(i, rows),
           NEW sum, sum = SumFunctionOnSet(d, DOMAIN d), sum \in 0..money[Promo(p)],
           NEW new, new = [i \in DOMAIN rows |->
                             IF i \in DOMAIN d THEN [rows[i] EXCEPT !.used = @ + d[i]] ELSE rows[i]],
           NEW after \in [MeterAccounts -> Int], after[Promo(p)] = money[Promo(p)] - sum,
           \A q \in People \ {p} : after[Promo(q)] = money[Promo(q)]
    PROVE  /\ RowsSound(new) /\ \A q \in People : Pocket(new, after, q)
           /\ \A q \in People : UsedOf(new, Mine(new, q)) = UsedOf(rows, Mine(rows, q)) + (IF q = p THEN sum ELSE 0)
<1>. DEFINE n == Len(rows)
            M(q) == Mine(rows, q)
            D == [i \in M(p) |-> IF i \in DOMAIN d THEN d[i] ELSE 0]
<1>1. /\ DOMAIN rows = 1..n /\ n \in Nat
      /\ \A i \in DOMAIN rows : rows[i] \in AllowanceRow /\ Left(i, rows) \in Nat
      /\ \A q : IsFiniteSet(M(q)) /\ M(q) \subseteq DOMAIN rows
  BY RowsFinite
<1>2. DOMAIN new = DOMAIN rows
  OBVIOUS
<1>3. \A i \in DOMAIN rows :
        /\ new[i] \in AllowanceRow /\ new[i].used + new[i].expired =< new[i].granted
        /\ new[i].person = rows[i].person
        /\ i \notin DOMAIN d => Left(i, new) = Left(i, rows) /\ new[i].used = rows[i].used
        /\ i \in DOMAIN d => Left(i, new) = Left(i, rows) - d[i] /\ new[i].used = rows[i].used + d[i]
  <2>. SUFFICES ASSUME NEW i \in DOMAIN rows
                PROVE  /\ new[i] \in AllowanceRow /\ new[i].used + new[i].expired =< new[i].granted
                       /\ new[i].person = rows[i].person
                       /\ i \notin DOMAIN d => Left(i, new) = Left(i, rows) /\ new[i].used = rows[i].used
                       /\ i \in DOMAIN d => Left(i, new) = Left(i, rows) - d[i] /\ new[i].used = rows[i].used + d[i]
    OBVIOUS
  <2>1. rows[i] \in AllowanceRow /\ Left(i, rows) \in Nat /\ rows[i].used + rows[i].expired =< rows[i].granted
    BY <1>1 DEF RowsSound
  <2>2. CASE i \in DOMAIN d
    <3>1. new[i] = [rows[i] EXCEPT !.used = @ + d[i]]
      BY <2>2
    <3>2. d[i] \in 0..Left(i, rows)
      BY <2>2
    <3>. QED
      BY <2>1, <2>2, <3>1, <3>2 DEF AllowanceRow, Left
  <2>3. CASE i \notin DOMAIN d
    <3>1. new[i] = rows[i]
      BY <2>3
    <3>. QED
      BY <2>1, <2>3, <3>1 DEF Left
  <2>. QED
    BY <2>2, <2>3
<1>4. RowsSound(new)
  <2>1. new \in [1..n -> AllowanceRow]
    BY <1>1, <1>2, <1>3
  <2>2. new \in Seq(AllowanceRow)
    BY <1>1, <2>1, IsRows
  <2>. QED
    BY <1>2, <1>3, <2>2 DEF RowsSound
<1>5. \A q \in People : Mine(new, q) = M(q)
  BY <1>2, <1>3 DEF Mine
<1>6. sum = SumFunctionOnSet(D, M(p))
  <2>1. \A i \in DOMAIN d : D[i] = d[i] /\ d[i] \in Int
    BY <1>1
  <2>2. \A i \in M(p) \ DOMAIN d : D[i] = 0
    OBVIOUS
  <2>3. SumFunctionOnSet(D, M(p)) = SumFunctionOnSet(D, DOMAIN d)
    <3>1. IsFiniteSet(M(p)) /\ DOMAIN d \in SUBSET M(p)
      BY <1>1
    <3>. HIDE DEF D, M
    <3>. QED
      BY <2>1, <2>2, <3>1, SumSupport
  <2>. HIDE DEF D
  <2>4. SumFunctionOnSet(D, DOMAIN d) = SumFunctionOnSet(d, DOMAIN d)
    <3>1. IsFiniteSet(DOMAIN d)
      BY <1>1, FS_Subset
    <3>. QED
      BY <2>1, <3>1, SumSame
  <2>. QED
    BY <2>3, <2>4
<1>7. \A i \in M(p) : /\ D[i] \in Int /\ Left(i, new) \in Int /\ rows[i].used \in Int /\ new[i].used \in Int
                      /\ Left(i, rows) = Left(i, new) + D[i] /\ new[i].used = rows[i].used + D[i]
  <2>. SUFFICES ASSUME NEW i \in M(p)
                PROVE  /\ D[i] \in Int /\ Left(i, new) \in Int /\ rows[i].used \in Int /\ new[i].used \in Int
                       /\ Left(i, rows) = Left(i, new) + D[i] /\ new[i].used = rows[i].used + D[i]
    OBVIOUS
  <2>1. i \in DOMAIN rows /\ Left(i, rows) \in Nat /\ rows[i].used \in Nat /\ new[i].used \in Nat
    BY <1>1, <1>3 DEF AllowanceRow
  <2>2. CASE i \in DOMAIN d
    <3>1. D[i] = d[i] /\ d[i] \in 0..Left(i, rows)
      BY <2>2
    <3>. HIDE DEF D
    <3>2. Left(i, new) = Left(i, rows) - d[i] /\ new[i].used = rows[i].used + d[i]
      BY <1>3, <2>1, <2>2
    <3>. QED
      BY <2>1, <3>1, <3>2
  <2>3. CASE i \notin DOMAIN d
    <3>1. D[i] = 0
      BY <2>3
    <3>. HIDE DEF D
    <3>2. Left(i, new) = Left(i, rows) /\ new[i].used = rows[i].used
      BY <1>3, <2>1, <2>3
    <3>. QED
      BY <2>1, <3>1, <3>2
  <2>. QED
    BY <2>2, <2>3
<1>. HIDE DEF D
<1>8. TotalLeft(rows, M(p)) = TotalLeft(new, M(p)) + sum
  <2>. DEFINE f == [i \in M(p) |-> Left(i, new)]
              h == [i \in M(p) |-> Left(i, rows)]
  <2>1. \A i \in M(p) : f[i] \in Int /\ D[i] \in Int /\ h[i] = f[i] + D[i]
    BY <1>7
  <2>. HIDE DEF f, h
  <2>2. SumFunctionOnSet(h, M(p)) = SumFunctionOnSet(f, M(p)) + SumFunctionOnSet(D, M(p))
    BY <1>1, <2>1, SumPlus
  <2>. QED
    BY <1>6, <2>2 DEF TotalLeft, f, h
<1>9. UsedOf(new, M(p)) = UsedOf(rows, M(p)) + sum
  <2>. DEFINE f == [i \in M(p) |-> rows[i].used]
              h == [i \in M(p) |-> new[i].used]
  <2>1. \A i \in M(p) : f[i] \in Int /\ D[i] \in Int /\ h[i] = f[i] + D[i]
    BY <1>7
  <2>. HIDE DEF f, h
  <2>2. SumFunctionOnSet(h, M(p)) = SumFunctionOnSet(f, M(p)) + SumFunctionOnSet(D, M(p))
    BY <1>1, <2>1, SumPlus
  <2>. QED
    BY <1>6, <2>2 DEF UsedOf, f, h
<1>10. TotalLeft(new, M(p)) \in Nat /\ TotalLeft(rows, M(p)) \in Nat
  <2>1. M(p) \in SUBSET DOMAIN rows
    BY <1>1
  <2>. QED
    BY <1>2, <1>4, <2>1, LeftTogether
<1>11. Pocket(new, after, p)
  <2>1. money[Promo(p)] \in 0..TotalLeft(rows, M(p)) /\ TotalLeft(rows, M(p)) - money[Promo(p)] =< taken
    BY DEF Pocket
  <2>2. money[Promo(p)] \in Int /\ sum \in Int
    BY AccountsApart
  <2>3. after[Promo(p)] \in 0..TotalLeft(new, M(p)) /\ TotalLeft(new, M(p)) - after[Promo(p)] =< taken
    <3>. HIDE DEF M
    <3>. QED
      BY <1>8, <1>10, <2>1, <2>2
  <2>. QED
    BY <1>5, <2>3 DEF Pocket
<1>12. \A q \in People \ {p} : /\ Pocket(new, after, q) /\ UsedOf(new, M(q)) = UsedOf(rows, M(q))
  <2>. SUFFICES ASSUME NEW q \in People \ {p}
                PROVE  Pocket(new, after, q) /\ UsedOf(new, M(q)) = UsedOf(rows, M(q))
    OBVIOUS
  <2>1. \A i \in M(q) : Left(i, new) = Left(i, rows) /\ new[i].used = rows[i].used
    <3>1. \A i \in M(q) : i \notin DOMAIN d
      BY DEF Mine
    <3>. QED
      BY <1>1, <1>3, <3>1
  <2>2. TotalLeft(new, M(q)) = TotalLeft(rows, M(q))
    BY <2>1, SameLeft
  <2>3. [i \in M(q) |-> new[i].used] = [i \in M(q) |-> rows[i].used]
    BY <2>1
  <2>. QED
    BY <1>5, <2>2, <2>3 DEF Pocket, UsedOf
<1>13. \A q \in People : IF q = p THEN UsedOf(rows, M(q)) + sum = UsedOf(new, M(q)) ELSE UsedOf(rows, M(q)) \in Int
  <2>. SUFFICES ASSUME NEW q \in People PROVE UsedOf(rows, M(q)) \in Int
    BY <1>9
  <2>. DEFINE f == [i \in M(q) |-> rows[i].used]
  <2>1. \A i \in M(q) : f[i] \in Int
    BY <1>1 DEF AllowanceRow
  <2>. HIDE DEF f
  <2>2. SumFunctionOnSet(f, M(q)) \in Int
    BY <1>1, <2>1, SumType
  <2>. QED
    BY <2>2 DEF UsedOf, f
<1>. QED
  BY <1>4, <1>5, <1>9, <1>11, <1>12, <1>13

----------------------------------------------------------------------------
(* Sums over readings.                                                     *)

\* What a reading that changes takes from the sum over some readings and adds to it.
LEMMA ReadingSums ==
    ASSUME NEW u \in [Readings -> Reading], NEW v \in [Readings -> Reading], NEW k \in Readings,
           \A j \in Readings \ {k} : v[j] = u[j],
           NEW A \in SUBSET Readings, NEW B \in SUBSET Readings, A \ {k} = B \ {k}
    PROVE  /\ Charges(v, B) = Charges(u, A) - (IF k \in A THEN u[k].charge ELSE 0)
                                + (IF k \in B THEN v[k].charge ELSE 0)
           /\ Promos(v, B) = Promos(u, A) - (IF k \in A THEN u[k].promo ELSE 0)
                               + (IF k \in B THEN v[k].promo ELSE 0)
<1>1. IsFiniteSet(A) /\ IsFiniteSet(B)
  BY MeteringAssumption, FS_Subset
<1>2. \A j \in Readings : /\ u[j].charge \in Nat /\ u[j].promo \in Nat
                           /\ v[j].charge \in Nat /\ v[j].promo \in Nat
  BY DEF Reading
<1>3. Charges(v, B) = Charges(u, A) - (IF k \in A THEN u[k].charge ELSE 0) + (IF k \in B THEN v[k].charge ELSE 0)
  <2>. DEFINE f == [j \in A |-> u[j].charge]
              g == [j \in B |-> v[j].charge]
  <2>1. /\ \A j \in A : f[j] = u[j].charge /\ f[j] \in Int
        /\ \A j \in B : g[j] = v[j].charge /\ g[j] \in Int
    BY <1>2
  <2>2. \A j \in A \ {k} : g[j] = f[j]
    BY <2>1
  <2>. HIDE DEF f, g
  <2>3. SumFunctionOnSet(g, B) = SumFunctionOnSet(f, A) - (IF k \in A THEN f[k] ELSE 0)
          + (IF k \in B THEN g[k] ELSE 0)
    <3>1. \A j \in A : f[j] \in Int
      BY <2>1
    <3>2. \A j \in B : g[j] \in Int
      BY <2>1
    <3>. QED
      BY ONLY SumSelected, <1>1, <3>1, <3>2, <2>2, A \ {k} = B \ {k}
  <2>. QED
    BY <2>1, <2>3 DEF Charges, f, g
<1>4. Promos(v, B) = Promos(u, A) - (IF k \in A THEN u[k].promo ELSE 0) + (IF k \in B THEN v[k].promo ELSE 0)
  <2>. DEFINE f == [j \in A |-> u[j].promo]
              g == [j \in B |-> v[j].promo]
  <2>1. /\ \A j \in A : f[j] = u[j].promo /\ f[j] \in Int
        /\ \A j \in B : g[j] = v[j].promo /\ g[j] \in Int
    BY <1>2
  <2>2. \A j \in A \ {k} : g[j] = f[j]
    BY <2>1
  <2>. HIDE DEF f, g
  <2>3. SumFunctionOnSet(g, B) = SumFunctionOnSet(f, A) - (IF k \in A THEN f[k] ELSE 0)
          + (IF k \in B THEN g[k] ELSE 0)
    <3>1. \A j \in A : f[j] \in Int
      BY <2>1
    <3>2. \A j \in B : g[j] \in Int
      BY <2>1
    <3>. QED
      BY ONLY SumSelected, <1>1, <3>1, <3>2, <2>2, A \ {k} = B \ {k}
  <2>. QED
    BY <2>1, <2>3 DEF Promos, f, g
<1>. QED
  BY <1>3, <1>4

\* The sums are integers, and over no reading they are zero.
LEMMA ReadingSumsType ==
    ASSUME NEW u \in [Readings -> Reading], NEW S \in SUBSET Readings
    PROVE  /\ Charges(u, S) \in Nat /\ Promos(u, S) \in Nat
           /\ S = {} => Charges(u, S) = 0
<1>1. IsFiniteSet(S)
  BY MeteringAssumption, FS_Subset
<1>2. \A j \in Readings : u[j].charge \in Nat /\ u[j].promo \in Nat
  BY DEF Reading
<1>3. Charges(u, S) \in Nat
  <2>. DEFINE f == [j \in S |-> u[j].charge]
  <2>1. \A j \in S : f[j] \in Nat
    BY <1>2
  <2>. HIDE DEF f
  <2>. QED
    BY <1>1, <2>1, SumNat DEF Charges, f
<1>4. Promos(u, S) \in Nat
  <2>. DEFINE f == [j \in S |-> u[j].promo]
  <2>1. \A j \in S : f[j] \in Nat
    BY <1>2
  <2>. HIDE DEF f
  <2>. QED
    BY <1>1, <2>1, SumNat DEF Promos, f
<1>5. S = {} => Charges(u, S) = 0
  BY SumEmpty DEF Charges
<1>. QED
  BY <1>3, <1>4, <1>5

\* A reading that is not charged before nor after.
QuietRow(x, y) ==
    y = x \/ (/\ x.state # "rated" /\ y.state # "rated"
              /\ y.charge = x.charge /\ y.promo = x.promo /\ y.under = x.under)

\* Readings that change without a charge leave all that is said of charges.
LEMMA QuietReadings ==
    ASSUME NEW u \in [Readings -> Reading], NEW v \in [Readings -> Reading],
           \A k \in Readings : QuietRow(u[k], v[k]),
           \A k \in Readings : ReadingSound(k, u[k]),
           MoneyTaken(u, bits), UsedPaid(allowances, u)
    PROVE  /\ \A k \in Readings : ReadingSound(k, v[k])
           /\ MoneyTaken(v, bits) /\ UsedPaid(allowances, v)
           /\ \A p \in People, s \in Services : \A b : BudgetSound(u, p, s, b) => BudgetSound(v, p, s, b)
<1>1. \A k \in Readings : ReadingSound(k, v[k])
  BY DEF QuietRow, ReadingSound
<1>2. \A p : PaidBy(v, p) = PaidBy(u, p)
  BY DEF QuietRow, PaidBy
<1>3. \A k \in Readings : v[k].charge = u[k].charge /\ v[k].promo = u[k].promo /\ v[k].under = u[k].under
  BY DEF QuietRow
<1>4. \A p, s, t : PaidUnder(v, p, s, t) = PaidUnder(u, p, s, t)
  BY <1>2, <1>3 DEF PaidUnder, PaidBy
<1>5. \A S \in SUBSET Readings : Charges(v, S) = Charges(u, S) /\ Promos(v, S) = Promos(u, S)
  <2>. SUFFICES ASSUME NEW S \in SUBSET Readings PROVE Charges(v, S) = Charges(u, S) /\ Promos(v, S) = Promos(u, S)
    OBVIOUS
  <2>1. [k \in S |-> v[k].charge] = [k \in S |-> u[k].charge] /\ [k \in S |-> v[k].promo] = [k \in S |-> u[k].promo]
    BY <1>3
  <2>. QED
    BY <2>1 DEF Charges, Promos
<1>6. \A p, s, t : PaidBy(u, p) \in SUBSET Readings /\ PaidUnder(u, p, s, t) \in SUBSET Readings
  BY DEF PaidBy, PaidUnder
<1>7. MoneyTaken(v, bits)
  BY <1>2, <1>5, <1>6 DEF MoneyTaken
<1>8. UsedPaid(allowances, v)
  BY <1>2, <1>5, <1>6 DEF UsedPaid
<1>9. ASSUME NEW p \in People, NEW s \in Services, NEW b, BudgetSound(u, p, s, b)
      PROVE  BudgetSound(v, p, s, b)
  <2>1. \A t \in DOMAIN b.rows : WindowSound(v, p, s, t, b.rows[t])
    BY <1>4, <1>5, <1>6, <1>9 DEF BudgetSound, WindowSound
  <2>2. \A k \in PaidBy(v, p), t \in 0..LastDay : <<s, t>> \in v[k].under => t \in DOMAIN b.rows
    BY <1>2, <1>3, <1>6, <1>9 DEF BudgetSound
  <2>. QED
    BY <1>9, <2>1, <2>2 DEF BudgetSound
<1>. QED
  BY <1>1, <1>7, <1>8, <1>9

\* A step that charges nothing, and touches no allowance, budget or account.
LEMMA QuietStep ==
    ASSUME MeterIInv, MeterTypes', UNCHANGED <<allowances, budgets, bits, taken>>,
           \A k \in Readings : QuietRow(usage[k], usage'[k])
    PROVE  MeterIInv'
<1>1. usage \in [Readings -> Reading] /\ usage' \in [Readings -> Reading]
  BY DEF MeterIInv, MeterTypes
<1>2. /\ \A k \in Readings : ReadingSound(k, usage'[k])
      /\ MoneyTaken(usage', bits) /\ UsedPaid(allowances, usage')
      /\ \A p \in People, s \in Services : \A b : BudgetSound(usage, p, s, b) => BudgetSound(usage', p, s, b)
  BY <1>1, QuietReadings DEF MeterIInv
<1>3. BudgetsSound'
  BY <1>2 DEF MeterIInv, BudgetsSound
<1>4. RowsSound(allowances') /\ \A p \in People : Pocket(allowances, bits, p)'
  BY DEF MeterIInv, Pocket
<1>. QED
  BY <1>2, <1>3, <1>4 DEF MeterIInv

----------------------------------------------------------------------------
(* The windows of budgets.                                                 *)

\* A sound row put among sound rows.
LEMMA PutSound ==
    ASSUME NEW v, NEW p, NEW s, NEW b, NEW row, WindowSound(v, p, s, row.start, row),
           \A t \in DOMAIN b.rows \ {row.start} : WindowSound(v, p, s, t, b.rows[t]),
           \A k \in PaidBy(v, p), t \in 0..LastDay : <<s, t>> \in v[k].under => t \in DOMAIN b.rows \cup {row.start}
    PROVE  BudgetSound(v, p, s, Put(b, row))
<1>. DEFINE new == Put(b, row)
            rows == [t \in DOMAIN b.rows \cup {row.start} |-> IF t = row.start THEN row ELSE b.rows[t]]
<1>1. new.newest = row.start /\ new.rows = rows
  BY DEF Put
<1>2. DOMAIN rows = DOMAIN b.rows \cup {row.start}
  OBVIOUS
<1>3. \A t \in DOMAIN rows : WindowSound(v, p, s, t, rows[t])
  <2>. SUFFICES ASSUME NEW t \in DOMAIN rows PROVE WindowSound(v, p, s, t, rows[t])
    OBVIOUS
  <2>1. CASE t = row.start
    <3>1. rows[t] = row
      BY <2>1
    <3>. QED
      BY <2>1, <3>1
  <2>2. CASE t # row.start
    <3>1. rows[t] = b.rows[t] /\ t \in DOMAIN b.rows \ {row.start}
      BY <2>2
    <3>. QED
      BY <3>1
  <2>. QED
    BY <2>1, <2>2
<1>. HIDE DEF new, rows
<1>. QED
  BY <1>1, <1>2, <1>3 DEF BudgetSound, new

\* A window without a row has no charge.
LEMMA NoRowNoCharge ==
    ASSUME NEW u \in [Readings -> Reading], NEW p \in People, NEW s \in Services, NEW b, BudgetSound(u, p, s, b),
           NEW t \in 0..LastDay, t \notin DOMAIN b.rows
    PROVE  Charges(u, PaidUnder(u, p, s, t)) = 0
<1>1. PaidUnder(u, p, s, t) = {}
  BY DEF BudgetSound, PaidUnder
<1>. QED
  BY <1>1, ReadingSumsType

\* The row of a window that rolls over.
Rolled(row, first, last) == [row EXCEPT !.start = first, !.end = last, !.spent = 0]

\* It keeps the policy.
LEMMA RolledOver ==
    ASSUME NEW row \in BudgetRow, NEW first \in 0..LastDay, NEW last \in Nat
    PROVE  LET new == Rolled(row, first, last)
           IN  /\ new \in BudgetRow /\ new.start = first /\ new.spent = 0
               /\ new.period = row.period /\ new.budget = row.budget
<1>1. first \in Nat
  BY MeteringAssumption
<1>. QED
  BY <1>1 DEF BudgetRow, Rolled

\* A budget that was set allows nothing, at the least.
LEMMA OwnerSet ==
    ASSUME NEW p, NEW s, NEW period, NEW n \in Nat, <<p, s, period, n>> \in BudgetSets
    PROVE  \E x \in BudgetSets : x[1] = p /\ x[2] = s /\ 0 =< x[4]
  OBVIOUS

\* The row a charge counts on is sound, stored or not.
LEMMA OpenRowSound ==
    ASSUME MeterIInv, NEW p \in People, NEW s \in Services, budgets[p, s] # NoBudget
    PROVE  WindowSound(usage, p, s, OpenRow(p, s).start, OpenRow(p, s))
<1>. DEFINE b == budgets[p, s]
            policy == b.rows[b.newest]
            start == WindowStart(policy.period, day)
            new == Rolled(policy, start, WindowEnd(policy.period, day))
<1>1. BudgetSound(usage, p, s, b) /\ usage \in [Readings -> Reading] /\ day \in 0..LastDay
  BY DEF MeterIInv, BudgetsSound, MeterTypes
<1>2. b.newest \in DOMAIN b.rows /\ \A t \in DOMAIN b.rows : WindowSound(usage, p, s, t, b.rows[t])
  BY <1>1 DEF BudgetSound
<1>3. OpenRow(p, s) = IF policy.end > day THEN policy ELSE IF start \in DOMAIN b.rows THEN b.rows[start] ELSE new
  BY DEF OpenRow, Rolled
<1>4. WindowSound(usage, p, s, b.newest, policy) /\ policy \in BudgetRow
      /\ <<p, s, policy.period, policy.budget>> \in BudgetSets
  BY <1>2 DEF WindowSound
<1>. HIDE DEF b
<1>5. start \in 0..LastDay /\ WindowEnd(policy.period, day) \in Nat
  BY <1>1, <1>4, WindowStartType DEF BudgetRow
<1>6. CASE policy.end > day
  BY <1>3, <1>4, <1>6 DEF WindowSound
<1>7. CASE ~(policy.end > day) /\ start \in DOMAIN b.rows
  <2>1. OpenRow(p, s) = b.rows[start] /\ WindowSound(usage, p, s, start, b.rows[start])
    BY <1>2, <1>3, <1>7
  <2>. HIDE DEF start
  <2>. QED
    BY <2>1 DEF WindowSound
<1>8. CASE ~(policy.end > day) /\ start \notin DOMAIN b.rows
  <2>1. OpenRow(p, s) = new
    BY <1>3, <1>8
  <2>2. Charges(usage, PaidUnder(usage, p, s, start)) = 0
    BY <1>1, <1>5, <1>8, NoRowNoCharge
  <2>3. /\ new \in BudgetRow /\ new.start = start /\ new.spent = 0
        /\ new.period = policy.period /\ new.budget = policy.budget
    <3>1. policy \in BudgetRow
      BY <1>4
    <3>. HIDE DEF policy, start
    <3>. QED
      BY <1>5, <3>1, RolledOver
  <2>4. \E x \in BudgetSets : x[1] = p /\ x[2] = s /\ 0 =< x[4]
    <3>1. policy.period \in Periods /\ policy.budget \in Nat
      BY <1>4 DEF BudgetRow
    <3>. HIDE DEF policy
    <3>. QED
      BY <1>4, <3>1, OwnerSet
  <2>. HIDE DEF new
  <2>. QED
    BY <1>4, <1>5, <2>1, <2>2, <2>3, <2>4 DEF WindowSound
<1>. QED
  BY <1>6, <1>7, <1>8

----------------------------------------------------------------------------
(* The steps.                                                              *)

\* What a sweep holds in each of its phases.
LEMMA RaterHolds ==
    ASSUME MeterTypes, NEW w \in Raters
    PROVE  /\ rater[w].phase = "rows" => rater[w].left \in SUBSET Readings
           /\ rater[w].phase = "rating" => /\ rater[w].left \in SUBSET Readings /\ rater[w].at \in Readings
                                           /\ rater[w].cards \in SUBSET Cards /\ rater[w].frozen \in BOOLEAN
           /\ rater[w].phase = "refused" => /\ rater[w].left \in SUBSET Readings /\ rater[w].at \in Readings
                                            /\ rater[w].error \in Refusals
<1>1. rater[w] \in RaterState
  BY DEF MeterTypes
<1>2. CASE rater[w] = Waiting
  BY <1>2 DEF Waiting
<1>3. CASE rater[w] # Waiting
  BY <1>1, <1>3 DEF RaterState
<1>. QED
  BY <1>2, <1>3

\* A sweep that goes on or ends.
LEMMA GoesOn ==
    ASSUME NEW left \in SUBSET Readings
    PROVE  GoOnRating(left) \in RaterState
<1>1. [phase |-> "rows", left |-> left] \in RaterState
  BY DEF RaterState
<1>. QED
  BY <1>1 DEF GoOnRating, RaterState

\* A row of the usage table with another state.
LEMMA Restated ==
    ASSUME NEW row \in Reading, NEW state \in {"none", "due", "later", "left"},
           NEW error \in {"", "no_subject", "amount_overflow"} \cup Retried \cup AwaitCard
    PROVE  [row EXCEPT !.state = state, !.error = error] \in Reading /\ [row EXCEPT !.state = state] \in Reading
  BY DEF Reading

\* Sweeps that read, wait or are lost, days and the freeze touch no row.
LEMMA SweepKeeps ==
    ASSUME MeterIInv,
           \/ \E w \in Raters : StartSweep(w) \/ \E k \in rater[w].left : BeginRating(w, k)
           \/ Freeze \/ NextDay \/ RestartRaters
    PROVE  MeterIInv'
<1>1. MeterTypes
  BY DEF MeterIInv
<1>2. /\ UNCHANGED <<cards, usage, allowances, budgets, bits, taken>>
      /\ rater' \in [Raters -> RaterState] /\ stopped' \in BOOLEAN /\ day' \in 0..LastDay
  <2>1. ASSUME NEW w \in Raters, StartSweep(w)
        PROVE  /\ UNCHANGED <<cards, usage, allowances, budgets, bits, stopped, day, taken>>
               /\ rater' \in [Raters -> RaterState]
    <3>1. [phase |-> "rows", left |-> {k \in Readings : usage[k].state = "due"}] \in RaterState
      BY DEF RaterState
    <3>. QED
      BY <1>1, <2>1, <3>1 DEF StartSweep, MeterTypes
  <2>2. ASSUME NEW w \in Raters, NEW k \in rater[w].left, BeginRating(w, k)
        PROVE  /\ UNCHANGED <<cards, usage, allowances, budgets, bits, stopped, day, taken>>
               /\ rater' \in [Raters -> RaterState]
    <3>. DEFINE rest == rater[w].left \ {k}
                begun == [phase |-> "rating", left |-> rest, at |-> k, cards |-> cards, frozen |-> stopped]
    <3>1. rater[w].left \in SUBSET Readings
      BY <1>1, <2>2, RaterHolds DEF BeginRating
    <3>2. GoOnRating(rest) \in RaterState
      BY <3>1, GoesOn
    <3>3. begun \in RaterState
      BY <1>1, <3>1 DEF RaterState, MeterTypes
    <3>4. rater' = [rater EXCEPT ![w] = IF Locked(k) THEN GoOnRating(rest) ELSE begun]
      BY <2>2 DEF BeginRating
    <3>. HIDE DEF rest, begun
    <3>. QED
      BY <1>1, <2>2, <3>2, <3>3, <3>4 DEF BeginRating, MeterTypes
  <2>3. CASE Freeze
    BY <1>1, <2>3 DEF Freeze, MeterTypes
  <2>4. CASE NextDay
    <3>1. day' \in 0..LastDay
      BY <1>1, <2>4, MeteringAssumption DEF NextDay, MeterTypes
    <3>. QED
      BY <1>1, <2>4, <3>1 DEF NextDay, MeterTypes
  <2>5. CASE RestartRaters
    <3>1. Waiting \in RaterState
      BY DEF RaterState
    <3>. QED
      BY <1>1, <2>5, <3>1 DEF RestartRaters, MeterTypes
  <2>. QED
    BY <1>1, <2>1, <2>2, <2>3, <2>4, <2>5 DEF MeterTypes
<1>3. MeterTypes'
  BY <1>1, <1>2 DEF MeterTypes
<1>. QED
  BY <1>2, <1>3, QuietStep DEF QuietRow

\* A reading that arrives, or is due again, costs nothing.
LEMMA RowKeeps ==
    ASSUME MeterIInv, NEW k \in Readings, Record(k) \/ RetryDue(k)
    PROVE  MeterIInv'
<1>1. MeterTypes /\ usage[k] \in Reading
  BY DEF MeterIInv, MeterTypes
<1>2. usage' = [usage EXCEPT ![k] = [usage[k] EXCEPT !.state = "due"]]
      /\ UNCHANGED <<cards, allowances, budgets, bits, stopped, rater, day, taken>>
      /\ usage[k].state # "rated"
  <2>1. usage \in [Readings -> Reading]
    BY <1>1 DEF MeterTypes
  <2>2. CASE Record(k)
    <3>0. NotStored.state = "none"
      BY DEF NotStored
    <3>1. usage[k].state = "none"
      BY <2>2, <3>0 DEF Record
    <3>. QED
      BY <2>1, <2>2, <3>1 DEF Record
  <2>3. CASE RetryDue(k)
    BY <2>1, <2>3 DEF RetryDue
  <2>. QED
    BY <2>2, <2>3
<1>3. [usage[k] EXCEPT !.state = "due"] \in Reading
  BY <1>1, Restated
<1>4. MeterTypes'
  BY <1>1, <1>2, <1>3 DEF MeterTypes
<1>5. \A j \in Readings : QuietRow(usage[j], usage'[j])
  BY <1>1, <1>2 DEF MeterTypes, QuietRow, Reading
<1>. QED
  BY <1>2, <1>4, <1>5, QuietStep

\* A card that is loaded costs nothing.
LEMMA LoadCardKeeps ==
    ASSUME MeterIInv, NEW c \in Cards, LoadCard(c)
    PROVE  MeterIInv'
<1>1. MeterTypes /\ \A k \in Readings : usage[k] \in Reading
  BY DEF MeterIInv, MeterTypes
<1>2. /\ usage' = [k \in Readings |->
            IF AwaitsCard(k, c) THEN [usage[k] EXCEPT !.state = "due", !.error = ""] ELSE usage[k]]
      /\ UNCHANGED <<allowances, budgets, bits, stopped, rater, day, taken>>
      /\ cards' \in SUBSET Cards
  BY <1>1 DEF LoadCard, MeterTypes
<1>3. \A k \in Readings : usage'[k] \in Reading /\ QuietRow(usage[k], usage'[k])
  <2>. SUFFICES ASSUME NEW k \in Readings PROVE usage'[k] \in Reading /\ QuietRow(usage[k], usage'[k])
    OBVIOUS
  <2>1. CASE AwaitsCard(k, c)
    <3>. DEFINE row == [usage[k] EXCEPT !.state = "due", !.error = ""]
    <3>1. usage'[k] = row
      BY <1>2, <2>1
    <3>2. row \in Reading
      BY <1>1, Restated
    <3>3. QuietRow(usage[k], row)
      BY <1>1, <2>1 DEF AwaitsCard, QuietRow, Reading
    <3>. QED
      BY <3>1, <3>2, <3>3
  <2>2. CASE ~AwaitsCard(k, c)
    <3>1. usage'[k] = usage[k]
      BY <1>2, <2>2
    <3>. QED
      BY <1>1, <3>1 DEF QuietRow
  <2>. QED
    BY <2>1, <2>2
<1>4. MeterTypes'
  <2>1. usage' \in [Readings -> Reading]
    BY <1>2, <1>3
  <2>. QED
    BY <1>1, <1>2, <2>1 DEF MeterTypes
<1>. QED
  BY <1>2, <1>3, <1>4, QuietStep

\* A budget that is set keeps what its window has spent.
LEMMA SetBudgetKeeps ==
    ASSUME MeterIInv, NEW set \in BudgetSets, SetBudget(set[1], set[2], set[3], set[4])
    PROVE  MeterIInv'
<1>. DEFINE p == set[1]
            s == set[2]
            b == budgets[p, s]
            start == WindowStart(set[3], day)
            spent == IF start \in DOMAIN b.rows THEN b.rows[start].spent ELSE 0
            row == [period |-> set[3], start |-> start, end |-> WindowEnd(set[3], day),
                    budget |-> set[4], spent |-> spent]
<1>1. /\ set = <<p, s, set[3], set[4]>>
      /\ p \in People /\ s \in Services /\ set[3] \in Periods /\ set[4] \in Nat
  BY MeteringAssumption
<1>2. /\ MeterTypes /\ usage \in [Readings -> Reading] /\ BudgetSound(usage, p, s, b)
      /\ DOMAIN budgets = People \X Services
  BY <1>1 DEF MeterIInv, MeterTypes, BudgetsSound
<1>3. start \in 0..LastDay /\ WindowEnd(set[3], day) \in Nat
  BY <1>1, <1>2, WindowStartType DEF MeterTypes
<1>4. /\ budgets' = [budgets EXCEPT ![<<p, s>>] = Put(b, row)]
      /\ UNCHANGED <<cards, usage, allowances, bits, stopped, rater, day, taken, restarts>>
  BY <1>1, <1>2 DEF SetBudget
<1>5. start \in Nat
  BY <1>3, MeteringAssumption
<1>6. /\ spent \in Nat /\ spent = Charges(usage, PaidUnder(usage, p, s, start))
      /\ \E x \in BudgetSets : x[1] = p /\ x[2] = s /\ spent =< x[4]
  <2>. HIDE DEF p, s, b, start
  <2>1. CASE start \in DOMAIN b.rows
    <3>1. WindowSound(usage, p, s, start, b.rows[start]) /\ spent = b.rows[start].spent
      BY <1>2, <2>1 DEF BudgetSound
    <3>. QED
      BY <3>1 DEF WindowSound, BudgetRow
  <2>2. CASE start \notin DOMAIN b.rows
    <3>1. spent = 0
      BY <2>2
    <3>2. Charges(usage, PaidUnder(usage, p, s, start)) = 0
      BY <1>1, <1>2, <1>3, <2>2, NoRowNoCharge
    <3>3. \E x \in BudgetSets : x[1] = p /\ x[2] = s /\ 0 =< x[4]
      BY <1>1, OwnerSet
    <3>. QED
      BY <3>1, <3>2, <3>3
  <2>. QED
    BY <2>1, <2>2
<1>. HIDE DEF p, s, b, start, spent
<1>7. WindowSound(usage, p, s, row.start, row)
  <2>1. row \in BudgetRow
    BY <1>1, <1>3, <1>5, <1>6 DEF BudgetRow
  <2>2. row.start = start /\ row.spent = spent /\ <<p, s, row.period, row.budget>> \in BudgetSets
    BY <1>1
  <2>. HIDE DEF row
  <2>. QED
    BY <1>3, <1>6, <2>1, <2>2 DEF WindowSound
<1>8. BudgetSound(usage, p, s, Put(b, row))
  <2>1. \A t \in DOMAIN b.rows : WindowSound(usage, p, s, t, b.rows[t])
    BY <1>2 DEF BudgetSound
  <2>2. \A k \in PaidBy(usage, p), t \in 0..LastDay : <<s, t>> \in usage[k].under => t \in DOMAIN b.rows
    BY <1>2 DEF BudgetSound
  <2>. HIDE DEF row
  <2>. QED
    BY <1>7, <2>1, <2>2, PutSound
<1>. HIDE DEF row
<1>9. BudgetsSound'
  <2>1. DOMAIN budgets' = People \X Services
    BY <1>2, <1>4
  <2>2. ASSUME NEW q \in People, NEW r \in Services
        PROVE  BudgetSound(usage, q, r, budgets'[q, r])
    <3>1. BudgetSound(usage, q, r, budgets[q, r])
      BY DEF MeterIInv, BudgetsSound
    <3>2. CASE q = p /\ r = s
      <4>1. budgets'[q, r] = Put(b, row)
        BY <1>1, <1>2, <1>4, <3>2
      <4>. QED
        BY <1>8, <3>2, <4>1
    <3>3. CASE ~(q = p /\ r = s)
      <4>1. budgets'[q, r] = budgets[q, r]
        BY <1>2, <1>4, <3>3
      <4>. QED
        BY <3>1, <4>1
    <3>. QED
      BY <3>2, <3>3
  <2>. QED
    BY <1>4, <2>1, <2>2 DEF BudgetsSound
<1>. QED
  BY <1>2, <1>4, <1>9 DEF MeterIInv, MeterTypes, Pocket

\* Bits an operator takes back leave the account short by as much.
LEMMA TakeBackKeeps ==
    ASSUME MeterIInv, NEW p \in People, TakeBack(p)
    PROVE  MeterIInv'
<1>1. MeterTypes /\ bits \in [MeterAccounts -> Int] /\ taken \in Nat
  BY DEF MeterIInv, MeterTypes
<1>2. /\ bits[Promo(p)] > 0 /\ taken' = taken + 1
      /\ bits' = [bits EXCEPT ![Promo(p)] = @ - 1, ![PromoReserve] = @ + 1]
      /\ UNCHANGED <<cards, usage, allowances, budgets, stopped, rater, day>>
  BY DEF TakeBack
<1>3. /\ bits' \in [MeterAccounts -> Int]
      /\ bits'[Promo(p)] = bits[Promo(p)] - 1
      /\ \A a \in MeterAccounts \ {Promo(p), PromoReserve} : bits'[a] = bits[a]
  BY <1>1, <1>2, AccountsApart
<1>4. MoneyTaken(usage, bits')
  BY <1>3, AccountsApart DEF MeterIInv, MoneyTaken
<1>5. \A q \in People : Pocket(allowances, bits, q)'
  <2>. SUFFICES ASSUME NEW q \in People PROVE Pocket(allowances, bits, q)'
    OBVIOUS
  <2>. DEFINE left == TotalLeft(allowances, Mine(allowances, q))
  <2>1. left \in Nat
    BY RowsFinite, LeftTogether DEF MeterIInv
  <2>2. bits[Promo(q)] \in 0..left /\ left - bits[Promo(q)] =< taken
    BY DEF MeterIInv, Pocket
  <2>3. bits'[Promo(q)] = bits[Promo(q)] - (IF q = p THEN 1 ELSE 0)
    BY <1>1, <1>3, AccountsApart
  <2>. HIDE DEF left
  <2>4. bits'[Promo(q)] \in 0..left /\ left - bits'[Promo(q)] =< taken'
    BY <1>1, <1>2, <2>1, <2>2, <2>3
  <2>. QED
    BY <1>2, <2>4 DEF Pocket, left
<1>6. MeterTypes'
  BY <1>1, <1>2, <1>3 DEF MeterTypes
<1>. QED
  BY <1>2, <1>4, <1>5, <1>6 DEF MeterIInv, BudgetsSound

\* A row that is granted bits, and what there is to say of it after.
GrantTo(rows, new, p, amount) ==
    \/ \E row \in AllowanceRow :
         /\ new = Append(rows, row) /\ row.person = p
         /\ row.granted = amount /\ row.used = 0 /\ row.expired = 0
    \/ \E i \in DOMAIN rows : new = [rows EXCEPT ![i].granted = @ + amount] /\ rows[i].person = p
GrantedAt(rows, new, i, p, amount) ==
    /\ new[i].person = p /\ DOMAIN new = DOMAIN rows \cup {i}
    /\ \A j \in DOMAIN new \ {i} : new[j] = rows[j] /\ j \in DOMAIN rows
    /\ new[i].used = IF i \in DOMAIN rows THEN rows[i].used ELSE 0
    /\ i \in DOMAIN rows => rows[i].person = p
    /\ Left(i, new) = (IF i \in DOMAIN rows THEN Left(i, rows) ELSE 0) + amount

\* A grant adds as much to a window as to the account.
LEMMA GrantedPocket ==
    ASSUME NEW rows, RowsSound(rows), NEW money \in [MeterAccounts -> Int], taken \in Nat,
           \A q \in People : Pocket(rows, money, q),
           NEW p \in People, NEW amount \in Nat,
           NEW new, RowsSound(new), NEW i \in DOMAIN new, GrantedAt(rows, new, i, p, amount),
           NEW after \in [MeterAccounts -> Int], after[Promo(p)] = money[Promo(p)] + amount,
           \A q \in People \ {p} : after[Promo(q)] = money[Promo(q)]
    PROVE  \A q \in People : Pocket(new, after, q) /\ UsedOf(new, Mine(new, q)) = UsedOf(rows, Mine(rows, q))
<1>0. /\ new[i].person = p /\ DOMAIN new = DOMAIN rows \cup {i}
      /\ \A j \in DOMAIN new \ {i} : new[j] = rows[j] /\ j \in DOMAIN rows
      /\ new[i].used = IF i \in DOMAIN rows THEN rows[i].used ELSE 0
      /\ i \in DOMAIN rows => rows[i].person = p
      /\ Left(i, new) = (IF i \in DOMAIN rows THEN Left(i, rows) ELSE 0) + amount
  BY DEF GrantedAt
<1>1. /\ \A j \in DOMAIN rows : Left(j, rows) \in Nat /\ rows[j].used \in Nat
      /\ \A j \in DOMAIN new : Left(j, new) \in Nat /\ new[j].used \in Nat
      /\ \A q : /\ IsFiniteSet(Mine(rows, q)) /\ Mine(rows, q) \subseteq DOMAIN rows
                /\ IsFiniteSet(Mine(new, q)) /\ Mine(new, q) \subseteq DOMAIN new
  BY RowsFinite DEF AllowanceRow
<1>2. \A q \in People \ {p} : Mine(new, q) = Mine(rows, q) /\ i \notin Mine(rows, q)
  BY <1>0 DEF Mine
<1>3. Mine(new, p) = Mine(rows, p) \cup {i} /\ (i \in Mine(rows, p) <=> i \in DOMAIN rows)
  BY <1>0 DEF Mine
<1>4. \A j \in DOMAIN new \ {i} : Left(j, new) = Left(j, rows) /\ new[j].used = rows[j].used
  BY <1>0 DEF Left
<1>5. ASSUME NEW q \in People \ {p}
      PROVE  Pocket(new, after, q) /\ UsedOf(new, Mine(new, q)) = UsedOf(rows, Mine(rows, q))
  <2>. DEFINE M == Mine(rows, q)
  <2>1. Mine(new, q) = M /\ \A j \in M : Left(j, new) = Left(j, rows) /\ new[j].used = rows[j].used
    BY <1>0, <1>1, <1>2, <1>4
  <2>. HIDE DEF M
  <2>2. TotalLeft(new, M) = TotalLeft(rows, M)
    BY <2>1, SameLeft
  <2>3. [j \in M |-> new[j].used] = [j \in M |-> rows[j].used]
    BY <2>1
  <2>. QED
    BY <2>1, <2>2, <2>3 DEF Pocket, UsedOf, M
<1>6. Pocket(new, after, p) /\ UsedOf(new, Mine(new, p)) = UsedOf(rows, Mine(rows, p))
  <2>. DEFINE M == Mine(rows, p)
              N == Mine(new, p)
              f == [j \in M |-> Left(j, rows)]
              g == [j \in N |-> Left(j, new)]
              uf == [j \in M |-> rows[j].used]
              ug == [j \in N |-> new[j].used]
  <2>1. IsFiniteSet(M) /\ IsFiniteSet(N) /\ M \subseteq DOMAIN rows /\ N \subseteq DOMAIN new /\ i \in N
    BY <1>1, <1>3
  <2>2. M \ {i} = N \ {i}
    BY <1>3
  <2>3. (\A j \in M : f[j] = Left(j, rows) /\ f[j] \in Int) /\ (\A j \in N : g[j] = Left(j, new) /\ g[j] \in Int)
    BY <1>1, <2>1
  <2>4. (\A j \in M : uf[j] = rows[j].used /\ uf[j] \in Int) /\ (\A j \in N : ug[j] = new[j].used /\ ug[j] \in Int)
    BY <1>1, <2>1
  <2>5. \A j \in M \ {i} : g[j] = f[j] /\ ug[j] = uf[j]
    BY <1>0, <1>4, <2>1, <2>2
  <2>. HIDE DEF M, N, f, g, uf, ug
  <2>6. SumFunctionOnSet(g, N) = SumFunctionOnSet(f, M) - (IF i \in M THEN f[i] ELSE 0)
          + (IF i \in N THEN g[i] ELSE 0)
    <3>1. (\A j \in M : f[j] \in Int) /\ (\A j \in N : g[j] \in Int) /\ \A j \in M \ {i} : g[j] = f[j]
      BY <2>3, <2>5
    <3>. QED
      BY ONLY SumSelected, <2>1, <2>2, <3>1
  <2>7. SumFunctionOnSet(ug, N) = SumFunctionOnSet(uf, M) - (IF i \in M THEN uf[i] ELSE 0)
          + (IF i \in N THEN ug[i] ELSE 0)
    <3>1. (\A j \in M : uf[j] \in Int) /\ (\A j \in N : ug[j] \in Int) /\ \A j \in M \ {i} : ug[j] = uf[j]
      BY <2>4, <2>5
    <3>. QED
      BY ONLY SumSelected, <2>1, <2>2, <3>1
  <2>8. SumFunctionOnSet(f, M) \in Int /\ SumFunctionOnSet(uf, M) \in Int
    <3>1. (\A j \in M : f[j] \in Int) /\ (\A j \in M : uf[j] \in Int)
      BY <2>3, <2>4
    <3>. QED
      BY <2>1, <3>1, SumType
  <2>9. /\ i \in M => f[i] = Left(i, rows) /\ uf[i] = rows[i].used /\ f[i] \in Int /\ uf[i] \in Int
        /\ g[i] = Left(i, new) /\ ug[i] = new[i].used /\ g[i] \in Int /\ ug[i] \in Int
        /\ i \in M <=> i \in DOMAIN rows
    BY <1>3, <2>1, <2>3, <2>4 DEF M
  <2>10. TotalLeft(new, N) = TotalLeft(rows, M) + amount
    <3>1. SumFunctionOnSet(g, N) = SumFunctionOnSet(f, M) + amount
      BY <1>0, <2>1, <2>6, <2>8, <2>9
    <3>. QED
      BY <3>1 DEF TotalLeft, f, g
  <2>11. UsedOf(new, N) = UsedOf(rows, M)
    <3>1. SumFunctionOnSet(ug, N) = SumFunctionOnSet(uf, M)
      BY <1>0, <2>1, <2>7, <2>8, <2>9
    <3>. QED
      BY <3>1 DEF UsedOf, uf, ug
  <2>12. TotalLeft(rows, M) \in Nat
    <3>1. M \in SUBSET DOMAIN rows
      BY <2>1
    <3>. QED
      BY <3>1, LeftTogether
  <2>13. money[Promo(p)] \in 0..TotalLeft(rows, M) /\ TotalLeft(rows, M) - money[Promo(p)] =< taken
    BY DEF Pocket, M
  <2>14. after[Promo(p)] \in 0..TotalLeft(new, N) /\ TotalLeft(new, N) - after[Promo(p)] =< taken
    BY <2>10, <2>12, <2>13
  <2>. QED
    BY <2>11, <2>14 DEF Pocket, M, N
<1>. QED
  BY <1>5, <1>6

\* Windows that end keep what was used of them.
LEMMA LapseUsed ==
    ASSUME MeterTypes, RowsSound(allowances), \A q \in People : Pocket(allowances, bits, q),
           UsedPaid(allowances, usage), NEW p \in People, NEW q \in People
    PROVE  UsedOf(Lapsed(p), Mine(Lapsed(p), q)) = Promos(usage, PaidBy(usage, q))
<1>. DEFINE rows == Lapsed(p)
<1>1. DOMAIN rows = DOMAIN allowances
      /\ \A i \in DOMAIN allowances : rows[i].person = allowances[i].person /\ rows[i].used = allowances[i].used
  BY LapseKeeps
<1>. HIDE DEF rows
<1>2. Mine(rows, q) = Mine(allowances, q) /\ Mine(allowances, q) \subseteq DOMAIN allowances
  BY <1>1 DEF Mine
<1>3. [i \in Mine(allowances, q) |-> rows[i].used] = [i \in Mine(allowances, q) |-> allowances[i].used]
  BY <1>1, <1>2
<1>4. UsedOf(rows, Mine(rows, q)) = UsedOf(allowances, Mine(allowances, q))
  BY <1>2, <1>3 DEF UsedOf
<1>. QED
  BY <1>4 DEF UsedPaid, rows

\* What a lapse and the moves after it leave of credit and revenue.
LEMMA OtherAccounts ==
    ASSUME MeterTypes, RowsSound(allowances), \A q \in People : Pocket(allowances, bits, q), NEW p \in People
    PROVE  /\ \A q \in People : AfterLapse(p)[CreditOf(q)] = bits[CreditOf(q)]
           /\ AfterLapse(p)[BitsRevenue] = bits[BitsRevenue]
<1>1. \A a \in MeterAccounts \ {Promo(p), PromoReserve} : AfterLapse(p)[a] = bits[a]
  BY LapseKeeps
<1>. QED
  BY <1>1, AccountsApart

\* A row at the end of the rows.
LEMMA AppendedRow ==
    ASSUME NEW rows \in Seq(AllowanceRow), NEW row \in AllowanceRow, NEW n, n = Len(rows)
    PROVE  LET new == Append(rows, row)
           IN  /\ new \in Seq(AllowanceRow) /\ DOMAIN new = 1..(n + 1) /\ new[n + 1] = row
               /\ \A j \in 1..n : new[j] = rows[j]
  BY AppendProperties

\* A granted row, new or added to.
LEMMA GrantedRow ==
    ASSUME NEW rows, RowsSound(rows), NEW new, NEW amount \in Nat, NEW p \in People,
           GrantTo(rows, new, p, amount)
    PROVE  RowsSound(new) /\ \E i \in DOMAIN new : GrantedAt(rows, new, i, p, amount)
<1>. DEFINE n == Len(rows)
<1>1. DOMAIN rows = 1..n /\ n \in Nat /\ \A i \in DOMAIN rows : rows[i] \in AllowanceRow
  BY RowsFinite
<1>2. ASSUME NEW row \in AllowanceRow, new = Append(rows, row), row.person = p,
             row.granted = amount, row.used = 0, row.expired = 0
      PROVE  RowsSound(new) /\ \E i \in DOMAIN new : GrantedAt(rows, new, i, p, amount)
  <2>1. /\ new \in Seq(AllowanceRow) /\ DOMAIN new = 1..(n + 1) /\ new[n + 1] = row
        /\ \A j \in 1..n : new[j] = rows[j]
    <3>1. rows \in Seq(AllowanceRow)
      BY DEF RowsSound
    <3>2. n = Len(rows)
      OBVIOUS
    <3>. HIDE DEF n
    <3>. QED
      BY <1>2, <3>1, <3>2, AppendedRow
  <2>2. n + 1 \in DOMAIN new /\ n + 1 \notin DOMAIN rows /\ DOMAIN new = DOMAIN rows \cup {n + 1}
    <3>1. n \in Nat /\ DOMAIN rows = 1..n /\ DOMAIN new = 1..(n + 1)
      BY <1>1, <2>1
    <3>. HIDE DEF n
    <3>. QED
      BY <3>1
  <2>3. \A j \in DOMAIN new \ {n + 1} : new[j] = rows[j] /\ j \in DOMAIN rows
    BY <1>1, <2>1, <2>2
  <2>4. Left(n + 1, new) = amount
    BY <1>2, <2>1 DEF Left
  <2>5. \A j \in DOMAIN new : new[j].used + new[j].expired =< new[j].granted
    <3>1. \A j \in DOMAIN rows : rows[j].used + rows[j].expired =< rows[j].granted
      BY DEF RowsSound
    <3>2. new[n + 1].used + new[n + 1].expired =< new[n + 1].granted
      BY <1>2, <2>1
    <3>. QED
      BY <2>2, <2>3, <3>1, <3>2
  <2>6. RowsSound(new)
    BY <2>1, <2>5 DEF RowsSound
  <2>7. new[n + 1].person = p /\ new[n + 1].used = 0
    BY <1>2, <2>1
  <2>. QED
    BY <2>2, <2>3, <2>4, <2>6, <2>7 DEF GrantedAt
<1>3. ASSUME NEW i \in DOMAIN rows, new = [rows EXCEPT ![i].granted = @ + amount], rows[i].person = p
      PROVE  RowsSound(new) /\ \E k \in DOMAIN new : GrantedAt(rows, new, k, p, amount)
  <2>. DEFINE row == [rows[i] EXCEPT !.granted = @ + amount]
  <2>1. DOMAIN new = DOMAIN rows /\ new[i] = row /\ \A j \in DOMAIN rows \ {i} : new[j] = rows[j]
    BY <1>1, <1>3
  <2>2. rows[i] \in AllowanceRow /\ rows[i].used + rows[i].expired =< rows[i].granted
    BY <1>1 DEF RowsSound
  <2>3. /\ row \in AllowanceRow /\ row.person = p /\ row.used = rows[i].used /\ row.expired = rows[i].expired
        /\ row.granted = rows[i].granted + amount /\ row.used + row.expired =< row.granted
    BY <1>3, <2>2 DEF AllowanceRow
  <2>. HIDE DEF row
  <2>4. Left(i, new) = Left(i, rows) + amount
    BY <2>1, <2>2, <2>3 DEF Left, AllowanceRow
  <2>5. \A j \in DOMAIN rows : new[j] \in AllowanceRow /\ new[j].used + new[j].expired =< new[j].granted
    BY <1>1, <2>1, <2>3 DEF RowsSound
  <2>6. RowsSound(new)
    <3>1. new = [j \in 1..n |-> new[j]]
      BY <1>1, <1>3
    <3>2. new \in [1..n -> AllowanceRow]
      BY <1>1, <2>5, <3>1
    <3>3. new \in Seq(AllowanceRow)
      BY <1>1, <3>2, IsRows
    <3>. QED
      BY <2>1, <2>5, <3>3 DEF RowsSound
  <2>. QED
    BY <1>3, <2>1, <2>3, <2>4, <2>6 DEF GrantedAt
<1>. QED
  BY <1>2, <1>3 DEF GrantTo

\* A grant adds to an allowance what it adds to the account.
LEMMA GrantKeeps ==
    ASSUME MeterIInv, NEW a \in Allowances, Grant(a[1], a[2], a[3], a[4])
    PROVE  MeterIInv'
<1>. DEFINE p == a[1]
            amount == a[4]
            rows == Lapsed(p)
            start == WindowStart(a[3], day)
            row == [person |-> p, service |-> a[2], period |-> a[3], start |-> start, end |-> WindowEnd(a[3], day),
                    granted |-> amount, used |-> 0, expired |-> 0]
            money == AfterLapse(p)
<1>1. p \in People /\ a[2] \in Services /\ a[3] \in Periods /\ amount \in Nat
  BY MeteringAssumption
<1>2. /\ MeterTypes /\ RowsSound(allowances) /\ \A q \in People : Pocket(allowances, bits, q)
      /\ UsedPaid(allowances, usage) /\ MoneyTaken(usage, bits) /\ taken \in Nat
  BY DEF MeterIInv, MeterTypes
<1>3. /\ RowsSound(rows) /\ money \in [MeterAccounts -> Int]
      /\ \A q \in People : Pocket(rows, money, q)
  BY <1>1, <1>2, LapseKeeps
<1>4. /\ bits' = [money EXCEPT ![PromoReserve] = @ - amount, ![Promo(p)] = @ + amount]
      /\ UNCHANGED <<cards, usage, budgets, stopped, rater, day, taken, restarts>>
  BY DEF Grant
<1>5. \/ allowances' = Append(rows, row)
      \/ \E i \in DOMAIN rows : allowances' = [rows EXCEPT ![i].granted = @ + amount] /\ rows[i].person = p
  BY DEF Grant
<1>6. row \in AllowanceRow
  <2>1. start \in 0..LastDay /\ WindowEnd(a[3], day) \in Nat
    BY <1>1, <1>2, WindowStartType DEF MeterTypes
  <2>. HIDE DEF start, p, amount
  <2>2. start \in Nat
    BY <2>1, MeteringAssumption
  <2>. QED
    BY <1>1, <2>1, <2>2 DEF AllowanceRow
<1>7. row.person = p /\ row.granted = amount /\ row.used = 0 /\ row.expired = 0
  OBVIOUS
<1>. HIDE DEF rows, money, p, amount, row, start
<1>8. RowsSound(allowances') /\ \E i \in DOMAIN allowances' : GrantedAt(rows, allowances', i, p, amount)
  <2>1. GrantTo(rows, allowances', p, amount)
    BY <1>5, <1>6, <1>7 DEF GrantTo
  <2>. QED
    BY <1>1, <1>3, <2>1, GrantedRow
<1>9. /\ bits' \in [MeterAccounts -> Int]
      /\ bits'[Promo(p)] = money[Promo(p)] + amount
      /\ \A q \in People \ {p} : bits'[Promo(q)] = money[Promo(q)]
      /\ \A q \in People : bits'[CreditOf(q)] = money[CreditOf(q)]
      /\ bits'[BitsRevenue] = money[BitsRevenue]
  BY <1>1, <1>3, <1>4, AccountsApart
<1>10. \A q \in People : /\ Pocket(allowances', bits', q)
                         /\ UsedOf(allowances', Mine(allowances', q)) = UsedOf(rows, Mine(rows, q))
  <2>1. PICK i \in DOMAIN allowances' : GrantedAt(rows, allowances', i, p, amount)
    BY <1>8
  <2>2. /\ RowsSound(allowances') /\ RowsSound(rows) /\ money \in [MeterAccounts -> Int] /\ taken \in Nat
        /\ p \in People /\ amount \in Nat
        /\ bits' \in [MeterAccounts -> Int] /\ bits'[Promo(p)] = money[Promo(p)] + amount
    BY <1>1, <1>2, <1>3, <1>8, <1>9
  <2>3. \A q \in People : Pocket(rows, money, q)
    BY <1>3
  <2>4. \A q \in People \ {p} : bits'[Promo(q)] = money[Promo(q)]
    BY <1>9
  <2>. QED
    BY ONLY GrantedPocket, <2>1, <2>2, <2>3, <2>4
<1>11. MoneyTaken(usage, bits')
  <2>1. (\A q \in People : bits'[CreditOf(q)] = bits[CreditOf(q)]) /\ bits'[BitsRevenue] = bits[BitsRevenue]
    BY <1>1, <1>2, <1>9, OtherAccounts DEF money
  <2>. QED
    BY <1>2, <2>1 DEF MoneyTaken
<1>12. UsedPaid(allowances', usage)
  BY <1>1, <1>2, <1>10, LapseUsed DEF UsedPaid, rows
<1>13. MeterTypes'
  BY <1>2, <1>4, <1>9 DEF MeterTypes
<1>. QED
  BY <1>4, <1>8, <1>10, <1>11, <1>12, <1>13 DEF MeterIInv, BudgetsSound, Pocket

----------------------------------------------------------------------------
(* A charge.                                                               *)

\* The draw of a reading is of its person's windows, no more than each has left, and
\* together no more than the reading costs nor than the account holds.
LEMMA DrawSound ==
    ASSUME MeterTypes, RowsSound(allowances), \A q \in People : Pocket(allowances, bits, q),
           NEW k \in Readings, NEW c \in Cards, NEW p \in People, p = ReadingOf[k].person,
           NEW d, d = Draw(k, c), NEW sum, sum = SumFunctionOnSet(d, DOMAIN d)
    PROVE  /\ DOMAIN d \subseteq Mine(Lapsed(p), p)
           /\ \A i \in DOMAIN d : d[i] \in 0..Left(i, Lapsed(p))
           /\ sum \in 0..AfterLapse(p)[Promo(p)] /\ sum \in 0..ChargeFor(c, ReadingOf[k].quantity)
<1>. DEFINE rows == Lapsed(p)
            usable == Usable(p, ReadingOf[k].service, rows)
            gross == ChargeFor(c, ReadingOf[k].quantity)
            pocket == AfterLapse(p)[Promo(p)]
            total == AtMostBits(gross, pocket)
<1>1. RowsSound(rows) /\ Pocket(rows, AfterLapse(p), p)
  BY LapseKeeps
<1>2. usable \in SUBSET DOMAIN rows /\ usable \subseteq Mine(rows, p)
  BY DEF Usable, Mine
<1>3. gross \in Nat
  BY ChargeForType
<1>4. pocket \in Nat
  <2>1. TotalLeft(rows, Mine(rows, p)) \in Nat
    BY <1>1, RowsFinite, LeftTogether
  <2>. QED
    BY <1>1, <2>1 DEF Pocket
<1>5. d = DrawnFrom(rows, usable, total)
  BY DEF Draw, Drawn
<1>. HIDE DEF rows, usable, gross, pocket
<1>6. total \in Nat /\ total =< gross /\ total =< pocket
  BY <1>3, <1>4 DEF AtMostBits
<1>. HIDE DEF total
<1>7. /\ DOMAIN d = usable
      /\ \A i \in usable : d[i] \in 0..Left(i, rows)
      /\ SumFunctionOnSet(d, usable) \in 0..total
  BY <1>1, <1>2, <1>5, <1>6, DrawnSum
<1>8. sum \in 0..gross /\ sum \in 0..pocket
  BY <1>3, <1>4, <1>6, <1>7
<1>. QED
  BY <1>2, <1>7, <1>8 DEF rows, gross, pocket

\* A reading that cost nothing is rated.
RatedTo(u, v, k, row) ==
    /\ u \in [Readings -> Reading] /\ k \in Readings
    /\ u[k].state # "rated" /\ u[k].charge = 0 /\ u[k].promo = 0
    /\ row \in Reading /\ row.state = "rated" /\ v = [u EXCEPT ![k] = row]

\* A reading that is rated adds its charge and its promo to the sums it belongs to.
LEMMA RatedSums ==
    ASSUME NEW u, NEW v, NEW k, NEW row, RatedTo(u, v, k, row), NEW p, p = ReadingOf[k].person
    PROVE  /\ \A q : /\ Charges(v, PaidBy(v, q)) = Charges(u, PaidBy(u, q)) + (IF q = p THEN row.charge ELSE 0)
                     /\ Promos(v, PaidBy(v, q)) = Promos(u, PaidBy(u, q)) + (IF q = p THEN row.promo ELSE 0)
           /\ Charges(v, Readings) = Charges(u, Readings) + row.charge
           /\ \A q, s, t : Charges(v, PaidUnder(v, q, s, t)) = Charges(u, PaidUnder(u, q, s, t))
                             + (IF q = p /\ <<s, t>> \in row.under THEN row.charge ELSE 0)
<1>1. /\ u \in [Readings -> Reading] /\ v \in [Readings -> Reading] /\ k \in Readings
      /\ v[k] = row /\ \A j \in Readings \ {k} : v[j] = u[j]
      /\ u[k].state # "rated" /\ u[k].charge = 0 /\ u[k].promo = 0 /\ row.state = "rated"
  BY DEF RatedTo
<1>2. row.charge \in Nat /\ row.promo \in Nat
  BY DEF Reading, RatedTo
<1>3. ASSUME NEW A \in SUBSET Readings, NEW B \in SUBSET Readings, A \ {k} = B \ {k}
      PROVE  /\ Charges(v, B) = Charges(u, A) + (IF k \in B THEN row.charge ELSE 0)
             /\ Promos(v, B) = Promos(u, A) + (IF k \in B THEN row.promo ELSE 0)
  <2>1. /\ Charges(v, B) = Charges(u, A) - (IF k \in A THEN u[k].charge ELSE 0) + (IF k \in B THEN v[k].charge ELSE 0)
        /\ Promos(v, B) = Promos(u, A) - (IF k \in A THEN u[k].promo ELSE 0) + (IF k \in B THEN v[k].promo ELSE 0)
    BY ONLY ReadingSums, <1>1, <1>3
  <2>2. Charges(u, A) \in Nat /\ Promos(u, A) \in Nat
    BY ONLY ReadingSumsType, <1>1, <1>3
  <2>. QED
    BY <1>1, <1>2, <2>1, <2>2
<1>4. ASSUME NEW q
      PROVE  /\ PaidBy(u, q) \in SUBSET Readings /\ PaidBy(v, q) \in SUBSET Readings
             /\ PaidBy(u, q) \ {k} = PaidBy(v, q) \ {k} /\ (k \in PaidBy(v, q) <=> q = p)
  BY <1>1 DEF PaidBy
<1>5. ASSUME NEW q, NEW s, NEW t
      PROVE  /\ PaidUnder(u, q, s, t) \in SUBSET Readings /\ PaidUnder(v, q, s, t) \in SUBSET Readings
             /\ PaidUnder(u, q, s, t) \ {k} = PaidUnder(v, q, s, t) \ {k}
             /\ k \in PaidUnder(v, q, s, t) <=> q = p /\ <<s, t>> \in row.under
  BY <1>1 DEF PaidUnder, PaidBy
<1>6. Charges(v, Readings) = Charges(u, Readings) + row.charge
  <2>1. Readings \in SUBSET Readings /\ Readings \ {k} = Readings \ {k}
    OBVIOUS
  <2>2. Charges(v, Readings) = Charges(u, Readings) + (IF k \in Readings THEN row.charge ELSE 0)
    BY ONLY <1>3, <2>1
  <2>. QED
    BY <1>1, <2>2
<1>7. ASSUME NEW q
      PROVE  /\ Charges(v, PaidBy(v, q)) = Charges(u, PaidBy(u, q)) + (IF q = p THEN row.charge ELSE 0)
             /\ Promos(v, PaidBy(v, q)) = Promos(u, PaidBy(u, q)) + (IF q = p THEN row.promo ELSE 0)
  <2>1. /\ Charges(v, PaidBy(v, q)) = Charges(u, PaidBy(u, q)) + (IF k \in PaidBy(v, q) THEN row.charge ELSE 0)
        /\ Promos(v, PaidBy(v, q)) = Promos(u, PaidBy(u, q)) + (IF k \in PaidBy(v, q) THEN row.promo ELSE 0)
    BY <1>3, <1>4
  <2>. QED
    BY <1>4, <2>1
<1>8. ASSUME NEW q, NEW s, NEW t
      PROVE  Charges(v, PaidUnder(v, q, s, t)) = Charges(u, PaidUnder(u, q, s, t))
               + (IF q = p /\ <<s, t>> \in row.under THEN row.charge ELSE 0)
  <2>1. Charges(v, PaidUnder(v, q, s, t)) = Charges(u, PaidUnder(u, q, s, t))
               + (IF k \in PaidUnder(v, q, s, t) THEN row.charge ELSE 0)
    <3>1. PaidUnder(u, q, s, t) \ {k} = PaidUnder(v, q, s, t) \ {k}
      BY <1>5
    <3>. QED
      BY ONLY <1>3, <1>5, <3>1
  <2>. QED
    BY <1>5, <2>1
<1>. QED
  BY <1>6, <1>7, <1>8

\* A window under which nothing was charged now counts what it did.
LEMMA OtherBudget ==
    ASSUME NEW u, NEW v, NEW k, NEW row, RatedTo(u, v, k, row),
           NEW q, NEW s, NEW t, NEW window, WindowSound(u, q, s, t, window),
           q = ReadingOf[k].person => <<s, t>> \notin row.under
    PROVE  WindowSound(v, q, s, t, window)
<1>. DEFINE p == ReadingOf[k].person
<1>1. Charges(v, PaidUnder(v, q, s, t)) = Charges(u, PaidUnder(u, q, s, t))
               + (IF q = p /\ <<s, t>> \in row.under THEN row.charge ELSE 0)
  <2>1. RatedTo(u, v, k, row) /\ p = ReadingOf[k].person
    OBVIOUS
  <2>. HIDE DEF p
  <2>. QED
    BY ONLY RatedSums, <2>1
<1>2. Charges(u, PaidUnder(u, q, s, t)) \in Nat
  BY ReadingSumsType DEF PaidUnder, PaidBy, RatedTo
<1>3. Charges(v, PaidUnder(v, q, s, t)) = Charges(u, PaidUnder(u, q, s, t))
  BY <1>1, <1>2
<1>. QED
  BY <1>3 DEF WindowSound

\* The windows a charge counts under.
UnderOf(p, service) == {<<s, OpenRow(p, s).start>> : s \in Budgeted(p, service)}

\* The budgets after a charge: an open window counts it once, the rest as before.
LEMMA SpentSound ==
    ASSUME MeterIInv, NEW k \in Readings, usage[k].state # "rated",
           NEW p \in People, p = ReadingOf[k].person, NEW service, service = ReadingOf[k].service,
           NEW row \in Reading, row.state = "rated", usage' = [usage EXCEPT ![k] = row],
           \/ UNCHANGED budgets /\ row.under = {}
           \/ /\ SpendBudgets(p, service, row.charge) /\ WithinBudgets(p, service, row.charge)
              /\ row.under = UnderOf(p, service),
           UNCHANGED day
    PROVE  BudgetsSound'
<1>1. /\ usage \in [Readings -> Reading] /\ usage[k].charge = 0 /\ usage[k].promo = 0
      /\ DOMAIN budgets = People \X Services
      /\ \A q \in People, s \in Services : BudgetSound(usage, q, s, budgets[q, s])
  BY DEF MeterIInv, MeterTypes, ReadingSound, BudgetsSound
<1>2. \A j \in Readings \ {k} : usage'[j] = usage[j]
  BY <1>1
<1>3. usage'[k] = row /\ RatedTo(usage, usage', k, row)
  BY <1>1 DEF RatedTo
<1>4. ASSUME NEW q \in People, NEW s \in Services, \A t : q = p => <<s, t>> \notin row.under,
             budgets'[q, s] = budgets[q, s]
      PROVE  BudgetSound(usage', q, s, budgets'[q, s])
  <2>. DEFINE b == budgets[q, s]
  <2>1. BudgetSound(usage, q, s, b)
    BY <1>1
  <2>. HIDE DEF b
  <2>2. ASSUME NEW t \in DOMAIN b.rows PROVE WindowSound(usage', q, s, t, b.rows[t])
    <3>1. WindowSound(usage, q, s, t, b.rows[t]) /\ t \in 0..LastDay
      BY <2>1 DEF BudgetSound, WindowSound
    <3>2. q = ReadingOf[k].person => <<s, t>> \notin row.under
      BY <1>4
    <3>. HIDE DEF b
    <3>. QED
      BY ONLY OtherBudget, <1>3, <3>1, <3>2
  <2>3. ASSUME NEW j \in PaidBy(usage', q), NEW t \in 0..LastDay, <<s, t>> \in usage'[j].under
        PROVE  t \in DOMAIN b.rows
    <3>1. j # k
      BY <1>3, <1>4, <2>3 DEF PaidBy
    <3>2. j \in PaidBy(usage, q) /\ <<s, t>> \in usage[j].under
      BY <1>2, <2>3, <3>1 DEF PaidBy
    <3>. QED
      BY <2>1, <3>2 DEF BudgetSound
  <2>. QED
    BY <1>4, <2>1, <2>2, <2>3 DEF BudgetSound, b
<1>5. CASE UNCHANGED budgets /\ row.under = {}
  BY <1>1, <1>4, <1>5 DEF BudgetsSound
<1>6. CASE /\ SpendBudgets(p, service, row.charge) /\ WithinBudgets(p, service, row.charge)
           /\ row.under = UnderOf(p, service)
  <2>1. /\ DOMAIN budgets' = People \X Services
        /\ \A q \in People, s \in Services :
             budgets'[q, s] = IF q = p /\ s \in Budgeted(p, service)
                              THEN Put(budgets[q, s], [OpenRow(p, s) EXCEPT !.spent = @ + row.charge])
                              ELSE budgets[q, s]
    BY <1>1, <1>6 DEF SpendBudgets
  <2>2. ASSUME NEW s \in Services, s \in Budgeted(p, service)
        PROVE  BudgetSound(usage', p, s, budgets'[p, s])
    <3>. DEFINE b == budgets[p, s]
                open == OpenRow(p, s)
                t == open.start
                new == [open EXCEPT !.spent = @ + row.charge]
    <3>1. WindowSound(usage, p, s, t, open) /\ BudgetSound(usage, p, s, b)
      BY <1>1, <2>2, OpenRowSound DEF Budgeted
    <3>2. open.spent + row.charge =< open.budget
      BY <1>6, <2>2 DEF WithinBudgets
    <3>3. <<s, t>> \in row.under /\ \A x : <<s, x>> \in row.under => x = t
      BY <1>6, <2>2 DEF UnderOf
    <3>4. budgets'[p, s] = Put(b, new)
      BY <2>1, <2>2
    <3>. HIDE DEF b, open
    <3>5. row.charge \in Nat
      BY DEF Reading
    <3>6. /\ new \in BudgetRow /\ new.start = t /\ t \in 0..LastDay /\ new.spent = open.spent + row.charge
          /\ new.period = open.period /\ new.budget = open.budget
      BY <3>1, <3>5 DEF WindowSound, BudgetRow
    <3>. HIDE DEF new, t
    <3>7. Charges(usage', PaidUnder(usage', p, s, t)) = Charges(usage, PaidUnder(usage, p, s, t)) + row.charge
      <4>1. p = ReadingOf[k].person
        OBVIOUS
      <4>2. Charges(usage', PaidUnder(usage', p, s, t)) = Charges(usage, PaidUnder(usage, p, s, t))
              + (IF p = p /\ <<s, t>> \in row.under THEN row.charge ELSE 0)
        BY ONLY RatedSums, <1>3, <4>1
      <4>. QED
        BY <3>3, <4>2
    <3>8. WindowSound(usage', p, s, new.start, new)
      <4>1. <<p, s, new.period, new.budget>> \in BudgetSets /\ open.spent = Charges(usage, PaidUnder(usage, p, s, t))
        BY <3>1, <3>6 DEF WindowSound
      <4>2. new.spent =< new.budget
        BY <3>2, <3>6
      <4>3. \E x \in BudgetSets : x[1] = p /\ x[2] = s /\ new.spent =< x[4]
        BY <4>1, <4>2
      <4>. QED
        BY <3>6, <3>7, <4>1, <4>3 DEF WindowSound
    <3>9. ASSUME NEW x \in DOMAIN b.rows \ {new.start} PROVE WindowSound(usage', p, s, x, b.rows[x])
      <4>1. WindowSound(usage, p, s, x, b.rows[x]) /\ x \in 0..LastDay
        BY <3>1 DEF BudgetSound, WindowSound
      <4>2. <<s, x>> \notin row.under
        BY <3>3, <3>6
      <4>. QED
        BY ONLY OtherBudget, <1>3, <4>1, <4>2
    <3>10. ASSUME NEW j \in PaidBy(usage', p), NEW x \in 0..LastDay, <<s, x>> \in usage'[j].under
           PROVE  x \in DOMAIN b.rows \cup {new.start}
      <4>1. CASE j = k
        BY <1>3, <3>3, <3>6, <3>10, <4>1
      <4>2. CASE j # k
        <5>1. j \in PaidBy(usage, p) /\ <<s, x>> \in usage[j].under
          BY <1>2, <3>10, <4>2 DEF PaidBy
        <5>. QED
          BY <3>1, <5>1 DEF BudgetSound
      <4>. QED
        BY <4>1, <4>2
    <3>11. BudgetSound(usage', p, s, Put(b, new))
      BY <3>8, <3>9, <3>10, PutSound
    <3>. QED
      BY <3>4, <3>11
  <2>3. ASSUME NEW q \in People, NEW s \in Services, ~(q = p /\ s \in Budgeted(p, service))
        PROVE  BudgetSound(usage', q, s, budgets'[q, s])
    <3>1. budgets'[q, s] = budgets[q, s]
      BY <2>1, <2>3
    <3>2. \A t : q = p => <<s, t>> \notin row.under
      BY <1>6, <2>3 DEF UnderOf
    <3>. QED
      BY <1>4, <3>1, <3>2
  <2>. QED
    BY <2>1, <2>2, <2>3 DEF BudgetsSound
<1>. QED
  BY <1>5, <1>6

\* What a charge moves between the accounts of a person.
Moved(money, p, sum, charge) ==
    [money EXCEPT ![Promo(p)] = @ - sum, ![PromoReserve] = @ + sum,
                  ![CreditOf(p)] = @ - charge, ![BitsRevenue] = @ + charge]

\* No other account of a person is moved, and none of anyone else.
LEMMA MovedBits ==
    ASSUME NEW money \in [MeterAccounts -> Int], NEW p \in People, NEW sum \in Int, NEW charge \in Int,
           NEW new, new = Moved(money, p, sum, charge)
    PROVE  /\ new \in [MeterAccounts -> Int]
           /\ new[Promo(p)] = money[Promo(p)] - sum /\ new[CreditOf(p)] = money[CreditOf(p)] - charge
           /\ new[BitsRevenue] = money[BitsRevenue] + charge
           /\ \A q \in People \ {p} : new[Promo(q)] = money[Promo(q)] /\ new[CreditOf(q)] = money[CreditOf(q)]
<1>. DEFINE a == Promo(p)
            b == CreditOf(p)
<1>1. /\ {a, b, PromoReserve, BitsRevenue} \subseteq MeterAccounts /\ a # b /\ PromoReserve # BitsRevenue
      /\ a \notin {PromoReserve, BitsRevenue} /\ b \notin {PromoReserve, BitsRevenue}
      /\ \A q \in People \ {p} : /\ Promo(q) \in MeterAccounts \ {a, b, PromoReserve, BitsRevenue}
                                 /\ CreditOf(q) \in MeterAccounts \ {a, b, PromoReserve, BitsRevenue}
  BY AccountsApart
<1>2. new = [money EXCEPT ![a] = @ - sum, ![PromoReserve] = @ + sum, ![b] = @ - charge, ![BitsRevenue] = @ + charge]
  BY DEF Moved
<1>. HIDE DEF a, b
<1>3. /\ new \in [MeterAccounts -> Int]
      /\ new[a] = money[a] - sum /\ new[b] = money[b] - charge /\ new[BitsRevenue] = money[BitsRevenue] + charge
      /\ \A x \in MeterAccounts \ {a, b, PromoReserve, BitsRevenue} : new[x] = money[x]
  BY <1>1, <1>2
<1>. QED
  BY <1>1, <1>3 DEF a, b

\* The rows a draw leaves, and the row of a reading that is rated.
DrawnRows(rows, d) ==
    [i \in DOMAIN rows |-> IF i \in DOMAIN d THEN [rows[i] EXCEPT !.used = @ + d[i]] ELSE rows[i]]
RatedRow(k, c, d) ==
    [state |-> "rated", error |-> "", charge |-> ToCharge(k, c, d),
     promo |-> ChargeFor(c, ReadingOf[k].quantity) - ToCharge(k, c, d), card |-> c.id,
     under |-> IF ToCharge(k, c, d) = 0 THEN {}
               ELSE UnderOf(ReadingOf[k].person, ReadingOf[k].service)]

\* A charge that is not refused, part by part.
ChargeEffect(k, p, service, d, gross, charge, row) ==
    /\ usage' = [usage EXCEPT ![k] = row]
    /\ gross = 0 => UNCHANGED <<allowances, bits>>
    /\ gross # 0 => /\ allowances' = DrawnRows(Lapsed(p), d)
                    /\ bits' = Moved(AfterLapse(p), p, gross - charge, charge)
    /\ IF charge = 0 THEN UNCHANGED budgets ELSE SpendBudgets(p, service, charge)
    /\ ~(charge > bits[CreditOf(p)])
    /\ ~(charge > 0 /\ ~WithinBudgets(p, service, charge))

\* A charge that is not refused has these parts.
LEMMA ChargeParts ==
    ASSUME NEW k \in Readings, NEW p, p = ReadingOf[k].person, NEW c, NEW d, Refusal(k, c, d) = "", Charge(k, c, d),
           NEW gross, gross = ChargeFor(c, ReadingOf[k].quantity), NEW charge, charge = ToCharge(k, c, d)
    PROVE  ChargeEffect(k, p, ReadingOf[k].service, d, gross, charge, RatedRow(k, c, d))
<1>1. ~(charge > bits[CreditOf(p)]) /\ ~(charge > 0 /\ ~WithinBudgets(p, ReadingOf[k].service, charge))
  BY DEF Refusal
<1>2. usage' = [usage EXCEPT ![k] = RatedRow(k, c, d)]
  BY DEF Charge, RatedRow, UnderOf
<1>3. gross = 0 => UNCHANGED <<allowances, bits>>
  BY DEF Charge
<1>4. gross # 0 => allowances' = DrawnRows(Lapsed(p), d)
  BY DEF Charge, DrawnRows
<1>5. gross # 0 => bits' = Moved(AfterLapse(p), p, gross - charge, charge)
  BY DEF Charge, Moved
<1>6. IF charge = 0 THEN UNCHANGED budgets ELSE SpendBudgets(p, ReadingOf[k].service, charge)
  BY DEF Charge
<1>. QED
  BY <1>1, <1>2, <1>3, <1>4, <1>5, <1>6 DEF ChargeEffect

\* The row of a rated reading is a reading's row, and what it says was charged.
LEMMA RatedRowSound ==
    ASSUME MeterIInv, NEW k \in Readings, NEW p \in People, p = ReadingOf[k].person,
           NEW c \in Cards, Fits(c, ReadingOf[k]), NEW d, NEW charge \in Nat, charge = ToCharge(k, c, d),
           NEW promo \in Nat, charge + promo = ChargeFor(c, ReadingOf[k].quantity),
           NEW row, row = RatedRow(k, c, d)
    PROVE  /\ row \in Reading /\ row.state = "rated" /\ row.charge = charge /\ row.promo = promo
           /\ ReadingSound(k, row)
           /\ row.under = IF charge = 0 THEN {} ELSE UnderOf(p, ReadingOf[k].service)
<1>. DEFINE gross == ChargeFor(c, ReadingOf[k].quantity)
            under == IF charge = 0 THEN {} ELSE UnderOf(p, ReadingOf[k].service)
<1>1. /\ row.state = "rated" /\ row.error = "" /\ row.charge = charge /\ row.promo = gross - charge
      /\ row.card = c.id /\ row.under = under
      /\ row = [state |-> row.state, error |-> row.error, charge |-> row.charge, promo |-> row.promo,
                card |-> row.card, under |-> row.under]
  BY DEF RatedRow
<1>2. gross \in Nat /\ gross - charge = promo
  BY ChargeForType
<1>3. under \subseteq Services \X (0..LastDay)
  <2>1. ASSUME NEW s \in Budgeted(p, ReadingOf[k].service)
        PROVE  s \in Services /\ OpenRow(p, s).start \in 0..LastDay
    <3>1. s \in Services /\ budgets[p, s] # NoBudget
      BY <2>1 DEF Budgeted, Services
    <3>2. WindowSound(usage, p, s, OpenRow(p, s).start, OpenRow(p, s))
      BY <3>1, OpenRowSound
    <3>. QED
      BY <3>1, <3>2 DEF WindowSound
  <2>. QED
    BY <2>1 DEF UnderOf
<1>4. c.id \in Nat
  BY MeteringAssumption
<1>. HIDE DEF gross, under
<1>5. row \in Reading
  BY <1>1, <1>2, <1>3, <1>4 DEF Reading
<1>6. ReadingSound(k, row)
  <2>1. row.charge + row.promo = ChargeFor(c, ReadingOf[k].quantity)
    BY <1>1, <1>2 DEF gross
  <2>. QED
    BY <1>1, <2>1 DEF ReadingSound
<1>. QED
  BY <1>1, <1>2, <1>5, <1>6 DEF under

\* A charge moves the reading, the windows, the accounts and the budgets by one sum.
LEMMA ChargeKeeps ==
    ASSUME MeterIInv, NEW k \in Readings, usage[k].state # "rated", NEW p \in People, p = ReadingOf[k].person,
           NEW c \in Cards, Fits(c, ReadingOf[k]),
           NEW d, d = Draw(k, c), Refusal(k, c, d) = "", Charge(k, c, d),
           rater' \in [Raters -> RaterState], UNCHANGED <<cards, stopped, day, taken>>
    PROVE  MeterIInv'
<1>0. PICK gross, sum, charge, rows, money, row, service :
        /\ gross = ChargeFor(c, ReadingOf[k].quantity) /\ sum = SumFunctionOnSet(d, DOMAIN d)
        /\ charge = ToCharge(k, c, d) /\ rows = Lapsed(p) /\ money = AfterLapse(p)
        /\ row = RatedRow(k, c, d) /\ service = ReadingOf[k].service
  OBVIOUS
<1>1. /\ MeterTypes /\ RowsSound(allowances) /\ \A q \in People : Pocket(allowances, bits, q)
      /\ UsedPaid(allowances, usage) /\ MoneyTaken(usage, bits)
      /\ usage \in [Readings -> Reading] /\ bits \in [MeterAccounts -> Int] /\ taken \in Nat
      /\ usage[k].charge = 0 /\ usage[k].promo = 0
  BY DEF MeterIInv, MeterTypes, ReadingSound
<1>2. /\ RowsSound(rows) /\ money \in [MeterAccounts -> Int] /\ \A q \in People : Pocket(rows, money, q)
  BY <1>0, <1>1, LapseKeeps
<1>3. /\ DOMAIN d \subseteq Mine(rows, p) /\ \A i \in DOMAIN d : d[i] \in 0..Left(i, rows)
      /\ sum \in 0..money[Promo(p)] /\ sum \in 0..gross
  BY <1>0, <1>1, DrawSound
<1>4. /\ gross \in Nat /\ sum \in Nat /\ charge = gross - sum /\ charge \in Nat
      /\ gross - charge = sum /\ charge + sum = gross
  <2>1. gross \in Nat
    BY <1>0, ChargeForType
  <2>2. charge = gross - sum
    BY <1>0 DEF ToCharge
  <2>3. sum \in 0..gross
    BY <1>3
  <2>. QED
    BY ONLY <2>1, <2>2, <2>3
<1>5. /\ usage' = [usage EXCEPT ![k] = row]
      /\ gross = 0 => UNCHANGED <<allowances, bits>>
      /\ gross # 0 =>
           /\ allowances' = DrawnRows(rows, d)
           /\ bits' = Moved(money, p, gross - charge, charge)
      /\ IF charge = 0 THEN UNCHANGED budgets ELSE SpendBudgets(p, service, charge)
      /\ ~(charge > bits[CreditOf(p)])
      /\ ~(charge > 0 /\ ~WithinBudgets(p, service, charge))
  <2>1. /\ k \in Readings /\ p = ReadingOf[k].person /\ Refusal(k, c, d) = "" /\ Charge(k, c, d)
        /\ gross = ChargeFor(c, ReadingOf[k].quantity) /\ charge = ToCharge(k, c, d)
    BY <1>0
  <2>2. ChargeEffect(k, p, ReadingOf[k].service, d, gross, charge, RatedRow(k, c, d))
    BY ONLY ChargeParts, <2>1
  <2>3. rows = Lapsed(p) /\ money = AfterLapse(p) /\ row = RatedRow(k, c, d) /\ service = ReadingOf[k].service
    BY <1>0
  <2>. QED
    BY ONLY <2>2, <2>3 DEF ChargeEffect
<1>6. /\ row \in Reading /\ row.state = "rated" /\ row.charge = charge /\ row.promo = sum /\ ReadingSound(k, row)
      /\ row.under = IF charge = 0 THEN {} ELSE UnderOf(p, service)
  <2>1. /\ charge \in Nat /\ sum \in Nat /\ charge + sum = ChargeFor(c, ReadingOf[k].quantity)
        /\ charge = ToCharge(k, c, d)
    BY <1>0, <1>4
  <2>2. /\ MeterIInv /\ k \in Readings /\ p \in People /\ p = ReadingOf[k].person
        /\ c \in Cards /\ Fits(c, ReadingOf[k])
        /\ row = RatedRow(k, c, d) /\ service = ReadingOf[k].service
    BY <1>0
  <2>. QED
    BY ONLY RatedRowSound, <2>1, <2>2
<1>7. RatedTo(usage, usage', k, row)
  BY <1>1, <1>5, <1>6 DEF RatedTo
<1>8. /\ \A q : /\ Charges(usage', PaidBy(usage', q))
                     = Charges(usage, PaidBy(usage, q)) + (IF q = p THEN charge ELSE 0)
                /\ Promos(usage', PaidBy(usage', q))
                     = Promos(usage, PaidBy(usage, q)) + (IF q = p THEN sum ELSE 0)
      /\ Charges(usage', Readings) = Charges(usage, Readings) + charge
  <2>1. p = ReadingOf[k].person
    BY <1>0
  <2>2. /\ \A q : /\ Charges(usage', PaidBy(usage', q))
                       = Charges(usage, PaidBy(usage, q)) + (IF q = p THEN row.charge ELSE 0)
                  /\ Promos(usage', PaidBy(usage', q))
                       = Promos(usage, PaidBy(usage, q)) + (IF q = p THEN row.promo ELSE 0)
        /\ Charges(usage', Readings) = Charges(usage, Readings) + row.charge
    BY ONLY RatedSums, <1>7, <2>1
  <2>. QED
    BY <1>6, <2>2
<1>9. \A j \in Readings : ReadingSound(j, usage'[j])
  <2>1. \A j \in Readings \ {k} : usage'[j] = usage[j]
    BY <1>1, <1>5
  <2>2. usage'[k] = row
    BY <1>1, <1>5
  <2>. QED
    BY <1>6, <2>1, <2>2 DEF MeterIInv
<1>10. /\ bits' \in [MeterAccounts -> Int] /\ RowsSound(allowances')
       /\ \A q \in People : Pocket(allowances', bits', q)
       /\ \A q \in People : UsedOf(allowances', Mine(allowances', q))
                               = Promos(usage, PaidBy(usage, q)) + (IF q = p THEN sum ELSE 0)
       /\ bits'[CreditOf(p)] = bits[CreditOf(p)] - charge
       /\ \A q \in People \ {p} : bits'[CreditOf(q)] = bits[CreditOf(q)]
       /\ bits'[BitsRevenue] = bits[BitsRevenue] + charge
  <2>1. CASE gross = 0
    <3>1. sum = 0 /\ charge = 0 /\ allowances' = allowances /\ bits' = bits
      <4>1. sum = 0 /\ charge = 0
        BY ONLY <1>3, <1>4, <2>1
      <4>. QED
        BY ONLY <1>5, <2>1, <4>1
    <3>2. bits[CreditOf(p)] \in Int /\ bits[BitsRevenue] \in Int
      BY <1>1, AccountsApart
    <3>3. \A q \in People : UsedOf(allowances, Mine(allowances, q)) = Promos(usage, PaidBy(usage, q))
                            /\ Promos(usage, PaidBy(usage, q)) \in Nat
      BY <1>1, ReadingSumsType DEF UsedPaid, PaidBy
    <3>. QED
      BY ONLY <1>1, <3>1, <3>2, <3>3
  <2>2. CASE gross # 0
    <3>1. /\ allowances' = DrawnRows(rows, d)
          /\ bits' = Moved(money, p, sum, charge)
      BY <1>4, <1>5, <2>2
    <3>2. /\ bits' \in [MeterAccounts -> Int]
          /\ bits'[Promo(p)] = money[Promo(p)] - sum /\ bits'[CreditOf(p)] = money[CreditOf(p)] - charge
          /\ bits'[BitsRevenue] = money[BitsRevenue] + charge
          /\ \A q \in People \ {p} : bits'[Promo(q)] = money[Promo(q)] /\ bits'[CreditOf(q)] = money[CreditOf(q)]
      <4>1. p \in People
        BY <1>0
      <4>. QED
        BY ONLY MovedBits, <1>2, <1>4, <3>1, <4>1
    <3>3. (\A q \in People : money[CreditOf(q)] = bits[CreditOf(q)]) /\ money[BitsRevenue] = bits[BitsRevenue]
      BY <1>0, <1>1, OtherAccounts
    <3>4. sum = SumFunctionOnSet(d, DOMAIN d)
      BY <1>0
    <3>5. \A q \in People \ {p} : bits'[Promo(q)] = money[Promo(q)]
      BY <3>2
    <3>6. /\ RowsSound(allowances') /\ \A q \in People : Pocket(allowances', bits', q)
          /\ \A q \in People : UsedOf(allowances', Mine(allowances', q))
                                  = UsedOf(rows, Mine(rows, q)) + (IF q = p THEN sum ELSE 0)
      BY ONLY DrawKeeps, <1>1, <1>2, <1>3, <3>1, <3>2, <3>4, <3>5, p \in People DEF DrawnRows
    <3>7. \A q \in People : UsedOf(rows, Mine(rows, q)) = Promos(usage, PaidBy(usage, q))
      BY <1>0, <1>1, LapseUsed
    <3>. QED
      <4>1. p \in People
        BY <1>0
      <4>. QED
        BY ONLY <3>2, <3>3, <3>6, <3>7, <4>1
  <2>. QED
    BY <2>1, <2>2
<1>11. UsedPaid(allowances', usage')
  BY <1>8, <1>10 DEF UsedPaid
<1>12. MoneyTaken(usage', bits')
  <2>1. \A q \in People : Charges(usage, PaidBy(usage, q)) \in Nat /\ bits[CreditOf(q)] \in Int
    BY <1>1, ReadingSumsType, AccountsApart DEF PaidBy
  <2>2. Money \in Nat
    BY MeteringAssumption
  <2>3. ASSUME NEW q \in People
        PROVE  bits'[CreditOf(q)] >= 0 /\ bits'[CreditOf(q)] = Money - Charges(usage', PaidBy(usage', q))
    <3>1. bits[CreditOf(q)] >= 0 /\ bits[CreditOf(q)] = Money - Charges(usage, PaidBy(usage, q))
      BY <1>1 DEF MoneyTaken
    <3>2. CASE q = p
      <4>1. charge \in Nat /\ ~(charge > bits[CreditOf(p)])
        BY <1>4, <1>5
      <4>. QED
        BY ONLY <4>1, <1>8, <1>10, <2>1, <2>2, <3>1, <3>2
    <3>3. CASE q # p
      BY ONLY <1>8, <1>10, <2>1, <2>2, <3>1, <3>3
    <3>. QED
      BY <3>2, <3>3
  <2>4. bits'[BitsRevenue] = Charges(usage', Readings)
    BY <1>1, <1>8, <1>10 DEF MoneyTaken
  <2>. QED
    BY <2>3, <2>4 DEF MoneyTaken
<1>13. BudgetsSound'
  <2>1. \/ UNCHANGED budgets /\ row.under = {}
        \/ /\ SpendBudgets(p, service, row.charge) /\ WithinBudgets(p, service, row.charge)
           /\ row.under = UnderOf(p, service)
    BY ONLY <1>4, <1>5, <1>6
  <2>2. row \in Reading /\ row.state = "rated" /\ usage' = [usage EXCEPT ![k] = row] /\ UNCHANGED day
    BY <1>5, <1>6
  <2>. QED
    <3>1. /\ MeterIInv /\ k \in Readings /\ usage[k].state # "rated" /\ p \in People /\ p = ReadingOf[k].person
          /\ service = ReadingOf[k].service
      BY <1>0
    <3>. QED
      BY ONLY SpentSound, <2>1, <2>2, <3>1
<1>14. MeterTypes'
  BY <1>1, <1>5, <1>6, <1>10 DEF MeterTypes
<1>15. \A q \in People : Pocket(allowances, bits, q)'
  BY <1>10 DEF Pocket
<1>. QED
  BY ONLY <1>9, <1>10, <1>11, <1>12, <1>13, <1>14, <1>15 DEF MeterIInv

\* A row that leaves the queue, or is put back, without a charge.
LEMMA RestatedStep ==
    ASSUME MeterIInv, NEW k \in Readings, usage[k].state # "rated",
           NEW state \in {"none", "due", "later", "left"},
           NEW error \in {"", "no_subject", "amount_overflow"} \cup Retried \cup AwaitCard,
           usage' = [usage EXCEPT ![k] = [usage[k] EXCEPT !.state = state, !.error = error]],
           rater' \in [Raters -> RaterState], UNCHANGED <<cards, allowances, budgets, bits, stopped, day, taken>>
    PROVE  MeterIInv'
<1>1. MeterTypes /\ usage \in [Readings -> Reading] /\ usage[k] \in Reading
  BY DEF MeterIInv, MeterTypes
<1>2. [usage[k] EXCEPT !.state = state, !.error = error] \in Reading
  BY <1>1, Restated
<1>3. QuietRow(usage[k], [usage[k] EXCEPT !.state = state, !.error = error])
  BY <1>1 DEF QuietRow, Reading
<1>4. \A j \in Readings : QuietRow(usage[j], usage'[j])
  <2>1. usage'[k] = [usage[k] EXCEPT !.state = state, !.error = error]
    BY <1>1
  <2>2. \A j \in Readings \ {k} : usage'[j] = usage[j]
    BY <1>1
  <2>3. \A j \in Readings \ {k} : QuietRow(usage[j], usage'[j])
    BY <2>2 DEF QuietRow
  <2>. QED
    BY <1>3, <2>1, <2>3
<1>5. MeterTypes'
  BY <1>1, <1>2 DEF MeterTypes
<1>. QED
  BY <1>4, <1>5, QuietStep

\* A sweep that charges nothing.
LEMMA SweptStep ==
    ASSUME MeterIInv, rater' \in [Raters -> RaterState],
           UNCHANGED <<cards, usage, allowances, budgets, bits, stopped, day, taken>>
    PROVE  MeterIInv'
<1>1. MeterTypes'
  BY DEF MeterIInv, MeterTypes
<1>. QED
  BY <1>1, QuietStep DEF QuietRow

\* A rating: a replay, a freeze, a reading left, a charge or a refusal.
LEMMA RateKeeps ==
    ASSUME MeterIInv, NEW w \in Raters, Rate(w)
    PROVE  MeterIInv'
<1>1. /\ MeterTypes /\ rater[w].phase = "rating" /\ rater \in [Raters -> RaterState]
      /\ UNCHANGED <<cards, stopped, day, taken, restarts>>
  BY DEF MeterIInv, MeterTypes, Rate
<1>2. PICK k, done, fit :
        /\ k = rater[w].at /\ done = GoOnRating(rater[w].left) /\ fit = PickCard(rater[w].cards, ReadingOf[k])
        /\ \/ /\ Rated(k)
              /\ rater' = [rater EXCEPT ![w] = done]
              /\ UNCHANGED <<usage, allowances, budgets, bits>>
           \/ /\ ~Rated(k) /\ rater[w].frozen
              /\ rater' = [rater EXCEPT ![w] = Waiting]
              /\ UNCHANGED <<usage, allowances, budgets, bits>>
           \/ /\ ~Rated(k) /\ ~rater[w].frozen
              /\ LeaveUnrated(k, fit)
              /\ rater' = [rater EXCEPT ![w] = done]
           \/ /\ ~Rated(k) /\ ~rater[w].frozen /\ Chargeable(k, fit)
              /\ \E c \in fit : \E d \in {Draw(k, c)} : \E refusal \in {Refusal(k, c, d)} :
                   IF refusal = ""
                   THEN Charge(k, c, d) /\ rater' = [rater EXCEPT ![w] = done]
                   ELSE /\ rater' = [rater EXCEPT ![w] =
                             [phase |-> "refused", left |-> @.left, at |-> k, error |-> refusal]]
                        /\ UNCHANGED <<usage, allowances, budgets, bits>>
  BY DEF Rate
<1>3. k \in Readings /\ rater[w].left \in SUBSET Readings /\ rater[w].cards \in SUBSET Cards
  BY <1>1, <1>2, RaterHolds
<1>4. done \in RaterState /\ Waiting \in RaterState
  BY <1>2, <1>3, GoesOn DEF RaterState
<1>5. CASE Rated(k) /\ rater' = [rater EXCEPT ![w] = done] /\ UNCHANGED <<usage, allowances, budgets, bits>>
  BY <1>1, <1>4, <1>5, SweptStep
<1>6. CASE rater' = [rater EXCEPT ![w] = Waiting] /\ UNCHANGED <<usage, allowances, budgets, bits>>
  BY <1>1, <1>4, <1>6, SweptStep
<1>7. CASE ~Rated(k) /\ LeaveUnrated(k, fit) /\ rater' = [rater EXCEPT ![w] = done]
  <2>1. PICK why \in {"", "no_subject", "amount_overflow"} \cup Retried \cup AwaitCard :
          /\ usage' = [usage EXCEPT ![k].state = "left", ![k].error = why]
          /\ UNCHANGED <<allowances, budgets, bits>>
    BY <1>7 DEF LeaveUnrated, AwaitCard
  <2>2. usage' = [usage EXCEPT ![k] = [usage[k] EXCEPT !.state = "left", !.error = why]]
    BY <1>1, <1>3, <2>1 DEF MeterTypes
  <2>3. usage[k].state # "rated" /\ rater' \in [Raters -> RaterState]
    BY <1>1, <1>4, <1>7 DEF Rated
  <2>. QED
    BY <1>1, <1>3, <2>1, <2>2, <2>3, RestatedStep
<1>8. ASSUME ~Rated(k), Chargeable(k, fit), NEW c \in fit, NEW d, d = Draw(k, c),
             NEW refusal, refusal = Refusal(k, c, d),
             IF refusal = ""
             THEN Charge(k, c, d) /\ rater' = [rater EXCEPT ![w] = done]
             ELSE /\ rater' = [rater EXCEPT ![w] =
                            [phase |-> "refused", left |-> @.left, at |-> k, error |-> refusal]]
                  /\ UNCHANGED <<usage, allowances, budgets, bits>>
      PROVE  MeterIInv'
  <2>1. c \in Cards /\ Fits(c, ReadingOf[k])
    BY <1>2, <1>3, PickedFits
  <2>2. ReadingOf[k].person \in People
    BY <1>3, <1>8, MeteringAssumption DEF Chargeable
  <2>3. CASE refusal = ""
    <3>1. rater' \in [Raters -> RaterState] /\ usage[k].state # "rated"
      BY <1>1, <1>4, <1>8, <2>3 DEF Rated
    <3>2. Charge(k, c, d) /\ Refusal(k, c, d) = "" /\ d = Draw(k, c)
      BY <1>8, <2>3
    <3>. QED
      BY <1>1, <1>3, <2>1, <2>2, <3>1, <3>2, ChargeKeeps
  <2>4. CASE refusal # ""
    <3>1. refusal \in Refusals
      BY <1>8, <2>4 DEF Refusal, Refusals, Retried
    <3>2. [phase |-> "refused", left |-> rater[w].left, at |-> k, error |-> refusal] \in RaterState
      BY <1>3, <3>1 DEF RaterState
    <3>3. /\ rater' = [rater EXCEPT ![w] = [phase |-> "refused", left |-> rater[w].left, at |-> k, error |-> refusal]]
          /\ UNCHANGED <<usage, allowances, budgets, bits>>
      BY <1>1, <1>8, <2>4
    <3>4. rater' \in [Raters -> RaterState]
      BY <1>1, <3>2, <3>3
    <3>. QED
      BY <1>1, <3>3, <3>4, SweptStep
  <2>. QED
    BY <2>3, <2>4
<1>9. CASE /\ ~Rated(k) /\ ~rater[w].frozen /\ Chargeable(k, fit)
           /\ \E c \in fit : \E d \in {Draw(k, c)} : \E refusal \in {Refusal(k, c, d)} :
                   IF refusal = ""
                   THEN Charge(k, c, d) /\ rater' = [rater EXCEPT ![w] = done]
                   ELSE /\ rater' = [rater EXCEPT ![w] =
                             [phase |-> "refused", left |-> @.left, at |-> k, error |-> refusal]]
                        /\ UNCHANGED <<usage, allowances, budgets, bits>>
  <2>1. PICK c \in fit : \E d, refusal :
          /\ d = Draw(k, c) /\ refusal = Refusal(k, c, d)
          /\ IF refusal = ""
             THEN Charge(k, c, d) /\ rater' = [rater EXCEPT ![w] = done]
             ELSE /\ rater' = [rater EXCEPT ![w] =
                            [phase |-> "refused", left |-> @.left, at |-> k, error |-> refusal]]
                  /\ UNCHANGED <<usage, allowances, budgets, bits>>
    BY <1>9
  <2>2. PICK d, refusal :
          /\ d = Draw(k, c) /\ refusal = Refusal(k, c, d)
          /\ IF refusal = ""
             THEN Charge(k, c, d) /\ rater' = [rater EXCEPT ![w] = done]
             ELSE /\ rater' = [rater EXCEPT ![w] =
                            [phase |-> "refused", left |-> @.left, at |-> k, error |-> refusal]]
                  /\ UNCHANGED <<usage, allowances, budgets, bits>>
    BY <2>1
  <2>. QED
    BY <1>8, <1>9, <2>2
<1>. QED
  BY <1>2, <1>5, <1>6, <1>7, <1>9

\* A refusal is noted on a row that is not rated.
LEMMA NoteRefusalKeeps ==
    ASSUME MeterIInv, NEW w \in Raters, NoteRefusal(w)
    PROVE  MeterIInv'
<1>. DEFINE k == rater[w].at
            state == AfterRefusal(rater[w].error)
<1>1. /\ MeterTypes /\ rater \in [Raters -> RaterState] /\ usage \in [Readings -> Reading]
      /\ rater[w].phase = "refused"
      /\ usage' = IF usage[k].state = "rated" THEN usage
                  ELSE [usage EXCEPT ![k].state = state, ![k].error = rater[w].error]
      /\ rater' = [rater EXCEPT ![w] = GoOnRating(rater[w].left)]
      /\ UNCHANGED <<cards, allowances, budgets, bits, stopped, day, taken>>
  BY DEF MeterIInv, MeterTypes, NoteRefusal
<1>2. k \in Readings /\ rater[w].left \in SUBSET Readings /\ rater[w].error \in Refusals
  BY <1>1, RaterHolds
<1>3. rater' \in [Raters -> RaterState]
  BY <1>1, <1>2, GoesOn
<1>4. state \in {"none", "due", "later", "left"}
  BY DEF AfterRefusal
<1>. HIDE DEF k, state
<1>5. CASE usage[k].state = "rated"
  BY <1>1, <1>3, <1>5, SweptStep
<1>6. CASE usage[k].state # "rated"
  <2>1. usage' = [usage EXCEPT ![k] = [usage[k] EXCEPT !.state = state, !.error = rater[w].error]]
    BY <1>1, <1>2, <1>6
  <2>2. rater[w].error \in {"", "no_subject", "amount_overflow"} \cup Retried \cup AwaitCard
    BY <1>2 DEF Refusals
  <2>. QED
    BY <1>1, <1>2, <1>3, <1>4, <1>6, <2>1, <2>2, RestatedStep
<1>. QED
  BY <1>5, <1>6

\* Nothing is metered at first.
LEMMA MeterInitially ==
    ASSUME MeterInit
    PROVE  MeterIInv
<1>1. /\ cards = {} /\ usage = [k \in Readings |-> NotStored] /\ allowances = <<>>
      /\ budgets = [b \in People \X Services |-> NoBudget]
      /\ bits = [a \in MeterAccounts |-> IF a[1] = "user_credit" THEN Money ELSE 0]
      /\ stopped = FALSE /\ rater = [w \in Raters |-> Waiting] /\ day = 0 /\ taken = 0
  BY DEF MeterInit
<1>2. /\ NotStored \in Reading /\ NotStored.state = "none" /\ NotStored.charge = 0 /\ NotStored.promo = 0
      /\ NotStored.under = {}
  BY DEF NotStored, Reading
<1>3. Money \in Nat /\ LastDay \in Nat
  BY MeteringAssumption
<1>4. MeterTypes
  <2>1. usage \in [Readings -> Reading]
    BY <1>1, <1>2
  <2>2. bits \in [MeterAccounts -> Int]
    BY <1>1, <1>3
  <2>3. rater \in [Raters -> RaterState]
    BY <1>1 DEF RaterState
  <2>4. cards \in SUBSET Cards /\ stopped \in BOOLEAN /\ taken \in Nat
    BY <1>1
  <2>5. day \in 0..LastDay
    BY <1>1, <1>3
  <2>. QED
    BY ONLY <2>1, <2>2, <2>3, <2>4, <2>5 DEF MeterTypes
<1>5. RowsSound(allowances) /\ DOMAIN allowances = {}
  BY <1>1 DEF RowsSound
<1>6. \A k \in Readings : ReadingSound(k, usage[k]) /\ usage[k].state # "rated" /\ usage[k].charge = 0
  BY <1>1, <1>2 DEF ReadingSound
<1>7. \A p : PaidBy(usage, p) = {} /\ Mine(allowances, p) = {}
  BY <1>5, <1>6 DEF PaidBy, Mine
<1>8. Charges(usage, {}) = 0 /\ Promos(usage, {}) = 0 /\ TotalLeft(allowances, {}) = 0 /\ UsedOf(allowances, {}) = 0
  BY SumEmpty DEF Charges, Promos, TotalLeft, UsedOf
<1>9. Charges(usage, Readings) = 0
  <2>. DEFINE f == [k \in Readings |-> usage[k].charge]
  <2>1. \A k \in Readings : f[k] = 0
    BY <1>6
  <2>. HIDE DEF f
  <2>2. SumFunctionOnSet(f, Readings) = 0
    BY <2>1, SumZero, MeteringAssumption
  <2>. QED
    BY <2>2 DEF Charges, f
<1>10. /\ bits[PromoReserve] = 0 /\ bits[BitsRevenue] = 0
       /\ \A p \in People : bits[CreditOf(p)] = Money /\ bits[Promo(p)] = 0
  BY <1>1, AccountsApart DEF CreditOf, Promo, PromoReserve, BitsRevenue
<1>11. MoneyTaken(usage, bits)
  BY <1>3, <1>7, <1>8, <1>9, <1>10 DEF MoneyTaken
<1>12. \A p \in People : Pocket(allowances, bits, p)
  <2>1. taken = 0
    BY <1>1
  <2>. QED
    BY ONLY <1>7, <1>8, <1>10, <2>1 DEF Pocket
<1>13. UsedPaid(allowances, usage)
  BY <1>7, <1>8 DEF UsedPaid
<1>14. BudgetsSound
  <2>1. DOMAIN NoBudget.rows = {}
    BY DEF NoBudget
  <2>2. \A p \in People, s \in Services : BudgetSound(usage, p, s, NoBudget)
    BY <1>7, <2>1 DEF BudgetSound
  <2>3. DOMAIN budgets = People \X Services /\ \A p \in People, s \in Services : budgets[p, s] = NoBudget
    BY <1>1
  <2>. QED
    BY <2>2, <2>3 DEF BudgetsSound
<1>. QED
  BY <1>4, <1>5, <1>6, <1>11, <1>12, <1>13, <1>14 DEF MeterIInv

\* Every step of metering keeps the invariant.
LEMMA MeterKeeps ==
    ASSUME MeterIInv, [MeterNext]_meterVars
    PROVE  MeterIInv'
<1>1. CASE RatingStep
  BY <1>1, RowKeeps, SweepKeeps, RateKeeps, NoteRefusalKeeps DEF RatingStep, RaterStep
<1>2. CASE PolicyStep
  BY <1>2, GrantKeeps, SetBudgetKeeps, TakeBackKeeps, SweepKeeps DEF PolicyStep
<1>3. CASE OperationStep
  BY <1>3, SweepKeeps, LoadCardKeeps DEF OperationStep
<1>4. CASE UNCHANGED meterVars
  <2>1. UNCHANGED <<cards, usage, allowances, budgets, bits, stopped, rater, day, taken>>
    BY <1>4 DEF meterVars
  <2>2. rater' \in [Raters -> RaterState]
    BY <2>1 DEF MeterIInv, MeterTypes
  <2>. QED
    BY <2>1, <2>2, SweptStep
<1>. QED
  BY <1>1, <1>2, <1>3, <1>4 DEF MeterNext

\* Metering keeps its inductive invariant: each account, allowance and budget window
\* is what the rated readings make it, at every step of sweeps, staff and restarts.
THEOREM MeterInvariant == MeterSpec => []MeterIInv
<1>1. MeterInit => MeterIInv
  BY MeterInitially
<1>2. MeterIInv /\ [MeterNext]_meterVars => MeterIInv'
  BY MeterKeeps
<1>. QED
  BY <1>1, <1>2, PTL DEF MeterSpec

\* However sweeps overlap, fail and restart, people are out of exactly the charges of
\* the rated readings, each the price of a card less the allowance's part, and each
\* budget's window counts each charge under it once and within what its owner allowed.
THEOREM EveryChargeAddsUp == MeterSpec => []ChargesAddUp
<1>1. ASSUME MeterIInv PROVE MeterTypeOK
  <2>1. \A i \in DOMAIN allowances : allowances[i].used + allowances[i].expired =< allowances[i].granted
    BY <1>1 DEF MeterIInv, RowsSound
  <2>2. \A w \in Raters : rater[w] = Waiting \/ rater[w].left \subseteq Readings
    BY <1>1 DEF MeterIInv, MeterTypes, RaterState
  <2>3. \A p \in People : bits[CreditOf(p)] >= 0
    BY <1>1 DEF MeterIInv, MoneyTaken
  <2>4. \A p \in People : bits[Promo(p)] >= 0
    <3>. SUFFICES ASSUME NEW p \in People PROVE bits[Promo(p)] >= 0
      OBVIOUS
    <3>1. TotalLeft(allowances, Mine(allowances, p)) \in Nat
      BY <1>1, RowsFinite, LeftTogether DEF MeterIInv
    <3>. QED
      BY <1>1, <3>1 DEF MeterIInv, Pocket
  <2>. QED
    BY <1>1, <2>1, <2>2, <2>3, <2>4 DEF MeterIInv, MeterTypes, MeterTypeOK
<1>2. ASSUME NEW p PROVE RatedOf(p) = PaidBy(usage, p)
  BY DEF RatedOf, PaidBy
<1>3. ASSUME NEW S PROVE ChargeOf(S) = Charges(usage, S)
  BY DEF ChargeOf, Charges
<1>4. ASSUME MeterIInv PROVE ChargedOnceEach
  <2>1. MoneyTaken(usage, bits) /\ \A k \in Readings : ReadingSound(k, usage[k])
    BY <1>4 DEF MeterIInv
  <2>2. \A p \in People : bits[CreditOf(p)] = Money - ChargeOf(RatedOf(p))
    BY <1>2, <1>3, <2>1 DEF MoneyTaken
  <2>3. bits[BitsRevenue] = ChargeOf(Readings)
    BY <1>3, <2>1 DEF MoneyTaken
  <2>. QED
    BY <2>1, <2>2, <2>3 DEF ChargedOnceEach, ReadingSound
<1>5. ASSUME MeterIInv PROVE BudgetsHold
  <2>. SUFFICES ASSUME NEW p \in People, NEW s \in Services, NEW start \in DOMAIN budgets[p, s].rows
                PROVE  LET row == budgets[p, s].rows[start]
                       IN  /\ row.spent = ChargeOf({k \in RatedOf(p) : <<s, start>> \in usage[k].under})
                           /\ \E b \in BudgetSets : b[1] = p /\ b[2] = s /\ row.spent =< b[4]
    BY DEF BudgetsHold
  <2>1. WindowSound(usage, p, s, start, budgets[p, s].rows[start])
    BY <1>5 DEF MeterIInv, BudgetsSound, BudgetSound
  <2>2. {k \in RatedOf(p) : <<s, start>> \in usage[k].under} = PaidUnder(usage, p, s, start)
    BY <1>2 DEF PaidUnder
  <2>. QED
    BY <1>3, <2>1, <2>2 DEF WindowSound
<1>6. MeterIInv => ChargesAddUp
  BY <1>1, <1>4, <1>5 DEF ChargesAddUp
<1>. QED
  BY <1>6, MeterInvariant, PTL

\* The allowance a person holds is within what the windows have left, short of it by
\* no more than was taken back by hand, and what was used of it paid for readings.
THEOREM AllowancesAddUp == MeterSpec => []PromoAddsUp
<1>1. ASSUME MeterIInv PROVE PromoAddsUp
  <2>. SUFFICES ASSUME NEW p \in People
                PROVE  LET mine == {i \in DOMAIN allowances : allowances[i].person = p}
                       IN  /\ bits[Promo(p)] \in 0..TotalLeft(allowances, mine)
                           /\ TotalLeft(allowances, mine) - bits[Promo(p)] =< taken
                           /\ SumFunctionOnSet([i \in mine |-> allowances[i].used], mine)
                                = SumFunctionOnSet([k \in RatedOf(p) |-> usage[k].promo], RatedOf(p))
    BY DEF PromoAddsUp
  <2>1. {i \in DOMAIN allowances : allowances[i].person = p} = Mine(allowances, p)
    BY DEF Mine
  <2>2. RatedOf(p) = PaidBy(usage, p)
    BY DEF RatedOf, PaidBy
  <2>3. Pocket(allowances, bits, p) /\ UsedOf(allowances, Mine(allowances, p)) = Promos(usage, PaidBy(usage, p))
    BY <1>1 DEF MeterIInv, UsedPaid
  <2>4. /\ bits[Promo(p)] \in 0..TotalLeft(allowances, Mine(allowances, p))
        /\ TotalLeft(allowances, Mine(allowances, p)) - bits[Promo(p)] =< taken
    BY <2>3 DEF Pocket
  <2>5. SumFunctionOnSet([i \in Mine(allowances, p) |-> allowances[i].used], Mine(allowances, p))
          = SumFunctionOnSet([k \in PaidBy(usage, p) |-> usage[k].promo], PaidBy(usage, p))
    BY <2>3 DEF UsedOf, Promos
  <2>. QED
    BY <2>1, <2>2, <2>4, <2>5
<1>. QED
  BY <1>1, MeterInvariant, PTL

----------------------------------------------------------------------------
(* Pricing.                                                                *)

\* A division rounded up is above by less than one.
LEMMA CeilLaw ==
    ASSUME NEW n \in Int, NEW d \in Nat \ {0}
    PROVE  Ceil(n, d) \in Int /\ d * Ceil(n, d) - n \in 0..(d - 1)
<1>. DEFINE m == n + d - 1
            q == m \div d
<1>1. m \in Int
  OBVIOUS
<1>2. q \in Int /\ d * q =< m /\ m < d * q + d
  <2>. HIDE DEF m
  <2>. QED
    BY <1>1, DivLaw
<1>3. Ceil(n, d) = q
  BY DEF Ceil
<1>. HIDE DEF q
<1>. QED
  BY <1>2, <1>3

\* The charge of a request is never below its exact price, and above it by less than
\* one nano-USD for each class of tokens that was used.
THEOREM RequestsRoundUp == RequestsCeil
<1>. SUFFICES ASSUME NEW tokens \in [Classes -> TokenCounts], NEW price \in [Classes -> TokenPrices]
              PROVE  LET used == {k \in Classes : tokens[k] # 0 /\ price[k] # 0}
                         exact == SumFunctionOnSet([k \in used |-> tokens[k] * price[k]], used)
                         over == ComputeCharge(tokens, price, 0) * Million - exact
                     IN  0 =< over /\ over =< Cardinality(used) * (Million - 1)
  BY DEF RequestsCeil
<1>. DEFINE used == {k \in Classes : tokens[k] # 0 /\ price[k] # 0}
            n == [k \in used |-> tokens[k] * price[k]]
            c == [k \in Classes |-> Ceil(tokens[k] * price[k], Million)]
            m == [k \in used |-> Million * c[k]]
            over == [k \in used |-> Million * c[k] - n[k]]
            most == [k \in used |-> Million - 1]
<1>1. Million \in Nat \ {0}
  BY DEF Million
<1>2. IsFiniteSet(used)
  BY PricingAssumption, FS_Subset
<1>3. \A k \in used : n[k] = tokens[k] * price[k] /\ c[k] = Ceil(tokens[k] * price[k], Million) /\ n[k] \in Nat
  BY PricingAssumption
<1>. HIDE DEF Million
<1>4. ComputeCharge(tokens, price, 0) = 0 + SumFunctionOnSet(c, used)
  BY DEF ComputeCharge
<1>. HIDE DEF n, c, used
<1>5. \A k \in used : /\ c[k] \in Int /\ Million * c[k] \in Int /\ n[k] \in Int
                      /\ Million * c[k] - n[k] \in 0..(Million - 1)
  <2>. SUFFICES ASSUME NEW k \in used
                PROVE  /\ c[k] \in Int /\ Million * c[k] \in Int /\ n[k] \in Int
                       /\ Million * c[k] - n[k] \in 0..(Million - 1)
    OBVIOUS
  <2>1. n[k] \in Int /\ c[k] = Ceil(n[k], Million)
    BY <1>3
  <2>2. c[k] \in Int /\ Million * c[k] - n[k] \in 0..(Million - 1)
    BY <1>1, <2>1, CeilLaw
  <2>. QED
    BY <1>1, <2>1, <2>2
<1>6. \A k \in used : /\ c[k] \in Int /\ m[k] = Million * c[k] /\ m[k] \in Int /\ n[k] \in Int
                      /\ over[k] \in Nat /\ m[k] = n[k] + over[k] /\ most[k] = Million - 1 /\ over[k] =< most[k]
  BY <1>1, <1>5
<1>. HIDE DEF m, over, most
<1>7. SumFunctionOnSet(m, used) = Million * SumFunctionOnSet(c, used)
  BY <1>1, <1>2, <1>6, SumTimes
<1>8. SumFunctionOnSet(m, used) = SumFunctionOnSet(n, used) + SumFunctionOnSet(over, used)
  BY <1>2, <1>6, SumPlus
<1>9. SumFunctionOnSet(over, used) \in Nat
  BY <1>2, <1>6, SumNat
<1>10. SumFunctionOnSet(over, used) =< SumFunctionOnSet(most, used)
  <2>1. \A k \in used : over[k] \in Int /\ most[k] \in Int /\ over[k] =< most[k]
    BY <1>1, <1>6
  <2>. QED
    BY <1>2, <2>1, SumAtMost
<1>11. SumFunctionOnSet(most, used) = (Million - 1) * Cardinality(used) /\ Cardinality(used) \in Nat
  BY <1>1, <1>2, <1>6, SumConstant, FS_CardinalityType
<1>12. SumFunctionOnSet(c, used) \in Int /\ SumFunctionOnSet(n, used) \in Int
  BY <1>2, <1>6, SumType
<1>13. LET o == ComputeCharge(tokens, price, 0) * Million - SumFunctionOnSet(n, used)
       IN  0 =< o /\ o =< Cardinality(used) * (Million - 1)
  <2>1. ComputeCharge(tokens, price, 0) * Million - SumFunctionOnSet(n, used) = SumFunctionOnSet(over, used)
    BY <1>1, <1>4, <1>7, <1>8, <1>9, <1>12
  <2>2. Cardinality(used) * (Million - 1) = (Million - 1) * Cardinality(used)
    BY <1>1, <1>11
  <2>. QED
    BY ONLY <1>9, <1>10, <1>11, <2>1, <2>2
<1>. QED
  BY <1>13 DEF n, used

\* Whatever sweeps and loads of cards interleave, what a reading was rated with is
\* never below its exact price under the card it names, and above it by less than a
\* bit; and no request by tokens is priced below its exact price.
THEOREM PricesNeverShort == MeterSpec => []PricesRoundUp
<1>1. ASSUME MeterIInv PROVE PricesRoundUp
  <2>1. ASSUME NEW k \in Readings, usage[k].state = "rated"
        PROVE  \E c \in Cards :
                  /\ c.id = usage[k].card /\ Fits(c, ReadingOf[k])
                  /\ LET over == (usage[k].charge + usage[k].promo) * c.size - ReadingOf[k].quantity * c.price
                     IN  0 =< over /\ over < c.size
    <3>1. PICK c \in Cards : /\ c.id = usage[k].card /\ Fits(c, ReadingOf[k])
                             /\ usage[k].charge + usage[k].promo = ChargeFor(c, ReadingOf[k].quantity)
      BY <1>1, <2>1 DEF MeterIInv, ReadingSound
    <3>. DEFINE n == ReadingOf[k].quantity * c.price
    <3>2. c.size \in Nat \ {0} /\ c.price \in Nat /\ ReadingOf[k].quantity \in Nat
      BY MeteringAssumption
    <3>3. n \in Int
      BY <3>2
    <3>4. Ceil(n, c.size) \in Int /\ c.size * Ceil(n, c.size) - n \in 0..(c.size - 1)
      BY <3>2, <3>3, CeilLaw
    <3>5. usage[k].charge + usage[k].promo = Ceil(n, c.size)
      BY <3>1 DEF ChargeFor
    <3>6. LET over == (usage[k].charge + usage[k].promo) * c.size - n
          IN  0 =< over /\ over < c.size
      <4>. HIDE DEF n
      <4>. QED
        BY <3>2, <3>3, <3>4, <3>5
    <3>. QED
      BY <3>1, <3>6
  <2>. QED
    BY <2>1, RequestsRoundUp DEF PricesRoundUp
<1>. QED
  BY <1>1, MeterInvariant, PTL

=============================================================================
