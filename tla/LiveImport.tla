----------------------------- MODULE LiveImport -----------------------------
(***************************************************************************)
(* The import of OpenVibe.Live's money state (server/importer/live.js) and *)
(* the cutover it serves: Live keeps moving while shadow imports run with  *)
(* Billing frozen, a last import takes Live's final state, and Billing     *)
(* then moves money itself while late imports still run for users the      *)
(* Network learns of.                                                      *)
(*                                                                         *)
(* A run reads Live in one snapshot and resolves its users, both before    *)
(* its one serializable transaction.  An account is a kind, a Live user    *)
(* and whether the user's subject or the hold owns it; its bits are kept   *)
(* apart by who booked them, imports or Billing.  Live is external; its    *)
(* rows name the users their type needs.                                   *)
(***************************************************************************)
EXTENDS Integers, FiniteSets, Functions

CONSTANTS
    LiveUsers,
    NoUser,
    LiveTxnOf,     \* id of a row of Live's transactions -> its type, users and amount
    Orders,        \* ids of payment orders; the purchase row of one has its id
    LiveSubs,      \* ids of Live's subscriptions
    SubOf,         \* id -> <<subscriber, streamer>>
    Accounts,      \* PowerChat account names
    Today,         \* imports happen on this day
    MaxEnd,        \* bound: the last day a subscription can end
    MaxRuns,       \* bound: runs of the importer
    MaxNative      \* bound: transfers Billing makes

LiveTxns == DOMAIN LiveTxnOf
LiveTypes == {"purchase", "donation", "cashout", "refund", "bonus", "recycle"}

ASSUME ImportAssumption ==
    /\ LiveTxnOf \in [LiveTxns -> [type : LiveTypes, from : LiveUsers \cup {NoUser}, to : LiveUsers \cup {NoUser}, amount : Nat]]
    /\ Orders \subseteq {k \in LiveTxns : LiveTxnOf[k].type = "purchase"}
    /\ SubOf \in [LiveSubs -> LiveUsers \X LiveUsers]
    /\ {Today, MaxEnd, MaxRuns, MaxNative} \subseteq Nat /\ NoUser \notin LiveUsers /\ IsFiniteSet(LiveTxns)

VARIABLES
    live,       \* Live's tables: its columns, rows, orders, subscriptions and connections
    mapped,     \* users the Network has a subject for
    era,        \* "shadow" (Billing frozen) or "billing" (Live's money writes frozen)
    run,        \* the importer
    lastRun,    \* import_runs: what the last one that committed had read
    runs, natives,
    booked,     \* rows of Live replayed under import:live:txn:<id>
    imported,   \* bits imports put in an account
    native,     \* bits Billing put in it
    intents, cashouts,
    holds,      \* import_holds
    subs,       \* subscriptions by legacy_live_id, with the day entitlements cover
    owners      \* provider_accounts

ledgerVars == <<booked, imported, native, intents, cashouts, holds>>
billingVars == <<ledgerVars, subs, owners>>
importVars == <<live, mapped, era, run, lastRun, runs, natives, billingVars>>

Kinds == {"credit", "payable", "pending"}
ImportAccounts == Kinds \X LiveUsers \X {"subject", "hold"}
Credit(u, o) == <<"credit", u, o>>
Payable(u, o) == <<"payable", u, o>>
PendingOf(u, o) == <<"pending", u, o>>
Held(a) == imported[a] + native[a]

Nothing == [state |-> "none"]
RowsOf(snapshot, u) == {k \in LiveTxns : snapshot.rows[k] # "none" /\ u \in {LiveTxnOf[k].from, LiveTxnOf[k].to}}
OrdersOf(snapshot, u) == {o \in Orders : snapshot.orders[o] # "none" /\ LiveTxnOf[o].to = u}
SubsOf(snapshot, u) == {s \in LiveSubs : snapshot.subs[s] # Nothing /\ u \in {SubOf[s][1], SubOf[s][2]}}

ImportTypeOK ==
    /\ era \in {"shadow", "billing"} /\ mapped \subseteq LiveUsers
    /\ booked \subseteq LiveTxns /\ {imported, native} \subseteq [ImportAccounts -> Int]
    /\ \A o \in Orders : intents[o] = Nothing
         \/ intents[o] \in [state : {"created", "expired", "failed", "settled"}, owner : {"subject", "hold"}, here : BOOLEAN]
    /\ \A k \in LiveTxns : cashouts[k] = Nothing
         \/ cashouts[k] \in [state : {"requested", "paid", "denied"}, owner : {"subject", "hold"}]
    /\ holds \in [LiveUsers -> {"none", "held", "resolved"}]
    /\ \A a \in Accounts : owners[a] = Nothing \/ owners[a].subject \in mapped

ImportInit ==
    /\ live = [credit |-> [u \in LiveUsers |-> 0], payable |-> [u \in LiveUsers |-> 0], rows |-> [k \in LiveTxns |-> "none"],
               orders |-> [o \in Orders |-> "none"], subs |-> [s \in LiveSubs |-> Nothing],
               connections |-> [a \in Accounts |-> NoUser]]
    /\ mapped = {} /\ era = "shadow" /\ run = Nothing /\ lastRun = Nothing /\ runs = 0 /\ natives = 0
    /\ booked = {} /\ imported = [a \in ImportAccounts |-> 0] /\ native = [a \in ImportAccounts |-> 0]
    /\ intents = [o \in Orders |-> Nothing] /\ cashouts = [k \in LiveTxns |-> Nothing]
    /\ holds = [u \in LiveUsers |-> "none"]
    /\ subs = [s \in LiveSubs |-> Nothing] /\ owners = [a \in Accounts |-> Nothing]

----------------------------------------------------------------------------
(* Live and the Network (external).                                        *)

\* The columns of Live a row took its bits from and put them in.
Nowhere == <<"nowhere", NoUser>>
Gives(k) ==
    LET t == LiveTxnOf[k]
    IN  CASE t.type \in {"purchase", "bonus"} -> Nowhere
          [] t.type = "donation" -> <<"credit", t.from>>
          [] t.type \in {"cashout", "refund", "recycle"} -> <<"payable", t.from>>
Takes(k) ==
    LET t == LiveTxnOf[k]
    IN  CASE t.type \in {"purchase", "bonus", "refund"} -> <<"credit", t.to>>
          [] t.type = "donation" -> <<"payable", t.to>>
          [] t.type = "recycle" -> <<"credit", t.from>>
          [] t.type = "cashout" -> Nowhere

\* The bits a column gains when a row moves its amount.
Gain(k, from, to, column) ==
    (IF to = column THEN LiveTxnOf[k].amount ELSE 0) - (IF from = column THEN LiveTxnOf[k].amount ELSE 0)

Columns(kind, k) == [u \in LiveUsers |-> live[kind][u] + Gain(k, Gives(k), Takes(k), <<kind, u>>)]

LiveRow(k, status) ==
    LET credit == Columns("credit", k)
        payable == Columns("payable", k)
    IN  /\ era = "shadow" /\ live.rows[k] = "none"
        /\ status = "escrow" <=> LiveTxnOf[k].type = "cashout"
        /\ \A u \in LiveUsers : credit[u] >= 0 /\ payable[u] >= 0
        /\ k \in Orders => live.orders[k] = "pending"
        /\ live' = [live EXCEPT !.rows[k] = status, !.credit = credit, !.payable = payable,
                                !.orders = [o \in Orders |-> IF o = k THEN "credited" ELSE live.orders[o]]]

\* Live settles an escrow of its own.
LiveDecides(k, status) ==
    /\ era = "shadow" /\ live.rows[k] = "escrow" /\ status \in {"completed", "refunded"}
    /\ live' = [live EXCEPT !.rows[k] = status,
                            !.payable[LiveTxnOf[k].from] = @ + (IF status = "refunded" THEN LiveTxnOf[k].amount ELSE 0)]

LiveOrder(o, status) ==
    /\ era = "shadow"
    /\ live.orders[o] = (IF status = "pending" THEN "none" ELSE "pending") /\ status \in {"pending", "failed"}
    /\ live' = [live EXCEPT !.orders[o] = status]

LiveSub(s, state, end) ==
    /\ era = "shadow" /\ state \in {"active", "canceled"} /\ end >= Today
    /\ live' = [live EXCEPT !.subs[s] = [state |-> state, end |-> end]]

\* Not a money write: connections change in either era.
LiveConnects(a, u) ==
    /\ live.connections[a] # u
    /\ live' = [live EXCEPT !.connections[a] = u]

LiveMovesOn ==
    /\ \/ \E k \in LiveTxns : \E status \in {"escrow", "completed"} : LiveRow(k, status)
       \/ \E k \in LiveTxns : \E status \in {"completed", "refunded"} : LiveDecides(k, status)
       \/ \E o \in Orders : \E status \in {"pending", "failed"} : LiveOrder(o, status)
    /\ UNCHANGED <<mapped, era, run, lastRun, runs, natives, billingVars>>
LiveSubscribes ==
    /\ \E s \in LiveSubs : \E state \in {"active", "canceled"}, end \in Today..MaxEnd : LiveSub(s, state, end)
    /\ UNCHANGED <<mapped, era, run, lastRun, runs, natives, billingVars>>
LiveReconnects ==
    /\ \E a \in Accounts : \E u \in LiveUsers : LiveConnects(a, u)
    /\ UNCHANGED <<mapped, era, run, lastRun, runs, natives, billingVars>>

Resolve(u) ==
    /\ u \notin mapped
    /\ mapped' = mapped \cup {u}
    /\ UNCHANGED <<live, era, run, lastRun, runs, natives, billingVars>>

----------------------------------------------------------------------------
(* One run, step by step over what it read.                                *)

OwnerIn(users, u) == IF u \in users THEN "subject" ELSE "hold"

\* Orders: follow what Live decided since, never an intent Billing settled.
Followed(o, status) ==
    IF intents[o].here \/ intents[o].state = "settled" THEN intents[o]
    ELSE CASE status = "credited" -> [intents[o] EXCEPT !.state = "settled"]
           [] status = "failed" /\ intents[o].state \in {"created", "expired"} -> [intents[o] EXCEPT !.state = "failed"]
           [] OTHER -> intents[o]

\* An old pending order is expired.
FreshIntent(status, stale, owner) ==
    [state |-> CASE status = "credited" -> "settled" [] status = "failed" -> "failed"
                 [] OTHER -> IF stale THEN "expired" ELSE "created",
     owner |-> owner, here |-> FALSE]

ImportOrders(stale) ==
    intents' = [o \in Orders |->
        CASE run.live.orders[o] = "none" -> intents[o]
          [] run.live.orders[o] # "none" /\ intents[o] # Nothing -> Followed(o, run.live.orders[o])
          [] OTHER -> FreshIntent(run.live.orders[o], stale, OwnerIn(run.users, LiveTxnOf[o].to))]

\* Variant: rows are keyed by the run, not by their id.
EveryRow == {k \in LiveTxns : run.live.rows[k] # "none"}

NewRows == {k \in LiveTxns : run.live.rows[k] # "none" /\ k \notin booked}

\* What replaying a row puts in an account: a cashout in escrow goes to what is pending,
\* a refunded one moves nothing.
EntryOn(k, a) ==
    LET status == run.live.rows[k]
        to == IF status = "escrow" THEN <<"pending", LiveTxnOf[k].from>> ELSE Takes(k)
    IN  IF status = "refunded" \/ a[3] # OwnerIn(run.users, a[2]) THEN 0
        ELSE Gain(k, Gives(k), to, <<a[1], a[2]>>)

Replayed ==
    [a \in ImportAccounts |-> imported[a] + SumFunctionOnSet([k \in NewRows |-> EntryOn(k, a)], NewRows)]

\* Users with bits, rows, orders or subscriptions on Live, or an open hold here.
Concerned ==
    {u \in LiveUsers : \/ run.live.credit[u] # 0 \/ run.live.payable[u] # 0 \/ holds[u] = "held"
                       \/ RowsOf(run.live, u) \cup OrdersOf(run.live, u) # {} \/ SubsOf(run.live, u) # {}}

\* What an earlier run parked on the hold of a user the Network knows now: all of its
\* balance moves, as an import.
Released(before) ==
    [a \in ImportAccounts |->
       LET hold == <<a[1], a[2], "hold">>
           parked == before[hold] + native[hold]
       IN  CASE a[2] \notin Concerned \cap run.users -> before[a]
             [] a[2] \in Concerned \cap run.users /\ a[3] = "hold" -> before[a] - parked
             [] OTHER -> before[a] + parked]

\* The imported part of each account is corrected to Live's column.
Opened(before) ==
    [a \in ImportAccounts |->
       IF a[1] # "pending" /\ a[2] \in Concerned /\ a[3] = OwnerIn(run.users, a[2])
       THEN run.live[a[1]][a[2]] ELSE before[a]]

Balances == Opened(Released(Replayed))

\* Variant: a cashout stays with the hold that opened it.
StaysHeld(c, u) == c

\* A released user's cashouts go along.
HandedOver(c, u) == IF c # Nothing /\ u \in Concerned \cap run.users THEN [c EXCEPT !.owner = "subject"] ELSE c

\* A cashout row seen for the first time opens a cashout of its own.
OpenCashout(k) ==
    LET status == run.live.rows[k]
    IN  [state |-> CASE status = "escrow" -> "requested" [] status = "completed" -> "paid" [] OTHER -> "denied",
         owner |-> OwnerIn(run.users, LiveTxnOf[k].from)]

ImportHistory ==
    /\ booked' = booked \cup NewRows
    /\ imported' = Balances
    /\ cashouts' = [k \in LiveTxns |->
         IF k \in NewRows /\ LiveTxnOf[k].type = "cashout" /\ LiveTxnOf[k].amount > 0 THEN OpenCashout(k)
         ELSE HandedOver(cashouts[k], LiveTxnOf[k].from)]
    /\ holds' = [u \in LiveUsers |->
         CASE u \in Concerned /\ u \notin run.users -> "held"
           [] u \in Concerned \cap run.users /\ holds[u] = "held" -> "resolved"
           [] OTHER -> holds[u]]

LaterOf(x, y) == IF x > y THEN x ELSE y

\* The entitlement reaches as far as Live shows it paid.
Cover(s, end) == IF subs[s] = Nothing THEN end ELSE LaterOf(subs[s].cover, end)

\* Subscriptions take Live's state and period.
ImportSub(s) ==
    LET row == run.live.subs[s]
        state == IF row.state = "active" /\ row.end =< Today THEN "expired" ELSE row.state
    IN  IF row = Nothing \/ ~({SubOf[s][1], SubOf[s][2]} \subseteq run.users) THEN subs[s]
        ELSE [state |-> state, end |-> row.end,
              cover |-> IF row.end > Today THEN Cover(s, row.end) ELSE IF subs[s] = Nothing THEN 0 ELSE subs[s].cover]

MayMap(a) == owners[a] = Nothing \/ owners[a].source # "admin"

\* applyProviderAccounts().
ImportOwner(a) ==
    LET u == run.live.connections[a]
    IN  IF u \in run.users /\ MayMap(a) THEN [subject |-> u, source |-> "live-import"] ELSE owners[a]

StartRun(only) ==
    /\ run = Nothing /\ runs < MaxRuns
    /\ runs' = runs + 1
    /\ run' = [state |-> "read", only |-> only, live |-> live, users |-> mapped]
    /\ UNCHANGED <<live, mapped, era, lastRun, natives, billingVars>>

\* The transaction of a whole import.
ApplyRun ==
    /\ run.state = "read" /\ ~run.only
    /\ \E stale \in BOOLEAN : ImportOrders(stale)
    /\ ImportHistory
    /\ subs' = [s \in LiveSubs |-> ImportSub(s)]
    /\ owners' = [a \in Accounts |-> ImportOwner(a)]
    /\ lastRun' = [state |-> "done", live |-> run.live, users |-> run.users]
    /\ run' = Nothing
    /\ UNCHANGED <<live, mapped, era, runs, natives, native>>

\* importProviderAccounts(): the accounts alone.
ApplyAccounts ==
    /\ run.state = "read" /\ run.only
    /\ owners' = [a \in Accounts |-> ImportOwner(a)]
    /\ run' = Nothing
    /\ UNCHANGED <<live, mapped, era, lastRun, runs, natives, ledgerVars, subs>>

\* A dry run is rolled back, and so is one whose process dies.
RollBack ==
    /\ run.state = "read"
    /\ run' = Nothing
    /\ UNCHANGED <<live, mapped, era, lastRun, runs, natives, billingVars>>

\* The cutover of README.md: the final import has read what Live then still shows.
CutOver ==
    /\ era = "shadow" /\ run = Nothing /\ lastRun # Nothing
    /\ [live EXCEPT !.connections = lastRun.live.connections] = lastRun.live
    /\ era' = "billing"
    /\ UNCHANGED <<live, mapped, run, lastRun, runs, natives, billingVars>>

----------------------------------------------------------------------------
(* What Billing does itself, after the cutover.                            *)

\* Variant: a Live-credited order is settled like any other.
NeverInLive(o) == FALSE

SettledInLive(o) == intents[o].state = "settled" /\ ~intents[o].here

\* purchases.settle() of an imported intent.
SettleIntent(o) ==
    /\ era = "billing" /\ intents[o] # Nothing /\ ~intents[o].here /\ ~SettledInLive(o)
    /\ intents' = [intents EXCEPT ![o].state = "settled", ![o].here = TRUE]
    /\ native' = [native EXCEPT ![Credit(LiveTxnOf[o].to, intents[o].owner)] = @ + LiveTxnOf[o].amount]
    /\ UNCHANGED <<live, mapped, era, run, lastRun, runs, natives, booked, imported, cashouts, holds, subs, owners>>

\* cashouts.deny() and confirmPayout() of an imported cashout.
DecideCashout(k, decision) ==
    LET c == cashouts[k]
        t == LiveTxnOf[k]
        returned == IF decision = "denied" THEN t.amount ELSE 0
    IN  /\ era = "billing" /\ c.state = "requested"
        /\ cashouts' = [cashouts EXCEPT ![k].state = decision]
        /\ native' = [native EXCEPT ![PendingOf(t.from, c.owner)] = @ - t.amount, ![Payable(t.from, c.owner)] = @ + returned]
        /\ UNCHANGED <<live, mapped, era, run, lastRun, runs, natives, booked, imported, intents, holds, subs, owners>>

\* A transfer between two people Billing knows.
NativeTransfer(u, v) ==
    /\ era = "billing" /\ natives < MaxNative /\ {u, v} \subseteq mapped /\ Held(Credit(u, "subject")) > 0
    /\ natives' = natives + 1
    /\ native' = [native EXCEPT ![Credit(u, "subject")] = @ - 1, ![Payable(v, "subject")] = @ + 1]
    /\ UNCHANGED <<live, mapped, era, run, lastRun, runs, booked, imported, intents, cashouts, holds, subs, owners>>

\* A renewal of an imported subscription pays another period.
RenewNatively(s) ==
    /\ era = "billing" /\ subs[s] # Nothing /\ subs[s].state = "active" /\ subs[s].end < MaxEnd
    /\ subs' = [subs EXCEPT ![s].end = @ + 1, ![s].cover = LaterOf(@, subs[s].end + 1)]
    /\ UNCHANGED <<live, mapped, era, run, lastRun, runs, natives, ledgerVars, owners>>

\* POST /admin/provider-accounts, frozen or not.
AdminMap(a, u) ==
    /\ u \in mapped
    /\ owners' = [owners EXCEPT ![a] = [subject |-> u, source |-> "admin"]]
    /\ UNCHANGED <<live, mapped, era, run, lastRun, runs, natives, ledgerVars, subs>>

ImporterStep == (\E only \in BOOLEAN : StartRun(only)) \/ ApplyRun \/ ApplyAccounts \/ RollBack \/ CutOver
BillingStep ==
    \/ \E o \in Orders : SettleIntent(o)
    \/ \E k \in LiveTxns : \E decision \in {"paid", "denied"} : DecideCashout(k, decision)
    \/ \E u, v \in LiveUsers : NativeTransfer(u, v)
    \/ \E s \in LiveSubs : RenewNatively(s)
StaffMaps == \E a \in Accounts : \E u \in LiveUsers : AdminMap(a, u)
ImportNext == LiveMovesOn \/ LiveSubscribes \/ LiveReconnects \/ (\E u \in LiveUsers : Resolve(u)) \/ ImporterStep \/ BillingStep \/ StaffMaps
ImportSpec == ImportInit /\ [][ImportNext]_importVars

----------------------------------------------------------------------------
(* What the import promises.                                               *)

\* After an import, through every later move of Billing, the imported part of each
\* account Live describes is Live's column, whoever owned it in earlier runs and
\* whatever rows, holds and corrections those had booked.
ImportedIsLives ==
    lastRun # Nothing =>
        \A u \in LiveUsers : RowsOf(lastRun.live, u) \cup OrdersOf(lastRun.live, u) # {} =>
            LET o == OwnerIn(lastRun.users, u)
            IN  /\ imported[Credit(u, o)] = lastRun.live.credit[u]
                /\ imported[Payable(u, o)] = lastRun.live.payable[u]

\* The bits in escrow under a subject or a hold are those of its requested cashouts,
\* through replays, releases and decisions (openCashout, UPDATE cashouts SET subject).
EscrowBacked ==
    \A u \in LiveUsers, o \in {"subject", "hold"} :
        LET asked == {k \in LiveTxns : cashouts[k].state = "requested" /\ cashouts[k].owner = o /\ LiveTxnOf[k].from = u}
        IN  Held(PendingOf(u, o)) = SumFunctionOnSet([k \in asked |-> LiveTxnOf[k].amount], asked)

\* An order Live credited, whenever it did before the cutover, never settles a second
\* time in Billing, however its delivery comes (live.js 27-28).
CreditedOnceAnywhere ==
    \A o \in Orders : intents[o] # Nothing /\ intents[o].here => live.orders[o] # "credited"

\* live.js 40-41: an import over the snapshot of the one before books no bit, opens no
\* cashout and moves no hold, whatever Billing did between, unless that put bits on the
\* hold of a user the Network knows.
NothingParked == \A u \in run.users, kind \in Kinds : Held(<<kind, u, "hold">>) = 0
RerunChangesNothing ==
    [][ApplyRun /\ lastRun # Nothing /\ run.live = lastRun.live /\ run.users = lastRun.users /\ NothingParked
         => UNCHANGED ledgerVars]_importVars

\* What an operator mapped stays until an operator changes it, though runs read the
\* accounts before (applyProviderAccounts).
AdminMapKept ==
    [][\A a \in Accounts : owners[a] # Nothing /\ owners[a].source = "admin"
         => owners'[a].source = "admin"]_importVars

\* A subscription whose period runs is covered to its end, whether Live or Billing
\* renewed it, and a later import takes away no entitlement.
PeriodsEntitled ==
    \A s \in LiveSubs : subs[s] # Nothing /\ subs[s].state # "expired" /\ subs[s].end > Today => subs[s].cover >= subs[s].end

\* What Live had is what Billing has after each run, and stays so between runs: the
\* accounts' columns, the escrow of cashouts under way and the paid periods.
CarriedOver == ImportTypeOK /\ ImportedIsLives /\ EscrowBacked /\ PeriodsEntitled

\* A later run leaves alone what it did not change itself: all of it where Live stands
\* still, and an operator's mapping always.
LeavesAlone == RerunChangesNothing /\ AdminMapKept

\* README.md 498-500, "opening balances only ever correct the imported part of an
\* account, never what Billing did itself": what a user has in credit is Live's column
\* and what Billing put there.
NativeKept ==
    lastRun # Nothing =>
        \A u \in LiveUsers : RowsOf(lastRun.live, u) \cup OrdersOf(lastRun.live, u) # {} =>
            Held(Credit(u, "subject")) + Held(Credit(u, "hold"))
                = lastRun.live.credit[u] + native[Credit(u, "subject")] + native[Credit(u, "hold")]

=============================================================================
