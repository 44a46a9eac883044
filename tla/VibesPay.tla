------------------------------ MODULE VibesPay ------------------------------
(***************************************************************************)
(* Vibes Pay (server/ops/vibes.js, its routes in api/v1.js and api/me.js): *)
(* an app asks a price, a person pays it, the app may give it back.  The   *)
(* freeze is read when a call arrives; its money() transaction is a later  *)
(* step.  The charge, the movement and the queued webhook are one step;    *)
(* WebhookDelivery brings the webhook to the app.                          *)
(***************************************************************************)
EXTENDS WebhookDelivery, FiniteSets, Functions

CONSTANTS
    Persons,
    Charges,     \* the references under which apps ask, each for one charge
    Asks,        \* charge -> [app, amount, sandbox]
    Grants,      \* <<sandbox app, person, amount>> the app's test grants
    MaxCharge,   \* vibes.maxChargeVibes
    DailyLimit,  \* vibes.dailyAppSpendVibesPerPerson
    Ttl, Day,    \* in ticks
    Funds,       \* real Vibes each person has at first
    None,
    MaxCalls,    \* bound: calls between the freeze check and their transaction
    MaxPocket,   \* bound: test Vibes granted until here
    MaxTime      \* bound: the clock stops here

\* A sandbox app's charges are sandbox charges, and only those.
ASSUME VibesPayAssumption ==
    /\ IsFiniteSet(Persons) /\ IsFiniteSet(Apps) /\ IsFiniteSet(Charges)
    /\ Asks \in [Charges -> [app : Apps, amount : Nat \ {0}, sandbox : BOOLEAN]]
    /\ \A c, d \in Charges : Asks[c].app = Asks[d].app => Asks[c].sandbox = Asks[d].sandbox
    /\ Grants \subseteq {Asks[c].app : c \in {d \in Charges : Asks[d].sandbox}} \X Persons \X (Nat \ {0})
    /\ MaxCharge \in Nat /\ DailyLimit \in Nat /\ Ttl \in Nat /\ Day \in Nat
    /\ Funds \in Nat /\ MaxCalls \in Nat /\ MaxPocket \in Nat /\ MaxTime \in Nat
    /\ None \notin Persons

VARIABLES
    charge,    \* vibes_charges rows
    balance,   \* account_balances, in Vibes
    calls,     \* calls that passed the freeze check
    frozen,    \* settings.freeze
    clock

payVars == <<charge, balance, calls, frozen, clock>>
vars == <<charge, balance, calls, frozen, clock, rows, hooked, pass, crashes>>

Credit(p) == <<"user_credit", None, p>>
Pocket(app, p) == <<"vibes_credit_sandbox", app, p>>
Wallet(app) == <<"project_payable", app, None>>
TestWallet(app) == <<"project_payable_sandbox", app, None>>
Issuer == <<"vibes_sandbox", None, None>>
Pending == <<"payouts_pending", None, None>>
Accounts ==
    {Credit(p) : p \in Persons} \cup {Pocket(app, p) : app \in Apps, p \in Persons}
        \cup {Wallet(app) : app \in Apps} \cup {TestWallet(app) : app \in Apps} \cup {Issuer, Pending}

NoCharge == [status |-> "none", payer |-> None, expires |-> 0, paidAt |-> 0]
ChargeRow == [status : {"none", "pending", "paid", "refunded", "expired", "cancelled"},
              payer : Persons \cup {None}, expires : Nat, paidAt : Nat]
Call == [does : {"create", "pay", "cancel", "refund"}, charge : Charges, person : Persons \cup {None}]

TypeOK ==
    /\ charge \in [Charges -> ChargeRow]
    /\ balance \in [Accounts -> Int]
    /\ calls \subseteq Call /\ frozen \in BOOLEAN /\ clock \in 0..MaxTime
    /\ DeliveryTypeOK

Init ==
    /\ charge = [c \in Charges |-> NoCharge]
    /\ balance = [a \in Accounts |-> IF a[1] = "user_credit" THEN Funds ELSE 0]
    /\ calls = {} /\ frozen = FALSE /\ clock = 0
    /\ DeliveryInit

----------------------------------------------------------------------------
(* A charge's accounts and limits.                                         *)

\* Variant: a test payment is taken from real Vibes.
RealPayer(c, p) == Credit(p)

\* The account a charge's payer spends from, and where a paid charge lands.
PayerAccount(c, p) == IF Asks[c].sandbox THEN Pocket(Asks[c].app, p) ELSE Credit(p)
ProjectAccount(c) == IF Asks[c].sandbox THEN TestWallet(Asks[c].app) ELSE Wallet(Asks[c].app)

Move(c, from, to) == balance' = [balance EXCEPT ![from] = @ - Asks[c].amount, ![to] = @ + Asks[c].amount]

AmountOf(S) == SumFunctionOnSet([c \in S |-> Asks[c].amount], S)

\* Variant: only the app that asks is looked at.
SpentInApp(p, c) == AmountOf({d \in Charges : /\ charge[d].status = "paid" /\ charge[d].payer = p
                                              /\ charge[d].paidAt > clock - Day
                                              /\ Asks[d].app = Asks[c].app})

\* spentToday(): what stands paid in the last 24 h, test payments included.
SpentToday(p, c) == AmountOf({d \in Charges : /\ charge[d].status = "paid" /\ charge[d].payer = p
                                              /\ charge[d].paidAt > clock - Day})

WithinLimit(c, p) == Asks[c].sandbox \/ SpentToday(p, c) + Asks[c].amount =< DailyLimit
Holds(account, c) == balance[account] >= Asks[c].amount
Expired(c) == charge[c].expires =< clock

\* One webhook, and the same body for Events, in the transaction of the change.
Announce(c, event) == rows' = Append(rows, Queued(Asks[c].app, c, event))

----------------------------------------------------------------------------
(* The transactions.                                                       *)

\* A reference in use is answered with its charge, or refused.
CreateCharge(c) ==
    /\ charge[c] = NoCharge
    /\ Asks[c].sandbox \/ Asks[c].amount =< MaxCharge
    /\ charge' = [charge EXCEPT ![c].status = "pending", ![c].expires = clock + Ttl]
    /\ UNCHANGED <<balance, rows>>

\* Committed by the payment or the cancellation that finds it.
Expire(c) ==
    /\ charge[c].status = "pending" /\ Expired(c)
    /\ charge' = [charge EXCEPT ![c].status = "expired"]
    /\ UNCHANGED <<balance, rows>>

\* Variant: only the expiry is looked at.
Created(c) == charge[c].status # "none"

Open(c) == charge[c].status = "pending"

PayCharge(c, p) ==
    /\ Open(c) /\ ~Expired(c)
    /\ WithinLimit(c, p)
    /\ Holds(PayerAccount(c, p), c)
    /\ Move(c, PayerAccount(c, p), ProjectAccount(c))
    /\ charge' = [charge EXCEPT ![c].status = "paid", ![c].payer = p, ![c].paidAt = clock]
    /\ Announce(c, "paid")

CancelCharge(c) ==
    /\ charge[c].status = "pending" /\ ~Expired(c)
    /\ charge' = [charge EXCEPT ![c].status = "cancelled"]
    /\ UNCHANGED <<balance, rows>>

RefundCharge(c) ==
    /\ charge[c].status = "paid"
    /\ Holds(ProjectAccount(c), c)
    /\ Move(c, ProjectAccount(c), PayerAccount(c, charge[c].payer))
    /\ charge' = [charge EXCEPT ![c].status = "refunded"]
    /\ Announce(c, "refunded")

Does(call) ==
    LET c == call.charge
    IN  CASE call.does = "create" -> CreateCharge(c)
          [] call.does = "pay" -> Expire(c) \/ PayCharge(c, call.person)
          [] call.does = "cancel" -> Expire(c) \/ CancelCharge(c)
          [] call.does = "refund" -> RefundCharge(c)

----------------------------------------------------------------------------
(* Calls.  One that is refused, a replay or lost changes nothing.           *)

Arrive(call) ==
    /\ ~frozen /\ Cardinality(calls) < MaxCalls
    /\ calls' = calls \cup {call}
    /\ UNCHANGED <<charge, balance, frozen, clock, deliveryVars>>

Transact(call) ==
    /\ calls' = calls \ {call}
    /\ Does(call)
    /\ UNCHANGED <<frozen, clock, hooked, pass, crashes>>

Refuse(call) ==
    /\ calls' = calls \ {call}
    /\ UNCHANGED <<charge, balance, frozen, clock, deliveryVars>>

\* The issuer's balance is what was granted.
SandboxGrant(app, p, amount) ==
    /\ ~frozen
    /\ balance[Pocket(app, p)] < MaxPocket
    /\ balance' = [balance EXCEPT ![Issuer] = @ - amount, ![Pocket(app, p)] = @ + amount]
    /\ UNCHANGED <<charge, calls, frozen, clock, deliveryVars>>

\* The project's owner asks for a payout of its Vibes (cashouts.js).
CashOut(app) ==
    /\ ~frozen
    /\ balance[Wallet(app)] > 0
    /\ balance' = [balance EXCEPT ![Wallet(app)] = 0, ![Pending] = @ + balance[Wallet(app)]]
    /\ UNCHANGED <<charge, calls, frozen, clock, deliveryVars>>

SetFreeze == frozen' = ~frozen /\ UNCHANGED <<charge, balance, calls, clock, deliveryVars>>

Tick == clock < MaxTime /\ clock' = clock + 1 /\ UNCHANGED <<charge, balance, calls, frozen, deliveryVars>>

PayNext ==
    \/ \E c \in Charges, does \in {"create", "cancel", "refund"} :
         Arrive([does |-> does, charge |-> c, person |-> None])
    \/ \E c \in Charges, p \in Persons : Arrive([does |-> "pay", charge |-> c, person |-> p])
    \/ \E call \in calls : Transact(call) \/ Refuse(call)
    \/ \E g \in Grants : SandboxGrant(g[1], g[2], g[3])
    \/ \E app \in Apps : CashOut(app)
    \/ SetFreeze \/ Tick

Deliver == DeliveryNext /\ UNCHANGED payVars

Next == PayNext \/ Deliver

Spec == Init /\ [][Next]_vars
FairSpec == Spec /\ DeliveryFairness

----------------------------------------------------------------------------
(* What Vibes Pay promises.                                                *)

IsPurse(a) == a[1] \in {"user_credit", "vibes_credit_sandbox"}
IsTill(a) == a[1] \in {"project_payable", "project_payable_sandbox"}
Phase(status) == CASE status = "pending" -> "open"
                   [] status \in {"expired", "cancelled"} -> "closed"
                   [] OTHER -> status

Kept == INSTANCE ChargePromise WITH
    Purses <- {a \in Accounts : IsPurse(a)},
    Tills <- {a \in Accounts : IsTill(a)},
    Price <- [c \in Charges |-> Asks[c].amount],
    PurseOf <- [x \in Charges \X Persons |-> PayerAccount(x[1], x[2])],
    TillOf <- [c \in Charges |-> ProjectAccount(c)],
    phase <- [c \in Charges |-> Phase(charge[c].status)],
    payer <- [c \in Charges |-> IF charge[c].payer = None THEN "nobody" ELSE charge[c].payer],
    purse <- [a \in {b \in Accounts : IsPurse(b)} |-> balance[a]],
    till <- [a \in {b \in Accounts : IsTill(b)} |-> balance[a]],
    told <- [i \in DOMAIN rows |-> <<rows[i].charge, rows[i].event>>]

\* However calls of apps and people interleave, expire and are repeated: a charge is
\* paid once, by one person, from enough Vibes, given back once and whole to that
\* person, and each movement is announced once, in order (docs/vibes-pay.md 57-60).
KeepsChargePromise == Kept!Promise

\* No order of payments, refunds and days lets a person's standing real payments of
\* one day pass the owner's limit (spentToday; docs/vibes-pay.md, Limits).
DailyLimitKept ==
    \A p \in Persons :
        AmountOf({c \in Charges : /\ charge[c].status = "paid" /\ charge[c].payer = p
                                  /\ ~Asks[c].sandbox /\ charge[c].paidAt > clock - Day}) =< DailyLimit

\* All that is in pockets and test wallets is what the
\* issuer granted, and a real account never gains or loses by them (vibes.js 16-18).
SandboxApart ==
    LET test == {a \in Accounts : a[1] \in {"vibes_credit_sandbox", "project_payable_sandbox"}}
        real == {a \in Accounts : a[1] \in {"user_credit", "project_payable", "payouts_pending"}}
    IN  /\ SumFunctionOnSet(balance, test) = -balance[Issuer]
        /\ SumFunctionOnSet(balance, real) = Funds * Cardinality(Persons)

\* Test Vibes stay test Vibes, in every state of charges, calls and deliveries.
PayInv == TypeOK /\ SandboxApart

\* docs/vibes-pay.md 109-110, sandbox payments "never count toward the real daily
\* limit": what a person may still pay depends on real payments alone.
LimitCountsRealOnly ==
    \A c \in Charges, p \in Persons :
        LET real == {d \in Charges : /\ charge[d].status = "paid" /\ charge[d].payer = p
                                     /\ ~Asks[d].sandbox /\ charge[d].paidAt > clock - Day}
        IN  ~Asks[c].sandbox /\ AmountOf(real) + Asks[c].amount =< DailyLimit => WithinLimit(c, p)

\* README.md 118-119, "the economy freeze [is] checked inside the money transaction":
\* while it lasts no Vibes move.
FrozenMovesNothing == [][frozen => balance' = balance]_vars

=============================================================================
