------------------------------ MODULE Metering ------------------------------
(***************************************************************************)
(* Usage readings become charges (server/ops/rating.js), after the promo   *)
(* allowance paid its part (promo.js) and within hard budgets.             *)
(*                                                                         *)
(* A sweep reads the due readings once and rates them one by one.  Rating  *)
(* is one serializable transaction; what it refuses is noted in a second   *)
(* one.  The loader of rate cards and the freeze write at the database's   *)
(* default isolation and are not ordered with it: a rating that began      *)
(* before sees the cards and the freeze of its own snapshot.  Sweeps       *)
(* overlap and a restart loses them.                                       *)
(***************************************************************************)
EXTENDS Pricing, Sequences

CONSTANTS
    People,
    Readings,      \* idempotency keys of readings
    ReadingOf,     \* key -> what the reading says
    Cards,         \* cards a reviewer may load
    Allowances,    \* <<person, service, period, bits>> staff may grant
    BudgetSets,    \* <<person, service, period, bits>> staff may set
    WindowDays,    \* period -> days, 0 for one window for all time
    Raters,        \* sweeps that may run at once
    Money,         \* bits of credit each person has
    Exact,         \* the largest exact charge
    Nobody,
    MaxGrants,     \* bound: allowances granted
    MaxTaken,      \* bound: promo bits an operator takes back by hand
    MaxRestarts,   \* bound: restarts of the process
    LastDay        \* bound: the clock stops here

Services == {ReadingOf[k].service : k \in Readings} \cup {"*"}
Periods == DOMAIN WindowDays

ASSUME MeteringAssumption ==
    /\ ReadingOf \in [Readings -> [person : People \cup {Nobody}, service : STRING, metric : STRING, region : STRING,
                                   day : Nat, unit : STRING, quantity : Nat]]
    /\ \A c \in Cards : c \in [id : Nat, metric : STRING, region : STRING, unit : STRING, price : Nat,
                               size : Nat \ {0}, from : Nat, until : Nat]
    /\ Allowances \cup BudgetSets \subseteq People \X Services \X Periods \X Nat
    /\ \A a \in Allowances : a[4] > 0
    /\ WindowDays \in [Periods -> Nat]
    /\ Money \in Nat /\ Exact \in Nat /\ MaxGrants \in Nat /\ MaxTaken \in Nat /\ MaxRestarts \in Nat
    /\ LastDay \in Nat /\ Nobody \notin People /\ IsFiniteSet(Readings)

VARIABLES
    cards,       \* rate_cards
    usage,       \* usage_records
    allowances,  \* promo_allowances, by id
    budgets,     \* usage_budgets of <<person, service>> by window_start, and the last updated of them
    bits,        \* account_balances
    stopped,     \* settings.freeze
    rater,       \* where each sweep is
    day,
    taken, restarts

meterVars == <<cards, usage, allowances, budgets, bits, stopped, rater, day, taken, restarts>>

CreditOf(p) == <<"user_credit", p>>
Promo(p) == <<"promo_credit", p>>
PromoReserve == <<"promo_reserve", Nobody>>
BitsRevenue == <<"platform_revenue", Nobody>>
MeterAccounts == {CreditOf(p) : p \in People} \cup {Promo(p) : p \in People} \cup {PromoReserve, BitsRevenue}

Never == 9999
WindowStart(period, t) == IF WindowDays[period] = 0 THEN 0 ELSE t - (t % WindowDays[period])
WindowEnd(period, t) == IF WindowDays[period] = 0 THEN Never ELSE WindowStart(period, t) + WindowDays[period]

Retried == {"insufficient_funds", "budget_exceeded"}
AwaitCard == {"no_rate_card", "unit_mismatch"}
NotStored == [state |-> "none", error |-> "", charge |-> 0, promo |-> 0, card |-> 0, under |-> {}]
Reading == [state : {"none", "due", "later", "left", "rated"},
            error : {"", "no_subject", "amount_overflow"} \cup Retried \cup AwaitCard,
            charge : Nat, promo : Nat, card : Nat, under : SUBSET (Services \X (0..LastDay))]
Waiting == [phase |-> "waiting"]
NoBudget == [newest |-> 0, rows |-> <<>>]

MeterTypeOK ==
    /\ cards \subseteq Cards
    /\ usage \in [Readings -> Reading]
    /\ \A i \in DOMAIN allowances : allowances[i].used + allowances[i].expired =< allowances[i].granted
    /\ \A w \in Raters : rater[w] = Waiting \/ rater[w].left \subseteq Readings
    /\ \A p \in People : bits[CreditOf(p)] >= 0 /\ bits[Promo(p)] >= 0
    /\ day \in 0..LastDay

MeterInit ==
    /\ cards = {}
    /\ usage = [k \in Readings |-> NotStored]
    /\ allowances = <<>>
    /\ budgets = [b \in People \X Services |-> NoBudget]
    /\ bits = [a \in MeterAccounts |-> IF a[1] = "user_credit" THEN Money ELSE 0]
    /\ stopped = FALSE
    /\ rater = [w \in Raters |-> Waiting]
    /\ day = 0 /\ taken = 0 /\ restarts = 0

----------------------------------------------------------------------------
(* Promo allowances (promo.js).                                            *)

Left(i, rows) == rows[i].granted - rows[i].used - rows[i].expired
TotalLeft(rows, S) == SumFunctionOnSet([i \in S |-> Left(i, rows)], S)
AtMostBits(n, m) == IF n < m THEN n ELSE m

\* lapse(): windows that ended give back what is left of them.
Ended(p) == {i \in DOMAIN allowances : allowances[i].person = p /\ allowances[i].end =< day
                                       /\ Left(i, allowances) > 0}
Lapsed(p) == [i \in DOMAIN allowances |->
                IF i \in Ended(p) THEN [allowances[i] EXCEPT !.expired = @ + Left(i, allowances)] ELSE allowances[i]]

\* Variant: what an operator took back by hand is not looked at.
LapsedInFull(p) == TotalLeft(allowances, Ended(p))

\* Never more than the account still holds.
LapsedBits(p) == AtMostBits(TotalLeft(allowances, Ended(p)), bits[Promo(p)])

AfterLapse(p) == [bits EXCEPT ![Promo(p)] = @ - LapsedBits(p), ![PromoReserve] = @ + LapsedBits(p)]

\* grant(): tops up the window of now, if it is open already.
Grant(p, service, period, amount) ==
    LET start == WindowStart(period, day)
        rows == Lapsed(p)
        same == {i \in DOMAIN rows : <<rows[i].person, rows[i].service, rows[i].period, rows[i].start>>
                                        = <<p, service, period, start>>}
    IN  /\ ~stopped
        /\ SumFunctionOnSet([i \in DOMAIN allowances |-> allowances[i].granted], DOMAIN allowances) < MaxGrants
        /\ \/ /\ same = {}
              /\ allowances' = Append(rows, [person |-> p, service |-> service, period |-> period, start |-> start,
                                             end |-> WindowEnd(period, day), granted |-> amount, used |-> 0, expired |-> 0])
           \/ \E i \in same : allowances' = [rows EXCEPT ![i].granted = @ + amount]
        /\ bits' = [AfterLapse(p) EXCEPT ![PromoReserve] = @ - amount, ![Promo(p)] = @ + amount]
        /\ UNCHANGED <<cards, usage, budgets, stopped, rater, day, taken, restarts>>

\* An operator's adjustment between the two promo kinds (admin.js).
TakeBack(p) ==
    /\ ~stopped /\ bits[Promo(p)] > 0 /\ taken < MaxTaken
    /\ taken' = taken + 1
    /\ bits' = [bits EXCEPT ![Promo(p)] = @ - 1, ![PromoReserve] = @ + 1]
    /\ UNCHANGED <<cards, usage, allowances, budgets, stopped, rater, day, restarts>>

\* consume(): what each open window of the service gives, the soonest ending first.
Usable(p, service, rows) ==
    {i \in DOMAIN rows : /\ rows[i].person = p /\ rows[i].service \in {service, "*"}
                         /\ Left(i, rows) > 0 /\ rows[i].start =< day /\ day < rows[i].end}
Sooner(i, j, rows) == rows[i].end < rows[j].end \/ (rows[i].end = rows[j].end /\ i < j)
DrawnFrom(rows, usable, total) ==
    [i \in usable |->
       LET before == TotalLeft(rows, {j \in usable : Sooner(j, i, rows)})
       IN  IF before > total THEN 0 ELSE AtMostBits(Left(i, rows), total - before)]
Drawn(p, service, wanted) ==
    DrawnFrom(Lapsed(p), Usable(p, service, Lapsed(p)),
              AtMostBits(wanted, AfterLapse(p)[Promo(p)]))

----------------------------------------------------------------------------
(* Hard budgets.                                                           *)

Put(budget, row) ==
    [newest |-> row.start,
     rows |-> [t \in DOMAIN budget.rows \cup {row.start} |-> IF t = row.start THEN row ELSE budget.rows[t]]]

\* setBudget(): the window of now keeps what it has spent.
SetBudget(p, service, period, amount) ==
    LET start == WindowStart(period, day)
        rows == budgets[p, service].rows
        spent == IF start \in DOMAIN rows THEN rows[start].spent ELSE 0
    IN  /\ ~stopped
        /\ budgets' = [budgets EXCEPT ![<<p, service>>] =
             Put(@, [period |-> period, start |-> start, end |-> WindowEnd(period, day), budget |-> amount, spent |-> spent])]
        /\ UNCHANGED <<cards, usage, allowances, bits, stopped, rater, day, taken, restarts>>

\* The newest row is the policy; its window rolls over once it ends.
OpenRow(p, service) ==
    LET rows == budgets[p, service].rows
        policy == rows[budgets[p, service].newest]
        start == WindowStart(policy.period, day)
    IN  IF policy.end > day THEN policy
        ELSE IF start \in DOMAIN rows THEN rows[start]
        ELSE [policy EXCEPT !.start = start, !.end = WindowEnd(policy.period, day), !.spent = 0]

Budgeted(p, service) == {s \in {service, "*"} : budgets[p, s] # NoBudget}

WithinBudgets(p, service, charge) ==
    \A s \in Budgeted(p, service) : OpenRow(p, s).spent + charge =< OpenRow(p, s).budget

\* spendBudgets(), when none refuses.
SpendBudgets(p, service, charge) ==
    budgets' = [b \in DOMAIN budgets |->
        IF b[1] = p /\ b[2] \in Budgeted(p, service)
        THEN Put(budgets[b], [OpenRow(p, b[2]) EXCEPT !.spent = @ + charge]) ELSE budgets[b]]

----------------------------------------------------------------------------
(* Readings and cards.                                                     *)

\* record(): due at once; a known key is answered with its row.
Record(k) ==
    /\ usage[k] = NotStored
    /\ usage' = [usage EXCEPT ![k].state = "due"]
    /\ UNCHANGED <<cards, allowances, budgets, bits, stopped, rater, day, taken, restarts>>

AwaitsCard(k, c) ==
    usage[k].state = "left" /\ usage[k].error \in AwaitCard /\ ReadingOf[k].metric = c.metric

\* A rating holds the lock of its row.
Locked(k) == \E w \in Raters : rater[w].phase = "rating" /\ rater[w].at = k

\* loadCards(): readings that wait for such a card are due again; one that is being
\* rated is waited for.
LoadCard(c) ==
    /\ \A k \in Readings : AwaitsCard(k, c) => ~Locked(k)
    /\ cards' = {d \in cards : d.id # c.id} \cup {c}
    /\ usage' = [k \in Readings |->
         IF AwaitsCard(k, c) THEN [usage[k] EXCEPT !.state = "due", !.error = ""] ELSE usage[k]]
    /\ UNCHANGED <<allowances, budgets, bits, stopped, rater, day, taken, restarts>>

----------------------------------------------------------------------------
(* Rating.                                                                 *)

GoOnRating(left) == IF left = {} THEN Waiting ELSE [phase |-> "rows", left |-> left]

StartSweep(w) ==
    /\ rater[w] = Waiting /\ ~stopped
    /\ \E k \in Readings : usage[k].state = "due"
    /\ rater' = [rater EXCEPT ![w] = [phase |-> "rows", left |-> {k \in Readings : usage[k].state = "due"}]]
    /\ UNCHANGED <<cards, usage, allowances, budgets, bits, stopped, day, taken, restarts>>

\* The transaction begins: its row is locked and its snapshot taken, or the row is
\* passed by because another rating has it.
BeginRating(w, k) ==
    /\ rater[w].phase = "rows" /\ k \in rater[w].left
    /\ rater' = [rater EXCEPT ![w] =
         IF Locked(k) THEN GoOnRating(@.left \ {k})
         ELSE [phase |-> "rating", left |-> @.left \ {k}, at |-> k, cards |-> cards, frozen |-> stopped]]
    /\ UNCHANGED <<cards, usage, allowances, budgets, bits, stopped, day, taken, restarts>>

\* Variant: a row read as due is rated without a second look.
NotYet(k) == FALSE

Rated(k) == usage[k].state = "rated"

\* Left without a charge: no person, no card, or another unit than the card's.
LeaveUnrated(k, fit) ==
    LET r == ReadingOf[k]
        why == CASE r.person = Nobody -> "no_subject"
                 [] r.person # Nobody /\ fit = {} -> "no_rate_card"
                 [] OTHER -> "unit_mismatch"
    IN  /\ r.person = Nobody \/ fit = {} \/ \E c \in fit : c.unit # r.unit
        /\ usage' = [usage EXCEPT ![k].state = "left", ![k].error = why]
        /\ UNCHANGED <<allowances, budgets, bits>>

Chargeable(k, fit) == ReadingOf[k].person # Nobody /\ \E c \in fit : c.unit = ReadingOf[k].unit

\* What is left to charge when the allowance gives d.
ToCharge(k, card, d) == ChargeFor(card, ReadingOf[k].quantity) - SumFunctionOnSet(d, DOMAIN d)

Refusal(k, card, d) ==
    LET p == ReadingOf[k].person
        charge == ToCharge(k, card, d)
    IN  CASE ChargeFor(card, ReadingOf[k].quantity) > Exact -> "amount_overflow"
          [] charge > bits[CreditOf(p)] -> "insufficient_funds"
          [] charge > 0 /\ ~WithinBudgets(p, ReadingOf[k].service, charge) -> "budget_exceeded"
          [] OTHER -> ""

\* The allowance, the charge, the budgets and the mark, together.
Charge(k, card, d) ==
    LET r == ReadingOf[k]
        p == r.person
        gross == ChargeFor(card, r.quantity)
        charge == ToCharge(k, card, d)
        rows == Lapsed(p)
    IN  /\ IF gross = 0 THEN UNCHANGED <<allowances, bits>>
           ELSE /\ allowances' = [i \in DOMAIN rows |->
                     IF i \in DOMAIN d THEN [rows[i] EXCEPT !.used = @ + d[i]] ELSE rows[i]]
                /\ bits' = [AfterLapse(p) EXCEPT ![Promo(p)] = @ - (gross - charge), ![PromoReserve] = @ + (gross - charge),
                                                 ![CreditOf(p)] = @ - charge, ![BitsRevenue] = @ + charge]
        /\ IF charge = 0 THEN UNCHANGED budgets ELSE SpendBudgets(p, r.service, charge)
        /\ usage' = [usage EXCEPT ![k] =
             [state |-> "rated", error |-> "", charge |-> charge, promo |-> gross - charge, card |-> card.id,
              under |-> IF charge = 0 THEN {}
                        ELSE {<<s, OpenRow(p, s).start>> : s \in Budgeted(p, r.service)}]]

\* What the allowance gives to a reading under a card.
Draw(k, card) == Drawn(ReadingOf[k].person, ReadingOf[k].service, ChargeFor(card, ReadingOf[k].quantity))

\* The rest of rate(): a rated row is a replay; a frozen economy stops the sweep.
Rate(w) ==
    /\ rater[w].phase = "rating"
    /\ \E k \in {rater[w].at}, done \in {GoOnRating(rater[w].left)} :
       \E fit \in {PickCard(rater[w].cards, ReadingOf[k])} :
          \/ /\ Rated(k)
              /\ rater' = [rater EXCEPT ![w] = done]
              /\ UNCHANGED <<usage, allowances, budgets, bits>>
           \/ /\ ~Rated(k) /\ rater[w].frozen
              /\ rater' = [rater EXCEPT ![w] = Waiting]
              /\ UNCHANGED <<usage, allowances, budgets, bits>>
           \/ /\ ~Rated(k) /\ ~rater[w].frozen
              /\ LeaveUnrated(k, fit)
              /\ rater' = [rater EXCEPT ![w] = done]
           \/ /\ ~Rated(k) /\ ~rater[w].frozen /\ Chargeable(k, fit)
              /\ \E c \in fit : \E d \in {Draw(k, c)} : \E refusal \in {Refusal(k, c, d)} :
                   IF refusal = ""
                   THEN Charge(k, c, d) /\ rater' = [rater EXCEPT ![w] = done]
                   ELSE /\ rater' = [rater EXCEPT ![w] =
                             [phase |-> "refused", left |-> @.left, at |-> k, error |-> refusal]]
                        /\ UNCHANGED <<usage, allowances, budgets, bits>>
    /\ UNCHANGED <<cards, stopped, day, taken, restarts>>

\* Variant: no refusal is tried again.
AllLeft(error) == "left"

\* A refusal that may pass is tried again later.
AfterRefusal(error) == IF error \in Retried THEN "later" ELSE "left"

\* leave(), in a transaction of its own; never a rated row.
NoteRefusal(w) ==
    /\ rater[w].phase = "refused"
    /\ LET k == rater[w].at
       IN  usage' = IF usage[k].state = "rated" THEN usage
                    ELSE [usage EXCEPT ![k].state = AfterRefusal(rater[w].error), ![k].error = rater[w].error]
    /\ rater' = [rater EXCEPT ![w] = GoOnRating(@.left)]
    /\ UNCHANGED <<cards, allowances, budgets, bits, stopped, day, taken, restarts>>

RaterStep(w) ==
    \/ StartSweep(w)
    \/ rater[w].phase = "rows" /\ \E k \in rater[w].left : BeginRating(w, k)
    \/ Rate(w) \/ NoteRefusal(w)

\* BILLING_RATING_RETRY_MS is over.
RetryDue(k) ==
    /\ usage[k].state = "later"
    /\ usage' = [usage EXCEPT ![k].state = "due"]
    /\ UNCHANGED <<cards, allowances, budgets, bits, stopped, rater, day, taken, restarts>>

Freeze == stopped' = ~stopped /\ UNCHANGED <<cards, usage, allowances, budgets, bits, rater, day, taken, restarts>>

NextDay ==
    /\ day < LastDay
    /\ day' = day + 1
    /\ UNCHANGED <<cards, usage, allowances, budgets, bits, stopped, rater, taken, restarts>>

RestartRaters ==
    /\ restarts < MaxRestarts
    /\ restarts' = restarts + 1
    /\ rater' = [w \in Raters |-> Waiting]
    /\ UNCHANGED <<cards, usage, allowances, budgets, bits, stopped, day, taken>>

\* What readings and their sweeps do, and what staff do around them.
RatingStep ==
    \/ \E k \in Readings : Record(k) \/ RetryDue(k)
    \/ \E w \in Raters : RaterStep(w)
PolicyStep ==
    \/ \E a \in Allowances : Grant(a[1], a[2], a[3], a[4])
    \/ \E b \in BudgetSets : SetBudget(b[1], b[2], b[3], b[4])
    \/ \E p \in People : TakeBack(p)
    \/ NextDay
OperationStep == Freeze \/ RestartRaters \/ \E c \in Cards : LoadCard(c)

MeterNext == RatingStep \/ PolicyStep \/ OperationStep

\* The timer keeps sweeping, a sweep goes on, and a delay ends.
MeterFairness ==
    /\ \A w \in Raters : WF_meterVars(RaterStep(w))
    /\ \A k \in Readings : WF_meterVars(RetryDue(k))

MeterSpec == MeterInit /\ [][MeterNext]_meterVars /\ MeterFairness

----------------------------------------------------------------------------
(* What metering promises.                                                 *)

RatedOf(p) == {k \in Readings : usage[k].state = "rated" /\ ReadingOf[k].person = p}
ChargeOf(S) == SumFunctionOnSet([k \in S |-> usage[k].charge], S)

\* However sweeps overlap, fail, and restart, a person is out of exactly the charges
\* of the rated readings, each the price of a card less what the allowance paid, and
\* an unrated reading has cost nothing (rating.js 10-12, "all or nothing").
ChargedOnceEach ==
    /\ \A p \in People : bits[CreditOf(p)] = Money - ChargeOf(RatedOf(p))
    /\ bits[BitsRevenue] = ChargeOf(Readings)
    /\ \A k \in Readings :
         IF usage[k].state = "rated"
         THEN \E c \in Cards : /\ c.id = usage[k].card /\ Fits(c, ReadingOf[k])
                               /\ usage[k].charge + usage[k].promo = ChargeFor(c, ReadingOf[k].quantity)
         ELSE usage[k].charge + usage[k].promo = 0

\* What a reading was rated with, charge and allowance together, is never below its
\* exact price under the card it names and above it by less than a bit (rating.js
\* 51, "rounded up once"), whatever sweeps and loads of cards did between; and so of
\* requests by tokens (RequestsCeil).
PricesRoundUp ==
    /\ RequestsCeil
    /\ \A k \in Readings : usage[k].state = "rated" =>
         \E c \in Cards :
            /\ c.id = usage[k].card /\ Fits(c, ReadingOf[k])
            /\ LET over == (usage[k].charge + usage[k].promo) * c.size - ReadingOf[k].quantity * c.price
               IN  0 =< over /\ over < c.size

\* The allowance a person holds is never more than what their windows have left, is
\* all of it but for what was taken back by hand, is never negative, and what was
\* used of it paid for rated readings (promo.js 10-15; promo.isolated of reconcile).
PromoAddsUp ==
    \A p \in People :
        LET mine == {i \in DOMAIN allowances : allowances[i].person = p}
        IN  /\ bits[Promo(p)] \in 0..TotalLeft(allowances, mine)
            /\ TotalLeft(allowances, mine) - bits[Promo(p)] =< taken
            /\ SumFunctionOnSet([i \in mine |-> allowances[i].used], mine)
                 = SumFunctionOnSet([k \in RatedOf(p) |-> usage[k].promo], RatedOf(p))

\* A budget's window counts each charge made under it once, whatever was refused,
\* rolled back or tried again, and never more than the owner allowed it, across
\* windows that roll over and policies that change (spendBudgets).
BudgetsHold ==
    \A p \in People, s \in Services : \A start \in DOMAIN budgets[p, s].rows :
        LET row == budgets[p, s].rows[start]
        IN  /\ row.spent = ChargeOf({k \in RatedOf(p) : <<s, start>> \in usage[k].under})
            /\ \E b \in BudgetSets : b[1] = p /\ b[2] = s /\ row.spent =< b[4]

\* Money, usage and budgets tell one story whatever order sweeps, refusals, restarts
\* and policy changes come in: no charge is lost, taken twice or counted twice.
ChargesAddUp == MeterTypeOK /\ ChargedOnceEach /\ BudgetsHold

\* A reading that could be paid does not wait for ever: refused for funds or by a
\* budget, it is tried again (BILLING_RATING_RETRY_MS).
PaidWhenPossible ==
    \A k \in Readings :
        []<>~(/\ usage[k].state \in {"due", "later"} \/ usage[k].error \in Retried
              /\ ~stopped
              /\ LET fit == PickCard(cards, ReadingOf[k])
                 IN  Chargeable(k, fit) /\ \E c \in fit : Refusal(k, c, Draw(k, c)) = "")

\* README.md 199, "wait until a matching card is loaded (the loader makes them due
\* again)": a reading left for want of a card has no card that fits.
WaitsOnlyWithoutCard ==
    \A k \in Readings :
        usage[k].state = "left" /\ usage[k].error = "no_rate_card"
            => PickCard(cards, ReadingOf[k]) = {}

=============================================================================
