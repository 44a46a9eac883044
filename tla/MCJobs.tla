------------------------------- MODULE MCJobs -------------------------------
(***************************************************************************)
(* Instances of the background work on Billing's data: rating of usage     *)
(* (Metering) and the import from Live (LiveImport).  A behaviour is of    *)
(* one of them; scope says which part of it moves.                         *)
(***************************************************************************)
EXTENDS Metering, LiveImport

VARIABLE scope

CONSTANTS alice, noone, k1, k2, s1, s2, u1, u2, p1, d1, c1, r1, x1, pc

----------------------------------------------------------------------------
(* Rating.                                                                 *)

MCReadingOf ==
    [k \in {k1, k2} |->
       [person |-> alice, service |-> IF k = k1 THEN "ai" ELSE "cdn", metric |-> "gb", region |-> "eu", day |-> 0,
        unit |-> "gb", quantity |-> IF k = k1 THEN 3 ELSE 2]]

CardAt(id, region, unit, price) ==
    [id |-> id, metric |-> "gb", region |-> region, unit |-> unit, price |-> price, size |-> 2, from |-> 0, until |-> 9]

\* The second version of card 1 fits, the first is in another unit; card 2 is the region's own.
MCCards == {CardAt(1, "any", "mb", 1), CardAt(1, "any", "gb", 1), CardAt(2, "eu", "gb", 2)}
MCWindowDays == [day |-> 1, month |-> 2, none |-> 0]
MCAllowances == {<<alice, "ai", "day", 1>>, <<alice, "*", "month", 1>>}
MCBudgets == {<<alice, "ai", "day", 1>>, <<alice, "*", "month", 2>>}

\* Policies change around one sweep over a loaded card; or sweeps overlap while cards
\* are loaded, under one grant and one budget, with the freeze and a restart.
Loaded == cards = {} /\ LoadCard(CardAt(1, "any", "gb", 1))
Prepared ==
    \/ allowances = <<>> /\ Grant(alice, "*", "month", 1)
    \/ allowances # <<>> /\ budgets[alice, "ai"] = NoBudget /\ SetBudget(alice, "ai", "day", 1)
MeterScopes ==
    CASE scope = "policies" -> \/ Loaded
                               \/ cards # {} /\ PolicyStep
                               \/ cards # {} /\ RatingStep /\ rater'[s2] = Waiting
      [] scope = "cards" -> \/ Prepared
                            \/ budgets[alice, "ai"] # NoBudget /\ (RatingStep \/ OperationStep)

----------------------------------------------------------------------------
(* The import.                                                             *)

MCLiveTxnOf ==
    [k \in {p1, d1, c1, r1} |->
       CASE k = p1 -> [type |-> "purchase", from |-> noone, to |-> u1, amount |-> 2]
         [] k = d1 -> [type |-> "donation", from |-> u1, to |-> u2, amount |-> 1]
         [] k = c1 -> [type |-> "cashout", from |-> u2, to |-> noone, amount |-> 1]
         [] k = r1 -> [type |-> "recycle", from |-> u2, to |-> noone, amount |-> 1]]
MCSubOf == [x \in {x1} |-> <<u1, u2>>]

\* Money, with every order of its moves; or subscriptions; or the provider accounts.
ImportScopes ==
    \/ \E u \in LiveUsers : Resolve(u)
    \/ scope = "money" /\ (LiveMovesOn \/ StartRun(FALSE) \/ ApplyRun \/ CutOver \/ BillingStep)
    \/ scope = "subscriptions" /\ (LiveSubscribes \/ StartRun(FALSE) \/ ApplyRun \/ CutOver \/ BillingStep)
    \/ scope = "accounts" /\ (LiveReconnects \/ StaffMaps \/ ImporterStep)

----------------------------------------------------------------------------
MeterPart == {"policies", "cards"}

MCInit ==
    /\ MeterInit /\ ImportInit
    /\ scope \in MeterPart \cup {"money", "subscriptions", "accounts"}
MCNext ==
    /\ \/ scope \in MeterPart /\ MeterScopes /\ UNCHANGED importVars
       \/ scope \notin MeterPart /\ ImportScopes /\ UNCHANGED meterVars
    /\ UNCHANGED scope

\* MeterFairness, of the sweeps that the scope has.
Sweeping(w) == (scope = "policies" => w = s1) /\ RaterStep(w)
MCFairness ==
    /\ \A w \in Raters : WF_meterVars(Sweeping(w))
    /\ \A k \in Readings : WF_meterVars(RetryDue(k))

MCSpec == MCInit /\ [][MCNext]_<<meterVars, importVars, scope>> /\ MCFairness

=============================================================================
