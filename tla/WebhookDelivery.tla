-------------------------- MODULE WebhookDelivery --------------------------
(***************************************************************************)
(* The outbox of an app's webhooks (server/ops/vibes-webhooks.js).  The    *)
(* timer of server/index.js starts a pass every few seconds whether or not *)
(* the last one is done.  A pass reads the due rows once, then takes them  *)
(* one by one: it claims a row, reads the app's settings, posts, and       *)
(* writes the outcome, counting from the attempts it read at first.        *)
(*                                                                         *)
(* A post times out long before its claim does (DELIVER_TIMEOUT_MS,        *)
(* CLAIM_MS), so a row is not due again while a pass is busy with it.      *)
(***************************************************************************)
EXTENDS Integers, Sequences

CONSTANTS
    Apps,
    Passes,       \* passes that may run at once
    Rows,         \* indices of the rows that may be queued
    MaxAttempts,  \* MAX_ATTEMPTS
    MaxCrashes    \* bound: restarts of the process

ASSUME DeliveryAssumption == Rows \subseteq Nat /\ MaxAttempts \in Nat \ {0} /\ MaxCrashes \in Nat

VARIABLES
    rows,     \* vibes_webhook_outbox, in the order queued
    hooked,   \* apps with a webhook URL and secret
    pass,     \* where each pass is
    crashes

deliveryVars == <<rows, hooked, pass, crashes>>

Queued(app, charge, event) ==
    [app |-> app, charge |-> charge, event |-> event, attempts |-> 0, due |-> TRUE, status |-> "queued"]

Resting == [phase |-> "resting"]
Read == [row : Nat, attempts : Nat]       \* what a pass keeps of a row it read
PassState ==
    {Resting} \cup [phase : {"rows"}, left : SUBSET Read]
              \cup [phase : {"claimed", "posting"}, left : SUBSET Read, at : Read]

DeliveryTypeOK ==
    /\ \A i \in DOMAIN rows :
         /\ rows[i].attempts \in 0..MaxAttempts /\ rows[i].due \in BOOLEAN
         /\ rows[i].status \in {"queued", "delivered", "abandoned"}
    /\ hooked \subseteq Apps
    /\ \A w \in Passes : pass[w] \in PassState
    /\ crashes \in 0..MaxCrashes

DeliveryInit ==
    /\ rows = <<>>
    /\ hooked = Apps
    /\ pass = [w \in Passes |-> Resting]
    /\ crashes = 0

----------------------------------------------------------------------------
Configure(app) == hooked' = hooked \cup {app} /\ UNCHANGED <<rows, pass, crashes>>
Remove(app) == hooked' = hooked \ {app} /\ UNCHANGED <<rows, pass, crashes>>

\* Its retry delay or its claim is over; next_attempt_at stays on an ended row.
BecomeDue(i) ==
    /\ ~rows[i].due
    /\ \A w \in Passes : pass[w].phase \in {"claimed", "posting"} => pass[w].at.row # i
    /\ rows' = [rows EXCEPT ![i].due = TRUE]
    /\ UNCHANGED <<hooked, pass, crashes>>

StartPass(w) ==
    /\ pass[w] = Resting
    /\ \E i \in DOMAIN rows : rows[i].status = "queued" /\ rows[i].due
    /\ pass' = [pass EXCEPT ![w] =
         [phase |-> "rows",
          left |-> {[row |-> i, attempts |-> rows[i].attempts] :
                       i \in {j \in DOMAIN rows : rows[j].status = "queued" /\ rows[j].due}}]]
    /\ UNCHANGED <<rows, hooked, crashes>>

\* Variant: a claim looks at the time only.
DueAgain(i) == rows[i].due

\* Variant: a row that failed once is left to the next pass, whichever that is.
Untried(i) == rows[i].status = "queued" /\ rows[i].due /\ rows[i].attempts = 0

Claimable(i) == rows[i].status = "queued" /\ rows[i].due

GoOn(left) == IF left = {} THEN Resting ELSE [phase |-> "rows", left |-> left]

\* The claim moves the row out of the way of other passes; one already claimed,
\* delivered or abandoned is skipped.
Claim(w, r) ==
    /\ pass[w].phase = "rows" /\ r \in pass[w].left
    /\ \/ /\ Claimable(r.row)
          /\ rows' = [rows EXCEPT ![r.row].due = FALSE]
          /\ pass' = [pass EXCEPT ![w] = [phase |-> "claimed", left |-> @.left \ {r}, at |-> r]]
       \/ /\ ~Claimable(r.row)
          /\ pass' = [pass EXCEPT ![w] = GoOn(@.left \ {r})]
          /\ UNCHANGED rows
    /\ UNCHANGED <<hooked, crashes>>

\* The settings of now decide; without them the row is given up.
ReadSettings(w) ==
    /\ pass[w].phase = "claimed"
    /\ LET i == pass[w].at.row
       IN  \/ /\ rows[i].app \in hooked
              /\ pass' = [pass EXCEPT ![w].phase = "posting"]
              /\ UNCHANGED rows
           \/ /\ rows[i].app \notin hooked
              /\ rows' = [rows EXCEPT ![i].status = "abandoned"]
              /\ pass' = [pass EXCEPT ![w] = GoOn(@.left)]
    /\ UNCHANGED <<hooked, crashes>>

Delivered(w) ==
    /\ pass[w].phase = "posting"
    /\ rows' = [rows EXCEPT ![pass[w].at.row].status = "delivered", ![pass[w].at.row].attempts = @ + 1]
    /\ pass' = [pass EXCEPT ![w] = GoOn(@.left)]
    /\ UNCHANGED <<hooked, crashes>>

Last(attempts) == attempts >= MaxAttempts

\* failAttempt() counts from what the pass read, also when another pass has tried
\* the row since.
Failed(w) ==
    /\ pass[w].phase = "posting"
    /\ LET r == pass[w].at
       IN  rows' = [rows EXCEPT ![r.row].attempts = r.attempts + 1,
                                ![r.row].status = IF Last(r.attempts + 1) THEN "abandoned" ELSE @]
    /\ pass' = [pass EXCEPT ![w] = GoOn(@.left)]
    /\ UNCHANGED <<hooked, crashes>>

PassStep(w) ==
    \/ StartPass(w)
    \/ pass[w].phase = "rows" /\ \E r \in pass[w].left : Claim(w, r)
    \/ ReadSettings(w) \/ Delivered(w) \/ Failed(w)

\* The process restarts: the passes are lost, their claims run out.
Crash ==
    /\ crashes < MaxCrashes
    /\ crashes' = crashes + 1
    /\ pass' = [w \in Passes |-> Resting]
    /\ UNCHANGED <<rows, hooked>>

DeliveryNext ==
    \/ \E app \in Apps : Configure(app) \/ Remove(app)
    \/ \E i \in DOMAIN rows : BecomeDue(i)
    \/ \E w \in Passes : PassStep(w)
    \/ Crash

\* The timer keeps firing, a pass goes on, delays end.
DeliveryFairness ==
    /\ \A w \in Passes : WF_deliveryVars(PassStep(w))
    /\ \A i \in Rows : WF_deliveryVars(i \in DOMAIN rows /\ BecomeDue(i))

----------------------------------------------------------------------------
(* What the outbox promises.                                               *)

\* A row that was delivered or given up is not posted again, nor counted further,
\* by any pass that read it while it was due (deliverOne's claim; "A 2xx is
\* delivered", vibes-webhooks.js 12).
EndedStays ==
    [][\A i \in DOMAIN rows : rows[i].status # "queued" =>
          <<rows'[i].status, rows'[i].attempts>> = <<rows[i].status, rows[i].attempts>>]_deliveryVars

\* Whatever the receiver answers, however passes overlap and restart, every row is
\* in the end delivered or abandoned (vibes-webhooks.js 13-14): counting from a
\* stale read puts the end off, not for ever.
EveryRowEnds ==
    \A i \in Rows : i \in DOMAIN rows ~> i \in DOMAIN rows /\ rows[i].status # "queued"

=============================================================================
