---------------------------- MODULE StaffConsole ----------------------------
(***************************************************************************)
(* The staff console (server/console/): sign-in through OpenVibe.Network,  *)
(* the staff session, the guards of every request, the decisions and the   *)
(* audit of them.  A request is heard (session, list and form checked) and *)
(* takes effect later, in one transaction with its audit row, except       *)
(* reprocessing, which is recorded afterwards.  Requests interleave, a     *)
(* sign-out may overtake another request of its session, and a restart     *)
(* reads a new staff list and loses what was in flight.  The answer to a   *)
(* request may not reach its browser.                                      *)
(*                                                                         *)
(* The console's secrets (signatures, CSRF tokens, the code and its        *)
(* verifier) are taken to be unguessable.  What a reprocessed delivery     *)
(* does is in ProviderEvents; the keys of a decision are in ApiRequests.   *)
(* Nobody else freezes the economy here (the API and the operator can).    *)
(***************************************************************************)
EXTENDS Integers, Sequences, FiniteSets

CONSTANTS
    Staff,       \* people of the Network, each with a browser
    Visits,      \* requests in flight at once
    Payouts,     \* cashouts waiting for a decision
    EscrowUntil, \* escrow_until of each
    Work,        \* what a form may ask for: <<kind, payout or Nothing>>
    Ttl,         \* BILLING_SESSION_TTL_MIN
    FlowTtl,     \* FLOW_TTL_MS
    Nothing,     \* no session, no cookie, no target
    LastHour,    \* bound: the clock
    MaxLogins,   \* bound: sign-ins started
    MaxAudit,    \* bound: audit rows
    MaxBoots     \* bound: restarts of the process

\* What a form may ask for.
Kinds == {"approve", "deny", "freeze", "unfreeze", "reprocess", "reconcile", "sign_out"}

ASSUME StaffConsoleAssumption ==
    /\ Work \subseteq Kinds \X (Payouts \cup {Nothing})
    /\ EscrowUntil \in [Payouts -> Nat]
    /\ {Ttl, FlowTtl} \subseteq Nat \ {0}
    /\ {LastHour, MaxLogins, MaxAudit, MaxBoots} \subseteq Nat

VARIABLES
    listed,       \* BILLING_STAFF_SUBJECTS, as the process read it
    admins,       \* the Network: whose token holds staff.money.cashouts
    hour,
    logins,       \* sign-ins started so far, the last one's state
    flow,         \* the flow cookie of each browser
    returning,    \* authorization codes on their way back, each with its state
    cookie,       \* the session cookie of each browser
    sessions,     \* staff_sessions
    page,         \* the session whose CSRF token each browser's form holds
    visit,        \* what each request in flight is at
    closed,       \* settings.freeze
    payout,       \* the status of each cashout
    reprocessed,  \* history: deliveries processed again from the console
    audit,        \* staff_audit
    announced,    \* audit rows with a billing.staff.action event
    boots

signInVars == <<admins, hour, logins, flow, returning>>
sessionVars == <<cookie, sessions, page>>
effectVars == <<closed, payout, reprocessed>>
logVars == <<audit, announced>>
consoleVars == <<listed, signInVars, sessionVars, visit, effectVars, logVars, boots>>

Sessions == 1..Len(sessions)
Rows == 1..Len(audit)
Idle == [stage |-> "idle"]
Stages == {"heard", "checked", "effective", "recorded"}
Together == {"sign_in", "sign_out", "approve", "deny", "freeze", "unfreeze", "reconcile"}
AuditRow ==
    [actor : Staff, kind : Kinds \cup {"sign_in", "session_use", "csrf"}, target : Payouts \cup {Nothing},
     outcome : {"done", "refused"}, session : Nat \cup {Nothing}, staff : SUBSET Staff, heard : 0..LastHour, seen : 0..MaxAudit]

ConsoleTypeOK ==
    /\ listed \subseteq Staff /\ admins \subseteq Staff
    /\ hour \in 0..LastHour /\ logins \in 0..MaxLogins /\ boots \in 0..MaxBoots
    /\ flow \in [Staff -> [state : 1..MaxLogins, until : Nat] \cup {Nothing}]
    /\ returning \subseteq Staff \X (1..MaxLogins)
    /\ sessions \in Seq([subject : Staff, until : Nat, revoked : BOOLEAN])
    /\ cookie \in [Staff -> Sessions \cup {Nothing}] /\ page \in [Staff -> Sessions \cup {Nothing}]
    /\ \A v \in Visits :
         \/ visit[v] = Idle
         \/ visit[v] \in [stage : Stages, session : Sessions, work : Work, heard : 0..LastHour, seen : 0..MaxAudit]
    /\ closed \in BOOLEAN /\ payout \in [Payouts -> {"requested", "paid", "denied"}] /\ reprocessed \in Nat
    /\ audit \in Seq(AuditRow) /\ Len(audit) =< MaxAudit /\ announced \subseteq Rows

ConsoleInit ==
    /\ listed = Staff /\ admins = Staff
    /\ hour = 0 /\ logins = 0 /\ boots = 0
    /\ flow = [p \in Staff |-> Nothing] /\ returning = {}
    /\ cookie = [p \in Staff |-> Nothing] /\ sessions = <<>> /\ page = [p \in Staff |-> Nothing]
    /\ visit = [v \in Visits |-> Idle]
    /\ closed = FALSE /\ payout = [x \in Payouts |-> "requested"] /\ reprocessed = 0
    /\ audit = <<>> /\ announced = {}

----------------------------------------------------------------------------
(* The audit log.  A row also keeps, as history, the staff list of its     *)
(* time and when and after which rows its request was heard.               *)

Write(p, kind, target, outcome, session, heard, seen) ==
    /\ Len(audit) < MaxAudit
    /\ audit' = Append(audit, [actor |-> p, kind |-> kind, target |-> target, outcome |-> outcome,
                               session |-> session, staff |-> listed, heard |-> heard, seen |-> seen])

\* record(): a done row is announced with it, in the caller's transaction.  The row of a
\* refusal follows the transaction rolled back and is taken to be part of the step.
Record(p, kind, target, outcome, session, heard, seen) ==
    /\ Write(p, kind, target, outcome, session, heard, seen)
    /\ announced' = IF outcome = "done" THEN announced \cup {Len(audit) + 1} ELSE announced

RecordNow(p, kind, outcome, session) == Record(p, kind, Nothing, outcome, session, hour, Len(audit))

\* A row for the work of a request.
RecordWork(v, outcome) ==
    LET q == visit[v]
    IN  Record(sessions[q.session].subject, q.work[1], q.work[2], outcome, q.session, q.heard, q.seen)

\* The browser of p gets its new cookie, or the answer is lost.
Answered(p, value) == cookie' = cookie \/ cookie' = [cookie EXCEPT ![p] = value]

Leave(v) == visit' = [visit EXCEPT ![v] = Idle]
MoveTo(v, stage) == visit' = [visit EXCEPT ![v].stage = stage]

----------------------------------------------------------------------------
(* Sign-in.                                                                *)

\* setFlow(): the cookie of this browser is the newest sign-in's, for ten minutes.
SetFlow(p, state) == flow' = [flow EXCEPT ![p] = [state |-> state, until |-> hour + FlowTtl]]

\* GET /auth/login.
Login(p) ==
    /\ logins < MaxLogins
    /\ logins' = logins + 1
    /\ SetFlow(p, logins + 1)
    /\ returning' = returning \cup {<<p, logins + 1>>}
    /\ UNCHANGED <<listed, admins, hour, sessionVars, visit, effectVars, logVars, boots>>

\* takeFlow(): the cookie is good once, for its own state, in its ten minutes.
FlowHolds(p, state) == flow[p] # Nothing /\ flow[p].state = state /\ hour < flow[p].until

TakeFlow(p, state) ==
    /\ <<p, state>> \in returning
    /\ returning' = returning \ {<<p, state>>}
    /\ flow' = [flow EXCEPT ![p] = Nothing]
    /\ UNCHANGED <<listed, admins, hour, logins, visit, effectVars, boots>>

\* Listed here, and allowed by the Network at the exchange of the code.
MaySignIn(p) == p \in listed /\ p \in admins

\* GET /auth/callback: the session and its row in one transaction.
SignIn(p, state) ==
    /\ TakeFlow(p, state) /\ FlowHolds(p, state) /\ MaySignIn(p)
    /\ sessions' = Append(sessions, [subject |-> p, until |-> hour + Ttl, revoked |-> FALSE])
    /\ Answered(p, Len(sessions) + 1)
    /\ RecordNow(p, "sign_in", "done", Len(sessions) + 1)
    /\ UNCHANGED page

SignInRefused(p, state) ==
    /\ TakeFlow(p, state) /\ FlowHolds(p, state) /\ ~MaySignIn(p)
    /\ RecordNow(p, "sign_in", "refused", Nothing)
    /\ UNCHANGED sessionVars

\* An expired or replaced flow, or a sign-in the Network does not confirm.
SignInFails(p, state) ==
    /\ TakeFlow(p, state)
    /\ UNCHANGED <<sessionVars, logVars>>

----------------------------------------------------------------------------
(* A request.                                                              *)

\* Variant: the lifetime alone.
Unexpired(s) == s # Nothing /\ hour < sessions[s].until

\* read(): known, not revoked, not over.
Live(s) == s # Nothing /\ ~sessions[s].revoked /\ hour < sessions[s].until

Revoked(s) == [sessions EXCEPT ![s].revoked = TRUE]

\* Any request of a person no longer listed ends the session; read, revoke and record
\* are taken as one step.
Evict(p) ==
    /\ Live(cookie[p]) /\ p \notin listed
    /\ sessions' = Revoked(cookie[p])
    /\ Answered(p, Nothing)
    /\ RecordNow(p, "session_use", "refused", cookie[p])
    /\ UNCHANGED <<listed, signInVars, page, visit, effectVars, boots>>

\* GET of a page with a form.
OpenPage(p) ==
    /\ Live(cookie[p]) /\ p \in listed
    /\ page' = [page EXCEPT ![p] = cookie[p]]
    /\ UNCHANGED <<listed, signInVars, cookie, sessions, visit, effectVars, logVars, boots>>

\* needs() and csrfOk(): the form must be of this very session.
Submit(v, p, work) ==
    /\ visit[v] = Idle
    /\ Live(cookie[p]) /\ p \in listed
    /\ page[p] = cookie[p]
    /\ visit' = [visit EXCEPT ![v] = [stage |-> "heard", session |-> cookie[p], work |-> work,
                                      heard |-> hour, seen |-> Len(audit)]]
    /\ UNCHANGED <<listed, signInVars, sessionVars, effectVars, logVars, boots>>

StaleForm(p) ==
    /\ Live(cookie[p]) /\ p \in listed
    /\ page[p] \notin {cookie[p], Nothing}
    /\ RecordNow(p, "csrf", "refused", cookie[p])
    /\ UNCHANGED <<listed, signInVars, sessionVars, visit, effectVars, boots>>

At(v, stage, kinds) == visit[v].stage = stage /\ visit[v].work[1] \in kinds
Kept == UNCHANGED <<listed, signInVars, boots>>

Status(kind) == IF kind = "approve" THEN "paid" ELSE "denied"

\* Waiting for this decision: a payout is not approved in its escrow.
Waiting(x, kind) == payout[x] = "requested" /\ (kind = "approve" => hour >= EscrowUntil[x])

\* decide(): the freeze, the decision and its row in one transaction.
Decide(v) ==
    /\ At(v, "heard", {"approve", "deny"})
    /\ LET kind == visit[v].work[1]
           x == visit[v].work[2]
       IN  /\ ~closed /\ Waiting(x, kind)
           /\ payout' = [payout EXCEPT ![x] = Status(kind)]
           /\ RecordWork(v, "done")
    /\ Leave(v) /\ Kept /\ UNCHANGED <<sessionVars, closed, reprocessed>>

\* A decision already taken the same way is a replay and leaves no row.
DecideAgain(v) ==
    /\ At(v, "heard", {"approve", "deny"})
    /\ ~closed /\ payout[visit[v].work[2]] = Status(visit[v].work[1])
    /\ Leave(v) /\ Kept /\ UNCHANGED <<sessionVars, effectVars, logVars>>

\* Refused in a freeze, in the escrow, where it was decided otherwise, or where it was
\* paid under another reference than the form has (references are not kept).
DecideRefused(v) ==
    /\ At(v, "heard", {"approve", "deny"})
    /\ LET kind == visit[v].work[1]
           x == visit[v].work[2]
       IN  \/ closed
           \/ ~Waiting(x, kind) /\ payout[x] # Status(kind)
           \/ kind = "approve" /\ payout[x] = "paid"
    /\ RecordWork(v, "refused")
    /\ Leave(v) /\ Kept /\ UNCHANGED <<sessionVars, effectVars>>

Asked(v) == visit[v].work[1] = "freeze"

\* POST /freeze: the present state is looked at before the transaction.
CheckFreeze(v) ==
    /\ At(v, "heard", {"freeze", "unfreeze"})
    /\ IF closed = Asked(v)
       THEN RecordWork(v, "refused") /\ Leave(v)
       ELSE MoveTo(v, "checked") /\ UNCHANGED logVars
    /\ Kept /\ UNCHANGED <<sessionVars, effectVars>>

ChangeFreeze(v) ==
    /\ At(v, "checked", {"freeze", "unfreeze"})
    /\ closed' = Asked(v)
    /\ RecordWork(v, "done")
    /\ Leave(v) /\ Kept /\ UNCHANGED <<sessionVars, payout, reprocessed>>

\* POST /reconciliation: report and row in one transaction.
Reconcile(v) ==
    /\ At(v, "heard", {"reconcile"})
    /\ RecordWork(v, "done")
    /\ Leave(v) /\ Kept /\ UNCHANGED <<sessionVars, effectVars>>

\* POST /auth/logout.
SignOut(v) ==
    /\ At(v, "heard", {"sign_out"})
    /\ LET s == visit[v].session
       IN  /\ sessions' = Revoked(s)
           /\ Answered(sessions[s].subject, Nothing)
    /\ RecordWork(v, "done")
    /\ Leave(v) /\ Kept /\ UNCHANGED <<page, effectVars>>

\* POST /receipts/:id/reprocess: the effect, the row and the event one after the other.
Reprocess(v) ==
    /\ At(v, "heard", {"reprocess"})
    /\ IF closed
       THEN RecordWork(v, "refused") /\ Leave(v) /\ UNCHANGED reprocessed
       ELSE reprocessed' = reprocessed + 1 /\ MoveTo(v, "effective") /\ UNCHANGED logVars
    /\ Kept /\ UNCHANGED <<sessionVars, closed, payout>>

RecordReprocess(v) ==
    /\ At(v, "effective", {"reprocess"})
    /\ LET q == visit[v]
       IN  Write(sessions[q.session].subject, q.work[1], q.work[2], "done", q.session, q.heard, q.seen)
    /\ visit' = [visit EXCEPT ![v].stage = "recorded", ![v].seen = Len(audit) + 1]
    /\ Kept /\ UNCHANGED <<sessionVars, effectVars, announced>>

AnnounceReprocess(v) ==
    /\ At(v, "recorded", {"reprocess"})
    /\ announced' = announced \cup {visit[v].seen}
    /\ Leave(v) /\ Kept /\ UNCHANGED <<sessionVars, effectVars, audit>>

----------------------------------------------------------------------------
(* The world around it.                                                    *)

Pass ==
    /\ hour < LastHour /\ hour' = hour + 1
    /\ UNCHANGED <<listed, admins, logins, flow, returning, sessionVars, visit, effectVars, logVars, boots>>

\* The Network gives or takes the role; sessions here keep what they were opened with.
ChangeRole(p) ==
    /\ admins' = IF p \in admins THEN admins \ {p} ELSE admins \cup {p}
    /\ UNCHANGED <<listed, hour, logins, flow, returning, sessionVars, visit, effectVars, logVars, boots>>

\* A restart with another list; requests in flight are lost.
Reboot(list) ==
    /\ boots < MaxBoots /\ boots' = boots + 1
    /\ listed' = list
    /\ visit' = [v \in Visits |-> Idle]
    /\ UNCHANGED <<signInVars, sessionVars, effectVars, logVars>>

ConsoleNext ==
    \/ \E p \in Staff :
         \/ Login(p) \/ Evict(p) \/ OpenPage(p) \/ StaleForm(p) \/ ChangeRole(p)
         \/ \E state \in 1..MaxLogins : SignIn(p, state) \/ SignInRefused(p, state) \/ SignInFails(p, state)
         \/ \E v \in Visits, work \in Work : Submit(v, p, work)
    \/ \E v \in Visits :
         \/ Decide(v) \/ DecideAgain(v) \/ DecideRefused(v) \/ CheckFreeze(v) \/ ChangeFreeze(v)
         \/ Reconcile(v) \/ SignOut(v) \/ Reprocess(v) \/ RecordReprocess(v) \/ AnnounceReprocess(v)
    \/ Pass
    \/ \E list \in SUBSET Staff : Reboot(list)

ConsoleSpec == ConsoleInit /\ [][ConsoleNext]_consoleVars

----------------------------------------------------------------------------
(* What the console may be relied on for.                                  *)

Done(kinds) == {i \in Rows : audit[i].outcome = "done" /\ audit[i].kind \in kinds}
Ends(k, s) == audit[k].session = s /\ (k \in Done({"sign_out"}) \/ audit[k].kind = "session_use")

\* Whatever staff did was asked for by somebody listed at the time, in a session they
\* themselves opened no longer ago than its lifetime, and that nothing had ended when
\* the request was heard: not a sign-out, not a removal from the list since taken back
\* (README.md, "Who" and "Session").
StaffOnly ==
    \A i \in Rows : audit[i].outcome = "done" =>
        /\ audit[i].actor \in audit[i].staff
        /\ \E j \in Done({"sign_in"}) :
             /\ j =< i /\ audit[j].session = audit[i].session /\ audit[j].actor = audit[i].actor
             /\ audit[i].heard < audit[j].heard + Ttl
        /\ \A k \in 1..audit[i].seen : ~Ends(k, audit[i].session)

\* The log tells the state: each decided payout has exactly the one row that decided it,
\* the economy is as the last done freeze or unfreeze left it although both look before
\* they write, and what is done with its row is announced (console/audit.js).
Audited ==
    /\ \A x \in Payouts :
         LET deciding == {i \in Done({"approve", "deny"}) : audit[i].target = x}
         IN  \/ payout[x] = "requested" /\ deciding = {}
             \/ Cardinality(deciding) = 1 /\ \A i \in deciding : payout[x] = Status(audit[i].kind)
    /\ LET turns == Done({"freeze", "unfreeze"})
       IN  closed <=> \E i \in turns : audit[i].kind = "freeze" /\ \A j \in turns : j =< i
    /\ Done(Together) \subseteq announced /\ announced \subseteq Done(Together \cup {"reprocess"})
    /\ Cardinality(Done({"reprocess"})) =< reprocessed

\* Staff act as themselves while they are staff, and the log says what they did.
ConsoleInv == ConsoleTypeOK /\ StaffOnly /\ Audited

\* "Every staff action [...] reprocess [...] is one row", "in the same transaction as
\* their effect" (README.md:334-342).  Violated: reprocess() has committed when the
\* route comes to record it, and a restart may come first (console/index.js).
ReprocessAudited == reprocessed = Cardinality(Done({"reprocess"})) + Cardinality({v \in Visits : visit[v].stage = "effective"})
=============================================================================
