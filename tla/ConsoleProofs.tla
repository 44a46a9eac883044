---------------------------- MODULE ConsoleProofs ----------------------------
(***************************************************************************)
(* The staff console keeps ConsoleInv for any staff, payouts, forms and    *)
(* number of requests in flight.                                           *)
(*                                                                         *)
(* ConsoleIInv is the inductive invariant.  A session has the row of the   *)
(* sign-in that opened it and is revoked once a row ended it; a request    *)
(* that has not yet been recorded was heard in such a session, of somebody *)
(* still listed, before its end and after no row that ended it; a request  *)
(* that has reprocessed counts as a row to come.                           *)
(***************************************************************************)
EXTENDS StaffConsole, FiniteSetTheorems, TLAPS

----------------------------------------------------------------------------
(* The inductive invariant.                                                *)

Visit == [stage : Stages, session : Nat, work : Work, heard : 0..LastHour, seen : 0..MaxAudit]
ConsoleTypes == ConsoleTypeOK /\ visit \in [Visits -> Visit \cup {Idle}]

Unrecorded == {"heard", "checked", "effective"}

\* Each session is that of a sign-in.
SessionsOpened ==
    \A s \in Sessions : \E j \in Done({"sign_in"}) :
        /\ audit[j].session = s /\ audit[j].actor = sessions[s].subject
        /\ sessions[s].until = audit[j].heard + Ttl

\* The cookie in a browser is of a session of its person.
CookiesOwn == \A p \in Staff : cookie[p] # Nothing => sessions[cookie[p]].subject = p

\* What a row ended is over.
EndedRevoked ==
    \A k \in Rows : k \in Done({"sign_out"}) \/ audit[k].kind = "session_use" =>
        audit[k].session \in Sessions /\ sessions[audit[k].session].revoked

HeardInTime(v) ==
    /\ visit[v].seen =< Len(audit)
    /\ sessions[visit[v].session].subject \in listed
    /\ visit[v].heard < sessions[visit[v].session].until
    /\ \A k \in 1..visit[v].seen : ~Ends(k, visit[v].session)

\* Requests in flight were heard of somebody listed, in a session then open.
VisitsHeard ==
    \A v \in Visits : /\ visit[v].stage \in Unrecorded => HeardInTime(v)
                      /\ visit[v].stage = "recorded" => visit[v].seen \in Done({"reprocess"})

\* A row follows the rows its request had before it.
SeenBefore == \A i \in Rows : audit[i].seen < i

Deciding(x) == {i \in Done({"approve", "deny"}) : audit[i].target = x}
DecidedBy(x) ==
    \/ payout[x] = "requested" /\ Deciding(x) = {}
    \/ \E i \in Deciding(x) : Deciding(x) = {i} /\ payout[x] = Status(audit[i].kind)

Turns == Done({"freeze", "unfreeze"})
LastTurn == closed <=> \E i \in Turns : audit[i].kind = "freeze" /\ \A j \in Turns : j =< i

AnnouncedRows ==
    /\ Done(Together) \subseteq announced
    /\ announced \subseteq Done(Together \cup {"reprocess"})

\* Each reprocessing is a row, or a request that has yet to write it.
Owing == {v \in Visits : visit[v].stage = "effective"}
ReprocessRows ==
    /\ IsFiniteSet(Owing)
    /\ Cardinality(Done({"reprocess"})) + Cardinality(Owing) =< reprocessed

StaffInv == SessionsOpened /\ CookiesOwn /\ EndedRevoked /\ VisitsHeard /\ SeenBefore /\ StaffOnly
LogInv == (\A x \in Payouts : DecidedBy(x)) /\ LastTurn /\ AnnouncedRows /\ ReprocessRows
ConsoleIInv == ConsoleTypes /\ StaffInv /\ LogInv

----------------------------------------------------------------------------
(* The log.                                                                *)

RowOf(p, kind, target, outcome, session, heard, seen) ==
    [actor |-> p, kind |-> kind, target |-> target, outcome |-> outcome,
     session |-> session, staff |-> listed, heard |-> heard, seen |-> seen]

\* A row written is the last of the log and has what was said of it.
LEMMA WriteFacts ==
    ASSUME NEW p, NEW kind, NEW target, NEW outcome, NEW session, NEW heard, NEW seen,
           ConsoleTypes, Write(p, kind, target, outcome, session, heard, seen)
    PROVE  /\ Len(audit) \in Nat /\ Len(audit') = Len(audit) + 1 /\ Rows' = Rows \cup {Len(audit) + 1}
           /\ \A i \in Rows : audit'[i] = audit[i]
           /\ audit'[Len(audit) + 1] = RowOf(p, kind, target, outcome, session, heard, seen)
           /\ Len(audit') =< MaxAudit
<1>1. audit \in Seq(AuditRow) /\ MaxAudit \in Nat
  BY StaffConsoleAssumption DEF ConsoleTypes, ConsoleTypeOK
<1> DEFINE row == RowOf(p, kind, target, outcome, session, heard, seen)
<1>2. audit' = Append(audit, row) /\ Len(audit) < MaxAudit
  BY DEF Write, RowOf
<1> HIDE DEF row
<1>3. Len(audit) \in Nat /\ audit \in Seq(AuditRow \cup {row})
  BY <1>1
<1>4. /\ Len(audit') = Len(audit) + 1
      /\ \A i \in 1..Len(audit) : audit'[i] = audit[i]
      /\ audit'[Len(audit) + 1] = row
  BY <1>2, <1>3
<1> QED
  BY <1>1, <1>2, <1>3, <1>4 DEF row, Rows

\* A row of the right values keeps the log well-formed.
LEMMA WriteTyped ==
    ASSUME NEW p \in Staff, NEW kind \in Kinds \cup {"sign_in", "session_use", "csrf"}, NEW target \in Payouts \cup {Nothing},
           NEW outcome \in {"done", "refused"}, NEW session \in Nat \cup {Nothing},
           NEW heard \in 0..LastHour, NEW seen \in 0..MaxAudit,
           ConsoleTypes, Write(p, kind, target, outcome, session, heard, seen)
    PROVE  audit' \in Seq(AuditRow) /\ Len(audit') =< MaxAudit
<1>1. audit \in Seq(AuditRow) /\ listed \in SUBSET Staff
  BY DEF ConsoleTypes, ConsoleTypeOK
<1>2. RowOf(p, kind, target, outcome, session, heard, seen) \in AuditRow
  BY <1>1 DEF RowOf, AuditRow
<1>3. audit' = Append(audit, RowOf(p, kind, target, outcome, session, heard, seen))
  BY DEF Write, RowOf
<1>4. audit' \in Seq(AuditRow)
  BY <1>1, <1>2, <1>3
<1> QED
  BY <1>4, WriteFacts

\* What a row written adds to the done rows of some kinds.
LEMMA WriteDone ==
    ASSUME NEW p, NEW kind, NEW target, NEW outcome, NEW session, NEW heard, NEW seen, NEW K,
           ConsoleTypes, Write(p, kind, target, outcome, session, heard, seen)
    PROVE  /\ outcome = "done" /\ kind \in K => Done(K)' = Done(K) \cup {Len(audit) + 1}
           /\ outcome # "done" \/ kind \notin K => Done(K)' = Done(K)
<1>0. /\ Len(audit) \in Nat /\ Rows' = Rows \cup {Len(audit) + 1}
      /\ \A i \in Rows : audit'[i] = audit[i]
      /\ audit'[Len(audit) + 1] = RowOf(p, kind, target, outcome, session, heard, seen)
  BY WriteFacts
<1>1. /\ Len(audit) \in Nat /\ Rows' = Rows \cup {Len(audit) + 1}
      /\ \A i \in Rows : audit'[i] = audit[i]
      /\ audit'[Len(audit) + 1].outcome = outcome /\ audit'[Len(audit) + 1].kind = kind
  BY <1>0 DEF RowOf
<1>2. Len(audit) + 1 \notin Rows
  BY <1>1 DEF Rows
<1> QED
  BY <1>1, <1>2, Zenon DEF Done

----------------------------------------------------------------------------
(* Types.                                                                  *)

\* A request in flight has a session and a form.
LEMMA VisitTyped ==
    ASSUME ConsoleTypes, NEW v \in Visits, visit[v].stage \in Stages
    PROVE  /\ visit[v] \in [stage : Stages, session : Sessions, work : Work, heard : 0..LastHour, seen : 0..MaxAudit]
           /\ visit[v].session \in Nat
           /\ sessions[visit[v].session].subject \in Staff
           /\ visit[v].work[1] \in Kinds
           /\ visit[v].work[2] \in Payouts \cup {Nothing}
<1>1. visit[v] # Idle
  BY DEF Idle, Stages
<1>2. visit[v] \in [stage : Stages, session : Sessions, work : Work, heard : 0..LastHour, seen : 0..MaxAudit]
  BY <1>1 DEF ConsoleTypes, ConsoleTypeOK
<1>3. sessions \in Seq([subject : Staff, until : Nat, revoked : BOOLEAN])
  BY DEF ConsoleTypes, ConsoleTypeOK
<1>4. visit[v].session \in Sessions /\ visit[v].work \in Work
  BY <1>2
<1>5. visit[v].work \in Kinds \X (Payouts \cup {Nothing})
  BY <1>4, StaffConsoleAssumption
<1>6. visit[v].work[1] \in Kinds /\ visit[v].work[2] \in Payouts \cup {Nothing}
  BY <1>5
<1>7. visit[v].session \in Nat /\ visit[v].session \in 1..Len(sessions)
  BY <1>3, <1>4 DEF Sessions
<1> DEFINE S == [subject : Staff, until : Nat, revoked : BOOLEAN]
<1>8. sessions[visit[v].session] \in S
  <2>1. sessions \in Seq(S)
    BY <1>3
  <2> HIDE DEF S
  <2> QED
    BY <1>7, <2>1
<1> QED
  BY <1>2, <1>6, <1>7, <1>8

\* A row for a request keeps the log well-formed.
LEMMA RecordWorkTyped ==
    ASSUME ConsoleTypes, NEW v \in Visits, visit[v].stage \in Stages,
           NEW outcome \in {"done", "refused"}, RecordWork(v, outcome)
    PROVE  audit' \in Seq(AuditRow) /\ Len(audit') =< MaxAudit /\ announced' \subseteq Rows'
<1> DEFINE q == visit[v]
<1>1. /\ sessions[q.session].subject \in Staff /\ q.work[1] \in Kinds /\ q.work[2] \in Payouts \cup {Nothing}
      /\ q.session \in Nat /\ q.heard \in 0..LastHour /\ q.seen \in 0..MaxAudit
  BY VisitTyped
<1>2. Record(sessions[q.session].subject, q.work[1], q.work[2], outcome, q.session, q.heard, q.seen)
  BY DEF RecordWork
<1> HIDE DEF q
<1>3. Write(sessions[q.session].subject, q.work[1], q.work[2], outcome, q.session, q.heard, q.seen)
  BY <1>2 DEF Record
<1>4. audit' \in Seq(AuditRow) /\ Len(audit') =< MaxAudit
  BY <1>1, <1>3, WriteTyped
<1>5. Rows' = Rows \cup {Len(audit) + 1}
  BY <1>3, WriteFacts
<1>6. announced \subseteq Rows
  BY DEF ConsoleTypes, ConsoleTypeOK
<1>7. announced' = announced \cup {Len(audit) + 1} \/ announced' = announced
  BY <1>2 DEF Record
<1> QED
  BY <1>4, <1>5, <1>6, <1>7

\* A row for what is no request in flight keeps the log well-formed.
LEMMA RecordNowTyped ==
    ASSUME ConsoleTypes, NEW p \in Staff, NEW kind \in Kinds \cup {"sign_in", "session_use", "csrf"},
           NEW outcome \in {"done", "refused"}, NEW session \in Nat \cup {Nothing}, RecordNow(p, kind, outcome, session)
    PROVE  audit' \in Seq(AuditRow) /\ Len(audit') =< MaxAudit /\ announced' \subseteq Rows'
<1>1. Record(p, kind, Nothing, outcome, session, hour, Len(audit))
  BY DEF RecordNow
<1>2. Write(p, kind, Nothing, outcome, session, hour, Len(audit))
  BY <1>1 DEF Record
<1>3. hour \in 0..LastHour /\ Len(audit) \in 0..MaxAudit
  BY StaffConsoleAssumption DEF ConsoleTypes, ConsoleTypeOK
<1>4. audit' \in Seq(AuditRow) /\ Len(audit') =< MaxAudit
  BY <1>2, <1>3, WriteTyped
<1>5. Rows' = Rows \cup {Len(audit) + 1}
  BY <1>2, WriteFacts
<1>6. announced \subseteq Rows
  BY DEF ConsoleTypes, ConsoleTypeOK
<1>7. announced' = announced \cup {Len(audit) + 1} \/ announced' = announced
  BY <1>1 DEF Record
<1> QED
  BY <1>4, <1>5, <1>6, <1>7

\* The log is well-formed whatever is done.
LogTyped == audit \in Seq(AuditRow) /\ Len(audit) =< MaxAudit /\ announced \subseteq Rows

\* The sessions, and who holds which.
SessionsTyped ==
    /\ sessions \in Seq([subject : Staff, until : Nat, revoked : BOOLEAN])
    /\ cookie \in [Staff -> Sessions \cup {Nothing}] /\ page \in [Staff -> Sessions \cup {Nothing}]

\* The requests in flight.
VisitsTyped ==
    /\ visit \in [Visits -> Visit \cup {Idle}]
    /\ \A v \in Visits :
         \/ visit[v] = Idle
         \/ visit[v] \in [stage : Stages, session : Sessions, work : Work, heard : 0..LastHour, seen : 0..MaxAudit]

\* Sign-in, the clock and the restarts.
SignInTyped ==
    /\ listed \subseteq Staff /\ admins \subseteq Staff
    /\ hour \in 0..LastHour /\ logins \in 0..MaxLogins /\ boots \in 0..MaxBoots
    /\ flow \in [Staff -> [state : 1..MaxLogins, until : Nat] \cup {Nothing}]
    /\ returning \subseteq Staff \X (1..MaxLogins)

EffectsTyped == closed \in BOOLEAN /\ payout \in [Payouts -> {"requested", "paid", "denied"}] /\ reprocessed \in Nat

\* The types, by component.
LEMMA TypesParts == ConsoleTypes <=> SignInTyped /\ SessionsTyped /\ VisitsTyped /\ EffectsTyped /\ LogTyped
  BY Zenon DEF ConsoleTypes, ConsoleTypeOK, SignInTyped, SessionsTyped, VisitsTyped, EffectsTyped, LogTyped

\* Sign-in, clock and restarts stay well-typed.
LEMMA SignInTypedKept ==
    ASSUME ConsoleTypes, ConsoleNext
    PROVE  SignInTyped'
<1> USE StaffConsoleAssumption
<1>0. SignInTyped
  BY TypesParts
<1>1. ASSUME UNCHANGED <<listed, signInVars, boots>> PROVE SignInTyped'
  BY <1>0, <1>1 DEF SignInTyped, signInVars
<1>2. ASSUME NEW p \in Staff, Login(p) PROVE SignInTyped'
  <2>1. /\ logins < MaxLogins /\ logins' = logins + 1 /\ returning' = returning \cup {<<p, logins + 1>>}
        /\ flow' = [flow EXCEPT ![p] = [state |-> logins + 1, until |-> hour + FlowTtl]]
        /\ UNCHANGED <<listed, admins, hour, boots>>
    BY <1>2 DEF Login, SetFlow
  <2>2. logins + 1 \in 1..MaxLogins /\ hour + FlowTtl \in Nat
    BY <1>0, <2>1 DEF SignInTyped
  <2>3. flow' \in [Staff -> [state : 1..MaxLogins, until : Nat] \cup {Nothing}]
    BY <1>0, <2>1, <2>2 DEF SignInTyped
  <2> QED
    BY <1>0, <2>1, <2>2, <2>3 DEF SignInTyped
<1>3. ASSUME NEW p \in Staff, NEW state, TakeFlow(p, state) /\ (UNCHANGED listed) PROVE SignInTyped'
  BY <1>0, <1>3 DEF SignInTyped, TakeFlow
<1>4. ASSUME NEW p \in Staff, Evict(p) \/ OpenPage(p) \/ StaleForm(p) PROVE UNCHANGED <<listed, signInVars, boots>>
  BY <1>4 DEF Evict, OpenPage, StaleForm
<1>5. ASSUME NEW p \in Staff, ChangeRole(p) PROVE SignInTyped'
  BY <1>0, <1>5 DEF SignInTyped, ChangeRole
<1>6. ASSUME NEW p \in Staff, NEW v \in Visits, NEW work \in Work, Submit(v, p, work)
      PROVE UNCHANGED <<listed, signInVars, boots>>
  BY <1>6 DEF Submit
<1>7. ASSUME NEW v \in Visits,
             \/ Decide(v) \/ DecideAgain(v) \/ DecideRefused(v) \/ CheckFreeze(v) \/ ChangeFreeze(v)
             \/ Reconcile(v) \/ SignOut(v) \/ Reprocess(v) \/ RecordReprocess(v) \/ AnnounceReprocess(v)
      PROVE UNCHANGED <<listed, signInVars, boots>>
  BY <1>7 DEF Decide, DecideAgain, DecideRefused, CheckFreeze, ChangeFreeze, Reconcile, SignOut, Reprocess,
              RecordReprocess, AnnounceReprocess, Kept
<1>8. ASSUME Pass PROVE SignInTyped'
  BY <1>0, <1>8 DEF SignInTyped, Pass
<1>9. ASSUME NEW list \in SUBSET Staff, Reboot(list) PROVE SignInTyped'
  BY <1>0, <1>9 DEF SignInTyped, Reboot, signInVars
<1>10. ASSUME NEW p \in Staff, NEW state \in 1..MaxLogins,
              SignIn(p, state) \/ SignInRefused(p, state) \/ SignInFails(p, state)
       PROVE  SignInTyped'
  BY <1>3, <1>10 DEF SignIn, SignInRefused, SignInFails, TakeFlow
<1> QED
  BY <1>1, <1>2, <1>4, <1>5, <1>6, <1>7, <1>8, <1>9, <1>10 DEF ConsoleNext

\* A cookie is answered with a session there is, or not at all.
LEMMA AnsweredTyped ==
    ASSUME ConsoleTypes, NEW p \in Staff, NEW s \in Sessions' \cup {Nothing}, Sessions \subseteq Sessions',
           Answered(p, s)
    PROVE  cookie' \in [Staff -> Sessions' \cup {Nothing}]
<1>1. cookie \in [Staff -> Sessions' \cup {Nothing}]
  BY DEF ConsoleTypes, ConsoleTypeOK
<1> QED
  BY <1>1 DEF Answered

\* A session revoked is the same but for that.
LEMMA RevokedFacts ==
    ASSUME ConsoleTypes, NEW s \in Sessions, sessions' = Revoked(s)
    PROVE  /\ sessions' \in Seq([subject : Staff, until : Nat, revoked : BOOLEAN]) /\ Sessions' = Sessions
           /\ \A t \in Sessions : /\ sessions'[t].subject = sessions[t].subject
                                  /\ sessions'[t].until = sessions[t].until
                                  /\ sessions'[t].revoked = (sessions[t].revoked \/ t = s)
<1> DEFINE S == [subject : Staff, until : Nat, revoked : BOOLEAN]
<1>1. sessions \in Seq(S) /\ s \in 1..Len(sessions)
  BY DEF ConsoleTypes, ConsoleTypeOK, Sessions
<1>2. \A t \in 1..Len(sessions) : sessions[t] \in S
  <2> HIDE DEF S
  <2> QED
    BY <1>1
<1>3. \A t \in 1..Len(sessions) : [sessions[t] EXCEPT !.revoked = TRUE] \in S
  BY <1>2
<1>4. sessions' = [sessions EXCEPT ![s] = [sessions[s] EXCEPT !.revoked = TRUE]]
  BY DEF Revoked
<1>5. sessions' \in Seq(S) /\ Len(sessions') = Len(sessions)
  <2> DEFINE e == [sessions[s] EXCEPT !.revoked = TRUE]
  <2>1. e \in S /\ sessions' = [sessions EXCEPT ![s] = e]
    BY <1>1, <1>3, <1>4
  <2> HIDE DEF S, e
  <2> QED
    BY <1>1, <2>1
<1>6. \A t \in 1..Len(sessions) : sessions'[t] = IF t = s THEN [sessions[s] EXCEPT !.revoked = TRUE] ELSE sessions[t]
  <2> DEFINE e == [sessions[s] EXCEPT !.revoked = TRUE]
  <2>1. sessions' = [sessions EXCEPT ![s] = e]
    BY <1>4
  <2> HIDE DEF S, e
  <2>2. \A t \in 1..Len(sessions) : sessions'[t] = IF t = s THEN e ELSE sessions[t]
    BY <1>1, <2>1
  <2> QED
    BY <2>2 DEF e
<1>7. \A t \in 1..Len(sessions) :
        /\ sessions'[t].subject = sessions[t].subject /\ sessions'[t].until = sessions[t].until
        /\ sessions'[t].revoked = (sessions[t].revoked \/ t = s)
  BY <1>2, <1>6
<1> QED
  BY <1>5, <1>7 DEF Sessions

\* The session that is in somebody's cookie.
LEMMA LiveSession ==
    ASSUME ConsoleTypes, NEW p \in Staff, Live(cookie[p])
    PROVE  cookie[p] \in Sessions /\ cookie[p] \in Nat /\ cookie[p] # Nothing
  BY DEF ConsoleTypes, ConsoleTypeOK, Live, Sessions

\* The session a sign-in opens comes after those there are.
LEMMA SignInFacts ==
    ASSUME ConsoleTypes, NEW p \in Staff, NEW state, SignIn(p, state)
    PROVE  /\ sessions' \in Seq([subject : Staff, until : Nat, revoked : BOOLEAN])
           /\ Len(sessions) \in Nat /\ Sessions' = Sessions \cup {Len(sessions) + 1}
           /\ Len(sessions) + 1 \notin Sessions
           /\ sessions'[Len(sessions) + 1] = [subject |-> p, until |-> hour + Ttl, revoked |-> FALSE]
           /\ \A t \in Sessions : sessions'[t] = sessions[t]
<1> DEFINE S == [subject : Staff, until : Nat, revoked : BOOLEAN]
           e == [subject |-> p, until |-> hour + Ttl, revoked |-> FALSE]
<1>1. sessions \in Seq(S) /\ sessions' = Append(sessions, e)
  BY DEF ConsoleTypes, ConsoleTypeOK, SignIn
<1>2. e \in S
  BY StaffConsoleAssumption DEF ConsoleTypes, ConsoleTypeOK
<1> HIDE DEF S, e
<1>3. /\ sessions' \in Seq(S) /\ Len(sessions) \in Nat /\ Len(sessions') = Len(sessions) + 1
      /\ sessions'[Len(sessions) + 1] = e /\ \A t \in 1..Len(sessions) : sessions'[t] = sessions[t]
  BY <1>1, <1>2
<1>4. Sessions' = Sessions \cup {Len(sessions) + 1} /\ Len(sessions) + 1 \notin Sessions
  BY <1>3 DEF Sessions
<1> QED
  BY <1>3, <1>4 DEF S, e, Sessions

\* Sessions are only opened and revoked.
SessionStep ==
    /\ SessionsTyped' /\ Sessions \subseteq Sessions'
    /\ Sessions' = Sessions \/ \E p \in Staff, state \in 1..MaxLogins : SignIn(p, state)
    /\ \A t \in Sessions : /\ sessions'[t].subject = sessions[t].subject
                           /\ sessions'[t].until = sessions[t].until
                           /\ sessions[t].revoked => sessions'[t].revoked

\* Every step takes the sessions no other way.
LEMMA SessionsStep ==
    ASSUME ConsoleTypes, ConsoleNext
    PROVE  SessionStep
<1>0. SessionsTyped
  BY TypesParts
<1>1. ASSUME UNCHANGED sessionVars PROVE SessionStep
  BY <1>0, <1>1 DEF SessionStep, SessionsTyped, sessionVars, Sessions
<1>2. ASSUME NEW p \in Staff, NEW state \in 1..MaxLogins, SignIn(p, state) PROVE SessionStep
  <2>1. Answered(p, Len(sessions) + 1) /\ page' = page
    BY <1>2 DEF SignIn
  <2>2. Sessions \subseteq Sessions' /\ Len(sessions) + 1 \in Sessions'
    BY <1>2, SignInFacts
  <2>3. cookie' \in [Staff -> Sessions' \cup {Nothing}]
    BY <2>1, <2>2, AnsweredTyped
  <2>4. page' \in [Staff -> Sessions' \cup {Nothing}]
    BY <1>0, <2>1, <2>2 DEF SessionsTyped
  <2> QED
    BY <1>2, <2>2, <2>3, <2>4, SignInFacts DEF SessionStep, SessionsTyped
<1>3. ASSUME NEW p \in Staff, NEW s \in Sessions, sessions' = Revoked(s), Answered(p, Nothing), page' = page
      PROVE  SessionStep
  <2>1. /\ sessions' \in Seq([subject : Staff, until : Nat, revoked : BOOLEAN]) /\ Sessions' = Sessions
        /\ \A t \in Sessions : /\ sessions'[t].subject = sessions[t].subject
                               /\ sessions'[t].until = sessions[t].until
                               /\ sessions'[t].revoked = (sessions[t].revoked \/ t = s)
    BY <1>3, RevokedFacts
  <2>2. cookie' \in [Staff -> Sessions' \cup {Nothing}]
    BY <1>3, <2>1, AnsweredTyped
  <2>3. page' \in [Staff -> Sessions' \cup {Nothing}]
    BY <1>0, <1>3, <2>1 DEF SessionsTyped
  <2> QED
    BY <2>1, <2>2, <2>3 DEF SessionStep, SessionsTyped
<1>4. ASSUME NEW p \in Staff, Evict(p) PROVE SessionStep
  BY <1>3, <1>4, LiveSession DEF Evict
<1>5. ASSUME NEW p \in Staff, OpenPage(p) PROVE SessionStep
  <2>1. cookie[p] \in Sessions /\ page' = [page EXCEPT ![p] = cookie[p]] /\ UNCHANGED <<cookie, sessions>>
    BY <1>5, LiveSession DEF OpenPage
  <2> QED
    BY <1>0, <2>1 DEF SessionStep, SessionsTyped, Sessions
<1>6. ASSUME NEW v \in Visits, SignOut(v) PROVE SessionStep
  <2>1. visit[v].stage \in Stages
    BY <1>6 DEF SignOut, At, Stages
  <2>2. visit[v].session \in Sessions /\ sessions[visit[v].session].subject \in Staff
    BY <2>1, VisitTyped
  <2> QED
    BY <1>3, <1>6, <2>2 DEF SignOut
<1>7. ASSUME NEW p \in Staff, Login(p) \/ StaleForm(p) \/ ChangeRole(p) PROVE UNCHANGED sessionVars
  BY <1>7 DEF Login, StaleForm, ChangeRole
<1>8. ASSUME NEW p \in Staff, NEW state, SignInRefused(p, state) \/ SignInFails(p, state) PROVE UNCHANGED sessionVars
  BY <1>8 DEF SignInRefused, SignInFails
<1>9. ASSUME NEW p \in Staff, NEW v \in Visits, NEW work \in Work, Submit(v, p, work) PROVE UNCHANGED sessionVars
  BY <1>9 DEF Submit
<1>10. ASSUME NEW v \in Visits,
              \/ Decide(v) \/ DecideAgain(v) \/ DecideRefused(v) \/ CheckFreeze(v) \/ ChangeFreeze(v)
              \/ Reconcile(v) \/ Reprocess(v) \/ RecordReprocess(v) \/ AnnounceReprocess(v)
       PROVE  UNCHANGED sessionVars
  BY <1>10 DEF Decide, DecideAgain, DecideRefused, CheckFreeze, ChangeFreeze, Reconcile, Reprocess,
               RecordReprocess, AnnounceReprocess
<1>11. ASSUME Pass \/ \E list \in SUBSET Staff : Reboot(list) PROVE UNCHANGED sessionVars
  BY <1>11 DEF Pass, Reboot
<1> QED
  BY <1>1, <1>2, <1>4, <1>5, <1>6, <1>7, <1>8, <1>9, <1>10, <1>11 DEF ConsoleNext

\* The requests in flight stay well-typed.
LEMMA VisitsTypedKept ==
    ASSUME ConsoleTypes, ConsoleNext
    PROVE  VisitsTyped'
<1> DEFINE Flight == [stage : Stages, session : Sessions, work : Work, heard : 0..LastHour, seen : 0..MaxAudit]
           FlightAfter == [stage : Stages, session : Sessions', work : Work, heard : 0..LastHour, seen : 0..MaxAudit]
<1>0. VisitsTyped /\ SignInTyped /\ SessionsTyped /\ LogTyped
  BY TypesParts
<1>a. Sessions \subseteq Sessions' /\ Sessions \subseteq Nat /\ Sessions' \subseteq Nat
  <2>1. Sessions \subseteq Sessions' /\ SessionsTyped'
    BY SessionsStep DEF SessionStep
  <2> QED
    BY <1>0, <2>1 DEF SessionsTyped, Sessions
<1>b. \A v \in Visits : visit[v] = Idle \/ visit[v] \in FlightAfter
  BY <1>0, <1>a DEF VisitsTyped
<1>c. FlightAfter \subseteq Visit
  BY <1>a DEF Visit
<1>d. visit = [v \in Visits |-> visit[v]]
  BY <1>0 DEF VisitsTyped
<1>e. ASSUME DOMAIN visit' = Visits, visit' = [v \in Visits |-> visit'[v]],
             \A v \in Visits : visit'[v] = Idle \/ visit'[v] \in FlightAfter
      PROVE  VisitsTyped'
  <2>1. \A v \in Visits : visit'[v] \in Visit \cup {Idle}
    BY <1>c, <1>e
  <2>2. visit' \in [Visits -> Visit \cup {Idle}]
    BY <1>e, <2>1
  <2>3. Idle' = Idle /\ Stages' = Stages
    BY DEF Idle, Stages
  <2> QED
    BY <1>e, <2>2, <2>3 DEF VisitsTyped
<1>1. ASSUME visit' = visit PROVE VisitsTyped'
  BY <1>1, <1>b, <1>d, <1>e
<1>2. ASSUME NEW v \in Visits, NEW e, visit' = [visit EXCEPT ![v] = e], e = Idle \/ e \in FlightAfter PROVE VisitsTyped'
  <2>1. visit' = [u \in Visits |-> IF u = v THEN e ELSE visit[u]]
    BY <1>d, <1>2
  <2> HIDE DEF FlightAfter
  <2> QED
    BY <1>2, <2>1, <1>b, <1>e
<1>3. ASSUME NEW v \in Visits, Leave(v) PROVE VisitsTyped'
  BY <1>2, <1>3 DEF Leave
<1>4. ASSUME NEW v \in Visits, NEW stage \in Stages, visit[v].stage \in Stages, MoveTo(v, stage) PROVE VisitsTyped'
  <2>1. visit[v] \in FlightAfter
    BY <1>4, <1>a, VisitTyped
  <2>2. [visit[v] EXCEPT !.stage = stage] \in FlightAfter
    BY <2>1
  <2>3. visit' = [visit EXCEPT ![v] = [visit[v] EXCEPT !.stage = stage]]
    BY <1>4 DEF MoveTo
  <2> HIDE DEF FlightAfter
  <2> QED
    BY <1>2, <2>2, <2>3
<1>5. ASSUME NEW p \in Staff,
             \/ Login(p) \/ Evict(p) \/ OpenPage(p) \/ StaleForm(p) \/ ChangeRole(p)
             \/ \E state \in 1..MaxLogins : SignIn(p, state) \/ SignInRefused(p, state) \/ SignInFails(p, state)
      PROVE  visit' = visit
  BY <1>5 DEF Login, Evict, OpenPage, StaleForm, ChangeRole, SignIn, SignInRefused, SignInFails, TakeFlow
<1>6. ASSUME NEW p \in Staff, NEW v \in Visits, NEW work \in Work, Submit(v, p, work) PROVE VisitsTyped'
  <2> DEFINE e == [stage |-> "heard", session |-> cookie[p], work |-> work, heard |-> hour, seen |-> Len(audit)]
  <2>1. cookie[p] \in Sessions /\ visit' = [visit EXCEPT ![v] = e]
    BY <1>6, LiveSession DEF Submit
  <2>2. hour \in 0..LastHour /\ Len(audit) \in 0..MaxAudit
    BY <1>0, StaffConsoleAssumption DEF SignInTyped, LogTyped
  <2>3. e \in FlightAfter
    BY <1>a, <2>1, <2>2 DEF Stages
  <2> HIDE DEF FlightAfter, e
  <2> QED
    BY <1>2, <2>1, <2>3
<1>7. ASSUME NEW v \in Visits,
             \/ Decide(v) \/ DecideAgain(v) \/ DecideRefused(v) \/ ChangeFreeze(v) \/ Reconcile(v) \/ SignOut(v)
             \/ AnnounceReprocess(v)
      PROVE  Leave(v)
  BY <1>7 DEF Decide, DecideAgain, DecideRefused, ChangeFreeze, Reconcile, SignOut, AnnounceReprocess
<1>8. ASSUME NEW v \in Visits, CheckFreeze(v) \/ Reprocess(v) PROVE VisitsTyped'
  <2>1. visit[v].stage \in Stages
    BY <1>8 DEF CheckFreeze, Reprocess, At, Stages
  <2>2. Leave(v) \/ MoveTo(v, "checked") \/ MoveTo(v, "effective")
    BY <1>8 DEF CheckFreeze, Reprocess
  <2>3. "checked" \in Stages /\ "effective" \in Stages
    BY DEF Stages
  <2> QED
    BY <1>3, <1>4, <2>1, <2>2, <2>3
<1>9. ASSUME NEW v \in Visits, RecordReprocess(v) PROVE VisitsTyped'
  <2> DEFINE e == [visit[v] EXCEPT !.stage = "recorded", !.seen = Len(audit) + 1]
  <2>1. visit[v].stage \in Stages /\ visit' = [visit EXCEPT ![v] = e]
    BY <1>9 DEF RecordReprocess, At, Stages
  <2>2. Len(audit) + 1 \in 0..MaxAudit
    BY <1>0, <1>9, StaffConsoleAssumption DEF RecordReprocess, Write, LogTyped
  <2>3. visit[v] \in FlightAfter
    BY <1>a, <2>1, VisitTyped
  <2>4. e \in FlightAfter
    BY <2>2, <2>3 DEF Stages
  <2> HIDE DEF FlightAfter, e
  <2> QED
    BY <1>2, <2>1, <2>4
<1>10. ASSUME Pass PROVE visit' = visit
  BY <1>10 DEF Pass
<1>11. ASSUME NEW list, Reboot(list) PROVE VisitsTyped'
  BY <1>11, <1>e DEF Reboot
<1> QED
  BY <1>1, <1>3, <1>5, <1>6, <1>7, <1>8, <1>9, <1>10, <1>11 DEF ConsoleNext

\* The economy, the payouts and the count of reprocessings stay well-typed.
LEMMA EffectsTypedKept ==
    ASSUME ConsoleTypes, ConsoleNext
    PROVE  EffectsTyped'
<1>0. EffectsTyped
  BY TypesParts
<1>1. ASSUME UNCHANGED effectVars PROVE EffectsTyped'
  BY <1>0, <1>1 DEF EffectsTyped, effectVars
<1>2. ASSUME NEW p \in Staff,
             \/ Login(p) \/ Evict(p) \/ OpenPage(p) \/ StaleForm(p) \/ ChangeRole(p)
             \/ \E state \in 1..MaxLogins : SignIn(p, state) \/ SignInRefused(p, state) \/ SignInFails(p, state)
             \/ \E v \in Visits, work \in Work : Submit(v, p, work)
      PROVE  UNCHANGED effectVars
  BY <1>2 DEF Login, Evict, OpenPage, StaleForm, ChangeRole, SignIn, SignInRefused, SignInFails, TakeFlow, Submit
<1>3. ASSUME NEW v \in Visits,
             \/ DecideAgain(v) \/ DecideRefused(v) \/ CheckFreeze(v) \/ Reconcile(v) \/ SignOut(v)
             \/ RecordReprocess(v) \/ AnnounceReprocess(v)
      PROVE  UNCHANGED effectVars
  BY <1>3 DEF DecideAgain, DecideRefused, CheckFreeze, Reconcile, SignOut, RecordReprocess, AnnounceReprocess
<1>4. ASSUME NEW v \in Visits, Decide(v) PROVE EffectsTyped'
  BY <1>0, <1>4 DEF EffectsTyped, Decide, Status
<1>5. ASSUME NEW v \in Visits, ChangeFreeze(v) PROVE EffectsTyped'
  BY <1>0, <1>5 DEF EffectsTyped, ChangeFreeze, Asked
<1>6. ASSUME NEW v \in Visits, Reprocess(v) PROVE EffectsTyped'
  BY <1>0, <1>6 DEF EffectsTyped, Reprocess
<1>7. ASSUME Pass \/ \E list \in SUBSET Staff : Reboot(list) PROVE UNCHANGED effectVars
  BY <1>7 DEF Pass, Reboot
<1> QED
  BY <1>1, <1>2, <1>3, <1>4, <1>5, <1>6, <1>7 DEF ConsoleNext

\* What a step does to the log: nothing, or one row.
LogKept == UNCHANGED logVars
RecordsNow ==
    \E p \in Staff, kind \in Kinds \cup {"sign_in", "session_use", "csrf"}, outcome \in {"done", "refused"},
       session \in Nat \cup {Nothing} :
        RecordNow(p, kind, outcome, session) /\ (outcome = "done" => kind = "sign_in")
RecordsWork == \E v \in Visits, outcome \in {"done", "refused"} : visit[v].stage \in Stages /\ RecordWork(v, outcome)
LogStep ==
    \/ LogKept
    \/ RecordsNow
    \/ RecordsWork
    \/ \E v \in Visits : RecordReprocess(v) \/ AnnounceReprocess(v)

\* Every step takes the log no other way.
LEMMA LogSteps ==
    ASSUME ConsoleTypes, ConsoleNext
    PROVE  LogStep
<1>1. ASSUME NEW p \in Staff,
             \/ Login(p) \/ OpenPage(p) \/ ChangeRole(p)
             \/ \E state \in 1..MaxLogins : SignInFails(p, state)
             \/ \E v \in Visits, work \in Work : Submit(v, p, work)
      PROVE  LogKept
  BY <1>1 DEF LogKept, Login, OpenPage, ChangeRole, SignInFails, Submit
<1>2. ASSUME NEW p \in Staff, Evict(p) \/ StaleForm(p) PROVE RecordsNow
  <2>1. cookie[p] \in Nat
    BY <1>2, LiveSession DEF Evict, StaleForm
  <2>2. RecordNow(p, "session_use", "refused", cookie[p]) \/ RecordNow(p, "csrf", "refused", cookie[p])
    BY <1>2 DEF Evict, StaleForm
  <2> QED
    BY <2>1, <2>2 DEF RecordsNow
<1>3. ASSUME NEW p \in Staff, NEW state \in 1..MaxLogins, SignIn(p, state) \/ SignInRefused(p, state) PROVE RecordsNow
  <2>1. Len(sessions) + 1 \in Nat
    BY DEF ConsoleTypes, ConsoleTypeOK
  <2>2. RecordNow(p, "sign_in", "done", Len(sessions) + 1) \/ RecordNow(p, "sign_in", "refused", Nothing)
    BY <1>3 DEF SignIn, SignInRefused
  <2> QED
    BY <2>1, <2>2 DEF RecordsNow
<1>4. ASSUME NEW v \in Visits, DecideAgain(v) PROVE LogKept
  BY <1>4 DEF LogKept, DecideAgain
<1>5. ASSUME NEW v \in Visits,
             Decide(v) \/ DecideRefused(v) \/ CheckFreeze(v) \/ ChangeFreeze(v) \/ Reconcile(v) \/ SignOut(v) \/ Reprocess(v)
      PROVE  LogKept \/ RecordsWork
  <2>1. visit[v].stage \in Stages
    BY <1>5 DEF Decide, DecideRefused, CheckFreeze, ChangeFreeze, Reconcile, SignOut, Reprocess, At, Stages
  <2>2. LogKept \/ RecordWork(v, "done") \/ RecordWork(v, "refused")
    BY <1>5 DEF LogKept, Decide, DecideRefused, CheckFreeze, ChangeFreeze, Reconcile, SignOut, Reprocess
  <2> QED
    BY <2>1, <2>2 DEF RecordsWork
<1>6. ASSUME Pass \/ \E list \in SUBSET Staff : Reboot(list) PROVE LogKept
  BY <1>6 DEF LogKept, Pass, Reboot
<1> QED
  BY <1>1, <1>2, <1>3, <1>4, <1>5, <1>6 DEF ConsoleNext, LogStep

\* The log stays well-typed.
LEMMA LogTypedKept ==
    ASSUME ConsoleTypes, VisitsHeard, ConsoleNext
    PROVE  LogTyped'
<1>0. LogTyped
  BY TypesParts
<1>1. ASSUME LogKept PROVE LogTyped'
  BY <1>0, <1>1 DEF LogTyped, LogKept, logVars, Rows
<1>2. ASSUME RecordsNow PROVE LogTyped'
  BY <1>2, RecordNowTyped DEF LogTyped, RecordsNow
<1>3. ASSUME RecordsWork PROVE LogTyped'
  BY <1>3, RecordWorkTyped DEF LogTyped, RecordsWork
<1>4. ASSUME NEW v \in Visits, RecordReprocess(v) PROVE LogTyped'
  <2> DEFINE q == visit[v]
  <2>1. visit[v].stage \in Stages /\ announced' = announced
    BY <1>4 DEF RecordReprocess, At, Stages
  <2>2. Write(sessions[q.session].subject, q.work[1], q.work[2], "done", q.session, q.heard, q.seen)
    BY <1>4 DEF RecordReprocess
  <2>3. /\ sessions[q.session].subject \in Staff /\ q.work[1] \in Kinds /\ q.work[2] \in Payouts \cup {Nothing}
        /\ q.session \in Nat /\ q.heard \in 0..LastHour /\ q.seen \in 0..MaxAudit
    BY <2>1, VisitTyped
  <2> HIDE DEF q
  <2>4. audit' \in Seq(AuditRow) /\ Len(audit') =< MaxAudit
    BY <2>2, <2>3, WriteTyped
  <2>5. Rows' = Rows \cup {Len(audit) + 1}
    BY <2>2, WriteFacts
  <2> QED
    BY <1>0, <2>1, <2>4, <2>5 DEF LogTyped
<1>5. ASSUME NEW v \in Visits, AnnounceReprocess(v) PROVE LogTyped'
  <2>1. visit[v].stage = "recorded" /\ announced' = announced \cup {visit[v].seen} /\ audit' = audit
    BY <1>5 DEF AnnounceReprocess, At
  <2>2. visit[v].seen \in Rows
    BY <2>1 DEF VisitsHeard, Done
  <2> QED
    BY <1>0, <2>1, <2>2 DEF LogTyped, Rows
<1> QED
  BY <1>1, <1>2, <1>3, <1>4, <1>5, LogSteps DEF LogStep

\* Every step keeps the types.
LEMMA ConsoleTypesKept ==
    ASSUME ConsoleTypes, VisitsHeard, ConsoleNext
    PROVE  ConsoleTypes'
<1>1. SignInTyped' /\ SessionsTyped' /\ VisitsTyped' /\ EffectsTyped' /\ LogTyped'
  BY SignInTypedKept, SessionsStep, VisitsTypedKept, EffectsTypedKept, LogTypedKept DEF SessionStep
<1> QED
  BY <1>1, Zenon DEF ConsoleTypes, ConsoleTypeOK, SignInTyped, SessionsTyped, VisitsTyped, EffectsTyped, LogTyped

----------------------------------------------------------------------------
(* Staff act as themselves.                                                *)

\* Rows are only added, one at a time.
LogGrows ==
    /\ Len(audit) \in Nat /\ Len(audit') \in Nat /\ Len(audit) =< Len(audit')
    /\ Rows \subseteq Rows' /\ Rows' \subseteq Rows \cup {Len(audit) + 1}
    /\ \A i \in Rows : audit'[i] = audit[i]

\* A row written adds to the log.
LEMMA WriteGrows ==
    ASSUME NEW p, NEW kind, NEW target, NEW outcome, NEW session, NEW heard, NEW seen,
           ConsoleTypes, Write(p, kind, target, outcome, session, heard, seen)
    PROVE  LogGrows
  BY WriteFacts DEF LogGrows

\* Every step only adds to the log.
LEMMA LogGrown ==
    ASSUME ConsoleTypes, ConsoleNext
    PROVE  LogGrows
<1>0. Len(audit) \in Nat
  BY DEF ConsoleTypes, ConsoleTypeOK
<1>1. ASSUME audit' = audit PROVE LogGrows
  BY <1>0, <1>1 DEF LogGrows, Rows
<1>2. ASSUME RecordsNow PROVE LogGrows
  BY <1>2, WriteGrows DEF RecordsNow, RecordNow, Record
<1>3. ASSUME RecordsWork PROVE LogGrows
  BY <1>3, WriteGrows DEF RecordsWork, RecordWork, Record
<1>4. ASSUME NEW v \in Visits, RecordReprocess(v) PROVE LogGrows
  BY <1>4, WriteGrows DEF RecordReprocess
<1>5. ASSUME NEW v \in Visits, AnnounceReprocess(v) PROVE audit' = audit
  BY <1>5 DEF AnnounceReprocess
<1> QED
  BY <1>1, <1>2, <1>3, <1>4, <1>5, LogSteps DEF LogStep, LogKept, logVars

\* What a row stands for, whoever wrote it.
StaffRow(i) ==
    /\ audit[i].actor \in audit[i].staff
    /\ \E j \in Done({"sign_in"}) :
         /\ j =< i /\ audit[j].session = audit[i].session /\ audit[j].actor = audit[i].actor
         /\ audit[i].heard < audit[j].heard + Ttl
    /\ \A k \in 1..audit[i].seen : ~Ends(k, audit[i].session)
EndsRevoked(i) ==
    i \in Done({"sign_out"}) \/ audit[i].kind = "session_use" =>
        audit[i].session \in Sessions /\ sessions[audit[i].session].revoked
RowKept(i) == audit[i].seen < i /\ (audit[i].outcome = "done" => StaffRow(i)) /\ EndsRevoked(i)

\* Three parts of the invariant are about one row each.
LEMMA RowsParts == EndedRevoked /\ SeenBefore /\ StaffOnly <=> \A i \in Rows : RowKept(i)
  BY Zenon DEF EndedRevoked, SeenBefore, StaffOnly, RowKept, StaffRow, EndsRevoked

\* The rows there are keep what they stand for.
LEMMA OldRow ==
    ASSUME ConsoleTypes, LogGrows, SessionStep, NEW i \in Rows, RowKept(i)
    PROVE  RowKept(i)'
<1>1. i \in Nat /\ i =< Len(audit) /\ audit'[i] = audit[i] /\ audit[i] \in AuditRow
  BY DEF LogGrows, Rows, ConsoleTypes, ConsoleTypeOK
<1>2. audit[i].seen \in Nat
  BY <1>1, StaffConsoleAssumption DEF AuditRow
<1>3. ASSUME audit[i].outcome = "done" PROVE StaffRow(i)'
  <2>1. StaffRow(i)
    BY <1>3 DEF RowKept
  <2>2. audit'[i].actor \in audit'[i].staff
    BY <1>1, <2>1 DEF StaffRow
  <2>3. \E j \in Done({"sign_in"})' :
         /\ j =< i /\ audit'[j].session = audit'[i].session /\ audit'[j].actor = audit'[i].actor
         /\ audit'[i].heard < audit'[j].heard + Ttl
    BY <1>1, <2>1 DEF StaffRow, Done, LogGrows
  <2>4. ASSUME NEW k \in 1..audit'[i].seen PROVE ~Ends(k, audit[i].session)'
    <3>1. k \in 1..audit[i].seen /\ k \in Rows
      BY <1>1, <1>2, <2>4 DEF RowKept, Rows
    <3>2. ~Ends(k, audit[i].session)
      BY <2>1, <3>1 DEF StaffRow
    <3>3. audit'[k] = audit[k] /\ (k \in Rows' <=> k \in Rows)
      BY <3>1 DEF LogGrows
    <3> QED
      BY <1>1, <3>2, <3>3 DEF Ends, Done
  <2> QED
    BY <2>2, <2>3, <2>4 DEF StaffRow
<1>4. EndsRevoked(i)'
  <2>1. ASSUME i \in Done({"sign_out"})' \/ audit'[i].kind = "session_use"
        PROVE  audit'[i].session \in Sessions' /\ sessions'[audit'[i].session].revoked
    <3>1. i \in Done({"sign_out"}) \/ audit[i].kind = "session_use"
      BY <1>1, <2>1 DEF Done
    <3>2. audit[i].session \in Sessions /\ sessions[audit[i].session].revoked
      BY <3>1 DEF RowKept, EndsRevoked
    <3> QED
      BY <1>1, <3>2 DEF SessionStep
  <2> QED
    BY <2>1 DEF EndsRevoked
<1> QED
  BY <1>1, <1>3, <1>4 DEF RowKept

\* The row of a request in flight says what it should.
LEMMA WorkRow ==
    ASSUME ConsoleTypes, StaffInv, SessionStep, NEW v \in Visits, visit[v].stage \in Unrecorded,
           NEW n, n = Len(audit) + 1,
           NEW outcome \in {"done", "refused"},
           Write(sessions[visit[v].session].subject, visit[v].work[1], visit[v].work[2], outcome,
                 visit[v].session, visit[v].heard, visit[v].seen),
           visit[v].work[1] = "sign_out" /\ outcome = "done" => sessions'[visit[v].session].revoked
    PROVE  RowKept(n)'
<1> DEFINE q == visit[v]
<1>1. q.stage \in Stages
  BY DEF Unrecorded, Stages
<1>2. /\ q \in [stage : Stages, session : Sessions, work : Work, heard : 0..LastHour, seen : 0..MaxAudit]
      /\ q.work[1] \in Kinds
  BY <1>1, VisitTyped
<1>3. HeardInTime(v)
  BY DEF StaffInv, VisitsHeard
<1>4. /\ Len(audit) \in Nat /\ Rows' = Rows \cup {n} /\ \A i \in Rows : audit'[i] = audit[i]
      /\ audit'[n] = RowOf(sessions[q.session].subject, q.work[1], q.work[2], outcome, q.session, q.heard, q.seen)
  BY WriteFacts
<1>5. /\ audit'[n].actor = sessions[q.session].subject /\ audit'[n].kind = q.work[1]
      /\ audit'[n].outcome = outcome /\ audit'[n].session = q.session /\ audit'[n].staff = listed
      /\ audit'[n].heard = q.heard /\ audit'[n].seen = q.seen
  BY <1>4 DEF RowOf
<1>6. q.session \in Sessions /\ q.seen \in Nat /\ q.seen =< Len(audit)
  BY <1>2, <1>3, StaffConsoleAssumption DEF HeardInTime
<1>7. PICK j \in Done({"sign_in"}) : audit[j].session = q.session /\ audit[j].actor = sessions[q.session].subject
                                     /\ sessions[q.session].until = audit[j].heard + Ttl
  BY <1>6 DEF StaffInv, SessionsOpened
<1> HIDE DEF q
<1>8. j \in Done({"sign_in"})' /\ audit'[j] = audit[j] /\ j =< n
  BY <1>4, <1>7 DEF Done, Rows
<1>9. audit'[n].heard < audit'[j].heard + Ttl
  BY <1>3, <1>5, <1>7, <1>8 DEF HeardInTime, q
<1>10. ASSUME NEW k \in 1..audit'[n].seen PROVE ~Ends(k, audit[n].session)'
  <2>1. k \in 1..q.seen /\ k \in Rows
    BY <1>5, <1>6, <1>10 DEF Rows
  <2>2. ~Ends(k, q.session)
    BY <1>3, <2>1 DEF HeardInTime, q
  <2>3. audit'[k] = audit[k] /\ (k \in Rows' <=> k \in Rows)
    BY <1>4, <2>1
  <2> QED
    BY <1>5, <2>2, <2>3 DEF Ends, Done
<1>11. StaffRow(n)'
  <2>1. audit'[n].actor \in audit'[n].staff
    BY <1>3, <1>5 DEF HeardInTime, q
  <2>2. \E i \in Done({"sign_in"})' :
         /\ i =< n /\ audit'[i].session = audit'[n].session /\ audit'[i].actor = audit'[n].actor
         /\ audit'[n].heard < audit'[i].heard + Ttl
    BY <1>5, <1>7, <1>8, <1>9
  <2> QED
    BY <2>1, <2>2, <1>10 DEF StaffRow
<1>12. EndsRevoked(n)'
  <2>1. ASSUME n \in Done({"sign_out"})' \/ audit'[n].kind = "session_use"
        PROVE  audit'[n].session \in Sessions' /\ sessions'[audit'[n].session].revoked
    <3>1. q.work[1] = "sign_out" /\ outcome = "done"
      BY <1>2, <1>5, <2>1 DEF Done, Kinds, q
    <3> QED
      BY <1>5, <1>6, <3>1 DEF SessionStep, q
  <2> QED
    BY <2>1 DEF EndsRevoked
<1> QED
  BY <1>5, <1>6, <1>11, <1>12 DEF RowKept

\* Every row says what it should.
LEMMA RowsKept ==
    ASSUME ConsoleTypes, StaffInv, ConsoleNext
    PROVE  \A i \in Rows' : RowKept(i)'
<1>0. LogGrows /\ SessionStep /\ \A i \in Rows : RowKept(i)
  BY LogGrown, SessionsStep, RowsParts DEF StaffInv
<1>1. ASSUME audit' = audit PROVE Rows' = Rows
  BY <1>1 DEF Rows
<1>2. SUFFICES ASSUME NEW n \in Rows', n \notin Rows PROVE RowKept(n)'
  BY <1>0, OldRow
<1>3. n = Len(audit) + 1
  BY <1>0, <1>2 DEF LogGrows
<1>4. ASSUME audit' = audit PROVE FALSE
  BY <1>1, <1>2, <1>4
\* A row for what is no request in flight.
<1>5. ASSUME NEW p \in Staff, NEW kind, NEW outcome, NEW session, RecordNow(p, kind, outcome, session)
      PROVE  /\ Write(p, kind, Nothing, outcome, session, hour, Len(audit))
             /\ Rows' = Rows \cup {n} /\ n \notin Rows /\ Len(audit) \in Nat /\ \A i \in Rows : audit'[i] = audit[i]
             /\ audit'[n].actor = p /\ audit'[n].kind = kind /\ audit'[n].outcome = outcome
             /\ audit'[n].session = session /\ audit'[n].staff = listed
             /\ audit'[n].heard = hour /\ audit'[n].seen = Len(audit)
  <2>1. Write(p, kind, Nothing, outcome, session, hour, Len(audit))
    BY <1>5 DEF RecordNow, Record
  <2>2. /\ Rows' = Rows \cup {n} /\ Len(audit) \in Nat /\ \A i \in Rows : audit'[i] = audit[i]
        /\ audit'[n] = RowOf(p, kind, Nothing, outcome, session, hour, Len(audit))
    BY <1>3, <2>1, WriteFacts
  <2>3. /\ audit'[n].actor = p /\ audit'[n].kind = kind /\ audit'[n].outcome = outcome
        /\ audit'[n].session = session /\ audit'[n].staff = listed
        /\ audit'[n].heard = hour /\ audit'[n].seen = Len(audit)
    BY <2>2 DEF RowOf
  <2> QED
    BY <1>2, <2>1, <2>2, <2>3
<1>6. ASSUME NEW p \in Staff, NEW kind, NEW session, RecordNow(p, kind, "refused", session), kind # "session_use"
      PROVE  RowKept(n)'
  <2>1. audit'[n].seen = Len(audit) /\ audit'[n].outcome = "refused" /\ audit'[n].kind = kind
    BY <1>5, <1>6
  <2>2. EndsRevoked(n)'
    BY <1>6, <2>1 DEF EndsRevoked, Done
  <2> QED
    BY <1>0, <1>3, <2>1, <2>2 DEF RowKept, LogGrows
<1>7. ASSUME NEW p \in Staff, Evict(p) PROVE RowKept(n)'
  <2>1. RecordNow(p, "session_use", "refused", cookie[p]) /\ cookie[p] \in Sessions /\ sessions' = Revoked(cookie[p])
    BY <1>7, LiveSession DEF Evict
  <2>2. audit'[n].seen = Len(audit) /\ audit'[n].outcome = "refused" /\ audit'[n].session = cookie[p]
    BY <1>5, <2>1
  <2>3. Sessions' = Sessions /\ sessions'[cookie[p]].revoked
    BY <2>1, RevokedFacts
  <2>4. EndsRevoked(n)'
    BY <2>1, <2>2, <2>3 DEF EndsRevoked
  <2> QED
    BY <1>0, <1>3, <2>2, <2>4 DEF RowKept, LogGrows
<1>8. ASSUME NEW p \in Staff, NEW state \in 1..MaxLogins, SignIn(p, state) PROVE RowKept(n)'
  <2>1. RecordNow(p, "sign_in", "done", Len(sessions) + 1) /\ p \in listed
    BY <1>8 DEF SignIn, MaySignIn
  <2>2. /\ audit'[n].seen = Len(audit) /\ audit'[n].outcome = "done" /\ audit'[n].kind = "sign_in"
        /\ audit'[n].session = Len(sessions) + 1 /\ audit'[n].actor = p /\ audit'[n].staff = listed
        /\ audit'[n].heard = hour
    BY <1>5, <2>1
  <2>3. hour \in Nat /\ Ttl \in Nat \ {0}
    BY StaffConsoleAssumption DEF ConsoleTypes, ConsoleTypeOK
  <2>4. n \in Done({"sign_in"})' /\ n \in Nat
    BY <1>2, <1>3, <1>5, <2>1, <2>2 DEF Done
  <2>5. ASSUME NEW k \in 1..audit'[n].seen PROVE ~Ends(k, audit[n].session)'
    <3>1. k \in Rows /\ audit'[k] = audit[k] /\ k \in Rows'
      BY <1>5, <2>1, <2>2, <2>5 DEF Rows
    <3>2. k \in Done({"sign_out"}) \/ audit[k].kind = "session_use" => audit[k].session \in Sessions
      BY <3>1 DEF StaffInv, EndedRevoked
    <3>3. Len(sessions) + 1 \notin Sessions
      BY <1>8, SignInFacts
    <3> QED
      BY <2>2, <3>1, <3>2, <3>3 DEF Ends, Done
  <2>6. \E j \in Done({"sign_in"})' :
         /\ j =< n /\ audit'[j].session = audit'[n].session /\ audit'[j].actor = audit'[n].actor
         /\ audit'[n].heard < audit'[j].heard + Ttl
    <3>1. n =< n /\ audit'[n].heard < audit'[n].heard + Ttl
      BY <2>2, <2>3, <2>4
    <3> QED
      BY <2>4, <3>1
  <2>7. StaffRow(n)'
    BY <2>1, <2>2, <2>5, <2>6 DEF StaffRow
  <2>8. EndsRevoked(n)'
    BY <2>2 DEF EndsRevoked, Done
  <2> QED
    BY <1>0, <1>3, <2>2, <2>7, <2>8 DEF RowKept, LogGrows
\* A row for a request in flight.
<1>9. ASSUME NEW v \in Visits, visit[v].stage \in Unrecorded, NEW outcome \in {"done", "refused"},
             RecordWork(v, outcome), visit[v].work[1] = "sign_out" /\ outcome = "done" => sessions'[visit[v].session].revoked
      PROVE  RowKept(n)'
  <2>1. Write(sessions[visit[v].session].subject, visit[v].work[1], visit[v].work[2], outcome,
              visit[v].session, visit[v].heard, visit[v].seen)
    BY <1>9 DEF RecordWork, Record
  <2> QED
    BY <1>0, <1>3, <1>9, <2>1, WorkRow
<1>10. ASSUME NEW v \in Visits,
              \/ Decide(v) \/ DecideRefused(v) \/ CheckFreeze(v) \/ ChangeFreeze(v) \/ Reconcile(v) \/ Reprocess(v)
       PROVE  RowKept(n)'
  <2>1. visit[v].stage \in Unrecorded /\ visit[v].work[1] # "sign_out"
    BY <1>10 DEF Decide, DecideRefused, CheckFreeze, ChangeFreeze, Reconcile, Reprocess, At, Unrecorded
  <2>2. RecordWork(v, "done") \/ RecordWork(v, "refused")
    BY <1>4, <1>10 DEF Decide, DecideRefused, CheckFreeze, ChangeFreeze, Reconcile, Reprocess, logVars
  <2> QED
    BY <1>9, <2>1, <2>2
<1>11. ASSUME NEW v \in Visits, SignOut(v) PROVE RowKept(n)'
  <2>1. visit[v].stage \in Unrecorded /\ visit[v].stage \in Stages /\ RecordWork(v, "done")
        /\ sessions' = Revoked(visit[v].session)
    BY <1>11 DEF SignOut, At, Unrecorded, Stages
  <2>2. visit[v].session \in Sessions
    BY <2>1, VisitTyped
  <2>3. sessions'[visit[v].session].revoked
    BY <2>1, <2>2, RevokedFacts
  <2> QED
    BY <1>9, <2>1, <2>3
<1>12. ASSUME NEW v \in Visits, RecordReprocess(v) PROVE RowKept(n)'
  <2>1. visit[v].stage \in Unrecorded /\ visit[v].work[1] # "sign_out"
        /\ Write(sessions[visit[v].session].subject, visit[v].work[1], visit[v].work[2], "done",
                 visit[v].session, visit[v].heard, visit[v].seen)
    BY <1>12 DEF RecordReprocess, At, Unrecorded
  <2> QED
    BY <1>0, <1>3, <2>1, WorkRow
<1>13. ASSUME NEW p \in Staff,
              \/ Login(p) \/ OpenPage(p) \/ ChangeRole(p)
              \/ \E state \in 1..MaxLogins : SignInFails(p, state)
              \/ \E v \in Visits, work \in Work : Submit(v, p, work)
       PROVE  audit' = audit
  BY <1>13 DEF Login, OpenPage, ChangeRole, SignInFails, Submit, logVars
<1>14. ASSUME NEW p \in Staff, StaleForm(p) \/ \E state \in 1..MaxLogins : SignInRefused(p, state) PROVE RowKept(n)'
  <2>1. RecordNow(p, "csrf", "refused", cookie[p]) \/ RecordNow(p, "sign_in", "refused", Nothing)
    BY <1>14 DEF StaleForm, SignInRefused
  <2> QED
    BY <1>6, <2>1
<1>15. ASSUME NEW v \in Visits, DecideAgain(v) \/ AnnounceReprocess(v) PROVE audit' = audit
  BY <1>15 DEF DecideAgain, AnnounceReprocess, logVars
<1>16. ASSUME Pass \/ \E list \in SUBSET Staff : Reboot(list) PROVE audit' = audit
  BY <1>16 DEF Pass, Reboot, logVars
<1> QED
  BY <1>4, <1>7, <1>8, <1>10, <1>11, <1>12, <1>13, <1>14, <1>15, <1>16 DEF ConsoleNext

\* A done row stays one.
LEMMA DoneStays ==
    ASSUME LogGrows, NEW K, NEW i \in Done(K)
    PROVE  i \in Rows /\ i \in Done(K)' /\ audit'[i] = audit[i]
  BY DEF LogGrows, Done

\* Each session keeps the row of its sign-in.
LEMMA SessionsOpenedKept ==
    ASSUME ConsoleTypes, StaffInv, ConsoleNext
    PROVE  SessionsOpened'
<1>0. LogGrows /\ SessionStep
  BY LogGrown, SessionsStep
<1>1. ASSUME NEW s \in Sessions
      PROVE  \E j \in Done({"sign_in"})' : /\ audit'[j].session = s /\ audit'[j].actor = sessions'[s].subject
                                           /\ sessions'[s].until = audit'[j].heard + Ttl
  <2>1. PICK j \in Done({"sign_in"}) : /\ audit[j].session = s /\ audit[j].actor = sessions[s].subject
                                       /\ sessions[s].until = audit[j].heard + Ttl
    BY DEF StaffInv, SessionsOpened
  <2>2. j \in Done({"sign_in"})' /\ audit'[j] = audit[j]
    BY <1>0, DoneStays
  <2> QED
    BY <1>0, <2>1, <2>2 DEF SessionStep
<1>2. ASSUME NEW p \in Staff, NEW state \in 1..MaxLogins, SignIn(p, state), NEW s, s = Len(sessions) + 1
      PROVE  \E j \in Done({"sign_in"})' : /\ audit'[j].session = s /\ audit'[j].actor = sessions'[s].subject
                                           /\ sessions'[s].until = audit'[j].heard + Ttl
  <2>1. Write(p, "sign_in", Nothing, "done", s, hour, Len(audit))
    BY <1>2 DEF SignIn, RecordNow, Record
  <2>2. audit'[Len(audit) + 1] = RowOf(p, "sign_in", Nothing, "done", s, hour, Len(audit))
    BY <2>1, WriteFacts
  <2>3. /\ audit'[Len(audit) + 1].session = s /\ audit'[Len(audit) + 1].actor = p
        /\ audit'[Len(audit) + 1].heard = hour
    BY <2>2 DEF RowOf
  <2>4. Len(audit) + 1 \in Done({"sign_in"})'
    BY <2>1, WriteDone
  <2>5. sessions'[s] = [subject |-> p, until |-> hour + Ttl, revoked |-> FALSE]
    BY <1>2, SignInFacts
  <2>6. sessions'[s].subject = p /\ sessions'[s].until = hour + Ttl
    BY <2>5
  <2> QED
    BY <2>3, <2>4, <2>6
<1>3. ASSUME NEW s \in Sessions', s \notin Sessions
      PROVE  \E p \in Staff, state \in 1..MaxLogins : SignIn(p, state) /\ s = Len(sessions) + 1
  <2>1. PICK p \in Staff, state \in 1..MaxLogins : SignIn(p, state)
    BY <1>0, <1>3 DEF SessionStep
  <2>2. Sessions' = Sessions \cup {Len(sessions) + 1}
    BY <2>1, SignInFacts
  <2> QED
    BY <1>3, <2>1, <2>2
<1>4. \A s \in Sessions' :
        \E j \in Done({"sign_in"})' : /\ audit'[j].session = s /\ audit'[j].actor = sessions'[s].subject
                                      /\ sessions'[s].until = audit'[j].heard + Ttl
  BY <1>1, <1>2, <1>3
<1> QED
  BY <1>4 DEF SessionsOpened

\* What is known of one request in flight.
VisitKept(v) ==
    /\ visit[v].stage \in Unrecorded => HeardInTime(v)
    /\ visit[v].stage = "recorded" => visit[v].seen \in Done({"reprocess"})

\* A request that a step only moves on keeps what is known of it.
LEMMA HeardKept ==
    ASSUME ConsoleTypes, LogGrows, SessionStep, listed' = listed, NEW v \in Visits, visit[v].stage \in Unrecorded,
           HeardInTime(v), visit'[v].session = visit[v].session, visit'[v].heard = visit[v].heard,
           visit'[v].seen = visit[v].seen
    PROVE  HeardInTime(v)'
<1> DEFINE q == visit[v]
<1>1. visit[v].stage \in Stages
  BY DEF Unrecorded, Stages
<1>2. q.session \in Sessions /\ q.seen \in 0..MaxAudit
  BY <1>1, VisitTyped
<1>3. visit'[v].seen =< Len(audit')
  BY <1>2, StaffConsoleAssumption DEF HeardInTime, LogGrows
<1>4. /\ sessions'[q.session].subject \in listed' /\ q.heard < sessions'[q.session].until
  BY <1>2 DEF HeardInTime, SessionStep
<1>5. ASSUME NEW k \in 1..visit'[v].seen PROVE ~Ends(k, visit[v].session)'
  <2>1. k \in 1..q.seen /\ k \in Rows /\ k \in Rows' /\ audit'[k] = audit[k]
    BY <1>2, <1>5, StaffConsoleAssumption DEF HeardInTime, LogGrows, Rows
  <2>2. ~Ends(k, q.session)
    BY <2>1 DEF HeardInTime
  <2> QED
    BY <2>1, <2>2 DEF Ends, Done
<1> QED
  BY <1>3, <1>4, <1>5 DEF HeardInTime

\* What is known of a request that stays where it is.
LEMMA VisitStays ==
    ASSUME ConsoleTypes, LogGrows, SessionStep, listed' = listed, NEW v \in Visits, VisitKept(v), visit'[v] = visit[v]
    PROVE  VisitKept(v)'
  BY HeardKept, DoneStays DEF VisitKept

\* What is known of the requests in flight stays known.
LEMMA VisitsHeardKept ==
    ASSUME ConsoleTypes, StaffInv, ConsoleNext
    PROVE  VisitsHeard'
<1>0. LogGrows /\ SessionStep /\ \A v \in Visits : VisitKept(v)
  BY LogGrown, SessionsStep DEF StaffInv, VisitsHeard, VisitKept
<1>1. SUFFICES ASSUME NEW u \in Visits PROVE VisitKept(u)'
  <2>1. \A u \in Visits : VisitKept(u)'
    BY <1>1
  <2> QED
    BY <2>1 DEF VisitsHeard, VisitKept
<1>2. DOMAIN visit = Visits
  BY DEF ConsoleTypes
<1>3. ASSUME listed' = listed, visit'[u] = visit[u] PROVE VisitKept(u)'
  BY <1>0, <1>3, VisitStays
<1>4. ASSUME visit'[u] = Idle PROVE VisitKept(u)'
  BY <1>4 DEF VisitKept, Idle, Unrecorded
<1>5. ASSUME NEW v \in Visits, Leave(v), listed' = listed PROVE VisitKept(u)'
  <2>1. visit'[u] = visit[u] \/ visit'[u] = Idle
    BY <1>2, <1>5 DEF Leave
  <2> QED
    BY <1>3, <1>4, <1>5, <2>1
<1>6. ASSUME NEW v \in Visits, NEW stage \in Unrecorded, MoveTo(v, stage), visit[v].stage \in Unrecorded, listed' = listed
      PROVE  VisitKept(u)'
  <2>1. CASE u # v
    BY <1>2, <1>3, <1>6, <2>1 DEF MoveTo
  <2>2. CASE u = v
    <3>1. visit[u].stage \in Stages
      BY <1>6, <2>2 DEF Unrecorded, Stages
    <3>2. visit'[u] = [visit[u] EXCEPT !.stage = stage]
      BY <1>2, <1>6, <2>2 DEF MoveTo
    <3>3. visit[u] \in [stage : Stages, session : Sessions, work : Work, heard : 0..LastHour, seen : 0..MaxAudit]
      BY <3>1, VisitTyped
    <3>4. /\ visit'[u].session = visit[u].session /\ visit'[u].heard = visit[u].heard
          /\ visit'[u].seen = visit[u].seen /\ visit'[u].stage = stage
      BY <3>2, <3>3
    <3>5. HeardInTime(u)'
      BY <1>0, <1>6, <2>2, <3>4, HeardKept DEF VisitKept
    <3>6. stage # "recorded"
      BY DEF Unrecorded
    <3> QED
      BY <3>4, <3>5, <3>6 DEF VisitKept
  <2> QED
    BY <2>1, <2>2
<1>7. ASSUME NEW p \in Staff,
             \/ Login(p) \/ Evict(p) \/ OpenPage(p) \/ StaleForm(p) \/ ChangeRole(p)
             \/ \E state \in 1..MaxLogins : SignIn(p, state) \/ SignInRefused(p, state) \/ SignInFails(p, state)
      PROVE  visit' = visit /\ listed' = listed
  BY <1>7 DEF Login, Evict, OpenPage, StaleForm, ChangeRole, SignIn, SignInRefused, SignInFails, TakeFlow
<1>8. ASSUME NEW p \in Staff, NEW v \in Visits, NEW work \in Work, Submit(v, p, work) PROVE VisitKept(u)'
  <2>1. /\ visit' = [visit EXCEPT ![v] = [stage |-> "heard", session |-> cookie[p], work |-> work,
                                          heard |-> hour, seen |-> Len(audit)]]
        /\ p \in listed /\ UNCHANGED <<listed, sessions, audit>> /\ Live(cookie[p])
    BY <1>8 DEF Submit, sessionVars, logVars
  <2>2. CASE u # v
    BY <1>2, <1>3, <2>1, <2>2
  <2>3. CASE u = v
    <3>1. visit'[u] = [stage |-> "heard", session |-> cookie[p], work |-> work, heard |-> hour, seen |-> Len(audit)]
      BY <1>2, <2>1, <2>3
    <3>2. /\ visit'[u].stage = "heard" /\ visit'[u].session = cookie[p] /\ visit'[u].heard = hour
          /\ visit'[u].seen = Len(audit)
      BY <3>1
    <3>3. cookie[p] \in Sessions /\ ~sessions[cookie[p]].revoked /\ hour < sessions[cookie[p]].until
      BY <2>1, LiveSession DEF Live
    <3>4. sessions[cookie[p]].subject \in listed
      BY <2>1, <3>3, LiveSession DEF StaffInv, CookiesOwn
    <3>5. ASSUME NEW k \in 1..Len(audit) PROVE ~Ends(k, cookie[p])
      <4>1. k \in Rows
        BY <3>5 DEF Rows
      <4> QED
        BY <3>3, <4>1 DEF StaffInv, EndedRevoked, Ends
    <3>6. ASSUME NEW k \in 1..visit'[u].seen PROVE ~Ends(k, visit[u].session)'
      <4>1. k \in 1..Len(audit) /\ audit' = audit
        BY <2>1, <3>2, <3>6
      <4>2. ~Ends(k, cookie[p])
        BY <3>5, <4>1
      <4> QED
        BY <2>1, <3>2, <4>2 DEF Ends, Done, Rows
    <3>7. HeardInTime(u)'
      BY <1>0, <2>1, <3>2, <3>3, <3>4, <3>6 DEF HeardInTime, LogGrows
    <3> QED
      BY <3>2, <3>7 DEF VisitKept
  <2> QED
    BY <2>2, <2>3
<1>9. ASSUME NEW v \in Visits,
             \/ Decide(v) \/ DecideAgain(v) \/ DecideRefused(v) \/ ChangeFreeze(v) \/ Reconcile(v) \/ SignOut(v)
             \/ AnnounceReprocess(v)
      PROVE  Leave(v) /\ listed' = listed
  BY <1>9 DEF Decide, DecideAgain, DecideRefused, ChangeFreeze, Reconcile, SignOut, AnnounceReprocess, Kept
<1>10. ASSUME NEW v \in Visits, CheckFreeze(v) \/ Reprocess(v) PROVE VisitKept(u)'
  <2>1. /\ visit[v].stage \in Unrecorded /\ listed' = listed
        /\ Leave(v) \/ MoveTo(v, "checked") \/ MoveTo(v, "effective")
    BY <1>10 DEF CheckFreeze, Reprocess, At, Unrecorded, Kept
  <2>2. "checked" \in Unrecorded /\ "effective" \in Unrecorded
    BY DEF Unrecorded
  <2> QED
    BY <1>5, <1>6, <2>1, <2>2
<1>11. ASSUME NEW v \in Visits, RecordReprocess(v) PROVE VisitKept(u)'
  <2>1. /\ visit' = [visit EXCEPT ![v] = [visit[v] EXCEPT !.stage = "recorded", !.seen = Len(audit) + 1]]
        /\ listed' = listed /\ visit[v].stage \in Stages /\ visit[v].work[1] = "reprocess"
    BY <1>11 DEF RecordReprocess, At, Stages, Kept
  <2>2. CASE u # v
    BY <1>2, <1>3, <2>1, <2>2
  <2>3. CASE u = v
    <3>1. visit[v] \in [stage : Stages, session : Sessions, work : Work, heard : 0..LastHour, seen : 0..MaxAudit]
      BY <2>1, VisitTyped
    <3>2. visit'[u].stage = "recorded" /\ visit'[u].seen = Len(audit) + 1
      BY <1>2, <2>1, <2>3, <3>1
    <3>3. Write(sessions[visit[v].session].subject, "reprocess", visit[v].work[2], "done",
                visit[v].session, visit[v].heard, visit[v].seen)
      BY <1>11, <2>1 DEF RecordReprocess
    <3>4. ASSUME NEW p, NEW target, NEW s, NEW heard, NEW seen, Write(p, "reprocess", target, "done", s, heard, seen)
          PROVE  Len(audit) + 1 \in Done({"reprocess"})'
      BY <3>4, WriteDone
    <3>5. Len(audit) + 1 \in Done({"reprocess"})'
      BY <3>3, <3>4
    <3> QED
      BY <3>2, <3>5 DEF VisitKept, Unrecorded
  <2> QED
    BY <2>2, <2>3
<1>12. ASSUME Pass PROVE visit' = visit /\ listed' = listed
  BY <1>12 DEF Pass
<1>13. ASSUME NEW list \in SUBSET Staff, Reboot(list) PROVE visit'[u] = Idle
  BY <1>13 DEF Reboot
<1> QED
  BY <1>3, <1>4, <1>5, <1>7, <1>8, <1>9, <1>10, <1>11, <1>12, <1>13 DEF ConsoleNext

\* A cookie stays one of its person's sessions.
LEMMA CookiesOwnKept ==
    ASSUME ConsoleTypes, StaffInv, ConsoleNext
    PROVE  CookiesOwn'
<1>0. SessionStep /\ cookie \in [Staff -> Sessions \cup {Nothing}]
  BY SessionsStep DEF ConsoleTypes, ConsoleTypeOK
<1>1. ASSUME cookie' = cookie PROVE CookiesOwn'
  BY <1>0, <1>1 DEF StaffInv, CookiesOwn, SessionStep
<1>2. ASSUME NEW p \in Staff, Answered(p, Nothing) PROVE CookiesOwn'
  <2>1. ASSUME NEW r \in Staff, cookie'[r] # Nothing PROVE cookie[r] = cookie'[r] /\ cookie[r] \in Sessions
    BY <1>0, <1>2, <2>1 DEF Answered
  <2> QED
    BY <1>0, <2>1 DEF StaffInv, CookiesOwn, SessionStep
<1>3. ASSUME NEW p \in Staff, NEW state \in 1..MaxLogins, SignIn(p, state) PROVE CookiesOwn'
  <2>1. Answered(p, Len(sessions) + 1)
    BY <1>3 DEF SignIn
  <2>2. sessions'[Len(sessions) + 1] = [subject |-> p, until |-> hour + Ttl, revoked |-> FALSE]
    BY <1>3, SignInFacts
  <2>3. sessions'[Len(sessions) + 1].subject = p
    BY <2>2
  <2>4. ASSUME NEW r \in Staff, cookie'[r] # Nothing PROVE sessions'[cookie'[r]].subject = r
    <3>1. CASE r = p /\ cookie'[r] = Len(sessions) + 1
      BY <2>3, <3>1
    <3>2. CASE cookie'[r] = cookie[r]
      BY <1>0, <2>4, <3>2 DEF StaffInv, CookiesOwn, SessionStep
    <3> QED
      BY <1>0, <2>1, <3>1, <3>2 DEF Answered
  <2> QED
    BY <2>4 DEF CookiesOwn
<1>4. ASSUME NEW p \in Staff,
             \/ Login(p) \/ OpenPage(p) \/ StaleForm(p) \/ ChangeRole(p)
             \/ \E state \in 1..MaxLogins : SignInRefused(p, state) \/ SignInFails(p, state)
             \/ \E v \in Visits, work \in Work : Submit(v, p, work)
      PROVE  cookie' = cookie
  BY <1>4 DEF Login, OpenPage, StaleForm, ChangeRole, SignInRefused, SignInFails, Submit, sessionVars
<1>5. ASSUME NEW p \in Staff, Evict(p) PROVE Answered(p, Nothing)
  BY <1>5 DEF Evict
<1>6. ASSUME NEW v \in Visits, SignOut(v) PROVE \E p \in Staff : Answered(p, Nothing)
  <2>1. visit[v].stage \in Stages
    BY <1>6 DEF SignOut, At, Stages
  <2> QED
    BY <1>6, <2>1, VisitTyped DEF SignOut
<1>7. ASSUME NEW v \in Visits,
             \/ Decide(v) \/ DecideAgain(v) \/ DecideRefused(v) \/ CheckFreeze(v) \/ ChangeFreeze(v)
             \/ Reconcile(v) \/ Reprocess(v) \/ RecordReprocess(v) \/ AnnounceReprocess(v)
      PROVE  cookie' = cookie
  BY <1>7 DEF Decide, DecideAgain, DecideRefused, CheckFreeze, ChangeFreeze, Reconcile, Reprocess,
              RecordReprocess, AnnounceReprocess, sessionVars
<1>8. ASSUME Pass \/ \E list \in SUBSET Staff : Reboot(list) PROVE cookie' = cookie
  BY <1>8 DEF Pass, Reboot, sessionVars
<1> QED
  BY <1>1, <1>2, <1>3, <1>4, <1>5, <1>6, <1>7, <1>8 DEF ConsoleNext

\* Staff go on acting as themselves.
LEMMA StaffInvKept ==
    ASSUME ConsoleTypes, StaffInv, ConsoleNext
    PROVE  StaffInv'
<1>1. \A i \in Rows' : RowKept(i)'
  BY RowsKept
<1>2. EndedRevoked' /\ SeenBefore' /\ StaffOnly'
  BY <1>1, Zenon DEF EndedRevoked, SeenBefore, StaffOnly, RowKept, StaffRow, EndsRevoked
<1> QED
  BY <1>2, SessionsOpenedKept, CookiesOwnKept, VisitsHeardKept DEF StaffInv

----------------------------------------------------------------------------
(* The log tells the state.                                                *)

\* The new row: its kind, its target, and the done rows it joins.
Adds(kind, target, outcome) ==
    /\ LogGrows /\ Len(audit) + 1 \notin Rows
    /\ audit'[Len(audit) + 1].kind = kind /\ audit'[Len(audit) + 1].target = target
    /\ \A K : /\ outcome = "done" /\ kind \in K => Done(K)' = Done(K) \cup {Len(audit) + 1}
              /\ outcome # "done" \/ kind \notin K => Done(K)' = Done(K)

\* A row written is the new one.
LEMMA WriteAdds ==
    ASSUME NEW p, NEW kind, NEW target, NEW outcome, NEW session, NEW heard, NEW seen,
           ConsoleTypes, Write(p, kind, target, outcome, session, heard, seen)
    PROVE  Adds(kind, target, outcome)
<1>1. LogGrows
  BY WriteGrows
<1>2. Len(audit) + 1 \notin Rows
  BY <1>1 DEF LogGrows, Rows
<1>3. audit'[Len(audit) + 1] = RowOf(p, kind, target, outcome, session, heard, seen)
  BY WriteFacts
<1>4. audit'[Len(audit) + 1].kind = kind /\ audit'[Len(audit) + 1].target = target
  BY <1>3 DEF RowOf
<1>5. ASSUME NEW K
      PROVE  /\ outcome = "done" /\ kind \in K => Done(K)' = Done(K) \cup {Len(audit) + 1}
             /\ outcome # "done" \/ kind \notin K => Done(K)' = Done(K)
  BY WriteDone
<1> QED
  BY <1>1, <1>2, <1>4, <1>5 DEF Adds

\* The row of a request in flight, and that it is announced if it is done.
LEMMA RecordWorkAdds ==
    ASSUME ConsoleTypes, NEW v \in Visits, NEW outcome, RecordWork(v, outcome)
    PROVE  /\ Adds(visit[v].work[1], visit[v].work[2], outcome)
           /\ announced' = IF outcome = "done" THEN announced \cup {Len(audit) + 1} ELSE announced
<1>1. ASSUME NEW p, NEW kind, NEW target, NEW s, NEW heard, NEW seen,
             Record(p, kind, target, outcome, s, heard, seen)
      PROVE  /\ Adds(kind, target, outcome)
             /\ announced' = IF outcome = "done" THEN announced \cup {Len(audit) + 1} ELSE announced
  BY <1>1, WriteAdds DEF Record
<1> QED
  BY <1>1 DEF RecordWork

\* The row of anything else, likewise.
LEMMA RecordNowAdds ==
    ASSUME ConsoleTypes, NEW p, NEW kind, NEW outcome, NEW session, RecordNow(p, kind, outcome, session)
    PROVE  /\ Adds(kind, Nothing, outcome)
           /\ announced' = IF outcome = "done" THEN announced \cup {Len(audit) + 1} ELSE announced
  BY WriteAdds DEF RecordNow, Record

\* Reprocessing writes its row by itself.
LEMMA RecordReprocessAdds ==
    ASSUME ConsoleTypes, NEW v \in Visits, RecordReprocess(v)
    PROVE  Adds("reprocess", visit[v].work[2], "done") /\ announced' = announced
<1>1. ASSUME NEW p, NEW kind, NEW target, NEW s, NEW heard, NEW seen, Write(p, kind, target, "done", s, heard, seen)
      PROVE  Adds(kind, target, "done")
  BY <1>1, WriteAdds
<1> QED
  BY <1>1 DEF RecordReprocess, At

\* The steps that add a done row of one of the kinds.
DoneBy(K) ==
    \/ "sign_in" \in K
    \/ \E v \in Visits :
         \/ Decide(v) /\ visit[v].work[1] \in K \cap {"approve", "deny"}
         \/ ChangeFreeze(v) /\ visit[v].work[1] \in K \cap {"freeze", "unfreeze"}
         \/ Reconcile(v) /\ "reconcile" \in K
         \/ SignOut(v) /\ "sign_out" \in K
         \/ RecordReprocess(v) /\ "reprocess" \in K

\* No other step adds one.
LEMMA DoneOnlyBy ==
    ASSUME ConsoleTypes, ConsoleNext, NEW K
    PROVE  Done(K)' = Done(K) \/ DoneBy(K)
<1>1. ASSUME audit' = audit PROVE Done(K)' = Done(K)
  BY <1>1 DEF Done, Rows
<1>2. ASSUME RecordsNow PROVE Done(K)' = Done(K) \/ "sign_in" \in K
  BY <1>2, RecordNowAdds DEF RecordsNow, Adds
<1>3. ASSUME NEW v \in Visits, RecordWork(v, "refused") PROVE Done(K)' = Done(K)
  BY <1>3, RecordWorkAdds DEF Adds
<1>4. ASSUME NEW v \in Visits, RecordWork(v, "done") PROVE Done(K)' = Done(K) \/ visit[v].work[1] \in K
  BY <1>4, RecordWorkAdds DEF Adds
<1>5. ASSUME NEW p \in Staff,
             \/ Login(p) \/ OpenPage(p) \/ ChangeRole(p)
             \/ \E state \in 1..MaxLogins : SignInFails(p, state)
             \/ \E v \in Visits, work \in Work : Submit(v, p, work)
      PROVE  audit' = audit
  BY <1>5 DEF Login, OpenPage, ChangeRole, SignInFails, Submit, logVars
<1>6. ASSUME NEW p \in Staff, Evict(p) \/ StaleForm(p) PROVE Done(K)' = Done(K)
  <2>1. RecordNow(p, "session_use", "refused", cookie[p]) \/ RecordNow(p, "csrf", "refused", cookie[p])
    BY <1>6 DEF Evict, StaleForm
  <2> QED
    BY <2>1, RecordNowAdds DEF Adds
<1>7. ASSUME NEW p \in Staff, NEW state \in 1..MaxLogins, SignIn(p, state) \/ SignInRefused(p, state)
      PROVE  Done(K)' = Done(K) \/ "sign_in" \in K
  <2>1. RecordNow(p, "sign_in", "done", Len(sessions) + 1) \/ RecordNow(p, "sign_in", "refused", Nothing)
    BY <1>7 DEF SignIn, SignInRefused
  <2> QED
    BY <2>1, RecordNowAdds DEF Adds
<1>8. ASSUME NEW v \in Visits, DecideAgain(v) \/ AnnounceReprocess(v) PROVE audit' = audit
  BY <1>8 DEF DecideAgain, AnnounceReprocess, logVars
<1>9. ASSUME NEW v \in Visits, DecideRefused(v) \/ CheckFreeze(v) \/ Reprocess(v)
      PROVE  audit' = audit \/ RecordWork(v, "refused")
  BY <1>9 DEF DecideRefused, CheckFreeze, Reprocess, logVars
<1>10. ASSUME NEW v \in Visits, Decide(v) \/ ChangeFreeze(v) \/ Reconcile(v) \/ SignOut(v)
       PROVE  Done(K)' = Done(K) \/ DoneBy(K)
  <2>1. RecordWork(v, "done")
    BY <1>10 DEF Decide, ChangeFreeze, Reconcile, SignOut
  <2>2. /\ Decide(v) => visit[v].work[1] \in {"approve", "deny"}
        /\ ChangeFreeze(v) => visit[v].work[1] \in {"freeze", "unfreeze"}
        /\ Reconcile(v) => visit[v].work[1] = "reconcile"
        /\ SignOut(v) => visit[v].work[1] = "sign_out"
    BY DEF Decide, ChangeFreeze, Reconcile, SignOut, At
  <2> QED
    BY <1>4, <1>10, <2>1, <2>2 DEF DoneBy
<1>11. ASSUME NEW v \in Visits, RecordReprocess(v) PROVE Done(K)' = Done(K) \/ DoneBy(K)
  BY <1>11, RecordReprocessAdds DEF Adds, DoneBy
<1>12. ASSUME Pass \/ \E list \in SUBSET Staff : Reboot(list) PROVE audit' = audit
  BY <1>12 DEF Pass, Reboot, logVars
<1> QED
  BY <1>1, <1>3, <1>5, <1>6, <1>7, <1>8, <1>9, <1>10, <1>11, <1>12 DEF ConsoleNext, DoneBy

\* Which steps move the payouts, the freeze and the count of reprocessings.
LEMMA EffectsOnlyBy ==
    ASSUME ConsoleNext
    PROVE  /\ payout' = payout \/ \E v \in Visits : Decide(v)
           /\ closed' = closed \/ \E v \in Visits : ChangeFreeze(v)
           /\ reprocessed' = reprocessed \/ \E v \in Visits : Reprocess(v)
<1>1. ASSUME NEW p \in Staff,
             \/ Login(p) \/ Evict(p) \/ OpenPage(p) \/ StaleForm(p) \/ ChangeRole(p)
             \/ \E state \in 1..MaxLogins : SignIn(p, state) \/ SignInRefused(p, state) \/ SignInFails(p, state)
             \/ \E v \in Visits, work \in Work : Submit(v, p, work)
      PROVE  UNCHANGED effectVars
  BY <1>1 DEF Login, Evict, OpenPage, StaleForm, ChangeRole, SignIn, SignInRefused, SignInFails, TakeFlow, Submit
<1>2. ASSUME NEW v \in Visits,
             \/ DecideAgain(v) \/ DecideRefused(v) \/ CheckFreeze(v) \/ Reconcile(v) \/ SignOut(v)
             \/ RecordReprocess(v) \/ AnnounceReprocess(v)
      PROVE  UNCHANGED effectVars
  BY <1>2 DEF DecideAgain, DecideRefused, CheckFreeze, Reconcile, SignOut, RecordReprocess, AnnounceReprocess
<1>3. ASSUME NEW v \in Visits, Decide(v) PROVE closed' = closed /\ reprocessed' = reprocessed
  BY <1>3 DEF Decide
<1>4. ASSUME NEW v \in Visits, ChangeFreeze(v) PROVE payout' = payout /\ reprocessed' = reprocessed
  BY <1>4 DEF ChangeFreeze
<1>5. ASSUME NEW v \in Visits, Reprocess(v) PROVE payout' = payout /\ closed' = closed
  BY <1>5 DEF Reprocess
<1>6. ASSUME Pass \/ \E list \in SUBSET Staff : Reboot(list) PROVE UNCHANGED effectVars
  BY <1>6 DEF Pass, Reboot
<1> QED
  BY <1>1, <1>2, <1>3, <1>4, <1>5, <1>6 DEF ConsoleNext, effectVars

\* A decided payout keeps the one row that decided it.
LEMMA DecidedKept ==
    ASSUME ConsoleTypes, \A x \in Payouts : DecidedBy(x), ConsoleNext
    PROVE  \A x \in Payouts : DecidedBy(x)'
<1> DEFINE K == {"approve", "deny"}
<1>0. LogGrows
  BY LogGrown
<1>1. SUFFICES ASSUME NEW x \in Payouts PROVE DecidedBy(x)'
  OBVIOUS
<1>2. DecidedBy(x)
  OBVIOUS
<1>3. \A i \in Done(K) : i \in Done(K)' /\ audit'[i] = audit[i]
  BY <1>0, DoneStays
<1>4. ASSUME NEW v \in Visits, Decide(v) PROVE DecidedBy(x)'
  <2> DEFINE kind == visit[v].work[1]
             y == visit[v].work[2]
  <2>1. /\ kind \in K /\ payout[y] = "requested" /\ payout' = [payout EXCEPT ![y] = Status(kind)]
        /\ RecordWork(v, "done")
    BY <1>4 DEF Decide, At, Waiting
  <2>2. /\ Done(K)' = Done(K) \cup {Len(audit) + 1} /\ Len(audit) + 1 \notin Rows
        /\ audit'[Len(audit) + 1].kind = kind /\ audit'[Len(audit) + 1].target = y
    BY <2>1, RecordWorkAdds DEF Adds
  <2>3. payout \in [Payouts -> {"requested", "paid", "denied"}]
    BY DEF ConsoleTypes, ConsoleTypeOK
  <2> HIDE DEF kind, y
  <2>4. CASE x = y
    <3>1. Deciding(x) = {}
      BY <1>2, <2>1, <2>4 DEF DecidedBy, Deciding, Done, Status
    <3>2. Deciding(x)' = {Len(audit) + 1}
      BY <1>3, <2>2, <2>4, <3>1 DEF Deciding
    <3>3. payout'[x] = Status(audit'[Len(audit) + 1].kind)
      BY <2>1, <2>2, <2>3, <2>4
    <3> QED
      BY <3>2, <3>3 DEF DecidedBy, Status
  <2>5. CASE x # y
    <3>1. Deciding(x)' = Deciding(x)
      BY <1>3, <2>2, <2>5 DEF Deciding
    <3>2. payout'[x] = payout[x]
      BY <2>1, <2>3, <2>5
    <3>3. \A i \in Deciding(x) : audit'[i] = audit[i]
      BY <1>3 DEF Deciding
    <3> QED
      BY <1>2, <3>1, <3>2, <3>3 DEF DecidedBy, Status
  <2> QED
    BY <2>4, <2>5
<1>5. ASSUME payout' = payout, Done(K)' = Done(K) PROVE DecidedBy(x)'
  <2>1. Deciding(x)' = Deciding(x)
    BY <1>3, <1>5 DEF Deciding
  <2>2. \A i \in Deciding(x) : audit'[i] = audit[i]
    BY <1>3 DEF Deciding
  <2> QED
    BY <1>2, <1>5, <2>1, <2>2 DEF DecidedBy, Status
<1>6. Done(K)' = Done(K) \/ \E v \in Visits : Decide(v)
  <2>1. Done(K)' = Done(K) \/ DoneBy(K)
    BY DoneOnlyBy
  <2> QED
    BY <2>1 DEF DoneBy
<1> QED
  BY <1>4, <1>5, <1>6, EffectsOnlyBy

\* The economy stays as the last done freeze or unfreeze left it.
LEMMA LastTurnKept ==
    ASSUME ConsoleTypes, LastTurn, ConsoleNext
    PROVE  LastTurn'
<1> DEFINE K == {"freeze", "unfreeze"}
<1>0. LogGrows /\ Turns = Done(K) /\ Turns' = Done(K)'
  BY LogGrown DEF Turns
<1>1. \A i \in Turns : i \in Rows /\ i \in Turns' /\ audit'[i] = audit[i]
  BY <1>0, DoneStays
<1>2. ASSUME NEW v \in Visits, ChangeFreeze(v) PROVE LastTurn'
  <2> DEFINE kind == visit[v].work[1]
  <2>1. kind \in K /\ closed' = (kind = "freeze") /\ RecordWork(v, "done")
    BY <1>2 DEF ChangeFreeze, At, Asked
  <2>2. /\ Turns' = Turns \cup {Len(audit) + 1} /\ Len(audit) + 1 \notin Rows
        /\ audit'[Len(audit) + 1].kind = kind
    BY <1>0, <2>1, RecordWorkAdds DEF Adds
  <2> HIDE DEF kind
  <2>3. \A i \in Turns : i \in Nat /\ i < Len(audit) + 1
    BY <1>0, <1>1 DEF LogGrows, Rows
  <2>4. \A i \in Turns' : (\A j \in Turns' : j =< i) <=> i = Len(audit) + 1
    <3> DEFINE n == Len(audit) + 1
    <3>1. Turns' = Turns \cup {n} /\ n \in Nat /\ \A i \in Turns : i \in Nat /\ i < n
      BY <1>0, <2>2, <2>3 DEF LogGrows, Rows
    <3> HIDE DEF n
    <3>2. \A j \in Turns' : j =< n
      BY <3>1
    <3>3. \A i \in Turns : ~(n =< i)
      BY <3>1
    <3> QED
      BY <3>1, <3>2, <3>3 DEF n
  <2>5. (\E i \in Turns' : audit'[i].kind = "freeze" /\ \A j \in Turns' : j =< i) <=> kind = "freeze"
    BY <2>2, <2>4
  <2> QED
    BY <2>1, <2>5 DEF LastTurn
<1>3. ASSUME closed' = closed, Turns' = Turns PROVE LastTurn'
  BY <1>1, <1>3 DEF LastTurn
<1>4. Turns' = Turns \/ \E v \in Visits : ChangeFreeze(v)
  <2>1. Done(K)' = Done(K) \/ DoneBy(K)
    BY DoneOnlyBy
  <2> QED
    BY <1>0, <2>1 DEF DoneBy
<1> QED
  BY <1>2, <1>3, <1>4, EffectsOnlyBy

\* What is done with its row is announced with it, and nothing else is but a reprocessing.
LEMMA AnnouncedKept ==
    ASSUME ConsoleTypes, VisitsHeard, AnnouncedRows, ConsoleNext
    PROVE  AnnouncedRows'
<1> DEFINE All == Together \cup {"reprocess"}
<1>0. LogGrows /\ All' = All /\ Together' = Together
  BY LogGrown DEF Together
<1>1. Done(Together) \subseteq announced /\ announced \subseteq Done(All) /\ Done(All) \subseteq Done(All)'
  BY <1>0, DoneStays DEF AnnouncedRows
<1>2. ASSUME LogKept PROVE AnnouncedRows'
  BY <1>2 DEF AnnouncedRows, LogKept, logVars, Done, Rows
<1>3. ASSUME NEW kind \in All, NEW target, NEW outcome, Adds(kind, target, outcome),
             announced' = IF outcome = "done" THEN announced \cup {Len(audit) + 1} ELSE announced
      PROVE  AnnouncedRows'
  <2>1. CASE outcome # "done"
    <3>1. Done(All)' = Done(All) /\ Done(Together)' = Done(Together)
      BY <1>3, <2>1 DEF Adds
    <3> QED
      BY <1>1, <1>3, <2>1, <3>1 DEF AnnouncedRows
  <2>2. CASE outcome = "done"
    <3>1. Done(All)' = Done(All) \cup {Len(audit) + 1}
      BY <1>3, <2>2 DEF Adds
    <3>2. Done(Together)' = Done(Together) \/ Done(Together)' = Done(Together) \cup {Len(audit) + 1}
      BY <1>3, <2>2 DEF Adds
    <3> QED
      BY <1>1, <1>3, <2>2, <3>1, <3>2 DEF AnnouncedRows
  <2> QED
    BY <2>1, <2>2
<1>4. ASSUME NEW kind, NEW target, Adds(kind, target, "refused"), announced' = announced
      PROVE  AnnouncedRows'
  <2>1. Done(All)' = Done(All) /\ Done(Together)' = Done(Together)
    BY <1>4 DEF Adds
  <2> QED
    BY <1>1, <1>4, <2>1 DEF AnnouncedRows
<1>5. ASSUME RecordsNow PROVE AnnouncedRows'
  <2>1. PICK p \in Staff, kind \in Kinds \cup {"sign_in", "session_use", "csrf"}, outcome \in {"done", "refused"},
             session \in Nat \cup {Nothing} :
          RecordNow(p, kind, outcome, session) /\ (outcome = "done" => kind = "sign_in")
    BY <1>5 DEF RecordsNow
  <2>2. /\ Adds(kind, Nothing, outcome)
        /\ announced' = IF outcome = "done" THEN announced \cup {Len(audit) + 1} ELSE announced
    BY <2>1, RecordNowAdds
  <2>3. "sign_in" \in All
    BY DEF Together
  <2> QED
    BY <1>3, <1>4, <2>1, <2>2, <2>3
<1>6. ASSUME RecordsWork PROVE AnnouncedRows'
  <2>1. PICK v \in Visits, outcome \in {"done", "refused"} : visit[v].stage \in Stages /\ RecordWork(v, outcome)
    BY <1>6 DEF RecordsWork
  <2>2. /\ Adds(visit[v].work[1], visit[v].work[2], outcome)
        /\ announced' = IF outcome = "done" THEN announced \cup {Len(audit) + 1} ELSE announced
    BY <2>1, RecordWorkAdds
  <2>3. visit[v].work[1] \in All
    BY <2>1, VisitTyped DEF Kinds, Together
  <2> QED
    BY <1>3, <2>2, <2>3
<1>7. ASSUME NEW v \in Visits, RecordReprocess(v) PROVE AnnouncedRows'
  <2>1. Adds("reprocess", visit[v].work[2], "done") /\ announced' = announced
    BY <1>7, RecordReprocessAdds
  <2>2. "reprocess" \notin Together
    BY DEF Together
  <2>3. Done(Together)' = Done(Together)
    BY <2>1, <2>2 DEF Adds
  <2> QED
    BY <1>1, <2>1, <2>3 DEF AnnouncedRows
<1>8. ASSUME NEW v \in Visits, AnnounceReprocess(v) PROVE AnnouncedRows'
  <2>1. visit[v].stage = "recorded" /\ announced' = announced \cup {visit[v].seen} /\ audit' = audit
    BY <1>8 DEF AnnounceReprocess, At
  <2>2. visit[v].seen \in Done(All)
    BY <2>1 DEF VisitsHeard, Done
  <2>3. Done(All)' = Done(All) /\ Done(Together)' = Done(Together)
    BY <2>1 DEF Done, Rows
  <2> QED
    BY <1>1, <2>1, <2>2, <2>3 DEF AnnouncedRows
<1> QED
  BY <1>2, <1>5, <1>6, <1>7, <1>8, LogSteps DEF LogStep

\* The done rows are finitely many.
LEMMA DoneFinite ==
    ASSUME ConsoleTypes, NEW K
    PROVE  IsFiniteSet(Done(K)) /\ Cardinality(Done(K)) \in Nat
<1>1. Len(audit) \in Nat
  BY DEF ConsoleTypes, ConsoleTypeOK
<1>2. IsFiniteSet(Rows)
  BY <1>1, FS_Interval DEF Rows
<1>3. Done(K) \subseteq Rows
  BY DEF Done
<1> QED
  BY <1>2, <1>3, FS_Subset, FS_CardinalityType

\* Which requests owe a row changes by reprocessing, its row and a restart alone.
LEMMA OwingSteps ==
    ASSUME ConsoleTypes, ConsoleNext
    PROVE  \/ Owing' = Owing \/ Owing' = {}
           \/ \E v \in Visits : Reprocess(v) \/ RecordReprocess(v)
<1>0. DOMAIN visit = Visits
  BY DEF ConsoleTypes
<1>1. ASSUME NEW v \in Visits, Leave(v), visit[v].stage # "effective" PROVE Owing' = Owing
  <2>1. \A u \in Visits : visit'[u] = IF u = v THEN Idle ELSE visit[u]
    BY <1>0, <1>1 DEF Leave
  <2>2. Idle.stage # "effective"
    BY DEF Idle
  <2> QED
    BY <1>1, <2>1, <2>2 DEF Owing
<1>2. ASSUME visit' = visit PROVE Owing' = Owing
  BY <1>2 DEF Owing
<1>3. ASSUME NEW p \in Staff,
             \/ Login(p) \/ Evict(p) \/ OpenPage(p) \/ StaleForm(p) \/ ChangeRole(p)
             \/ \E state \in 1..MaxLogins : SignIn(p, state) \/ SignInRefused(p, state) \/ SignInFails(p, state)
      PROVE  visit' = visit
  BY <1>3 DEF Login, Evict, OpenPage, StaleForm, ChangeRole, SignIn, SignInRefused, SignInFails, TakeFlow
<1>4. ASSUME NEW p \in Staff, NEW v \in Visits, NEW work \in Work, Submit(v, p, work) PROVE Owing' = Owing
  <2> DEFINE e == [stage |-> "heard", session |-> cookie[p], work |-> work, heard |-> hour, seen |-> Len(audit)]
  <2>1. visit[v] = Idle /\ visit' = [visit EXCEPT ![v] = e]
    BY <1>4 DEF Submit
  <2>2. visit[v].stage # "effective" /\ e.stage # "effective"
    BY <2>1 DEF Idle
  <2> HIDE DEF e
  <2>3. \A u \in Visits : visit'[u] = IF u = v THEN e ELSE visit[u]
    BY <1>0, <2>1
  <2> QED
    BY <2>2, <2>3 DEF Owing
<1>5. ASSUME NEW v \in Visits,
             \/ Decide(v) \/ DecideAgain(v) \/ DecideRefused(v) \/ ChangeFreeze(v) \/ Reconcile(v) \/ SignOut(v)
             \/ AnnounceReprocess(v)
      PROVE  Leave(v) /\ visit[v].stage # "effective"
  BY <1>5 DEF Decide, DecideAgain, DecideRefused, ChangeFreeze, Reconcile, SignOut, AnnounceReprocess, At
<1>6. ASSUME NEW v \in Visits, CheckFreeze(v) PROVE Owing' = Owing
  <2>1. visit[v].stage = "heard" /\ (Leave(v) \/ MoveTo(v, "checked"))
    BY <1>6 DEF CheckFreeze, At
  <2>2. CASE Leave(v)
    BY <1>1, <2>1, <2>2
  <2>3. CASE MoveTo(v, "checked")
    <3>1. visit[v].stage \in Stages
      BY <2>1 DEF Stages
    <3>2. visit[v] \in [stage : Stages, session : Sessions, work : Work, heard : 0..LastHour, seen : 0..MaxAudit]
      BY <3>1, VisitTyped
    <3>3. \A u \in Visits : visit'[u] = IF u = v THEN [visit[v] EXCEPT !.stage = "checked"] ELSE visit[u]
      BY <1>0, <2>3 DEF MoveTo
    <3>4. [visit[v] EXCEPT !.stage = "checked"].stage = "checked"
      BY <3>2
    <3> QED
      BY <2>1, <3>3, <3>4 DEF Owing
  <2> QED
    BY <2>1, <2>2, <2>3
<1>7. ASSUME Pass PROVE visit' = visit
  BY <1>7 DEF Pass
<1>8. ASSUME NEW list \in SUBSET Staff, Reboot(list) PROVE Owing' = {}
  <2>1. \A u \in Visits : visit'[u] = Idle
    BY <1>8 DEF Reboot
  <2> QED
    BY <2>1 DEF Owing, Idle
<1> QED
  BY <1>1, <1>2, <1>3, <1>4, <1>5, <1>6, <1>7, <1>8 DEF ConsoleNext

\* Rows of reprocessings, written and owed, stay within the reprocessings.
LEMMA ReprocessRowsKept ==
    ASSUME ConsoleTypes, ReprocessRows, ConsoleNext, ConsoleTypes'
    PROVE  ReprocessRows'
<1> DEFINE K == {"reprocess"}
<1>0. /\ IsFiniteSet(Owing) /\ Cardinality(Owing) \in Nat
      /\ Cardinality(Done(K)) \in Nat /\ reprocessed \in Nat
      /\ Cardinality(Done(K)) + Cardinality(Owing) =< reprocessed
  BY DoneFinite, FS_CardinalityType DEF ReprocessRows, ConsoleTypes, ConsoleTypeOK
<1>1. DOMAIN visit = Visits
  BY DEF ConsoleTypes
<1>2. ASSUME NEW v \in Visits, Reprocess(v) PROVE ReprocessRows'
  <2>1. Done(K)' = Done(K)
    <3>1. audit' = audit \/ RecordWork(v, "refused")
      BY <1>2 DEF Reprocess, logVars
    <3>2. ASSUME audit' = audit PROVE Done(K)' = Done(K)
      BY <3>2 DEF Done, Rows
    <3>3. ASSUME RecordWork(v, "refused") PROVE Done(K)' = Done(K)
      BY <3>3, RecordWorkAdds DEF Adds
    <3> QED
      BY <3>1, <3>2, <3>3
  <2>2. visit[v].stage = "heard"
    BY <1>2 DEF Reprocess, At
  <2>3. CASE Leave(v) /\ reprocessed' = reprocessed
    <3>1. \A u \in Visits : visit'[u] = IF u = v THEN Idle ELSE visit[u]
      BY <1>1, <2>3 DEF Leave
    <3>2. Owing' = Owing
      BY <2>2, <3>1 DEF Owing, Idle
    <3> QED
      BY <1>0, <2>1, <2>3, <3>2 DEF ReprocessRows
  <2>4. CASE MoveTo(v, "effective") /\ reprocessed' = reprocessed + 1
    <3>1. visit[v].stage \in Stages
      BY <2>2 DEF Stages
    <3>2. visit[v] \in [stage : Stages, session : Sessions, work : Work, heard : 0..LastHour, seen : 0..MaxAudit]
      BY <3>1, VisitTyped
    <3>3. \A u \in Visits : visit'[u] = IF u = v THEN [visit[v] EXCEPT !.stage = "effective"] ELSE visit[u]
      BY <1>1, <2>4 DEF MoveTo
    <3>4. [visit[v] EXCEPT !.stage = "effective"].stage = "effective"
      BY <3>2
    <3>5. Owing' = Owing \cup {v} /\ v \notin Owing
      BY <2>2, <3>3, <3>4 DEF Owing
    <3>6. IsFiniteSet(Owing') /\ Cardinality(Owing') = Cardinality(Owing) + 1
      BY <1>0, <3>5, FS_AddElement
    <3> QED
      BY <1>0, <2>1, <2>4, <3>6 DEF ReprocessRows
  <2> QED
    BY <1>2, <2>3, <2>4 DEF Reprocess
<1>3. ASSUME NEW v \in Visits, RecordReprocess(v) PROVE ReprocessRows'
  <2>1. /\ visit[v].stage = "effective" /\ reprocessed' = reprocessed
        /\ visit' = [visit EXCEPT ![v] = [visit[v] EXCEPT !.stage = "recorded", !.seen = Len(audit) + 1]]
    BY <1>3 DEF RecordReprocess, At, effectVars
  <2>2. visit[v].stage \in Stages
    BY <2>1 DEF Stages
  <2>3. visit[v] \in [stage : Stages, session : Sessions, work : Work, heard : 0..LastHour, seen : 0..MaxAudit]
    BY <2>2, VisitTyped
  <2>4. visit'[v].stage = "recorded" /\ \A u \in Visits \ {v} : visit'[u] = visit[u]
    BY <1>1, <2>1, <2>3
  <2>5. Owing' = Owing \ {v} /\ v \in Owing
    BY <2>1, <2>4 DEF Owing
  <2>6. IsFiniteSet(Owing') /\ Cardinality(Owing') = Cardinality(Owing) - 1
    BY <1>0, <2>5, FS_RemoveElement
  <2>7. Done(K)' = Done(K) \cup {Len(audit) + 1} /\ Len(audit) + 1 \notin Done(K)
    BY <1>3, RecordReprocessAdds DEF Adds, Done
  <2>8. Cardinality(Done(K)') = Cardinality(Done(K)) + 1
    BY <2>7, DoneFinite, FS_AddElement
  <2> QED
    BY <1>0, <2>1, <2>6, <2>8 DEF ReprocessRows
<1>4. ASSUME Done(K)' = Done(K), reprocessed' = reprocessed, Owing' = Owing \/ Owing' = {} PROVE ReprocessRows'
  <2>1. IsFiniteSet(Owing') /\ Cardinality(Owing') =< Cardinality(Owing)
    BY <1>0, <1>4, FS_EmptySet
  <2>2. Cardinality(Owing') \in Nat
    BY <2>1, FS_CardinalityType
  <2> QED
    BY <1>0, <1>4, <2>1, <2>2 DEF ReprocessRows
<1>5. Done(K)' = Done(K) \/ \E v \in Visits : RecordReprocess(v)
  <2>1. Done(K)' = Done(K) \/ DoneBy(K)
    BY DoneOnlyBy
  <2> QED
    BY <2>1 DEF DoneBy
<1> QED
  BY <1>2, <1>3, <1>4, <1>5, OwingSteps, EffectsOnlyBy

----------------------------------------------------------------------------
(* The theorem.                                                            *)

\* The console starts with nobody signed in and nothing done.
LEMMA ConsoleInitInv == ConsoleInit => ConsoleIInv
<1> SUFFICES ASSUME ConsoleInit PROVE ConsoleIInv
  OBVIOUS
<1> USE StaffConsoleAssumption
<1>1. sessions = <<>> /\ audit = <<>> /\ Sessions = {} /\ Rows = {}
  BY DEF ConsoleInit, Sessions, Rows
<1>2. \A K : Done(K) = {}
  BY <1>1 DEF Done
<1>3. visit \in [Visits -> Visit \cup {Idle}] /\ \A v \in Visits : visit[v] = Idle
  BY DEF ConsoleInit
<1>4. ConsoleTypeOK
  <2>1. {LastHour, MaxLogins, MaxAudit, MaxBoots} \subseteq Nat
    OBVIOUS
  <2>2. SignInTyped
    BY <2>1 DEF ConsoleInit, SignInTyped
  <2>3. SessionsTyped
    BY <1>1 DEF ConsoleInit, SessionsTyped
  <2>4. EffectsTyped
    BY DEF ConsoleInit, EffectsTyped
  <2>5. LogTyped
    BY <1>1, <2>1 DEF ConsoleInit, LogTyped
  <2>6. VisitsTyped
    BY <1>3 DEF VisitsTyped
  <2> QED
    BY <2>2, <2>3, <2>4, <2>5, <2>6, TypesParts DEF ConsoleTypes
<1>5. Idle.stage = "idle"
  BY DEF Idle
<1>6. StaffInv
  BY <1>1, <1>2, <1>3, <1>5 DEF StaffInv, SessionsOpened, CookiesOwn, EndedRevoked, VisitsHeard, SeenBefore, StaffOnly,
                                 Unrecorded, ConsoleInit
<1>7. Owing = {}
  BY <1>3, <1>5 DEF Owing
<1>8. ReprocessRows
  <2>1. Done({"reprocess"}) = {} /\ reprocessed = 0
    BY <1>2 DEF ConsoleInit
  <2>2. IsFiniteSet({}) /\ Cardinality({}) = 0
    BY FS_EmptySet
  <2> QED
    BY <1>7, <2>1, <2>2 DEF ReprocessRows
<1>9. (\A x \in Payouts : DecidedBy(x)) /\ LastTurn /\ AnnouncedRows
  BY <1>2 DEF DecidedBy, Deciding, LastTurn, Turns, AnnouncedRows, ConsoleInit
<1> QED
  BY <1>3, <1>4, <1>6, <1>8, <1>9 DEF ConsoleIInv, ConsoleTypes, LogInv

\* The invariant is the one the runs check, and more.
LEMMA ConsoleInvHolds == ConsoleIInv => ConsoleInv
<1> SUFFICES ASSUME ConsoleIInv PROVE ConsoleInv
  OBVIOUS
<1>1. ConsoleTypes /\ StaffInv /\ LogInv
  BY DEF ConsoleIInv
<1>2. ASSUME NEW x \in Payouts
      PROVE  \/ payout[x] = "requested" /\ Deciding(x) = {}
             \/ Cardinality(Deciding(x)) = 1 /\ \A i \in Deciding(x) : payout[x] = Status(audit[i].kind)
  <2>1. CASE payout[x] = "requested" /\ Deciding(x) = {}
    BY <2>1
  <2>2. ASSUME NEW i \in Deciding(x), Deciding(x) = {i}, payout[x] = Status(audit[i].kind)
        PROVE  Cardinality(Deciding(x)) = 1 /\ \A j \in Deciding(x) : payout[x] = Status(audit[j].kind)
    BY <2>2, FS_Singleton
  <2> QED
    BY <1>1, <2>1, <2>2 DEF LogInv, DecidedBy
<1>3. Cardinality(Done({"reprocess"})) =< reprocessed
  <2>1. /\ Cardinality(Done({"reprocess"})) \in Nat /\ Cardinality(Owing) \in Nat /\ reprocessed \in Nat
        /\ Cardinality(Done({"reprocess"})) + Cardinality(Owing) =< reprocessed
    BY <1>1, DoneFinite, FS_CardinalityType DEF LogInv, ReprocessRows, ConsoleTypes, ConsoleTypeOK
  <2> QED
    BY <2>1
<1>4. Audited
  <2>1. LastTurn /\ AnnouncedRows
    BY <1>1 DEF LogInv
  <2> QED
    BY <1>2, <1>3, <2>1, Zenon DEF Audited, Deciding, LastTurn, Turns, AnnouncedRows
<1> QED
  BY <1>1, <1>4 DEF ConsoleInv, ConsoleTypes, StaffInv

\* Whatever staff did was asked for by somebody listed, in a session of theirs nothing
\* had ended, and the log tells the state of payouts, freeze and events: for any staff,
\* payouts, forms and requests in flight (console/index.js, session.js, audit.js).
THEOREM StaffAccountable == ConsoleSpec => []ConsoleInv
<1>1. ConsoleIInv /\ [ConsoleNext]_consoleVars => ConsoleIInv'
  <2> SUFFICES ASSUME ConsoleIInv, [ConsoleNext]_consoleVars PROVE ConsoleIInv'
    OBVIOUS
  <2>1. ConsoleTypes /\ StaffInv /\ LogInv
    BY DEF ConsoleIInv
  <2>2. CASE ConsoleNext
    <3>1. ConsoleTypes'
      BY <2>1, <2>2, ConsoleTypesKept DEF StaffInv
    <3>2. StaffInv'
      BY <2>1, <2>2, StaffInvKept
    <3>3. /\ \A x \in Payouts : DecidedBy(x)'
          /\ LastTurn' /\ AnnouncedRows' /\ ReprocessRows'
      BY <2>1, <2>2, <3>1, DecidedKept, LastTurnKept, AnnouncedKept, ReprocessRowsKept DEF LogInv, StaffInv
    <3> QED
      BY <3>1, <3>2, <3>3 DEF ConsoleIInv, LogInv
  <2>3. CASE UNCHANGED consoleVars
    <3>1. /\ UNCHANGED <<listed, admins, hour, logins, flow, returning, cookie, sessions, page, visit>>
          /\ UNCHANGED <<closed, payout, reprocessed, audit, announced, boots>>
      BY <2>3 DEF consoleVars, signInVars, sessionVars, effectVars, logVars
    <3>2. Sessions' = Sessions /\ Rows' = Rows /\ \A K : Done(K)' = Done(K)
      BY <3>1 DEF Sessions, Rows, Done
    <3>3. ConsoleTypes'
      BY <2>1, <3>1, <3>2 DEF ConsoleTypes, ConsoleTypeOK
    <3>4. StaffInv'
      BY <2>1, <3>1, <3>2 DEF StaffInv, SessionsOpened, CookiesOwn, EndedRevoked, VisitsHeard, HeardInTime, SeenBefore,
                              StaffOnly, Ends
    <3>5. LogInv'
      <4>1. /\ Done({"approve", "deny"})' = Done({"approve", "deny"}) /\ Turns' = Turns /\ Owing' = Owing
            /\ Done(Together)' = Done(Together) /\ Done({"reprocess"})' = Done({"reprocess"})
            /\ Done(Together \cup {"reprocess"})' = Done(Together \cup {"reprocess"})
        BY <3>1, <3>2 DEF Turns, Owing, Together, Done
      <4>2. \A x \in Payouts : DecidedBy(x)'
        BY <2>1, <3>1, <4>1 DEF LogInv, DecidedBy, Deciding, Status
      <4>3. LastTurn' /\ AnnouncedRows' /\ ReprocessRows'
        BY <2>1, <3>1, <4>1 DEF LogInv, LastTurn, AnnouncedRows, ReprocessRows
      <4> QED
        BY <4>2, <4>3 DEF LogInv
    <3> QED
      BY <3>3, <3>4, <3>5 DEF ConsoleIInv
  <2> QED
    BY <2>2, <2>3
<1> QED
  BY <1>1, ConsoleInitInv, ConsoleInvHolds, PTL DEF ConsoleSpec

=============================================================================
