----------------------------- MODULE MCConsole ------------------------------
(***************************************************************************)
(* Two instances of StaffConsole.  In "sign-in" one person signs in, acts  *)
(* and signs out, with two requests at once, while time passes, the        *)
(* Network changes the role, the list changes and answers are lost.  In    *)
(* "work" two people have signed in, after the escrow, and do everything a *)
(* form may ask for.                                                       *)
(***************************************************************************)
EXTENDS StaffConsole

VARIABLE scope

CONSTANTS a, b, v1, v2, x1

Forms == {"freeze", "unfreeze", "reprocess", "reconcile", "sign_out"}
MCWork == ({"approve", "deny"} \X {x1}) \cup (Forms \X {Nothing})
MCEscrow == [x \in Payouts |-> 1]

Asks(kinds) == \A v \in Visits : visit'[v] # Idle => visit'[v].work[1] \in kinds

\* Requests are interchangeable: a new one takes the first free place.
FirstFree == visit[v2] = Idle /\ visit'[v2] # Idle => visit[v1] # Idle

SignInScope ==
    /\ ConsoleNext /\ Asks({"approve", "sign_out"})
    /\ flow'[b] = Nothing /\ b \in listed' /\ b \in admins'

\* Both open their forms before they work; one reprocesses, the other reconciles.
SignedIn == logins = 2 /\ returning = {}
Ready == page = cookie
TheirOwn ==
    \A v \in Visits : visit'[v] # Idle /\ visit'[v].work[1] \in {"reprocess", "reconcile"} =>
        visit'[v].session = (IF visit'[v].work[1] = "reprocess" THEN cookie[a] ELSE cookie[b])
WorkScope ==
    \/ hour = 0 /\ logins = 0 /\ Pass
    \/ hour = 1 /\ logins < 2 /\ returning = {} /\ Login(IF logins = 0 THEN a ELSE b)
    \/ \E p \in Staff : SignIn(p, logins) /\ cookie'[p] # Nothing
    \/ SignedIn /\ ~Ready /\ \E p \in Staff : OpenPage(p)
    \/ /\ SignedIn /\ Ready /\ ConsoleNext
       /\ <<signInVars, sessionVars, listed>>' = <<signInVars, sessionVars, listed>>
       /\ boots' < 2 /\ Asks({work[1] : work \in MCWork} \ {"sign_out"}) /\ TheirOwn

MCInit == ConsoleInit /\ scope \in {"sign-in", "work"}
MCNext ==
    /\ \/ scope = "sign-in" /\ SignInScope
       \/ scope = "work" /\ WorkScope
    /\ FirstFree
    /\ UNCHANGED scope
MCSpec == MCInit /\ [][MCNext]_<<consoleVars, scope>>
=============================================================================
