--------------------------- MODULE CashoutPromise ---------------------------
(***************************************************************************)
(* What a creator may rely on when asking for a cashout: it is asked for   *)
(* once, then decided once; only paying it makes money leave, through one  *)
(* payout provider, and exactly what the cashout was worth when it was     *)
(* requested.  VibesLedger is shown to implement it.                       *)
(***************************************************************************)
EXTENDS Integers

CONSTANTS Cashouts, Providers

VARIABLES
    phase,    \* "none", "requested", "paid" or "denied"
    worth,    \* cents promised
    paidOut   \* cents that left through each payout provider

Init ==
    /\ phase = [c \in Cashouts |-> "none"]
    /\ worth = [c \in Cashouts |-> 0]
    /\ paidOut = [p \in Providers |-> 0]

Request(c) ==
    /\ phase[c] = "none"
    /\ phase' = [phase EXCEPT ![c] = "requested"]
    /\ worth'[c] \in Nat
    /\ worth' = [worth EXCEPT ![c] = worth'[c]]
    /\ UNCHANGED paidOut

Pay(c, p) ==
    /\ phase[c] = "requested"
    /\ phase' = [phase EXCEPT ![c] = "paid"]
    /\ paidOut' = [paidOut EXCEPT ![p] = @ + worth[c]]
    /\ UNCHANGED worth

Deny(c) ==
    /\ phase[c] = "requested"
    /\ phase' = [phase EXCEPT ![c] = "denied"]
    /\ UNCHANGED <<worth, paidOut>>

Next ==
    \E c \in Cashouts :
        \/ Request(c)
        \/ \E p \in Providers : Pay(c, p)
        \/ Deny(c)

promiseVars == <<phase, worth, paidOut>>

Spec == Init /\ [][Next]_promiseVars

=============================================================================
