------------------------------- MODULE MCEdge -------------------------------
(***************************************************************************)
(* Instances of what enters Billing: provider deliveries (ProviderEvents)  *)
(* and calls with a key (ApiRequests).  A behaviour is of one of them, and *)
(* of one set of events: two deliveries of one payment and a whole refund  *)
(* of it; or two deliveries of a tip paid to a streamer's own account, and *)
(* an event nothing can interpret.                                         *)
(***************************************************************************)
EXTENDS ProviderEvents, ApiRequests

VARIABLE scope

CONSTANTS timer, pay, payAgain, refund, refundRest, tip, tipAgain, bad, rPay, rRefund, rRest, rTip, w1, w2,
          gift, approve1, deny1, approve2, x1, x2, k1, k2, k3, k4, s1, s2

Says ==
    [pay        |-> [kind |-> "payment", ref |-> rPay, of |-> rPay, cents |-> 0],
     refund     |-> [kind |-> "reverse", ref |-> rRefund, of |-> rPay, cents |-> 1],
     refundRest |-> [kind |-> "reverse", ref |-> rRest, of |-> rPay, cents |-> 2],
     tip        |-> [kind |-> "external", ref |-> rTip, of |-> rTip, cents |-> 0],
     none       |-> [kind |-> "none", ref |-> rPay, of |-> rPay, cents |-> 0]]

MCPayload ==
    [e \in Events |->
        CASE e \in {pay, payAgain} -> Says.pay
          [] e = refund -> Says.refund
          [] e = refundRest -> Says.refundRest
          [] e \in {tip, tipAgain} -> Says.tip
          [] OTHER -> Says.none]

MCDoes ==
    [r \in Requests |->
        CASE r = approve1 -> [kind |-> "approve", cashout |-> x1]
          [] r = approve2 -> [kind |-> "approve", cashout |-> x2]
          [] r = deny1 -> [kind |-> "deny", cashout |-> x1]
          [] OTHER -> [kind |-> "move", cashout |-> x1]]

\* Every request has a key of its own; approving is tried again with a second one.
OwnKeys == {<<k1, gift>>, <<k2, approve1>>, <<k3, deny1>>, <<k4, approve1>>}
StaffForms == {<<s1, approve1>>, <<s2, deny1>>}

\* Against the rule, one key for two requests.
OneKey == {<<k1, approve1>>, <<k1, approve2>>}
NoForms == {}

----------------------------------------------------------------------------
Payment == {pay, payAgain, refundRest}
Tip == {tip, tipAgain, bad}
Arrived == {e \in Events : rows'[e].stored}

\* The two deliveries of one payment are interchangeable: pay is the one that arrives
\* first.
FirstNamed == (rows'[payAgain].stored => rows'[pay].stored) /\ (rows'[tipAgain].stored => rows'[tip].stored)

\* Handlers are interchangeable: a new one takes the first free place.
FirstFree == job[w2] = Idle /\ job'[w2] # Idle => job'[w1] # Idle

EdgeInit == Init /\ CallsInit /\ scope \in {"payments", "tips", "calls"}
EdgeNext ==
    /\ \/ scope = "payments" /\ Next /\ Arrived \subseteq Payment /\ FirstFree /\ job'[timer] = Idle
          /\ ~mapped' /\ UNCHANGED callVars
       \/ scope = "tips" /\ Next /\ Arrived \subseteq Tip /\ job'[w2] = Idle /\ UNCHANGED callVars
          /\ \A t \in journal' : t.event # None
       \/ scope = "calls" /\ CallsNext /\ UNCHANGED vars
    /\ FirstNamed
    /\ UNCHANGED scope
EdgeSpec == EdgeInit /\ [][EdgeNext]_<<vars, callVars, scope>> /\ Fairness
=============================================================================
