----------------------------- MODULE MCBalance -----------------------------
(***************************************************************************)
(* Instances of Balance for TLC.  A cent is a few nano-USD, so that the    *)
(* shares of partial refunds still need rounding.                          *)
(***************************************************************************)
EXTENDS Balance, TLC

CONSTANTS ann, prj

OneTier == {[min |-> 0, price |-> 125]}

\* What happens, constant through a behaviour: two holds (the second of real money)
\* and spending, nothing reversed; or top-ups and their refunds around one hold.
VARIABLE scope

CONSTANTS r1, r2, h1, h2

Holding ==
    /\ Next
    /\ holds[h1] = NoRow => holds'[h2] = NoRow
    /\ holds'[h2] # NoRow => holds'[h2].account[1] = "usd_credit"
    /\ topups'[r2] = NoRow
    /\ \A r \in Receipts : topups'[r] # NoRow => topups'[r].paid = 3 /\ topups'[r].refunded = 0

Refunding ==
    /\ \/ TopupNext \/ ReversalNext \/ HoldNext \/ SweepNext \/ Tick
       \/ \E u \in People, p \in Projects, n \in Amounts : Transfer(u, p, n)
    /\ holds'[h2] = NoRow
    /\ topups[r1] = NoRow => topups'[r2] = NoRow

MCInit == Init /\ scope \in {"holds", "refunds"}
MCNext ==
    /\ \/ scope = "holds" /\ Holding
       \/ scope = "refunds" /\ Refunding
    /\ UNCHANGED scope
MCSpec == MCInit /\ [][MCNext]_<<vars, scope>>
FairMCSpec == MCSpec /\ Fairness

=============================================================================
