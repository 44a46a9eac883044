---------------------------- MODULE MCVibesLedger ----------------------------
(***************************************************************************)
(* Instances of VibesLedger for TLC.  One bit is worth one cent            *)
(* (BitsPerUsd = 100, the default rate) and sells for 1.25 or 1.50 cents.  *)
(* Requests draw their keys in any order, so keys and provider references  *)
(* are interchangeable.                                                    *)
(***************************************************************************)
EXTENDS VibesLedger, TLC

CONSTANTS u1, u2, pay, p1

TwoTiers == {[min |-> 0, price |-> 150], [min |-> 4, price |-> 125]}
Owner == [p \in Projects |-> u1]
NoOwner == [p \in {} |-> u1]
NothingAdjustable == {}
PeoplesAccounts == {Credit(u1), Payable(u1), Payable(u2), ProjectPayable(p1)}
KeySymmetry == Permutations(Keys)
KeyRefSymmetry == Permutations(Keys) \cup Permutations(Refs)

\* What moves, constant through a behaviour: gifts and their payouts, with payments of
\* 3 cents; or receipts and their reversals, in one transaction less.  Neither adjusts.
VARIABLE scope

GiftNext ==
    \/ /\ \E k \in Keys \ UsedKeys : PurchaseNext(k) \/ TransferNext(k) \/ CashoutNext(k)
       /\ \A t \in txns' \ txns : t.type \in {"purchase", "donation"} => t.cents \in {0, 3}
    \/ Tick

ReceiptNext ==
    \/ \E i \in Intents :
         \/ \E u \in Users, p \in Providers, bits \in BitAmounts : CreateIntent(i, u, p, bits)
         \/ FailIntent(i)
    \/ /\ Cardinality(UsedKeys) < 4
       /\ \E k \in Keys \ UsedKeys : PurchaseNext(k) \/ TransferNext(k) \/ ReversalNext(k)

TrailsInit == Init /\ scope \in {"gifts", "receipts"}
TrailsNext ==
    /\ \/ scope = "gifts" /\ GiftNext
       \/ scope = "receipts" /\ ReceiptNext
    /\ UNCHANGED scope
TrailsSpec == TrailsInit /\ [][TrailsNext]_<<vars, scope>>

\* Everything moves, in a few transactions.
AllInit == Init /\ scope = "all"
AllNext == Next /\ UNCHANGED scope
AllSpec == AllInit /\ [][AllNext]_<<vars, scope>>

=============================================================================
