-------------------------- MODULE MCSubscriptions --------------------------
(***************************************************************************)
(* Instances of Subscriptions for TLC: one member of one creator, who pays *)
(* two prices from credit and by receipts of two providers.                *)
(***************************************************************************)
EXTENDS Subscriptions, TLC

CONSTANTS fan, star, stripe1, paypal1

NoChanges == {}
Archiving == {<<star, 1, 2, "archived">>}
OnePair == {<<fan, star>>}
MCSays ==
    [r \in Receipts |->
        IF r = stripe1
        THEN [pair |-> <<fan, star>>, provider |-> "stripe", direct |-> FALSE, paid |-> 3, fee |-> 1,
              tier |-> 1, price |-> 0, end |-> 0]
        ELSE [pair |-> <<fan, star>>, provider |-> "paypal", direct |-> TRUE, paid |-> 4, fee |-> 0,
              tier |-> 2, price |-> 2, end |-> 0]]

OneTierPrice == {[min |-> 0, price |-> 125]}
SweepSymmetry == Permutations(Sweeps)

=============================================================================
