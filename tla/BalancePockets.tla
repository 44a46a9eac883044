--------------------------- MODULE BalancePockets ---------------------------
(***************************************************************************)
(* What a service that holds money on a Balance may rely on.  Every pot's  *)
(* money is free or reserved by exactly one open hold; nobody but the hold *)
(* touches what it reserved; a hold ends once, charged out of its own      *)
(* reserve and what is free beside it, usage left unpaid only when neither *)
(* has anything left, or wholly given back.  Only a payment the provider   *)
(* takes back may leave a pot with less than its holds reserved.           *)
(* Balance is shown to implement it.                                       *)
(***************************************************************************)
EXTENDS Integers

CONSTANTS Pots, Holds, None

VARIABLES
    free,      \* pot -> money nobody reserved; below zero, reserved and no longer there
    reclaimed, \* pot -> money taken back from it by providers
    pot,       \* hold -> the pot it draws on
    reserved,  \* hold -> money set aside for it
    phase,     \* hold -> "none", "active", "settled", "released" or "expired"
    charged,   \* hold -> what it was charged in the end
    unpaid     \* hold -> usage it was not charged for

vars == <<free, reclaimed, pot, reserved, phase, charged, unpaid>>
hold == <<pot, reserved, phase, charged, unpaid>>

Init ==
    /\ free = [p \in Pots |-> 0]
    /\ reclaimed = [p \in Pots |-> 0]
    /\ pot = [h \in Holds |-> None]
    /\ reserved = [h \in Holds |-> 0]
    /\ phase = [h \in Holds |-> "none"]
    /\ charged = [h \in Holds |-> 0]
    /\ unpaid = [h \in Holds |-> 0]

\* Only the free money of p changes, to n.
Free(p, n) == free' = [free EXCEPT ![p] = n]

Deposit(p) ==
    /\ Free(p, free'[p]) /\ free'[p] >= free[p]
    /\ UNCHANGED <<reclaimed, hold>>

Spend(p) ==
    /\ Free(p, free'[p]) /\ free'[p] =< free[p] /\ free'[p] >= 0
    /\ UNCHANGED <<reclaimed, hold>>

Move(p, q) ==
    /\ p # q
    /\ free' = [free EXCEPT ![p] = free'[p], ![q] = free'[q]]
    /\ free'[p] =< free[p] /\ free'[p] >= 0
    /\ free'[p] + free'[q] = free[p] + free[q]
    /\ UNCHANGED <<reclaimed, hold>>

\* A provider takes a payment back, reserved or not.
Reclaim(p) ==
    /\ Free(p, free'[p]) /\ free'[p] =< free[p]
    /\ reclaimed' = [reclaimed EXCEPT ![p] = @ + free[p] - free'[p]]
    /\ UNCHANGED hold

Reserve(h, p) ==
    /\ phase[h] = "none"
    /\ Free(p, free'[p]) /\ free'[p] >= 0
    /\ pot' = [pot EXCEPT ![h] = p]
    /\ reserved' = [reserved EXCEPT ![h] = free[p] - free'[p]] /\ reserved'[h] >= 0
    /\ phase' = [phase EXCEPT ![h] = "active"]
    /\ UNCHANGED <<reclaimed, charged, unpaid>>

Grow(h) ==
    /\ phase[h] = "active"
    /\ Free(pot[h], free'[pot[h]]) /\ free'[pot[h]] >= 0
    /\ reserved' = [reserved EXCEPT ![h] = @ + free[pot[h]] - free'[pot[h]]] /\ reserved'[h] >= reserved[h]
    /\ UNCHANGED <<reclaimed, pot, phase, charged, unpaid>>

\* Beyond its reserve a hold is charged from free money; usage stays unpaid only
\* when none is left.
Charge(h) ==
    /\ phase[h] = "active"
    /\ LET p == pot[h]
       IN  /\ Free(p, free'[p])
           /\ free'[p] >= free[p] \/ free'[p] >= 0
           /\ charged' = [charged EXCEPT ![h] = free[p] + reserved[h] - free'[p]] /\ charged'[h] >= 0
           /\ unpaid' = [unpaid EXCEPT ![h] = unpaid'[h]]
           /\ unpaid'[h] > 0 => free'[p] = 0
    /\ phase' = [phase EXCEPT ![h] = "settled"]
    /\ reserved' = [reserved EXCEPT ![h] = 0]
    /\ UNCHANGED <<reclaimed, pot>>

GiveBack(h) ==
    /\ phase[h] = "active"
    /\ Free(pot[h], free[pot[h]] + reserved[h])
    /\ \E end \in {"released", "expired"} : phase' = [phase EXCEPT ![h] = end]
    /\ reserved' = [reserved EXCEPT ![h] = 0]
    /\ UNCHANGED <<reclaimed, pot, charged, unpaid>>

Next ==
    \/ \E p \in Pots : Deposit(p) \/ Spend(p) \/ Reclaim(p) \/ \E q \in Pots : Move(p, q)
    \/ \E h \in Holds :
         \/ \E p \in Pots : Reserve(h, p)
         \/ Grow(h)
         \/ Charge(h)
         \/ GiveBack(h)

Spec == Init /\ [][Next]_vars

=============================================================================
