--------------------------- MODULE ChargePromise ---------------------------
(***************************************************************************)
(* What Vibes Pay promises of a charge (docs/vibes-pay.md): it is paid at  *)
(* most once, by one person, whole; then it may be given back, whole and   *)
(* once, to that person; or it is closed unpaid.  The Vibes are in the     *)
(* purse of the person or in the till of the app, never in both, and the   *)
(* app is told of each of the two movements once, in the order they were   *)
(* made.                                                                   *)
(***************************************************************************)
EXTENDS Integers, Sequences

CONSTANTS
    Charges, Persons, Purses, Tills,
    Price,       \* charge -> Vibes
    PurseOf,     \* <<charge, person>> -> the purse the person pays it from
    TillOf       \* charge -> where its payment lands

VARIABLES
    phase, payer, purse, till,
    told    \* what apps are told: <<charge, movement>>, one after the other

promiseVars == <<phase, payer, purse, till, told>>

Nobody == "nobody"

PromiseInit ==
    /\ phase = [c \in Charges |-> "none"]
    /\ payer = [c \in Charges |-> Nobody]
    /\ purse \in [Purses -> Nat]
    /\ till = [t \in Tills |-> 0]
    /\ told = <<>>

Ask(c) ==
    /\ phase[c] = "none"
    /\ phase' = [phase EXCEPT ![c] = "open"]
    /\ UNCHANGED <<payer, purse, till, told>>

Settle(c, p) ==
    LET from == PurseOf[<<c, p>>]
    IN  /\ phase[c] = "open" /\ purse[from] >= Price[c]
        /\ phase' = [phase EXCEPT ![c] = "paid"]
        /\ payer' = [payer EXCEPT ![c] = p]
        /\ purse' = [purse EXCEPT ![from] = @ - Price[c]]
        /\ till' = [till EXCEPT ![TillOf[c]] = @ + Price[c]]
        /\ told' = Append(told, <<c, "paid">>)

GiveBack(c) ==
    /\ phase[c] = "paid" /\ till[TillOf[c]] >= Price[c]
    /\ phase' = [phase EXCEPT ![c] = "refunded"]
    /\ purse' = [purse EXCEPT ![PurseOf[<<c, payer[c]>>]] = @ + Price[c]]
    /\ till' = [till EXCEPT ![TillOf[c]] = @ - Price[c]]
    /\ told' = Append(told, <<c, "refunded">>)
    /\ UNCHANGED payer

Close(c) ==
    /\ phase[c] = "open"
    /\ phase' = [phase EXCEPT ![c] = "closed"]
    /\ UNCHANGED <<payer, purse, till, told>>

\* Vibes that come into a purse, or leave a till, without a charge.
Fill ==
    /\ \E b \in Purses : purse' = [purse EXCEPT ![b] = purse'[b]] /\ purse'[b] > purse[b]
    /\ UNCHANGED <<phase, payer, till, told>>

Empty ==
    /\ \E t \in Tills : till' = [till EXCEPT ![t] = till'[t]] /\ till'[t] \in 0..till[t] - 1
    /\ UNCHANGED <<phase, payer, purse, told>>

PromiseNext ==
    \/ \E c \in Charges : Ask(c) \/ Close(c) \/ GiveBack(c) \/ \E p \in Persons : Settle(c, p)
    \/ Fill \/ Empty

Promise == PromiseInit /\ [][PromiseNext]_promiseVars

=============================================================================
