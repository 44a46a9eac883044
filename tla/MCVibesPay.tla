----------------------------- MODULE MCVibesPay -----------------------------
(***************************************************************************)
(* Instances of VibesPay for TLC.  `scope' stays what it is at the start   *)
(* of a behaviour.  In "sales" two apps ask real Vibes, one of them of two *)
(* people; in "trials" one person pays real and test Vibes around a freeze;*)
(* in "delivery" one charge is paid and given back while passes overlap,   *)
(* fail and restart.                                                       *)
(***************************************************************************)
EXTENDS VibesPay, TLC

CONSTANTS Scopes, neon, pixel, lab, ann, bob, sticker, badge, trial

VARIABLE scope

MCAsks ==
    [c \in Charges |->
        CASE c = sticker -> [app |-> neon, amount |-> 2, sandbox |-> FALSE]
          [] c = badge -> [app |-> pixel, amount |-> 2, sandbox |-> FALSE]
          [] c = trial -> [app |-> lab, amount |-> 2, sandbox |-> TRUE]]
MCGrants == {<<lab, ann, 2>>}
TwoRows == 1..2

MCInit == Init /\ scope \in Scopes

Concerns(cs, ps) == \A call \in calls' : call.charge \in cs /\ call.person \in ps \cup {None}

\* One charge takes its way, and nothing else is asked.
OneSale ==
    /\ PayNext
    /\ ~frozen' /\ clock' = 0 /\ balance'[Issuer] = 0
    /\ calls' \subseteq
         CASE charge[sticker].status = "none" -> {[does |-> "create", charge |-> sticker, person |-> None]}
           [] charge[sticker].status = "pending" -> {[does |-> "pay", charge |-> sticker, person |-> ann]}
           [] OTHER -> {[does |-> "refund", charge |-> sticker, person |-> None]}

MCNext ==
    /\ CASE scope = "sales" -> PayNext /\ Concerns({sticker, badge}, Persons) /\ ~frozen'
                                /\ balance'[Issuer] = 0
                                /\ \A call \in calls' : call.charge = badge => call.person # bob
         [] scope = "trials" -> PayNext /\ Concerns({sticker, trial}, {ann})
                                 /\ Cardinality(calls') =< 1
         [] scope = "delivery" -> OneSale \/ (Deliver /\ {pixel, lab} \subseteq hooked')
    /\ UNCHANGED scope

MCSpec == MCInit /\ [][MCNext]_<<vars, scope>> /\ DeliveryFairness

=============================================================================
