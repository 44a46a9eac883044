------------------------------- MODULE Rates -------------------------------
(***************************************************************************)
(* The money arithmetic of server/rates.js and the price tiers of          *)
(* server/config.js: pure operators, integer in, integer out.              *)
(*                                                                         *)
(* A tier's usd_per_bit is a decimal; it is kept here as TierPrice         *)
(* hundredths of a cent per bit, so that a price is TierPrice * bits / 100 *)
(* cents before rounding.                                                  *)
(***************************************************************************)
EXTENDS Integers, FiniteSets

CONSTANTS
    BitsPerUsd,       \* bits worth one dollar of creator value (default 100)
    PriceTiers,       \* set of [min |-> bits, price |-> 1/100 cents per bit]
    SubSharePct,      \* the creator's share of a subscription, in percent
    SiteRouteFeePct   \* the fee on a subscription routed through the site

ASSUME RatesAssumption ==
    /\ BitsPerUsd \in Nat \ {0}
    /\ PriceTiers # {} /\ IsFiniteSet(PriceTiers)
    /\ PriceTiers \subseteq [min : Nat, price : Nat \ {0}]
    /\ SubSharePct \in 0..100 /\ SiteRouteFeePct \in Nat

(***************************************************************************)
(* JavaScript's Math.round(n / d) for d > 0: the nearest integer, a tie    *)
(* going towards plus infinity.                                            *)
(***************************************************************************)
Round(n, d) == (2 * n + d) \div (2 * d)

AtLeast(n, m) == IF n >= m THEN n ELSE m
AtMost(n, m) == IF n =< m THEN n ELSE m

\* Creator and cashout value of some bits, in cents.
ValueCents(bits) == Round(bits * 100, BitsPerUsd)

\* Bits worth some cents at the value rate.
BitsForValueCents(cents) == AtLeast(0, Round(cents * BitsPerUsd, 100))

\* The tier that prices a pack: the highest threshold reached, else the lowest.
TierOf(bits) ==
    LET reached == {t \in PriceTiers : bits >= t.min}
    IN  IF reached # {}
        THEN CHOOSE t \in reached : \A o \in reached : t.min >= o.min
        ELSE CHOOSE t \in PriceTiers : \A o \in PriceTiers : t.min =< o.min

PriceCents(bits) == Round(bits * TierOf(bits).price, 100)

\* What some cents buy: the best pack each tier offers for them, 0 if none does.
BitsForPriceCents(cents) ==
    LET packs == {(cents * 100) \div t.price : t \in PriceTiers}
        offered == {b \in packs :
                      /\ PriceCents(b) =< cents
                      /\ \E t \in PriceTiers : b = (cents * 100) \div t.price /\ b >= t.min}
    IN  IF offered = {} THEN 0
        ELSE CHOOSE b \in offered : \A o \in offered : b >= o

\* A subscription's split: the creator's bits, and the site route's fee in cents.
SubShareBits(baseCents) == BitsForValueCents((baseCents * SubSharePct) \div 100)
SiteFeeCents(baseCents) == Round(baseCents * SiteRouteFeePct, 100)

=============================================================================
