------------------------------ MODULE Pricing ------------------------------
(***************************************************************************)
(* What metered use costs: the rate cards of readings (ops/rating.js) and  *)
(* the retail price of tokens (ops/credits.js computeCharge), both exact   *)
(* and rounded up.  The decimals of a card are kept as fractions: a card   *)
(* asks price / size bits for one unit, bits_per_usd included.             *)
(***************************************************************************)
EXTENDS Integers, FiniteSets, Functions

CONSTANTS
    Classes,       \* classes of tokens: input, output, cached and the rest
    TokenCounts,   \* counts a request may report of a class
    TokenPrices    \* prices per million tokens, in nano-USD

ASSUME PricingAssumption == IsFiniteSet(Classes) /\ TokenCounts \cup TokenPrices \subseteq Nat

\* Variant: the fraction is dropped.
Floor(n, d) == n \div d

Ceil(n, d) == (n + d - 1) \div d

\* chargeFor(): rounded up once, whatever the quantity.
ChargeFor(card, quantity) == Ceil(quantity * card.price, card.size)

\* A card fits a reading of its provider and metric, in its region if it has one,
\* on the days it is in force.
Fits(card, r) ==
    /\ card.metric = r.metric
    /\ card.region \in {"any", r.region}
    /\ card.from =< r.day /\ r.day < card.until

\* pickCard(): a card of the region first, then the latest, then by id.
Before(c, d) ==
    \/ c.region # "any" /\ d.region = "any"
    \/ c.region = d.region /\ c.from > d.from
    \/ c.region = d.region /\ c.from = d.from /\ c.id < d.id
PickCard(cards, r) ==
    LET fit == {c \in cards : Fits(c, r)}
    IN  {c \in fit : \A d \in fit \ {c} : Before(c, d)}

Million == 1000000

\* computeCharge(): each class of tokens is rounded up on its own.
ComputeCharge(tokens, perMillion, perRequest) ==
    perRequest + SumFunctionOnSet([k \in DOMAIN tokens |-> Ceil(tokens[k] * perMillion[k], Million)],
                                  {k \in DOMAIN tokens : tokens[k] # 0 /\ perMillion[k] # 0})

----------------------------------------------------------------------------
\* The charge of a request is never below its exact price, and above it by less
\* than one nano-USD for each class that was used (credits.js 281, "ceil once per
\* component"): stated in millionths, over all counts and prices.
RequestsCeil ==
    \A tokens \in [Classes -> TokenCounts], price \in [Classes -> TokenPrices] :
        LET used == {k \in Classes : tokens[k] # 0 /\ price[k] # 0}
            exact == SumFunctionOnSet([k \in used |-> tokens[k] * price[k]], used)
            over == ComputeCharge(tokens, price, 0) * Million - exact
        IN  0 =< over /\ over =< Cardinality(used) * (Million - 1)

=============================================================================
