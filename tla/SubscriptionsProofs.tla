------------------------ MODULE SubscriptionsProofs ------------------------
(***************************************************************************)
(* Theorems about Subscriptions.  The inductive invariant SubsIInv joins,  *)
(* to the types, what the periods, the renewal keys, the running sweeps    *)
(* and the waiting cancellations owe each other:                           *)
(*                                                                         *)
(*   PeriodsSound  every payment's pair has a subscription, the periods    *)
(*                 that stand do not overlap, and the row ends with the    *)
(*                 last of them;                                           *)
(*   KeysSound     a renewal key is charged once, and only when the charge *)
(*                 of every key before it was reversed;                    *)
(*   SweepsSound   a sweep's rows were due when it read them, and the key  *)
(*                 it holds is one whose turn it still is;                 *)
(*   CancelSound   a cancellation's row is still there.                    *)
(*                                                                         *)
(* Over it, MoneySound adds the sums.                                      *)
(***************************************************************************)
EXTENDS Subscriptions, MoneyLemmas, SequenceTheorems

----------------------------------------------------------------------------
(* Types.                                                                  *)

\* The pairs, members and creators are finitely many, and a pair has two parts.
LEMMA PairParts ==
    /\ IsFiniteSet(Pairs) /\ IsFiniteSet(Subscribers) /\ IsFiniteSet(Streamers)
    /\ \A p \in Pairs : p[1] \in Subscribers /\ p[2] \in Streamers
<1> DEFINE f == [p \in Pairs |-> p[1]]
           g == [p \in Pairs |-> p[2]]
<1>1. f \in [Pairs -> Subscribers] /\ \A u \in Subscribers : \E p \in Pairs : f[p] = u
  BY DEF Subscribers
<1>2. g \in [Pairs -> Streamers] /\ \A s \in Streamers : \E p \in Pairs : g[p] = s
  BY DEF Streamers
<1> HIDE DEF f, g
<1>3. IsFiniteSet(Pairs)
  BY SubscriptionsAssumption
<1>4. IsFiniteSet(Subscribers)
  BY <1>1, <1>3, FiniteImage
<1>5. IsFiniteSet(Streamers)
  BY <1>2, <1>3, FiniteImage
<1> QED
  BY <1>3, <1>4, <1>5 DEF Subscribers, Streamers

\* Prices in cents become bits, and a share of them.
LEMMA CostNat == ASSUME NEW price \in Nat PROVE Cost(price) \in Nat
  BY BitsForValueNat DEF Cost

\* The creator's share of some cents.
LEMMA ShareBitsNat == ASSUME NEW cents \in Nat PROVE SubShareBits(cents) \in Nat
<1>1. cents * SubSharePct \in Nat
  BY RatesAssumption
<1>2. (cents * SubSharePct) \div 100 \in Nat
  BY <1>1
<1> QED
  BY <1>2, BitsForValueNat DEF SubShareBits

\* The share is no more than the price.
LEMMA ShareNat == ASSUME NEW price \in Nat PROVE Share(price) \in Nat /\ Share(price) =< Cost(price)
  BY CostNat, ShareBitsNat DEF Share, AtMost

\* The parts of TypeOK that a step touches separately.
TiersTyped == tiers \in [Streamers \X Tiers -> TierRow \cup {NoRow}]
SubsTyped == subs \in [Pairs -> SubRow \cup {NoRow}]
PaymentsTyped ==
    /\ payments \in Seq(Payment) /\ periods \in Seq(PeriodRow) /\ Len(periods) = Len(payments)
    /\ reversed \subseteq DOMAIN payments
BalanceTyped == balance \in [Accounts -> Int]
CancelTyped == canceling \subseteq [pair : Pairs, provider : {"credit", "stripe", "paypal"}]
SweepsTyped == sweep \in [Sweeps -> SweepState]
NowTyped == now \in Nat

\* TypeOK is their conjunction.
LEMMA TypesMean ==
    TypeOK <=> TiersTyped /\ SubsTyped /\ PaymentsTyped /\ BalanceTyped /\ CancelTyped /\ SweepsTyped /\ NowTyped
  BY DEF TypeOK, TiersTyped, SubsTyped, PaymentsTyped, BalanceTyped, CancelTyped, SweepsTyped, NowTyped

\* A subscription that exists is a row.
LEMMA SubIsRow ==
    ASSUME SubsTyped, NEW p \in Pairs, subs[p] # NoRow
    PROVE  subs[p] \in SubRow
  BY DEF SubsTyped

\* The absent row is no subscription.
LEMMA NoRowIsNoSub == NoRow \notin SubRow /\ NoRow.status = "none"
  BY DEF NoRow, SubRow

\* The price a tier is sold for.
LEMMA PriceNatural ==
    ASSUME TiersTyped, NEW s \in Streamers, NEW t \in Tiers
    PROVE  PriceFor(s, t) \in Nat
<1>1. DefaultPrice \in Nat
  BY SubscriptionsAssumption
<1>2. <<s, t>> \in Streamers \X Tiers
  OBVIOUS
<1>3. tiers[<<s, t>>] # NoRow => tiers[<<s, t>>] \in TierRow
  BY <1>2 DEF TiersTyped
<1> QED
  BY <1>1, <1>3 DEF PriceFor, TierRow

\* A new period starts and ends at some day, after its start.
LEMMA PeriodDays ==
    ASSUME SubsTyped, NowTyped, NEW p \in Pairs, NEW given \in Nat
    PROVE  /\ PeriodStart(p) \in Nat /\ PeriodEnd(p, given) \in Nat
           /\ PeriodStart(p) < PeriodEnd(p, given) /\ now =< PeriodStart(p)
           /\ subs[p] # NoRow => subs[p].end =< PeriodStart(p)
<1>1. subs[p] # NoRow => subs[p].end \in Nat
  BY SubIsRow DEF SubRow
<1>2. PeriodStart(p) \in Nat /\ now =< PeriodStart(p) /\ (subs[p] # NoRow => subs[p].end =< PeriodStart(p))
  BY <1>1 DEF PeriodStart, NowTyped
<1>3. Period \in Nat \ {0}
  BY SubscriptionsAssumption
<1> QED
  BY <1>2, <1>3 DEF PeriodEnd, AtLeast

\* One more at the end of a sequence.
LEMMA Appended ==
    ASSUME NEW S, NEW s \in Seq(S), NEW x \in S
    PROVE  /\ Append(s, x) \in Seq(S) /\ Len(Append(s, x)) = Len(s) + 1 /\ Len(s) \in Nat
           /\ DOMAIN s = 1..Len(s) /\ DOMAIN Append(s, x) = 1..(Len(s) + 1)
           /\ \A i \in DOMAIN s : Append(s, x)[i] = s[i] /\ i \in DOMAIN Append(s, x)
           /\ Append(s, x)[Len(s) + 1] = x
           /\ \A i \in DOMAIN Append(s, x) : i \in DOMAIN s \/ i = Len(s) + 1
  BY AppendProperties, LenProperties

\* What a granted period is made of.
Payer(row) ==
    /\ row.auto \in BOOLEAN /\ row.provider \in {"credit", "stripe", "paypal"}
    /\ row.tier \in Tiers /\ row.price \in Nat

\* A granted period leaves rows, payments and periods of their types.
LEMMA GrantTyped ==
    ASSUME SubsTyped, PaymentsTyped, NowTyped, NEW p \in Pairs, NEW payment \in Payment,
           NEW row, Payer(row), NEW given \in Nat, Grant(p, payment, row, given), reversed' = reversed
    PROVE  SubsTyped' /\ PaymentsTyped'
<1> DEFINE s == [status |-> "active", auto |-> row.auto, cancel |-> FALSE, provider |-> row.provider,
                 tier |-> row.tier, price |-> row.price, end |-> PeriodEnd(p, given), graceUntil |-> None]
           e == [start |-> PeriodStart(p), end |-> PeriodEnd(p, given), revoked |-> FALSE]
<1>1. s \in SubRow
  BY PeriodDays DEF SubRow, Payer
<1>2. e \in PeriodRow
  BY PeriodDays DEF PeriodRow
<1>3. subs' = [subs EXCEPT ![p] = s] /\ payments' = Append(payments, payment) /\ periods' = Append(periods, e)
  BY DEF Grant
<1> HIDE DEF s, e
<1>4. SubsTyped'
  BY <1>1, <1>3 DEF SubsTyped
<1>5. PaymentsTyped'
  BY <1>2, <1>3, Appended DEF PaymentsTyped
<1> QED
  BY <1>4, <1>5
----------------------------------------------------------------------------
(* Periods.                                                                *)

\* Every payment's pair has a subscription.
Known == \A i \in DOMAIN payments : subs[payments[i].pair] # NoRow
PeriodsSound == Known /\ PeriodsDisjoint /\ EndIsLastPeriod /\ PeriodBad = {}

\* A payment and its period by number.
LEMMA PaymentRows ==
    ASSUME PaymentsTyped
    PROVE  /\ DOMAIN periods = DOMAIN payments /\ DOMAIN payments = 1..Len(payments) /\ Len(payments) \in Nat
           /\ \A i \in DOMAIN payments :
                /\ payments[i] \in Payment /\ periods[i] \in PeriodRow /\ payments[i].pair \in Pairs
                /\ periods[i].end \in Nat /\ periods[i].start \in Nat /\ periods[i].revoked \in BOOLEAN
<1>1. \A i \in DOMAIN payments : payments[i] \in Payment
  BY ElementOfSeq, LenProperties DEF PaymentsTyped
<1>2. \A i \in DOMAIN periods : periods[i] \in PeriodRow
  BY ElementOfSeq, LenProperties DEF PaymentsTyped
<1>3. DOMAIN periods = DOMAIN payments /\ DOMAIN payments = 1..Len(payments) /\ Len(payments) \in Nat
  BY LenProperties DEF PaymentsTyped
<1> QED
  BY <1>1, <1>2, <1>3 DEF Payment, PeriodRow

\* PeriodBad is empty, and the same without its set.
RevokedAsReversed == \A i \in DOMAIN periods : periods[i].revoked <=> i \in reversed

NoneBad == PeriodBad = {}

\* A period stands exactly while its payment is not reversed,
LEMMA PeriodBadMeans == PaymentsTyped => (NoneBad <=> RevokedAsReversed)
<1> SUFFICES ASSUME PaymentsTyped PROVE NoneBad <=> RevokedAsReversed
  OBVIOUS
<1>1. \A i \in DOMAIN periods : periods[i].revoked \in BOOLEAN
  BY PaymentRows
<1>2. \A i \in DOMAIN periods : (periods[i].revoked <=> i \in reversed) <=> periods[i].revoked = (i \in reversed)
  BY <1>1
<1> QED
  BY <1>2, Zenon DEF PeriodBad, NoneBad, RevokedAsReversed

\* The same after a step.
LEMMA PeriodBadMeansNext == PaymentsTyped' => (NoneBad' <=> RevokedAsReversed')
  BY PeriodBadMeans, PTL

\* A paid period starts where those that stand have ended.
LEMMA GrantPeriods ==
    ASSUME SubsTyped, PaymentsTyped, NowTyped, PeriodsSound, NEW p \in Pairs,
           NEW payment \in Payment, payment.pair = p, NEW row, Payer(row), NEW given \in Nat,
           Grant(p, payment, row, given), reversed' = reversed, now' = now
    PROVE  PeriodsSound'
<1> DEFINE s == [status |-> "active", auto |-> row.auto, cancel |-> FALSE, provider |-> row.provider,
                 tier |-> row.tier, price |-> row.price, end |-> PeriodEnd(p, given), graceUntil |-> None]
           e == [start |-> PeriodStart(p), end |-> PeriodEnd(p, given), revoked |-> FALSE]
           n == Len(payments) + 1
<1>1. /\ s \in SubRow /\ s.end = PeriodEnd(p, given) /\ s.status = "active"
      /\ e \in PeriodRow /\ e.start = PeriodStart(p) /\ e.end = PeriodEnd(p, given) /\ ~e.revoked
  BY PeriodDays DEF SubRow, PeriodRow, Payer
<1>2. subs' = [subs EXCEPT ![p] = s] /\ payments' = Append(payments, payment) /\ periods' = Append(periods, e)
  BY DEF Grant
<1> HIDE DEF s, e
<1>3. /\ DOMAIN payments' = 1..n /\ DOMAIN periods' = 1..n /\ DOMAIN payments = 1..Len(payments)
      /\ DOMAIN periods = DOMAIN payments /\ Len(payments) \in Nat
      /\ \A i \in DOMAIN payments : payments'[i] = payments[i] /\ periods'[i] = periods[i] /\ i # n
      /\ payments'[n] = payment /\ periods'[n] = e
      /\ \A i \in DOMAIN payments' : i \in DOMAIN payments \/ i = n
  BY <1>1, <1>2, Appended DEF PaymentsTyped
<1>4. subs'[p] = s /\ \A q \in Pairs \ {p} : subs'[q] = subs[q]
  BY <1>2 DEF SubsTyped
<1>5. s # NoRow
  BY <1>1, NoRowIsNoSub
<1>6. /\ PeriodStart(p) \in Nat /\ PeriodEnd(p, given) \in Nat /\ PeriodStart(p) < PeriodEnd(p, given)
      /\ now =< PeriodStart(p) /\ (subs[p] # NoRow => subs[p].end =< PeriodStart(p)) /\ now \in Nat
      /\ (subs[p] # NoRow => subs[p].end \in Nat)
  BY PeriodDays, SubIsRow DEF NowTyped, SubRow
<1>7. \A i \in DOMAIN payments : payments[i].pair \in Pairs /\ periods[i].end \in Nat /\ periods[i].start \in Nat
  BY PaymentRows
<1>8. Known'
  BY <1>3, <1>4, <1>5, <1>7 DEF Known, PeriodsSound
<1>9. \A i \in DOMAIN payments :
         payments[i].pair = p /\ ~periods[i].revoked => periods[i].end =< PeriodStart(p)
  <2> SUFFICES ASSUME NEW i \in DOMAIN payments, payments[i].pair = p, ~periods[i].revoked
               PROVE  periods[i].end =< PeriodStart(p)
    OBVIOUS
  <2>1. subs[p] # NoRow
    BY DEF PeriodsSound, Known
  <2>2. periods[i].end =< subs[p].end
    BY <1>3, <2>1 DEF PeriodsSound, EndIsLastPeriod, Granted
  <2> QED
    BY <1>6, <1>7, <2>1, <2>2
<1>10. PeriodsDisjoint'
  <2> SUFFICES ASSUME NEW i \in 1..n, NEW j \in 1..n, i < j, payments'[i].pair = payments'[j].pair,
                      ~periods'[i].revoked, ~periods'[j].revoked
               PROVE  periods'[i].end =< periods'[j].start
    BY <1>3 DEF PeriodsDisjoint
  <2>1. CASE j = n
    BY <1>1, <1>3, <1>9, <2>1
  <2>2. CASE j # n
    BY <1>3, <2>2 DEF PeriodsSound, PeriodsDisjoint
  <2> QED
    BY <2>1, <2>2
<1>11. EndIsLastPeriod'
  <2> SUFFICES ASSUME NEW q \in Pairs, subs'[q] # NoRow
               PROVE  /\ \A i \in 1..n :
                           payments'[i].pair = q /\ ~periods'[i].revoked => periods'[i].end =< subs'[q].end
                      /\ subs'[q].end > now => \E i \in 1..n : /\ payments'[i].pair = q /\ ~periods'[i].revoked
                                                               /\ periods'[i].end = subs'[q].end
                      /\ subs'[q].status = "past_due" => subs'[q].end =< now
    BY <1>3 DEF EndIsLastPeriod, Granted
  <2>1. CASE q = p
    <3>1. \A i \in 1..n : payments'[i].pair = q /\ ~periods'[i].revoked => periods'[i].end =< subs'[q].end
      BY <1>1, <1>3, <1>4, <1>6, <1>7, <1>9, <2>1
    <3>2. n \in 1..n /\ payments'[n].pair = q /\ ~periods'[n].revoked /\ periods'[n].end = subs'[q].end
      BY <1>1, <1>3, <1>4, <2>1
    <3> QED
      BY <1>1, <1>4, <2>1, <3>1, <3>2
  <2>2. CASE q # p
    <3>1. subs'[q] = subs[q]
      BY <1>4, <2>2
    <3>2. /\ \A i \in DOMAIN payments : payments[i].pair = q /\ ~periods[i].revoked => periods[i].end =< subs[q].end
          /\ subs[q].end > now => \E i \in DOMAIN payments : /\ payments[i].pair = q /\ ~periods[i].revoked
                                                             /\ periods[i].end = subs[q].end
          /\ subs[q].status = "past_due" => subs[q].end =< now
      BY <1>3, <3>1 DEF PeriodsSound, EndIsLastPeriod, Granted
    <3> QED
      BY <1>3, <2>2, <3>1, <3>2
  <2> QED
    BY <2>1, <2>2
<1>12. PeriodBad' = {}
  <2>1. RevokedAsReversed'
    BY <1>1, <1>3, PeriodBadMeans DEF PeriodsSound, PaymentsTyped, RevokedAsReversed, NoneBad
  <2>2. PaymentsTyped'
    BY GrantTyped
  <2> QED
    BY <2>1, <2>2, PeriodBadMeansNext DEF NoneBad
<1> QED
  BY <1>8, <1>10, <1>11, <1>12 DEF PeriodsSound

\* What ends a subscription early, or marks it past due, moves no end.
LEMMA StatusPeriods ==
    ASSUME SubsTyped, PaymentsTyped, NowTyped, PeriodsSound, UNCHANGED <<payments, periods, reversed>>,
           now' \in Nat, now =< now',
           \A p \in Pairs : /\ subs[p] # NoRow <=> subs'[p] # NoRow
                            /\ subs[p] # NoRow => subs'[p].end = subs[p].end
                            /\ subs'[p] # NoRow /\ subs'[p].status = "past_due" => subs[p].end =< now'
    PROVE  PeriodsSound'
<1>1. Known'
  BY PaymentRows DEF Known, PeriodsSound
<1>2. PeriodsDisjoint' /\ PeriodBad' = {}
  BY DEF PeriodsDisjoint, PeriodBad, PeriodsSound
<1>3. EndIsLastPeriod'
  <2> SUFFICES ASSUME NEW q \in Pairs, subs'[q] # NoRow
               PROVE  /\ \A i \in Granted(q, periods)' : periods'[i].end =< subs'[q].end
                      /\ subs'[q].end > now' => \E i \in Granted(q, periods)' : periods'[i].end = subs'[q].end
                      /\ subs'[q].status = "past_due" => subs'[q].end =< now'
    BY DEF EndIsLastPeriod
  <2>1. Granted(q, periods)' = Granted(q, periods)
    BY DEF Granted
  <2>2. subs[q] # NoRow /\ subs'[q].end = subs[q].end /\ subs[q].end \in Nat
    BY SubIsRow DEF SubRow
  <2> QED
    BY <2>1, <2>2 DEF PeriodsSound, EndIsLastPeriod, NowTyped
<1> QED
  BY <1>1, <1>2, <1>3 DEF PeriodsSound

\* What a revocation leaves of the rows.
LEMMA RevokeTyped ==
    ASSUME SubsTyped, PaymentsTyped, NowTyped, Known, NEW i \in DOMAIN payments, Revoke(i),
           payments' = payments, reversed' = reversed \cup {i}
    PROVE  /\ SubsTyped' /\ PaymentsTyped'
           /\ periods' = [periods EXCEPT ![i].revoked = TRUE]
           /\ \A j \in DOMAIN payments : /\ periods'[j].end = periods[j].end /\ periods'[j].start = periods[j].start
                                         /\ periods'[j].revoked = (periods[j].revoked \/ j = i)
           /\ \A q \in Pairs : subs[q] # NoRow <=> subs'[q] # NoRow
           /\ \A q \in Pairs \ {payments[i].pair} : subs'[q] = subs[q]
           /\ LastEnd(payments[i].pair, subs'[payments[i].pair].end)
           /\ subs'[payments[i].pair].status =
                IF subs'[payments[i].pair].end > now THEN subs[payments[i].pair].status ELSE "expired"
<1> DEFINE p == payments[i].pair
           e == [periods[i] EXCEPT !.revoked = TRUE]
<1>1. p \in Pairs /\ subs[p] # NoRow /\ subs[p] \in SubRow /\ i \in DOMAIN periods
  BY PaymentRows, SubIsRow DEF Known
<1>2. periods' = [periods EXCEPT ![i] = e]
  BY DEF Revoke
<1>3. e \in PeriodRow /\ e.end = periods[i].end /\ e.start = periods[i].start /\ e.revoked = TRUE
  BY <1>1, PaymentRows DEF PeriodRow
<1>4. PICK end \in {periods[j].end : j \in DOMAIN periods} \cup {now} :
         /\ LastEnd(p, end)
         /\ subs' = [subs EXCEPT ![p] =
              [@ EXCEPT !.end = end, !.status = IF end > now THEN subs[p].status ELSE "expired",
                        !.auto = end > now /\ subs[p].auto]]
  BY DEF Revoke
<1> DEFINE r == [subs[p] EXCEPT !.end = end, !.status = IF end > now THEN subs[p].status ELSE "expired",
                                !.auto = end > now /\ subs[p].auto]
<1>5. end \in Nat
  BY <1>4, PaymentRows DEF NowTyped
<1>6. r \in SubRow /\ r.end = end /\ r.status = IF end > now THEN subs[p].status ELSE "expired"
  BY <1>1, <1>5 DEF SubRow
<1>7. DOMAIN subs = Pairs /\ subs' = [q \in Pairs |-> IF q = p THEN r ELSE subs[q]]
  <2>1. DOMAIN subs = Pairs
    BY DEF SubsTyped
  <2>2. subs' = [subs EXCEPT ![p] = r]
    BY <1>4, Zenon
  <2> HIDE DEF r
  <2> QED
    BY <2>1, <2>2
<1> HIDE DEF r, e
<1>8. SubsTyped'
  BY <1>1, <1>6, <1>7 DEF SubsTyped
<1>9. periods' \in Seq(PeriodRow) /\ Len(periods') = Len(periods)
  BY <1>1, <1>2, <1>3, ExceptSeq DEF PaymentsTyped
<1>10. PaymentsTyped'
  BY <1>9 DEF PaymentsTyped
<1>11. subs'[p] = r /\ \A q \in Pairs \ {p} : subs'[q] = subs[q]
  BY <1>1, <1>7 DEF SubsTyped
<1>12. \A q \in Pairs : subs[q] # NoRow <=> subs'[q] # NoRow
  BY <1>1, <1>6, <1>11, NoRowIsNoSub
<1>13. \A j \in DOMAIN payments : periods'[j] = IF j = i THEN e ELSE periods[j]
  BY <1>2, PaymentRows
<1>14. \A j \in DOMAIN payments :
         /\ periods'[j].end = periods[j].end /\ periods'[j].start = periods[j].start
         /\ periods'[j].revoked = (periods[j].revoked \/ j = i)
  BY <1>3, <1>13, PaymentRows
<1> QED
  BY <1>2, <1>4, <1>6, <1>8, <1>10, <1>11, <1>12, <1>14 DEF e

\* A refund ends the subscription with the last period left.
LEMMA RevokePeriods ==
    ASSUME SubsTyped, PaymentsTyped, NowTyped, PeriodsSound, NEW i \in DOMAIN payments, i \notin reversed,
           Revoke(i), payments' = payments, reversed' = reversed \cup {i}, now' = now
    PROVE  PeriodsSound'
<1> DEFINE p == payments[i].pair
<1>1. Known
  BY DEF PeriodsSound
<1>2. /\ SubsTyped' /\ PaymentsTyped'
      /\ \A j \in DOMAIN payments : /\ periods'[j].end = periods[j].end /\ periods'[j].start = periods[j].start
                                    /\ periods'[j].revoked = (periods[j].revoked \/ j = i)
      /\ \A q \in Pairs : subs[q] # NoRow <=> subs'[q] # NoRow
      /\ \A q \in Pairs \ {p} : subs'[q] = subs[q]
      /\ LastEnd(p, subs'[p].end)
      /\ subs'[p].status = IF subs'[p].end > now THEN subs[p].status ELSE "expired"
  BY <1>1, RevokeTyped
<1>3. /\ DOMAIN periods = DOMAIN payments /\ DOMAIN periods' = DOMAIN payments
      /\ \A j \in DOMAIN payments : payments[j].pair \in Pairs /\ periods[j].end \in Nat /\ periods[j].start \in Nat
                                    /\ periods[j].revoked \in BOOLEAN
  BY <1>2, PaymentRows DEF PaymentsTyped
<1>4. p \in Pairs /\ subs[p] # NoRow /\ subs[p].end \in Nat /\ subs'[p].end \in Nat /\ now \in Nat
  <2>1. p \in Pairs /\ subs[p] # NoRow /\ subs'[p] # NoRow
    BY <1>1, <1>2, <1>3 DEF Known
  <2>2. subs'[p] \in SubRow
    BY <1>2, <2>1 DEF SubsTyped
  <2> QED
    BY <2>1, <2>2, SubIsRow DEF SubRow, NowTyped
<1>5. Known'
  BY <1>1, <1>2, <1>3 DEF Known
<1>6. PeriodsDisjoint'
  <2> SUFFICES ASSUME NEW k \in DOMAIN payments, NEW j \in DOMAIN payments, k < j,
                      payments[k].pair = payments[j].pair, ~periods'[k].revoked, ~periods'[j].revoked
               PROVE  periods'[k].end =< periods'[j].start
    BY <1>3 DEF PeriodsDisjoint
  <2>1. ~periods[k].revoked /\ ~periods[j].revoked
    BY <1>2
  <2>2. periods[k].end =< periods[j].start
    BY <1>3, <2>1 DEF PeriodsSound, PeriodsDisjoint
  <2> QED
    BY <1>2, <2>2
<1>7. RevokedAsReversed'
  BY <1>2, <1>3, PeriodBadMeans DEF PeriodsSound, RevokedAsReversed, NoneBad
<1>8. \A q \in Pairs : Granted(q, periods') = {j \in Granted(q, periods) : j # i}
  BY <1>2, <1>3 DEF Granted
<1>9. EndIsLastPeriod'
  <2> SUFFICES ASSUME NEW q \in Pairs, subs'[q] # NoRow
               PROVE  /\ \A j \in Granted(q, periods') : periods'[j].end =< subs'[q].end
                      /\ subs'[q].end > now => \E j \in Granted(q, periods') : periods'[j].end = subs'[q].end
                      /\ subs'[q].status = "past_due" => subs'[q].end =< now
    <3>1. \A q \in Pairs : Granted(q, periods)' = Granted(q, periods')
      BY DEF Granted
    <3> QED
      BY <3>1 DEF EndIsLastPeriod
  <2>0. /\ \A j \in Granted(q, periods) : periods[j].end =< subs[q].end /\ j \in DOMAIN payments
        /\ subs[q].end > now => \E j \in Granted(q, periods) : periods[j].end = subs[q].end
        /\ subs[q].status = "past_due" => subs[q].end =< now
    BY <1>2, <1>3 DEF PeriodsSound, EndIsLastPeriod, Granted
  <2>1. CASE q # p
    <3>1. subs'[q] = subs[q] /\ i \notin Granted(q, periods)
      BY <1>2, <2>1 DEF Granted
    <3> QED
      BY <1>2, <1>8, <2>0, <3>1
  <2>2. CASE q = p
    <3>1. \A j \in Granted(p, periods') : periods'[j].end = periods[j].end /\ periods[j].end =< subs[p].end
                                         /\ periods[j].end \in Nat
      BY <1>2, <1>3, <1>8, <2>0, <2>2
    <3>2. CASE Granted(p, periods') = {}
      <4>1. subs'[p].end = now
        BY <1>2, <3>2 DEF LastEnd
      <4> QED
        BY <1>4, <2>2, <3>2, <4>1
    <3>3. CASE Granted(p, periods') # {}
      <4>1. /\ \E j \in Granted(p, periods') : periods'[j].end = subs'[p].end
            /\ \A j \in Granted(p, periods') : periods'[j].end =< subs'[p].end
        BY <1>2, <3>3 DEF LastEnd
      <4>2. subs'[p].end =< subs[p].end
        BY <1>4, <3>1, <4>1
      <4>3. subs'[p].status = "past_due" => subs'[p].end =< now
        <5>1. subs'[p].end > now /\ subs'[p].status = "past_due" => subs[p].status = "past_due"
          BY <1>2
        <5> QED
          BY <1>4, <2>0, <2>2, <4>2, <5>1
      <4> QED
        BY <2>2, <4>1, <4>3
    <3> QED
      BY <3>2, <3>3
  <2> QED
    BY <2>1, <2>2
<1> QED
  BY <1>2, <1>5, <1>6, <1>7, <1>9, PeriodBadMeansNext DEF PeriodsSound, NoneBad
----------------------------------------------------------------------------
(* What the sweeps and the cancellations hold between their steps.         *)

\* The charge under a key was made, and reversed.
Undone(P, R, key) == \E i \in DOMAIN P : P[i].key = key /\ i \in R

\* A sweep's rows were due when it read them, and still have a subscription.
DueRows(v, S, t) ==
    /\ v.at =< t
    /\ \A row \in v.rows : /\ row.sub.status \in {"active", "past_due"} /\ row.sub.end =< v.at
                           /\ S[row.pair] # NoRow

\* Every key before the one it chose was charged and undone.
Chosen(v, P, R) ==
    v.phase \in {"charge", "refused"} =>
        /\ v.row \in v.rows /\ Renewable(v.row)
        /\ v.key.pair = v.row.pair /\ v.key.end = v.row.sub.end
        /\ \A n \in 0..(v.key.again - 1) : Undone(P, R, [v.key EXCEPT !.again = n])

SweepsSound == \A w \in Sweeps : DueRows(sweep[w], subs, now) /\ Chosen(sweep[w], payments, reversed)
CancelSound == \A c \in canceling : subs[c.pair] # NoRow

\* A key is charged once, and only when the charge of every key before it was undone.
KeysSound ==
    /\ \A i \in DOMAIN payments :
         payments[i].key # None =>
            /\ payments[i].key.pair = payments[i].pair
            /\ \A n \in 0..(payments[i].key.again - 1) :
                 Undone(payments, reversed, [payments[i].key EXCEPT !.again = n])
    /\ \A i, j \in DOMAIN payments :
         payments[i].key # None /\ payments[i].key = payments[j].key => i = j

\* What every step leaves true: rows stay, an undone charge stays undone, time goes on.
Lasting ==
    /\ \A q \in Pairs : subs[q] # NoRow => subs'[q] # NoRow
    /\ \A key \in RenewalKeys : Undone(payments, reversed, key) => Undone(payments', reversed', key)
    /\ now \in Nat /\ now' \in Nat /\ now =< now'

\* A row and a key as a sweep holds them.
LEMMA SweepParts ==
    ASSUME SweepsTyped, NEW w \in Sweeps
    PROVE  /\ sweep[w].phase \in {"idle", "rows", "charge", "refused"}
           /\ sweep[w].rows \subseteq Row /\ sweep[w].at \in Nat
           /\ sweep[w].phase \in {"charge", "refused"} => /\ sweep[w].row \in Row /\ sweep[w].key \in RenewalKeys
                /\ sweep[w] = [phase |-> sweep[w].phase, rows |-> sweep[w].rows, at |-> sweep[w].at,
                               row |-> sweep[w].row, key |-> sweep[w].key]
<1>1. sweep[w] \in SweepState
  BY DEF SweepsTyped
<1> DEFINE A == [phase : {"idle", "rows"}, rows : SUBSET Row, at : Nat]
           B == [phase : {"charge", "refused"}, rows : SUBSET Row, at : Nat, row : Row, key : RenewalKeys]
<1>2. CASE sweep[w] \in A
  BY <1>2
<1>3. CASE sweep[w] \in B
  BY <1>3
<1> QED
  BY <1>1, <1>2, <1>3 DEF SweepState

\* The key before another.
LEMMA EarlierKey ==
    ASSUME NEW key \in RenewalKeys, NEW n \in 0..(key.again - 1)
    PROVE  [key EXCEPT !.again = n] \in RenewalKeys
  BY DEF RenewalKeys

\* What a sweep holds lasts.
LEMMA SweepLasts ==
    ASSUME SweepsTyped, SweepsSound, Lasting, NEW w \in Sweeps
    PROVE  DueRows(sweep[w], subs', now') /\ Chosen(sweep[w], payments', reversed')
<1>1. DueRows(sweep[w], subs, now) /\ Chosen(sweep[w], payments, reversed)
  BY DEF SweepsSound
<1>2. /\ sweep[w].rows \subseteq Row /\ sweep[w].at \in Nat
      /\ sweep[w].phase \in {"charge", "refused"} => sweep[w].key \in RenewalKeys
  BY SweepParts
<1>3. \A row \in Row : row.pair \in Pairs
  BY DEF Row
<1>4. DueRows(sweep[w], subs', now')
  BY <1>1, <1>2, <1>3 DEF DueRows, Lasting
<1>5. Chosen(sweep[w], payments', reversed')
  BY <1>1, <1>2, EarlierKey DEF Chosen, Lasting
<1> QED
  BY <1>4, <1>5

\* A step outside the sweeps leaves what they hold true.
LEMMA SweepsLast ==
    ASSUME SweepsTyped, SweepsSound, Lasting, sweep' = sweep
    PROVE  SweepsTyped' /\ SweepsSound'
<1>1. \A w \in Sweeps : DueRows(sweep[w], subs', now') /\ Chosen(sweep[w], payments', reversed')
  BY SweepLasts
<1> QED
  BY <1>1 DEF SweepsTyped, SweepsSound

\* One sweep moves on, the others wait.
LEMMA SweepMoves ==
    ASSUME SweepsTyped, SweepsSound, Lasting, NEW w \in Sweeps, NEW v, sweep' = [sweep EXCEPT ![w] = v],
           v \in SweepState, DueRows(v, subs', now'), Chosen(v, payments', reversed')
    PROVE  SweepsTyped' /\ SweepsSound'
<1>1. \A u \in Sweeps : DueRows(sweep[u], subs', now') /\ Chosen(sweep[u], payments', reversed')
  BY SweepLasts
<1>2. \A u \in Sweeps : sweep'[u] = IF u = w THEN v ELSE sweep[u]
  BY DEF SweepsTyped
<1>3. SweepsTyped'
  BY DEF SweepsTyped
<1> QED
  BY <1>1, <1>2, <1>3 DEF SweepsSound

\* A sweep done with a row.
LEMMA AfterSound ==
    ASSUME SweepsTyped, SweepsSound, Lasting, NEW w \in Sweeps, NEW row, After(w, row)
    PROVE  SweepsTyped' /\ SweepsSound'
<1> DEFINE rest == sweep[w].rows \ {row}
           v == IF rest = {} THEN Idle ELSE [phase |-> "rows", rows |-> rest, at |-> sweep[w].at]
<1>1. sweep' = [sweep EXCEPT ![w] = v]
  BY DEF After
<1>2. sweep[w].rows \subseteq Row /\ sweep[w].at \in Nat
  BY SweepParts
<1>3. v \in SweepState
  BY <1>2 DEF SweepState, Idle
<1>4. DueRows(sweep[w], subs', now')
  BY SweepLasts
<1>5. DueRows(v, subs', now')
  BY <1>4 DEF DueRows, Idle, Lasting
<1>6. Chosen(v, payments', reversed')
  BY DEF Chosen, Idle
<1> HIDE DEF v
<1> QED
  BY <1>1, <1>3, <1>5, <1>6, SweepMoves

\* A cancellation waiting still finds a row.
LEMMA CancelLasts ==
    ASSUME CancelTyped, CancelSound, Lasting, canceling' \subseteq canceling
    PROVE  CancelTyped' /\ CancelSound'
<1>1. \A c \in canceling : c.pair \in Pairs
  BY DEF CancelTyped
<1> QED
  BY <1>1 DEF CancelTyped, CancelSound, Lasting

\* Reversing one more payment undoes no less.
LEMMA MoreUndone ==
    ASSUME payments' = payments, reversed \subseteq reversed', KeysSound, PaymentsTyped
    PROVE  /\ \A key \in RenewalKeys : Undone(payments, reversed, key) => Undone(payments', reversed', key)
           /\ KeysSound'
<1>1. \A key \in RenewalKeys : Undone(payments, reversed, key) => Undone(payments', reversed', key)
  BY DEF Undone
<1>2. \A i \in DOMAIN payments : payments[i].key # None => payments[i].key \in RenewalKeys
  BY PaymentRows DEF Payment
<1> QED
  BY <1>1, <1>2, EarlierKey DEF KeysSound

\* A payment under no key, or under a free one whose turn it is.
LEMMA GrantKeys ==
    ASSUME PaymentsTyped, KeysSound, NEW payment \in Payment, payments' = Append(payments, payment),
           reversed' = reversed,
           payment.key # None =>
                /\ payment.key.pair = payment.pair
                /\ \A i \in DOMAIN payments : payments[i].key # payment.key
                /\ \A n \in 0..(payment.key.again - 1) :
                     Undone(payments, reversed, [payment.key EXCEPT !.again = n])
    PROVE  /\ \A key \in RenewalKeys : Undone(payments, reversed, key) => Undone(payments', reversed', key)
           /\ KeysSound'
<1> DEFINE n == Len(payments) + 1
<1>1. /\ DOMAIN payments' = 1..n /\ DOMAIN payments = 1..Len(payments) /\ Len(payments) \in Nat
      /\ \A i \in DOMAIN payments : payments'[i] = payments[i] /\ i \in DOMAIN payments'
      /\ payments'[n] = payment
      /\ \A i \in DOMAIN payments' : i \in DOMAIN payments \/ i = n
  BY Appended DEF PaymentsTyped
<1>2. \A key \in RenewalKeys : Undone(payments, reversed, key) => Undone(payments', reversed', key)
  BY <1>1 DEF Undone
<1>3. payment.key # None => payment.key \in RenewalKeys
  BY DEF Payment
<1>4. \A i \in DOMAIN payments : payments[i].key # None => payments[i].key \in RenewalKeys
  BY PaymentRows DEF Payment
<1> HIDE DEF n
<1>5. \A i \in DOMAIN payments' :
         payments'[i].key # None =>
            /\ payments'[i].key.pair = payments'[i].pair
            /\ \A m \in 0..(payments'[i].key.again - 1) :
                 Undone(payments', reversed', [payments'[i].key EXCEPT !.again = m])
  <2> SUFFICES ASSUME NEW i \in DOMAIN payments', payments'[i].key # None
               PROVE  /\ payments'[i].key.pair = payments'[i].pair
                      /\ \A m \in 0..(payments'[i].key.again - 1) :
                           Undone(payments', reversed', [payments'[i].key EXCEPT !.again = m])
    OBVIOUS
  <2>1. CASE i \in DOMAIN payments
    <3>1. payments'[i] = payments[i] /\ payments[i].key \in RenewalKeys
      BY <1>1, <1>4, <2>1
    <3>2. /\ payments[i].key.pair = payments[i].pair
          /\ \A m \in 0..(payments[i].key.again - 1) :
               Undone(payments, reversed, [payments[i].key EXCEPT !.again = m])
      BY <2>1, <3>1 DEF KeysSound
    <3> QED
      BY <1>2, <3>1, <3>2, EarlierKey
  <2>2. CASE i = n
    <3>1. payments'[i] = payment /\ payment.key \in RenewalKeys
      BY <1>1, <1>3, <2>2
    <3> QED
      BY <1>2, <3>1, EarlierKey
  <2> QED
    BY <1>1, <2>1, <2>2
<1>6. \A i, j \in DOMAIN payments' :
         payments'[i].key # None /\ payments'[i].key = payments'[j].key => i = j
  BY <1>1 DEF KeysSound
<1> QED
  BY <1>2, <1>5, <1>6 DEF KeysSound

\* Two standing renewals of one end would be one payment.
LEMMA KeysRenewOnce ==
    ASSUME PaymentsTyped, KeysSound
    PROVE  RenewedOnce
<1> SUFFICES ASSUME NEW i \in DOMAIN payments \ reversed, NEW j \in DOMAIN payments \ reversed, i # j,
                    payments[i].key # None, payments[j].key # None,
                    payments[i].pair = payments[j].pair, payments[i].key.end = payments[j].key.end
             PROVE  FALSE
  BY DEF RenewedOnce
<1>1. payments[i].key \in RenewalKeys /\ payments[j].key \in RenewalKeys
  BY PaymentRows DEF Payment
<1>2. payments[i].key.pair = payments[j].key.pair
  BY DEF KeysSound
<1>3. ASSUME NEW a \in DOMAIN payments \ reversed, NEW b \in DOMAIN payments \ reversed,
             payments[a].key \in RenewalKeys, payments[b].key \in RenewalKeys, payments[b].key # None,
             payments[a].key # None,
             payments[a].key.pair = payments[b].key.pair, payments[a].key.end = payments[b].key.end,
             payments[a].key.again < payments[b].key.again
      PROVE  FALSE
  <2>1. payments[a].key.again \in 0..(payments[b].key.again - 1)
    BY <1>3 DEF RenewalKeys
  <2>2. payments[a].key = [payments[b].key EXCEPT !.again = payments[a].key.again]
    BY <1>3 DEF RenewalKeys
  <2>3. Undone(payments, reversed, payments[a].key)
    BY <1>3, <2>1, <2>2 DEF KeysSound
  <2>4. PICK m \in DOMAIN payments : payments[m].key = payments[a].key /\ m \in reversed
    BY <2>3 DEF Undone
  <2>5. m = a
    BY <1>3, <2>4 DEF KeysSound
  <2> QED
    BY <2>4, <2>5
<1>4. payments[i].key.again \in Nat /\ payments[j].key.again \in Nat
  BY <1>1 DEF RenewalKeys
<1>5. payments[i].key.again # payments[j].key.again
  <2>1. SUFFICES ASSUME payments[i].key.again = payments[j].key.again PROVE FALSE
    OBVIOUS
  <2>2. payments[i].key = payments[j].key
    BY <1>1, <1>2, <2>1 DEF RenewalKeys
  <2> QED
    BY <2>2 DEF KeysSound
<1> QED
  BY <1>1, <1>2, <1>3, <1>4, <1>5
----------------------------------------------------------------------------
(* Every step keeps the invariant.                                         *)

SubsIInv ==
    /\ TiersTyped /\ SubsTyped /\ PaymentsTyped /\ BalanceTyped /\ CancelTyped /\ SweepsTyped /\ NowTyped
    /\ PeriodsSound /\ KeysSound /\ SweepsSound /\ CancelSound

\* The first state.
LEMMA SubsInitial == Init => SubsIInv
<1> SUFFICES ASSUME Init PROVE SubsIInv
  OBVIOUS
<1>1. DOMAIN payments = {} /\ DOMAIN periods = {} /\ payments \in Seq(Payment) /\ periods \in Seq(PeriodRow)
      /\ Len(payments) = Len(periods)
  BY DEF Init
<1>2. TiersTyped
  BY DEF Init, TiersTyped
<1>3. SubsTyped
  BY DEF Init, SubsTyped
<1>4. PaymentsTyped
  BY <1>1 DEF Init, PaymentsTyped
<1>5. BalanceTyped
  BY SubscriptionsAssumption DEF Init, BalanceTyped
<1>6. CancelTyped /\ CancelSound
  BY DEF Init, CancelTyped, CancelSound
<1>7. Idle \in SweepState
  BY DEF Idle, SweepState
<1>8. sweep = [w \in Sweeps |-> Idle]
  BY DEF Init
<1>9. SweepsTyped
  BY <1>7, <1>8 DEF SweepsTyped
<1>10. SweepsSound
  <2>1. now \in Nat /\ now = 0
    BY DEF Init
  <2>2. DueRows(Idle, subs, now) /\ Chosen(Idle, payments, reversed)
    BY <2>1 DEF DueRows, Chosen, Idle
  <2> QED
    BY <1>8, <2>2, Zenon DEF SweepsSound
<1>11. NowTyped
  BY DEF Init, NowTyped
<1>12. KeysSound
  BY <1>1 DEF KeysSound
<1>13. PeriodsSound
  <2>1. \A p \in Pairs : subs[p] = NoRow
    BY DEF Init
  <2> QED
    BY <1>1, <2>1 DEF PeriodsSound, Known, PeriodsDisjoint, EndIsLastPeriod, PeriodBad
<1> QED
  BY <1>2, <1>3, <1>4, <1>5, <1>6, <1>9, <1>10, <1>11, <1>12, <1>13 DEF SubsIInv

\* A granted period, with everything but the balance and the sweep that paid it.
LEMMA GrantKeeps ==
    ASSUME SubsIInv, NEW p \in Pairs, NEW payment \in Payment, payment.pair = p, NEW row, Payer(row),
           NEW given \in Nat, Grant(p, payment, row, given),
           UNCHANGED <<tiers, reversed, canceling, now>>,
           payment.key # None =>
                /\ payment.key.pair = payment.pair
                /\ \A i \in DOMAIN payments : payments[i].key # payment.key
                /\ \A n \in 0..(payment.key.again - 1) :
                     Undone(payments, reversed, [payment.key EXCEPT !.again = n])
    PROVE  /\ Lasting
           /\ TiersTyped' /\ SubsTyped' /\ PaymentsTyped' /\ NowTyped' /\ CancelTyped'
           /\ PeriodsSound' /\ KeysSound' /\ CancelSound'
<1>1. SubsTyped' /\ PaymentsTyped'
  BY GrantTyped DEF SubsIInv
<1>2. PeriodsSound'
  BY GrantPeriods DEF SubsIInv
<1>3. payments' = Append(payments, payment)
  BY DEF Grant
<1>4. /\ \A key \in RenewalKeys : Undone(payments, reversed, key) => Undone(payments', reversed', key)
      /\ KeysSound'
  BY <1>3, GrantKeys DEF SubsIInv
<1>5. \A q \in Pairs : subs[q] # NoRow => subs'[q] # NoRow
  <2> DEFINE s == [status |-> "active", auto |-> row.auto, cancel |-> FALSE, provider |-> row.provider,
                   tier |-> row.tier, price |-> row.price, end |-> PeriodEnd(p, given), graceUntil |-> None]
  <2>1. s # NoRow
    <3>1. s.status # NoRow.status
      BY NoRowIsNoSub
    <3> QED
      BY <3>1
  <2>2. subs' = [subs EXCEPT ![p] = s]
    BY DEF Grant
  <2> HIDE DEF s
  <2> QED
    BY <2>1, <2>2 DEF SubsIInv, SubsTyped
<1>6. now' = now /\ now \in Nat
  BY DEF SubsIInv, NowTyped
<1>7. Lasting
  BY <1>4, <1>5, <1>6 DEF Lasting
<1>8. CancelTyped' /\ CancelSound'
  BY <1>7, CancelLasts DEF SubsIInv
<1>9. TiersTyped' /\ NowTyped'
  BY DEF SubsIInv, TiersTyped, NowTyped
<1> QED
  BY <1>1, <1>2, <1>4, <1>7, <1>8, <1>9

\* A payment from credit.
LEMMA PayKeeps ==
    ASSUME SubsIInv, NEW p \in Pairs, NEW key \in RenewalKeys \cup {None}, NEW tier \in Tiers,
           NEW price \in Nat, NEW auto \in BOOLEAN, PayFromCredit(p, key, tier, price, auto),
           key # None =>
                /\ key.pair = p
                /\ Posted(key) = {}
                /\ \A n \in 0..(key.again - 1) : Undone(payments, reversed, [key EXCEPT !.again = n])
    PROVE  /\ Lasting
           /\ TiersTyped' /\ SubsTyped' /\ PaymentsTyped' /\ NowTyped' /\ CancelTyped' /\ BalanceTyped'
           /\ PeriodsSound' /\ KeysSound' /\ CancelSound'
<1> DEFINE payment == [pair |-> p, key |-> key, receipt |-> None, cost |-> Cost(price), share |-> Share(price)]
           row == [auto |-> auto, provider |-> "credit", tier |-> tier, price |-> price]
<1>1. Cost(price) \in Nat /\ Share(price) \in Nat
  BY CostNat, ShareNat
<1>2. payment \in Payment /\ payment.pair = p /\ payment.key = key
  BY <1>1 DEF Payment
<1>3. Payer(row)
  BY DEF Payer
<1>4. Grant(p, payment, row, 0) /\ UNCHANGED <<tiers, reversed, canceling, now>>
  BY DEF PayFromCredit
<1>5. key # None => \A i \in DOMAIN payments : payments[i].key # key
  BY DEF Posted
<1>6. BalanceTyped'
  <2>1. balance' = [balance EXCEPT ![Credit(p[1])] = @ - Cost(price), ![Payable(p[2])] = @ + Share(price),
                                   ![Revenue] = @ + (Cost(price) - Share(price))]
    BY DEF PayFromCredit
  <2>2. Credit(p[1]) \in Accounts /\ Payable(p[2]) \in Accounts /\ Revenue \in Accounts
    BY PairParts DEF Accounts
  <2> HIDE DEF payment, row
  <2> QED
    BY <1>1, <2>1, <2>2 DEF SubsIInv, BalanceTyped
<1> HIDE DEF payment, row
<1> QED
  BY <1>2, <1>3, <1>4, <1>5, <1>6, GrantKeeps

\* The invariant again from what the steps above leave.
LEMMA Rebuilt ==
    ASSUME TiersTyped', SubsTyped', PaymentsTyped', NowTyped', CancelTyped', BalanceTyped',
           PeriodsSound', KeysSound', CancelSound', SweepsTyped', SweepsSound'
    PROVE  SubsIInv'
  BY DEF SubsIInv

\* What was asked about renewing decides it, or what the row or its payer says.
LEMMA AutoRenewBool ==
    ASSUME SubsTyped, NEW p \in Pairs, NEW asked, NEW source
    PROVE  AutoRenew(p, asked, source) \in BOOLEAN
<1>1. subs[p] # NoRow => subs[p].auto \in BOOLEAN
  BY SubIsRow DEF SubRow
<1> QED
  BY <1>1 DEF AutoRenew

\* Members pay for a period at a tier's price or at one they name.
LEMMA SubscribeKeeps ==
    ASSUME SubsIInv, NEW p \in Pairs, NEW asked \in Renewing, NEW t \in Tiers, Subscribe(p, t, asked)
    PROVE  SubsIInv'
<1>1. PriceFor(p[2], t) \in Nat
  BY PairParts, PriceNatural DEF SubsIInv
<1>2. AutoRenew(p, asked, "credit") \in BOOLEAN
  BY AutoRenewBool DEF SubsIInv
<1>3. PayFromCredit(p, None, t, PriceFor(p[2], t), AutoRenew(p, asked, "credit")) /\ sweep' = sweep
  BY DEF Subscribe
<1> QED
  BY <1>1, <1>2, <1>3, PayKeeps, SweepsLast, Rebuilt DEF SubsIInv

\* The tier a pair has, or the first.
LEMMA CurrentTierTyped == ASSUME SubsTyped, NEW p \in Pairs PROVE CurrentTier(p) \in Tiers
  BY SubscriptionsAssumption, SubIsRow DEF CurrentTier, SubRow

\* The same at a price the caller names.
LEMMA SubscribeAtKeeps ==
    ASSUME SubsIInv, NEW p \in Pairs, NEW asked \in Renewing, NEW price \in NamedPrices,
           SubscribeAt(p, price, asked)
    PROVE  SubsIInv'
<1>1. price \in Nat
  BY SubscriptionsAssumption
<1>2. AutoRenew(p, asked, "credit") \in BOOLEAN /\ CurrentTier(p) \in Tiers
  BY AutoRenewBool, CurrentTierTyped DEF SubsIInv
<1>3. PayFromCredit(p, None, CurrentTier(p), price, AutoRenew(p, asked, "credit")) /\ sweep' = sweep
  BY DEF SubscribeAt
<1> QED
  BY <1>1, <1>2, <1>3, PayKeeps, SweepsLast, Rebuilt DEF SubsIInv

\* What a provider's receipt says.
LEMMA ReceiptParts ==
    ASSUME NEW r \in Receipts
    PROVE  /\ Says[r].pair \in Pairs /\ Says[r].provider \in {"stripe", "paypal"} /\ Says[r].direct \in BOOLEAN
           /\ Says[r].paid \in Nat /\ Says[r].fee \in Nat /\ Says[r].tier \in Tiers /\ Says[r].price \in Nat
           /\ Says[r].end \in Nat
  BY SubscriptionsAssumption

\* The price a receipt's subscription has, and the creator's share of it.
ReceiptPrice(says) ==
    CASE says.price > 0 -> says.price
      [] says.price = 0 /\ subs[says.pair] # NoRow /\ CurrentTier(says.pair) = says.tier -> subs[says.pair].price
      [] OTHER -> DefaultPrice
ReceiptShare(says) == IF says.direct THEN 0 ELSE SubShareBits(AtLeast(0, says.paid - says.fee))

\* A receipt settled, in its parts.
LEMMA SettleParts ==
    ASSUME SubsIInv, NEW r \in Receipts, SettleReceipt(r)
    PROVE  /\ ReceiptPrice(Says[r]) \in Nat /\ ReceiptShare(Says[r]) \in Nat
           /\ Grant(Says[r].pair,
                    [pair |-> Says[r].pair, key |-> None, receipt |-> r, cost |-> 0, share |-> ReceiptShare(Says[r])],
                    [auto |-> AutoRenew(Says[r].pair, "unsaid", "receipt"), provider |-> Says[r].provider,
                     tier |-> Says[r].tier, price |-> ReceiptPrice(Says[r])], Says[r].end)
           /\ balance' = [balance EXCEPT ![Fx] = @ - ReceiptShare(Says[r]),
                                         ![Payable(Says[r].pair[2])] = @ + ReceiptShare(Says[r])]
           /\ UNCHANGED <<tiers, reversed, canceling, sweep, now>>
<1>1. ReceiptPrice(Says[r]) \in Nat
  <2>1. subs[Says[r].pair] # NoRow => subs[Says[r].pair].price \in Nat
    BY ReceiptParts, SubIsRow DEF SubsIInv, SubRow
  <2> QED
    BY <2>1, ReceiptParts, SubscriptionsAssumption DEF ReceiptPrice
<1>2. ReceiptShare(Says[r]) \in Nat
  <2>1. AtLeast(0, Says[r].paid - Says[r].fee) \in Nat
    BY ReceiptParts DEF AtLeast
  <2> QED
    BY <2>1, ReceiptParts, ShareBitsNat DEF ReceiptShare
<1>3. SettleReceipt(r)
  OBVIOUS
<1> QED
  BY <1>1, <1>2, <1>3, Zenon DEF SettleReceipt, ReceiptPrice, ReceiptShare

\* A receipt settled keeps the invariant.
LEMMA SettleKeeps ==
    ASSUME SubsIInv, NEW r \in Receipts, SettleReceipt(r)
    PROVE  SubsIInv'
<1> DEFINE p == Says[r].pair
           share == ReceiptShare(Says[r])
           payment == [pair |-> p, key |-> None, receipt |-> r, cost |-> 0, share |-> share]
           row == [auto |-> AutoRenew(p, "unsaid", "receipt"), provider |-> Says[r].provider,
                   tier |-> Says[r].tier, price |-> ReceiptPrice(Says[r])]
<1>1. /\ ReceiptPrice(Says[r]) \in Nat /\ share \in Nat
      /\ Grant(p, payment, row, Says[r].end)
      /\ balance' = [balance EXCEPT ![Fx] = @ - share, ![Payable(p[2])] = @ + share]
      /\ UNCHANGED <<tiers, reversed, canceling, sweep, now>>
  BY SettleParts
<1>2. p \in Pairs /\ Says[r].end \in Nat
  BY ReceiptParts
<1>3. payment \in Payment /\ payment.pair = p /\ payment.key = None
  BY <1>1, <1>2 DEF Payment
<1>4. Payer(row)
  BY <1>1, <1>2, ReceiptParts, AutoRenewBool DEF Payer, SubsIInv
<1>5. BalanceTyped'
  <2>1. Fx \in Accounts /\ Payable(p[2]) \in Accounts
    BY <1>2, PairParts DEF Accounts
  <2> HIDE DEF share, p
  <2> QED
    BY <1>1, <2>1 DEF SubsIInv, BalanceTyped
<1> HIDE DEF payment, row, share, p
<1> QED
  BY <1>1, <1>2, <1>3, <1>4, <1>5, GrantKeeps, SweepsLast, Rebuilt DEF SubsIInv

\* A period revoked, with everything but the balance.
LEMMA RevokeKeeps ==
    ASSUME SubsIInv, NEW i \in DOMAIN payments, i \notin reversed, Revoke(i),
           reversed' = reversed \cup {i}, UNCHANGED <<tiers, payments, canceling, sweep, now>>
    PROVE  /\ TiersTyped' /\ SubsTyped' /\ PaymentsTyped' /\ NowTyped' /\ CancelTyped' /\ SweepsTyped'
           /\ PeriodsSound' /\ KeysSound' /\ CancelSound' /\ SweepsSound'
<1>1. PeriodsSound'
  BY RevokePeriods DEF SubsIInv
<1>2. SubsTyped' /\ PaymentsTyped' /\ \A q \in Pairs : subs[q] # NoRow <=> subs'[q] # NoRow
  BY RevokeTyped DEF SubsIInv, PeriodsSound
<1>3. /\ \A key \in RenewalKeys : Undone(payments, reversed, key) => Undone(payments', reversed', key)
      /\ KeysSound'
  BY MoreUndone DEF SubsIInv
<1>4. Lasting
  BY <1>2, <1>3 DEF Lasting, SubsIInv, NowTyped
<1>5. CancelTyped' /\ CancelSound' /\ SweepsTyped' /\ SweepsSound'
  BY <1>4, CancelLasts, SweepsLast DEF SubsIInv
<1>6. TiersTyped' /\ NowTyped'
  BY DEF SubsIInv, TiersTyped, NowTyped
<1> QED
  BY <1>1, <1>2, <1>3, <1>5, <1>6

\* The accounts of a payment.
LEMMA PaymentAccounts ==
    ASSUME PaymentsTyped, NEW i \in DOMAIN payments
    PROVE  /\ Credit(payments[i].pair[1]) \in Accounts /\ Payable(payments[i].pair[2]) \in Accounts
           /\ Revenue \in Accounts /\ Fx \in Accounts
           /\ payments[i].cost \in Nat /\ payments[i].share \in Nat
<1>1. payments[i].pair \in Pairs /\ payments[i] \in Payment
  BY PaymentRows
<1> QED
  BY <1>1, PairParts DEF Accounts, Payment

\* What is taken back of the creator's share.
LEMMA ClawedNat ==
    ASSUME PaymentsTyped, BalanceTyped, NEW i \in DOMAIN payments
    PROVE  /\ Clawed(i) \in Nat /\ Clawed(i) =< payments[i].share
           /\ balance[Payable(payments[i].pair[2])] >= 0 => Clawed(i) =< balance[Payable(payments[i].pair[2])]
<1>1. balance[Payable(payments[i].pair[2])] \in Int /\ payments[i].share \in Nat
  BY PaymentAccounts DEF BalanceTyped
<1> QED
  BY <1>1 DEF Clawed, AtLeast, AtMost

\* A period refunded in Vibes keeps the invariant.
LEMMA RefundKeeps ==
    ASSUME SubsIInv, NEW i \in DOMAIN payments, RefundCreditPeriod(i)
    PROVE  SubsIInv'
<1>1. /\ i \notin reversed /\ Revoke(i) /\ reversed' = reversed \cup {i}
      /\ UNCHANGED <<tiers, payments, canceling, sweep, now>>
  BY DEF RefundCreditPeriod
<1>2. BalanceTyped'
  <2> DEFINE t == payments[i]
             k == Clawed(i)
  <2>1. balance' = [balance EXCEPT ![Credit(t.pair[1])] = @ + t.cost, ![Revenue] = @ - (t.cost - t.share),
                                   ![Payable(t.pair[2])] = @ - k, ![Fx] = @ - (t.share - k)]
    BY DEF RefundCreditPeriod
  <2>2. /\ Credit(t.pair[1]) \in Accounts /\ Payable(t.pair[2]) \in Accounts /\ Revenue \in Accounts
        /\ Fx \in Accounts /\ t.cost \in Nat /\ t.share \in Nat /\ k \in Nat
    BY PaymentAccounts, ClawedNat DEF SubsIInv
  <2> HIDE DEF t, k
  <2> QED
    BY <2>1, <2>2 DEF SubsIInv, BalanceTyped
<1> QED
  BY <1>1, <1>2, RevokeKeeps, Rebuilt

\* A receipt reversed keeps the invariant.
LEMMA ReverseKeeps ==
    ASSUME SubsIInv, NEW i \in DOMAIN payments, ReverseReceipt(i)
    PROVE  SubsIInv'
<1>1. /\ i \notin reversed /\ Revoke(i) /\ reversed' = reversed \cup {i} /\ balance' = balance
      /\ UNCHANGED <<tiers, payments, canceling, sweep, now>>
  BY DEF ReverseReceipt
<1>2. BalanceTyped'
  BY <1>1 DEF SubsIInv, BalanceTyped
<1> QED
  BY <1>1, <1>2, RevokeKeeps, Rebuilt

\* What a step that pays, reverses and grants nothing does to the rows.
RowsKept ==
    /\ SubsTyped'
    /\ \A p \in Pairs : /\ subs[p] # NoRow <=> subs'[p] # NoRow
                        /\ subs[p] # NoRow => subs'[p].end = subs[p].end
                        /\ subs'[p] # NoRow /\ subs'[p].status = "past_due" => subs[p].end =< now'

\* Such a step keeps the periods and the keys.
LEMMA StatusKeeps ==
    ASSUME SubsIInv, RowsKept, UNCHANGED <<payments, periods, reversed>>, now' \in Nat, now =< now'
    PROVE  /\ Lasting /\ PaymentsTyped' /\ SubsTyped' /\ NowTyped' /\ PeriodsSound' /\ KeysSound'
<1>1. PeriodsSound'
  BY StatusPeriods DEF SubsIInv, RowsKept
<1>2. /\ \A key \in RenewalKeys : Undone(payments, reversed, key) => Undone(payments', reversed', key)
      /\ KeysSound'
  BY MoreUndone DEF SubsIInv
<1>3. Lasting
  BY <1>2 DEF Lasting, SubsIInv, NowTyped, RowsKept
<1> QED
  BY <1>1, <1>2, <1>3 DEF SubsIInv, PaymentsTyped, RowsKept, NowTyped

\* No row touched.
LEMMA RowsSame ==
    ASSUME SubsIInv, subs' = subs, now' \in Nat, now =< now'
    PROVE  RowsKept
<1>1. \A p \in Pairs : subs[p] # NoRow /\ subs[p].status = "past_due" => subs[p].end =< now /\ subs[p].end \in Nat
  BY SubIsRow DEF SubsIInv, PeriodsSound, EndIsLastPeriod, SubRow
<1>2. SubsTyped'
  BY DEF SubsIInv, SubsTyped
<1> QED
  BY <1>1, <1>2 DEF RowsKept, SubsIInv, NowTyped

\* One row changed, but not its end.
LEMMA RowChanged ==
    ASSUME SubsIInv, NEW p \in Pairs, subs[p] # NoRow, NEW r \in SubRow, subs' = [subs EXCEPT ![p] = r],
           r.end = subs[p].end, r.status = "past_due" => subs[p].end =< now, now' = now
    PROVE  RowsKept
<1>1. \A q \in Pairs : subs[q] # NoRow /\ subs[q].status = "past_due" => subs[q].end =< now
  BY DEF SubsIInv, PeriodsSound, EndIsLastPeriod
<1>2. SubsTyped'
  BY DEF SubsIInv, SubsTyped
<1>3. r # NoRow
  BY NoRowIsNoSub
<1>4. subs'[p] = r /\ \A q \in Pairs \ {p} : subs'[q] = subs[q]
  BY DEF SubsIInv, SubsTyped
<1> QED
  BY <1>1, <1>2, <1>3, <1>4 DEF RowsKept

\* A step that touches only tiers, the balance or the clock.
LEMMA SetTierKeeps ==
    ASSUME SubsIInv, NEW c \in TierChanges, SetTier(c[1], c[2], c[3], c[4])
    PROVE  SubsIInv'
<1>1. /\ tiers' = [tiers EXCEPT ![<<c[1], c[2]>>] = [status |-> c[4], price |-> c[3]]]
      /\ UNCHANGED <<subs, payments, periods, reversed, balance, canceling, sweep, now>>
  BY DEF SetTier
<1>2. c[1] \in Streamers /\ c[2] \in Tiers /\ c[3] \in Nat /\ c[4] \in {"active", "archived"}
  BY SubscriptionsAssumption
<1>3. TiersTyped'
  <2> DEFINE r == [status |-> c[4], price |-> c[3]]
             t == <<c[1], c[2]>>
  <2>1. r \in TierRow /\ t \in Streamers \X Tiers
    BY <1>2 DEF TierRow
  <2>2. tiers' = [tiers EXCEPT ![t] = r]
    BY <1>1
  <2> HIDE DEF r, t
  <2> QED
    BY <2>1, <2>2 DEF SubsIInv, TiersTyped
<1>4. RowsKept
  BY <1>1, RowsSame DEF SubsIInv, NowTyped
<1>5. /\ Lasting /\ PaymentsTyped' /\ SubsTyped' /\ NowTyped' /\ PeriodsSound' /\ KeysSound'
  BY <1>1, <1>4, StatusKeeps DEF SubsIInv, NowTyped
<1>6. CancelTyped' /\ CancelSound' /\ SweepsTyped' /\ SweepsSound'
  BY <1>1, <1>5, CancelLasts, SweepsLast DEF SubsIInv
<1>7. BalanceTyped'
  BY <1>1 DEF SubsIInv, BalanceTyped
<1> QED
  BY <1>3, <1>5, <1>6, <1>7, Rebuilt

\* A cashout changes balances alone.
LEMMA CashOutKeeps ==
    ASSUME SubsIInv, NEW s \in Streamers, CashOut(s)
    PROVE  SubsIInv'
<1>1. /\ balance' = [balance EXCEPT ![Payable(s)] = 0, ![Pending(s)] = @ + balance[Payable(s)]]
      /\ UNCHANGED <<tiers, subs, payments, periods, reversed, canceling, sweep, now>>
  BY DEF CashOut
<1>2. Payable(s) \in Accounts /\ Pending(s) \in Accounts
  BY DEF Accounts
<1>3. BalanceTyped'
  BY <1>1, <1>2 DEF SubsIInv, BalanceTyped
<1>4. RowsKept
  BY <1>1, RowsSame DEF SubsIInv, NowTyped
<1>5. /\ Lasting /\ PaymentsTyped' /\ SubsTyped' /\ NowTyped' /\ PeriodsSound' /\ KeysSound'
  BY <1>1, <1>4, StatusKeeps DEF SubsIInv, NowTyped
<1>6. CancelTyped' /\ CancelSound' /\ SweepsTyped' /\ SweepsSound'
  BY <1>1, <1>5, CancelLasts, SweepsLast DEF SubsIInv
<1>7. TiersTyped'
  BY <1>1 DEF SubsIInv, TiersTyped
<1> QED
  BY <1>3, <1>5, <1>6, <1>7, Rebuilt

\* Time passing, or nothing at all.
LEMMA TickKeeps ==
    ASSUME SubsIInv, Tick \/ UNCHANGED vars
    PROVE  SubsIInv'
<1>1. /\ now' \in Nat /\ now =< now'
      /\ UNCHANGED <<tiers, subs, payments, periods, reversed, balance, canceling, sweep>>
  BY DEF Tick, vars, SubsIInv, NowTyped
<1>4. RowsKept
  BY <1>1, RowsSame
<1>5. /\ Lasting /\ PaymentsTyped' /\ SubsTyped' /\ NowTyped' /\ PeriodsSound' /\ KeysSound'
  BY <1>1, <1>4, StatusKeeps
<1>6. CancelTyped' /\ CancelSound' /\ SweepsTyped' /\ SweepsSound'
  BY <1>1, <1>5, CancelLasts, SweepsLast DEF SubsIInv
<1>7. TiersTyped' /\ BalanceTyped'
  BY <1>1 DEF SubsIInv, TiersTyped, BalanceTyped
<1> QED
  BY <1>5, <1>6, <1>7, Rebuilt

\* A cancellation reads a row, and writes it later.
LEMMA CancelReadKeeps ==
    ASSUME SubsIInv, NEW p \in Pairs, CancelRead(p)
    PROVE  SubsIInv'
<1>1. /\ subs[p] # NoRow /\ canceling' = canceling \cup {[pair |-> p, provider |-> subs[p].provider]}
      /\ UNCHANGED <<tiers, subs, payments, periods, reversed, balance, sweep, now>>
  BY DEF CancelRead
<1>4. RowsKept
  BY <1>1, RowsSame DEF SubsIInv, NowTyped
<1>5. /\ Lasting /\ PaymentsTyped' /\ SubsTyped' /\ NowTyped' /\ PeriodsSound' /\ KeysSound'
  BY <1>1, <1>4, StatusKeeps DEF SubsIInv, NowTyped
<1>6. SweepsTyped' /\ SweepsSound'
  BY <1>1, <1>5, SweepsLast DEF SubsIInv
<1>7. TiersTyped' /\ BalanceTyped'
  BY <1>1 DEF SubsIInv, TiersTyped, BalanceTyped
<1>8. CancelTyped' /\ CancelSound'
  <2>1. subs[p].provider \in {"credit", "stripe", "paypal"}
    BY <1>1, SubIsRow DEF SubsIInv, SubRow
  <2> QED
    BY <1>1, <2>1 DEF SubsIInv, CancelTyped, CancelSound
<1> QED
  BY <1>5, <1>6, <1>7, <1>8, Rebuilt

\* The provider refuses.
LEMMA CancelRefusedKeeps ==
    ASSUME SubsIInv, NEW c \in canceling, CancelRefused(c)
    PROVE  SubsIInv'
<1>1. /\ canceling' \subseteq canceling
      /\ UNCHANGED <<tiers, subs, payments, periods, reversed, balance, sweep, now>>
  BY DEF CancelRefused
<1>4. RowsKept
  BY <1>1, RowsSame DEF SubsIInv, NowTyped
<1>5. /\ Lasting /\ PaymentsTyped' /\ SubsTyped' /\ NowTyped' /\ PeriodsSound' /\ KeysSound'
  BY <1>1, <1>4, StatusKeeps DEF SubsIInv, NowTyped
<1>6. CancelTyped' /\ CancelSound' /\ SweepsTyped' /\ SweepsSound'
  BY <1>1, <1>5, CancelLasts, SweepsLast DEF SubsIInv
<1>7. TiersTyped' /\ BalanceTyped'
  BY <1>1 DEF SubsIInv, TiersTyped, BalanceTyped
<1> QED
  BY <1>5, <1>6, <1>7, Rebuilt

\* The row is marked cancelled, with the end it has.
LEMMA CancelWriteKeeps ==
    ASSUME SubsIInv, NEW c \in canceling, CancelWrite(c)
    PROVE  SubsIInv'
<1> DEFINE p == c.pair
           r == [subs[p] EXCEPT !.cancel = TRUE, !.auto = FALSE]
<1>1. /\ canceling' \subseteq canceling /\ subs' = [subs EXCEPT ![p] = r]
      /\ UNCHANGED <<tiers, payments, periods, reversed, balance, sweep, now>>
  BY DEF CancelWrite
<1>2. p \in Pairs /\ subs[p] # NoRow /\ subs[p] \in SubRow
  BY SubIsRow DEF SubsIInv, CancelTyped, CancelSound
<1>3. r \in SubRow /\ r.end = subs[p].end /\ r.status = subs[p].status
  BY <1>2 DEF SubRow
<1>4. r.status = "past_due" => subs[p].end =< now
  BY <1>2, <1>3 DEF SubsIInv, PeriodsSound, EndIsLastPeriod
<1> HIDE DEF r, p
<1>5. RowsKept
  BY <1>1, <1>2, <1>3, <1>4, RowChanged
<1>6. /\ Lasting /\ PaymentsTyped' /\ SubsTyped' /\ NowTyped' /\ PeriodsSound' /\ KeysSound'
  BY <1>1, <1>5, StatusKeeps DEF SubsIInv, NowTyped
<1>7. CancelTyped' /\ CancelSound' /\ SweepsTyped' /\ SweepsSound'
  BY <1>1, <1>6, CancelLasts, SweepsLast DEF SubsIInv
<1>8. TiersTyped' /\ BalanceTyped'
  BY <1>1 DEF SubsIInv, TiersTyped, BalanceTyped
<1> QED
  BY <1>6, <1>7, <1>8, Rebuilt
----------------------------------------------------------------------------
(* The steps of a sweep.                                                   *)

\* A sweep step that changes no row.
LEMMA SweepOnly ==
    ASSUME SubsIInv, NEW w \in Sweeps, NEW v, sweep' = [sweep EXCEPT ![w] = v],
           v \in SweepState, DueRows(v, subs, now), Chosen(v, payments, reversed),
           UNCHANGED <<tiers, subs, payments, periods, reversed, balance, canceling, now>>
    PROVE  SubsIInv'
<1>1. RowsKept
  BY RowsSame DEF SubsIInv, NowTyped
<1>2. /\ Lasting /\ PaymentsTyped' /\ SubsTyped' /\ NowTyped' /\ PeriodsSound' /\ KeysSound'
  BY <1>1, StatusKeeps DEF SubsIInv, NowTyped
<1>3. CancelTyped' /\ CancelSound'
  BY <1>2, CancelLasts DEF SubsIInv
<1>4. DueRows(v, subs', now') /\ Chosen(v, payments', reversed')
  OBVIOUS
<1>5. SweepsTyped' /\ SweepsSound'
  BY <1>2, <1>4, SweepMoves DEF SubsIInv
<1>6. TiersTyped' /\ BalanceTyped'
  BY DEF SubsIInv, TiersTyped, BalanceTyped
<1> QED
  BY <1>2, <1>3, <1>5, <1>6, Rebuilt

\* The rows due, read together.
LEMMA SweepReadKeeps ==
    ASSUME SubsIInv, NEW w \in Sweeps, SweepRead(w)
    PROVE  SubsIInv'
<1> DEFINE due == {p \in Pairs : Due(p)}
           rows == {[pair |-> p, sub |-> subs[p]] : p \in due}
           v == [phase |-> "rows", rows |-> rows, at |-> now]
<1>1. /\ sweep' = [sweep EXCEPT ![w] = v]
      /\ UNCHANGED <<tiers, subs, payments, periods, reversed, balance, canceling, now>>
  BY DEF SweepRead
<1>2. ASSUME NEW row \in rows
      PROVE  row \in Row /\ row.sub.status \in {"active", "past_due"} /\ row.sub.end =< now /\ subs[row.pair] # NoRow
  <2>1. PICK p \in due : row = [pair |-> p, sub |-> subs[p]]
    OBVIOUS
  <2>2. p \in Pairs /\ subs[p] # NoRow /\ subs[p].status \in {"active", "past_due"} /\ subs[p].end =< now
    BY DEF Due
  <2>3. subs[p] \in SubRow
    BY <2>2, SubIsRow DEF SubsIInv
  <2> QED
    BY <2>1, <2>2, <2>3 DEF Row
<1> HIDE DEF rows
<1>3. v \in SweepState
  BY <1>2 DEF SweepState, SubsIInv, NowTyped
<1>4. DueRows(v, subs, now) /\ Chosen(v, payments, reversed)
  BY <1>2 DEF DueRows, Chosen, SubsIInv, NowTyped
<1> HIDE DEF v
<1> QED
  BY <1>1, <1>3, <1>4, SweepOnly

\* A key chosen for the next row.
LEMMA SweepKeyKeeps ==
    ASSUME SubsIInv, NEW w \in Sweeps, SweepKey(w)
    PROVE  SubsIInv'
<1>1. PICK row \in sweep[w].rows, again \in 0..Len(payments) :
         /\ NextRow(w, row)
         /\ Renewable(row) /\ ~GraceOver(w, row)
         /\ RenewalKey(row.pair, row.sub.end, again)
         /\ sweep' = [sweep EXCEPT ![w] =
              [phase |-> "charge", rows |-> @.rows, at |-> @.at, row |-> row,
               key |-> [pair |-> row.pair, end |-> row.sub.end, again |-> again]]]
  BY DEF SweepKey
<1> DEFINE key == [pair |-> row.pair, end |-> row.sub.end, again |-> again]
           v == [phase |-> "charge", rows |-> sweep[w].rows, at |-> sweep[w].at, row |-> row, key |-> key]
<1>2. /\ sweep' = [sweep EXCEPT ![w] = v]
      /\ UNCHANGED <<tiers, subs, payments, periods, reversed, balance, canceling, now>>
  BY <1>1 DEF SweepKey
<1>3. sweep[w].rows \subseteq Row /\ sweep[w].at \in Nat /\ row \in Row
  BY <1>1, SweepParts DEF SubsIInv
<1>4. row.pair \in Pairs /\ row.sub.end \in Nat /\ again \in Nat
  BY <1>3, PaymentRows DEF Row, SubRow, SubsIInv
<1>5. key \in RenewalKeys
  BY <1>4 DEF RenewalKeys
<1>6. v \in SweepState
  BY <1>3, <1>5 DEF SweepState
<1>7. DueRows(v, subs, now)
  BY DEF SubsIInv, SweepsSound, DueRows
<1>8. \A n \in 0..(again - 1) : Undone(payments, reversed, [key EXCEPT !.again = n])
  <2> SUFFICES ASSUME NEW n \in 0..(again - 1)
               PROVE  Undone(payments, reversed, [key EXCEPT !.again = n])
    OBVIOUS
  <2>1. [key EXCEPT !.again = n] = [pair |-> row.pair, end |-> row.sub.end, again |-> n]
    OBVIOUS
  <2>2. Posted([pair |-> row.pair, end |-> row.sub.end, again |-> n]) \cap reversed # {}
    BY <1>1 DEF RenewalKey
  <2> QED
    BY <2>1, <2>2 DEF Posted, Undone
<1>9. Chosen(v, payments, reversed)
  BY <1>1, <1>8 DEF Chosen
<1> HIDE DEF v, key
<1> QED
  BY <1>2, <1>6, <1>7, <1>9, SweepOnly

\* A status written, or not, for a pair with a subscription.
LEMMA SetStatusRows ==
    ASSUME SubsIInv, NEW p \in Pairs, subs[p] # NoRow, NEW status \in {"expired", "canceled"}, NEW decidedOn,
           SetStatus(p, status, decidedOn), now' = now
    PROVE  RowsKept
<1>1. CASE ~MayEnd(p, status, decidedOn)
  <2>1. subs' = subs
    BY <1>1 DEF SetStatus
  <2> QED
    BY <2>1, RowsSame DEF SubsIInv, NowTyped
<1>2. CASE MayEnd(p, status, decidedOn)
  <2> DEFINE r == [subs[p] EXCEPT !.status = status, !.auto = FALSE, !.graceUntil = None]
  <2>1. subs[p] \in SubRow
    BY SubIsRow DEF SubsIInv
  <2>2. r \in SubRow /\ r.end = subs[p].end /\ r.status = status
    BY <2>1 DEF SubRow
  <2>3. subs' = [subs EXCEPT ![p] = r]
    BY <1>2 DEF SetStatus
  <2> HIDE DEF r
  <2> QED
    BY <2>2, <2>3, RowChanged
<1> QED
  BY <1>1, <1>2

\* Marked past due only when the period read is still the row's.
LEMMA MarkPastDueRows ==
    ASSUME SubsIInv, NEW p \in Pairs, subs[p] # NoRow, NEW row \in Row, row.sub.end =< now, NEW until \in Nat,
           MarkPastDue(p, row, until), now' = now
    PROVE  RowsKept
<1>1. CASE ~(subs[p].status = row.sub.status /\ subs[p].end = row.sub.end)
  <2>1. subs' = subs
    BY <1>1 DEF MarkPastDue
  <2> QED
    BY <2>1, RowsSame DEF SubsIInv, NowTyped
<1>2. CASE subs[p].status = row.sub.status /\ subs[p].end = row.sub.end
  <2> DEFINE r == [subs[p] EXCEPT !.status = "past_due", !.graceUntil = until]
  <2>1. subs[p] \in SubRow
    BY SubIsRow DEF SubsIInv
  <2>2. r \in SubRow /\ r.end = subs[p].end /\ r.status = "past_due"
    BY <2>1 DEF SubRow
  <2>3. subs' = [subs EXCEPT ![p] = r]
    BY <1>2 DEF MarkPastDue
  <2> HIDE DEF r
  <2> QED
    BY <1>2, <2>2, <2>3, RowChanged
<1> QED
  BY <1>1, <1>2

\* A sweep step that may change one row's status, and is done with the row.
LEMMA SweepStatus ==
    ASSUME SubsIInv, RowsKept, NEW w \in Sweeps, NEW row, After(w, row),
           UNCHANGED <<tiers, payments, periods, reversed, balance, canceling, now>>
    PROVE  SubsIInv'
<1>1. /\ Lasting /\ PaymentsTyped' /\ SubsTyped' /\ NowTyped' /\ PeriodsSound' /\ KeysSound'
  BY StatusKeeps DEF SubsIInv, NowTyped
<1>2. CancelTyped' /\ CancelSound' /\ SweepsTyped' /\ SweepsSound'
  BY <1>1, CancelLasts, AfterSound DEF SubsIInv
<1>3. TiersTyped' /\ BalanceTyped'
  BY DEF SubsIInv, TiersTyped, BalanceTyped
<1> QED
  BY <1>1, <1>2, <1>3, Rebuilt

\* A row of a sweep.
LEMMA SweepRow ==
    ASSUME SubsIInv, NEW w \in Sweeps, NEW row \in sweep[w].rows
    PROVE  /\ row \in Row /\ row.pair \in Pairs /\ subs[row.pair] # NoRow /\ row.sub.end \in Nat
           /\ row.sub.price \in Nat /\ row.sub.end =< sweep[w].at /\ sweep[w].at =< now /\ row.sub.end =< now
           /\ sweep[w].at \in Nat /\ row.sub.graceUntil \in Nat \cup {None}
<1>1. row \in Row /\ sweep[w].at \in Nat
  BY SweepParts DEF SubsIInv
<1>2. row.pair \in Pairs /\ row.sub.end \in Nat /\ row.sub.price \in Nat /\ row.sub.graceUntil \in Nat \cup {None}
  BY <1>1 DEF Row, SubRow
<1>3. row.sub.end =< sweep[w].at /\ sweep[w].at =< now /\ subs[row.pair] # NoRow
  BY DEF SubsIInv, SweepsSound, DueRows
<1> QED
  BY <1>1, <1>2, <1>3 DEF SubsIInv, NowTyped

\* Rows ended without a renewal.
LEMMA SweepEndKeeps ==
    ASSUME SubsIInv, NEW w \in Sweeps, SweepEnd(w)
    PROVE  SubsIInv'
<1>1. PICK row \in sweep[w].rows :
         /\ \/ subs' = subs
            \/ \E status \in {"expired", "canceled"}, decidedOn \in {None, row.sub.end} :
                 SetStatus(row.pair, status, decidedOn)
         /\ After(w, row)
         /\ UNCHANGED <<tiers, payments, periods, reversed, balance, canceling, now>>
  BY DEF SweepEnd
<1>2. RowsKept
  <2>1. CASE subs' = subs
    BY <1>1, <2>1, RowsSame DEF SubsIInv, NowTyped
  <2>2. CASE \E status \in {"expired", "canceled"}, decidedOn \in {None, row.sub.end} :
               SetStatus(row.pair, status, decidedOn)
    BY <1>1, <2>2, SweepRow, SetStatusRows
  <2> QED
    BY <1>1, <2>1, <2>2
<1> QED
  BY <1>1, <1>2, SweepStatus

\* What a sweep holds while it renews a row.
LEMMA SweepHolds ==
    ASSUME SubsIInv, NEW w \in Sweeps, sweep[w].phase \in {"charge", "refused"}
    PROVE  /\ sweep[w].row \in sweep[w].rows /\ sweep[w].key \in RenewalKeys /\ Renewable(sweep[w].row)
           /\ sweep[w].key.pair = sweep[w].row.pair
           /\ \A n \in 0..(sweep[w].key.again - 1) : Undone(payments, reversed, [sweep[w].key EXCEPT !.again = n])
  BY SweepParts DEF SubsIInv, SweepsSound, Chosen

\* A record of five fields with another phase.
LEMMA RefusedOf ==
    ASSUME NEW x, NEW a, NEW b, NEW c, NEW d, NEW e,
           x = [phase |-> a, rows |-> b, at |-> c, row |-> d, key |-> e]
    PROVE  [x EXCEPT !.phase = "refused"] = [phase |-> "refused", rows |-> b, at |-> c, row |-> d, key |-> e]
  OBVIOUS

\* The renewal charged, replayed or refused.
LEMMA SweepChargeKeeps ==
    ASSUME SubsIInv, NEW w \in Sweeps, SweepCharge(w)
    PROVE  SubsIInv'
<1> DEFINE row == sweep[w].row
           p == row.pair
           key == sweep[w].key
           v == [sweep[w] EXCEPT !.phase = "refused"]
<1>1. \/ /\ After(w, row)
         /\ UNCHANGED <<tiers, subs, payments, periods, reversed, balance, canceling, now>>
      \/ /\ Posted(key) = {}
         /\ PayFromCredit(p, key, CurrentTier(p), row.sub.price, TRUE)
         /\ After(w, row)
      \/ /\ sweep' = [sweep EXCEPT ![w] = v]
         /\ UNCHANGED <<tiers, subs, payments, periods, reversed, balance, canceling, now>>
  BY DEF SweepCharge
<1>2. sweep[w].phase = "charge"
  BY DEF SweepCharge
<1>3. /\ row \in sweep[w].rows /\ key \in RenewalKeys /\ Renewable(row) /\ key.pair = p
      /\ \A n \in 0..(key.again - 1) : Undone(payments, reversed, [key EXCEPT !.again = n])
  BY <1>2, SweepHolds
<1>4. row \in Row /\ p \in Pairs /\ row.sub.price \in Nat
  BY <1>3, SweepRow
<1>5. CASE /\ After(w, row)
           /\ UNCHANGED <<tiers, subs, payments, periods, reversed, balance, canceling, now>>
  BY <1>5, RowsSame, SweepStatus DEF SubsIInv, NowTyped
<1>6. CASE /\ Posted(key) = {}
           /\ PayFromCredit(p, key, CurrentTier(p), row.sub.price, TRUE)
           /\ After(w, row)
  <2>1. CurrentTier(p) \in Tiers
    BY <1>4, CurrentTierTyped DEF SubsIInv
  <2>2. /\ Lasting
        /\ TiersTyped' /\ SubsTyped' /\ PaymentsTyped' /\ NowTyped' /\ CancelTyped' /\ BalanceTyped'
        /\ PeriodsSound' /\ KeysSound' /\ CancelSound'
    BY <1>3, <1>4, <1>6, <2>1, PayKeeps
  <2> HIDE DEF row, p, key
  <2>3. SweepsTyped' /\ SweepsSound'
    BY <1>6, <2>2, AfterSound DEF SubsIInv
  <2> QED
    BY <2>2, <2>3, Rebuilt
<1>7. CASE /\ sweep' = [sweep EXCEPT ![w] = v]
           /\ UNCHANGED <<tiers, subs, payments, periods, reversed, balance, canceling, now>>
  <2>1. v = [phase |-> "refused", rows |-> sweep[w].rows, at |-> sweep[w].at, row |-> row, key |-> key]
    <3>1. sweep[w] = [phase |-> sweep[w].phase, rows |-> sweep[w].rows, at |-> sweep[w].at,
                      row |-> sweep[w].row, key |-> sweep[w].key]
      BY <1>2, SweepParts DEF SubsIInv
    <3> QED
      BY <3>1, RefusedOf
  <2>2. v \in SweepState
    BY <1>2, <2>1, <1>3, <1>4, SweepParts DEF SubsIInv, SweepState
  <2>3. DueRows(v, subs, now)
    BY <2>1 DEF SubsIInv, SweepsSound, DueRows
  <2>4. Chosen(v, payments, reversed)
    BY <2>1, <1>2 DEF SubsIInv, SweepsSound, Chosen
  <2> HIDE DEF v
  <2> QED
    BY <1>7, <2>2, <2>3, <2>4, SweepOnly
<1> QED
  BY <1>1, <1>5, <1>6, <1>7

\* A refused renewal: past due while its grace lasts, then ended.
LEMMA SweepRefusedKeeps ==
    ASSUME SubsIInv, NEW w \in Sweeps, SweepRefused(w)
    PROVE  SubsIInv'
<1> DEFINE row == sweep[w].row
           p == row.pair
           until == IF row.sub.graceUntil # None THEN row.sub.graceUntil ELSE row.sub.end + Grace
<1>1. /\ sweep[w].phase = "refused"
      /\ MarkPastDue(p, row, until) \/ SetStatus(p, "expired", row.sub.end)
      /\ After(w, row)
      /\ UNCHANGED <<tiers, payments, periods, reversed, balance, canceling, now>>
  BY DEF SweepRefused
<1>2. row \in sweep[w].rows
  BY <1>1, SweepHolds
<1>3. /\ row \in Row /\ p \in Pairs /\ subs[p] # NoRow /\ row.sub.end =< now
      /\ row.sub.end \in Nat /\ row.sub.graceUntil \in Nat \cup {None}
  BY <1>2, SweepRow
<1>4. until \in Nat
  BY <1>3, SubscriptionsAssumption
<1> HIDE DEF until, row
<1>5. RowsKept
  BY <1>1, <1>3, <1>4, MarkPastDueRows, SetStatusRows
<1> QED
  BY <1>1, <1>5, SweepStatus

\* Every step keeps the invariant.
LEMMA SubsInductive == SubsIInv /\ [Next]_vars => SubsIInv'
<1> SUFFICES ASSUME SubsIInv, [Next]_vars PROVE SubsIInv'
  OBVIOUS
<1>1. ASSUME NEW c \in TierChanges, SetTier(c[1], c[2], c[3], c[4]) PROVE SubsIInv'
  BY <1>1, SetTierKeeps
<1>2. CASE PayNext
  BY <1>2, SubscribeKeeps, SubscribeAtKeeps, SettleKeeps DEF PayNext
<1>3. CASE CancelNext
  BY <1>3, CancelReadKeeps, CancelRefusedKeeps, CancelWriteKeeps DEF CancelNext
<1>4. CASE ReversalNext
  BY <1>4, RefundKeeps, ReverseKeeps, CashOutKeeps DEF ReversalNext
<1>5. ASSUME NEW w \in Sweeps, SweepStep(w) PROVE SubsIInv'
  BY <1>5, SweepReadKeeps, SweepEndKeeps, SweepKeyKeeps, SweepChargeKeeps, SweepRefusedKeeps DEF SweepStep
<1>6. CASE Tick \/ UNCHANGED vars
  BY <1>6, TickKeeps
<1> QED
  BY <1>1, <1>2, <1>3, <1>4, <1>5, <1>6 DEF Next

\* So it always holds.
LEMMA SubsAlways == Spec => []SubsIInv
  BY SubsInitial, SubsInductive, PTL DEF Spec

\* Nobody pays twice for a day, and a subscription runs exactly as far as its payments
\* that stand, through overlapping sweeps, refunds of single periods and cancellations.
THEOREM PeriodsAgree == Spec => []PeriodsInv
<1>1. SubsIInv => PeriodsInv
  BY TypesMean DEF SubsIInv, PeriodsInv, PeriodsSound
<1> QED
  BY <1>1, SubsAlways, PTL

\* One end is renewed by one charge that stands, however many sweeps overlap.
THEOREM RenewedOnceOnly == Spec => []RenewedOnce
<1>1. SubsIInv => RenewedOnce
  BY KeysRenewOnce DEF SubsIInv
<1> QED
  BY <1>1, SubsAlways, PTL

----------------------------------------------------------------------------
(* A renewal paid meanwhile wins.                                          *)

\* Of all sweeps and rows, a step done with a row drops only that one.
LEMMA OnlyThatRow ==
    ASSUME SweepsTyped, NEW w \in Sweeps, NEW row, After(w, row),
           NEW u \in Sweeps, NEW x \in sweep[u].rows, x \notin sweep'[u].rows
    PROVE  u = w /\ x = row
<1> DEFINE rest == sweep[w].rows \ {row}
           v == IF rest = {} THEN Idle ELSE [phase |-> "rows", rows |-> rest, at |-> sweep[w].at]
<1>1. sweep' = [sweep EXCEPT ![w] = v]
  BY DEF After
<1>2. v.rows = rest
  BY DEF Idle
<1> HIDE DEF v
<1>3. sweep'[u] = IF u = w THEN v ELSE sweep[u]
  BY <1>1 DEF SweepsTyped
<1> QED
  BY <1>2, <1>3

\* An ending decided on a period end ends nothing that ends later.
LEMMA EndsOnlyDecided ==
    ASSUME SubsIInv, NEW p \in Pairs, subs[p] # NoRow, NEW end \in Nat, end =< now, NEW status,
           SetStatus(p, status, end), subs'[p].status = "expired"
    PROVE  subs[p].status = "expired" \/ subs[p].end =< now
<1>1. CASE MayEnd(p, status, end)
  <2>1. end # None
    BY SubscriptionsAssumption
  <2> QED
    BY <1>1, <2>1 DEF MayEnd
<1>2. CASE ~MayEnd(p, status, end)
  BY <1>2 DEF SetStatus
<1> QED
  BY <1>1, <1>2

\* What RenewalWins says of one step.
WinsNow ==
    \A w \in Sweeps : \A row \in sweep[w].rows :
        row \notin sweep'[w].rows /\ Renewable(row) /\ subs'[row.pair].status = "expired"
            => subs[row.pair].status = "expired" \/ subs[row.pair].end =< now

\* A step done with a row whose renewal was decided on the period it still has.
LEMMA WinsAfter ==
    ASSUME SubsIInv, NEW w \in Sweeps, NEW row \in sweep[w].rows, After(w, row),
           Renewable(row) /\ subs'[row.pair].status = "expired"
                => subs[row.pair].status = "expired" \/ subs[row.pair].end =< now
    PROVE  WinsNow
  BY OnlyThatRow DEF SubsIInv, WinsNow

\* Rows ended without a charge.
LEMMA WinsEnd == ASSUME SubsIInv, NEW w \in Sweeps, SweepEnd(w) PROVE WinsNow
<1>1. PICK row \in sweep[w].rows :
         /\ Renewable(row) => SetStatus(row.pair, "expired", row.sub.end)
         /\ After(w, row)
  BY DEF SweepEnd, Renewable
<1>2. row.pair \in Pairs /\ subs[row.pair] # NoRow /\ row.sub.end \in Nat /\ row.sub.end =< now
  BY SweepRow
<1> QED
  BY <1>1, <1>2, EndsOnlyDecided, WinsAfter

\* A charge never expires the row it is done with.
LEMMA WinsCharge == ASSUME SubsIInv, NEW w \in Sweeps, SweepCharge(w) PROVE WinsNow
<1> DEFINE row == sweep[w].row
           p == row.pair
<1>1. row \in sweep[w].rows
  BY SweepHolds DEF SweepCharge
<1>2. CASE After(w, row) /\ subs' = subs
  BY <1>1, <1>2, WinsAfter
<1>3. CASE After(w, row) /\ PayFromCredit(p, sweep[w].key, CurrentTier(p), row.sub.price, TRUE)
  <2>1. p \in Pairs
    BY <1>1, SweepRow
  <2>2. subs'[p].status = "active"
    BY <1>3, <2>1 DEF PayFromCredit, Grant, SubsIInv, SubsTyped
  <2> HIDE DEF row
  <2> QED
    BY <1>1, <1>3, <2>2, WinsAfter
<1>4. CASE sweep' = [sweep EXCEPT ![w].phase = "refused"]
  <2>1. \A u \in Sweeps : sweep'[u].rows = sweep[u].rows
    <3> SUFFICES ASSUME NEW u \in Sweeps PROVE sweep'[u].rows = sweep[u].rows
      OBVIOUS
    <3>1. CASE u # w
      BY <1>4, <3>1 DEF SubsIInv, SweepsTyped
    <3>2. CASE u = w
      <4> DEFINE v == [sweep[w] EXCEPT !.phase = "refused"]
      <4>1. sweep'[w] = v
        BY <1>4 DEF SubsIInv, SweepsTyped
      <4>2. sweep[w] = [phase |-> sweep[w].phase, rows |-> sweep[w].rows, at |-> sweep[w].at,
                        row |-> sweep[w].row, key |-> sweep[w].key]
        BY SweepParts DEF SubsIInv, SweepCharge
      <4>3. v = [phase |-> "refused", rows |-> sweep[w].rows, at |-> sweep[w].at,
                 row |-> sweep[w].row, key |-> sweep[w].key]
        BY <4>2, RefusedOf
      <4> HIDE DEF v
      <4> QED
        BY <3>2, <4>1, <4>3
    <3> QED
      BY <3>1, <3>2
  <2> QED
    BY <2>1 DEF WinsNow
<1> QED
  BY <1>2, <1>3, <1>4 DEF SweepCharge

\* A refused charge expires the row only at the end it was decided on.
LEMMA WinsRefused == ASSUME SubsIInv, NEW w \in Sweeps, SweepRefused(w) PROVE WinsNow
<1> DEFINE row == sweep[w].row
           p == row.pair
<1>1. row \in sweep[w].rows
  BY SweepHolds DEF SweepRefused
<1>2. p \in Pairs /\ subs[p] # NoRow /\ row.sub.end \in Nat /\ row.sub.end =< now
  BY <1>1, SweepRow
<1>3. /\ After(w, row)
      /\ (\E until : MarkPastDue(p, row, until)) \/ SetStatus(p, "expired", row.sub.end)
  BY DEF SweepRefused
<1>4. CASE SetStatus(p, "expired", row.sub.end)
  <2> HIDE DEF row
  <2> QED
    BY <1>1, <1>2, <1>3, <1>4, EndsOnlyDecided, WinsAfter
<1>5. CASE \E until : MarkPastDue(p, row, until)
  <2>1. PICK until : MarkPastDue(p, row, until)
    BY <1>5
  <2> HIDE DEF row
  <2>2. subs' = subs \/ subs' = [subs EXCEPT ![p] = [@ EXCEPT !.status = "past_due", !.graceUntil = until]]
    BY <2>1 DEF MarkPastDue
  <2>3. subs'[p] = subs[p] \/ subs'[p] = [subs[p] EXCEPT !.status = "past_due", !.graceUntil = until]
    BY <1>2, <2>2 DEF SubsIInv, SubsTyped
  <2>4. subs[p] \in SubRow
    BY <1>2, SubIsRow DEF SubsIInv
  <2>5. subs'[p].status = subs[p].status \/ subs'[p].status = "past_due"
    BY <2>3, <2>4 DEF SubRow
  <2> QED
    BY <1>1, <1>3, <2>5, WinsAfter
<1> QED
  BY <1>3, <1>4, <1>5

\* Every step.
LEMMA WinsStep == SubsIInv /\ [Next]_vars => [WinsNow]_vars
<1> SUFFICES ASSUME SubsIInv, [Next]_vars PROVE WinsNow
  OBVIOUS
<1>1. CASE sweep' = sweep
  BY <1>1 DEF WinsNow
<1>2. ASSUME NEW w \in Sweeps, SweepStep(w) PROVE WinsNow
  <2>1. CASE SweepRead(w)
    <3>1. sweep[w].rows = {} /\ \A u \in Sweeps \ {w} : sweep'[u] = sweep[u]
      BY <2>1 DEF SweepRead, Idle, SubsIInv, SweepsTyped
    <3> QED
      BY <3>1 DEF WinsNow
  <2>2. CASE SweepKey(w)
    <3>1. \A u \in Sweeps : sweep'[u].rows = sweep[u].rows
      BY <2>2 DEF SweepKey, SubsIInv, SweepsTyped
    <3> QED
      BY <3>1 DEF WinsNow
  <2> QED
    BY <1>2, <2>1, <2>2, WinsEnd, WinsCharge, WinsRefused DEF SweepStep
<1>3. (\E w \in Sweeps : SweepStep(w)) \/ sweep' = sweep
  <2>1. CASE PayNext
    BY <2>1 DEF PayNext, Subscribe, SubscribeAt, SettleReceipt
  <2>2. CASE CancelNext
    BY <2>2 DEF CancelNext, CancelRead, CancelRefused, CancelWrite
  <2>3. CASE ReversalNext
    BY <2>3 DEF ReversalNext, RefundCreditPeriod, ReverseReceipt, CashOut
  <2> QED
    BY <2>1, <2>2, <2>3 DEF Next, SetTier, Tick, vars
<1> QED
  BY <1>1, <1>2, <1>3

\* A sweep's ending, decided on a period nobody had renewed, spares one renewed since.
THEOREM PaidRenewalWins == Spec => RenewalWins
<1>1. SubsIInv /\ [Next]_vars =>
        [\A w \in Sweeps : \A row \in sweep[w].rows :
           row \notin sweep'[w].rows /\ Renewable(row) /\ subs'[row.pair].status = "expired"
             => subs[row.pair].status = "expired" \/ subs[row.pair].end =< now]_vars
  BY WinsStep DEF WinsNow
<1> QED
  BY <1>1, SubsInitial, SubsInductive, PTL DEF Spec, RenewalWins

----------------------------------------------------------------------------
(* Money.                                                                  *)

\* The payments that stand of one subscriber, and those paid in Vibes.
PaidBy(P, R, u) == {i \in DOMAIN P \ R : P[i].pair[1] = u}
InVibes(P, R) == {i \in DOMAIN P \ R : P[i].receipt = None}

\* What they cost, and what the platform keeps of them.
CostsOf(P, R, u) == SumOver([i \in PaidBy(P, R, u) |-> P[i].cost], PaidBy(P, R, u))
MarginOf(P, R) == SumOver([i \in InVibes(P, R) |-> P[i].cost - P[i].share], InVibes(P, R))

\* A receipt's period costs no credit.
ReceiptsFree == \A i \in DOMAIN payments : payments[i].receipt # None => payments[i].cost = 0

MoneySound ==
    /\ \A u \in Subscribers : balance[Credit(u)] = Funds - CostsOf(payments, reversed, u)
    /\ balance[Revenue] = MarginOf(payments, reversed)
    /\ \A s \in Streamers : balance[Payable(s)] >= 0
    /\ SumOver(balance, Accounts) = Funds * Cardinality(Subscribers)
    /\ ReceiptsFree

\* RefundsAddUp, in terms of these sums.
LEMMA MoneyMeans == MoneySound <=> RefundsAddUp /\ ReceiptsFree
  BY DEF MoneySound, RefundsAddUp, CostsOf, MarginOf, PaidBy, InVibes

\* The accounts are finitely many.
LEMMA AccountsFinite ==
    /\ IsFiniteSet(Accounts)
    /\ IsFiniteSet({Credit(u) : u \in Subscribers})
    /\ Cardinality({Credit(u) : u \in Subscribers}) = Cardinality(Subscribers)
<1> DEFINE C == {Credit(u) : u \in Subscribers}
           L == {Payable(s) : s \in Streamers}
           G == {Pending(s) : s \in Streamers}
<1>1. IsFiniteSet(Subscribers) /\ IsFiniteSet(Streamers)
  BY PairParts
<1>2. IsFiniteSet(C) /\ Cardinality(C) = Cardinality(Subscribers)
  <2> DEFINE f == [u \in Subscribers |-> Credit(u)]
  <2>1. f \in [Subscribers -> C] /\ \A y \in C : \E u \in Subscribers : f[u] = y
    OBVIOUS
  <2>2. \A u, v \in Subscribers : f[u] = f[v] => u = v
    BY DEF Credit
  <2> HIDE DEF f, C
  <2> QED
    BY <1>1, <2>1, <2>2, FiniteImage, ImageSize
<1>3. IsFiniteSet(L)
  <2> DEFINE f == [s \in Streamers |-> Payable(s)]
  <2>1. f \in [Streamers -> L] /\ \A y \in L : \E s \in Streamers : f[s] = y
    OBVIOUS
  <2> HIDE DEF f, L
  <2> QED
    BY <1>1, <2>1, FiniteImage
<1>4. IsFiniteSet(G)
  <2> DEFINE f == [s \in Streamers |-> Pending(s)]
  <2>1. f \in [Streamers -> G] /\ \A y \in G : \E s \in Streamers : f[s] = y
    OBVIOUS
  <2> HIDE DEF f, G
  <2> QED
    BY <1>1, <2>1, FiniteImage
<1>5. Accounts = ((C \cup L) \cup G) \cup ({Revenue} \cup {Fx})
  BY DEF Accounts
<1> HIDE DEF C, L, G
<1>6. IsFiniteSet({Revenue}) /\ IsFiniteSet({Fx})
  BY FS_Singleton
<1>7. IsFiniteSet({Revenue} \cup {Fx}) /\ IsFiniteSet(C \cup L)
  BY <1>2, <1>3, <1>6, FS_Union
<1>8. IsFiniteSet((C \cup L) \cup G)
  BY <1>4, <1>7, FS_Union
<1>9. IsFiniteSet(Accounts)
  BY <1>5, <1>7, <1>8, FS_Union
<1> QED
  BY <1>2, <1>9 DEF C

\* The accounts are all different.
LEMMA AccountsDiffer ==
    /\ \A u, s : Credit(u) # Payable(s) /\ Credit(u) # Revenue /\ Credit(u) # Fx /\ Credit(u) # Pending(s)
    /\ \A s, t : Payable(s) # Revenue /\ Payable(s) # Fx /\ Payable(s) # Pending(t) /\ Pending(s) # Revenue
    /\ Revenue # Fx
    /\ \A u, v : Credit(u) = Credit(v) => u = v
    /\ \A s, t : Payable(s) = Payable(t) => s = t
  BY DEF Credit, Payable, Pending, Revenue, Fx

\* One posting.
AddTo(b, a, x) == [b EXCEPT ![a] = @ + x]

\* It changes one balance, and the total by its amount.
LEMMA AddToSum ==
    ASSUME NEW b \in [Accounts -> Int], NEW a \in Accounts, NEW x \in Int
    PROVE  /\ AddTo(b, a, x) \in [Accounts -> Int]
           /\ AddTo(b, a, x)[a] = b[a] + x
           /\ \A c \in Accounts \ {a} : AddTo(b, a, x)[c] = b[c]
           /\ SumOver(AddTo(b, a, x), Accounts) = SumOver(b, Accounts) + x
           /\ SumOver(b, Accounts) \in Int
<1> DEFINE e == AddTo(b, a, x)
<1>1. e \in [Accounts -> Int] /\ e[a] = b[a] + x /\ \A c \in Accounts \ {a} : e[c] = b[c]
  BY DEF AddTo
<1> HIDE DEF e
<1>2. SumFunctionOnSet(b, Accounts) \in Int
  BY AccountsFinite, SumType
<1>3. SumFunctionOnSet(e, Accounts) = SumFunctionOnSet(b, Accounts) - b[a] + e[a]
  <2>1. \A c \in Accounts : b[c] \in Int /\ e[c] \in Int
    BY <1>1
  <2> QED
    BY <1>1, <2>1, AccountsFinite, SumChange
<1>4. b[a] \in Int
  OBVIOUS
<1> QED
  BY <1>1, <1>2, <1>3, <1>4 DEF SumOver, e

\* One payment more in a sum over payments.
LEMMA OneMore ==
    ASSUME NEW A, IsFiniteSet(A), NEW i, i \notin A, NEW f, NEW g,
           \A y \in A : f[y] \in Int /\ g[y] = f[y], g[i] \in Int
    PROVE  SumFunctionOnSet(g, A \cup {i}) = SumFunctionOnSet(f, A) + g[i]
<1>1. SumFunctionOnSet(g, A) = SumFunctionOnSet(f, A)
  BY SumSame
<1>2. SumFunctionOnSet(g, A \cup {i}) = SumFunctionOnSet(g, A) + g[i]
  BY SumAdd
<1> QED
  BY <1>1, <1>2

\* A payment posted counts for its subscriber, and for the platform if paid in Vibes.
LEMMA PaymentCounts ==
    ASSUME PaymentsTyped, NEW payment \in Payment, payments' = Append(payments, payment), reversed' = reversed
    PROVE  /\ \A u \in Subscribers :
                /\ CostsOf(payments, reversed, u) \in Int
                /\ CostsOf(payments', reversed', u) =
                     CostsOf(payments, reversed, u) + (IF payment.pair[1] = u THEN payment.cost ELSE 0)
           /\ MarginOf(payments, reversed) \in Int
           /\ MarginOf(payments', reversed') =
                MarginOf(payments, reversed) + (IF payment.receipt = None THEN payment.cost - payment.share ELSE 0)
<1> DEFINE n == Len(payments) + 1
<1>1. /\ DOMAIN payments' = 1..n /\ DOMAIN payments = 1..Len(payments) /\ Len(payments) \in Nat
      /\ \A i \in DOMAIN payments : payments'[i] = payments[i] /\ i \in DOMAIN payments'
      /\ payments'[n] = payment /\ n \notin DOMAIN payments /\ n \in DOMAIN payments'
      /\ \A i \in DOMAIN payments' : i \in DOMAIN payments \/ i = n
  BY Appended DEF PaymentsTyped
<1>2. n \notin reversed /\ IsFiniteSet(DOMAIN payments)
  BY <1>1, FS_Interval DEF PaymentsTyped
<1>3. \A i \in DOMAIN payments : payments[i].cost \in Int /\ payments[i].share \in Int
  BY PaymentRows DEF Payment
<1>4. payment.cost \in Int /\ payment.share \in Int
  BY DEF Payment
<1> HIDE DEF n
<1>5. ASSUME NEW u \in Subscribers
      PROVE  /\ CostsOf(payments, reversed, u) \in Int
             /\ CostsOf(payments', reversed', u) =
                  CostsOf(payments, reversed, u) + (IF payment.pair[1] = u THEN payment.cost ELSE 0)
  <2> DEFINE A == PaidBy(payments, reversed, u)
             B == PaidBy(payments', reversed', u)
             f == [i \in A |-> payments[i].cost]
             g == [i \in B |-> payments'[i].cost]
             counts == payment.pair[1] = u
  <2>1. B = IF counts THEN A \cup {n} ELSE A
    BY <1>1, <1>2 DEF PaidBy
  <2>2. IsFiniteSet(A) /\ n \notin A
    BY <1>1, <1>2, FS_Subset DEF PaidBy
  <2>3. \A y \in A : f[y] \in Int /\ g[y] = f[y]
    BY <1>1, <1>3, <2>1 DEF PaidBy
  <2>4. counts => g[n] = payment.cost
    BY <1>1, <2>1
  <2>5. /\ CostsOf(payments, reversed, u) = SumFunctionOnSet(f, A)
        /\ CostsOf(payments', reversed', u) = SumFunctionOnSet(g, B)
    BY Zenon DEF CostsOf, SumOver
  <2> HIDE DEF A, B, f, g
  <2>6. SumFunctionOnSet(g, B) = SumFunctionOnSet(f, A) + (IF counts THEN g[n] ELSE 0)
        /\ SumFunctionOnSet(f, A) \in Int
    <3>1. SumFunctionOnSet(f, A) \in Int
      BY <2>2, <2>3, SumType
    <3>2. CASE counts
      <4>1. B = A \cup {n} /\ g[n] \in Int
        BY <1>4, <2>1, <2>4, <3>2
      <4>2. SumFunctionOnSet(g, A \cup {n}) = SumFunctionOnSet(f, A) + g[n]
        BY <2>2, <2>3, <4>1, OneMore
      <4> QED
        BY <3>1, <3>2, <4>1, <4>2
    <3>3. CASE ~counts
      <4>1. SumFunctionOnSet(g, A) = SumFunctionOnSet(f, A) /\ B = A
        BY <2>1, <2>2, <2>3, <3>3, SumSame
      <4> QED
        BY <3>1, <3>3, <4>1
    <3> QED
      BY <3>2, <3>3
  <2> QED
    BY <2>4, <2>5, <2>6
<1>6. /\ MarginOf(payments, reversed) \in Int
      /\ MarginOf(payments', reversed') =
           MarginOf(payments, reversed) + (IF payment.receipt = None THEN payment.cost - payment.share ELSE 0)
  <2> DEFINE A == InVibes(payments, reversed)
             B == InVibes(payments', reversed')
             f == [i \in A |-> payments[i].cost - payments[i].share]
             g == [i \in B |-> payments'[i].cost - payments'[i].share]
             counts == payment.receipt = None
  <2>1. B = IF counts THEN A \cup {n} ELSE A
    BY <1>1, <1>2 DEF InVibes
  <2>2. IsFiniteSet(A) /\ n \notin A
    BY <1>1, <1>2, FS_Subset DEF InVibes
  <2>3. \A y \in A : f[y] \in Int /\ g[y] = f[y]
    BY <1>1, <1>3, <2>1 DEF InVibes
  <2>4. counts => g[n] = payment.cost - payment.share
    BY <1>1, <2>1
  <2>5. /\ MarginOf(payments, reversed) = SumFunctionOnSet(f, A)
        /\ MarginOf(payments', reversed') = SumFunctionOnSet(g, B)
    BY Zenon DEF MarginOf, SumOver
  <2> HIDE DEF A, B, f, g
  <2>6. SumFunctionOnSet(g, B) = SumFunctionOnSet(f, A) + (IF counts THEN g[n] ELSE 0)
        /\ SumFunctionOnSet(f, A) \in Int
    <3>1. SumFunctionOnSet(f, A) \in Int
      BY <2>2, <2>3, SumType
    <3>2. CASE counts
      <4>1. B = A \cup {n} /\ g[n] \in Int
        BY <1>4, <2>1, <2>4, <3>2
      <4>2. SumFunctionOnSet(g, A \cup {n}) = SumFunctionOnSet(f, A) + g[n]
        BY <2>2, <2>3, <4>1, OneMore
      <4> QED
        BY <3>1, <3>2, <4>1, <4>2
    <3>3. CASE ~counts
      <4>1. SumFunctionOnSet(g, A) = SumFunctionOnSet(f, A) /\ B = A
        BY <2>1, <2>2, <2>3, <3>3, SumSame
      <4> QED
        BY <3>1, <3>3, <4>1
    <3> QED
      BY <3>2, <3>3
  <2> QED
    BY <2>4, <2>5, <2>6
<1> QED
  BY <1>5, <1>6

\* A payment reversed no longer counts.
LEMMA ReversalCounts ==
    ASSUME PaymentsTyped, NEW i \in DOMAIN payments, i \notin reversed,
           payments' = payments, reversed' = reversed \cup {i}
    PROVE  /\ \A u \in Subscribers :
                /\ CostsOf(payments, reversed, u) \in Int
                /\ CostsOf(payments', reversed', u) =
                     CostsOf(payments, reversed, u) - (IF payments[i].pair[1] = u THEN payments[i].cost ELSE 0)
           /\ MarginOf(payments, reversed) \in Int
           /\ MarginOf(payments', reversed') =
                MarginOf(payments, reversed)
                    - (IF payments[i].receipt = None THEN payments[i].cost - payments[i].share ELSE 0)
<1>1. IsFiniteSet(DOMAIN payments)
  <2>1. DOMAIN payments = 1..Len(payments) /\ Len(payments) \in Int
    BY PaymentRows
  <2> QED
    BY <2>1, FS_Interval
<1>2. \A j \in DOMAIN payments : payments[j].cost \in Int /\ payments[j].share \in Int
  BY PaymentRows DEF Payment
<1>3. ASSUME NEW u \in Subscribers
      PROVE  /\ CostsOf(payments, reversed, u) \in Int
             /\ CostsOf(payments', reversed', u) =
                  CostsOf(payments, reversed, u) - (IF payments[i].pair[1] = u THEN payments[i].cost ELSE 0)
  <2> DEFINE A == PaidBy(payments', reversed', u)
             B == PaidBy(payments, reversed, u)
             f == [j \in A |-> payments'[j].cost]
             g == [j \in B |-> payments[j].cost]
             counts == payments[i].pair[1] = u
  <2>1. B = IF counts THEN A \cup {i} ELSE A
    BY DEF PaidBy
  <2>2. IsFiniteSet(A) /\ i \notin A
    BY <1>1, FS_Subset DEF PaidBy
  <2>3. \A y \in A : f[y] \in Int /\ g[y] = f[y]
    BY <1>2, <2>1 DEF PaidBy
  <2>4. counts => g[i] = payments[i].cost
    BY <2>1
  <2>5. /\ CostsOf(payments, reversed, u) = SumFunctionOnSet(g, B)
        /\ CostsOf(payments', reversed', u) = SumFunctionOnSet(f, A)
    BY Zenon DEF CostsOf, SumOver
  <2> HIDE DEF A, B, f, g
  <2>6. SumFunctionOnSet(g, B) = SumFunctionOnSet(f, A) + (IF counts THEN g[i] ELSE 0)
        /\ SumFunctionOnSet(f, A) \in Int
    <3>1. SumFunctionOnSet(f, A) \in Int
      BY <2>2, <2>3, SumType
    <3>2. CASE counts
      <4>1. B = A \cup {i} /\ g[i] \in Int
        BY <1>2, <2>1, <2>4, <3>2
      <4>2. SumFunctionOnSet(g, A \cup {i}) = SumFunctionOnSet(f, A) + g[i]
        BY <2>2, <2>3, <4>1, OneMore
      <4> QED
        BY <3>1, <3>2, <4>1, <4>2
    <3>3. CASE ~counts
      <4>1. SumFunctionOnSet(g, A) = SumFunctionOnSet(f, A) /\ B = A
        BY <2>1, <2>2, <2>3, <3>3, SumSame
      <4> QED
        BY <3>1, <3>3, <4>1
    <3> QED
      BY <3>2, <3>3
  <2> QED
    BY <1>2, <2>4, <2>5, <2>6
<1>4. /\ MarginOf(payments, reversed) \in Int
      /\ MarginOf(payments', reversed') =
           MarginOf(payments, reversed)
               - (IF payments[i].receipt = None THEN payments[i].cost - payments[i].share ELSE 0)
  <2> DEFINE A == InVibes(payments', reversed')
             B == InVibes(payments, reversed)
             f == [j \in A |-> payments'[j].cost - payments'[j].share]
             g == [j \in B |-> payments[j].cost - payments[j].share]
             counts == payments[i].receipt = None
  <2>1. B = IF counts THEN A \cup {i} ELSE A
    BY DEF InVibes
  <2>2. IsFiniteSet(A) /\ i \notin A
    BY <1>1, FS_Subset DEF InVibes
  <2>3. \A y \in A : f[y] \in Int /\ g[y] = f[y]
    BY <1>2, <2>1 DEF InVibes
  <2>4. counts => g[i] = payments[i].cost - payments[i].share
    BY <2>1
  <2>5. /\ MarginOf(payments, reversed) = SumFunctionOnSet(g, B)
        /\ MarginOf(payments', reversed') = SumFunctionOnSet(f, A)
    BY Zenon DEF MarginOf, SumOver
  <2> HIDE DEF A, B, f, g
  <2>6. SumFunctionOnSet(g, B) = SumFunctionOnSet(f, A) + (IF counts THEN g[i] ELSE 0)
        /\ SumFunctionOnSet(f, A) \in Int
    <3>1. SumFunctionOnSet(f, A) \in Int
      BY <2>2, <2>3, SumType
    <3>2. CASE counts
      <4>1. B = A \cup {i} /\ g[i] \in Int
        BY <1>2, <2>1, <2>4, <3>2
      <4>2. SumFunctionOnSet(g, A \cup {i}) = SumFunctionOnSet(f, A) + g[i]
        BY <2>2, <2>3, <4>1, OneMore
      <4> QED
        BY <3>1, <3>2, <4>1, <4>2
    <3>3. CASE ~counts
      <4>1. SumFunctionOnSet(g, A) = SumFunctionOnSet(f, A) /\ B = A
        BY <2>1, <2>2, <2>3, <3>3, SumSame
      <4> QED
        BY <3>1, <3>3, <4>1
    <3> QED
      BY <3>2, <3>3
  <2> QED
    BY <1>2, <2>4, <2>5, <2>6
<1> QED
  BY <1>3, <1>4

\* A payment from credit moves its cost to the creator and the platform.
LEMMA PayMoney ==
    ASSUME SubsIInv, MoneySound, NEW p \in Pairs, NEW key \in RenewalKeys \cup {None}, NEW tier \in Tiers,
           NEW price \in Nat, NEW auto \in BOOLEAN, PayFromCredit(p, key, tier, price, auto)
    PROVE  MoneySound'
<1> DEFINE payment == [pair |-> p, key |-> key, receipt |-> None, cost |-> Cost(price), share |-> Share(price)]
           c == Cost(price)
           s == Share(price)
           b == AddTo(AddTo(AddTo(balance, Credit(p[1]), -c), Payable(p[2]), s), Revenue, c - s)
<1>1. c \in Nat /\ s \in Nat /\ s =< c
  BY CostNat, ShareNat
<1>2. /\ payment \in Payment /\ payment.pair = p /\ payment.receipt = None
      /\ payment.cost = c /\ payment.share = s
  BY <1>1 DEF Payment
<1>3. payments' = Append(payments, payment) /\ reversed' = reversed
  BY DEF PayFromCredit, Grant
<1>4. balance' = [balance EXCEPT ![Credit(p[1])] = @ - c, ![Payable(p[2])] = @ + s, ![Revenue] = @ + (c - s)]
  BY DEF PayFromCredit
<1>5. Credit(p[1]) \in Accounts /\ Payable(p[2]) \in Accounts /\ Revenue \in Accounts
  BY PairParts DEF Accounts
<1> HIDE DEF payment, c, s
<1>6. balance \in [Accounts -> Int]
  BY DEF SubsIInv, BalanceTyped
<1>7. balance' = b
  BY <1>1, <1>4, <1>5, <1>6, AccountsDiffer DEF AddTo
<1>8. SumOver(b, Accounts) = SumOver(balance, Accounts)
  <2> DEFINE b1 == AddTo(balance, Credit(p[1]), -c)
             b2 == AddTo(b1, Payable(p[2]), s)
  <2>1. -c \in Int /\ s \in Int /\ c - s \in Int
    BY <1>1
  <2>2. /\ b1 \in [Accounts -> Int] /\ SumOver(b1, Accounts) = SumOver(balance, Accounts) + (-c)
        /\ SumOver(balance, Accounts) \in Int
    BY <1>5, <1>6, <2>1, AddToSum
  <2> HIDE DEF b1
  <2>3. b2 \in [Accounts -> Int] /\ SumOver(b2, Accounts) = SumOver(b1, Accounts) + s
    BY <1>5, <2>1, <2>2, AddToSum
  <2> HIDE DEF b2
  <2>4. SumOver(AddTo(b2, Revenue, c - s), Accounts) = SumOver(b2, Accounts) + (c - s)
    BY <1>5, <2>1, <2>3, AddToSum
  <2>5. SumOver(b, Accounts) = SumOver(balance, Accounts)
    BY <1>1, <2>2, <2>3, <2>4 DEF b1, b2
  <2> QED
    BY <2>5
<1> HIDE DEF b
<1>9. /\ \A u \in Subscribers :
           /\ CostsOf(payments, reversed, u) \in Int
           /\ CostsOf(payments', reversed', u) = CostsOf(payments, reversed, u) + (IF p[1] = u THEN c ELSE 0)
      /\ MarginOf(payments, reversed) \in Int
      /\ MarginOf(payments', reversed') = MarginOf(payments, reversed) + (c - s)
  BY <1>2, <1>3, PaymentCounts DEF SubsIInv
<1>10. /\ balance'[Credit(p[1])] = balance[Credit(p[1])] - c
       /\ balance'[Payable(p[2])] = balance[Payable(p[2])] + s
       /\ balance'[Revenue] = balance[Revenue] + (c - s)
       /\ \A a \in Accounts \ {Credit(p[1]), Payable(p[2]), Revenue} : balance'[a] = balance[a]
  BY <1>4, <1>5, <1>6, AccountsDiffer
<1>11. Funds \in Int
  BY SubscriptionsAssumption
<1>12. \A u \in Subscribers : balance'[Credit(u)] = Funds - CostsOf(payments', reversed', u)
  <2> SUFFICES ASSUME NEW u \in Subscribers
               PROVE  balance'[Credit(u)] = Funds - CostsOf(payments', reversed', u)
    OBVIOUS
  <2>1. Credit(u) \in Accounts /\ balance[Credit(u)] = Funds - CostsOf(payments, reversed, u)
    BY DEF Accounts, MoneySound
  <2>2. CASE p[1] = u
    BY <1>1, <1>9, <1>10, <1>11, <2>1, <2>2
  <2>3. CASE p[1] # u
    <3>1. balance'[Credit(u)] = balance[Credit(u)]
      BY <1>10, <2>1, <2>3, AccountsDiffer
    <3> QED
      BY <1>9, <1>11, <2>1, <2>3, <3>1
  <2> QED
    BY <2>2, <2>3
<1>13. \A t \in Streamers : balance'[Payable(t)] >= 0
  <2> SUFFICES ASSUME NEW t \in Streamers PROVE balance'[Payable(t)] >= 0
    OBVIOUS
  <2>1. Payable(t) \in Accounts /\ balance[Payable(t)] \in Int /\ balance[Payable(t)] >= 0
    BY <1>6 DEF Accounts, MoneySound
  <2> QED
    BY <1>1, <1>10, <2>1, AccountsDiffer
<1>14. balance'[Revenue] = MarginOf(payments', reversed')
  BY <1>9, <1>10 DEF MoneySound
<1>15. ReceiptsFree'
  <2>1. \A i \in DOMAIN payments' : payments'[i] = payment \/ (i \in DOMAIN payments /\ payments'[i] = payments[i])
    BY <1>2, <1>3, Appended DEF SubsIInv, PaymentsTyped
  <2> QED
    BY <1>2, <2>1 DEF MoneySound, ReceiptsFree
<1>16. SumOver(balance', Accounts) = Funds * Cardinality(Subscribers)
  BY <1>7, <1>8 DEF MoneySound
<1> QED
  BY <1>12, <1>13, <1>14, <1>15, <1>16 DEF MoneySound

\* A receipt's share comes from outside, and its period costs no credit.
LEMMA SettleMoney ==
    ASSUME SubsIInv, MoneySound, NEW r \in Receipts, SettleReceipt(r)
    PROVE  MoneySound'
<1> DEFINE p == Says[r].pair
           s == ReceiptShare(Says[r])
           payment == [pair |-> p, key |-> None, receipt |-> r, cost |-> 0, share |-> s]
           b == AddTo(AddTo(balance, Fx, -s), Payable(p[2]), s)
<1>1. /\ s \in Nat
      /\ payments' = Append(payments, payment)
      /\ balance' = [balance EXCEPT ![Fx] = @ - s, ![Payable(p[2])] = @ + s]
      /\ reversed' = reversed
  BY SettleParts DEF Grant
<1>2. p \in Pairs
  BY ReceiptParts
<1>3. payment \in Payment /\ payment.pair = p /\ payment.receipt = r /\ payment.cost = 0 /\ r # None
  BY <1>1, <1>2, SubscriptionsAssumption DEF Payment
<1>4. Fx \in Accounts /\ Payable(p[2]) \in Accounts
  BY <1>2, PairParts DEF Accounts
<1> HIDE DEF payment, s, p
<1>5. balance \in [Accounts -> Int]
  BY DEF SubsIInv, BalanceTyped
<1>6. balance' = b
  BY <1>1, <1>4, <1>5, AccountsDiffer DEF AddTo
<1>7. SumOver(b, Accounts) = SumOver(balance, Accounts)
  <2> DEFINE b1 == AddTo(balance, Fx, -s)
  <2>1. -s \in Int /\ s \in Int
    BY <1>1
  <2>2. /\ b1 \in [Accounts -> Int] /\ SumOver(b1, Accounts) = SumOver(balance, Accounts) + (-s)
        /\ SumOver(balance, Accounts) \in Int
    BY <1>4, <1>5, <2>1, AddToSum
  <2> HIDE DEF b1
  <2>3. SumOver(AddTo(b1, Payable(p[2]), s), Accounts) = SumOver(b1, Accounts) + s
    BY <1>4, <2>1, <2>2, AddToSum
  <2> QED
    BY <1>1, <2>2, <2>3 DEF b1
<1> HIDE DEF b
<1>8. /\ \A u \in Subscribers :
           CostsOf(payments, reversed, u) \in Int /\ CostsOf(payments', reversed', u) = CostsOf(payments, reversed, u)
      /\ MarginOf(payments, reversed) \in Int /\ MarginOf(payments', reversed') = MarginOf(payments, reversed)
  BY <1>1, <1>3, PaymentCounts DEF SubsIInv
<1>9. /\ balance'[Payable(p[2])] = balance[Payable(p[2])] + s
      /\ \A a \in Accounts \ {Fx, Payable(p[2])} : balance'[a] = balance[a]
  BY <1>1, <1>4, <1>5, AccountsDiffer
<1>10. \A u \in Subscribers : balance'[Credit(u)] = Funds - CostsOf(payments', reversed', u)
  <2>1. \A u \in Subscribers : Credit(u) \in Accounts \ {Fx, Payable(p[2])}
    BY AccountsDiffer DEF Accounts
  <2> QED
    BY <1>8, <1>9, <2>1 DEF MoneySound
<1>11. \A t \in Streamers : balance'[Payable(t)] >= 0
  <2> SUFFICES ASSUME NEW t \in Streamers PROVE balance'[Payable(t)] >= 0
    OBVIOUS
  <2>1. Payable(t) \in Accounts /\ balance[Payable(t)] \in Int /\ balance[Payable(t)] >= 0
    BY <1>5 DEF Accounts, MoneySound
  <2>2. CASE t = p[2]
    BY <1>1, <1>9, <2>1, <2>2
  <2>3. CASE t # p[2]
    BY <1>9, <2>1, <2>3, AccountsDiffer
  <2> QED
    BY <2>2, <2>3
<1>12. balance'[Revenue] = MarginOf(payments', reversed')
  <2>1. Revenue \in Accounts \ {Fx, Payable(p[2])}
    BY AccountsDiffer DEF Accounts
  <2> QED
    BY <1>8, <1>9, <2>1 DEF MoneySound
<1>13. ReceiptsFree'
  <2>1. \A i \in DOMAIN payments' : payments'[i] = payment \/ (i \in DOMAIN payments /\ payments'[i] = payments[i])
    BY <1>1, <1>3, Appended DEF SubsIInv, PaymentsTyped
  <2> QED
    BY <1>3, <2>1 DEF MoneySound, ReceiptsFree
<1>14. SumOver(balance', Accounts) = Funds * Cardinality(Subscribers)
  BY <1>6, <1>7 DEF MoneySound
<1> QED
  BY <1>10, <1>11, <1>12, <1>13, <1>14 DEF MoneySound

\* A refund gives the whole price back, from what is left and the platform's loss.
LEMMA RefundMoney ==
    ASSUME SubsIInv, MoneySound, NEW i \in DOMAIN payments, RefundCreditPeriod(i)
    PROVE  MoneySound'
<1> DEFINE p == payments[i].pair
           c == payments[i].cost
           s == payments[i].share
           k == Clawed(i)
           b == AddTo(AddTo(AddTo(AddTo(balance, Credit(p[1]), c), Revenue, -(c - s)), Payable(p[2]), -k),
                      Fx, -(s - k))
<1>1. /\ payments[i].receipt = None /\ i \notin reversed /\ reversed' = reversed \cup {i} /\ payments' = payments
      /\ balance' = [balance EXCEPT ![Credit(p[1])] = @ + c, ![Revenue] = @ - (c - s),
                                    ![Payable(p[2])] = @ - k, ![Fx] = @ - (s - k)]
  BY DEF RefundCreditPeriod
<1>2. /\ Credit(p[1]) \in Accounts /\ Payable(p[2]) \in Accounts /\ Revenue \in Accounts /\ Fx \in Accounts
      /\ c \in Nat /\ s \in Nat /\ k \in Nat
      /\ balance[Payable(p[2])] >= 0 => k =< balance[Payable(p[2])]
  BY PaymentAccounts, ClawedNat DEF SubsIInv
<1>3. p \in Pairs /\ p[2] \in Streamers
  BY PaymentRows, PairParts DEF SubsIInv
<1>4. balance \in [Accounts -> Int]
  BY DEF SubsIInv, BalanceTyped
<1>5. /\ \A u \in Subscribers :
           /\ CostsOf(payments, reversed, u) \in Int
           /\ CostsOf(payments', reversed', u) = CostsOf(payments, reversed, u) - (IF p[1] = u THEN c ELSE 0)
      /\ MarginOf(payments, reversed) \in Int
      /\ MarginOf(payments', reversed') = MarginOf(payments, reversed) - (c - s)
  BY <1>1, ReversalCounts DEF SubsIInv
<1> HIDE DEF p, c, s, k
<1>6. balance' = b
  BY <1>1, <1>2, <1>4, AccountsDiffer DEF AddTo
<1>7. SumOver(b, Accounts) = SumOver(balance, Accounts)
  <2> DEFINE b1 == AddTo(balance, Credit(p[1]), c)
             b2 == AddTo(b1, Revenue, -(c - s))
             b3 == AddTo(b2, Payable(p[2]), -k)
  <2>1. c \in Int /\ -(c - s) \in Int /\ -k \in Int /\ -(s - k) \in Int
    BY <1>2
  <2>2. /\ b1 \in [Accounts -> Int] /\ SumOver(b1, Accounts) = SumOver(balance, Accounts) + c
        /\ SumOver(balance, Accounts) \in Int
    BY <1>2, <1>4, <2>1, AddToSum
  <2> HIDE DEF b1
  <2>3. b2 \in [Accounts -> Int] /\ SumOver(b2, Accounts) = SumOver(b1, Accounts) + (-(c - s))
    BY <1>2, <2>1, <2>2, AddToSum
  <2> HIDE DEF b2
  <2>4. b3 \in [Accounts -> Int] /\ SumOver(b3, Accounts) = SumOver(b2, Accounts) + (-k)
    BY <1>2, <2>1, <2>3, AddToSum
  <2> HIDE DEF b3
  <2>5. SumOver(AddTo(b3, Fx, -(s - k)), Accounts) = SumOver(b3, Accounts) + (-(s - k))
    BY <1>2, <2>1, <2>4, AddToSum
  <2>6. SumOver(AddTo(b3, Fx, -(s - k)), Accounts) = SumOver(balance, Accounts)
    BY <1>2, <2>2, <2>3, <2>4, <2>5
  <2> QED
    BY <2>6 DEF b1, b2, b3
<1> HIDE DEF b
<1>8. /\ balance'[Credit(p[1])] = balance[Credit(p[1])] + c
      /\ balance'[Payable(p[2])] = balance[Payable(p[2])] - k
      /\ balance'[Revenue] = balance[Revenue] - (c - s)
      /\ \A a \in Accounts \ {Credit(p[1]), Payable(p[2]), Revenue, Fx} : balance'[a] = balance[a]
  BY <1>1, <1>2, <1>4, AccountsDiffer
<1>9. Funds \in Int
  BY SubscriptionsAssumption
<1>10. \A u \in Subscribers : balance'[Credit(u)] = Funds - CostsOf(payments', reversed', u)
  <2> SUFFICES ASSUME NEW u \in Subscribers
               PROVE  balance'[Credit(u)] = Funds - CostsOf(payments', reversed', u)
    OBVIOUS
  <2>1. Credit(u) \in Accounts /\ balance[Credit(u)] = Funds - CostsOf(payments, reversed, u)
    BY DEF Accounts, MoneySound
  <2>2. CASE p[1] = u
    BY <1>2, <1>5, <1>8, <1>9, <2>1, <2>2
  <2>3. CASE p[1] # u
    <3>1. balance'[Credit(u)] = balance[Credit(u)]
      BY <1>8, <2>1, <2>3, AccountsDiffer
    <3> QED
      BY <1>5, <1>9, <2>1, <2>3, <3>1
  <2> QED
    BY <2>2, <2>3
<1>11. \A t \in Streamers : balance'[Payable(t)] >= 0
  <2> SUFFICES ASSUME NEW t \in Streamers PROVE balance'[Payable(t)] >= 0
    OBVIOUS
  <2>1. Payable(t) \in Accounts /\ balance[Payable(t)] \in Int /\ balance[Payable(t)] >= 0
    BY <1>4 DEF Accounts, MoneySound
  <2>2. CASE t = p[2]
    BY <1>2, <1>8, <2>1, <2>2
  <2>3. CASE t # p[2]
    BY <1>8, <2>1, <2>3, AccountsDiffer
  <2> QED
    BY <2>2, <2>3
<1>12. balance'[Revenue] = MarginOf(payments', reversed')
  BY <1>5, <1>8 DEF MoneySound
<1>13. ReceiptsFree'
  BY <1>1 DEF MoneySound, ReceiptsFree
<1>14. SumOver(balance', Accounts) = Funds * Cardinality(Subscribers)
  BY <1>6, <1>7 DEF MoneySound
<1> QED
  BY <1>10, <1>11, <1>12, <1>13, <1>14 DEF MoneySound

\* A receipt reversed gives no credit back: none was paid.
LEMMA ReverseMoney ==
    ASSUME SubsIInv, MoneySound, NEW i \in DOMAIN payments, ReverseReceipt(i)
    PROVE  MoneySound'
<1>1. /\ payments[i].receipt # None /\ i \notin reversed /\ reversed' = reversed \cup {i}
      /\ payments' = payments /\ balance' = balance
  BY DEF ReverseReceipt
<1>2. payments[i].cost = 0
  BY <1>1 DEF MoneySound, ReceiptsFree
<1>3. /\ \A u \in Subscribers :
           CostsOf(payments, reversed, u) \in Int /\ CostsOf(payments', reversed', u) = CostsOf(payments, reversed, u)
      /\ MarginOf(payments, reversed) \in Int /\ MarginOf(payments', reversed') = MarginOf(payments, reversed)
  <2>1. /\ \A u \in Subscribers :
             /\ CostsOf(payments, reversed, u) \in Int
             /\ CostsOf(payments', reversed', u) =
                  CostsOf(payments, reversed, u) - (IF payments[i].pair[1] = u THEN payments[i].cost ELSE 0)
        /\ MarginOf(payments, reversed) \in Int
        /\ MarginOf(payments', reversed') =
             MarginOf(payments, reversed)
                 - (IF payments[i].receipt = None THEN payments[i].cost - payments[i].share ELSE 0)
    BY <1>1, ReversalCounts DEF SubsIInv
  <2>2. \A u : (IF payments[i].pair[1] = u THEN payments[i].cost ELSE 0) = 0
    BY <1>2
  <2>3. (IF payments[i].receipt = None THEN payments[i].cost - payments[i].share ELSE 0) = 0
    BY <1>1
  <2>4. ASSUME NEW u \in Subscribers
        PROVE  /\ CostsOf(payments, reversed, u) \in Int
               /\ CostsOf(payments', reversed', u) = CostsOf(payments, reversed, u) - 0
    BY <2>1, <2>2
  <2>5. MarginOf(payments', reversed') = MarginOf(payments, reversed) - 0
    BY <2>1, <2>3
  <2> QED
    BY <2>1, <2>4, <2>5
<1>4. ReceiptsFree'
  BY <1>1 DEF MoneySound, ReceiptsFree
<1> QED
  BY <1>1, <1>3, <1>4 DEF MoneySound

\* A cashout moves what the creator has.
LEMMA CashOutMoney ==
    ASSUME SubsIInv, MoneySound, NEW s \in Streamers, CashOut(s)
    PROVE  MoneySound'
<1>1. /\ balance' = [balance EXCEPT ![Payable(s)] = 0, ![Pending(s)] = @ + balance[Payable(s)]]
      /\ payments' = payments /\ reversed' = reversed
  BY DEF CashOut
<1>2. Payable(s) \in Accounts /\ Pending(s) \in Accounts /\ balance \in [Accounts -> Int]
  BY DEF Accounts, SubsIInv, BalanceTyped
<1>3. /\ balance' \in [Accounts -> Int]
      /\ balance'[Payable(s)] = 0 /\ balance'[Pending(s)] = balance[Pending(s)] + balance[Payable(s)]
      /\ \A a \in Accounts \ {Payable(s), Pending(s)} : balance'[a] = balance[a]
  BY <1>1, <1>2, AccountsDiffer
<1>4. SumOver(balance', Accounts) = SumOver(balance, Accounts)
  <2>1. \A a \in Accounts : balance[a] \in Int /\ balance'[a] \in Int
    BY <1>2, <1>3
  <2>2. balance'[Payable(s)] + balance'[Pending(s)] = balance[Payable(s)] + balance[Pending(s)]
    BY <1>2, <1>3, <2>1
  <2>3. SumFunctionOnSet(balance', Accounts) = SumFunctionOnSet(balance, Accounts)
    BY <1>2, <1>3, <2>1, <2>2, AccountsDiffer, AccountsFinite, SumMove
  <2> QED
    BY <2>3 DEF SumOver
<1>5. \A t \in Streamers : balance'[Payable(t)] >= 0
  <2> SUFFICES ASSUME NEW t \in Streamers PROVE balance'[Payable(t)] >= 0
    OBVIOUS
  <2>1. Payable(t) \in Accounts /\ balance[Payable(t)] >= 0 /\ Payable(t) # Pending(s)
    BY AccountsDiffer DEF Accounts, MoneySound
  <2> QED
    BY <1>3, <2>1
<1>6. \A u \in Subscribers : balance'[Credit(u)] = balance[Credit(u)]
  <2>1. \A u \in Subscribers : Credit(u) \in Accounts \ {Payable(s), Pending(s)}
    BY AccountsDiffer DEF Accounts
  <2> QED
    BY <1>3, <2>1
<1>7. balance'[Revenue] = balance[Revenue]
  <2>1. Revenue \in Accounts \ {Payable(s), Pending(s)}
    BY AccountsDiffer DEF Accounts
  <2> QED
    BY <1>3, <2>1
<1>8. ReceiptsFree'
  BY <1>1 DEF MoneySound, ReceiptsFree
<1> QED
  BY <1>1, <1>4, <1>5, <1>6, <1>7, <1>8 DEF MoneySound

\* Steps that move no money.
LEMMA SameMoney ==
    ASSUME MoneySound, UNCHANGED <<payments, reversed, balance>>
    PROVE  MoneySound'
  BY DEF MoneySound, ReceiptsFree

\* Nothing is paid yet, and every subscriber has their first credit.
LEMMA MoneyInitial == Init => MoneySound
<1> SUFFICES ASSUME Init PROVE MoneySound
  OBVIOUS
<1>1. DOMAIN payments = {} /\ reversed = {}
  BY DEF Init
<1>2. \A u : PaidBy(payments, reversed, u) = {}
  BY <1>1 DEF PaidBy
<1>3. InVibes(payments, reversed) = {}
  BY <1>1 DEF InVibes
<1>4. \A u : CostsOf(payments, reversed, u) = 0
  BY <1>2, SumEmpty DEF CostsOf, SumOver
<1>5. MarginOf(payments, reversed) = 0
  BY <1>3, SumEmpty DEF MarginOf, SumOver
<1>6. Funds \in Int
  BY SubscriptionsAssumption
<1>7. \A u \in Subscribers : balance[Credit(u)] = Funds
  BY DEF Init, Accounts
<1> DEFINE C == {Credit(u) : u \in Subscribers}
<1>8. C \subseteq Accounts /\ \A a \in Accounts \ C : balance[a] = 0
  BY DEF Init, Accounts
<1>9. balance[Revenue] = 0 /\ \A s \in Streamers : balance[Payable(s)] = 0
  <2>1. Revenue \in Accounts \ C /\ \A s \in Streamers : Payable(s) \in Accounts \ C
    BY AccountsDiffer DEF Accounts
  <2> QED
    BY <1>8, <2>1
<1>10. SumOver(balance, Accounts) = Funds * Cardinality(Subscribers)
  <2>1. \A a \in C : balance[a] = Funds
    BY <1>7
  <2>2. IsFiniteSet(Accounts) /\ IsFiniteSet(C) /\ Cardinality(C) = Cardinality(Subscribers)
    BY AccountsFinite
  <2> HIDE DEF C
  <2>3. SumFunctionOnSet(balance, C) = Funds * Cardinality(C)
    BY <1>6, <2>1, <2>2, SumConstant
  <2>4. SumFunctionOnSet(balance, Accounts) = SumFunctionOnSet(balance, C)
    BY <1>6, <1>8, <2>1, <2>2, SumSupport
  <2> QED
    BY <2>2, <2>3, <2>4 DEF SumOver
<1>11. ReceiptsFree
  BY <1>1 DEF ReceiptsFree
<1> QED
  BY <1>4, <1>5, <1>6, <1>7, <1>9, <1>10, <1>11 DEF MoneySound

\* Every step keeps the sums.
LEMMA MoneyStep == SubsIInv /\ MoneySound /\ [Next]_vars => MoneySound'
<1> SUFFICES ASSUME SubsIInv, MoneySound, [Next]_vars PROVE MoneySound'
  OBVIOUS
<1>1. CASE PayNext
  <2>1. ASSUME NEW p \in Pairs, NEW asked \in Renewing, NEW t \in Tiers, Subscribe(p, t, asked) PROVE MoneySound'
    <3>1. PriceFor(p[2], t) \in Nat /\ AutoRenew(p, asked, "credit") \in BOOLEAN
      BY PairParts, PriceNatural, AutoRenewBool DEF SubsIInv
    <3>2. PayFromCredit(p, None, t, PriceFor(p[2], t), AutoRenew(p, asked, "credit"))
      BY <2>1 DEF Subscribe
    <3> QED
      BY <3>1, <3>2, PayMoney
  <2>2. ASSUME NEW p \in Pairs, NEW asked \in Renewing, NEW price \in NamedPrices, SubscribeAt(p, price, asked)
        PROVE  MoneySound'
    <3>1. price \in Nat /\ AutoRenew(p, asked, "credit") \in BOOLEAN /\ CurrentTier(p) \in Tiers
      BY SubscriptionsAssumption, AutoRenewBool, CurrentTierTyped DEF SubsIInv
    <3>2. PayFromCredit(p, None, CurrentTier(p), price, AutoRenew(p, asked, "credit"))
      BY <2>2 DEF SubscribeAt
    <3> QED
      BY <3>1, <3>2, PayMoney
  <2> QED
    BY <1>1, <2>1, <2>2, SettleMoney DEF PayNext
<1>2. CASE ReversalNext
  BY <1>2, RefundMoney, ReverseMoney, CashOutMoney DEF ReversalNext
<1>3. ASSUME NEW w \in Sweeps, SweepStep(w) PROVE MoneySound'
  <2>1. CASE SweepCharge(w)
    <3> DEFINE row == sweep[w].row
               key == sweep[w].key
    <3>1. row \in sweep[w].rows /\ key \in RenewalKeys
      BY <2>1, SweepHolds DEF SweepCharge
    <3>2. row.pair \in Pairs /\ row.sub.price \in Nat
      BY <3>1, SweepRow
    <3>3. CurrentTier(row.pair) \in Tiers
      BY <3>2, CurrentTierTyped DEF SubsIInv
    <3>4. \/ UNCHANGED <<payments, reversed, balance>>
          \/ PayFromCredit(row.pair, key, CurrentTier(row.pair), row.sub.price, TRUE)
      BY <2>1 DEF SweepCharge
    <3> HIDE DEF row, key
    <3> QED
      BY <3>1, <3>2, <3>3, <3>4, SameMoney, PayMoney
  <2>2. CASE SweepRead(w) \/ SweepEnd(w) \/ SweepKey(w) \/ SweepRefused(w)
    <3>1. UNCHANGED <<payments, reversed, balance>>
      BY <2>2 DEF SweepRead, SweepEnd, SweepKey, SweepRefused
    <3> QED
      BY <3>1, SameMoney
  <2> QED
    BY <1>3, <2>1, <2>2 DEF SweepStep
<1>4. CASE CancelNext \/ Tick \/ UNCHANGED vars \/ \E c \in TierChanges : SetTier(c[1], c[2], c[3], c[4])
  <2>1. UNCHANGED <<payments, reversed, balance>>
    BY <1>4 DEF CancelNext, CancelRead, CancelRefused, CancelWrite, Tick, vars, SetTier
  <2> QED
    BY <2>1, SameMoney
<1> QED
  BY <1>1, <1>2, <1>3, <1>4 DEF Next

\* A subscriber is out of exactly the periods that stand, and no step makes or loses money.
THEOREM RefundsBalance == Spec => []RefundsAddUp
<1>1. Spec => []MoneySound
  BY SubsInitial, SubsInductive, MoneyInitial, MoneyStep, PTL DEF Spec
<1>2. MoneySound => RefundsAddUp
  BY MoneyMeans
<1> QED
  BY <1>1, <1>2, PTL

=============================================================================
