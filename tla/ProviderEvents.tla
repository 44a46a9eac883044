--------------------------- MODULE ProviderEvents ---------------------------
(***************************************************************************)
(* The receipt pipeline (server/providers/index.js, api/webhooks.js,       *)
(* ops/external.js): a verified delivery is stored, then processed by      *)
(* whoever comes first, the webhook itself, the retry timer, the drain     *)
(* after a freeze or an operator who reprocesses it.                       *)
(*                                                                         *)
(* Every handler may be between any two of its database calls when another *)
(* runs, and all of them are lost when the process restarts.  What a       *)
(* payload says is a constant of its event; the money it moves is reduced  *)
(* to the transaction that carries its receipt reference (VibesLedger has  *)
(* the entries).                                                           *)
(***************************************************************************)
EXTENDS Integers, FiniteSets, Sequences, Functions

CONSTANTS
    Events,        \* provider events, each with one delivery id
    Payload,       \* what each event says
    Poison,        \* events whose interpretation always throws
    Refs,          \* receipt references
    Paid,          \* cents of every payment
    Workers,       \* handlers that may run at once
    Timer,         \* the one of them that is the retry timer
    Limit,         \* how many pending events a pass reads (500 in the code)
    None,
    MaxReprocess,  \* bound: reprocess calls at once
    MaxMishaps     \* bound: failures and restarts

\* provider_events.effect, once processed.
Effects == {"none", "settled", "duplicate_receipt", "rejected", "external", "unannounced"}

ASSUME ProviderEventsAssumption ==
    /\ Payload \in [Events -> [kind : {"payment", "reverse", "external", "none"},
                               ref : Refs, of : Refs, cents : Nat]]
    /\ Poison \subseteq Events
    /\ Paid \in Nat \ {0} /\ Limit \in Nat \ {0} /\ MaxReprocess \in Nat /\ MaxMishaps \in Nat
    /\ None \notin Events \cup Effects /\ Timer \in Workers /\ IsFiniteSet(Workers)

VARIABLES
    frozen,     \* settings.freeze
    rows,       \* provider_events
    arrival,    \* their ids in order
    journal,    \* transactions of receipts
    external,   \* external_receipts, by receipt reference
    announced,  \* billing.receipt.external in the outbox, by receipt reference
    mapped,     \* is the receiving account of external tips known
    job,        \* what each handler is doing
    mishaps

vars == <<frozen, rows, arrival, journal, external, announced, mapped, job, mishaps>>
money == <<journal, external, announced>>

Txn == [ref : Refs, kind : {"payment", "reversal"}, of : Refs, event : Events \cup {None}, cents : Nat]
Row == [stored : BOOLEAN, processed : BOOLEAN, effect : Effects \cup {None}]
Job == [phase : {"idle", "pass", "clear", "begin", "apply"}, queue : Seq(Events), operator : BOOLEAN]

TypeOK ==
    /\ frozen \in BOOLEAN
    /\ rows \in [Events -> Row]
    /\ arrival \in Seq(Events)
    /\ journal \subseteq Txn
    /\ external \in [Refs -> {"none", "not_announced", "announced"}]
    /\ announced \in [Refs -> Nat]
    /\ mapped \in BOOLEAN
    /\ job \in [Workers -> Job]
    /\ mishaps \in 0..MaxMishaps

Idle == [phase |-> "idle", queue |-> <<>>, operator |-> FALSE]

Init ==
    /\ frozen = FALSE
    /\ rows = [e \in Events |-> [stored |-> FALSE, processed |-> FALSE, effect |-> None]]
    /\ arrival = <<>>
    /\ journal = {}
    /\ external = [r \in Refs |-> "none"]
    /\ announced = [r \in Refs |-> 0]
    /\ mapped = FALSE
    /\ job = [w \in Workers |-> Idle]
    /\ mishaps = 0

----------------------------------------------------------------------------
(* Applying a plan: one transaction.                                       *)

\* Variant: only the event's own key is looked up, not its receipt.
SameEvent(e) == {t \in journal : t.event = e}

\* The transaction an event or its receipt already has.
Duplicates(e) == {t \in journal : t.event = e \/ t.ref = Payload[e].ref}

Original(e) == {t \in journal : t.kind = "payment" /\ t.ref = Payload[e].of}
ReversedSoFar(r) ==
    LET of == {t \in journal : t.kind = "reversal" /\ t.of = r}
    IN  SumFunctionOnSet([t \in of |-> t.cents], of)

Posts(e, kind, cents) ==
    /\ journal' = journal \cup
         {[ref |-> Payload[e].ref, kind |-> kind, of |-> Payload[e].of, event |-> e, cents |-> cents]}
    /\ UNCHANGED <<external, announced>>

Announceable(r) == external[r] # "announced"

\* external.record(): no journal entry; announced once, when the account is known.
RecordExternal(r, effect) ==
    /\ UNCHANGED journal
    /\ IF ~Announceable(r)
       THEN effect = "duplicate_receipt" /\ UNCHANGED <<external, announced>>
       ELSE /\ effect = IF mapped THEN "external" ELSE "unannounced"
            /\ external' = [external EXCEPT ![r] = IF mapped THEN "announced" ELSE "not_announced"]
            /\ announced' = IF mapped THEN [announced EXCEPT ![r] = @ + 1] ELSE announced

\* applyPlan(), with the result it records.
ApplyPlan(e, effect) ==
    LET p == Payload[e]
    IN  \/ p.kind = "none" /\ effect = "none" /\ UNCHANGED money
        \/ p.kind = "external" /\ RecordExternal(p.ref, effect)
        \/ /\ p.kind \in {"payment", "reverse"} /\ Duplicates(e) # {}
           /\ effect = "duplicate_receipt" /\ UNCHANGED money
        \/ /\ p.kind = "payment" /\ Duplicates(e) = {}
           /\ effect = "settled" /\ Posts(e, "payment", Paid)
        \/ /\ p.kind = "reverse" /\ Duplicates(e) = {}
           /\ LET cents == IF p.cents < Paid - ReversedSoFar(p.of) THEN p.cents
                           ELSE Paid - ReversedSoFar(p.of)
              IN  \/ Original(e) = {} /\ effect = "rejected" /\ UNCHANGED money
                  \/ Original(e) # {} /\ cents = 0 /\ effect = "none" /\ UNCHANGED money
                  \/ Original(e) # {} /\ cents > 0 /\ effect = "settled" /\ Posts(e, "reversal", cents)

----------------------------------------------------------------------------
(* The handlers.                                                           *)

Working(q, operator) ==
    IF q = <<>> THEN Idle ELSE [phase |-> "begin", queue |-> q, operator |-> operator]

\* The handler is done with the first event of its queue.
Onward(w) == job' = [job EXCEPT ![w] = Working(Tail(@.queue), @.operator)]

\* A webhook: the delivery is stored, once, and processed unless it has been.
Deliver(w, e) ==
    /\ job[w] = Idle /\ w # Timer
    /\ rows' = [rows EXCEPT ![e].stored = TRUE]
    /\ arrival' = IF rows[e].stored THEN arrival ELSE Append(arrival, e)
    /\ job' = [job EXCEPT ![w] = IF rows[e].processed THEN Idle ELSE Working(<<e>>, FALSE)]
    /\ UNCHANGED <<frozen, money, mapped, mishaps>>

\* Those of S, in the order they arrived.
InOrder(S) ==
    LET first[n \in 0..Len(arrival)] ==
          IF n = 0 THEN <<>>
          ELSE IF arrival[n] \in S THEN Append(first[n - 1], arrival[n]) ELSE first[n - 1]
    IN  first[Len(arrival)]

\* Variant: the pass looks for events without a result, which a cleared one has.
WithoutResult == InOrder({e \in Events : ~rows[e].processed /\ rows[e].effect = None})

Pending == InOrder({e \in Events : ~rows[e].processed})

\* processPending(), on its timer or after the freeze was lifted.
StartPass(w) ==
    /\ (job[w] = Idle /\ w = Timer) \/ job[w].phase = "pass"
    /\ job' = [job EXCEPT ![w] =
         IF frozen THEN Idle
         ELSE Working(SubSeq(Pending, 1, IF Len(Pending) < Limit THEN Len(Pending) ELSE Limit), FALSE)]
    /\ UNCHANGED <<frozen, rows, arrival, money, mapped, mishaps>>

Retryable(e) == rows[e].effect \in {"rejected", "none", "unannounced"}

\* reprocess(): the row is read, and cleared if it had been processed.
Reprocess(w, e) ==
    /\ ~frozen
    /\ job[w] = Idle /\ w # Timer
    /\ Cardinality({v \in Workers : job[v].operator}) < MaxReprocess
    /\ rows[e].stored
    /\ rows[e].processed => Retryable(e)
    /\ job' = [job EXCEPT ![w] = [phase |-> IF rows[e].processed THEN "clear" ELSE "begin",
                                  queue |-> <<e>>, operator |-> TRUE]]
    /\ UNCHANGED <<frozen, rows, arrival, money, mapped, mishaps>>

Clear(w) ==
    /\ job[w].phase = "clear"
    /\ rows' = [rows EXCEPT ![Head(job[w].queue)].processed = FALSE]
    /\ job' = [job EXCEPT ![w].phase = "begin"]
    /\ UNCHANGED <<frozen, arrival, money, mapped, mishaps>>

\* process(): the freeze is read and the payload interpreted before the
\* transaction begins; an interpretation that throws leaves the event pending.
Begin(w) ==
    /\ job[w].phase = "begin"
    /\ IF frozen \/ Head(job[w].queue) \in Poison THEN Onward(w)
       ELSE job' = [job EXCEPT ![w].phase = "apply"]
    /\ UNCHANGED <<frozen, rows, arrival, money, mapped, mishaps>>

\* Variant: the row is not read again under its lock.
AsRead(e) == TRUE

StillPending(e) == ~rows[e].processed

\* The transaction that applies the plan and marks the event processed.
Apply(w) ==
    /\ job[w].phase = "apply"
    /\ LET e == Head(job[w].queue)
       IN  IF StillPending(e)
           THEN \E effect \in Effects :
                  /\ ApplyPlan(e, effect)
                  /\ rows' = [rows EXCEPT ![e].processed = TRUE, ![e].effect = effect]
           ELSE UNCHANGED <<rows, money>>
    /\ Onward(w)
    /\ UNCHANGED <<frozen, arrival, mapped, mishaps>>

\* Variant: an event that failed is not tried again.
GivenUp(e) == [rows EXCEPT ![e].processed = TRUE]

LeftPending(e) == rows

\* The transaction failed for a reason that may pass.
FailToApply(w) ==
    /\ mishaps < MaxMishaps
    /\ mishaps' = mishaps + 1
    /\ job[w].phase = "apply"
    /\ rows' = LeftPending(Head(job[w].queue))
    /\ Onward(w)
    /\ UNCHANGED <<frozen, arrival, money, mapped>>

\* The process restarts: what was stored stays, what ran is gone.
Restart ==
    /\ mishaps < MaxMishaps
    /\ mishaps' = mishaps + 1
    /\ job' = [w \in Workers |-> Idle]
    /\ UNCHANGED <<frozen, rows, arrival, money, mapped>>

----------------------------------------------------------------------------
(* What else touches the same state.                                       *)

Freeze ==
    /\ ~frozen
    /\ frozen' = TRUE
    /\ UNCHANGED <<rows, arrival, money, mapped, job, mishaps>>

\* Lifting the freeze drains what was stored meanwhile.
Unfreeze(w) ==
    /\ frozen /\ job[w] = Idle /\ w # Timer
    /\ frozen' = FALSE
    /\ job' = [job EXCEPT ![w].phase = "pass"]
    /\ UNCHANGED <<rows, arrival, money, mapped, mishaps>>

\* Staff settle a receipt by hand (POST /purchases/settle): no event.
SettleByHand(r) ==
    /\ ~frozen
    /\ ~ \E t \in journal : t.ref = r
    /\ journal' = journal \cup
         {[ref |-> r, kind |-> "payment", of |-> r, event |-> None, cents |-> Paid]}
    /\ UNCHANGED <<frozen, rows, arrival, external, announced, mapped, job, mishaps>>

\* The operator names the creator of the account external tips are paid to.
MapAccount ==
    /\ \E e \in Events : Payload[e].kind = "external"
    /\ mapped' = TRUE
    /\ UNCHANGED <<frozen, rows, arrival, money, job, mishaps>>

Run(w) == StartPass(w) \/ Clear(w) \/ Begin(w) \/ Apply(w)

Payments == {Payload[e].ref : e \in {d \in Events : Payload[d].kind = "payment"}}

Next ==
    \/ \E w \in Workers :
         \/ \E e \in Events : Deliver(w, e) \/ Reprocess(w, e)
         \/ Run(w) \/ FailToApply(w)
         \/ Unfreeze(w)
    \/ Restart \/ Freeze \/ MapAccount
    \/ \E r \in Payments : SettleByHand(r)

Spec == Init /\ [][Next]_vars

\* The timer keeps starting passes, a handler that started goes on, and a freeze
\* is lifted in the end, for good.  Failures and restarts are bounded already.
Fairness ==
    /\ \A w \in Workers : WF_vars(Run(w))
    /\ <>[](~frozen)
FairSpec == Spec /\ Fairness

----------------------------------------------------------------------------
(* What the pipeline promises.                                             *)

\* However a payment is delivered, under one delivery id or several, by hand, again
\* after a failure, a restart or an operator's retry, it settles once, and no more
\* of it is reversed than was paid (providers/index.js, Races).
SettledOnce ==
    \A r \in Refs :
        /\ Cardinality({t \in journal : t.ref = r}) =< 1
        /\ ReversedSoFar(r) =< Paid

\* What the checks events.settlement and receipts.external of reconcile.js report.
EvBad ==
    {e \in Events : rows[e].processed /\
       Cardinality({t \in journal : t.event = e}) # (IF rows[e].effect = "settled" THEN 1 ELSE 0)}
ExtBad ==
    {r \in Refs : \/ external[r] # "none" /\ \E t \in journal : t.ref = r
                  \/ external[r] = "announced" /\ announced[r] = 0
                  \/ announced[r] > 1}

\* The check events.settlement of reconcile.js: a processed event has effect
\* `settled' exactly when one transaction points at it.  One operator at a time.
EventsSettlement == EvBad = {}

\* No payment is lost: once its event counts as processed its money is in the
\* journal (the transaction that marks the event is the one that applies it).
NothingLost ==
    \A e \in Events :
        rows[e].processed /\ Payload[e].kind = "payment" => \E t \in journal : t.ref = Payload[e].ref

\* A tip on a streamer's own account stays out of the journal, is announced at most
\* once, and is on record as announced exactly then (external.js, "Announced at most
\* once per payment"; receipts.external of reconcile.js).
AnnouncedOnce ==
    /\ ExtBad = {}
    /\ \A r \in Refs : announced[r] > 0 => external[r] = "announced"

\* A payment reaches the journal exactly once: not twice by any path, and not at all
\* only while its event is still to be processed; a tip to a streamer's own account
\* never does, and is announced once.
EventsInv == TypeOK /\ SettledOnce /\ NothingLost /\ AnnouncedOnce

\* A stored event is processed in the end, whatever failed, restarted or was frozen
\* meanwhile (providers/index.js, "processPending() runs them ... after the freeze
\* lifts and on a timer for events that failed transiently").
EventuallyProcessed ==
    \A e \in Events \ Poison : rows[e].stored ~> rows[e].processed

\* The comment of reprocess (providers/index.js 135): "settled events never
\* re-apply".
SettledStays ==
    [][\A e \in Events : rows[e].effect = "settled" => rows'[e].effect = "settled"]_vars

=============================================================================
