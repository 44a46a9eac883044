----------------------------- MODULE EdgeProofs -----------------------------
(***************************************************************************)
(* What the two ways into Billing promise, for every instance: provider    *)
(* deliveries (ProviderEvents) and calls with a key (ApiRequests).         *)
(*                                                                         *)
(* EventsIInv is the inductive invariant of the deliveries: a receipt has  *)
(* one transaction, of its event or settled by staff; SettlementIInv adds  *)
(* what holds while one operator at a time reprocesses events.  CallsIInv  *)
(* is that of the calls: whatever was answered, stored or about to be      *)
(* stored names the transaction of its key or the one that decided the     *)
(* cashout.                                                                *)
(***************************************************************************)
EXTENDS ProviderEvents, ApiRequests, MoneyLemmas, SequenceTheorems

----------------------------------------------------------------------------
(* The events a pass takes (ProviderEvents).                               *)

\* InOrder is the value at the end of this recursion.
Grown(S, f, n) ==
    IF n = 0 THEN <<>> ELSE IF arrival[n] \in S THEN Append(f[n - 1], arrival[n]) ELSE f[n - 1]
IsGrown(S, m, f) == f = [n \in 0..m |-> Grown(S, f, n)]

\* InOrder, as its recursion is chosen.
LEMMA InOrderChosen ==
    ASSUME NEW S
    PROVE  InOrder(S) = (CHOOSE f : IsGrown(S, Len(arrival), f))[Len(arrival)]
  BY DEF InOrder, IsGrown, Grown

\* The recursion stays within the sequences of events.
LEMMA GrownTyped ==
    ASSUME arrival \in Seq(Events), NEW S, NEW m \in Nat, m =< Len(arrival), NEW f, IsGrown(S, m, f)
    PROVE  f \in [0..m -> Seq(Events)]
<1> DEFINE N == {n \in Nat : n =< m => f[n] \in Seq(Events)}
<1>1. f = [n \in 0..m |-> Grown(S, f, n)]
  BY DEF IsGrown
<1>2. 0 \in N
  BY <1>1 DEF Grown
<1>3. ASSUME NEW n \in Nat, n \in N PROVE n + 1 \in N
  <2> SUFFICES ASSUME n + 1 =< m PROVE f[n + 1] \in Seq(Events)
    OBVIOUS
  <2>0. n \in 0..m /\ n + 1 \in 0..m /\ n + 1 \in 1..Len(arrival) /\ (n + 1) - 1 = n /\ n + 1 # 0
    OBVIOUS
  <2>1. f[n] \in Seq(Events)
    BY <1>3, <2>0
  <2> HIDE DEF N
  <2>2. f[n + 1] = Grown(S, f, n + 1)
    BY <1>1, <2>0
  <2>3. arrival[n + 1] \in Events
    BY <2>0
  <2>4. Grown(S, f, n + 1) = IF arrival[n + 1] \in S THEN Append(f[n], arrival[n + 1]) ELSE f[n]
    BY <2>0 DEF Grown
  <2>5. Append(f[n], arrival[n + 1]) \in Seq(Events)
    BY <2>1, <2>3
  <2> QED
    BY <2>1, <2>2, <2>4, <2>5
<1> HIDE DEF N
<1>4. Nat \subseteq N
  BY <1>2, <1>3, Induction
<1>5. \A n \in 0..m : Grown(S, f, n) \in Seq(Events)
  BY <1>1, <1>4 DEF N
<1> QED
  BY <1>1, <1>5

\* It has a solution up to every length.
LEMMA GrownExists ==
    ASSUME arrival \in Seq(Events), NEW S
    PROVE  \A m \in Nat : m =< Len(arrival) => \E f : IsGrown(S, m, f)
<1> DEFINE N == {m \in Nat : m =< Len(arrival) => \E f : IsGrown(S, m, f)}
<1>1. 0 \in N
  <2>1. IsGrown(S, 0, [n \in 0..0 |-> <<>>])
    BY DEF IsGrown, Grown
  <2> QED
    BY <2>1
<1>2. ASSUME NEW m \in Nat, m \in N PROVE m + 1 \in N
  <2> SUFFICES ASSUME m + 1 =< Len(arrival) PROVE \E f : IsGrown(S, m + 1, f)
    OBVIOUS
  <2>1. PICK f : IsGrown(S, m, f)
    BY <1>2
  <2> DEFINE g == [n \in 0..(m + 1) |-> Grown(S, f, n)]
  <2>2. f = [n \in 0..m |-> Grown(S, f, n)]
    BY <2>1 DEF IsGrown
  <2>3. \A n \in 0..m : g[n] = f[n]
    BY <2>2
  <2>4. \A n \in 0..(m + 1) : Grown(S, g, n) = Grown(S, f, n)
    <3> HIDE DEF g
    <3> QED
      BY <2>3 DEF Grown
  <2>5. g = [n \in 0..(m + 1) |-> Grown(S, g, n)]
    BY <2>4
  <2>6. IsGrown(S, m + 1, g)
    BY <2>5 DEF IsGrown
  <2> QED
    BY <2>6
<1> HIDE DEF N
<1>3. Nat \subseteq N
  BY <1>1, <1>2, Induction
<1> QED
  BY <1>3 DEF N

\* A pass takes stored events, in a finite order.
LEMMA InOrderTyped ==
    ASSUME arrival \in Seq(Events), NEW S
    PROVE  InOrder(S) \in Seq(Events)
<1> DEFINE m == Len(arrival)
           f == CHOOSE g : IsGrown(S, m, g)
<1>1. m \in Nat
  OBVIOUS
<1>2. IsGrown(S, m, f)
  BY <1>1, GrownExists
<1>3. f \in [0..m -> Seq(Events)]
  BY <1>1, <1>2, GrownTyped
<1>4. InOrder(S) = f[m]
  BY InOrderChosen
<1> QED
  BY <1>1, <1>3, <1>4

----------------------------------------------------------------------------
(* What holds of the money behind receipts, however many handlers and      *)
(* operators are at work.                                                  *)

\* What was reversed of a receipt in journal J: ReversedSoFar, of any journal.
ReversalsOf(J, r) == {t \in J : t.kind = "reversal" /\ t.of = r}
ReversedIn(J, r) == SumFunctionOnSet([t \in ReversalsOf(J, r) |-> t.cents], ReversalsOf(J, r))

\* A receipt has one transaction, posted for its event or for a payment staff settled.
JournalSound(J) ==
    /\ IsFiniteSet(J)
    /\ \A t, u \in J : t.ref = u.ref => t = u
    /\ \A r \in Refs : ReversedIn(J, r) =< Paid
    /\ \A t \in J : IF t.event = None THEN t.ref \in Payments
                    ELSE t.ref = Payload[t.event].ref /\ Payload[t.event].kind \in {"payment", "reverse"}

\* The outbox and the record of external receipts agree, and come from such events.
ReceiptsSound(X, A) ==
    \A r \in Refs :
        /\ A[r] = IF X[r] = "announced" THEN 1 ELSE 0
        /\ X[r] # "none" => \E e \in Events : Payload[e].kind = "external" /\ Payload[e].ref = r

\* No processed payment is missing from the journal.
PaymentsIn(J, R) ==
    \A e \in Events :
        R[e].processed /\ Payload[e].kind = "payment" => \E t \in J : t.ref = Payload[e].ref

QueuesBusy ==
    \A w \in Workers : job[w].phase \in {"clear", "begin", "apply"} => job[w].queue # <<>>

EventsIInv ==
    TypeOK /\ QueuesBusy /\ JournalSound(journal) /\ ReceiptsSound(external, announced)
      /\ PaymentsIn(journal, rows)

\* The events of a pass are those of its queue.
LEMMA WorkingTyped ==
    ASSUME NEW q \in Seq(Events), NEW b \in BOOLEAN
    PROVE  /\ Working(q, b) \in Job
           /\ (Working(q, b).phase \in {"clear", "begin", "apply"} => Working(q, b).queue # <<>>)
  BY DEF Working, Idle, Job

\* An idle handler.
LEMMA IdleTyped == Idle \in Job /\ Idle.phase = "idle" /\ Idle.queue = <<>> /\ Idle.operator = FALSE
  BY DEF Idle, Job

\* What may become of a handler: its queue is not empty while it is at work.
JobSound(j) == j \in Job /\ (j.phase \in {"clear", "begin", "apply"} => j.queue # <<>>)
JobsSound(f) == f \in [Workers -> Job] /\ \A w \in Workers : JobSound(f[w])

\* JobsSound is the type of job and QueuesBusy.
LEMMA JobsSoundMeans ==
    JobsSound(job) <=> job \in [Workers -> Job] /\ QueuesBusy
  BY DEF JobsSound, JobSound, QueuesBusy

\* A step of one handler leaves the others.
LEMMA OneJobMoves ==
    ASSUME JobsSound(job), NEW w \in Workers, NEW j, JobSound(j), job' = [job EXCEPT ![w] = j]
    PROVE  JobsSound(job')
  BY DEF JobsSound, JobSound

\* The head of a handler's queue is an event, and what follows it a queue.
LEMMA HeadAndTail ==
    ASSUME JobsSound(job), NEW w \in Workers, job[w].phase \in {"clear", "begin", "apply"}
    PROVE  Head(job[w].queue) \in Events /\ JobSound(Working(Tail(job[w].queue), job[w].operator))
<1>1. job[w].queue \in Seq(Events) /\ job[w].queue # <<>> /\ job[w].operator \in BOOLEAN
  BY DEF JobsSound, JobSound, Job
<1>2. Head(job[w].queue) \in Events /\ Tail(job[w].queue) \in Seq(Events)
  BY <1>1, HeadTailProperties
<1> QED
  BY <1>1, <1>2, WorkingTyped DEF JobSound

\* A handler done with one event goes on with the rest of its queue.
LEMMA OnwardSound ==
    ASSUME JobsSound(job), NEW w \in Workers, job[w].phase \in {"begin", "apply"}, Onward(w)
    PROVE  JobsSound(job')
<1>1. job' = [job EXCEPT ![w] = Working(Tail(job[w].queue), job[w].operator)]
  BY DEF Onward, JobsSound
<1>2. JobSound(Working(Tail(job[w].queue), job[w].operator))
  BY HeadAndTail
<1> QED
  BY <1>1, <1>2, OneJobMoves

\* The rest of the type invariant, of the state after a step.
TypeRest ==
    /\ frozen \in BOOLEAN /\ rows \in [Events -> Row] /\ arrival \in Seq(Events) /\ mapped \in BOOLEAN
    /\ mishaps \in 0..MaxMishaps
MoneyTyped == journal \subseteq Txn /\ external \in [Refs -> {"none", "not_announced", "announced"}]
              /\ announced \in [Refs -> Nat]
MoneySound == MoneyTyped /\ JournalSound(journal) /\ ReceiptsSound(external, announced) /\ PaymentsIn(journal, rows)

\* The invariant as the parts that steps touch separately,
LEMMA EventsIInvMeans == EventsIInv <=> TypeRest /\ JobsSound(job) /\ MoneySound
  BY JobsSoundMeans DEF EventsIInv, TypeRest, MoneySound, MoneyTyped, TypeOK

\* and the same after a step.
LEMMA EventsIInvNext == TypeRest' /\ JobsSound(job)' /\ MoneySound' => EventsIInv'
  BY EventsIInvMeans, PTL

\* Money that does not move stays sound, if no event becomes processed.
LEMMA MoneyStays ==
    ASSUME MoneySound, UNCHANGED money, \A e \in Events : rows'[e].processed => rows[e].processed
    PROVE  MoneySound'
  BY DEF MoneySound, MoneyTyped, money, PaymentsIn, JournalSound, ReceiptsSound

\* One row changes.
LEMMA OneRowMoves ==
    ASSUME TypeRest, NEW e \in Events, NEW r \in Row, rows' = [rows EXCEPT ![e] = r]
    PROVE  rows' \in [Events -> Row] /\ rows'[e] = r /\ \A d \in Events \ {e} : rows'[d] = rows[d]
  BY DEF TypeRest

\* A delivery changes no money and processes nothing.
LEMMA DeliverKeeps ==
    ASSUME EventsIInv, NEW w \in Workers, NEW e \in Events, Deliver(w, e)
    PROVE  EventsIInv'
<1>1. TypeRest /\ JobsSound(job) /\ MoneySound
  BY EventsIInvMeans
<1>2. rows[e] \in Row
  BY <1>1 DEF TypeRest
<1>3. [rows[e] EXCEPT !.stored = TRUE] \in Row /\ [rows[e] EXCEPT !.stored = TRUE].processed = rows[e].processed
  BY <1>2 DEF Row
<1>4. rows' = [rows EXCEPT ![e] = [rows[e] EXCEPT !.stored = TRUE]]
  BY <1>1 DEF Deliver, TypeRest
<1>5. rows' \in [Events -> Row] /\ \A d \in Events : rows'[d].processed = rows[d].processed
  BY <1>1, <1>3, <1>4, OneRowMoves
<1>6. MoneySound'
  BY <1>1, <1>5, MoneyStays DEF Deliver
<1>7. arrival' \in Seq(Events)
  <2>1. Append(arrival, e) \in Seq(Events)
    BY <1>1 DEF TypeRest
  <2> QED
    BY <1>1, <2>1 DEF Deliver, TypeRest
<1>8. TypeRest'
  BY <1>1, <1>5, <1>7 DEF TypeRest, Deliver
<1>9. JobsSound(job')
  <2> DEFINE j == IF rows[e].processed THEN Idle ELSE Working(<<e>>, FALSE)
  <2>0. <<e>> \in Seq(Events) /\ JobSound(Idle)
    BY IdleTyped DEF JobSound
  <2>1. JobSound(j)
    <3>1. JobSound(Working(<<e>>, FALSE))
      BY <2>0, WorkingTyped DEF JobSound
    <3> QED
      BY <2>0, <3>1
  <2>2. job' = [job EXCEPT ![w] = j]
    BY DEF Deliver
  <2> HIDE DEF j
  <2> QED
    BY <1>1, <2>1, <2>2, OneJobMoves
<1>10. JobsSound(job)'
  BY <1>9 DEF JobsSound, JobSound
<1> QED
  BY <1>6, <1>8, <1>10, EventsIInvNext

\* A pass queues stored events.
LEMMA StartPassKeeps ==
    ASSUME EventsIInv, NEW w \in Workers, StartPass(w)
    PROVE  EventsIInv'
<1>1. TypeRest /\ JobsSound(job) /\ MoneySound
  BY EventsIInvMeans
<1>2. Pending \in Seq(Events)
  BY <1>1, InOrderTyped DEF Pending, TypeRest
<1> DEFINE n == IF Len(Pending) < Limit THEN Len(Pending) ELSE Limit
           j == IF frozen THEN Idle ELSE Working(SubSeq(Pending, 1, n), FALSE)
<1>3. SubSeq(Pending, 1, n) \in Seq(Events)
  <2>1. n \in 0..Len(Pending)
    BY <1>2, ProviderEventsAssumption
  <2> HIDE DEF n
  <2> QED
    BY <1>2, <2>1, SubSeqProperties
<1> HIDE DEF n
<1>4. JobSound(j)
  <2>1. JobSound(Idle)
    BY IdleTyped DEF JobSound
  <2>2. JobSound(Working(SubSeq(Pending, 1, n), FALSE))
    BY <1>3, WorkingTyped DEF JobSound
  <2>3. j = Idle \/ j = Working(SubSeq(Pending, 1, n), FALSE)
    BY Zenon
  <2> HIDE DEF j
  <2> QED
    BY <2>1, <2>2, <2>3, Zenon
<1>5. job' = [job EXCEPT ![w] = j]
  BY DEF StartPass, n
<1> HIDE DEF j
<1>6. JobsSound(job)'
  <2>1. JobsSound(job')
    BY <1>1, <1>4, <1>5, OneJobMoves
  <2> QED
    BY <2>1 DEF JobsSound, JobSound
<1>7. TypeRest' /\ rows' = rows /\ UNCHANGED money
  BY <1>1 DEF TypeRest, StartPass
<1>8. MoneySound'
  BY <1>1, <1>7, MoneyStays
<1> QED
  BY <1>6, <1>7, <1>8, EventsIInvNext

\* A reprocess queues its event.
LEMMA ReprocessKeeps ==
    ASSUME EventsIInv, NEW w \in Workers, NEW e \in Events, Reprocess(w, e)
    PROVE  EventsIInv'
<1>1. TypeRest /\ JobsSound(job) /\ MoneySound
  BY EventsIInvMeans
<1> DEFINE j == [phase |-> IF rows[e].processed THEN "clear" ELSE "begin", queue |-> <<e>>, operator |-> TRUE]
<1>2. JobSound(j)
  <2>1. <<e>> \in Seq(Events) /\ <<e>> # <<>>
    OBVIOUS
  <2> QED
    BY <2>1 DEF JobSound, Job
<1>3. job' = [job EXCEPT ![w] = j]
  BY DEF Reprocess
<1> HIDE DEF j
<1>4. JobsSound(job)'
  <2>1. JobsSound(job')
    BY <1>1, <1>2, <1>3, OneJobMoves
  <2> QED
    BY <2>1 DEF JobsSound, JobSound
<1>5. TypeRest' /\ rows' = rows /\ UNCHANGED money
  BY <1>1 DEF TypeRest, Reprocess
<1>6. MoneySound'
  BY <1>1, <1>5, MoneyStays
<1> QED
  BY <1>4, <1>5, <1>6, EventsIInvNext

\* A handler's phase changes, its queue stays.
LEMMA PhaseMoves ==
    ASSUME JobsSound(job), NEW w \in Workers, NEW p \in {"pass", "begin", "apply"},
           p # "pass" => job[w].queue # <<>>, job' = [job EXCEPT ![w].phase = p]
    PROVE  /\ JobsSound(job)' /\ job' = [job EXCEPT ![w] = [job[w] EXCEPT !.phase = p]]
           /\ \A v \in Workers : job'[v].operator = job[v].operator /\ job'[v].queue = job[v].queue
<1> DEFINE j == [job[w] EXCEPT !.phase = p]
<1>1. job[w] \in Job
  BY DEF JobsSound
<1>2. JobSound(j) /\ j.operator = job[w].operator /\ j.queue = job[w].queue
  BY <1>1 DEF JobSound, Job
<1>3. job' = [job EXCEPT ![w] = j]
  BY DEF JobsSound
<1> HIDE DEF j
<1>4. JobsSound(job')
  BY <1>2, <1>3, OneJobMoves
<1>5. JobsSound(job)'
  BY <1>4 DEF JobsSound, JobSound
<1>6. \A v \in Workers : job'[v].operator = job[v].operator /\ job'[v].queue = job[v].queue
  BY <1>2, <1>3 DEF JobsSound
<1> QED
  BY <1>3, <1>5, <1>6 DEF j

\* Clearing a row makes it pending: no payment is missing for that.
LEMMA ClearKeeps ==
    ASSUME EventsIInv, NEW w \in Workers, Clear(w)
    PROVE  EventsIInv'
<1>1. TypeRest /\ JobsSound(job) /\ MoneySound
  BY EventsIInvMeans
<1> DEFINE e == Head(job[w].queue)
<1>2. e \in Events /\ job[w].queue # <<>>
  BY <1>1, HeadAndTail DEF Clear, JobsSound, JobSound
<1>3. JobsSound(job)'
  BY <1>1, <1>2, PhaseMoves DEF Clear
<1> DEFINE r == [rows[e] EXCEPT !.processed = FALSE]
<1>4. r \in Row /\ ~r.processed
  BY <1>1, <1>2 DEF Row, TypeRest
<1>5. rows' = [rows EXCEPT ![e] = r]
  BY <1>1, <1>2 DEF Clear, TypeRest
<1> HIDE DEF r, e
<1>6. rows' \in [Events -> Row] /\ \A d \in Events : rows'[d].processed => rows[d].processed
  BY <1>1, <1>2, <1>4, <1>5, OneRowMoves
<1>7. TypeRest' /\ UNCHANGED money
  BY <1>1, <1>6 DEF TypeRest, Clear
<1>8. MoneySound'
  BY <1>1, <1>6, <1>7, MoneyStays
<1> QED
  BY <1>3, <1>7, <1>8, EventsIInvNext

\* An interpretation moves no money.
LEMMA BeginKeeps ==
    ASSUME EventsIInv, NEW w \in Workers, Begin(w)
    PROVE  EventsIInv'
<1>1. TypeRest /\ JobsSound(job) /\ MoneySound
  BY EventsIInvMeans
<1>2. JobsSound(job)'
  <2>1. CASE Onward(w)
    <3>1. JobsSound(job')
      BY <1>1, <2>1, OnwardSound DEF Begin
    <3> QED
      BY <3>1 DEF JobsSound, JobSound
  <2>2. CASE job' = [job EXCEPT ![w].phase = "apply"]
    <3>1. job[w].queue # <<>>
      BY <1>1 DEF Begin, JobsSound, JobSound
    <3> QED
      BY <1>1, <2>2, <3>1, PhaseMoves
  <2> QED
    BY <2>1, <2>2 DEF Begin
<1>3. TypeRest' /\ rows' = rows /\ UNCHANGED money
  BY <1>1 DEF TypeRest, Begin
<1>4. MoneySound'
  BY <1>1, <1>3, MoneyStays
<1> QED
  BY <1>2, <1>3, <1>4, EventsIInvNext

\* A transaction of a new receipt, within what was paid, keeps the journal sound.
LEMMA PostedSound ==
    ASSUME NEW J \in SUBSET Txn, JournalSound(J), NEW t \in Txn, \A u \in J : u.ref # t.ref,
           t.kind = "reversal" => ReversedIn(J, t.of) + t.cents =< Paid,
           IF t.event = None THEN t.ref \in Payments
           ELSE t.ref = Payload[t.event].ref /\ Payload[t.event].kind \in {"payment", "reverse"}
    PROVE  JournalSound(J \cup {t})
<1> DEFINE K == J \cup {t}
<1>1. IsFiniteSet(J) /\ IsFiniteSet(K)
  BY FS_AddElement DEF JournalSound
<1>2. \A u, v \in K : u.ref = v.ref => u = v
  BY DEF JournalSound
<1>3. ASSUME NEW r \in Refs PROVE ReversedIn(K, r) =< Paid
  <2> DEFINE A == ReversalsOf(J, r)
             B == ReversalsOf(K, r)
             f == [u \in A |-> u.cents]
             g == [u \in B |-> u.cents]
  <2>1. IsFiniteSet(A) /\ IsFiniteSet(B)
    BY <1>1, FS_Subset DEF ReversalsOf
  <2>2. /\ A \ {t} = B \ {t} /\ t \notin A /\ (t \in B <=> t.kind = "reversal" /\ t.of = r)
        /\ B \subseteq K /\ A \subseteq B
    BY DEF ReversalsOf
  <2>3. (\A u \in A : f[u] \in Int) /\ (\A u \in B : g[u] \in Int) /\ (\A u \in A \ {t} : g[u] = f[u])
    <3>1. A \subseteq B /\ \A u \in B : u.cents \in Nat
      BY <2>2 DEF Txn
    <3> HIDE DEF A, B
    <3> QED
      BY <3>1
  <2>4. t \in B => g[t] = t.cents /\ t.cents \in Nat
    BY DEF Txn
  <2>5. ReversedIn(J, r) = SumFunctionOnSet(f, A) /\ ReversedIn(K, r) = SumFunctionOnSet(g, B)
    BY DEF ReversedIn
  <2> HIDE DEF f, g, A, B, K
  <2>6. SumFunctionOnSet(g, B) = SumFunctionOnSet(f, A) - (IF t \in A THEN f[t] ELSE 0)
                                   + (IF t \in B THEN g[t] ELSE 0)
    BY <2>1, <2>2, <2>3, SumSelected
  <2>7. SumFunctionOnSet(f, A) \in Int
    BY <2>1, <2>3, SumType
  <2>8. ReversedIn(J, r) =< Paid
    BY DEF JournalSound
  <2>9. CASE t \in B
    <3>1. ReversedIn(K, r) = ReversedIn(J, r) + t.cents
      BY <2>2, <2>4, <2>5, <2>6, <2>7, <2>9
    <3>2. t.kind = "reversal" /\ t.of = r
      BY <2>2, <2>9
    <3> QED
      BY <3>1, <3>2
  <2>10. CASE t \notin B
    <3>1. ReversedIn(K, r) = ReversedIn(J, r)
      BY <2>2, <2>5, <2>6, <2>7, <2>10
    <3> QED
      BY <2>8, <3>1
  <2> QED
    BY <2>9, <2>10
<1>4. \A u \in K : IF u.event = None THEN u.ref \in Payments
                   ELSE u.ref = Payload[u.event].ref /\ Payload[u.event].kind \in {"payment", "reverse"}
  BY DEF JournalSound
<1> QED
  BY <1>1, <1>2, <1>3, <1>4 DEF JournalSound

\* What an event says.
LEMMA Payloads ==
    ASSUME NEW e \in Events
    PROVE  /\ Payload[e].kind \in {"payment", "reverse", "external", "none"}
           /\ Payload[e].ref \in Refs /\ Payload[e].of \in Refs /\ Payload[e].cents \in Nat
           /\ e # None
  BY ProviderEventsAssumption

\* What is reversed of a receipt so far is a number of cents.
LEMMA ReversedTyped ==
    ASSUME journal \subseteq Txn, JournalSound(journal), NEW r \in Refs
    PROVE  ReversedSoFar(r) = ReversedIn(journal, r) /\ ReversedIn(journal, r) \in Int
<1>1. ReversedSoFar(r) = ReversedIn(journal, r)
  BY DEF ReversedSoFar, ReversedIn, ReversalsOf
<1>2. IsFiniteSet(ReversalsOf(journal, r))
  BY FS_Subset DEF ReversalsOf, JournalSound
<1> DEFINE f == [t \in ReversalsOf(journal, r) |-> t.cents]
<1>3. \A t \in ReversalsOf(journal, r) : f[t] \in Int
  BY DEF ReversalsOf, Txn
<1>4. ReversedIn(journal, r) = SumFunctionOnSet(f, ReversalsOf(journal, r))
  BY DEF ReversedIn
<1> HIDE DEF f
<1> QED
  BY <1>1, <1>2, <1>3, <1>4, SumType

\* Neither the event nor its receipt has a transaction.
LEMMA NotDuplicate ==
    ASSUME NEW e \in Events, Duplicates(e) = {}
    PROVE  \A t \in journal : t.ref # Payload[e].ref /\ t.event # e
  BY DEF Duplicates

\* The transaction of an event that has none yet.
LEMMA PostsSound ==
    ASSUME MoneyTyped, JournalSound(journal), NEW e \in Events, Payload[e].kind \in {"payment", "reverse"},
           Duplicates(e) = {}, NEW kind \in {"payment", "reversal"}, NEW cents \in Nat, Posts(e, kind, cents),
           kind = "reversal" => ReversedIn(journal, Payload[e].of) + cents =< Paid
    PROVE  /\ journal' \subseteq Txn /\ JournalSound(journal') /\ journal \subseteq journal'
           /\ \E t \in journal' : t.ref = Payload[e].ref
<1> DEFINE t == [ref |-> Payload[e].ref, kind |-> kind, of |-> Payload[e].of, event |-> e, cents |-> cents]
<1>1. t \in Txn
  BY Payloads DEF Txn
<1>2. /\ t.event = e /\ t.event # None /\ t.ref = Payload[e].ref /\ t.of = Payload[e].of
      /\ t.cents = cents /\ t.kind = kind
  BY Payloads
<1>3. journal' = journal \cup {t}
  BY DEF Posts
<1> HIDE DEF t
<1>4. \A u \in journal : u.ref # t.ref
  BY <1>2, NotDuplicate
<1>5. journal \in SUBSET Txn
  BY DEF MoneyTyped
<1>6. JournalSound(journal \cup {t})
  BY <1>1, <1>2, <1>4, <1>5, PostedSound
<1> QED
  BY <1>1, <1>2, <1>3, <1>5, <1>6

\* Applying the plan of an event keeps the money sound, and a payment gets its
\* transaction if it has none.
LEMMA ApplyPlanKeeps ==
    ASSUME MoneySound, NEW e \in Events, NEW effect \in Effects, ApplyPlan(e, effect),
           mapped \in BOOLEAN
    PROVE  /\ MoneyTyped' /\ JournalSound(journal') /\ ReceiptsSound(external', announced')
           /\ journal \subseteq journal'
           /\ Payload[e].kind = "payment" => \E t \in journal' : t.ref = Payload[e].ref
<1>1. MoneyTyped /\ JournalSound(journal) /\ ReceiptsSound(external, announced)
  BY DEF MoneySound
<1> DEFINE p == Payload[e]
<1>2. p.kind \in {"payment", "reverse", "external", "none"} /\ p.ref \in Refs /\ p.of \in Refs /\ p.cents \in Nat
  BY Payloads
<1>3. CASE UNCHANGED money /\ p.kind # "payment"
  BY <1>1, <1>3 DEF money, MoneyTyped, ReceiptsSound
<1>4. CASE p.kind = "external" /\ RecordExternal(p.ref, effect)
  <2>1. CASE UNCHANGED money
    BY <1>1, <1>4, <2>1 DEF money, MoneyTyped, ReceiptsSound
  <2>2. CASE Announceable(p.ref) /\ ~UNCHANGED <<external, announced>>
    <3>1. journal' = journal
      BY <1>4 DEF RecordExternal
    <3>2. external' = [external EXCEPT ![p.ref] = IF mapped THEN "announced" ELSE "not_announced"]
      BY <1>4, <2>2 DEF RecordExternal
    <3>3. announced' = IF mapped THEN [announced EXCEPT ![p.ref] = announced[p.ref] + 1] ELSE announced
      BY <1>1, <1>4, <2>2 DEF RecordExternal, MoneyTyped
    <3>4. announced[p.ref] = 0
      BY <1>1, <1>2, <2>2 DEF ReceiptsSound, Announceable
    <3>5. MoneyTyped'
      BY <1>1, <1>2, <3>1, <3>2, <3>3, <3>4 DEF MoneyTyped
    <3>6. ReceiptsSound(external', announced')
      <4> SUFFICES ASSUME NEW r \in Refs
                   PROVE  /\ announced'[r] = IF external'[r] = "announced" THEN 1 ELSE 0
                          /\ external'[r] # "none" =>
                               \E d \in Events : Payload[d].kind = "external" /\ Payload[d].ref = r
        BY DEF ReceiptsSound
      <4>1. CASE r = p.ref
        <5>1. external'[r] = IF mapped THEN "announced" ELSE "not_announced"
          BY <1>1, <3>2, <4>1 DEF MoneyTyped
        <5>2. announced'[r] = IF mapped THEN 1 ELSE 0
          BY <1>1, <3>3, <3>4, <4>1 DEF MoneyTyped
        <5> QED
          BY <1>4, <4>1, <5>1, <5>2
      <4>2. CASE r # p.ref
        <5>1. external'[r] = external[r] /\ announced'[r] = announced[r]
          BY <1>1, <3>2, <3>3, <4>2 DEF MoneyTyped
        <5> QED
          BY <1>1, <5>1 DEF ReceiptsSound
      <4> QED
        BY <4>1, <4>2
    <3> QED
      BY <1>1, <1>4, <3>1, <3>5, <3>6
  <2> QED
    BY <1>4, <2>1, <2>2 DEF RecordExternal, money
<1>5. CASE p.kind \in {"payment", "reverse"} /\ Duplicates(e) # {} /\ UNCHANGED money
  <2>1. PICK t \in journal : t.event = e \/ t.ref = p.ref
    BY <1>5 DEF Duplicates
  <2>2. t.ref = p.ref
    BY <1>1, <2>1, Payloads DEF JournalSound
  <2> QED
    BY <1>1, <1>5, <2>2 DEF money, MoneyTyped, ReceiptsSound
<1>6. CASE p.kind = "payment" /\ Duplicates(e) = {} /\ Posts(e, "payment", Paid)
  <2>1. Paid \in Nat
    BY ProviderEventsAssumption
  <2>2. /\ journal' \subseteq Txn /\ JournalSound(journal') /\ journal \subseteq journal'
        /\ \E t \in journal' : t.ref = Payload[e].ref
    BY <1>1, <1>6, <2>1, PostsSound
  <2> QED
    BY <1>1, <1>6, <2>2 DEF Posts, MoneyTyped, ReceiptsSound
<1>7. CASE \E cents : /\ p.kind = "reverse" /\ Duplicates(e) = {} /\ Posts(e, "reversal", cents) /\ cents > 0
                      /\ cents = IF p.cents < Paid - ReversedSoFar(p.of) THEN p.cents ELSE Paid - ReversedSoFar(p.of)
  <2>1. PICK cents : /\ p.kind = "reverse" /\ Duplicates(e) = {} /\ Posts(e, "reversal", cents) /\ cents > 0
                     /\ cents = IF p.cents < Paid - ReversedSoFar(p.of) THEN p.cents ELSE Paid - ReversedSoFar(p.of)
    BY <1>7
  <2>2. ReversedSoFar(p.of) = ReversedIn(journal, p.of) /\ ReversedIn(journal, p.of) \in Int
    BY <1>1, <1>2, ReversedTyped DEF MoneyTyped
  <2>3. Paid \in Nat
    BY ProviderEventsAssumption
  <2>4. cents \in Nat /\ ReversedIn(journal, p.of) + cents =< Paid
    BY <1>2, <2>1, <2>2, <2>3
  <2>5. /\ journal' \subseteq Txn /\ JournalSound(journal') /\ journal \subseteq journal'
        /\ \E t \in journal' : t.ref = Payload[e].ref
    BY <1>1, <2>1, <2>4, PostsSound
  <2> QED
    BY <1>1, <2>1, <2>5 DEF Posts, MoneyTyped, ReceiptsSound
<1> QED
  BY <1>3, <1>4, <1>5, <1>6, <1>7 DEF ApplyPlan

\* The row of an event that was applied.
LEMMA RowApplied ==
    ASSUME TypeRest, NEW e \in Events, NEW x \in Effects,
           rows' = [rows EXCEPT ![e].processed = TRUE, ![e].effect = x]
    PROVE  /\ rows' \in [Events -> Row] /\ rows'[e].processed /\ rows'[e].effect = x
           /\ \A d \in Events \ {e} : rows'[d] = rows[d]
<1>1. rows \in [Events -> Row]
  BY DEF TypeRest
<1> DEFINE a == [rows EXCEPT ![e].processed = TRUE]
<1>2. rows' = [a EXCEPT ![e].effect = x]
  OBVIOUS
<1>3. a = [rows EXCEPT ![e] = [rows[e] EXCEPT !.processed = TRUE]]
  BY <1>1
<1>4. rows[e] \in Row
  BY <1>1
<1>5. [rows[e] EXCEPT !.processed = TRUE] \in Row
  BY <1>4 DEF Row
<1>6. a \in [Events -> Row] /\ a[e].processed /\ \A d \in Events \ {e} : a[d] = rows[d]
  BY <1>1, <1>3, <1>5, <1>4 DEF Row
<1> HIDE DEF a
<1>7. rows' = [a EXCEPT ![e] = [a[e] EXCEPT !.effect = x]]
  BY <1>2, <1>6
<1>8. a[e] \in Row
  BY <1>6
<1>9. [a[e] EXCEPT !.effect = x] \in Row /\ [a[e] EXCEPT !.effect = x].processed = a[e].processed
      /\ [a[e] EXCEPT !.effect = x].effect = x
  BY <1>8 DEF Row
<1> QED
  BY <1>6, <1>7, <1>9

\* The transaction that applies a plan marks its event processed.
LEMMA ApplyKeeps ==
    ASSUME EventsIInv, NEW w \in Workers, Apply(w)
    PROVE  EventsIInv'
<1>1. TypeRest /\ JobsSound(job) /\ MoneySound
  BY EventsIInvMeans
<1> DEFINE e == Head(job[w].queue)
<1>2. e \in Events
  BY <1>1, HeadAndTail DEF Apply
<1>3. JobsSound(job)'
  <2>1. JobsSound(job')
    BY <1>1, OnwardSound DEF Apply
  <2> QED
    BY <2>1 DEF JobsSound, JobSound
<1> HIDE DEF e
<1>4. CASE UNCHANGED <<rows, money>>
  <2>1. TypeRest'
    BY <1>1, <1>4 DEF TypeRest, Apply
  <2>2. MoneySound'
    BY <1>1, <1>4, MoneyStays
  <2> QED
    BY <1>3, <2>1, <2>2, EventsIInvNext
<1>5. CASE \E effect \in Effects :
             ApplyPlan(e, effect) /\ rows' = [rows EXCEPT ![e].processed = TRUE, ![e].effect = effect]
  <2>1. PICK effect \in Effects :
           ApplyPlan(e, effect) /\ rows' = [rows EXCEPT ![e].processed = TRUE, ![e].effect = effect]
    BY <1>5
  <2>2. /\ MoneyTyped' /\ JournalSound(journal') /\ ReceiptsSound(external', announced')
        /\ journal \subseteq journal'
        /\ Payload[e].kind = "payment" => \E t \in journal' : t.ref = Payload[e].ref
    BY <1>1, <1>2, <2>1, ApplyPlanKeeps DEF TypeRest
  <2>3. rows' \in [Events -> Row] /\ \A d \in Events \ {e} : rows'[d] = rows[d]
    BY <1>1, <1>2, <2>1, RowApplied
  <2>4. TypeRest'
    BY <1>1, <2>3 DEF TypeRest, Apply
  <2>5. PaymentsIn(journal', rows')
    BY <1>1, <1>2, <2>2, <2>3 DEF PaymentsIn, MoneySound
  <2>6. MoneySound'
    BY <2>2, <2>5 DEF MoneySound, JournalSound, ReceiptsSound, PaymentsIn
  <2> QED
    BY <1>3, <2>4, <2>6, EventsIInvNext
<1> QED
  BY <1>4, <1>5 DEF Apply, e

\* A transaction that failed leaves no trace.
LEMMA FailToApplyKeeps ==
    ASSUME EventsIInv, NEW w \in Workers, FailToApply(w)
    PROVE  EventsIInv'
<1>1. TypeRest /\ JobsSound(job) /\ MoneySound
  BY EventsIInvMeans
<1>2. JobsSound(job)'
  <2>1. JobsSound(job')
    BY <1>1, OnwardSound DEF FailToApply
  <2> QED
    BY <2>1 DEF JobsSound, JobSound
<1>3. TypeRest' /\ rows' = rows /\ UNCHANGED money
  BY <1>1, ProviderEventsAssumption DEF TypeRest, FailToApply, LeftPending
<1>4. MoneySound'
  BY <1>1, <1>3, MoneyStays
<1> QED
  BY <1>2, <1>3, <1>4, EventsIInvNext

\* A restart loses handlers, not rows.
LEMMA RestartKeeps == EventsIInv /\ Restart => EventsIInv'
<1> SUFFICES ASSUME EventsIInv, Restart PROVE EventsIInv'
  OBVIOUS
<1>1. TypeRest /\ JobsSound(job) /\ MoneySound
  BY EventsIInvMeans
<1>2. JobsSound(job)'
  BY IdleTyped DEF Restart, JobsSound, JobSound
<1>3. TypeRest' /\ rows' = rows /\ UNCHANGED money
  BY <1>1, ProviderEventsAssumption DEF TypeRest, Restart
<1>4. MoneySound'
  BY <1>1, <1>3, MoneyStays
<1> QED
  BY <1>2, <1>3, <1>4, EventsIInvNext

\* Lifting the freeze starts a pass.
LEMMA UnfreezeKeeps ==
    ASSUME EventsIInv, NEW w \in Workers, Unfreeze(w)
    PROVE  EventsIInv'
<1>1. TypeRest /\ JobsSound(job) /\ MoneySound
  BY EventsIInvMeans
<1>2. JobsSound(job)'
  BY <1>1, PhaseMoves DEF Unfreeze
<1>3. TypeRest' /\ rows' = rows /\ UNCHANGED money
  BY <1>1 DEF TypeRest, Unfreeze
<1>4. MoneySound'
  BY <1>1, <1>3, MoneyStays
<1> QED
  BY <1>2, <1>3, <1>4, EventsIInvNext

\* A freeze, and naming the account, touch neither handlers nor money.
LEMMA SettingsKeep == EventsIInv /\ (Freeze \/ MapAccount) => EventsIInv'
<1> SUFFICES ASSUME EventsIInv, Freeze \/ MapAccount PROVE EventsIInv'
  OBVIOUS
<1>1. TypeRest /\ JobsSound(job) /\ MoneySound
  BY EventsIInvMeans
<1>2. JobsSound(job)'
  BY <1>1 DEF Freeze, MapAccount, JobsSound, JobSound
<1>3. TypeRest' /\ rows' = rows /\ UNCHANGED money
  BY <1>1 DEF TypeRest, Freeze, MapAccount
<1>4. MoneySound'
  BY <1>1, <1>3, MoneyStays
<1> QED
  BY <1>2, <1>3, <1>4, EventsIInvNext

\* A payment staff settle is new to the journal.
LEMMA SettleByHandKeeps ==
    ASSUME EventsIInv, NEW r \in Payments, SettleByHand(r)
    PROVE  EventsIInv'
<1>1. TypeRest /\ JobsSound(job) /\ MoneySound
  BY EventsIInvMeans
<1> DEFINE t == [ref |-> r, kind |-> "payment", of |-> r, event |-> None, cents |-> Paid]
<1>2. t \in Txn /\ t.event = None /\ t.ref = r /\ t.kind = "payment"
  <2>1. r \in Refs /\ Paid \in Nat
    BY Payloads, ProviderEventsAssumption DEF Payments
  <2> QED
    BY <2>1 DEF Txn
<1>3. journal' = journal \cup {t} /\ \A u \in journal : u.ref # r
  BY DEF SettleByHand
<1> HIDE DEF t
<1>4. JournalSound(journal \cup {t})
  BY <1>1, <1>2, <1>3, PostedSound DEF MoneySound, MoneyTyped
<1>5. MoneySound'
  <2>1. JournalSound(journal') /\ journal' \subseteq Txn
    BY <1>1, <1>2, <1>3, <1>4 DEF MoneySound, MoneyTyped
  <2>2. external' = external /\ announced' = announced /\ rows' = rows
    BY DEF SettleByHand
  <2>3. MoneyTyped' /\ PaymentsIn(journal', rows') /\ ReceiptsSound(external', announced')
    BY <1>1, <1>3, <2>1, <2>2 DEF MoneySound, MoneyTyped, PaymentsIn, ReceiptsSound
  <2> QED
    BY <2>1, <2>3 DEF MoneySound, JournalSound, PaymentsIn, ReceiptsSound
<1>6. TypeRest'
  BY <1>1 DEF TypeRest, SettleByHand
<1>7. JobsSound(job)'
  BY <1>1 DEF SettleByHand, JobsSound, JobSound
<1> QED
  BY <1>5, <1>6, <1>7, EventsIInvNext

\* Nothing has happened yet.
LEMMA EventsStart == Init => EventsIInv
<1> SUFFICES ASSUME Init PROVE EventsIInv
  OBVIOUS
<1>1. TypeRest
  <2>1. 0 \in 0..MaxMishaps
    BY ProviderEventsAssumption
  <2>2. [stored |-> FALSE, processed |-> FALSE, effect |-> None] \in Row
    BY DEF Row
  <2>3. rows \in [Events -> Row]
    BY <2>2 DEF Init
  <2>4. <<>> \in Seq(Events)
    OBVIOUS
  <2> QED
    BY <2>1, <2>3, <2>4 DEF Init, TypeRest
<1>2. JobsSound(job)
  BY IdleTyped DEF Init, JobsSound, JobSound
<1>3. JournalSound({})
  <2>1. ASSUME NEW r \in Refs PROVE ReversedIn({}, r) =< Paid
    <3>1. ReversalsOf({}, r) = {}
      BY DEF ReversalsOf
    <3>2. ReversedIn({}, r) = SumFunctionOnSet([t \in {} |-> t.cents], {})
      BY <3>1, Zenon DEF ReversedIn
    <3> QED
      BY <3>2, SumEmpty, ProviderEventsAssumption
  <2>2. IsFiniteSet({})
    BY FS_EmptySet
  <2> QED
    BY <2>1, <2>2 DEF JournalSound
<1>4. MoneySound
  <2>1. journal = {}
    BY DEF Init
  <2>2. JournalSound(journal)
    BY <1>3, <2>1, Zenon
  <2>3. MoneyTyped /\ ReceiptsSound(external, announced) /\ PaymentsIn(journal, rows)
    BY DEF Init, MoneyTyped, ReceiptsSound, PaymentsIn
  <2> QED
    BY <2>2, <2>3 DEF MoneySound
<1> QED
  BY <1>1, <1>2, <1>4, EventsIInvMeans

\* Every step keeps it.
LEMMA EventsStep == EventsIInv /\ [Next]_vars => EventsIInv'
<1> SUFFICES ASSUME EventsIInv, [Next]_vars PROVE EventsIInv'
  OBVIOUS
<1>1. CASE UNCHANGED vars
  <2>1. TypeRest /\ JobsSound(job) /\ MoneySound
    BY EventsIInvMeans
  <2>2. TypeRest' /\ JobsSound(job)' /\ UNCHANGED money /\ rows' = rows
    BY <1>1, <2>1 DEF vars, money, TypeRest, JobsSound, JobSound
  <2>3. MoneySound'
    BY <2>1, <2>2, MoneyStays
  <2> QED
    BY <2>2, <2>3, EventsIInvNext
<1>2. ASSUME NEW w \in Workers, NEW e \in Events, Deliver(w, e) \/ Reprocess(w, e) PROVE EventsIInv'
  BY <1>2, DeliverKeeps, ReprocessKeeps
<1>3. ASSUME NEW w \in Workers, Run(w) PROVE EventsIInv'
  BY <1>3, StartPassKeeps, ClearKeeps, BeginKeeps, ApplyKeeps DEF Run
<1>4. ASSUME NEW w \in Workers, FailToApply(w) \/ Unfreeze(w) PROVE EventsIInv'
  BY <1>4, FailToApplyKeeps, UnfreezeKeeps
<1>5. CASE Restart \/ Freeze \/ MapAccount
  BY <1>5, RestartKeeps, SettingsKeep
<1>6. ASSUME NEW r \in Payments, SettleByHand(r) PROVE EventsIInv'
  BY <1>6, SettleByHandKeeps
<1> QED
  BY <1>1, <1>2, <1>3, <1>4, <1>5, <1>6 DEF Next

\* A set no two of whose members differ has at most one.
LEMMA AtMostOne ==
    ASSUME NEW S, IsFiniteSet(S), \A x, y \in S : x = y
    PROVE  Cardinality(S) = IF S = {} THEN 0 ELSE 1
<1>1. CASE S = {}
  BY <1>1, FS_EmptySet
<1>2. CASE S # {}
  <2>1. PICK x \in S : TRUE
    BY <1>2
  <2>2. S = {x}
    BY <2>1
  <2> QED
    BY <1>2, <2>2, FS_Singleton
<1> QED
  BY <1>1, <1>2

\* The inductive invariant of the pipeline: one transaction per receipt, reversed within
\* what was paid, tips announced as recorded, processed payments in the journal.
LEMMA PipelineKept == Spec => []EventsIInv
<1> QED
  BY EventsStart, EventsStep, PTL DEF Spec

\* However a payment is delivered, under one delivery id or several, by hand, again after
\* a failure or a restart, by any number of operators at once, it settles once, no more of
\* it is reversed than was paid, and what counts as processed is in the journal.
THEOREM SettledOnceAndKept == Spec => [](TypeOK /\ SettledOnce /\ NothingLost)
<1>1. EventsIInv => SettledOnce
  <2> SUFFICES ASSUME EventsIInv, NEW r \in Refs
               PROVE  Cardinality({t \in journal : t.ref = r}) =< 1 /\ ReversedSoFar(r) =< Paid
    BY DEF SettledOnce
  <2>1. JournalSound(journal) /\ journal \subseteq Txn
    BY DEF EventsIInv, TypeOK
  <2> DEFINE S == {t \in journal : t.ref = r}
  <2>2. IsFiniteSet(S) /\ \A x, y \in S : x = y
    BY <2>1, FS_Subset DEF JournalSound
  <2> HIDE DEF S
  <2>3. Cardinality(S) =< 1
    BY <2>2, AtMostOne
  <2>4. ReversedSoFar(r) =< Paid
    BY <2>1, ReversedTyped DEF JournalSound
  <2> QED
    BY <2>3, <2>4 DEF S
<1>2. EventsIInv => NothingLost
  BY DEF EventsIInv, PaymentsIn, NothingLost
<1>3. EventsIInv => TypeOK
  BY DEF EventsIInv
<1> QED
  BY <1>1, <1>2, <1>3, PipelineKept, PTL

\* A tip to a streamer's own account and a payment to the platform never carry one
\* receipt reference: the provider names each payment once, on one account.
ReceiptsApart ==
    \A d, e \in Events :
        Payload[d].kind = "external" /\ Payload[e].kind \in {"payment", "reverse"} => Payload[d].ref # Payload[e].ref

\* A payment reaches the journal exactly once, and a tip to a streamer's own account
\* never, and is announced once, for any events, handlers, failures and restarts.
THEOREM ReceiptsExactlyOnce == ReceiptsApart => (Spec => []EventsInv)
<1> SUFFICES ASSUME ReceiptsApart PROVE Spec => []EventsInv
  OBVIOUS
<1>1. EventsIInv => AnnouncedOnce
  <2> SUFFICES ASSUME EventsIInv PROVE AnnouncedOnce
    OBVIOUS
  <2>1. ReceiptsSound(external, announced) /\ JournalSound(journal) /\ journal \subseteq Txn
    BY DEF EventsIInv, TypeOK
  <2>2. \A r \in Refs : announced[r] > 0 => external[r] = "announced"
    BY <2>1 DEF ReceiptsSound
  <2>3. ASSUME NEW r \in Refs, NEW t \in journal, external[r] # "none", t.ref = r PROVE FALSE
    <3>1. PICK d \in Events : Payload[d].kind = "external" /\ Payload[d].ref = r
      BY <2>1, <2>3 DEF ReceiptsSound
    <3>2. \E e \in Events : Payload[e].kind \in {"payment", "reverse"} /\ Payload[e].ref = r
      <4>1. CASE t.event = None
        BY <2>1, <2>3, <4>1 DEF JournalSound, Payments
      <4>2. CASE t.event # None
        <5>1. t.event \in Events
          BY <2>1, <4>2 DEF Txn
        <5> QED
          BY <2>1, <2>3, <4>2, <5>1 DEF JournalSound
      <4> QED
        BY <4>1, <4>2
    <3> QED
      BY <3>1, <3>2 DEF ReceiptsApart
  <2>4. \A r \in Refs : ~(external[r] = "announced" /\ announced[r] = 0) /\ ~(announced[r] > 1)
    BY <2>1 DEF ReceiptsSound
  <2>5. ExtBad = {}
    BY <2>3, <2>4 DEF ExtBad
  <2> QED
    BY <2>2, <2>5 DEF AnnouncedOnce
<1>2. TypeOK /\ SettledOnce /\ NothingLost /\ AnnouncedOnce => EventsInv
  BY DEF EventsInv
<1> QED
  BY <1>1, <1>2, SettledOnceAndKept, PipelineKept, PTL

----------------------------------------------------------------------------
(* The nightly check events.settlement, while one operator at a time       *)
(* reprocesses events.                                                     *)

OneOperator(f) == \A v, w \in Workers : f[v].operator /\ f[w].operator => v = w

\* A handler about to clear a row is the operator's, and the row is as it was read.
ClearsSound(f, R) ==
    \A w \in Workers :
        f[w].phase = "clear" =>
            /\ f[w].operator /\ R[Head(f[w].queue)].processed
            /\ R[Head(f[w].queue)].effect \in {"rejected", "none", "unannounced"}

\* An event is settled when a transaction points at it, and is then processed.
EffectsSound(J, R) ==
    \A e \in Events :
        /\ R[e].effect = "settled" <=> \E t \in J : t.event = e
        /\ ~R[e].processed => R[e].effect # "settled"

SettlementIInv == EventsIInv /\ OneOperator(job) /\ ClearsSound(job, rows) /\ EffectsSound(journal, rows)

\* A handler that is not going to clear a row, nor a new operator's, disturbs nothing.
LEMMA OneJobCalm ==
    ASSUME JobsSound(job), OneOperator(job), ClearsSound(job, rows), NEW w \in Workers, NEW j,
           job' = [job EXCEPT ![w] = j], j.phase # "clear", j.operator => job[w].operator,
           NEW R, \A v \in Workers \ {w} : job[v].phase = "clear" =>
              /\ R[Head(job[v].queue)].processed = rows[Head(job[v].queue)].processed
              /\ R[Head(job[v].queue)].effect = rows[Head(job[v].queue)].effect
    PROVE  OneOperator(job') /\ ClearsSound(job', R)
<1>1. job'[w] = j /\ \A v \in Workers \ {w} : job'[v] = job[v]
  BY DEF JobsSound
<1>2. OneOperator(job')
  BY <1>1 DEF OneOperator
<1>3. ClearsSound(job', R)
  BY <1>1 DEF ClearsSound
<1> QED
  BY <1>2, <1>3

\* What a queue becomes is not a clear, and is an operator's only if it was one.
LEMMA WorkingCalm ==
    ASSUME NEW q, NEW b
    PROVE  Working(q, b).phase # "clear" /\ (Working(q, b).operator => b)
  BY DEF Working, Idle

\* Going on with a queue disturbs no operator.
LEMMA OnwardCalm ==
    ASSUME JobsSound(job), OneOperator(job), ClearsSound(job, rows), NEW w \in Workers, Onward(w),
           NEW R, \A v \in Workers \ {w} : job[v].phase = "clear" =>
              /\ R[Head(job[v].queue)].processed = rows[Head(job[v].queue)].processed
              /\ R[Head(job[v].queue)].effect = rows[Head(job[v].queue)].effect
    PROVE  OneOperator(job') /\ ClearsSound(job', R)
<1> DEFINE j == Working(Tail(job[w].queue), job[w].operator)
<1>1. job' = [job EXCEPT ![w] = j]
  BY DEF Onward, JobsSound
<1>2. j.phase # "clear" /\ (j.operator => job[w].operator)
  BY WorkingCalm
<1> HIDE DEF j
<1> QED
  BY <1>1, <1>2, OneJobCalm

\* What the conjuncts say of the next state.
LEMMA SettlementNext ==
    EventsIInv' /\ OneOperator(job') /\ ClearsSound(job', rows') /\ EffectsSound(journal', rows') => SettlementIInv'
  BY DEF SettlementIInv, OneOperator, ClearsSound, EffectsSound

\* A delivery changes neither effects nor operators.
LEMMA DeliverSettles ==
    ASSUME SettlementIInv, NEW w \in Workers, NEW e \in Events, Deliver(w, e)
    PROVE  SettlementIInv'
<1>0. EventsIInv /\ EventsIInv' /\ OneOperator(job) /\ ClearsSound(job, rows) /\ EffectsSound(journal, rows)
  BY DeliverKeeps DEF SettlementIInv
<1>1. TypeRest /\ JobsSound(job)
  BY <1>0, EventsIInvMeans
<1>2. \A d \in Events : rows'[d].processed = rows[d].processed /\ rows'[d].effect = rows[d].effect
  <2>1. rows' = [rows EXCEPT ![e] = [rows[e] EXCEPT !.stored = TRUE]] /\ rows[e] \in Row
    BY <1>1 DEF Deliver, TypeRest
  <2>2. [rows[e] EXCEPT !.stored = TRUE] \in Row
        /\ [rows[e] EXCEPT !.stored = TRUE].processed = rows[e].processed
        /\ [rows[e] EXCEPT !.stored = TRUE].effect = rows[e].effect
    BY <2>1 DEF Row
  <2> QED
    BY <1>1, <2>1, <2>2, OneRowMoves
<1> DEFINE j == IF rows[e].processed THEN Idle ELSE Working(<<e>>, FALSE)
<1>3. job' = [job EXCEPT ![w] = j]
  BY DEF Deliver
<1>4. j.phase # "clear" /\ ~j.operator
  BY WorkingCalm, IdleTyped
<1> HIDE DEF j
<1>5. \A v \in Workers : job[v].phase = "clear" => Head(job[v].queue) \in Events
  BY <1>1, HeadAndTail
<1>6. OneOperator(job') /\ ClearsSound(job', rows')
  BY <1>0, <1>1, <1>2, <1>3, <1>4, <1>5, OneJobCalm
<1>7. EffectsSound(journal', rows')
  BY <1>0, <1>2 DEF EffectsSound, Deliver, money
<1> QED
  BY <1>0, <1>6, <1>7, SettlementNext

\* A pass is no operator's.
LEMMA StartPassSettles ==
    ASSUME SettlementIInv, NEW w \in Workers, StartPass(w)
    PROVE  SettlementIInv'
<1>0. EventsIInv /\ EventsIInv' /\ OneOperator(job) /\ ClearsSound(job, rows) /\ EffectsSound(journal, rows)
  BY StartPassKeeps DEF SettlementIInv
<1>1. JobsSound(job)
  BY <1>0, EventsIInvMeans
<1> DEFINE q == SubSeq(Pending, 1, IF Len(Pending) < Limit THEN Len(Pending) ELSE Limit)
           j == IF frozen THEN Idle ELSE Working(q, FALSE)
<1>2. job' = [job EXCEPT ![w] = j]
  BY Zenon DEF StartPass
<1> HIDE DEF q
<1>3. j.phase # "clear" /\ ~j.operator
  BY WorkingCalm, IdleTyped
<1> HIDE DEF j
<1>4. rows' = rows /\ journal' = journal
  BY DEF StartPass, money
<1>5. OneOperator(job') /\ ClearsSound(job', rows')
  <2>1. OneOperator(job') /\ ClearsSound(job', rows)
    BY <1>0, <1>1, <1>2, <1>3, OneJobCalm
  <2> QED
    BY <1>4, <2>1
<1>6. EffectsSound(journal', rows')
  BY <1>0, <1>4
<1> QED
  BY <1>0, <1>5, <1>6, SettlementNext

\* The only operator reads a row and means to clear it.
LEMMA ReprocessSettles ==
    ASSUME MaxReprocess =< 1, SettlementIInv, NEW w \in Workers, NEW e \in Events, Reprocess(w, e)
    PROVE  SettlementIInv'
<1>0. EventsIInv /\ EventsIInv' /\ OneOperator(job) /\ ClearsSound(job, rows) /\ EffectsSound(journal, rows)
  BY ReprocessKeeps DEF SettlementIInv
<1>1. JobsSound(job)
  BY <1>0, EventsIInvMeans
<1>2. \A v \in Workers : ~job[v].operator
  <2> DEFINE S == {v \in Workers : job[v].operator}
  <2>1. IsFiniteSet(S) /\ Cardinality(S) < MaxReprocess
    BY ProviderEventsAssumption, FS_Subset DEF Reprocess
  <2>2. Cardinality(S) = 0
    BY <2>1, FS_CardinalityType, ProviderEventsAssumption
  <2>3. S = {}
    BY <2>1, <2>2, FS_EmptySet
  <2> QED
    BY <2>3
<1> DEFINE j == [phase |-> IF rows[e].processed THEN "clear" ELSE "begin", queue |-> <<e>>, operator |-> TRUE]
<1>3. job' = [job EXCEPT ![w] = j]
  BY DEF Reprocess
<1>4. Head(j.queue) = e /\ j.operator /\ (j.phase = "clear" => rows[e].processed)
  OBVIOUS
<1> HIDE DEF j
<1>5. job'[w] = j /\ \A v \in Workers \ {w} : job'[v] = job[v]
  BY <1>1, <1>3 DEF JobsSound
<1>6. OneOperator(job')
  BY <1>2, <1>5 DEF OneOperator
<1>7. rows' = rows /\ journal' = journal /\ (rows[e].processed => Retryable(e))
  BY DEF Reprocess, money
<1>8. ClearsSound(job', rows')
  BY <1>0, <1>4, <1>5, <1>7 DEF ClearsSound, Retryable
<1>9. EffectsSound(journal', rows')
  BY <1>0, <1>7
<1> QED
  BY <1>0, <1>6, <1>8, <1>9, SettlementNext

\* The row it clears had no effect to lose.
LEMMA ClearSettles ==
    ASSUME SettlementIInv, NEW w \in Workers, Clear(w)
    PROVE  SettlementIInv'
<1>0. EventsIInv /\ EventsIInv' /\ OneOperator(job) /\ ClearsSound(job, rows) /\ EffectsSound(journal, rows)
  BY ClearKeeps DEF SettlementIInv
<1>1. TypeRest /\ JobsSound(job)
  BY <1>0, EventsIInvMeans
<1> DEFINE e == Head(job[w].queue)
           j == [job[w] EXCEPT !.phase = "begin"]
<1>2. e \in Events /\ job[w].operator /\ rows[e].effect \in {"rejected", "none", "unannounced"}
  BY <1>0, <1>1, HeadAndTail DEF Clear, ClearsSound
<1>3. job' = [job EXCEPT ![w] = j] /\ j.phase # "clear" /\ (j.operator => job[w].operator)
  BY <1>1, <1>2 DEF Clear, JobsSound, Job
<1>4. \A v \in Workers \ {w} : job[v].phase # "clear"
  BY <1>0, <1>2 DEF OneOperator, ClearsSound
<1> HIDE DEF e, j
<1>5. OneOperator(job') /\ ClearsSound(job', rows')
  <2>1. job'[w] = j /\ \A v \in Workers \ {w} : job'[v] = job[v]
    BY <1>1, <1>3 DEF JobsSound
  <2>2. OneOperator(job')
    BY <1>0, <1>3, <2>1 DEF OneOperator
  <2>3. ClearsSound(job', rows')
    BY <1>3, <1>4, <2>1 DEF ClearsSound
  <2> QED
    BY <2>2, <2>3
<1>6. rows' = [rows EXCEPT ![e] = [rows[e] EXCEPT !.processed = FALSE]] /\ rows[e] \in Row
  BY <1>1, <1>2 DEF Clear, TypeRest, e
<1>7. [rows[e] EXCEPT !.processed = FALSE] \in Row /\ [rows[e] EXCEPT !.processed = FALSE].effect = rows[e].effect
  BY <1>6 DEF Row
<1>8. rows'[e].effect = rows[e].effect /\ \A d \in Events \ {e} : rows'[d] = rows[d]
  BY <1>1, <1>2, <1>6, <1>7, OneRowMoves
<1>9. EffectsSound(journal', rows')
  BY <1>0, <1>2, <1>8 DEF EffectsSound, Clear, money
<1> QED
  BY <1>0, <1>5, <1>9, SettlementNext

\* A handler that begins keeps its operator.
LEMMA BeginSettles ==
    ASSUME SettlementIInv, NEW w \in Workers, Begin(w)
    PROVE  SettlementIInv'
<1>0. EventsIInv /\ EventsIInv' /\ OneOperator(job) /\ ClearsSound(job, rows) /\ EffectsSound(journal, rows)
  BY BeginKeeps DEF SettlementIInv
<1>1. JobsSound(job)
  BY <1>0, EventsIInvMeans
<1>2. rows' = rows /\ journal' = journal
  BY DEF Begin, money
<1>3. OneOperator(job') /\ ClearsSound(job', rows')
  <2>1. CASE Onward(w)
    BY <1>0, <1>1, <1>2, <2>1, OnwardCalm
  <2>2. CASE job' = [job EXCEPT ![w].phase = "apply"]
    <3> DEFINE j == [job[w] EXCEPT !.phase = "apply"]
    <3>1. job' = [job EXCEPT ![w] = j] /\ j.phase = "apply" /\ j.operator = job[w].operator
      BY <1>1, <2>2 DEF JobsSound, Job
    <3> HIDE DEF j
    <3> QED
      BY <1>0, <1>1, <1>2, <3>1, OneJobCalm
  <2> QED
    BY <2>1, <2>2 DEF Begin
<1>4. EffectsSound(journal', rows')
  BY <1>0, <1>2
<1> QED
  BY <1>0, <1>3, <1>4, SettlementNext

\* An event is applied when it is pending, hence never by a handler that found it
\* settled, nor under one about to clear it.
LEMMA ApplySettles ==
    ASSUME SettlementIInv, NEW w \in Workers, Apply(w)
    PROVE  SettlementIInv'
<1>0. EventsIInv /\ EventsIInv' /\ OneOperator(job) /\ ClearsSound(job, rows) /\ EffectsSound(journal, rows)
  BY ApplyKeeps DEF SettlementIInv
<1>1. TypeRest /\ JobsSound(job) /\ JournalSound(journal)
  BY <1>0, EventsIInvMeans DEF MoneySound
<1> DEFINE e == Head(job[w].queue)
<1>2. e \in Events
  BY <1>1, HeadAndTail DEF Apply
<1>3. Onward(w)
  BY DEF Apply
<1> HIDE DEF e
<1>4. CASE UNCHANGED <<rows, money>>
  <2>1. rows' = rows /\ journal' = journal
    BY <1>4 DEF money
  <2>2. OneOperator(job') /\ ClearsSound(job', rows')
    BY <1>0, <1>1, <1>3, <2>1, OnwardCalm
  <2>3. EffectsSound(journal', rows')
    BY <1>0, <2>1
  <2> QED
    BY <1>0, <2>2, <2>3, SettlementNext
<1>5. CASE /\ StillPending(e)
           /\ \E effect \in Effects :
                ApplyPlan(e, effect) /\ rows' = [rows EXCEPT ![e].processed = TRUE, ![e].effect = effect]
  <2>1. PICK effect \in Effects :
           ApplyPlan(e, effect) /\ rows' = [rows EXCEPT ![e].processed = TRUE, ![e].effect = effect]
    BY <1>5
  <2>2. rows'[e].processed /\ rows'[e].effect = effect /\ \A d \in Events \ {e} : rows'[d] = rows[d]
    BY <1>1, <1>2, <2>1, RowApplied
  <2>3. \A v \in Workers : job[v].phase = "clear" => Head(job[v].queue) \in Events \ {e}
    BY <1>0, <1>1, <1>5, HeadAndTail DEF ClearsSound, StillPending
  <2>4. OneOperator(job') /\ ClearsSound(job', rows')
    BY <1>0, <1>1, <1>3, <2>2, <2>3, OnwardCalm
  <2>5. \A t \in journal : t.event # e
    BY <1>0, <1>2, <1>5 DEF EffectsSound, StillPending
  <2>6. /\ effect = "settled" <=> \E t \in journal' : t.event = e
        /\ \A d \in Events \ {e} : (\E t \in journal' : t.event = d) <=> (\E t \in journal : t.event = d)
    <3>1. CASE journal' = journal /\ effect # "settled"
      BY <2>5, <3>1
    <3>2. CASE effect = "settled" /\ \E kind, cents : Posts(e, kind, cents)
      <4>1. PICK kind, cents : Posts(e, kind, cents)
        BY <3>2
      <4> DEFINE t == [ref |-> Payload[e].ref, kind |-> kind, of |-> Payload[e].of, event |-> e, cents |-> cents]
      <4>2. journal' = journal \cup {t} /\ t.event = e
        BY <4>1 DEF Posts
      <4> HIDE DEF t
      <4> QED
        BY <3>2, <4>2
    <3> QED
      BY <2>1, <3>1, <3>2 DEF ApplyPlan, RecordExternal, money
  <2>7. EffectsSound(journal', rows')
    BY <1>0, <1>2, <2>2, <2>6 DEF EffectsSound
  <2> QED
    BY <1>0, <2>4, <2>7, SettlementNext
<1> QED
  BY <1>4, <1>5 DEF Apply, e

\* A failed transaction leaves effects as they were.
LEMMA FailToApplySettles ==
    ASSUME SettlementIInv, NEW w \in Workers, FailToApply(w)
    PROVE  SettlementIInv'
<1>0. EventsIInv /\ EventsIInv' /\ OneOperator(job) /\ ClearsSound(job, rows) /\ EffectsSound(journal, rows)
  BY FailToApplyKeeps DEF SettlementIInv
<1>1. JobsSound(job) /\ rows' = rows /\ journal' = journal /\ Onward(w)
  BY <1>0, EventsIInvMeans DEF FailToApply, LeftPending, money
<1>2. OneOperator(job') /\ ClearsSound(job', rows')
  BY <1>0, <1>1, OnwardCalm
<1>3. EffectsSound(journal', rows')
  BY <1>0, <1>1
<1> QED
  BY <1>0, <1>2, <1>3, SettlementNext

\* So does lifting the freeze.
LEMMA UnfreezeSettles ==
    ASSUME SettlementIInv, NEW w \in Workers, Unfreeze(w)
    PROVE  SettlementIInv'
<1>0. EventsIInv /\ EventsIInv' /\ OneOperator(job) /\ ClearsSound(job, rows) /\ EffectsSound(journal, rows)
  BY UnfreezeKeeps DEF SettlementIInv
<1>1. JobsSound(job) /\ rows' = rows /\ journal' = journal
  BY <1>0, EventsIInvMeans DEF Unfreeze, money
<1> DEFINE j == [job[w] EXCEPT !.phase = "pass"]
<1>2. job' = [job EXCEPT ![w] = j] /\ j.phase # "clear" /\ j.operator = job[w].operator
  BY <1>1 DEF Unfreeze, JobsSound, Job
<1> HIDE DEF j
<1>3. OneOperator(job') /\ ClearsSound(job', rows')
  BY <1>0, <1>1, <1>2, OneJobCalm
<1>4. EffectsSound(journal', rows')
  BY <1>0, <1>1
<1> QED
  BY <1>0, <1>3, <1>4, SettlementNext

\* A restart ends what handlers were doing; settings and staff's settlements are not theirs.
LEMMA OthersSettle ==
    ASSUME SettlementIInv,
           Restart \/ Freeze \/ MapAccount \/ (\E r \in Payments : SettleByHand(r)) \/ UNCHANGED vars
    PROVE  SettlementIInv'
<1>0. EventsIInv /\ OneOperator(job) /\ ClearsSound(job, rows) /\ EffectsSound(journal, rows)
  BY DEF SettlementIInv
<1>1. EventsIInv'
  BY <1>0, RestartKeeps, SettingsKeep, SettleByHandKeeps, EventsStep
<1>2. rows' = rows
  BY DEF Restart, Freeze, MapAccount, SettleByHand, vars
<1>3. OneOperator(job') /\ ClearsSound(job', rows')
  <2>1. CASE job' = [w \in Workers |-> Idle]
    <3>1. \A w \in Workers : job'[w] = Idle /\ ~job'[w].operator /\ job'[w].phase # "clear"
      BY <2>1, IdleTyped
    <3> QED
      BY <3>1 DEF OneOperator, ClearsSound
  <2>2. CASE job' = job
    BY <1>0, <1>2, <2>2
  <2> QED
    BY <2>1, <2>2 DEF Restart, Freeze, MapAccount, SettleByHand, vars
<1>4. EffectsSound(journal', rows')
  <2>1. CASE journal' = journal
    BY <1>0, <1>2, <2>1
  <2>2. CASE \E r \in Payments : SettleByHand(r)
    <3>1. PICK r \in Payments : SettleByHand(r)
      BY <2>2
    <3> DEFINE t == [ref |-> r, kind |-> "payment", of |-> r, event |-> None, cents |-> Paid]
    <3>2. journal' = journal \cup {t} /\ t.event = None
      BY <3>1 DEF SettleByHand
    <3> HIDE DEF t
    <3>3. \A e \in Events : (\E u \in journal' : u.event = e) <=> (\E u \in journal : u.event = e)
      BY <3>2, Payloads
    <3> QED
      BY <1>0, <1>2, <3>3 DEF EffectsSound
  <2> QED
    BY <2>1, <2>2 DEF Restart, Freeze, MapAccount, vars, money
<1> QED
  BY <1>1, <1>3, <1>4, SettlementNext

\* No event is processed yet.
LEMMA SettlementStarts == Init => SettlementIInv
<1> SUFFICES ASSUME Init PROVE SettlementIInv
  OBVIOUS
<1>1. OneOperator(job) /\ ClearsSound(job, rows)
  <2>1. \A w \in Workers : job[w] = Idle /\ ~job[w].operator /\ job[w].phase # "clear"
    BY IdleTyped DEF Init
  <2> QED
    BY <2>1 DEF OneOperator, ClearsSound
<1>2. EffectsSound(journal, rows)
  BY ProviderEventsAssumption DEF Init, EffectsSound, Effects
<1> QED
  BY <1>1, <1>2, EventsStart DEF SettlementIInv

\* Every step keeps it while operators come one at a time.
LEMMA SettlementSteps == MaxReprocess =< 1 /\ SettlementIInv /\ [Next]_vars => SettlementIInv'
<1> SUFFICES ASSUME MaxReprocess =< 1, SettlementIInv, [Next]_vars PROVE SettlementIInv'
  OBVIOUS
<1>1. ASSUME NEW w \in Workers, NEW e \in Events, Deliver(w, e) \/ Reprocess(w, e) PROVE SettlementIInv'
  BY <1>1, DeliverSettles, ReprocessSettles
<1>2. ASSUME NEW w \in Workers, Run(w) PROVE SettlementIInv'
  BY <1>2, StartPassSettles, ClearSettles, BeginSettles, ApplySettles DEF Run
<1>3. ASSUME NEW w \in Workers, FailToApply(w) \/ Unfreeze(w) PROVE SettlementIInv'
  BY <1>3, FailToApplySettles, UnfreezeSettles
<1>4. CASE Restart \/ Freeze \/ MapAccount \/ (\E r \in Payments : SettleByHand(r)) \/ UNCHANGED vars
  BY <1>4, OthersSettle
<1> QED
  BY <1>1, <1>2, <1>3, <1>4 DEF Next

\* While one operator at a time reprocesses events, a processed event has effect
\* `settled' exactly when one transaction points at it, whatever deliveries, passes,
\* failures and restarts come between the operator's reading and clearing of the row.
THEOREM SettledWhenPosted == MaxReprocess =< 1 => (Spec => []EventsSettlement)
<1> SUFFICES ASSUME MaxReprocess =< 1 PROVE Spec => []EventsSettlement
  OBVIOUS
<1>1. SettlementIInv => EventsSettlement
  <2> SUFFICES ASSUME SettlementIInv, NEW e \in Events
               PROVE  Cardinality({t \in journal : t.event = e}) = IF rows[e].effect = "settled" THEN 1 ELSE 0
    BY DEF EventsSettlement, EvBad
  <2>1. JournalSound(journal) /\ EffectsSound(journal, rows)
    BY DEF SettlementIInv, EventsIInv
  <2> DEFINE S == {t \in journal : t.event = e}
  <2>2. IsFiniteSet(S)
    BY <2>1, FS_Subset DEF JournalSound
  <2>3. \A x, y \in S : x = y
    BY <2>1, Payloads DEF JournalSound
  <2>4. S # {} <=> rows[e].effect = "settled"
    BY <2>1 DEF EffectsSound
  <2> HIDE DEF S
  <2>5. Cardinality(S) = IF rows[e].effect = "settled" THEN 1 ELSE 0
    BY <2>2, <2>3, <2>4, AtMostOne
  <2> QED
    BY <2>5 DEF S
<1>2. SettlementIInv /\ [Next]_vars => SettlementIInv'
  BY SettlementSteps
<1> QED
  BY <1>1, <1>2, SettlementStarts, PTL DEF Spec

\* The journal only grows.
LEMMA JournalGrows == [Next]_vars => journal \subseteq journal'
<1> SUFFICES ASSUME [Next]_vars PROVE journal \subseteq journal'
  OBVIOUS
<1>1. ASSUME NEW w \in Workers, NEW e \in Events, Deliver(w, e) \/ Reprocess(w, e) PROVE journal' = journal
  BY <1>1 DEF Deliver, Reprocess, money
<1>2. ASSUME NEW w \in Workers, StartPass(w) \/ Clear(w) \/ Begin(w) PROVE journal' = journal
  BY <1>2 DEF StartPass, Clear, Begin, money
<1>3. ASSUME NEW w \in Workers, Apply(w) PROVE journal \subseteq journal'
  <2>1. CASE UNCHANGED money
    BY <2>1 DEF money
  <2>2. ASSUME NEW e, NEW effect, ApplyPlan(e, effect) PROVE journal \subseteq journal'
    BY <2>2 DEF ApplyPlan, RecordExternal, Posts, money
  <2> QED
    BY <1>3, <2>1, <2>2 DEF Apply
<1>4. ASSUME NEW w \in Workers, FailToApply(w) \/ Unfreeze(w) PROVE journal' = journal
  BY <1>4 DEF FailToApply, Unfreeze, money
<1>5. CASE Restart \/ Freeze \/ MapAccount \/ UNCHANGED vars
  BY <1>5 DEF Restart, Freeze, MapAccount, money, vars
<1>6. ASSUME NEW r \in Payments, SettleByHand(r) PROVE journal \subseteq journal'
  BY <1>6 DEF SettleByHand
<1> QED
  BY <1>1, <1>2, <1>3, <1>4, <1>5, <1>6 DEF Next, Run

\* Settled events never re-apply: nothing changes the effect of a settled one.
THEOREM SettledEventsStay == MaxReprocess =< 1 => (Spec => SettledStays)
<1> SUFFICES ASSUME MaxReprocess =< 1 PROVE Spec => SettledStays
  OBVIOUS
<1>1. SettlementIInv /\ [Next]_vars =>
        [\A e \in Events : rows[e].effect = "settled" => rows'[e].effect = "settled"]_vars
  <2> SUFFICES ASSUME SettlementIInv, [Next]_vars, NEW e \in Events, rows[e].effect = "settled"
               PROVE  rows'[e].effect = "settled"
    OBVIOUS
  <2>1. EffectsSound(journal, rows) /\ EffectsSound(journal', rows')
    BY SettlementSteps DEF SettlementIInv, EffectsSound
  <2>2. PICK t \in journal : t.event = e
    BY <2>1 DEF EffectsSound
  <2>3. journal \subseteq journal'
    BY JournalGrows
  <2> QED
    BY <2>1, <2>2, <2>3 DEF EffectsSound
<1>2. SettlementIInv /\ [Next]_vars => SettlementIInv'
  BY SettlementSteps
<1> QED
  BY <1>1, <1>2, SettlementStarts, PTL DEF Spec, SettledStays

----------------------------------------------------------------------------
(* Calls with a key (ApiRequests).                                         *)

Uses == ApiUses \cup StaffUses

\* What a success for request r under key k names: the transaction of the key, or the
\* one that decided the cashout.
Told(J, X, k, r, t) ==
    /\ <<k, r>> \in Uses /\ t \in 1..Len(J)
    /\ Does[r].kind = "move" => J[t].key = k
    /\ Does[r].kind # "move" =>
         X[Does[r].cashout] = [status |-> Decision(Does[r].kind), settleTxn |-> t]

\* Every answer given, stored or about to be stored is one of these, and each key and
\* request in use is one a client may send.
CallsSound ==
    /\ \A a \in answers : Told(txns, cashouts, a.key, a.request, a.txn)
    /\ \A k \in Keys : saved[k] # Nil => Told(txns, cashouts, k, saved[k].request, saved[k].txn)
    /\ \A c \in Calls :
         /\ call[c].phase \in {"admitted", "running"} => <<call[c].key, call[c].request>> \in Uses
         /\ call[c].phase = "saving" => Told(txns, cashouts, call[c].key, call[c].request, call[c].txn)
    /\ \A t \in 1..Len(txns) : <<txns[t].key, txns[t].request>> \in Uses
    /\ \A t, u \in 1..Len(txns) : txns[t].key = txns[u].key => t = u
    /\ \A x \in Cashouts : cashouts[x].status # "requested" => cashouts[x].settleTxn \in 1..Len(txns)

CallsIInv == CallsTypeOK /\ CallsSound

\* What was told stays true.
TxnsGrow ==
    /\ Len(txns) =< Len(txns') /\ \A t \in 1..Len(txns) : txns'[t] = txns[t]
    /\ \A x \in Cashouts : cashouts[x].status # "requested" => cashouts'[x] = cashouts[x]

\* A key and a request in use are one of each.
LEMMA UsesTyped == \A k, r : <<k, r>> \in Uses => k \in Keys /\ r \in Requests
  BY ApiRequestsAssumption DEF Uses

\* What a success named is still there after the journal grew.
LEMMA ToldStays ==
    ASSUME CallsTypeOK, CallsTypeOK', TxnsGrow, NEW k, NEW r, NEW t, Told(txns, cashouts, k, r, t)
    PROVE  Told(txns', cashouts', k, r, t)
<1>1. r \in Requests
  BY UsesTyped DEF Told
<1>2. Does[r].kind \in {"move", "approve", "deny"} /\ Does[r].cashout \in Cashouts
  BY <1>1, ApiRequestsAssumption
<1>3. t \in 1..Len(txns') /\ txns'[t] = txns[t]
  <2>1. Len(txns) \in Nat /\ Len(txns') \in Nat
    BY DEF CallsTypeOK
  <2> QED
    BY <2>1 DEF Told, TxnsGrow
<1>4. Does[r].kind # "move" => cashouts'[Does[r].cashout] = cashouts[Does[r].cashout]
  BY <1>2 DEF Told, TxnsGrow, Decision
<1> QED
  BY <1>3, <1>4 DEF Told

\* An operation answers with what holds after it, posts at most once under its key and
\* leaves what others were told.
OperationDone(k, r, txn) ==
    /\ txns' \in Seq([key : Keys, request : Requests]) /\ Len(txns') =< MaxTxns
    /\ cashouts' \in [Cashouts -> [status : {"requested", "paid", "denied"}, settleTxn : Txns \cup {Nil}]]
    /\ TxnsGrow /\ Told(txns', cashouts', k, r, txn)
    /\ \A t \in 1..Len(txns') : <<txns'[t].key, txns'[t].request>> \in Uses
    /\ \A t, u \in 1..Len(txns') : txns'[t].key = txns'[u].key => t = u
    /\ \A x \in Cashouts : cashouts'[x].status # "requested" => cashouts'[x].settleTxn \in 1..Len(txns')

\* post() under a key: the transaction it already has, or a new one.
LEMMA PostDone ==
    ASSUME CallsIInv, NEW k, NEW r, <<k, r>> \in Uses, NEW txn \in Txns, Post(k, r, txn)
    PROVE  /\ txns' \in Seq([key : Keys, request : Requests]) /\ Len(txns') =< MaxTxns
           /\ Len(txns) =< Len(txns') /\ (\A t \in 1..Len(txns) : txns'[t] = txns[t])
           /\ txn \in 1..Len(txns') /\ txns'[txn].key = k
           /\ \A t \in 1..Len(txns') : <<txns'[t].key, txns'[t].request>> \in Uses
           /\ \A t, u \in 1..Len(txns') : txns'[t].key = txns'[u].key => t = u
<1>1. k \in Keys /\ r \in Requests /\ MaxTxns \in Nat
  BY UsesTyped, ApiRequestsAssumption
<1>2. txns \in Seq([key : Keys, request : Requests]) /\ Len(txns) =< MaxTxns /\ Len(txns) \in Nat
  BY DEF CallsIInv, CallsTypeOK
<1>3. /\ \A t \in 1..Len(txns) : <<txns[t].key, txns[t].request>> \in Uses
      /\ \A t, u \in 1..Len(txns) : txns[t].key = txns[u].key => t = u
  BY DEF CallsIInv, CallsSound
<1>4. CASE Posted(k) # {} /\ txn \in Posted(k) /\ UNCHANGED txns
  BY <1>2, <1>3, <1>4 DEF Posted
<1>5. CASE Posted(k) = {} /\ Len(txns) < MaxTxns /\ txn = Len(txns) + 1
           /\ txns' = Append(txns, [key |-> k, request |-> r])
  <2> DEFINE new == [key |-> k, request |-> r]
             n == Len(txns)
  <2>1. /\ txns' \in Seq([key : Keys, request : Requests]) /\ Len(txns') = n + 1
        /\ txns'[n + 1] = new /\ \A t \in 1..n : txns'[t] = txns[t]
    BY <1>1, <1>2, <1>5
  <2>2. \A t \in 1..n : txns[t].key # k
    BY <1>5 DEF Posted
  <2>3. \A t \in 1..(n + 1) : t \in 1..n \/ t = n + 1
    BY <1>2
  <2>4. new.key = k /\ new.request = r
    OBVIOUS
  <2> HIDE DEF new, n
  <2>5. n \in Nat /\ n < MaxTxns /\ txn = n + 1
    BY <1>2, <1>5 DEF n
  <2>6. \A t \in 1..n : <<txns[t].key, txns[t].request>> \in Uses
    BY <1>3 DEF n
  <2>7. \A t, u \in 1..n : txns[t].key = txns[u].key => t = u
    BY <1>3 DEF n
  <2>8. \A t \in 1..(n + 1) : <<txns'[t].key, txns'[t].request>> \in Uses
    BY <2>1, <2>3, <2>4, <2>6
  <2>9. \A t, u \in 1..(n + 1) : txns'[t].key = txns'[u].key => t = u
    BY <2>1, <2>2, <2>3, <2>4, <2>7
  <2>10. txn \in 1..(n + 1) /\ n =< n + 1 /\ n + 1 =< MaxTxns
    BY <1>1, <2>5
  <2>11. txns'[txn].key = k
    BY <2>1, <2>4, <2>5
  <2> QED
    BY <2>1, <2>8, <2>9, <2>10, <2>11 DEF n
<1> QED
  BY <1>4, <1>5 DEF Post

\* Every operation is done as OperationDone says.
LEMMA OperationKeeps ==
    ASSUME CallsIInv, NEW k, NEW r, <<k, r>> \in Uses, NEW txn \in Txns, Operation(k, r, txn)
    PROVE  OperationDone(k, r, txn)
<1> DEFINE x == Does[r].cashout
           kind == Does[r].kind
<1>1. k \in Keys /\ r \in Requests /\ kind \in {"move", "approve", "deny"} /\ x \in Cashouts
  BY UsesTyped, ApiRequestsAssumption
<1>2. /\ txns \in Seq([key : Keys, request : Requests]) /\ Len(txns) =< MaxTxns /\ Len(txns) \in Nat
      /\ cashouts \in [Cashouts -> [status : {"requested", "paid", "denied"}, settleTxn : Txns \cup {Nil}]]
      /\ \A t \in 1..Len(txns) : <<txns[t].key, txns[t].request>> \in Uses
      /\ \A t, u \in 1..Len(txns) : txns[t].key = txns[u].key => t = u
      /\ \A y \in Cashouts : cashouts[y].status # "requested" => cashouts[y].settleTxn \in 1..Len(txns)
  BY DEF CallsIInv, CallsTypeOK, CallsSound
<1>a. ASSUME Post(k, r, txn)
      PROVE  \A y \in Cashouts : cashouts[y].status # "requested" => cashouts[y].settleTxn \in 1..Len(txns')
  <2>1. Len(txns') \in Nat /\ Len(txns) =< Len(txns')
    BY <1>a, PostDone
  <2> QED
    BY <1>2, <2>1
<1>3. CASE kind = "move" /\ Post(k, r, txn) /\ UNCHANGED cashouts
  <2>1. Told(txns', cashouts', k, r, txn)
    BY <1>3, PostDone DEF Told
  <2> QED
    BY <1>2, <1>3, <1>a, <2>1, PostDone DEF OperationDone, TxnsGrow
<1>4. CASE /\ kind # "move" /\ Undecided(x) /\ Post(k, r, txn)
           /\ cashouts' = [cashouts EXCEPT ![x] = [status |-> Decision(kind), settleTxn |-> txn]]
  <2>1. Decision(kind) \in {"paid", "denied"}
    BY DEF Decision
  <2>2. /\ cashouts' \in [Cashouts -> [status : {"requested", "paid", "denied"}, settleTxn : Txns \cup {Nil}]]
        /\ cashouts'[x] = [status |-> Decision(kind), settleTxn |-> txn]
        /\ \A y \in Cashouts : cashouts[y].status # "requested" => cashouts'[y] = cashouts[y]
    BY <1>1, <1>2, <1>4, <2>1 DEF Undecided
  <2>3. Told(txns', cashouts', k, r, txn)
    BY <1>4, <2>2, PostDone DEF Told
  <2>4. ASSUME NEW y \in Cashouts, cashouts'[y].status # "requested" PROVE cashouts'[y].settleTxn \in 1..Len(txns')
    <3>1. CASE y = x
      BY <1>4, <2>2, <3>1, PostDone
    <3>2. CASE y # x
      BY <1>2, <1>4, <1>a, <2>4, <3>2
    <3> QED
      BY <3>1, <3>2
  <2> QED
    BY <1>4, <2>2, <2>3, <2>4, PostDone DEF OperationDone, TxnsGrow
<1>5. CASE /\ kind # "move" /\ ~Undecided(x) /\ cashouts[x].status = Decision(kind)
           /\ txn = cashouts[x].settleTxn /\ UNCHANGED <<txns, cashouts>>
  <2>1. cashouts[x] = [status |-> Decision(kind), settleTxn |-> txn] /\ txn \in 1..Len(txns)
    BY <1>1, <1>2, <1>5 DEF Undecided
  <2>2. Told(txns', cashouts', k, r, txn)
    BY <1>5, <2>1 DEF Told
  <2>3. TxnsGrow
    BY <1>2, <1>5 DEF TxnsGrow
  <2> QED
    BY <1>2, <1>5, <2>2, <2>3 DEF OperationDone
<1> QED
  BY <1>3, <1>4, <1>5 DEF Operation, Decide

\* A call is left in one of these ways.
LEMMA CallKinds ==
    ASSUME CallsTypeOK, NEW c \in Calls
    PROVE  /\ call[c] \in Call
           /\ call[c].phase \in {"idle", "admitted", "running", "saving"}
           /\ call[c].phase # "saving" =>
                call[c] \in [phase : {"idle", "admitted", "running"}, key : Keys \cup {Nil},
                             request : Requests \cup {Nil}]
           /\ call[c].phase = "saving" => call[c] \in [phase : {"saving"}, key : Keys, request : Requests, txn : Txns]
  BY DEF CallsTypeOK, Call

\* A step that changes one call at most, and no transaction, keeps what was told.
LEMMA OneCall ==
    ASSUME CallsIInv, NEW c \in Calls, NEW row \in Call, call' = [call EXCEPT ![c] = row],
           UNCHANGED <<stopped, saved, txns, cashouts, restarts>>,
           answers' \subseteq [key : Keys, request : Requests, txn : Txns],
           \A a \in answers' \ answers : Told(txns, cashouts, a.key, a.request, a.txn),
           row.phase \in {"admitted", "running"} => <<row.key, row.request>> \in Uses,
           row.phase = "saving" => Told(txns, cashouts, row.key, row.request, row.txn)
    PROVE  CallsIInv'
<1>1. CallsTypeOK'
  BY DEF CallsIInv, CallsTypeOK
<1>2. \A d \in Calls : call'[d] = IF d = c THEN row ELSE call[d]
  BY DEF CallsIInv, CallsTypeOK
<1>3. \A k, r, t : Told(txns', cashouts', k, r, t) <=> Told(txns, cashouts, k, r, t)
  BY DEF Told
<1>4. CallsSound'
  BY <1>2, <1>3 DEF CallsIInv, CallsSound
<1> QED
  BY <1>1, <1>4 DEF CallsIInv

\* A new call holds a key and request a client may send.
LEMMA ArriveKeeps ==
    ASSUME CallsIInv, NEW c \in Calls, NEW use \in ApiUses, Arrive(c, use[1], use[2])
    PROVE  CallsIInv'
<1> DEFINE row == [phase |-> "admitted", key |-> use[1], request |-> use[2]]
<1>1. use = <<use[1], use[2]>> /\ <<use[1], use[2]>> \in Uses
  BY ApiRequestsAssumption DEF Uses
<1>2. use[1] \in Keys /\ use[2] \in Requests
  BY <1>1, UsesTyped
<1>3. row \in Call
  BY <1>2 DEF Call
<1>4. answers \subseteq [key : Keys, request : Requests, txn : Txns]
  BY DEF CallsIInv, CallsTypeOK
<1> QED
  BY <1>1, <1>3, <1>4, OneCall DEF Arrive

\* The idle call.
LEMMA NoCallTyped == NoCall \in Call /\ NoCall.phase = "idle"
  BY DEF NoCall, Call

\* A stored answer that is replayed was told before.
LEMMA LookUpKeeps ==
    ASSUME CallsIInv, NEW c \in Calls, LookUp(c)
    PROVE  CallsIInv'
<1> DEFINE k == call[c].key
           r == call[c].request
<1>1. /\ call[c] \in [phase : {"idle", "admitted", "running"}, key : Keys \cup {Nil}, request : Requests \cup {Nil}]
      /\ <<k, r>> \in Uses /\ call[c].phase = "admitted" /\ UNCHANGED <<stopped, saved, txns, cashouts, restarts>>
  BY CallKinds DEF CallsIInv, CallsSound, LookUp
<1>2. k \in Keys /\ r \in Requests
  BY <1>1, UsesTyped
<1>3. answers \subseteq [key : Keys, request : Requests, txn : Txns] /\ saved \in [Keys -> Saved \cup {Nil}]
  BY DEF CallsIInv, CallsTypeOK
<1>4. CASE saved[k] = Nil
  <2> DEFINE row == [call[c] EXCEPT !.phase = "running"]
  <2>1. row \in Call /\ row.key = k /\ row.request = r /\ row.phase = "running"
    BY <1>1 DEF Call
  <2>2. call' = [call EXCEPT ![c] = row] /\ UNCHANGED answers
    BY <1>4 DEF LookUp
  <2> HIDE DEF row
  <2> QED
    BY <1>1, <1>3, <2>1, <2>2, OneCall
<1>5. CASE saved[k] # Nil
  <2> DEFINE row == saved[k]
             answer == [key |-> k, request |-> row.request, txn |-> row.txn]
  <2>1. row \in Saved /\ Told(txns, cashouts, k, row.request, row.txn)
    BY <1>2, <1>3, <1>5 DEF CallsIInv, CallsSound
  <2>2. /\ answer \in [key : Keys, request : Requests, txn : Txns]
        /\ Told(txns, cashouts, answer.key, answer.request, answer.txn)
    BY <1>2, <2>1 DEF Saved
  <2>3. call' = [call EXCEPT ![c] = NoCall] /\ answers' \in {answers, answers \cup {answer}}
    BY <1>5 DEF LookUp
  <2>4. answers' \subseteq [key : Keys, request : Requests, txn : Txns]
    BY <1>3, <2>2, <2>3
  <2>5. \A a \in answers' \ answers : a = answer
    BY <2>3
  <2> HIDE DEF answer
  <2> QED
    BY <1>1, <2>2, <2>3, <2>4, <2>5, NoCallTyped, OneCall
<1> QED
  BY <1>4, <1>5

\* A refusal tells nothing.
LEMMA RefuseKeeps ==
    ASSUME CallsIInv, NEW c \in Calls, Refuse(c)
    PROVE  CallsIInv'
<1>1. answers \subseteq [key : Keys, request : Requests, txn : Txns]
  BY DEF CallsIInv, CallsTypeOK
<1> QED
  BY <1>1, NoCallTyped, OneCall DEF Refuse

\* Where the journal moves on, whatever was told before still holds.
LEMMA OperationSound ==
    ASSUME CallsIInv, CallsTypeOK', NEW k, NEW r, NEW txn, OperationDone(k, r, txn), UNCHANGED <<saved, answers>>,
           \A c \in Calls :
             \/ call'[c] = call[c]
             \/ call'[c].phase = "saving" /\ Told(txns', cashouts', call'[c].key, call'[c].request, call'[c].txn)
    PROVE  CallsIInv'
<1>1. \A j, q, t : Told(txns, cashouts, j, q, t) => Told(txns', cashouts', j, q, t)
  BY ToldStays DEF CallsIInv, OperationDone
<1>2. /\ \A a \in answers' : Told(txns', cashouts', a.key, a.request, a.txn)
      /\ \A j \in Keys : saved'[j] # Nil => Told(txns', cashouts', j, saved'[j].request, saved'[j].txn)
  BY <1>1 DEF CallsIInv, CallsSound
<1>3. ASSUME NEW c \in Calls
      PROVE  /\ call'[c].phase \in {"admitted", "running"} => <<call'[c].key, call'[c].request>> \in Uses
             /\ call'[c].phase = "saving" => Told(txns', cashouts', call'[c].key, call'[c].request, call'[c].txn)
  BY <1>1 DEF CallsIInv, CallsSound
<1>4. CallsSound'
  BY <1>2, <1>3 DEF CallsSound, OperationDone
<1> QED
  BY <1>4 DEF CallsIInv

\* The operation of a call, and the answer it is about to store.
LEMMA RunKeeps ==
    ASSUME CallsIInv, NEW c \in Calls, RunOperation(c)
    PROVE  CallsIInv'
<1> DEFINE k == call[c].key
           r == call[c].request
<1>1. <<k, r>> \in Uses /\ UNCHANGED <<stopped, saved, answers, restarts>>
  BY DEF CallsIInv, CallsSound, RunOperation
<1>2. PICK txn \in Txns : Operation(k, r, txn) /\
        call' = [call EXCEPT ![c] = [phase |-> "saving", key |-> @.key, request |-> @.request, txn |-> txn]]
  BY DEF RunOperation
<1> DEFINE row == [phase |-> "saving", key |-> k, request |-> r, txn |-> txn]
<1>3. OperationDone(k, r, txn)
  BY <1>1, <1>2, OperationKeeps
<1>4. row \in Call
  BY <1>1, UsesTyped DEF Call
<1>5. call \in [Calls -> Call] /\ call' = [call EXCEPT ![c] = row]
  BY <1>2 DEF CallsIInv, CallsTypeOK
<1>6. CallsTypeOK'
  BY <1>1, <1>3, <1>4, <1>5 DEF CallsIInv, CallsTypeOK, OperationDone
<1>7. Told(txns', cashouts', k, r, txn)
  BY <1>3 DEF OperationDone
<1>8. row.phase = "saving" /\ row.key = k /\ row.request = r /\ row.txn = txn
  OBVIOUS
<1> HIDE DEF row, k, r
<1>9. \A d \in Calls : call'[d] = call[d] \/ call'[d] = row
  BY <1>5
<1>10. \A d \in Calls : \/ call'[d] = call[d]
                        \/ call'[d].phase = "saving"
                           /\ Told(txns', cashouts', call'[d].key, call'[d].request, call'[d].txn)
  BY <1>7, <1>8, <1>9 DEF Told
<1> QED
  BY <1>1, <1>3, <1>6, <1>10, OperationSound

\* A console form runs the same operations.
LEMMA ConsoleKeeps ==
    ASSUME CallsIInv, NEW use \in StaffUses, ConsoleDecide(use[1], use[2])
    PROVE  CallsIInv'
<1>1. /\ use = <<use[1], use[2]>> /\ <<use[1], use[2]>> \in Uses
      /\ UNCHANGED <<stopped, saved, call, answers, restarts>>
  BY ApiRequestsAssumption DEF Uses, ConsoleDecide
<1>2. PICK txn \in Txns : Operation(use[1], use[2], txn)
  BY DEF ConsoleDecide
<1>3. OperationDone(use[1], use[2], txn)
  BY <1>1, <1>2, OperationKeeps
<1>4. CallsTypeOK'
  BY <1>1, <1>3 DEF CallsIInv, CallsTypeOK, OperationDone
<1> QED
  BY <1>1, <1>3, <1>4, OperationSound

\* The answer stored and given is the one the operation found.
LEMMA SaveKeeps ==
    ASSUME CallsIInv, NEW c \in Calls, SaveAnswer(c)
    PROVE  CallsIInv'
<1> DEFINE k == call[c].key
           r == call[c].request
           t == call[c].txn
           row == [request |-> r, txn |-> t]
           answer == [key |-> k, request |-> r, txn |-> t]
<1>1. /\ k \in Keys /\ r \in Requests /\ t \in Txns /\ Told(txns, cashouts, k, r, t)
      /\ UNCHANGED <<stopped, txns, cashouts, restarts>>
  BY CallKinds DEF CallsIInv, CallsSound, SaveAnswer
<1>2. /\ answers \subseteq [key : Keys, request : Requests, txn : Txns] /\ saved \in [Keys -> Saved \cup {Nil}]
      /\ call \in [Calls -> Call]
  BY DEF CallsIInv, CallsTypeOK
<1>3. /\ saved' \in {saved, [saved EXCEPT ![k] = row]} /\ answers' = answers \cup {answer}
      /\ call' = [call EXCEPT ![c] = NoCall]
  BY DEF SaveAnswer
<1>4. row \in Saved /\ answer \in [key : Keys, request : Requests, txn : Txns]
  BY <1>1 DEF Saved
<1>5. CallsTypeOK'
  <2>1. saved' \in [Keys -> Saved \cup {Nil}]
    BY <1>2, <1>3, <1>4
  <2>2. call' \in [Calls -> Call]
    BY <1>2, <1>3, NoCallTyped
  <2>3. answers' \subseteq [key : Keys, request : Requests, txn : Txns]
    BY <1>2, <1>3, <1>4
  <2> QED
    BY <1>1, <2>1, <2>2, <2>3 DEF CallsIInv, CallsTypeOK
<1>6. \A j, q, u : Told(txns', cashouts', j, q, u) <=> Told(txns, cashouts, j, q, u)
  BY <1>1 DEF Told
<1>7. answer.key = k /\ answer.request = r /\ answer.txn = t /\ row.request = r /\ row.txn = t
  OBVIOUS
<1> HIDE DEF row, answer, k, r, t
<1>8. \A j \in Keys : saved'[j] = saved[j] \/ (j = k /\ saved'[j] = row)
  BY <1>2, <1>3
<1>9. \A d \in Calls : call'[d] = call[d] \/ call'[d] = NoCall
  BY <1>2, <1>3
<1>10. /\ \A a \in answers' : Told(txns, cashouts, a.key, a.request, a.txn)
       /\ \A j \in Keys : saved'[j] # Nil => Told(txns, cashouts, j, saved'[j].request, saved'[j].txn)
  BY <1>1, <1>3, <1>7, <1>8 DEF CallsIInv, CallsSound
<1>11. CallsSound'
  BY <1>1, <1>6, <1>9, <1>10, NoCallTyped DEF CallsIInv, CallsSound
<1> QED
  BY <1>5, <1>11 DEF CallsIInv

\* A freeze, its end and a restart end calls, and tell nothing.
LEMMA IdleCallsKeep ==
    ASSUME CallsIInv, UNCHANGED <<saved, txns, cashouts, answers>>,
           call' \in {call, [c \in Calls |-> NoCall]}, stopped' \in BOOLEAN, restarts' \in 0..MaxRestarts
    PROVE  CallsIInv'
<1>1. call \in [Calls -> Call]
  BY DEF CallsIInv, CallsTypeOK
<1>2. CallsTypeOK'
  BY <1>1, NoCallTyped DEF CallsIInv, CallsTypeOK
<1>3. \A d \in Calls : call'[d] = call[d] \/ call'[d] = NoCall
  BY <1>1
<1>4. \A j, q, u : Told(txns', cashouts', j, q, u) <=> Told(txns, cashouts, j, q, u)
  BY DEF Told
<1>5. CallsSound'
  BY <1>3, <1>4, NoCallTyped DEF CallsIInv, CallsSound
<1> QED
  BY <1>2, <1>5 DEF CallsIInv

\* Nothing was asked or answered yet.
LEMMA CallsStart == CallsInit => CallsIInv
<1> SUFFICES ASSUME CallsInit PROVE CallsIInv
  OBVIOUS
<1>1. CallsTypeOK
  <2>1. txns \in Seq([key : Keys, request : Requests]) /\ Len(txns) =< MaxTxns /\ restarts \in 0..MaxRestarts
    BY ApiRequestsAssumption DEF CallsInit
  <2>2. cashouts \in [Cashouts -> [status : {"requested", "paid", "denied"}, settleTxn : Txns \cup {Nil}]]
    BY DEF CallsInit
  <2>3. call \in [Calls -> Call] /\ saved \in [Keys -> Saved \cup {Nil}] /\ answers = {} /\ stopped \in BOOLEAN
    BY NoCallTyped DEF CallsInit
  <2> QED
    BY <2>1, <2>2, <2>3 DEF CallsTypeOK
<1>2. Len(txns) = 0 /\ \A c \in Calls : call[c] = NoCall
  BY DEF CallsInit
<1>3. CallsSound
  BY <1>2, NoCallTyped DEF CallsInit, CallsSound
<1> QED
  BY <1>1, <1>3 DEF CallsIInv

\* Every step keeps the invariant.
LEMMA CallsStep == CallsIInv /\ [CallsNext]_callVars => CallsIInv'
<1> SUFFICES ASSUME CallsIInv, [CallsNext]_callVars PROVE CallsIInv'
  OBVIOUS
<1>1. ASSUME NEW c \in Calls, \/ \E use \in ApiUses : Arrive(c, use[1], use[2])
                              \/ LookUp(c) \/ RunOperation(c) \/ Refuse(c) \/ SaveAnswer(c)
      PROVE  CallsIInv'
  BY <1>1, ArriveKeeps, LookUpKeeps, RunKeeps, RefuseKeeps, SaveKeeps
<1>2. ASSUME NEW use \in StaffUses, ConsoleDecide(use[1], use[2]) PROVE CallsIInv'
  BY <1>2, ConsoleKeeps
<1>3. CASE SetFreeze
  BY <1>3, IdleCallsKeep DEF SetFreeze, CallsIInv, CallsTypeOK
<1>4. CASE RestartCalls
  <2>1. restarts' \in 0..MaxRestarts
    BY <1>4, ApiRequestsAssumption DEF RestartCalls, CallsIInv, CallsTypeOK
  <2>2. stopped' \in BOOLEAN
    BY <1>4 DEF RestartCalls, CallsIInv, CallsTypeOK
  <2> QED
    BY <1>4, <2>1, <2>2, IdleCallsKeep DEF RestartCalls
<1>5. CASE UNCHANGED callVars
  BY <1>5, IdleCallsKeep DEF callVars, CallsIInv, CallsTypeOK
<1> QED
  BY <1>1, <1>2, <1>3, <1>4, <1>5 DEF CallsNext

\* One key, one transaction, one answer: however calls with a key interleave, across
\* restarts that lost their stored answers and whatever the console decides meanwhile
\* (api/idempotency.js, api/v1.js).
THEOREM OneAnswerPerKey == CallsSpec => []CallsInv
<1>1. CallsIInv => CallsInv
  <2> SUFFICES ASSUME CallsIInv PROVE AnswersAgree
    BY DEF CallsIInv, CallsInv
  <2>1. ASSUME NEW a \in answers, NEW b \in answers, a.key = b.key, a.request = b.request
        PROVE  a.txn = b.txn
    <3>1. Told(txns, cashouts, a.key, a.request, a.txn) /\ Told(txns, cashouts, a.key, a.request, b.txn)
      BY <2>1 DEF CallsIInv, CallsSound
    <3>2. CASE Does[a.request].kind = "move"
      BY <3>1, <3>2 DEF Told, CallsIInv, CallsSound
    <3>3. CASE Does[a.request].kind # "move"
      BY <3>1, <3>3 DEF Told
    <3> QED
      BY <3>2, <3>3
  <2> QED
    BY <2>1 DEF AnswersAgree, CallsIInv, CallsSound
<1>2. CallsIInv /\ [CallsNext]_callVars => CallsIInv'
  BY CallsStep
<1> QED
  BY CallsStart, <1>1, <1>2, PTL DEF CallsSpec

\* A client names one request with a key, and so does a console form.
OneRequestPerKey == \A u, v \in Uses : u[1] = v[1] => u[2] = v[2]

\* The transactions posted to decide a cashout.
DecidedBy(J, x) == {t \in 1..Len(J) : Does[J[t].request].kind # "move" /\ Does[J[t].request].cashout = x}
Settles(row) == IF row.status = "requested" THEN {} ELSE {row.settleTxn}

\* The checked property, in terms of DecidedBy and Settles.
LEMMA DecidingTxns ==
    /\ DecisionMovesMoney <=> \A x \in Cashouts : DecidedBy(txns, x) = Settles(cashouts[x])
    /\ DecisionMovesMoney' <=> \A x \in Cashouts : DecidedBy(txns', x) = Settles(cashouts'[x])
  BY DEF DecisionMovesMoney, DecidedBy, Settles

\* A posting decides the cashout of its request, if it decides one.
LEMMA PostDecides ==
    ASSUME CallsIInv, OneRequestPerKey, NEW k, NEW r, <<k, r>> \in Uses, NEW txn \in Txns, Post(k, r, txn)
    PROVE  \/ UNCHANGED txns /\ txn \in 1..Len(txns) /\ txns[txn].request = r
           \/ /\ txn \notin 1..Len(txns)
              /\ \A x : DecidedBy(txns', x) = DecidedBy(txns, x) \cup
                          (IF Does[r].kind # "move" /\ Does[r].cashout = x THEN {txn} ELSE {})
<1>1. CASE UNCHANGED txns /\ txn \in Posted(k)
  <2>1. txn \in 1..Len(txns) /\ txns[txn].key = k
    BY <1>1 DEF Posted
  <2>2. <<txns[txn].key, txns[txn].request>> \in Uses
    BY <2>1 DEF CallsIInv, CallsSound
  <2>3. txns[txn].request = r
    BY <2>1, <2>2 DEF OneRequestPerKey
  <2> QED
    BY <1>1, <2>1, <2>3
<1>2. CASE txn = Len(txns) + 1 /\ txns' = Append(txns, [key |-> k, request |-> r])
  <2>1. txns \in Seq([key : Keys, request : Requests]) /\ Len(txns) \in Nat /\ k \in Keys /\ r \in Requests
    BY UsesTyped DEF CallsIInv, CallsTypeOK
  <2>2. /\ Len(txns') = Len(txns) + 1 /\ txns'[txn].request = r
        /\ \A t \in 1..Len(txns) : txns'[t] = txns[t]
    BY <1>2, <2>1
  <2>3. 1..Len(txns') = 1..Len(txns) \cup {txn} /\ txn \notin 1..Len(txns)
    BY <1>2, <2>1, <2>2
  <2> QED
    BY <2>2, <2>3 DEF DecidedBy
<1> QED
  BY <1>1, <1>2 DEF Post

\* An operation leaves each cashout with the transactions that decided it.
LEMMA OperationDecides ==
    ASSUME CallsIInv, OneRequestPerKey, DecisionMovesMoney, NEW k, NEW r, <<k, r>> \in Uses, NEW txn \in Txns,
           Operation(k, r, txn)
    PROVE  DecisionMovesMoney'
<1> DEFINE x == Does[r].cashout
           kind == Does[r].kind
<1>1. k \in Keys /\ r \in Requests /\ kind \in {"move", "approve", "deny"} /\ x \in Cashouts
  BY UsesTyped, ApiRequestsAssumption
<1>2. /\ cashouts \in [Cashouts -> [status : {"requested", "paid", "denied"}, settleTxn : Txns \cup {Nil}]]
      /\ \A y \in Cashouts : DecidedBy(txns, y) = Settles(cashouts[y])
  BY DecidingTxns DEF CallsIInv, CallsTypeOK
<1>3. CASE kind = "move" /\ Post(k, r, txn) /\ UNCHANGED cashouts
  <2>1. \A y : DecidedBy(txns', y) = DecidedBy(txns, y)
    BY <1>3, PostDecides
  <2> QED
    BY <1>2, <1>3, <2>1, DecidingTxns
<1>4. CASE /\ kind # "move" /\ Undecided(x) /\ Post(k, r, txn)
           /\ cashouts' = [cashouts EXCEPT ![x] = [status |-> Decision(kind), settleTxn |-> txn]]
  <2>1. DecidedBy(txns, x) = {}
    BY <1>1, <1>2, <1>4 DEF Settles, Undecided
  <2>2. ~(txn \in 1..Len(txns) /\ txns[txn].request = r)
    BY <1>4, <2>1 DEF DecidedBy
  <2>3. \A y : DecidedBy(txns', y) = DecidedBy(txns, y) \cup (IF x = y THEN {txn} ELSE {})
    BY <1>4, <2>2, PostDecides
  <2>4. Decision(kind) # "requested"
    BY DEF Decision
  <2>5. /\ Settles(cashouts'[x]) = {txn}
        /\ \A y \in Cashouts : y # x => cashouts'[y] = cashouts[y]
    BY <1>1, <1>2, <1>4, <2>4 DEF Settles
  <2>6. \A y \in Cashouts : DecidedBy(txns', y) = Settles(cashouts'[y])
    BY <1>2, <2>1, <2>3, <2>5
  <2> QED
    BY <2>6, DecidingTxns
<1>5. CASE UNCHANGED <<txns, cashouts>>
  BY <1>2, <1>5, DecidingTxns
<1> QED
  BY <1>3, <1>4, <1>5 DEF Operation, Decide

\* Every step keeps decisions and their transactions together.
LEMMA DecisionsStep ==
    ASSUME CallsIInv, OneRequestPerKey, DecisionMovesMoney, [CallsNext]_callVars
    PROVE  DecisionMovesMoney'
<1>1. ASSUME NEW c \in Calls, RunOperation(c) PROVE DecisionMovesMoney'
  <2>1. <<call[c].key, call[c].request>> \in Uses
    BY <1>1 DEF CallsIInv, CallsSound, RunOperation
  <2> QED
    BY <1>1, <2>1, OperationDecides DEF RunOperation
<1>2. ASSUME NEW use \in StaffUses, ConsoleDecide(use[1], use[2]) PROVE DecisionMovesMoney'
  <2>1. <<use[1], use[2]>> \in Uses
    BY ApiRequestsAssumption DEF Uses
  <2> QED
    BY <1>2, <2>1, OperationDecides DEF ConsoleDecide
<1>3. CASE UNCHANGED <<txns, cashouts>>
  BY <1>3, DecidingTxns
<1> QED
  BY <1>1, <1>2, <1>3 DEF CallsNext, callVars, Arrive, LookUp, Refuse, SaveAnswer, SetFreeze, RestartCalls

\* Where a key names one request, a cashout is decided by exactly the transaction that
\* moved its Vibes, whether the API or the console decides (cashouts.js, decide).
THEOREM DecidedByItsMoney == OneRequestPerKey => (CallsSpec => []DecisionMovesMoney)
<1> SUFFICES ASSUME OneRequestPerKey PROVE CallsSpec => []DecisionMovesMoney
  OBVIOUS
<1>1. CallsInit => DecisionMovesMoney
  <2> SUFFICES ASSUME CallsInit PROVE DecisionMovesMoney
    OBVIOUS
  <2>1. \A x \in Cashouts : DecidedBy(txns, x) = {} /\ Settles(cashouts[x]) = {}
    BY DEF CallsInit, DecidedBy, Settles
  <2> QED
    BY <2>1, DecidingTxns
<1>2. CallsIInv /\ [CallsNext]_callVars => CallsIInv'
  BY CallsStep
<1>3. CallsIInv /\ DecisionMovesMoney /\ [CallsNext]_callVars => DecisionMovesMoney'
  BY DecisionsStep
<1> QED
  BY CallsStart, <1>1, <1>2, <1>3, PTL DEF CallsSpec

=============================================================================
