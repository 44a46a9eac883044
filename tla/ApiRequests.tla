----------------------------- MODULE ApiRequests -----------------------------
(***************************************************************************)
(* A mutating call of /api/v1 (server/api/v1.js, api/idempotency.js): the  *)
(* freeze is read, then the stored answer of its Idempotency-Key, then the *)
(* operation runs in one serializable transaction, then its answer is      *)
(* stored.  Calls interleave between these steps and a restart may come    *)
(* between any two.  The staff console runs the same operations in one     *)
(* transaction with its own guard.                                         *)
(*                                                                         *)
(* Of the operations two shapes are kept: one that moves value whenever    *)
(* its key is new (transfer, recycle, adjust, ...) and the decision of a   *)
(* cashout, which looks at the cashout's status and not at the key.        *)
(***************************************************************************)
EXTENDS Integers, Sequences

CONSTANTS
    Calls,       \* calls in flight at once
    Requests,    \* request bodies
    Does,        \* request -> [kind |-> "move", "approve" or "deny", cashout |-> ...]
    Cashouts,
    ApiUses,     \* <<key, request>> pairs a client may send
    StaffUses,   \* <<key, request>> pairs a console form may send
    Nil,         \* no key, no request, no answer
    MaxTxns,     \* bound: transactions in the journal
    MaxRestarts  \* bound: restarts of the process

Keys == {use[1] : use \in ApiUses \cup StaffUses}

ASSUME ApiRequestsAssumption ==
    /\ Does \in [Requests -> [kind : {"move", "approve", "deny"}, cashout : Cashouts]]
    /\ ApiUses \cup StaffUses \subseteq Keys \X Requests
    /\ Nil \notin Requests
    /\ MaxTxns \in Nat /\ MaxRestarts \in Nat

VARIABLES
    stopped,  \* settings.freeze
    saved,    \* idempotency_keys: the request and its stored answer
    txns,     \* transactions, each with its key and what it was posted for
    cashouts,  \* status and settle_txn
    call,      \* where each call is
    answers,   \* history: the successful answers given
    restarts

callVars == <<stopped, saved, txns, cashouts, call, answers, restarts>>

Txns == 1..MaxTxns
Saved == [request : Requests, txn : Txns]
Call == [phase : {"idle", "admitted", "running"}, key : Keys \cup {Nil}, request : Requests \cup {Nil}]
        \cup [phase : {"saving"}, key : Keys, request : Requests, txn : Txns]

CallsTypeOK ==
    /\ stopped \in BOOLEAN
    /\ saved \in [Keys -> Saved \cup {Nil}]
    /\ txns \in Seq([key : Keys, request : Requests]) /\ Len(txns) =< MaxTxns
    /\ cashouts \in [Cashouts -> [status : {"requested", "paid", "denied"}, settleTxn : Txns \cup {Nil}]]
    /\ call \in [Calls -> Call]
    /\ answers \subseteq [key : Keys, request : Requests, txn : Txns]
    /\ restarts \in 0..MaxRestarts

NoCall == [phase |-> "idle", key |-> Nil, request |-> Nil]

\* The cashouts were requested before, their Vibes wait in payouts_pending.
CallsInit ==
    /\ stopped = FALSE
    /\ saved = [k \in Keys |-> Nil]
    /\ txns = <<>>
    /\ cashouts = [x \in Cashouts |-> [status |-> "requested", settleTxn |-> Nil]]
    /\ call = [c \in Calls |-> NoCall]
    /\ answers = {}
    /\ restarts = 0

----------------------------------------------------------------------------
(* An operation: the transaction it answers with, and what it changes.     *)

\* Variant: post() does not look for the key.
NoPosting(key) == {}

Posted(key) == {t \in 1..Len(txns) : txns[t].key = key}

\* post(): a key that has a transaction is answered with it.
Post(key, request, txn) ==
    \/ /\ Posted(key) # {}
       /\ txn \in Posted(key) /\ UNCHANGED txns
    \/ /\ Posted(key) = {} /\ Len(txns) < MaxTxns
       /\ txn = Len(txns) + 1
       /\ txns' = Append(txns, [key |-> key, request |-> request])

Decision(kind) == IF kind = "approve" THEN "paid" ELSE "denied"

\* Variant: a decision is looked up in the cashout only after it was posted.
AnyStatus(x) == TRUE

Undecided(x) == cashouts[x].status = "requested"

\* approve() and deny(): a decision already taken the same way is a replay, another
\* one refuses.  A payout reference is taken to name one payout.
Decide(key, request, txn) ==
    LET x == Does[request].cashout
        status == Decision(Does[request].kind)
    IN  \/ /\ ~Undecided(x) /\ cashouts[x].status = status
           /\ txn = cashouts[x].settleTxn
           /\ UNCHANGED <<txns, cashouts>>
        \/ /\ Undecided(x)
           /\ Post(key, request, txn)
           /\ cashouts' = [cashouts EXCEPT ![x] = [status |-> status, settleTxn |-> txn]]

Operation(key, request, txn) ==
    \/ Does[request].kind = "move" /\ Post(key, request, txn) /\ UNCHANGED cashouts
    \/ Does[request].kind # "move" /\ Decide(key, request, txn)

Refused(request) ==
    /\ Does[request].kind # "move"
    /\ cashouts[Does[request].cashout].status \notin {"requested", Decision(Does[request].kind)}

----------------------------------------------------------------------------
(* The steps of a call.                                                    *)

\* notFrozen, then idempotent().
Arrive(c, key, request) ==
    /\ call[c] = NoCall
    /\ ~stopped
    /\ call' = [call EXCEPT ![c] = [phase |-> "admitted", key |-> key, request |-> request]]
    /\ UNCHANGED <<stopped, saved, txns, cashouts, answers, restarts>>

\* A stored answer is given again, to the same request only.
LookUp(c) ==
    /\ call[c].phase = "admitted"
    /\ LET row == saved[call[c].key]
       IN  IF row = Nil
           THEN call' = [call EXCEPT ![c].phase = "running"] /\ UNCHANGED answers
           ELSE /\ call' = [call EXCEPT ![c] = NoCall]
                /\ answers' = IF row.request = call[c].request
                              THEN answers \cup {[key |-> call[c].key, request |-> row.request, txn |-> row.txn]}
                              ELSE answers
    /\ UNCHANGED <<stopped, saved, txns, cashouts, restarts>>

RunOperation(c) ==
    /\ call[c].phase = "running"
    /\ \E txn \in Txns :
         /\ Operation(call[c].key, call[c].request, txn)
         /\ call' = [call EXCEPT ![c] =
              [phase |-> "saving", key |-> @.key, request |-> @.request, txn |-> txn]]
    /\ UNCHANGED <<stopped, saved, answers, restarts>>

\* A refusal is not stored.
Refuse(c) ==
    /\ call[c].phase = "running"
    /\ Refused(call[c].request)
    /\ call' = [call EXCEPT ![c] = NoCall]
    /\ UNCHANGED <<stopped, saved, txns, cashouts, answers, restarts>>

\* res.json: ON CONFLICT DO NOTHING keeps the answer stored first.
SaveAnswer(c) ==
    /\ call[c].phase = "saving"
    /\ saved' = IF saved[call[c].key] # Nil THEN saved
                ELSE [saved EXCEPT ![call[c].key] = [request |-> call[c].request, txn |-> call[c].txn]]
    /\ answers' = answers \cup {[key |-> call[c].key, request |-> call[c].request, txn |-> call[c].txn]}
    /\ call' = [call EXCEPT ![c] = NoCall]
    /\ UNCHANGED <<stopped, txns, cashouts, restarts>>

\* decide() of the console: freeze, operation and audit in one transaction.
ConsoleDecide(key, request) ==
    /\ ~stopped
    /\ \E txn \in Txns : Operation(key, request, txn)
    /\ UNCHANGED <<stopped, saved, call, answers, restarts>>

SetFreeze ==
    /\ stopped' = ~stopped
    /\ UNCHANGED <<saved, txns, cashouts, call, answers, restarts>>

\* The process restarts: calls in flight are lost, their clients may try again.
RestartCalls ==
    /\ restarts < MaxRestarts
    /\ restarts' = restarts + 1
    /\ call' = [c \in Calls |-> NoCall]
    /\ UNCHANGED <<stopped, saved, txns, cashouts, answers>>

CallsNext ==
    \/ \E c \in Calls :
         \/ \E use \in ApiUses : Arrive(c, use[1], use[2])
         \/ LookUp(c) \/ RunOperation(c) \/ Refuse(c) \/ SaveAnswer(c)
    \/ \E use \in StaffUses : ConsoleDecide(use[1], use[2])
    \/ SetFreeze \/ RestartCalls

CallsSpec == CallsInit /\ [][CallsNext]_callVars

----------------------------------------------------------------------------
(* What a caller may rely on.                                              *)

\* However often and however concurrently a request is sent with its key, across
\* restarts that lost its stored answer, every success names one transaction, and
\* the key has posted no other (idempotency.js, "moves nothing"; README.md).
AnswersAgree ==
    /\ \A a, b \in answers : a.key = b.key /\ a.request = b.request => a.txn = b.txn
    /\ \A t, u \in 1..Len(txns) : txns[t].key = txns[u].key => t = u

\* One key, one transaction, one answer, in every state a call may be left in.
CallsInv == CallsTypeOK /\ AnswersAgree

\* A cashout is decided exactly by the transaction that moved its own Vibes out of
\* payouts_pending, once, by whichever of API and console came first (the checks
\* payouts.references and payouts.pending of reconcile.js).
DecisionMovesMoney ==
    \A x \in Cashouts :
        LET moved == {t \in 1..Len(txns) :
                        /\ Does[txns[t].request].kind # "move"
                        /\ Does[txns[t].request].cashout = x}
        IN  moved = IF cashouts[x].status = "requested" THEN {} ELSE {cashouts[x].settleTxn}

=============================================================================
