--------------------------- MODULE VibesPayProofs ---------------------------
(***************************************************************************)
(* Invariants of VibesPay and of the outbox it writes to, and the promise  *)
(* it implements, for every set of apps, people and charges, every limit   *)
(* and every number of passes.                                             *)
(***************************************************************************)
EXTENDS VibesPay, MoneyLemmas, SequenceTheorems

----------------------------------------------------------------------------
(* The outbox.                                                             *)

Row == [app : Apps, charge : Charges, event : {"paid", "refunded"},
        attempts : 0..MaxAttempts, due : BOOLEAN, status : {"queued", "delivered", "abandoned"}]

Busy(w) == pass[w].phase \in {"claimed", "posting"}

\* A queued row has an attempt left.
AttemptsLeft == \A i \in DOMAIN rows : rows[i].status = "queued" => rows[i].attempts < MaxAttempts

\* What a pass read names a row, which had an attempt left.
ReadsSound ==
    \A w \in Passes : pass[w] # Resting =>
        \A r \in pass[w].left : r.row \in DOMAIN rows /\ r.attempts < MaxAttempts

\* A claimed row is nobody else's, and waits for the pass that claimed it.
ClaimsApart ==
    \A w \in Passes : Busy(w) =>
        /\ pass[w].at.row \in DOMAIN rows /\ pass[w].at.attempts < MaxAttempts
        /\ rows[pass[w].at.row].status = "queued" /\ ~rows[pass[w].at.row].due
        /\ \A v \in Passes : v # w /\ Busy(v) => pass[v].at.row # pass[w].at.row

OutboxInv ==
    /\ rows \in Seq(Row)
    /\ pass \in [Passes -> PassState]
    /\ hooked \subseteq Apps /\ crashes \in 0..MaxCrashes
    /\ AttemptsLeft
    /\ ReadsSound
    /\ ClaimsApart

\* The three shapes of a pass.
LEMMA PassShapes ==
    ASSUME NEW s \in PassState
    PROVE  /\ s = Resting <=> s.phase = "resting"
           /\ s.phase = "rows" => s.left \subseteq Read
           /\ s.phase \in {"claimed", "posting"} => s.left \subseteq Read /\ s.at \in Read
           /\ s.phase \in {"resting", "rows", "claimed", "posting"}
  BY DEF PassState, Resting

\* Rewriting one row of the outbox.
LEMMA RowChanged ==
    ASSUME rows \in Seq(Row), NEW i \in DOMAIN rows, NEW e \in Row
    PROVE  /\ [rows EXCEPT ![i] = e] \in Seq(Row)
           /\ DOMAIN [rows EXCEPT ![i] = e] = DOMAIN rows
           /\ \A j \in DOMAIN rows : [rows EXCEPT ![i] = e][j] = IF j = i THEN e ELSE rows[j]
  BY ExceptSeq, LenProperties

\* One row more.
LEMMA RowQueued ==
    ASSUME rows \in Seq(Row), NEW e \in Row
    PROVE  /\ Append(rows, e) \in Seq(Row)
           /\ DOMAIN Append(rows, e) = 1..Len(rows) + 1 /\ DOMAIN rows = 1..Len(rows) /\ Len(rows) \in Nat
           /\ \A j \in DOMAIN rows : Append(rows, e)[j] = rows[j]
           /\ Append(rows, e)[Len(rows) + 1] = e
  BY AppendProperties, LenProperties

\* A pass that moves stays one, and the others stay where they were.
LEMMA PassMoved ==
    ASSUME pass \in [Passes -> PassState], NEW w \in Passes, NEW s \in PassState,
           pass' = [pass EXCEPT ![w] = s]
    PROVE  /\ pass' \in [Passes -> PassState]
           /\ pass'[w] = s
           /\ \A v \in Passes : v # w => pass'[v] = pass[v]
  OBVIOUS

\* A pass that goes on keeps rows it read before, and is busy with none.
LEMMA GoingOn ==
    ASSUME NEW left, left \subseteq Read
    PROVE  /\ GoOn(left) \in PassState
           /\ GoOn(left).phase \in {"resting", "rows"}
           /\ GoOn(left) # Resting => GoOn(left).left = left
<1>1. CASE left = {}
  BY <1>1 DEF GoOn, PassState, Resting
<1>2. CASE left # {}
  BY <1>2 DEF GoOn, PassState, Resting
<1> QED
  BY <1>1, <1>2

\* A row that becomes due stays where it was.
LEMMA BecomeDueOutbox ==
    ASSUME OutboxInv, NEW i \in DOMAIN rows, BecomeDue(i)
    PROVE  OutboxInv'
<1> DEFINE e == [rows[i] EXCEPT !.due = TRUE]
<1>1. rows \in Seq(Row) /\ rows[i] \in Row
  BY ElementOfSeq, LenProperties DEF OutboxInv
<1>2. e \in Row /\ e.status = rows[i].status /\ e.attempts = rows[i].attempts
  BY <1>1 DEF Row
<1>3. rows' = [rows EXCEPT ![i] = e] /\ UNCHANGED <<hooked, pass, crashes>>
  BY DEF BecomeDue
<1>4. \A w \in Passes : Busy(w) => pass[w].at.row # i
  BY DEF BecomeDue, Busy
<1> HIDE DEF e
<1>5. /\ rows' \in Seq(Row) /\ DOMAIN rows' = DOMAIN rows
      /\ \A j \in DOMAIN rows : rows'[j] = IF j = i THEN e ELSE rows[j]
  BY <1>1, <1>2, <1>3, RowChanged
<1>6. AttemptsLeft'
  BY <1>2, <1>5 DEF AttemptsLeft, OutboxInv
<1>7. ReadsSound'
  BY <1>3, <1>5 DEF ReadsSound, OutboxInv
<1>8. ClaimsApart'
  BY <1>3, <1>4, <1>5 DEF ClaimsApart, Busy, OutboxInv
<1> QED
  BY <1>3, <1>5, <1>6, <1>7, <1>8 DEF OutboxInv

\* A pass reads due rows.
LEMMA StartPassOutbox ==
    ASSUME OutboxInv, NEW w \in Passes, StartPass(w)
    PROVE  OutboxInv'
<1> DEFINE left == {[row |-> i, attempts |-> rows[i].attempts] :
                      i \in {j \in DOMAIN rows : rows[j].status = "queued" /\ rows[j].due}}
           s == [phase |-> "rows", left |-> left]
<1>1. \A i \in DOMAIN rows : rows[i] \in Row /\ i \in Nat
  BY ElementOfSeq, LenProperties DEF OutboxInv
<1>2. \A r \in left : r \in Read /\ r.row \in DOMAIN rows /\ r.attempts < MaxAttempts
  BY <1>1 DEF Read, Row, OutboxInv, AttemptsLeft
<1> HIDE DEF left
<1>3. s \in PassState
  BY <1>2 DEF PassState
<1>4. /\ pass' \in [Passes -> PassState] /\ pass'[w] = s
      /\ \A v \in Passes : v # w => pass'[v] = pass[v]
  BY <1>3, PassMoved DEF OutboxInv, StartPass, left
<1>5. UNCHANGED <<rows, hooked, crashes>>
  BY DEF StartPass
<1>6. ReadsSound'
  BY <1>2, <1>4, <1>5 DEF ReadsSound, OutboxInv
<1>7. ClaimsApart'
  BY <1>4, <1>5 DEF ClaimsApart, Busy, OutboxInv
<1> QED
  BY <1>4, <1>5, <1>6, <1>7 DEF OutboxInv, AttemptsLeft

\* A row is claimed by the pass that posts it.
LEMMA ClaimOutbox ==
    ASSUME OutboxInv, NEW w \in Passes, NEW r \in pass[w].left, Claim(w, r)
    PROVE  OutboxInv'
<1>1. /\ rows \in Seq(Row) /\ pass \in [Passes -> PassState] /\ pass[w].phase = "rows"
      /\ pass[w].left \subseteq Read /\ pass[w] # Resting /\ UNCHANGED <<hooked, crashes>>
  BY PassShapes DEF OutboxInv, Claim
<1>2. r \in Read /\ r.row \in DOMAIN rows /\ r.attempts < MaxAttempts
  BY <1>1 DEF OutboxInv, ReadsSound
<1>3. rows[r.row] \in Row
  BY <1>1, <1>2, ElementOfSeq, LenProperties
<1>4. CASE Claimable(r.row)
  <2> DEFINE e == [rows[r.row] EXCEPT !.due = FALSE]
             s == [phase |-> "claimed", left |-> pass[w].left \ {r}, at |-> r]
  <2>1. rows' = [rows EXCEPT ![r.row] = e] /\ pass' = [pass EXCEPT ![w] = s]
    BY <1>1, <1>4 DEF Claim
  <2>2. /\ e \in Row /\ e.status = "queued" /\ e.due = FALSE /\ e.attempts = rows[r.row].attempts
        /\ rows[r.row].status = "queued" /\ rows[r.row].due
    BY <1>3, <1>4 DEF Row, Claimable
  <2>3. s \in PassState
    BY <1>1, <1>2 DEF PassState
  <2> HIDE DEF e
  <2>4. /\ rows' \in Seq(Row) /\ DOMAIN rows' = DOMAIN rows
        /\ \A j \in DOMAIN rows : rows'[j] = IF j = r.row THEN e ELSE rows[j]
    BY <1>1, <1>2, <2>1, <2>2, RowChanged
  <2>5. /\ pass' \in [Passes -> PassState] /\ pass'[w] = s
        /\ \A v \in Passes : v # w => pass'[v] = pass[v]
    BY <1>1, <2>1, <2>3, PassMoved
  <2>6. \A v \in Passes : Busy(v) => pass[v].at.row # r.row
    BY <2>2 DEF OutboxInv, ClaimsApart
  <2>7. AttemptsLeft'
    BY <2>2, <2>4 DEF AttemptsLeft, OutboxInv
  <2>8. ReadsSound'
    BY <1>1, <1>2, <2>4, <2>5 DEF ReadsSound, OutboxInv
  <2>9. ClaimsApart'
    <3> SUFFICES ASSUME NEW v \in Passes, Busy(v)'
                 PROVE  /\ pass'[v].at.row \in DOMAIN rows' /\ pass'[v].at.attempts < MaxAttempts
                        /\ rows'[pass'[v].at.row].status = "queued" /\ ~rows'[pass'[v].at.row].due
                        /\ \A u \in Passes : u # v /\ Busy(u)' => pass'[u].at.row # pass'[v].at.row
      BY DEF ClaimsApart
    <3>1. CASE v = w
      BY <3>1, <1>2, <2>2, <2>4, <2>5, <2>6 DEF Busy
    <3>2. CASE v # w
      <4>1. Busy(v) /\ pass'[v] = pass[v] /\ pass[v].at.row # r.row
        BY <3>2, <2>5, <2>6 DEF Busy
      <4> QED
        BY <4>1, <2>4, <2>5, <2>6 DEF Busy, ClaimsApart, OutboxInv
    <3> QED
      BY <3>1, <3>2
  <2> QED
    BY <1>1, <2>4, <2>5, <2>7, <2>8, <2>9 DEF OutboxInv
<1>5. CASE ~Claimable(r.row)
  <2> DEFINE s == GoOn(pass[w].left \ {r})
  <2>1. rows' = rows /\ pass' = [pass EXCEPT ![w] = s]
    BY <1>1, <1>5 DEF Claim
  <2>2. s \in PassState /\ s.phase \in {"resting", "rows"} /\ (s # Resting => s.left = pass[w].left \ {r})
    BY <1>1, GoingOn
  <2> HIDE DEF s
  <2>3. /\ pass' \in [Passes -> PassState] /\ pass'[w] = s
        /\ \A v \in Passes : v # w => pass'[v] = pass[v]
    BY <1>1, <2>1, <2>2, PassMoved
  <2>4. ReadsSound'
    BY <1>1, <2>1, <2>2, <2>3 DEF ReadsSound, OutboxInv
  <2>5. ClaimsApart'
    BY <2>1, <2>2, <2>3 DEF ClaimsApart, Busy, OutboxInv
  <2> QED
    BY <1>1, <2>1, <2>3, <2>4, <2>5 DEF OutboxInv, AttemptsLeft
<1> QED
  BY <1>4, <1>5

\* A pass that ends its work on a row, whatever it writes there, if it is a row of
\* the outbox and one with an attempt left while it is queued.
LEMMA RowEnded ==
    ASSUME OutboxInv, NEW w \in Passes, Busy(w), NEW e \in Row,
           e.status = "queued" => e.attempts < MaxAttempts,
           rows' = [rows EXCEPT ![pass[w].at.row] = e],
           pass' = [pass EXCEPT ![w] = GoOn(pass[w].left)], UNCHANGED <<hooked, crashes>>
    PROVE  OutboxInv'
<1> DEFINE s == GoOn(pass[w].left)
           n == pass[w].at.row
<1>1. rows \in Seq(Row) /\ pass \in [Passes -> PassState] /\ n \in DOMAIN rows
  BY DEF OutboxInv, ClaimsApart
<1>2. pass[w].left \subseteq Read /\ pass[w] # Resting
  BY <1>1, PassShapes DEF Busy
<1>3. s \in PassState /\ s.phase \in {"resting", "rows"} /\ (s # Resting => s.left = pass[w].left)
  BY <1>2, GoingOn
<1>4. \A v \in Passes : v # w /\ Busy(v) => pass[v].at.row # n
  BY DEF OutboxInv, ClaimsApart
<1> HIDE DEF s, n
<1>5. /\ rows' \in Seq(Row) /\ DOMAIN rows' = DOMAIN rows
      /\ \A j \in DOMAIN rows : rows'[j] = IF j = n THEN e ELSE rows[j]
  BY <1>1, RowChanged DEF n
<1>6. /\ pass' \in [Passes -> PassState] /\ pass'[w] = s
      /\ \A v \in Passes : v # w => pass'[v] = pass[v]
  BY <1>1, <1>3, PassMoved DEF s
<1>7. AttemptsLeft'
  BY <1>5 DEF AttemptsLeft, OutboxInv
<1>8. ReadsSound'
  BY <1>2, <1>3, <1>5, <1>6 DEF ReadsSound, OutboxInv
<1>9. ClaimsApart'
  BY <1>3, <1>4, <1>5, <1>6 DEF ClaimsApart, Busy, OutboxInv
<1> QED
  BY <1>5, <1>6, <1>7, <1>8, <1>9 DEF OutboxInv

\* What a busy pass works on.
LEMMA BusyRow ==
    ASSUME OutboxInv, NEW w \in Passes, Busy(w)
    PROVE  /\ pass[w].at.row \in DOMAIN rows /\ rows[pass[w].at.row] \in Row
           /\ rows[pass[w].at.row].status = "queued" /\ rows[pass[w].at.row].attempts < MaxAttempts
           /\ pass[w].at \in Read /\ pass[w].at.attempts < MaxAttempts
  BY PassShapes, ElementOfSeq, LenProperties DEF OutboxInv, ClaimsApart, AttemptsLeft, Busy

\* A row whose webhook is gone is given up.
LEMMA ReadSettingsOutbox ==
    ASSUME OutboxInv, NEW w \in Passes, ReadSettings(w)
    PROVE  OutboxInv'
<1> DEFINE n == pass[w].at.row
           e == [rows[n] EXCEPT !.status = "abandoned"]
<1>1. Busy(w) /\ pass[w].phase = "claimed" /\ UNCHANGED <<hooked, crashes>>
  BY DEF ReadSettings, Busy
<1>2. n \in DOMAIN rows /\ rows[n] \in Row /\ pass \in [Passes -> PassState]
  BY <1>1, BusyRow DEF OutboxInv
<1>3. CASE rows' = [rows EXCEPT ![n].status = "abandoned"] /\ pass' = [pass EXCEPT ![w] = GoOn(@.left)]
  <2>1. e \in Row /\ e.status # "queued"
    BY <1>2 DEF Row
  <2>2. rows' = [rows EXCEPT ![n] = e] /\ pass' = [pass EXCEPT ![w] = GoOn(pass[w].left)]
    BY <1>2, <1>3
  <2> HIDE DEF e
  <2> QED
    BY <1>1, <2>1, <2>2, RowEnded
<1>4. CASE rows' = rows /\ pass' = [pass EXCEPT ![w].phase = "posting"]
  <2> DEFINE s == [pass[w] EXCEPT !.phase = "posting"]
  <2>1. s \in PassState /\ s.phase = "posting" /\ s.at = pass[w].at /\ s.left = pass[w].left
    BY <1>1, <1>2 DEF PassState, Resting
  <2>2. pass' = [pass EXCEPT ![w] = s] /\ pass[w] # Resting
    BY <1>1, <1>2, <1>4 DEF Resting
  <2> HIDE DEF s
  <2>3. /\ pass' \in [Passes -> PassState] /\ pass'[w] = s
        /\ \A v \in Passes : v # w => pass'[v] = pass[v]
    BY <1>2, <2>1, <2>2, PassMoved
  <2>4. ReadsSound'
    BY <1>4, <2>1, <2>2, <2>3 DEF ReadsSound, OutboxInv
  <2>5. \A v \in Passes : Busy(v)' <=> Busy(v)
    BY <1>1, <2>1, <2>3 DEF Busy
  <2>6. \A v \in Passes : Busy(v) => pass'[v].at = pass[v].at
    BY <2>1, <2>3
  <2>7. ClaimsApart'
    BY <1>4, <2>5, <2>6 DEF ClaimsApart, OutboxInv
  <2> QED
    BY <1>1, <1>4, <2>3, <2>4, <2>7 DEF OutboxInv, AttemptsLeft
<1> QED
  BY <1>3, <1>4 DEF ReadSettings

\* A delivered row has ended.
LEMMA DeliveredOutbox ==
    ASSUME OutboxInv, NEW w \in Passes, Delivered(w)
    PROVE  OutboxInv'
<1> DEFINE n == pass[w].at.row
           e == [rows[n] EXCEPT !.status = "delivered", !.attempts = @ + 1]
<1>1. Busy(w) /\ UNCHANGED <<hooked, crashes>>
  BY DEF Delivered, Busy
<1>2. /\ n \in DOMAIN rows /\ rows[n] \in Row /\ pass \in [Passes -> PassState]
      /\ rows[n].attempts < MaxAttempts
  BY <1>1, BusyRow DEF OutboxInv
<1>3. rows[n].attempts + 1 \in 0..MaxAttempts
  BY <1>2, DeliveryAssumption DEF Row
<1>4. e \in Row /\ e.status # "queued"
  BY <1>2, <1>3 DEF Row
<1>5. rows' = [rows EXCEPT ![n] = e] /\ pass' = [pass EXCEPT ![w] = GoOn(pass[w].left)]
  BY <1>2 DEF Delivered
<1> HIDE DEF e
<1> QED
  BY <1>1, <1>4, <1>5, RowEnded

\* A failed post is tried later or given up.
LEMMA FailedOutbox ==
    ASSUME OutboxInv, NEW w \in Passes, Failed(w)
    PROVE  OutboxInv'
<1> DEFINE r == pass[w].at
           status == IF Last(r.attempts + 1) THEN "abandoned" ELSE rows[r.row].status
           e == [rows[r.row] EXCEPT !.attempts = r.attempts + 1, !.status = status]
<1>1. Busy(w) /\ UNCHANGED <<hooked, crashes>>
  BY DEF Failed, Busy
<1>2. /\ r.row \in DOMAIN rows /\ rows[r.row] \in Row /\ pass \in [Passes -> PassState]
      /\ r \in Read /\ r.attempts < MaxAttempts /\ rows[r.row].status = "queued"
  BY <1>1, BusyRow DEF OutboxInv
<1>3. r.attempts \in Nat /\ r.attempts + 1 \in 0..MaxAttempts
  BY <1>2, DeliveryAssumption DEF Read
<1>4. status \in {"abandoned", "queued"} /\ (status = "queued" => r.attempts + 1 < MaxAttempts)
  BY <1>2, <1>3, DeliveryAssumption DEF Last
<1>5. rows' = [rows EXCEPT ![r.row] = e] /\ pass' = [pass EXCEPT ![w] = GoOn(pass[w].left)]
  BY <1>2 DEF Failed
<1> HIDE DEF status
<1>6. e \in Row /\ e.status = status /\ e.attempts = r.attempts + 1
  BY <1>2, <1>3, <1>4 DEF Row
<1>7. e.status = "queued" => e.attempts < MaxAttempts
  BY <1>4, <1>6
<1> HIDE DEF e, r
<1> QED
  BY <1>1, <1>5, <1>6, <1>7, RowEnded DEF r

\* A crash loses passes, not rows.
LEMMA CrashOutbox ==
    ASSUME OutboxInv, Crash
    PROVE  OutboxInv'
<1>1. rows' = rows /\ hooked' = hooked /\ pass' = [w \in Passes |-> Resting]
  BY DEF Crash
<1>2. crashes' \in 0..MaxCrashes
  BY DeliveryAssumption DEF Crash, OutboxInv
<1>3. pass' \in [Passes -> PassState] /\ \A w \in Passes : pass'[w] = Resting
  BY <1>1 DEF PassState
<1>4. ReadsSound' /\ ClaimsApart'
  BY <1>3 DEF ReadsSound, ClaimsApart, Busy, Resting
<1> QED
  BY <1>1, <1>2, <1>3, <1>4 DEF OutboxInv, AttemptsLeft

\* A step of a pass is one of these.
LEMMA PassStepOutbox ==
    ASSUME OutboxInv, NEW w \in Passes, PassStep(w)
    PROVE  OutboxInv'
  BY StartPassOutbox, ClaimOutbox, ReadSettingsOutbox, DeliveredOutbox, FailedOutbox DEF PassStep

\* Every step of the outbox keeps its invariant.
LEMMA DeliveryOutbox ==
    ASSUME OutboxInv, DeliveryNext
    PROVE  OutboxInv'
<1>1. ASSUME NEW app \in Apps, Configure(app) \/ Remove(app) PROVE OutboxInv'
  BY <1>1 DEF Configure, Remove, OutboxInv, AttemptsLeft, ReadsSound, ClaimsApart, Busy
<1> QED
  BY <1>1, BecomeDueOutbox, PassStepOutbox, CrashOutbox DEF DeliveryNext

\* A row queued keeps the invariant, and so does a step that leaves the outbox alone.
LEMMA QueueOutbox ==
    ASSUME OutboxInv, NEW app \in Apps, NEW c \in Charges, NEW event \in {"paid", "refunded"},
           rows' = Append(rows, Queued(app, c, event)), UNCHANGED <<hooked, pass, crashes>>
    PROVE  OutboxInv'
<1> DEFINE e == Queued(app, c, event)
<1>1. e \in Row /\ e.attempts < MaxAttempts
  BY DeliveryAssumption DEF Row, Queued
<1> HIDE DEF e
<1>2. /\ rows' \in Seq(Row) /\ DOMAIN rows' = 1..Len(rows) + 1 /\ DOMAIN rows = 1..Len(rows) /\ Len(rows) \in Nat
      /\ \A j \in DOMAIN rows : rows'[j] = rows[j]
      /\ rows'[Len(rows) + 1] = e
  BY <1>1, RowQueued DEF OutboxInv, e
<1>3. \A j \in DOMAIN rows' : j \in DOMAIN rows \/ j = Len(rows) + 1
  BY <1>2
<1>4. DOMAIN rows \subseteq DOMAIN rows'
  BY <1>2
<1>5. AttemptsLeft'
  BY <1>1, <1>2, <1>3 DEF AttemptsLeft, OutboxInv
<1>6. ReadsSound'
  BY <1>4 DEF ReadsSound, OutboxInv
<1>7. ClaimsApart'
  BY <1>2, <1>4 DEF ClaimsApart, Busy, OutboxInv
<1> QED
  BY <1>2, <1>5, <1>6, <1>7 DEF OutboxInv

\* Steps that touch no delivery.
LEMMA OutboxUnchanged ==
    ASSUME OutboxInv, UNCHANGED deliveryVars
    PROVE  OutboxInv'
  BY DEF OutboxInv, deliveryVars, AttemptsLeft, ReadsSound, ClaimsApart, Busy

\* The invariant holds the types.
LEMMA DeliveryTypes == ASSUME OutboxInv PROVE DeliveryTypeOK
<1>1. \A i \in DOMAIN rows : rows[i] \in Row
  BY ElementOfSeq, LenProperties DEF OutboxInv
<1> QED
  BY <1>1 DEF OutboxInv, DeliveryTypeOK, Row

\* A pass never writes a row that is delivered or given up.
LEMMA DeliveryKeepsEnded ==
    ASSUME OutboxInv, DeliveryNext, NEW i \in DOMAIN rows, rows[i].status # "queued"
    PROVE  rows'[i].status = rows[i].status /\ rows'[i].attempts = rows[i].attempts
<1>0. rows \in Seq(Row) /\ rows[i] \in Row
  BY ElementOfSeq, LenProperties DEF OutboxInv
<1>1. ASSUME NEW app \in Apps, Configure(app) \/ Remove(app) PROVE rows' = rows
  BY <1>1 DEF Configure, Remove
<1>2. ASSUME NEW j \in DOMAIN rows, BecomeDue(j)
      PROVE  rows'[i].status = rows[i].status /\ rows'[i].attempts = rows[i].attempts
  BY <1>0, <1>2 DEF BecomeDue, Row
<1>3. ASSUME NEW w \in Passes, PassStep(w)
      PROVE  rows'[i].status = rows[i].status /\ rows'[i].attempts = rows[i].attempts
  <2>1. CASE StartPass(w)
    BY <2>1 DEF StartPass
  <2>2. ASSUME NEW r \in pass[w].left, Claim(w, r)
        PROVE  rows'[i].status = rows[i].status /\ rows'[i].attempts = rows[i].attempts
    BY <1>0, <2>2 DEF Claim, Row
  <2>3. Busy(w) => i # pass[w].at.row
    BY BusyRow
  <2>4. CASE ReadSettings(w)
    BY <1>0, <2>3, <2>4 DEF ReadSettings, Busy
  <2>5. CASE Delivered(w)
    BY <1>0, <2>3, <2>5 DEF Delivered, Busy
  <2>6. CASE Failed(w)
    BY <1>0, <2>3, <2>6 DEF Failed, Busy
  <2> QED
    BY <1>3, <2>1, <2>2, <2>4, <2>5, <2>6 DEF PassStep
<1>4. CASE Crash
  BY <1>4 DEF Crash
<1> QED
  BY <1>1, <1>2, <1>3, <1>4 DEF DeliveryNext

\* The rows stand for the same movements after a pass's step as before it.
LEMMA DeliveryKeepsTold ==
    ASSUME OutboxInv, DeliveryNext
    PROVE  DOMAIN rows' = DOMAIN rows
           /\ \A i \in DOMAIN rows : rows'[i].charge = rows[i].charge /\ rows'[i].event = rows[i].event
<1>0. rows \in Seq(Row) /\ \A i \in DOMAIN rows : rows[i] \in Row
  BY ElementOfSeq, LenProperties DEF OutboxInv
<1> DEFINE Same == DOMAIN rows' = DOMAIN rows /\ \A i \in DOMAIN rows :
                     rows'[i].charge = rows[i].charge /\ rows'[i].event = rows[i].event
<1>1. ASSUME NEW app \in Apps, Configure(app) \/ Remove(app) PROVE Same
  BY <1>1 DEF Configure, Remove
<1>2. ASSUME NEW j \in DOMAIN rows, BecomeDue(j) PROVE Same
  BY <1>0, <1>2 DEF BecomeDue, Row
<1>3. ASSUME NEW w \in Passes, PassStep(w) PROVE Same
  <2>1. CASE StartPass(w)
    BY <2>1 DEF StartPass
  <2>2. ASSUME NEW r \in pass[w].left, Claim(w, r) PROVE Same
    <3> DEFINE row(i) == [rows[i] EXCEPT !.due = FALSE]
    <3>1. rows' = rows \/ rows' = [rows EXCEPT ![r.row] = row(r.row)]
      BY <2>2 DEF Claim
    <3>2. \A i \in DOMAIN rows : row(i).charge = rows[i].charge /\ row(i).event = rows[i].event
      BY <1>0 DEF Row
    <3> HIDE DEF row
    <3>3. DOMAIN rows' = DOMAIN rows /\ \A i \in DOMAIN rows : rows'[i] = rows[i] \/ rows'[i] = row(i)
      BY <1>0, <3>1
    <3> QED
      BY <3>2, <3>3
  <2>3. CASE ReadSettings(w)
    <3>1. rows' = rows \/ rows' = [rows EXCEPT ![pass[w].at.row].status = "abandoned"]
      BY <2>3 DEF ReadSettings
    <3> QED
      BY <1>0, <3>1 DEF Row
  <2>4. CASE Delivered(w)
    BY <1>0, <2>4 DEF Delivered, Row
  <2>5. CASE Failed(w)
    BY <1>0, <2>5 DEF Failed, Row
  <2> QED
    BY <1>3, <2>1, <2>2, <2>3, <2>4, <2>5 DEF PassStep
<1>4. CASE Crash
  BY <1>4 DEF Crash
<1> QED
  BY <1>1, <1>2, <1>3, <1>4 DEF DeliveryNext

----------------------------------------------------------------------------
(* The accounts.                                                           *)

TestAccounts == {a \in Accounts : a[1] \in {"vibes_credit_sandbox", "project_payable_sandbox"}}
RealAccounts == {a \in Accounts : a[1] \in {"user_credit", "project_payable", "payouts_pending"}}

\* There are finitely many accounts.
LEMMA AccountsFinite == IsFiniteSet(Accounts)
<1>1. IsFiniteSet({Credit(p) : p \in Persons})
  <2> DEFINE T == {Credit(p) : p \in Persons}
             f == [p \in Persons |-> Credit(p)]
  <2>1. f \in [Persons -> T] /\ \A y \in T : \E p \in Persons : f[p] = y
    OBVIOUS
  <2> HIDE DEF f
  <2> QED
    BY <2>1, FiniteImage, VibesPayAssumption
<1>2. IsFiniteSet({Pocket(app, p) : app \in Apps, p \in Persons})
  <2> DEFINE T == {Pocket(app, p) : app \in Apps, p \in Persons}
             S == Apps \X Persons
             f == [x \in S |-> Pocket(x[1], x[2])]
  <2>1. f \in [S -> T]
    OBVIOUS
  <2>2. ASSUME NEW y \in T PROVE \E x \in S : f[x] = y
    <3>1. PICK app \in Apps, p \in Persons : y = Pocket(app, p)
      OBVIOUS
    <3>2. <<app, p>> \in S /\ f[<<app, p>>] = Pocket(app, p)
      OBVIOUS
    <3> QED
      BY <3>1, <3>2
  <2>3. IsFiniteSet(S)
    BY FS_Product, VibesPayAssumption
  <2> HIDE DEF f, S, T
  <2>4. IsFiniteSet(T)
    BY <2>1, <2>2, <2>3, FiniteImage
  <2> QED
    BY <2>4 DEF T
<1>3. IsFiniteSet({Wallet(app) : app \in Apps})
  <2> DEFINE T == {Wallet(app) : app \in Apps}
             f == [app \in Apps |-> Wallet(app)]
  <2>1. f \in [Apps -> T] /\ \A y \in T : \E app \in Apps : f[app] = y
    OBVIOUS
  <2>2. IsFiniteSet(Apps)
    BY VibesPayAssumption
  <2> HIDE DEF f, T
  <2>3. IsFiniteSet(T)
    BY <2>1, <2>2, FiniteImage
  <2> QED
    BY <2>3 DEF T
<1>4. IsFiniteSet({TestWallet(app) : app \in Apps})
  <2> DEFINE T == {TestWallet(app) : app \in Apps}
             f == [app \in Apps |-> TestWallet(app)]
  <2>1. f \in [Apps -> T] /\ \A y \in T : \E app \in Apps : f[app] = y
    OBVIOUS
  <2>2. IsFiniteSet(Apps)
    BY VibesPayAssumption
  <2> HIDE DEF f, T
  <2>3. IsFiniteSet(T)
    BY <2>1, <2>2, FiniteImage
  <2> QED
    BY <2>3 DEF T
<1>5. IsFiniteSet({Issuer, Pending})
  <2> HIDE DEF Issuer, Pending
  <2>1. IsFiniteSet({Issuer} \cup {Pending})
    BY FS_Singleton, FS_AddElement
  <2>2. {Issuer, Pending} = {Issuer} \cup {Pending}
    OBVIOUS
  <2> QED
    BY <2>1, <2>2, Zenon
<1> DEFINE credits == {Credit(p) : p \in Persons}
           pockets == {Pocket(app, p) : app \in Apps, p \in Persons}
           wallets == {Wallet(app) : app \in Apps}
           testWallets == {TestWallet(app) : app \in Apps}
           others == {Issuer, Pending}
<1>6. Accounts = credits \cup pockets \cup wallets \cup testWallets \cup others
  BY DEF Accounts
<1> HIDE DEF credits, pockets, wallets, testWallets, others
<1>7. IsFiniteSet(credits \cup pockets)
  <2>1. IsFiniteSet(credits) /\ IsFiniteSet(pockets)
    BY <1>1, <1>2 DEF credits, pockets
  <2> QED
    BY <2>1, FS_Union
<1>8. IsFiniteSet(credits \cup pockets \cup wallets)
  BY <1>7, <1>3, FS_Union DEF wallets
<1>9. IsFiniteSet(credits \cup pockets \cup wallets \cup testWallets)
  BY <1>8, <1>4, FS_Union DEF testWallets
<1>10. IsFiniteSet(credits \cup pockets \cup wallets \cup testWallets \cup others)
  BY <1>9, <1>5, FS_Union DEF others
<1> QED
  BY <1>6, <1>10, Zenon

\* Test accounts and real ones are apart, and the issuer is neither.
LEMMA AccountsApart ==
    /\ IsFiniteSet(TestAccounts) /\ TestAccounts \subseteq Accounts
    /\ IsFiniteSet(RealAccounts) /\ RealAccounts \subseteq Accounts
    /\ TestAccounts \cap RealAccounts = {}
    /\ Issuer \in Accounts /\ Issuer \notin TestAccounts /\ Issuer \notin RealAccounts
  BY AccountsFinite, FS_Subset DEF TestAccounts, RealAccounts, Accounts, Issuer

\* The accounts that calls move Vibes between.
LEMMA AccountsKnown ==
    /\ \A p \in Persons : Credit(p) \in RealAccounts /\ Credit(p)[1] = "user_credit"
    /\ \A app \in Apps, p \in Persons : /\ Pocket(app, p) \in TestAccounts
                                         /\ Pocket(app, p)[1] = "vibes_credit_sandbox"
    /\ \A app \in Apps : Wallet(app) \in RealAccounts /\ Wallet(app)[1] = "project_payable"
    /\ \A app \in Apps : TestWallet(app) \in TestAccounts /\ TestWallet(app)[1] = "project_payable_sandbox"
    /\ Pending \in RealAccounts /\ Pending[1] = "payouts_pending" /\ Issuer[1] = "vibes_sandbox"
  BY DEF TestAccounts, RealAccounts, Accounts, Credit, Pocket, Wallet, TestWallet, Pending, Issuer

\* A charge moves Vibes between test accounts or between real ones.
LEMMA ChargeAccounts ==
    ASSUME NEW c \in Charges, NEW p \in Persons
    PROVE  /\ \/ PayerAccount(c, p) \in TestAccounts /\ ProjectAccount(c) \in TestAccounts
              \/ PayerAccount(c, p) \in RealAccounts /\ ProjectAccount(c) \in RealAccounts
           /\ PayerAccount(c, p) # ProjectAccount(c)
           /\ PayerAccount(c, p)[1] \in {"user_credit", "vibes_credit_sandbox"}
           /\ ProjectAccount(c)[1] \in {"project_payable", "project_payable_sandbox"}
           /\ PayerAccount(c, p) \in Accounts /\ ProjectAccount(c) \in Accounts
<1>1. Asks[c].app \in Apps
  BY VibesPayAssumption
<1>2. CASE Asks[c].sandbox
  BY <1>1, <1>2, AccountsKnown, AccountsApart DEF PayerAccount, ProjectAccount
<1>3. CASE ~Asks[c].sandbox
  BY <1>1, <1>3, AccountsKnown, AccountsApart DEF PayerAccount, ProjectAccount
<1> QED
  BY <1>2, <1>3

\* SandboxApart without its local names.
LEMMA SandboxSums ==
    SandboxApart <=> /\ SumFunctionOnSet(balance, TestAccounts) = -balance[Issuer]
                     /\ SumFunctionOnSet(balance, RealAccounts) = Funds * Cardinality(Persons)
  BY DEF SandboxApart, TestAccounts, RealAccounts

\* People start with credit, and test Vibes nowhere.
LEMMA SandboxInit ==
    ASSUME balance = [a \in Accounts |-> IF a[1] = "user_credit" THEN Funds ELSE 0]
    PROVE  SandboxApart
<1> DEFINE purses == {Credit(p) : p \in Persons}
           f == [p \in Persons |-> Credit(p)]
<1>1. Cardinality(purses) = Cardinality(Persons)
  <2>1. f \in [Persons -> purses] /\ \A y \in purses : \E p \in Persons : f[p] = y
    OBVIOUS
  <2>2. \A p, q \in Persons : f[p] = f[q] => p = q
    BY DEF Credit
  <2> HIDE DEF f, purses
  <2> QED
    BY <2>1, <2>2, ImageSize, VibesPayAssumption
<1>2. purses \in SUBSET RealAccounts
  BY AccountsKnown
<1>3. \A a \in purses : balance[a] = Funds
  BY <1>2, AccountsKnown, AccountsApart
<1>4. \A a \in RealAccounts \ purses : balance[a] = 0
  <2> SUFFICES ASSUME NEW a \in RealAccounts, a[1] = "user_credit" PROVE a \in purses
    BY AccountsApart
  <2> QED
    BY DEF RealAccounts, Accounts, Pocket, Wallet, TestWallet, Issuer, Pending
<1>5. balance[Issuer] = 0 /\ \A a \in TestAccounts : balance[a] = 0
  BY AccountsApart, AccountsKnown DEF TestAccounts
<1> HIDE DEF purses
<1>6. SumFunctionOnSet(balance, TestAccounts) = 0
  BY <1>5, AccountsApart, SumZero
<1>7. Funds \in Int
  BY VibesPayAssumption
<1>8. SumFunctionOnSet(balance, RealAccounts) = SumFunctionOnSet(balance, purses)
  BY <1>2, <1>3, <1>4, <1>7, AccountsApart, SumSupport
<1>9. IsFiniteSet(purses)
  BY <1>2, AccountsApart, FS_Subset
<1>10. SumFunctionOnSet(balance, purses) = Funds * Cardinality(purses)
  BY <1>3, <1>7, <1>9, SumConstant
<1>11. SumFunctionOnSet(balance, RealAccounts) = Funds * Cardinality(Persons)
  BY <1>1, <1>8, <1>10, Zenon
<1>12. SumFunctionOnSet(balance, TestAccounts) = -balance[Issuer]
  <2> DEFINE x == balance[Issuer]
             y == SumFunctionOnSet(balance, TestAccounts)
  <2>1. x \in Int /\ y \in Int /\ x + y = 0
    BY <1>5, <1>6
  <2> HIDE DEF x, y
  <2>2. y = -x
    BY <2>1, Opposite
  <2> QED
    BY <2>2 DEF x, y
<1> QED
  BY <1>11, <1>12, SandboxSums, Zenon

\* Vibes that move between two test accounts, or two real ones.
LEMMA SandboxMove ==
    ASSUME balance \in [Accounts -> Int], SandboxApart, NEW from, NEW to, from # to, NEW n \in Int,
           \/ from \in TestAccounts /\ to \in TestAccounts
           \/ from \in RealAccounts /\ to \in RealAccounts,
           balance' = [balance EXCEPT ![from] = @ - n, ![to] = @ + n]
    PROVE  balance' \in [Accounts -> Int] /\ SandboxApart'
<1>1. from \in Accounts /\ to \in Accounts /\ from # Issuer /\ to # Issuer
  BY AccountsApart
<1>2. /\ balance' \in [Accounts -> Int]
      /\ balance'[from] = balance[from] - n /\ balance'[to] = balance[to] + n
      /\ \A a \in Accounts \ {from, to} : balance'[a] = balance[a]
  BY <1>1
<1>3. ASSUME NEW S, IsFiniteSet(S), S \subseteq Accounts,
             (from \in S /\ to \in S) \/ (from \notin S /\ to \notin S)
      PROVE  SumFunctionOnSet(balance', S) = SumFunctionOnSet(balance, S)
  <2> DEFINE e == balance'
  <2>0. /\ \A a \in S : balance[a] \in Int /\ e[a] \in Int
        /\ e[from] + e[to] = balance[from] + balance[to]
        /\ \A a \in S \ {from, to} : e[a] = balance[a]
    BY <1>1, <1>2, <1>3
  <2> HIDE DEF e
  <2>3. SumFunctionOnSet(e, S) = SumFunctionOnSet(balance, S)
   <3>1. CASE from \in S /\ to \in S
    BY <1>3, <2>0, <3>1, SumMove
   <3>2. CASE from \notin S /\ to \notin S
    BY <1>3, <2>0, <3>2, SumSame
   <3> QED
    BY <1>3, <3>1, <3>2
  <2> QED
    BY <2>3 DEF e
<1>4. /\ SumFunctionOnSet(balance', TestAccounts) = SumFunctionOnSet(balance, TestAccounts)
      /\ SumFunctionOnSet(balance', RealAccounts) = SumFunctionOnSet(balance, RealAccounts)
      /\ balance'[Issuer] = balance[Issuer]
  BY <1>1, <1>2, <1>3, AccountsApart
<1>5. SandboxApart' <=> /\ SumFunctionOnSet(balance', TestAccounts) = -balance'[Issuer]
                        /\ SumFunctionOnSet(balance', RealAccounts) = Funds * Cardinality(Persons)
  BY DEF SandboxApart, TestAccounts, RealAccounts
<1> QED
  BY <1>2, <1>4, <1>5, SandboxSums

\* A grant of test Vibes adds them on the sandbox side.
LEMMA SandboxGranted ==
    ASSUME balance \in [Accounts -> Int], SandboxApart, NEW to \in TestAccounts, NEW n \in Int,
           balance' = [balance EXCEPT ![Issuer] = @ - n, ![to] = @ + n]
    PROVE  balance' \in [Accounts -> Int] /\ SandboxApart'
<1>1. to \in Accounts /\ to # Issuer /\ Issuer \in Accounts
  BY AccountsApart
<1>2. /\ balance' \in [Accounts -> Int]
      /\ balance'[Issuer] = balance[Issuer] - n /\ balance'[to] = balance[to] + n
      /\ \A a \in Accounts \ {Issuer, to} : balance'[a] = balance[a]
  BY <1>1
<1>3. SumFunctionOnSet(balance', TestAccounts) = SumFunctionOnSet(balance, TestAccounts) - balance[to] + balance'[to]
  <2> DEFINE e == balance'
  <2>1. /\ \A a \in TestAccounts : balance[a] \in Int /\ e[a] \in Int
        /\ \A a \in TestAccounts \ {to} : e[a] = balance[a]
    BY <1>2, AccountsApart
  <2> HIDE DEF e
  <2>2. SumFunctionOnSet(e, TestAccounts) = SumFunctionOnSet(balance, TestAccounts) - balance[to] + e[to]
    BY <2>1, AccountsApart, SumChange
  <2> QED
    BY <2>2 DEF e
<1>4. SumFunctionOnSet(balance', RealAccounts) = SumFunctionOnSet(balance, RealAccounts)
  <2>1. \A a \in RealAccounts : balance[a] \in Int /\ balance'[a] = balance[a]
    BY <1>2, AccountsApart
  <2> QED
    BY <2>1, AccountsApart, SumSame
<1>5. SandboxApart' <=> /\ SumFunctionOnSet(balance', TestAccounts) = -balance'[Issuer]
                        /\ SumFunctionOnSet(balance', RealAccounts) = Funds * Cardinality(Persons)
  BY DEF SandboxApart, TestAccounts, RealAccounts
<1>6. balance[to] \in Int /\ balance[Issuer] \in Int
  BY <1>1
<1> QED
  BY <1>2, <1>3, <1>4, <1>5, <1>6, SandboxSums

----------------------------------------------------------------------------
(* The charges.                                                            *)

\* Only a call that pays names a person, and it always does.
CallsNamed == \A call \in calls : call.does = "pay" => call.person \in Persons

\* A charge has a payer from its payment on.
PayersKnown ==
    \A c \in Charges :
        IF charge[c].status \in {"paid", "refunded"} THEN charge[c].payer \in Persons
                                                      ELSE charge[c].payer = None

\* What stands paid with real Vibes, of one person, in the last Day.
RealPaid(p) == {c \in Charges : /\ charge[c].status = "paid" /\ charge[c].payer = p
                                 /\ ~Asks[c].sandbox /\ charge[c].paidAt > clock - Day}

\* The inductive invariant.
PayIInv ==
    /\ charge \in [Charges -> ChargeRow]
    /\ balance \in [Accounts -> Int]
    /\ calls \subseteq Call /\ frozen \in BOOLEAN /\ clock \in 0..MaxTime
    /\ CallsNamed /\ PayersKnown
    /\ OutboxInv
    /\ SandboxApart
    /\ DailyLimitKept

----------------------------------------------------------------------------
(* What is spent in a day.                                                 *)

\* What someone paid is a number.
LEMMA AmountType ==
    ASSUME NEW S \in SUBSET Charges
    PROVE  AmountOf(S) \in Nat
<1> DEFINE f == [c \in S |-> Asks[c].amount]
<1>1. IsFiniteSet(S) /\ \A c \in S : f[c] \in Nat
  BY FS_Subset, VibesPayAssumption
<1> HIDE DEF f
<1>2. SumFunctionOnSet(f, S) \in Nat
  BY <1>1, SumNat
<1> QED
  BY <1>2 DEF AmountOf, f

\* A part of the payments is no more than all.
LEMMA AmountPart ==
    ASSUME NEW S \in SUBSET Charges, NEW R \in SUBSET S
    PROVE  AmountOf(R) =< AmountOf(S)
<1> DEFINE f == [c \in S |-> Asks[c].amount]
           e == [c \in R |-> Asks[c].amount]
<1>1. IsFiniteSet(S) /\ IsFiniteSet(R)
  BY FS_Subset, VibesPayAssumption
<1>2. (\A c \in S : f[c] \in Nat) /\ \A c \in R : f[c] \in Int /\ e[c] = f[c]
  BY VibesPayAssumption
<1> HIDE DEF e, f
<1>3. SumFunctionOnSet(f, R) =< SumFunctionOnSet(f, S)
  BY <1>1, <1>2, SumPart
<1>4. SumFunctionOnSet(e, R) = SumFunctionOnSet(f, R)
  BY <1>1, <1>2, SumSame
<1> QED
  BY <1>3, <1>4 DEF AmountOf, e, f

\* A payment adds its bits.
LEMMA AmountAdded ==
    ASSUME NEW S \in SUBSET Charges, NEW c \in Charges \ S
    PROVE  AmountOf(S \cup {c}) = AmountOf(S) + Asks[c].amount
<1> DEFINE T == S \cup {c}
           f == [d \in T |-> Asks[d].amount]
           e == [d \in S |-> Asks[d].amount]
<1>1. IsFiniteSet(S)
  BY FS_Subset, VibesPayAssumption
<1>2. (\A d \in S \cup {c} : f[d] \in Int) /\ (\A d \in S : f[d] \in Int /\ e[d] = f[d]) /\ f[c] = Asks[c].amount
  BY VibesPayAssumption
<1> HIDE DEF e, f
<1>3. SumFunctionOnSet(f, S \cup {c}) = SumFunctionOnSet(f, S) + f[c]
  BY <1>1, <1>2, SumAdd
<1>4. SumFunctionOnSet(e, S) = SumFunctionOnSet(f, S)
  BY <1>1, <1>2, SumSame
<1> QED
  BY <1>2, <1>3, <1>4 DEF AmountOf, e, f

\* The limit holds on while nobody's payments of the day become more.
LEMMA LimitKeptByFewer ==
    ASSUME DailyLimitKept, \A p \in Persons : RealPaid(p)' \subseteq RealPaid(p)
    PROVE  DailyLimitKept'
<1> SUFFICES ASSUME NEW p \in Persons PROVE AmountOf(RealPaid(p)') =< DailyLimit
  BY DEF DailyLimitKept, RealPaid
<1>1. RealPaid(p) \in SUBSET Charges /\ RealPaid(p)' \in SUBSET RealPaid(p)
  BY DEF RealPaid
<1>2. AmountOf(RealPaid(p)) =< DailyLimit
  BY DEF DailyLimitKept, RealPaid
<1>3. AmountOf(RealPaid(p)') \in Nat /\ AmountOf(RealPaid(p)) \in Nat
  BY <1>1, AmountType
<1>4. AmountOf(RealPaid(p)') =< AmountOf(RealPaid(p))
  BY <1>1, AmountPart
<1> QED
  BY <1>2, <1>3, <1>4, VibesPayAssumption

\* A payment that found room for itself in the day of its payer.
LEMMA LimitKeptByPayment ==
    ASSUME DailyLimitKept, charge \in [Charges -> ChargeRow], clock \in Int, clock' = clock,
           NEW c \in Charges, NEW p \in Persons, WithinLimit(c, p), charge[c].status = "pending",
           charge' = [charge EXCEPT ![c].status = "paid", ![c].payer = p, ![c].paidAt = clock]
    PROVE  DailyLimitKept'
<1> DEFINE Spent == {d \in Charges : /\ charge[d].status = "paid" /\ charge[d].payer = p
                                      /\ charge[d].paidAt > clock - Day}
<1>1. /\ charge'[c].status = "paid" /\ charge'[c].payer = p
      /\ \A d \in Charges : d # c => charge'[d] = charge[d]
  BY DEF ChargeRow
<1>2. \A q \in Persons : RealPaid(q) \subseteq Charges /\ c \notin RealPaid(q)
  BY DEF RealPaid
<1>3. ASSUME NEW q \in Persons, q # p \/ Asks[c].sandbox PROVE RealPaid(q)' \subseteq RealPaid(q)
  BY <1>1, <1>3 DEF RealPaid
<1>4. CASE Asks[c].sandbox
  BY <1>3, <1>4, LimitKeptByFewer
<1>5. CASE ~Asks[c].sandbox
  <2> SUFFICES ASSUME NEW q \in Persons PROVE AmountOf(RealPaid(q)') =< DailyLimit
    BY DEF DailyLimitKept, RealPaid
  <2>1. CASE q # p
    <3>1. RealPaid(q) \in SUBSET Charges /\ RealPaid(q)' \in SUBSET RealPaid(q)
      BY <1>2, <1>3, <2>1
    <3>2. AmountOf(RealPaid(q)) =< DailyLimit
      BY DEF DailyLimitKept, RealPaid
    <3>3. AmountOf(RealPaid(q)') \in Nat /\ AmountOf(RealPaid(q)) \in Nat
      BY <3>1, AmountType
    <3>4. AmountOf(RealPaid(q)') =< AmountOf(RealPaid(q))
      BY <3>1, AmountPart
    <3> QED
      BY <3>2, <3>3, <3>4, VibesPayAssumption
  <2>2. CASE q = p
    <3>1. RealPaid(p)' \in SUBSET (Spent \cup {c})
      BY <1>1 DEF RealPaid
    <3>2. Spent \in SUBSET Charges /\ c \notin Spent /\ Spent \cup {c} \in SUBSET Charges
      OBVIOUS
    <3>3. AmountOf(Spent) + Asks[c].amount =< DailyLimit
      BY <1>5 DEF WithinLimit, SpentToday
    <3> HIDE DEF Spent
    <3>4. AmountOf(Spent \cup {c}) = AmountOf(Spent) + Asks[c].amount
      BY <3>2, AmountAdded
    <3>5. AmountOf(RealPaid(p)') =< AmountOf(Spent \cup {c})
      BY <3>1, <3>2, AmountPart
    <3>6. AmountOf(RealPaid(p)') \in Nat /\ AmountOf(Spent \cup {c}) \in Nat
      BY <3>1, <3>2, AmountType
    <3> QED
      BY <2>2, <3>3, <3>4, <3>5, <3>6, VibesPayAssumption
  <2> QED
    BY <2>1, <2>2
<1> QED
  BY <1>4, <1>5

----------------------------------------------------------------------------
(* The steps.                                                              *)

\* The initial states.
LEMMA InitInv == ASSUME Init PROVE PayIInv
<1>1. charge \in [Charges -> ChargeRow] /\ PayersKnown
  BY DEF Init, ChargeRow, NoCharge, PayersKnown
<1>2. balance \in [Accounts -> Int]
  BY VibesPayAssumption DEF Init
<1>3. clock \in 0..MaxTime /\ CallsNamed /\ calls \subseteq Call /\ frozen \in BOOLEAN
  <2>1. clock = 0 /\ calls = {} /\ frozen = FALSE
    BY DEF Init
  <2>2. MaxTime \in Nat
    BY VibesPayAssumption
  <2>3. clock \in 0..MaxTime
    BY <2>1, <2>2
  <2>4. frozen \in BOOLEAN
    BY <2>1
  <2> QED
    BY <2>1, <2>3, <2>4 DEF CallsNamed
<1>4. OutboxInv
  <2>1. rows = <<>> /\ hooked = Apps /\ crashes = 0 /\ pass = [w \in Passes |-> Resting]
    BY DEF Init, DeliveryInit
  <2>2. rows \in Seq(Row) /\ DOMAIN rows = {}
    BY <2>1
  <2> QED
    BY <2>1, <2>2, DeliveryAssumption DEF OutboxInv, PassState, Resting, AttemptsLeft, ReadsSound, ClaimsApart, Busy
<1>5. SandboxApart
  BY SandboxInit DEF Init
<1>6. DailyLimitKept
  <2>1. \A p \in Persons : RealPaid(p) = {}
    BY DEF Init, RealPaid, NoCharge
  <2>2. AmountOf({}) = 0
    BY SumEmpty DEF AmountOf
  <2>3. \A p \in Persons : AmountOf(RealPaid(p)) = 0
    BY <2>1, <2>2, Zenon
  <2> QED
    BY <2>3, VibesPayAssumption DEF DailyLimitKept, RealPaid
<1> QED
  BY <1>1, <1>2, <1>3, <1>4, <1>5, <1>6 DEF PayIInv

\* What holds of the calls that are left when one is done.
LEMMA CallsLeft ==
    ASSUME PayIInv, calls' \subseteq calls
    PROVE  calls' \subseteq Call /\ CallsNamed'
  BY DEF PayIInv, CallsNamed

\* Balances that stay keep the sides apart.
LEMMA SandboxUnchanged == ASSUME SandboxApart, balance' = balance PROVE SandboxApart'
  BY DEF SandboxApart

\* A charge that is asked, or closed unpaid.
LEMMA UnpaidInv ==
    ASSUME PayIInv, calls' \subseteq calls, NEW c \in Charges, NEW r \in ChargeRow,
           charge[c].status \in {"none", "pending"}, r.status \notin {"paid", "refunded"},
           r.payer = charge[c].payer, charge' = [charge EXCEPT ![c] = r],
           UNCHANGED <<balance, rows, frozen, clock, hooked, pass, crashes>>
    PROVE  PayIInv'
<1>1. charge' \in [Charges -> ChargeRow] /\ charge'[c] = r /\ \A d \in Charges : d # c => charge'[d] = charge[d]
  BY DEF PayIInv
<1>2. PayersKnown'
  BY <1>1 DEF PayersKnown, PayIInv
<1>3. \A p \in Persons : RealPaid(p)' \subseteq RealPaid(p)
  BY <1>1 DEF RealPaid
<1>4. DailyLimitKept'
  BY <1>3, LimitKeptByFewer DEF PayIInv
<1>5. OutboxInv'
  BY OutboxUnchanged DEF PayIInv, deliveryVars
<1> QED
  BY <1>1, <1>2, <1>4, <1>5, CallsLeft, SandboxUnchanged DEF PayIInv

\* A payment, in each of its outcomes.
LEMMA PayInvStep ==
    ASSUME PayIInv, calls' \subseteq calls, NEW c \in Charges, NEW p \in Persons, PayCharge(c, p),
           UNCHANGED <<frozen, clock, hooked, pass, crashes>>
    PROVE  PayIInv'
<1>1. /\ charge[c].status = "pending" /\ WithinLimit(c, p) /\ charge \in [Charges -> ChargeRow] /\ clock \in Nat
      /\ charge' = [charge EXCEPT ![c].status = "paid", ![c].payer = p, ![c].paidAt = clock]
  BY VibesPayAssumption DEF PayCharge, Open, PayIInv
<1>2. charge' \in [Charges -> ChargeRow] /\ PayersKnown'
  <2> DEFINE r == [charge[c] EXCEPT !.status = "paid", !.payer = p, !.paidAt = clock]
  <2>1. r \in ChargeRow /\ r.status = "paid" /\ r.payer = p
    BY <1>1 DEF ChargeRow
  <2>2. charge' = [charge EXCEPT ![c] = r]
    BY <1>1
  <2> HIDE DEF r
  <2> QED
    BY <1>1, <2>1, <2>2 DEF PayersKnown, PayIInv
<1>3. clock \in Int /\ clock' = clock /\ DailyLimitKept
  BY <1>1 DEF PayIInv
<1>4. DailyLimitKept'
  BY <1>1, <1>3, LimitKeptByPayment
<1>5. Asks[c].amount \in Int /\ Asks[c].app \in Apps
  BY VibesPayAssumption
<1>6. balance' = [balance EXCEPT ![PayerAccount(c, p)] = @ - Asks[c].amount,
                                 ![ProjectAccount(c)] = @ + Asks[c].amount]
  BY DEF PayCharge, Move
<1>7. balance' \in [Accounts -> Int] /\ SandboxApart'
  BY <1>5, <1>6, ChargeAccounts, SandboxMove DEF PayIInv
<1>8. OutboxInv'
  BY <1>5, QueueOutbox DEF PayIInv, PayCharge, Announce
<1> QED
  BY <1>2, <1>4, <1>7, <1>8, CallsLeft DEF PayIInv

\* A refund, in each of its outcomes.
LEMMA RefundInvStep ==
    ASSUME PayIInv, calls' \subseteq calls, NEW c \in Charges, RefundCharge(c),
           UNCHANGED <<frozen, clock, hooked, pass, crashes>>
    PROVE  PayIInv'
<1> DEFINE p == charge[c].payer
<1>1. /\ charge[c].status = "paid" /\ charge \in [Charges -> ChargeRow] /\ p \in Persons
      /\ charge' = [charge EXCEPT ![c].status = "refunded"]
  BY DEF RefundCharge, PayIInv, PayersKnown
<1>2. charge' \in [Charges -> ChargeRow]
  BY <1>1 DEF ChargeRow
<1>3. PayersKnown'
  BY <1>1 DEF PayersKnown, PayIInv, ChargeRow
<1>4. \A q \in Persons : RealPaid(q)' \subseteq RealPaid(q)
  BY <1>1 DEF RealPaid, ChargeRow
<1>5. DailyLimitKept'
  BY <1>4, LimitKeptByFewer DEF PayIInv
<1>6. Asks[c].amount \in Int /\ Asks[c].app \in Apps
  BY VibesPayAssumption
<1>7. balance' = [balance EXCEPT ![ProjectAccount(c)] = @ - Asks[c].amount,
                                 ![PayerAccount(c, p)] = @ + Asks[c].amount]
  BY DEF RefundCharge, Move
<1> HIDE DEF p
<1>8. balance' \in [Accounts -> Int] /\ SandboxApart'
  BY <1>1, <1>6, <1>7, ChargeAccounts, SandboxMove DEF PayIInv
<1>9. OutboxInv'
  BY <1>6, QueueOutbox DEF PayIInv, RefundCharge, Announce
<1> QED
  BY <1>2, <1>3, <1>5, <1>8, <1>9, CallsLeft DEF PayIInv

\* The money transaction of a call.
LEMMA TransactInv ==
    ASSUME PayIInv, NEW call \in calls, Transact(call)
    PROVE  PayIInv'
<1> DEFINE c == call.charge
<1>1. c \in Charges /\ (call.does = "pay" => call.person \in Persons) /\ calls' \subseteq calls
      /\ call.does \in {"create", "pay", "cancel", "refund"}
  BY DEF PayIInv, Call, CallsNamed, Transact
<1>2. UNCHANGED <<frozen, clock, hooked, pass, crashes>>
  BY DEF Transact
<1>3. /\ call.does = "create" => CreateCharge(c)
      /\ call.does = "pay" => Expire(c) \/ PayCharge(c, call.person)
      /\ call.does = "cancel" => Expire(c) \/ CancelCharge(c)
      /\ call.does = "refund" => RefundCharge(c)
  BY <1>1 DEF Transact, Does
<1>4. charge \in [Charges -> ChargeRow] /\ clock \in Nat
  BY VibesPayAssumption DEF PayIInv
<1> HIDE DEF c
<1>5. CASE CreateCharge(c)
  <2> DEFINE r == [charge[c] EXCEPT !.status = "pending", !.expires = clock + Ttl]
  <2>1. charge[c].status = "none"
    BY <1>5 DEF CreateCharge, NoCharge
  <2>2. charge' = [charge EXCEPT ![c] = r]
    BY <1>1, <1>4, <1>5 DEF CreateCharge
  <2>3. clock + Ttl \in Nat
    BY <1>4, VibesPayAssumption
  <2>4. r \in ChargeRow /\ r.status = "pending" /\ r.payer = charge[c].payer
    BY <1>1, <1>4, <2>3 DEF ChargeRow
  <2> HIDE DEF r
  <2> QED
    BY <1>1, <1>2, <1>5, <2>1, <2>2, <2>4, UnpaidInv DEF CreateCharge
<1>6. CASE Expire(c)
  <2> DEFINE r == [charge[c] EXCEPT !.status = "expired"]
  <2>1. charge' = [charge EXCEPT ![c] = r] /\ charge[c].status = "pending"
    BY <1>1, <1>4, <1>6 DEF Expire
  <2>2. r \in ChargeRow /\ r.status = "expired" /\ r.payer = charge[c].payer
    BY <1>1, <1>4 DEF ChargeRow
  <2> HIDE DEF r
  <2> QED
    BY <1>1, <1>2, <1>6, <2>1, <2>2, UnpaidInv DEF Expire
<1>7. CASE CancelCharge(c)
  <2> DEFINE r == [charge[c] EXCEPT !.status = "cancelled"]
  <2>1. charge' = [charge EXCEPT ![c] = r] /\ charge[c].status = "pending"
    BY <1>1, <1>4, <1>7 DEF CancelCharge
  <2>2. r \in ChargeRow /\ r.status = "cancelled" /\ r.payer = charge[c].payer
    BY <1>1, <1>4 DEF ChargeRow
  <2> HIDE DEF r
  <2> QED
    BY <1>1, <1>2, <1>7, <2>1, <2>2, UnpaidInv DEF CancelCharge
<1>8. ASSUME call.does = "pay", PayCharge(c, call.person) PROVE PayIInv'
  BY <1>1, <1>2, <1>8, PayInvStep
<1>9. CASE RefundCharge(c)
  BY <1>1, <1>2, <1>9, RefundInvStep
<1> QED
  BY <1>1, <1>3, <1>5, <1>6, <1>7, <1>8, <1>9

\* A grant of test Vibes.
LEMMA GrantInv ==
    ASSUME PayIInv, NEW g \in Grants, SandboxGrant(g[1], g[2], g[3])
    PROVE  PayIInv'
<1>1. g[1] \in Apps /\ g[2] \in Persons /\ g[3] \in Int
  BY VibesPayAssumption
<1>2. balance' = [balance EXCEPT ![Issuer] = @ - g[3], ![Pocket(g[1], g[2])] = @ + g[3]]
  BY DEF SandboxGrant
<1>3. UNCHANGED <<charge, calls, frozen, clock, deliveryVars>>
  BY DEF SandboxGrant
<1>4. balance' \in [Accounts -> Int] /\ SandboxApart'
  BY <1>1, <1>2, AccountsKnown, SandboxGranted DEF PayIInv
<1>5. OutboxInv' /\ PayersKnown' /\ CallsNamed' /\ DailyLimitKept'
  BY <1>3, OutboxUnchanged DEF PayIInv, PayersKnown, CallsNamed, DailyLimitKept
<1> QED
  BY <1>3, <1>4, <1>5 DEF PayIInv

\* A cashout of what an app was paid.
LEMMA CashOutInv ==
    ASSUME PayIInv, NEW app \in Apps, CashOut(app)
    PROVE  PayIInv'
<1> DEFINE n == balance[Wallet(app)]
<1>1. Wallet(app) \in RealAccounts /\ Pending \in RealAccounts /\ Wallet(app) # Pending
  BY AccountsKnown
<1>2. n \in Int /\ balance \in [Accounts -> Int] /\ Wallet(app) \in Accounts
  BY <1>1, AccountsApart DEF PayIInv
<1>3. balance' = [balance EXCEPT ![Wallet(app)] = @ - n, ![Pending] = @ + n]
  <2>1. balance' = [balance EXCEPT ![Wallet(app)] = 0, ![Pending] = @ + n]
    BY DEF CashOut
  <2>2. n - n = 0
    BY <1>2
  <2> QED
    BY <2>1, <2>2
<1> HIDE DEF n
<1>4. balance' \in [Accounts -> Int] /\ SandboxApart'
  BY <1>1, <1>2, <1>3, SandboxMove DEF PayIInv
<1>5. UNCHANGED <<charge, calls, frozen, clock, deliveryVars>>
  BY DEF CashOut
<1>6. OutboxInv' /\ PayersKnown' /\ CallsNamed' /\ DailyLimitKept'
  BY <1>5, OutboxUnchanged DEF PayIInv, PayersKnown, CallsNamed, DailyLimitKept
<1> QED
  BY <1>4, <1>5, <1>6 DEF PayIInv

\* The clock moves on.
LEMMA TickInv == ASSUME PayIInv, Tick PROVE PayIInv'
<1>1. clock' = clock + 1 /\ clock' \in 0..MaxTime /\ clock \in Nat
  BY VibesPayAssumption DEF Tick, PayIInv
<1>2. UNCHANGED <<charge, balance, calls, frozen, deliveryVars>>
  BY DEF Tick
<1>3. \A p \in Persons : RealPaid(p)' \subseteq RealPaid(p)
  <2> SUFFICES ASSUME NEW p \in Persons, NEW c \in Charges, charge[c].paidAt > clock' - Day
               PROVE  charge[c].paidAt > clock - Day
    BY <1>2 DEF RealPaid
  <2>1. charge[c].paidAt \in Nat /\ Day \in Nat
    BY VibesPayAssumption DEF PayIInv, ChargeRow
  <2> QED
    BY <1>1, <2>1
<1>4. DailyLimitKept'
  BY <1>3, LimitKeptByFewer DEF PayIInv
<1>5. OutboxInv' /\ PayersKnown' /\ CallsNamed' /\ SandboxApart'
  BY <1>2, OutboxUnchanged, SandboxUnchanged DEF PayIInv, PayersKnown, CallsNamed
<1> QED
  BY <1>1, <1>2, <1>4, <1>5 DEF PayIInv

\* Nothing is moved, nothing is asked, paid or closed.
LEMMA QuietInv ==
    ASSUME PayIInv, UNCHANGED <<charge, balance, clock>>, calls' \subseteq Call, CallsNamed', frozen' \in BOOLEAN,
           OutboxInv'
    PROVE  PayIInv'
<1>1. PayersKnown' /\ DailyLimitKept' /\ SandboxApart'
  BY SandboxUnchanged DEF PayIInv, PayersKnown, DailyLimitKept
<1> QED
  BY <1>1 DEF PayIInv

\* A call arrives.
LEMMA ArriveInv ==
    ASSUME PayIInv, NEW call \in Call, call.does = "pay" => call.person \in Persons, Arrive(call)
    PROVE  PayIInv'
<1>1. OutboxInv' /\ UNCHANGED <<charge, balance, clock, frozen>> /\ calls' = calls \cup {call}
  BY OutboxUnchanged DEF Arrive, PayIInv
<1>2. calls' \subseteq Call /\ CallsNamed' /\ frozen' \in BOOLEAN
  BY <1>1 DEF PayIInv, CallsNamed
<1> QED
  BY <1>1, <1>2, QuietInv

\* Every step of Vibes Pay keeps the invariant.
LEMMA PayNextInv == ASSUME PayIInv, PayNext PROVE PayIInv'
<1>1. ASSUME NEW c \in Charges, NEW does \in {"create", "cancel", "refund"},
             Arrive([does |-> does, charge |-> c, person |-> None])
      PROVE  PayIInv'
  BY <1>1, ArriveInv DEF Call
<1>2. ASSUME NEW c \in Charges, NEW p \in Persons, Arrive([does |-> "pay", charge |-> c, person |-> p])
      PROVE  PayIInv'
  BY <1>2, ArriveInv DEF Call
<1>3. ASSUME NEW call \in calls, Refuse(call) PROVE PayIInv'
  <2>1. OutboxInv' /\ UNCHANGED <<charge, balance, clock, frozen>> /\ calls' \subseteq calls
    BY <1>3, OutboxUnchanged DEF Refuse, PayIInv
  <2> QED
    BY <2>1, CallsLeft, QuietInv DEF PayIInv
<1>4. CASE SetFreeze
  <2>1. OutboxInv' /\ UNCHANGED <<charge, balance, clock, calls>> /\ frozen' \in BOOLEAN
    BY <1>4, OutboxUnchanged DEF SetFreeze, PayIInv
  <2> QED
    BY <2>1, CallsLeft, QuietInv
<1> QED
  BY <1>1, <1>2, <1>3, <1>4, TransactInv, GrantInv, CashOutInv, TickInv DEF PayNext

\* Every step of the composed system does.
LEMMA NextInv == ASSUME PayIInv, [Next]_vars PROVE PayIInv'
<1>1. CASE PayNext
  BY <1>1, PayNextInv
<1>2. CASE Deliver
  <2>1. OutboxInv' /\ UNCHANGED <<charge, balance, clock, frozen, calls>>
    BY <1>2, DeliveryOutbox DEF Deliver, payVars, PayIInv
  <2> QED
    BY <2>1, CallsLeft, QuietInv DEF PayIInv
<1>3. CASE UNCHANGED vars
  <2>1. OutboxInv' /\ UNCHANGED <<charge, balance, clock, frozen, calls>>
    BY <1>3, OutboxUnchanged DEF vars, deliveryVars, PayIInv
  <2> QED
    BY <2>1, CallsLeft, QuietInv DEF PayIInv
<1> QED
  BY <1>1, <1>2, <1>3 DEF Next

\* The invariant that carries all four results: types, payers, claims of rows, sums of
\* test and real accounts, and the day's limit.
THEOREM PayInvariant == Spec => []PayIInv
<1>1. Init => PayIInv
  BY InitInv
<1>2. PayIInv /\ [Next]_vars => PayIInv'
  BY NextInv
<1> QED
  BY <1>1, <1>2, PTL DEF Spec

\* Whatever is granted, paid and given back: test Vibes stay test Vibes, whose sum is
\* what the issuer granted, and real Vibes neither grow nor shrink by them.
THEOREM TestVibesStayTest == Spec => []PayInv
<1>1. PayIInv => PayInv
  BY DeliveryTypes DEF PayIInv, PayInv, TypeOK
<1> QED
  BY <1>1, PayInvariant, PTL

\* No order of calls, refunds and days lets a person's standing real payments of one
\* day pass the limit, for every limit, price and number of apps.
THEOREM DailyLimitHolds == Spec => []DailyLimitKept
<1>1. PayIInv => DailyLimitKept
  BY DEF PayIInv
<1> QED
  BY <1>1, PayInvariant, PTL

\* What a call's transaction may do to a charge.
DoesTo(c) ==
    \/ CreateCharge(c) \/ Expire(c) \/ CancelCharge(c) \/ RefundCharge(c)
    \/ \E p \in Persons : PayCharge(c, p)

\* A transaction answers, pays or gives back.
LEMMA TransactDoes ==
    ASSUME PayIInv, NEW call \in calls, Transact(call)
    PROVE  \E c \in Charges : DoesTo(c)
<1>1. /\ call.charge \in Charges /\ call.does \in {"create", "pay", "cancel", "refund"}
      /\ call.does = "pay" => call.person \in Persons
  BY DEF PayIInv, Call, CallsNamed
<1>2. DoesTo(call.charge)
  BY <1>1 DEF DoesTo, Transact, Does
<1> QED
  BY <1>1, <1>2

\* A row that is delivered or given up is never written again, however many passes
\* hold a stale read of it.
THEOREM EndedRowsStay == Spec => EndedStays
<1> DEFINE Stays == \A i \in DOMAIN rows : rows[i].status # "queued" =>
                      <<rows'[i].status, rows'[i].attempts>> = <<rows[i].status, rows[i].attempts>>
<1>1. ASSUME PayIInv, [Next]_vars PROVE [Stays]_deliveryVars
  <2>1. CASE UNCHANGED deliveryVars
    BY <2>1
  <2>2. CASE Deliver
    BY <1>1, <2>2, DeliveryKeepsEnded DEF Deliver, PayIInv
  <2>3. ASSUME NEW app, NEW c, NEW event, rows' = Append(rows, Queued(app, c, event)) PROVE Stays
    <3>1. \A i \in DOMAIN rows : rows'[i] = rows[i]
      BY <1>1, <2>3, AppendProperties DEF PayIInv, OutboxInv
    <3> QED
      BY <3>1
  <2>4. CASE PayNext
    <3>1. ASSUME NEW call \in calls, Transact(call) PROVE UNCHANGED deliveryVars \/ Stays
      <4>1. PICK c \in Charges : DoesTo(c)
        BY <1>1, <3>1, TransactDoes
      <4>2. UNCHANGED <<hooked, pass, crashes>>
        BY <3>1 DEF Transact
      <4> QED
        BY <2>3, <4>1, <4>2 DEF DoesTo, CreateCharge, Expire, PayCharge, CancelCharge, RefundCharge, Announce,
           deliveryVars
    <3> QED
      BY <2>1, <2>4, <3>1 DEF PayNext, Arrive, Refuse, SandboxGrant, CashOut, SetFreeze, Tick
  <2> QED
    BY <1>1, <2>1, <2>2, <2>4 DEF Next, vars, deliveryVars
<1> QED
  BY <1>1, PayInvariant, PTL DEF Spec, EndedStays

----------------------------------------------------------------------------
(* The promise.                                                            *)

\* What stands for the promise's variables.
PhaseOf == [c \in Charges |-> Phase(charge[c].status)]
PayerOf == [c \in Charges |-> IF charge[c].payer = None THEN "nobody" ELSE charge[c].payer]
PurseNow == [a \in {b \in Accounts : IsPurse(b)} |-> balance[a]]
TillNow == [a \in {b \in Accounts : IsTill(b)} |-> balance[a]]
ToldSoFar == [i \in DOMAIN rows |-> <<rows[i].charge, rows[i].event>>]

\* The phase and the payer of one charge change.
LEMMA KeptCharge ==
    ASSUME charge \in [Charges -> ChargeRow], NEW c \in Charges, NEW r \in ChargeRow,
           charge' = [charge EXCEPT ![c] = r]
    PROVE  /\ PhaseOf' = [PhaseOf EXCEPT ![c] = Phase(r.status)]
           /\ r.payer = charge[c].payer => PayerOf' = PayerOf
           /\ r.payer \in Persons => PayerOf' = [PayerOf EXCEPT ![c] = r.payer]
           /\ PhaseOf[c] = Phase(charge[c].status)
           /\ charge[c].payer \in Persons => PayerOf[c] = charge[c].payer
  BY VibesPayAssumption DEF PhaseOf, PayerOf

\* One announcement more.
LEMMA KeptTold ==
    ASSUME rows \in Seq(Row), NEW app \in Apps, NEW c \in Charges, NEW event \in {"paid", "refunded"},
           rows' = Append(rows, Queued(app, c, event))
    PROVE  ToldSoFar' = Append(ToldSoFar, <<c, event>>)
<1>1. Queued(app, c, event) \in Row /\ Queued(app, c, event).charge = c /\ Queued(app, c, event).event = event
  BY DeliveryAssumption DEF Queued, Row
<1>2. /\ DOMAIN rows' = 1..Len(rows) + 1 /\ DOMAIN rows = 1..Len(rows) /\ Len(rows) \in Nat
      /\ \A j \in DOMAIN rows : rows'[j] = rows[j]
      /\ rows'[Len(rows) + 1] = Queued(app, c, event)
  BY <1>1, RowQueued
<1>3. ToldSoFar \in Seq(Charges \X {"paid", "refunded"})
  <2>1. \A i \in 1..Len(rows) : rows[i] \in Row
    BY ElementOfSeq
  <2>2. \A i \in 1..Len(rows) : <<rows[i].charge, rows[i].event>> \in Charges \X {"paid", "refunded"}
    BY <2>1 DEF Row
  <2>3. ToldSoFar = [i \in 1..Len(rows) |-> <<rows[i].charge, rows[i].event>>]
    BY <1>2 DEF ToldSoFar
  <2>4. ToldSoFar \in [1..Len(rows) -> Charges \X {"paid", "refunded"}]
    BY <2>2, <2>3
  <2> QED
    BY <1>2, <2>4
<1>4. Len(ToldSoFar) = Len(rows)
  BY <1>2, <1>3 DEF ToldSoFar
<1> QED
  BY <1>1, <1>2, <1>3, <1>4, AppendProperties DEF ToldSoFar

\* Initial states map to initial states.
LEMMA KeptInit == ASSUME Init PROVE Kept!PromiseInit
  BY VibesPayAssumption DEF Init, Kept!PromiseInit, Kept!Nobody, NoCharge, Phase, DeliveryInit, IsPurse, IsTill

\* Nothing of the promise changes when charges, balances and the announcements stay.
LEMMA KeptStutters ==
    ASSUME UNCHANGED <<charge, balance>>, DOMAIN rows' = DOMAIN rows,
           \A i \in DOMAIN rows : rows'[i].charge = rows[i].charge /\ rows'[i].event = rows[i].event
    PROVE  UNCHANGED Kept!promiseVars
  BY DEF Kept!promiseVars

\* The phases of a mapped charge.
LEMMA Phases ==
    /\ Phase("none") = "none" /\ Phase("pending") = "open"
    /\ Phase("paid") = "paid" /\ Phase("refunded") = "refunded"
    /\ Phase("expired") = "closed" /\ Phase("cancelled") = "closed"
  BY DEF Phase

\* A transaction does one thing the promise allows, or nothing of it.
LEMMA KeptTransact ==
    ASSUME PayIInv, NEW c \in Charges, DoesTo(c)
    PROVE  Kept!PromiseNext
<1>1. charge \in [Charges -> ChargeRow] /\ clock \in Nat /\ balance \in [Accounts -> Int] /\ rows \in Seq(Row)
  BY VibesPayAssumption DEF PayIInv, OutboxInv
<1>2. charge[c] \in ChargeRow /\ Asks[c].app \in Apps /\ Asks[c].amount \in Nat
  BY <1>1, VibesPayAssumption
<1>3. CASE CreateCharge(c)
  <2> DEFINE r == [charge[c] EXCEPT !.status = "pending", !.expires = clock + Ttl]
  <2>1. charge[c].status = "none"
    BY <1>3 DEF CreateCharge, NoCharge
  <2>2. charge' = [charge EXCEPT ![c] = r]
    BY <1>1, <1>3 DEF CreateCharge
  <2>3. clock + Ttl \in Nat
    BY <1>1, VibesPayAssumption
  <2>4. r \in ChargeRow /\ r.status = "pending" /\ r.payer = charge[c].payer
    BY <1>2, <2>3 DEF ChargeRow
  <2> HIDE DEF r
  <2>0. /\ PhaseOf' = [PhaseOf EXCEPT ![c] = Phase(r.status)] /\ PhaseOf[c] = Phase(charge[c].status)
        /\ (r.payer = charge[c].payer => PayerOf' = PayerOf)
        /\ (r.payer \in Persons => PayerOf' = [PayerOf EXCEPT ![c] = r.payer])
        /\ (charge[c].payer \in Persons => PayerOf[c] = charge[c].payer)
    BY <1>1, <2>2, <2>4, KeptCharge
  <2>5. PhaseOf' = [PhaseOf EXCEPT ![c] = "open"] /\ PayerOf' = PayerOf /\ PhaseOf[c] = "none"
    BY <2>0, <2>1, <2>2, <2>4, Phases
  <2>6. PurseNow' = PurseNow /\ TillNow' = TillNow /\ ToldSoFar' = ToldSoFar
    BY <1>3 DEF CreateCharge, PurseNow, TillNow, ToldSoFar
  <2>7. Kept!Ask(c)
    BY <2>5, <2>6 DEF Kept!Ask, PhaseOf, PayerOf, PurseNow, TillNow, ToldSoFar
  <2> QED
    BY <2>7 DEF Kept!PromiseNext
<1>4. CASE Expire(c) \/ CancelCharge(c)
  <2> DEFINE status == IF Expire(c) THEN "expired" ELSE "cancelled"
             r == [charge[c] EXCEPT !.status = status]
  <2>1. charge[c].status = "pending"
    BY <1>4 DEF Expire, CancelCharge
  <2>2. charge' = [charge EXCEPT ![c] = r]
    BY <1>1, <1>4 DEF Expire, CancelCharge
  <2>3. status \in {"expired", "cancelled"}
    OBVIOUS
  <2> HIDE DEF status
  <2>4. r \in ChargeRow /\ r.status = status /\ r.payer = charge[c].payer
    BY <1>2, <2>3 DEF ChargeRow
  <2> HIDE DEF r
  <2>0. /\ PhaseOf' = [PhaseOf EXCEPT ![c] = Phase(r.status)] /\ PhaseOf[c] = Phase(charge[c].status)
        /\ (r.payer = charge[c].payer => PayerOf' = PayerOf)
        /\ (r.payer \in Persons => PayerOf' = [PayerOf EXCEPT ![c] = r.payer])
        /\ (charge[c].payer \in Persons => PayerOf[c] = charge[c].payer)
    BY <1>1, <2>2, <2>4, KeptCharge
  <2>5. PhaseOf' = [PhaseOf EXCEPT ![c] = "closed"] /\ PayerOf' = PayerOf /\ PhaseOf[c] = "open"
    BY <2>0, <2>1, <2>2, <2>3, <2>4, Phases
  <2>6. PurseNow' = PurseNow /\ TillNow' = TillNow /\ ToldSoFar' = ToldSoFar
    BY <1>4 DEF Expire, CancelCharge, PurseNow, TillNow, ToldSoFar
  <2>7. Kept!Close(c)
    BY <2>5, <2>6 DEF Kept!Close, PhaseOf, PayerOf, PurseNow, TillNow, ToldSoFar
  <2> QED
    BY <2>7 DEF Kept!PromiseNext
<1>5. ASSUME NEW p \in Persons, PayCharge(c, p) PROVE Kept!PromiseNext
  <2> DEFINE r == [charge[c] EXCEPT !.status = "paid", !.payer = p, !.paidAt = clock]
             b == PayerAccount(c, p)
             t == ProjectAccount(c)
             n == Asks[c].amount
  <2>1. charge[c].status = "pending" /\ charge' = [charge EXCEPT ![c] = r]
    BY <1>1, <1>5 DEF PayCharge, Open
  <2>2. r \in ChargeRow /\ r.status = "paid" /\ r.payer = p
    BY <1>1, <1>2 DEF ChargeRow
  <2> HIDE DEF r
  <2>0. /\ PhaseOf' = [PhaseOf EXCEPT ![c] = Phase(r.status)] /\ PhaseOf[c] = Phase(charge[c].status)
        /\ (r.payer = charge[c].payer => PayerOf' = PayerOf)
        /\ (r.payer \in Persons => PayerOf' = [PayerOf EXCEPT ![c] = r.payer])
        /\ (charge[c].payer \in Persons => PayerOf[c] = charge[c].payer)
    BY <1>1, <2>1, <2>2, KeptCharge
  <2>3. PhaseOf' = [PhaseOf EXCEPT ![c] = "paid"] /\ PayerOf' = [PayerOf EXCEPT ![c] = p] /\ PhaseOf[c] = "open"
    BY <2>0, <2>1, <2>2, Phases
  <2>4. b \in Accounts /\ t \in Accounts /\ IsPurse(b) /\ IsTill(t)
    BY <1>5, ChargeAccounts DEF IsPurse, IsTill
  <2>5. balance' = [balance EXCEPT ![b] = @ - n, ![t] = @ + n] /\ balance[b] >= n
    BY <1>5 DEF PayCharge, Move, Holds
  <2>6. rows' = Append(rows, Queued(Asks[c].app, c, "paid"))
    BY <1>5 DEF PayCharge, Announce
  <2>7. ToldSoFar' = Append(ToldSoFar, <<c, "paid">>)
    BY <1>1, <1>2, <2>6, KeptTold
  <2> HIDE DEF b, t, n
  <2> DEFINE m == -n
  <2>8. n \in Nat /\ m \in Int /\ \A i \in Int : i + m = i - n
    BY <1>2 DEF n
  <2> HIDE DEF m
  <2>9. balance' = [balance EXCEPT ![b] = @ + m, ![t] = @ + n]
    BY <1>1, <2>4, <2>5, <2>8
  <2>10. /\ PurseNow' = [PurseNow EXCEPT ![b] = @ + m] /\ TillNow' = [TillNow EXCEPT ![t] = @ + n]
         /\ PurseNow[b] = balance[b]
    BY <1>1, <2>4, <2>8, <2>9 DEF PurseNow, TillNow, IsPurse, IsTill
  <2>11. PurseNow' = [PurseNow EXCEPT ![b] = @ - n]
    BY <1>1, <2>4, <2>8, <2>10
  <2>12. Kept!Settle(c, p)
    BY <2>3, <2>5, <2>7, <2>10, <2>11 DEF Kept!Settle, PhaseOf, PayerOf, PurseNow, TillNow, ToldSoFar, b, t, n
  <2> QED
    BY <2>12 DEF Kept!PromiseNext
<1>6. CASE RefundCharge(c)
  <2> DEFINE r == [charge[c] EXCEPT !.status = "refunded"]
             p == charge[c].payer
             b == PayerAccount(c, p)
             t == ProjectAccount(c)
             n == Asks[c].amount
  <2>1. charge[c].status = "paid" /\ charge' = [charge EXCEPT ![c] = r] /\ p \in Persons
    BY <1>1, <1>6 DEF RefundCharge, PayIInv, PayersKnown
  <2>2. r \in ChargeRow /\ r.status = "refunded" /\ r.payer = charge[c].payer
    BY <1>1, <1>2 DEF ChargeRow
  <2> HIDE DEF r
  <2>0. /\ PhaseOf' = [PhaseOf EXCEPT ![c] = Phase(r.status)] /\ PhaseOf[c] = Phase(charge[c].status)
        /\ (r.payer = charge[c].payer => PayerOf' = PayerOf)
        /\ (r.payer \in Persons => PayerOf' = [PayerOf EXCEPT ![c] = r.payer])
        /\ (charge[c].payer \in Persons => PayerOf[c] = charge[c].payer)
    BY <1>1, <2>1, <2>2, KeptCharge
  <2>3. PhaseOf' = [PhaseOf EXCEPT ![c] = "refunded"] /\ PayerOf' = PayerOf /\ PhaseOf[c] = "paid" /\ PayerOf[c] = p
    BY <2>0, <2>1, <2>2, Phases
  <2>4. b \in Accounts /\ t \in Accounts /\ IsPurse(b) /\ IsTill(t) /\ b # t
    BY <2>1, ChargeAccounts DEF IsPurse, IsTill
  <2>5. balance' = [balance EXCEPT ![t] = @ - n, ![b] = @ + n] /\ balance[t] >= n
    BY <1>6 DEF RefundCharge, Move, Holds
  <2>6. rows' = Append(rows, Queued(Asks[c].app, c, "refunded"))
    BY <1>6 DEF RefundCharge, Announce
  <2>7. ToldSoFar' = Append(ToldSoFar, <<c, "refunded">>)
    BY <1>1, <1>2, <2>6, KeptTold
  <2> HIDE DEF b, t, n
  <2> DEFINE m == -n
  <2>8. n \in Nat /\ m \in Int /\ \A i \in Int : i + m = i - n
    BY <1>2 DEF n
  <2> HIDE DEF m
  <2>9. balance' = [balance EXCEPT ![b] = @ + n, ![t] = @ + m]
    BY <1>1, <2>4, <2>5, <2>8
  <2>10. /\ PurseNow' = [PurseNow EXCEPT ![b] = @ + n] /\ TillNow' = [TillNow EXCEPT ![t] = @ + m]
         /\ TillNow[t] = balance[t]
    BY <1>1, <2>4, <2>8, <2>9 DEF PurseNow, TillNow, IsPurse, IsTill
  <2>11. TillNow' = [TillNow EXCEPT ![t] = @ - n]
    BY <1>1, <2>4, <2>8, <2>10
  <2>12. Kept!GiveBack(c)
    BY <2>3, <2>5, <2>7, <2>10, <2>11, <2>1
    DEF Kept!GiveBack, PhaseOf, PayerOf, PurseNow, TillNow, ToldSoFar, b, t, n
  <2> QED
    BY <2>12 DEF Kept!PromiseNext
<1> QED
  BY <1>3, <1>4, <1>5, <1>6 DEF DoesTo

\* A grant of test Vibes fills a purse, as the promise allows.
LEMMA KeptGrant ==
    ASSUME PayIInv, NEW g \in Grants, SandboxGrant(g[1], g[2], g[3])
    PROVE  Kept!PromiseNext
<1> DEFINE b == Pocket(g[1], g[2])
           n == g[3]
<1>1. g[1] \in Apps /\ g[2] \in Persons /\ n \in Nat /\ n > 0
  BY VibesPayAssumption
<1>2. balance' = [balance EXCEPT ![Issuer] = @ - n, ![b] = @ + n] /\ UNCHANGED <<charge, rows>>
  BY DEF SandboxGrant, deliveryVars
<1>3. b \in Accounts /\ IsPurse(b) /\ ~IsTill(b) /\ ~IsPurse(Issuer) /\ ~IsTill(Issuer)
  BY <1>1, AccountsKnown, AccountsApart DEF IsPurse, IsTill
<1>4. balance \in [Accounts -> Int]
  BY DEF PayIInv
<1> HIDE DEF b, n
<1>5. PurseNow' = [PurseNow EXCEPT ![b] = balance[b] + n] /\ PurseNow'[b] = balance[b] + n /\ PurseNow[b] = balance[b]
      /\ b \in {a \in Accounts : IsPurse(a)}
  BY <1>1, <1>2, <1>3, <1>4 DEF PurseNow, IsPurse
<1>6. TillNow' = TillNow
  BY <1>2, <1>3, <1>4 DEF TillNow, IsTill
<1>7. PhaseOf' = PhaseOf /\ PayerOf' = PayerOf /\ ToldSoFar' = ToldSoFar
  BY <1>2 DEF PhaseOf, PayerOf, ToldSoFar
<1>8. PurseNow' = [PurseNow EXCEPT ![b] = PurseNow'[b]] /\ PurseNow'[b] > PurseNow[b]
  <2>1. balance[b] \in Int /\ balance[b] + n > balance[b]
    BY <1>1, <1>3, <1>4
  <2> QED
    BY <1>5, <2>1, Zenon
<1>9. Kept!Fill
  BY <1>5, <1>6, <1>7, <1>8 DEF Kept!Fill, PhaseOf, PayerOf, PurseNow, TillNow, ToldSoFar
<1> QED
  BY <1>9 DEF Kept!PromiseNext

\* A cashout empties a till.
LEMMA KeptCashOut ==
    ASSUME PayIInv, NEW app \in Apps, CashOut(app)
    PROVE  Kept!PromiseNext
<1> DEFINE t == Wallet(app)
<1>1. /\ balance' = [balance EXCEPT ![t] = 0, ![Pending] = @ + balance[t]] /\ balance[t] > 0
      /\ UNCHANGED <<charge, rows>>
  BY DEF CashOut, deliveryVars
<1>2. t \in Accounts /\ IsTill(t) /\ ~IsPurse(t) /\ ~IsPurse(Pending) /\ ~IsTill(Pending)
  BY AccountsKnown, AccountsApart DEF IsPurse, IsTill
<1>3. balance \in [Accounts -> Int]
  BY DEF PayIInv
<1> HIDE DEF t
<1>4. /\ TillNow' = [TillNow EXCEPT ![t] = 0] /\ TillNow'[t] = 0 /\ TillNow[t] = balance[t]
      /\ t \in {a \in Accounts : IsTill(a)}
  BY <1>1, <1>2, <1>3 DEF TillNow, IsTill
<1>5. PurseNow' = PurseNow
  BY <1>1, <1>2, <1>3 DEF PurseNow, IsPurse
<1>6. PhaseOf' = PhaseOf /\ PayerOf' = PayerOf /\ ToldSoFar' = ToldSoFar
  BY <1>1 DEF PhaseOf, PayerOf, ToldSoFar
<1>7. TillNow' = [TillNow EXCEPT ![t] = TillNow'[t]] /\ TillNow'[t] \in 0..TillNow[t] - 1
  <2>1. 0 \in 0..balance[t] - 1
    BY <1>1, <1>2, <1>3
  <2> QED
    BY <1>4, <2>1, Zenon
<1>8. Kept!Empty
  BY <1>4, <1>5, <1>6, <1>7 DEF Kept!Empty, PhaseOf, PayerOf, PurseNow, TillNow, ToldSoFar
<1> QED
  BY <1>8 DEF Kept!PromiseNext

\* Every step maps to a step of the promise or a stutter.
LEMMA KeptNext ==
    ASSUME PayIInv, [Next]_vars
    PROVE  [Kept!PromiseNext]_(Kept!promiseVars)
<1>1. CASE PayNext
  <2>1. ASSUME NEW call \in calls, Transact(call) PROVE Kept!PromiseNext
    BY <2>1, TransactDoes, KeptTransact
  <2> QED
    BY <1>1, <2>1, KeptGrant, KeptCashOut, KeptStutters
    DEF PayNext, Arrive, Refuse, SetFreeze, Tick, deliveryVars
<1>2. CASE Deliver
  BY <1>2, DeliveryKeepsTold, KeptStutters DEF Deliver, payVars, PayIInv
<1>3. CASE UNCHANGED vars
  BY <1>3, KeptStutters DEF vars
<1> QED
  BY <1>1, <1>2, <1>3 DEF Next

\* Vibes Pay keeps its promise, whatever number of apps, people and charges, however
\* their calls interleave: a charge is paid once, by one person, from enough Vibes,
\* given back once and whole, and each movement is announced once, in order.
THEOREM ChargePromiseKept == Spec => KeepsChargePromise
<1>1. Init => Kept!PromiseInit
  BY KeptInit
<1>2. PayIInv /\ [Next]_vars => [Kept!PromiseNext]_(Kept!promiseVars)
  BY KeptNext
<1> QED
  BY <1>1, <1>2, PayInvariant, PTL DEF Spec, KeepsChargePromise, Kept!Promise

=============================================================================
