-------------------------- MODULE AlertOutboxProofs --------------------------
(***************************************************************************)
(* Proofs about AlertOutbox, for any number of pods, rows, attempts and    *)
(* faults: what the receiver of the notifications of an incident may see.  *)
(***************************************************************************)
EXTENDS AlertOutbox, TLAPS

-----------------------------------------------------------------------------
(* The inductive invariant. *)

(* The opening is the first row; an acknowledgement or a resolve is queued once the incident is no longer open. *)
RowsStory ==
    /\ incident = "none" => DOMAIN rows = {}
    /\ incident # "none" /\ DOMAIN rows = {} => channel = "deleted"
    /\ \A k \in DOMAIN rows : rows[k].kind = "opened" <=> k = 1
    /\ \A k \in DOMAIN rows :
        rows[k].kind \in {"acknowledged", "resolved"} => incident \in {"acknowledged", "resolved"}

(* A pod works on a row of the table, and what it has heard the receiver accept was accepted. *)
JobSound(i) ==
    /\ job[i].phase = "idle" => job[i] = Idle
    /\ job[i].phase # "idle" => job[i].row \in DOMAIN rows
    /\ job[i].out = "delivered" => got[job[i].row] > 0
    /\ job[i].out # "none" => job[i].phase = "decided"
    /\ job[i].phase = "decided" => job[i].out # "none"

JobsStory == \A i \in Pod : JobSound(i)

(* Unless its claim expired under it, the pod that works on a row holds its claim. *)
ClaimsHeld ==
    \A i \in Pod, k \in DOMAIN rows :
        WorkingOn(i, k) /\ i \notin late => ClaimedBy(i, k) /\ rows[k].live = TRUE

(* A row that has been taken up: accepted, claimed, worked on or finished. *)
Touched(k) == got[k] > 0 \/ rows[k].status # "pending" \/ \E i \in Pod : WorkingOn(i, k)

(* Rows are taken up in the order of seq, each when those before it have finished. *)
InOrder ==
    /\ \A k \in 1..MaxRows : k \notin DOMAIN rows => got[k] = 0
    /\ \A j, k \in DOMAIN rows : k < j /\ Touched(j) => ~Unfinished(k)

(* What was accepted and is not lost is delivered, or the holder of the claim is about to say so. *)
AcceptedShown ==
    /\ \A k \in DOMAIN rows : rows[k].status = "delivered" => got[k] > 0
    /\ \A k \in DOMAIN rows : got[k] > lost[k] =>
        \/ rows[k].status \in {"delivered", "pruned"}
        \/ \E i \in Pod : WorkingOn(i, k) /\ Holds(i)

(* The receiver has not got the opening, or the table cannot tell that it has. *)
OpeningUnknown == got[1] = 0 \/ lost[1] > 0 \/ rows[1].status = "pruned"

(* What a pod has read or decided about a row that is not the opening is still good to act on. *)
ReadingHolds(i) ==
    /\ job[i].phase = "loaded" /\ job[i].opened = "delivered" => got[1] > 0
    /\ job[i].phase = "loaded" /\ job[i].row # 1 /\ job[i].opened # "delivered" => OpeningUnknown
    /\ job[i].out = "suppressed" /\ KindOf(job[i]) = "resolved" => OpeningUnknown
    /\ \A j \in DOMAIN rows :
        /\ job[i].phase = "loaded" /\ j < job[i].row
        /\ rows[j].kind \in {"acknowledged", "resolved"}
        => job[i].incident # "open"

ReadingsHold == \A i \in Pod : ReadingHolds(i)

IInv ==
    /\ TypeOK /\ RowsStory /\ JobsStory /\ ClaimsHeld /\ InOrder /\ AcceptedShown /\ ReadingsHold
    /\ OpeningFirst /\ DuplicatesPaidFor /\ RemindersWhileOpen /\ SuppressionExcused

-----------------------------------------------------------------------------
(* Types. *)

LEMMA ValueTypes ==
  /\ Idle \in Delivery
  /\ \A kind \in Kind : NewRow(kind) \in Row
<1>1. 0 \in 0..MaxRows
  BY OutboxAssumption
<1>2. Idle \in Delivery
  BY <1>1 DEF Idle, Delivery, ChannelState, IncidentState
<1> QED
  BY <1>2 DEF NewRow, Row

(* A new row is put at the end of the table, unless the channel is deleted. *)
LEMMA QueueType ==
  ASSUME TypeOK, NEW kind \in Kind, Queue(kind)
  PROVE  /\ rows' \in Seq(Row) /\ Len(rows') <= MaxRows
         /\ \A k \in DOMAIN rows' : rows'[k].by \in Pod <=> rows'[k].status = "sending"
<1>1. CASE channel = "deleted"
  BY <1>1 DEF TypeOK, Queue
<1>2. CASE channel # "deleted"
  <2>1. rows' = Append(rows, NewRow(kind)) /\ Len(rows) < MaxRows /\ Len(rows) \in Nat
    BY <1>2 DEF Queue, TypeOK
  <2>2. NewRow(kind) \in Row
    BY ValueTypes
  <2>3. rows' \in Seq(Row) /\ Len(rows') = Len(rows) + 1
    BY <2>1, <2>2 DEF TypeOK
  <2>4. NewRow(kind).by \notin Pod /\ NewRow(kind).status # "sending"
    BY OutboxAssumption DEF NewRow
  <2>5. \A k \in DOMAIN rows' : rows'[k] = IF k = Len(rows) + 1 THEN NewRow(kind) ELSE rows[k]
    BY <2>1, <2>2 DEF TypeOK
  <2>6. MaxRows \in Nat /\ DOMAIN rows' = 1..(Len(rows) + 1) /\ DOMAIN rows = 1..Len(rows)
    BY <2>1, <2>3, OutboxAssumption DEF TypeOK
  <2>7. Len(rows') <= MaxRows
    BY <2>1, <2>3, <2>6
  <2>8. \A k \in DOMAIN rows : rows[k].by \in Pod <=> rows[k].status = "sending"
    BY DEF TypeOK
  <2>9. \A k \in DOMAIN rows' : k = Len(rows) + 1 \/ k \in DOMAIN rows
    BY <2>1, <2>6
  <2> QED
    BY <2>3, <2>4, <2>5, <2>7, <2>8, <2>9
<1> QED
  BY <1>1, <1>2

(* Rows are numbered from 1. *)
LEMMA RowNumbers ==
  ASSUME TypeOK
  PROVE  \A k \in DOMAIN rows : k \in 1..MaxRows /\ 1 \in DOMAIN rows
BY OutboxAssumption DEF TypeOK

(* Every row is replaced by another one. *)
LEMMA TableType ==
  ASSUME TypeOK, rows' \in [DOMAIN rows -> Row],
         \A k \in DOMAIN rows : rows'[k].by \in Pod <=> rows'[k].status = "sending"
  PROVE  /\ rows' \in Seq(Row) /\ Len(rows') <= MaxRows
         /\ \A j \in DOMAIN rows' : rows'[j].by \in Pod <=> rows'[j].status = "sending"
<1>1. DOMAIN rows = 1..Len(rows) /\ Len(rows) \in Nat
  BY DEF TypeOK
<1>2. rows' \in Seq(Row) /\ Len(rows') = Len(rows)
  BY <1>1
<1> QED
  BY <1>2 DEF TypeOK

(* What Spend leaves. *)
LEMMA SpendType ==
  ASSUME TypeOK, NEW f, Spend(f)
  PROVE  faults' \in 0..MaxFaults
BY OutboxAssumption DEF TypeOK, Spend

(* A delivery is replaced by another one. *)
LEMMA JobType ==
  ASSUME TypeOK, NEW i \in Pod, NEW d \in Delivery, job' = [job EXCEPT ![i] = d]
  PROVE  job' \in [Pod -> Delivery]
BY DEF TypeOK

(* An outcome is a delivery. *)
LEMMA OutcomeType ==
  ASSUME NEW d \in Delivery, NEW out \in {"pending"} \cup Final
  PROVE  /\ Outcome(d, out) \in Delivery
         /\ Outcome(d, out).phase = "decided" /\ Outcome(d, out).row = d.row
         /\ Outcome(d, out).out = out
BY ValueTypes DEF Outcome, Delivery, Idle

LEMMA OutcomeMuted ==
  ASSUME NEW d \in Delivery, NEW out \in {"pending"} \cup Final
  PROVE  LET o == [Outcome(d, out) EXCEPT !.muted = TRUE] IN
         o \in Delivery /\ o.phase = "decided" /\ o.row = d.row /\ o.out = out
<1> DEFINE o == Outcome(d, out)
<1>1. /\ o \in Delivery /\ o.phase = "decided" /\ o.row = d.row /\ o.out = out
  BY OutcomeType
<1> HIDE DEF o
<1>2. LET q == [o EXCEPT !.muted = TRUE] IN
      q \in Delivery /\ q.phase = "decided" /\ q.row = d.row /\ q.out = out
  BY <1>1 DEF Delivery
<1> QED
  BY <1>2 DEF o

(* What Lose leaves. *)
Loses(k, gone) ==
    /\ lost' \in [1..MaxRows -> Nat]
    /\ \A j \in 1..MaxRows : lost'[j] = IF j = k /\ gone THEN lost[j] + 1 ELSE lost[j]

LEMMA LoseType ==
  ASSUME TypeOK, NEW k, NEW gone \in BOOLEAN, Lose(k, gone)
  PROVE  Loses(k, gone)
<1>1. lost \in [1..MaxRows -> Nat]
  BY DEF TypeOK
<1>2. CASE gone = TRUE /\ k \in 1..MaxRows
  <2>1. lost' = [lost EXCEPT ![k] = lost[k] + 1] /\ lost[k] + 1 \in Nat
    BY <1>1, <1>2 DEF Lose
  <2> QED
    BY <1>1, <1>2, <2>1 DEF Loses
<1>3. CASE gone = TRUE /\ k \notin 1..MaxRows
  <2>1. lost' = lost
    BY <1>1, <1>3 DEF Lose
  <2> QED
    BY <1>1, <1>3, <2>1 DEF Loses
<1>4. CASE gone = FALSE
  BY <1>1, <1>4 DEF Lose, Loses
<1> QED
  BY <1>2, <1>3, <1>4

(* A row that is put back is a row like before, pending and nobody's. *)
LEMMA RequeuedType ==
  ASSUME NEW row \in Row
  PROVE  /\ Requeued(row) \in Row /\ Requeued(row).kind = row.kind
         /\ Requeued(row).status = "pending" /\ Requeued(row).by = NoPod
BY DEF Row, Requeued

(* A row is pruned. *)
LEMMA PrunedType ==
  ASSUME NEW row \in Row
  PROVE  LET r == [row EXCEPT !.status = "pruned"] IN
         r \in Row /\ r.kind = row.kind /\ r.status = "pruned" /\ r.by = row.by
BY DEF Row

(* A row with its outcome. *)
LEMMA RecordedType ==
  ASSUME NEW row \in Row, NEW d \in Delivery, d.out # "none"
  PROVE  /\ Recorded(row, d) \in Row /\ Recorded(row, d).kind = row.kind
         /\ Recorded(row, d).status = d.out /\ Recorded(row, d).by = NoPod
<1>1. d.out \in {"pending"} \cup Final /\ d.muted \in BOOLEAN /\ row.kind \in Kind
  BY DEF Delivery, Row
<1>2. CASE d.out = "pending"
  BY <1>1, <1>2 DEF Recorded, Requeued, Row
<1>3. CASE d.out # "pending"
  BY <1>1, <1>3 DEF Recorded, NewRow, Row
<1> QED
  BY <1>2, <1>3

(***************************************************************************)
(* The actions, as the other proofs use them: which part of the state each *)
(* of them touches.                                                        *)
(***************************************************************************)

(* Nothing that the receiver's view depends on changes, but a deleted channel stays deleted. *)
Quiet ==
    /\ UNCHANGED <<incident, rows, job, got, lost, late>>
    /\ channel' \in ChannelState /\ (channel = "deleted" => channel' = "deleted")
    /\ proc' \in [Pod -> {"down", "up", "leaving"}] /\ faults' \in 0..MaxFaults

LEMMA QuietEffect ==
  ASSUME TypeOK,
         \/ UNCHANGED vars
         \/ \E c \in ChannelState : UpdateChannel(c)
         \/ \E i \in Pod : Start(i) \/ Stop(i) \/ Exit(i)
  PROVE  Quiet
<1>1. faults' \in 0..MaxFaults
  BY SpendType DEF UpdateChannel, Start, Stop, Exit, vars, TypeOK
<1> QED
  BY <1>1 DEF Quiet, TypeOK, UpdateChannel, Start, Stop, Exit, vars, history

(* The old rows stay, and at most one is added. *)
LEMMA QueueEffect ==
  ASSUME TypeOK, NEW kind \in Kind, Queue(kind)
  PROVE  /\ \A k \in DOMAIN rows : k \in DOMAIN rows' /\ rows'[k] = rows[k]
         /\ channel = "deleted" => rows' = rows
         /\ channel # "deleted" => DOMAIN rows' # {}
         /\ \A k \in DOMAIN rows' : k \notin DOMAIN rows =>
              /\ k = Len(rows) + 1 /\ k \in 1..MaxRows
              /\ rows'[k].kind = kind /\ rows'[k].status = "pending"
<1>1. CASE channel = "deleted"
  BY <1>1 DEF Queue
<1>2. CASE channel # "deleted"
  <2>1. /\ rows' = Append(rows, NewRow(kind)) /\ Len(rows) < MaxRows /\ Len(rows) \in Nat
        /\ DOMAIN rows = 1..Len(rows)
    BY <1>2 DEF Queue, TypeOK
  <2>2. NewRow(kind) \in Row /\ NewRow(kind).kind = kind /\ NewRow(kind).status = "pending"
    BY ValueTypes DEF NewRow
  <2>3. DOMAIN rows' = 1..(Len(rows) + 1)
    BY <2>1, <2>2 DEF TypeOK
  <2>4. \A k \in DOMAIN rows' : rows'[k] = IF k = Len(rows) + 1 THEN NewRow(kind) ELSE rows[k]
    BY <2>1, <2>2 DEF TypeOK
  <2>5. DOMAIN rows' # {}
    BY <2>1, <2>3
  <2>6. \A k \in DOMAIN rows : k \in DOMAIN rows' /\ rows'[k] = rows[k]
    BY <2>1, <2>3, <2>4
  <2>7. \A k \in DOMAIN rows' : k \notin DOMAIN rows =>
          k = Len(rows) + 1 /\ k \in 1..MaxRows /\ rows'[k] = NewRow(kind)
    BY <2>1, <2>3, <2>4, OutboxAssumption
  <2> QED
    BY <1>2, <2>2, <2>5, <2>6, <2>7
<1> QED
  BY <1>1, <1>2

(* Only the time of a row changes. *)
ComesDue(k) ==
    /\ UNCHANGED <<incident, channel, proc, job, faults, got, lost, late>>
    /\ rows' \in [DOMAIN rows -> Row]
    /\ \A j \in DOMAIN rows : /\ rows'[j].kind = rows[j].kind /\ rows'[j].status = rows[j].status
                              /\ rows'[j].by = rows[j].by /\ rows'[j].live = rows[j].live

LEMMA ComeDueEffect ==
  ASSUME TypeOK, NEW k \in DOMAIN rows, ComeDue(k)
  PROVE  ComesDue(k)
<1>1. \A j \in DOMAIN rows : rows[j] \in Row
  BY DEF TypeOK
<1> DEFINE r == [rows[k] EXCEPT !.due = TRUE]
<1>2. /\ r \in Row /\ r.kind = rows[k].kind /\ r.status = rows[k].status
      /\ r.by = rows[k].by /\ r.live = rows[k].live
  BY <1>1 DEF Row
<1>3. rows' = [rows EXCEPT ![k] = r]
  BY DEF ComeDue
<1> HIDE DEF r
<1> QED
  BY <1>1, <1>2, <1>3 DEF ComesDue, ComeDue, history, TypeOK

(* A claim ends; if its pod is still at work, it is late from now on. *)
Expires(k) ==
    /\ UNCHANGED <<incident, channel, proc, job, got>>
    /\ rows[k].status = "sending" /\ rows[k].by \in Pod
    /\ rows' \in [DOMAIN rows -> Row]
    /\ \A j \in DOMAIN rows : /\ rows'[j].kind = rows[j].kind /\ rows'[j].status = rows[j].status
                              /\ rows'[j].by = rows[j].by
                              /\ j # k => rows'[j].live = rows[j].live
    /\ late' = IF WorkingOn(rows[k].by, k) THEN late \cup {rows[k].by} ELSE late
    /\ Loses(k, WorkingOn(rows[k].by, k) /\ Holds(rows[k].by))
    /\ faults' \in 0..MaxFaults

LEMMA ExpiresEffect ==
  ASSUME TypeOK, NEW k \in DOMAIN rows, ClaimExpires(k)
  PROVE  Expires(k)
<1>1. \A j \in DOMAIN rows : rows[j] \in Row
  BY DEF TypeOK
<1> DEFINE r == [rows[k] EXCEPT !.live = FALSE]
<1>2. /\ r \in Row /\ r.kind = rows[k].kind /\ r.status = rows[k].status /\ r.by = rows[k].by
  BY <1>1 DEF Row
<1>6. rows' = [rows EXCEPT ![k] = r]
  BY DEF ClaimExpires
<1> HIDE DEF r
<1>3. rows[k].status = "sending" /\ rows[k].by \in Pod
  BY DEF ClaimExpires, TypeOK
<1>4. faults' \in 0..MaxFaults
  BY SpendType DEF ClaimExpires, TypeOK
<1>5. /\ rows' \in [DOMAIN rows -> Row]
      /\ \A j \in DOMAIN rows : /\ rows'[j].kind = rows[j].kind /\ rows'[j].status = rows[j].status
                                /\ rows'[j].by = rows[j].by
                                /\ j # k => rows'[j].live = rows[j].live
  BY <1>1, <1>2, <1>6 DEF TypeOK
<1>7. Loses(k, WorkingOn(rows[k].by, k) /\ Holds(rows[k].by))
  <2>1. CASE WorkingOn(rows[k].by, k)
    <3>1. Lose(k, Holds(rows[k].by)) /\ Holds(rows[k].by) \in BOOLEAN
      BY <2>1 DEF ClaimExpires, Holds
    <3>2. Loses(k, Holds(rows[k].by))
      BY <3>1, LoseType
    <3> QED
      BY <2>1, <3>2 DEF Loses
  <2>2. CASE ~WorkingOn(rows[k].by, k)
    BY <2>2 DEF ClaimExpires, Loses, TypeOK
  <2> QED
    BY <2>1, <2>2
<1>8. late' = IF WorkingOn(rows[k].by, k) THEN late \cup {rows[k].by} ELSE late
  BY DEF ClaimExpires
<1> QED
  BY <1>3, <1>4, <1>5, <1>7, <1>8 DEF Expires, ClaimExpires

(* The rows whose claim has ended are put back. *)
Requeues ==
    /\ UNCHANGED <<incident, channel, proc, job, faults, got, lost, late>>
    /\ rows' \in [DOMAIN rows -> Row]
    /\ \A j \in DOMAIN rows :
         /\ rows'[j].kind = rows[j].kind
         /\ Expired(j) => rows'[j].status = "pending" /\ rows'[j].by = NoPod
         /\ ~Expired(j) => rows'[j] = rows[j]

LEMMA RequeueEffect ==
  ASSUME TypeOK, NEW i \in Pod, RequeueExpired(i)
  PROVE  Requeues
<1>1. \A j \in DOMAIN rows : rows[j] \in Row
  BY DEF TypeOK
<1>2. rows' = [k \in DOMAIN rows |-> IF Expired(k) THEN Requeued(rows[k]) ELSE rows[k]]
  BY DEF RequeueExpired
<1> QED
  BY <1>1, <1>2, RequeuedType DEF Requeues, RequeueExpired, history

(* The oldest rows, all finished, are gone. *)
Prunes(n) ==
    /\ UNCHANGED <<incident, channel, proc, job, got, lost, late>>
    /\ faults' \in 0..MaxFaults
    /\ rows' \in [DOMAIN rows -> Row]
    /\ \A j \in DOMAIN rows :
         /\ rows'[j].kind = rows[j].kind /\ rows'[j].by = rows[j].by
         /\ j <= n => ~Unfinished(j) /\ rows'[j].status = "pruned"
         /\ ~(j <= n) => rows'[j] = rows[j]

LEMMA PruneEffect ==
  ASSUME TypeOK, NEW i \in Pod, NEW n \in DOMAIN rows, Prune(i, n)
  PROVE  Prunes(n)
<1>1. \A j \in DOMAIN rows : rows[j] \in Row
  BY DEF TypeOK
<1>2. rows' = [k \in DOMAIN rows |-> IF k <= n THEN [rows[k] EXCEPT !.status = "pruned"] ELSE rows[k]]
  BY DEF Prune
<1>3. \A j \in DOMAIN rows : j <= n => ~Unfinished(j)
  BY DEF Prune, TypeOK
<1>4. faults' \in 0..MaxFaults
  BY SpendType DEF Prune
<1> QED
  BY <1>1, <1>2, <1>3, <1>4, PrunedType DEF Prunes, Prune, history

(* A pod takes up a row that nothing older holds back. *)
Claims(i, k) ==
    /\ UNCHANGED <<incident, channel, proc, faults, got, lost, late>>
    /\ job[i] = Idle
    /\ rows[k].status = "pending"
    /\ \A j \in DOMAIN rows : j < k => ~Unfinished(j)
    /\ rows' \in [DOMAIN rows -> Row]
    /\ \A j \in DOMAIN rows : rows'[j].kind = rows[j].kind /\ (j # k => rows'[j] = rows[j])
    /\ rows'[k].status = "sending" /\ rows'[k].by = i /\ rows'[k].live = TRUE
    /\ job' \in [Pod -> Delivery]
    /\ \A j \in Pod : j # i => job'[j] = job[j]
    /\ job'[i].phase = "claimed" /\ job'[i].row = k /\ job'[i].out = "none"

LEMMA ClaimEffect ==
  ASSUME TypeOK, NEW i \in Pod, NEW k \in DOMAIN rows, ClaimDeliveries(i, k)
  PROVE  Claims(i, k)
<1>1. \A j \in DOMAIN rows : rows[j] \in Row
  BY DEF TypeOK
<1> DEFINE r == [rows[k] EXCEPT !.status = "sending", !.by = i, !.live = TRUE, !.attempts = @ + 1]
<1>2. /\ r \in Row /\ r.kind = rows[k].kind /\ r.status = "sending" /\ r.by = i /\ r.live = TRUE
  <2>1. rows[k] \in Row /\ rows[k].attempts + 1 \in Nat
    BY <1>1 DEF Row
  <2> QED
    BY <2>1 DEF Row
<1>9. rows' = [rows EXCEPT ![k] = r]
  BY DEF ClaimDeliveries
<1> HIDE DEF r
<1>3. \A j \in DOMAIN rows : j < k => ~Unfinished(j)
  BY DEF ClaimDeliveries, Claimable, Blocks, TypeOK
<1>4. /\ rows' \in [DOMAIN rows -> Row]
      /\ \A j \in DOMAIN rows : rows'[j].kind = rows[j].kind /\ (j # k => rows'[j] = rows[j])
      /\ rows'[k].status = "sending" /\ rows'[k].by = i /\ rows'[k].live = TRUE
  BY <1>1, <1>2, <1>9 DEF TypeOK
<1> DEFINE d == [Idle EXCEPT !.phase = "claimed", !.row = k,
                             !.attempts = rows[k].attempts + 1, !.muted = rows[k].muted]
<1>5. k \in 0..MaxRows /\ rows[k].attempts + 1 \in Nat /\ rows[k].muted \in BOOLEAN
  BY <1>1, OutboxAssumption DEF Row, TypeOK
<1>6. d \in Delivery /\ d.phase = "claimed" /\ d.row = k /\ d.out = "none"
  BY <1>5, ValueTypes DEF Delivery, Idle
<1>7. job' = [job EXCEPT ![i] = d]
  BY DEF ClaimDeliveries
<1> HIDE DEF d
<1>8. /\ job' \in [Pod -> Delivery]
      /\ \A j \in Pod : j # i => job'[j] = job[j]
      /\ job'[i].phase = "claimed" /\ job'[i].row = k /\ job'[i].out = "none"
  BY <1>6, <1>7 DEF TypeOK
<1> QED
  BY <1>3, <1>4, <1>8 DEF Claims, ClaimDeliveries, Claimable, history

(* The opening that OpenedStatus reads is the first row. *)
LEMMA OpenedIsFirst ==
  ASSUME TypeOK, RowsStory
  PROVE  /\ OpenedStatus \in {"none", "pending", "sending"} \cup Final
         /\ OpenedStatus = "delivered" => 1 \in DOMAIN rows /\ rows[1].status = "delivered"
         /\ \A k \in DOMAIN rows : OpenedStatus # "delivered" => rows[1].status # "delivered"
<1> DEFINE opened == {k \in DOMAIN rows : rows[k].kind = "opened" /\ rows[k].status # "pruned"}
<1>1. OpenedStatus = IF opened = {} THEN "none" ELSE rows[CHOOSE k \in opened : TRUE].status
  BY DEF OpenedStatus
<1>2. opened \subseteq {1} /\ opened \subseteq DOMAIN rows
  BY DEF RowsStory
<1>3. \A k \in DOMAIN rows : 1 \in DOMAIN rows /\ rows[k] \in Row
  BY DEF TypeOK
<1>4. CASE opened = {}
  <2>1. 1 \in DOMAIN rows => rows[1].status = "pruned"
    BY <1>4 DEF RowsStory
  <2> QED
    BY <1>1, <1>3, <1>4, <2>1 DEF Final
<1>5. CASE opened # {}
  <2>1. 1 \in opened /\ (CHOOSE k \in opened : TRUE) = 1
    BY <1>2, <1>5
  <2>2. OpenedStatus = rows[1].status /\ rows[1] \in Row /\ rows[1].status # "pruned"
    BY <1>1, <1>3, <1>5, <2>1
  <2> QED
    BY <1>2, <2>1, <2>2 DEF Row
<1> QED
  BY <1>4, <1>5

(* A pod reads the incident and the opening. *)
Loads(i) ==
    /\ UNCHANGED <<incident, channel, rows, proc, faults, got, lost, late>>
    /\ job[i].phase = "claimed"
    /\ job' \in [Pod -> Delivery]
    /\ \A j \in Pod : j # i => job'[j] = job[j]
    /\ job'[i].phase = "loaded" /\ job'[i].row = job[i].row
    /\ job'[i].out = job[i].out
    /\ job'[i].incident = incident /\ job'[i].opened = OpenedStatus

LEMMA LoadEffect ==
  ASSUME TypeOK, RowsStory, NEW i \in Pod, LoadDelivery(i)
  PROVE  Loads(i)
<1> DEFINE d == [job[i] EXCEPT !.phase = "loaded", !.channel = channel, !.incident = incident,
                               !.opened = OpenedStatus]
<1>1. job[i] \in Delivery /\ channel \in ChannelState /\ incident \in IncidentState
  BY DEF TypeOK
<1>2. /\ d \in Delivery /\ d.phase = "loaded" /\ d.row = job[i].row /\ d.out = job[i].out
      /\ d.incident = incident /\ d.opened = OpenedStatus
  <2>1. OpenedStatus \in {"none", "pending", "sending"} \cup Final
    BY OpenedIsFirst
  <2> QED
    BY <1>1, <2>1 DEF Delivery
<1>3. job' = [job EXCEPT ![i] = d]
  BY DEF LoadDelivery
<1> HIDE DEF d
<1>4. job' \in [Pod -> Delivery] /\ job'[i] = d /\ \A j \in Pod : j # i => job'[j] = job[j]
  BY <1>2, <1>3 DEF TypeOK
<1>5. job[i].phase = "claimed" /\ UNCHANGED <<incident, channel, rows, proc, faults, got, lost, late>>
  BY DEF LoadDelivery, history
<1> QED
  BY <1>2, <1>4, <1>5 DEF Loads

(* A delivery is given up: what was delivered and not recorded is lost. *)
Drops(i) ==
    /\ UNCHANGED <<incident, channel, rows, got>>
    /\ proc' \in [Pod -> {"down", "up", "leaving"}] /\ faults' \in 0..MaxFaults
    /\ job' \in [Pod -> Delivery]
    /\ \A j \in Pod : j # i => job'[j] = job[j]
    /\ job'[i] = Idle
    /\ late' = late \ {i}
    /\ Loses(job[i].row, Holds(i))

LEMMA DropEffect ==
  ASSUME TypeOK, JobsStory, NEW i \in Pod, Crash(i) \/ LoadFails(i) \/ FinishFails(i)
  PROVE  Drops(i)
<1>1. job' = [job EXCEPT ![i] = Idle] /\ late' = late \ {i}
  BY DEF Crash, LoadFails, FinishFails, Leave
<1>2. job' \in [Pod -> Delivery] /\ job'[i] = Idle /\ \A j \in Pod : j # i => job'[j] = job[j]
  BY <1>1, ValueTypes DEF TypeOK
<1>3. faults' \in 0..MaxFaults
  BY SpendType DEF Crash, LoadFails, FinishFails, TypeOK
<1>4. Loses(job[i].row, Holds(i))
  <2>1. CASE Crash(i) \/ FinishFails(i)
    <3>1. Lose(job[i].row, Holds(i)) /\ Holds(i) \in BOOLEAN
      BY <2>1 DEF Crash, FinishFails, Holds
    <3> QED
      BY <3>1, LoseType
  <2>2. CASE LoadFails(i)
    <3>1. lost' = lost /\ ~Holds(i)
      BY <2>2 DEF LoadFails, JobsStory, JobSound, Holds
    <3> QED
      BY <3>1 DEF Loses, TypeOK
  <2> QED
    BY <2>1, <2>2
<1>5. UNCHANGED <<incident, channel, rows, got>> /\ proc' \in [Pod -> {"down", "up", "leaving"}]
  BY DEF Crash, LoadFails, FinishFails, TypeOK, history
<1> QED
  BY <1>1, <1>2, <1>3, <1>4, <1>5 DEF Drops

(* A delivery is decided without sending. *)
Decides(i) ==
    /\ UNCHANGED <<incident, channel, rows, proc, got, lost, late>>
    /\ faults' \in 0..MaxFaults
    /\ job[i].phase = "loaded"
    /\ job' \in [Pod -> Delivery]
    /\ \A j \in Pod : j # i => job'[j] = job[j]
    /\ job'[i].phase = "decided" /\ job'[i].row = job[i].row
    /\ job'[i].out \in {"failed", "suppressed", "pending"}
    /\ job'[i].out = "suppressed" /\ KindOf(job[i]) = "resolved" => job[i].opened # "delivered"

LEMMA DecideEffect ==
  ASSUME TypeOK, NEW i \in Pod, Fail(i) \/ Suppress(i) \/ SuppressMuted(i) \/ Mute(i)
  PROVE  Decides(i)
<1>1. job[i] \in Delivery
  BY DEF TypeOK
<1>2. PICK d \in Delivery :
        /\ job' = [job EXCEPT ![i] = d]
        /\ d.phase = "decided" /\ d.row = job[i].row
        /\ d.out \in {"failed", "suppressed", "pending"}
        /\ d.out = "suppressed" /\ KindOf(job[i]) = "resolved" => job[i].opened # "delivered"
  <2>1. CASE Fail(i)
    <3>1. job' = [job EXCEPT ![i] = Outcome(job[i], "failed")]
      BY <2>1 DEF Fail, Decide
    <3>2. "failed" \in {"pending"} \cup Final
      BY DEF Final
    <3> QED
      BY <1>1, <3>1, <3>2, OutcomeType
  <2>2. CASE Suppress(i)
    <3>1. job' = [job EXCEPT ![i] = Outcome(job[i], "suppressed")]
      BY <2>2 DEF Suppress, Decide
    <3>2. "suppressed" \in {"pending"} \cup Final
      BY DEF Final
    <3>3. KindOf(job[i]) = "resolved" => job[i].opened # "delivered"
      BY <2>2 DEF Suppress, Unopened, Outdated
    <3> QED
      BY <1>1, <3>1, <3>2, <3>3, OutcomeType
  <2>3. CASE SuppressMuted(i)
    BY <1>1, <2>3, OutcomeType DEF SuppressMuted, Decide, Final, ResolvedWhileMuted
  <2>4. CASE Mute(i)
    <3> DEFINE d == [Outcome(job[i], "pending") EXCEPT !.muted = TRUE]
    <3>1. /\ d \in Delivery /\ d.phase = "decided" /\ d.row = job[i].row
          /\ d.out = "pending"
      BY <1>1, OutcomeMuted
    <3>2. CASE DroppedByMute(KindOf(job[i]))
      BY <1>1, <2>4, <3>2, OutcomeType DEF Mute, DroppedByMute, Final
    <3>3. CASE ~DroppedByMute(KindOf(job[i]))
      BY <2>4, <3>1, <3>3 DEF Mute
    <3> QED
      BY <3>2, <3>3
  <2> QED
    BY <2>1, <2>2, <2>3, <2>4
<1>3. /\ job' \in [Pod -> Delivery] /\ job'[i] = d
      /\ \A j \in Pod : j # i => job'[j] = job[j]
  BY <1>2 DEF TypeOK
<1>4. faults' \in 0..MaxFaults
  BY SpendType DEF Fail, Suppress, SuppressMuted, Mute, TypeOK
<1>5. job[i].phase = "loaded" /\ UNCHANGED <<incident, channel, rows, proc, got, lost, late>>
  BY DEF Fail, Suppress, SuppressMuted, Mute, Decide, Wanted, history
<1> QED
  BY <1>2, <1>3, <1>4, <1>5 DEF Decides

(* The message is sent: what was accepted counts, and is lost unless the answer arrived in time. *)
Sends(i, accepted, out) ==
    /\ UNCHANGED <<incident, channel, rows, proc, faults, late>>
    /\ job[i].phase = "loaded" /\ job[i].row \in DOMAIN rows /\ job[i].row \in 1..MaxRows
    /\ KindOf(job[i]) # "opened" => job[i].opened = "delivered"
    /\ KindOf(job[i]) = "renotify" => job[i].incident = "open"
    /\ job' \in [Pod -> Delivery]
    /\ \A j \in Pod : j # i => job'[j] = job[j]
    /\ job'[i].phase = "decided" /\ job'[i].row = job[i].row
    /\ job'[i].out = out
    /\ out = "delivered" => accepted
    /\ out # "suppressed"
    /\ got' \in [1..MaxRows -> Nat]
    /\ \A k \in 1..MaxRows : k # job[i].row \/ ~accepted => got'[k] = got[k]
    /\ \A k \in 1..MaxRows : got[k] <= got'[k]
    /\ accepted => got'[job[i].row] = got[job[i].row] + 1
    /\ Loses(job[i].row, accepted /\ (out # "delivered" \/ i \in late))

LEMMA SendEffect ==
  ASSUME TypeOK, JobsStory, NEW i \in Pod, NEW accepted \in BOOLEAN,
         NEW out \in Final \cup {"pending"}, Send(i, accepted, out)
  PROVE  Sends(i, accepted, out)
<1> DEFINE k == job[i].row
           d == Outcome(job[i], out)
<1>1. job[i] \in Delivery /\ job[i].phase = "loaded"
  BY DEF TypeOK, Send, Wanted
<1>2. k \in DOMAIN rows /\ k \in 1..MaxRows
  BY <1>1, RowNumbers DEF JobsStory, JobSound
<1>3. /\ d \in Delivery /\ d.phase = "decided" /\ d.row = k /\ d.out = out
  BY <1>1, OutcomeType
<1>4. job' = [job EXCEPT ![i] = d]
  BY DEF Send, Decide
<1> HIDE DEF d
<1>5. /\ job' \in [Pod -> Delivery] /\ job'[i] = d
      /\ \A j \in Pod : j # i => job'[j] = job[j]
  BY <1>3, <1>4 DEF TypeOK
<1>6. (out = "delivered" => accepted) /\ out # "suppressed"
  BY DEF Send, RetryOrFail
<1>7. /\ got' \in [1..MaxRows -> Nat]
      /\ \A j \in 1..MaxRows : j # k \/ ~accepted => got'[j] = got[j]
      /\ \A j \in 1..MaxRows : got[j] <= got'[j]
      /\ accepted => got'[k] = got[k] + 1
  <2>1. got' = IF accepted THEN [got EXCEPT ![k] = got[k] + 1] ELSE got
    BY DEF Send
  <2>2. got \in [1..MaxRows -> Nat]
    BY DEF TypeOK
  <2> HIDE DEF k
  <2> QED
    BY <1>2, <2>1, <2>2
<1>8. /\ KindOf(job[i]) # "opened" => job[i].opened = "delivered"
      /\ KindOf(job[i]) = "renotify" => job[i].incident = "open"
  BY DEF Send, Wanted, Unopened, Outdated
<1>9. UNCHANGED <<incident, channel, rows, proc, faults, late>>
  BY DEF Send, Decide
<1>10. Loses(k, accepted /\ (out # "delivered" \/ i \in late))
  <2>1. /\ Lose(k, accepted /\ (out # "delivered" \/ i \in late))
        /\ (accepted /\ (out # "delivered" \/ i \in late)) \in BOOLEAN
    BY DEF Send
  <2> QED
    BY <2>1, LoseType
<1> QED
  BY <1>1, <1>2, <1>3, <1>5, <1>6, <1>7, <1>8, <1>9, <1>10 DEF Sends

(* The outcome is recorded if the pod still holds the claim. *)
Finishes(i) ==
    /\ UNCHANGED <<incident, channel, proc, faults, got, lost>>
    /\ late' = late \ {i}
    /\ job[i].phase = "decided" /\ job[i].row \in DOMAIN rows /\ job[i].out \in {"pending"} \cup Final
    /\ job' \in [Pod -> Delivery]
    /\ \A j \in Pod : j # i => job'[j] = job[j]
    /\ job'[i] = Idle
    /\ rows' \in [DOMAIN rows -> Row]
    /\ \A k \in DOMAIN rows : rows'[k].kind = rows[k].kind
    /\ \A k \in DOMAIN rows : k # job[i].row \/ ~ClaimedBy(i, k) => rows'[k] = rows[k]
    /\ LET k == job[i].row IN
       ClaimedBy(i, k) => rows'[k].status = job[i].out /\ rows'[k].by = NoPod

LEMMA FinishEffect ==
  ASSUME TypeOK, JobsStory, NEW i \in Pod, FinishDelivery(i)
  PROVE  Finishes(i)
<1> DEFINE k == job[i].row
           r == Recorded(rows[k], job[i])
<1>1. job[i].phase = "decided" /\ job[i] \in Delivery /\ k \in DOMAIN rows /\ job[i].out # "none"
  BY DEF FinishDelivery, JobsStory, JobSound, TypeOK
<1>8. job[i].out \in {"pending"} \cup Final
  BY <1>1 DEF Delivery
<1>2. \A j \in DOMAIN rows : rows[j] \in Row
  BY DEF TypeOK
<1>3. r \in Row /\ r.kind = rows[k].kind /\ r.status = job[i].out /\ r.by = NoPod
  BY <1>1, <1>2, RecordedType
<1>4. rows' = IF ClaimedBy(i, k) THEN [rows EXCEPT ![k] = r] ELSE rows
  BY DEF FinishDelivery
<1> HIDE DEF r
<1>5. /\ rows' \in [DOMAIN rows -> Row]
      /\ \A j \in DOMAIN rows : rows'[j].kind = rows[j].kind
      /\ \A j \in DOMAIN rows : j # k \/ ~ClaimedBy(i, j) => rows'[j] = rows[j]
      /\ ClaimedBy(i, k) => rows'[k].status = job[i].out /\ rows'[k].by = NoPod
  <2> HIDE DEF k
  <2>1. rows \in [DOMAIN rows -> Row]
    BY DEF TypeOK
  <2>2. k \in DOMAIN rows
    BY <1>1 DEF k
  <2>3. r.status = job[i].out /\ r \in Row /\ r.by = NoPod /\ r.kind = rows[k].kind
    BY <1>3 DEF k
  <2>4. CASE ClaimedBy(i, k)
    BY <1>4, <2>1, <2>2, <2>3, <2>4
  <2>5. CASE ~ClaimedBy(i, k)
    BY <1>4, <2>1, <2>5
  <2> QED
    BY <2>4, <2>5
<1>6. job' = [job EXCEPT ![i] = Idle] /\ late' = late \ {i}
  BY DEF FinishDelivery, Leave
<1>7. job' \in [Pod -> Delivery] /\ job'[i] = Idle /\ \A j \in Pod : j # i => job'[j] = job[j]
  BY <1>6, ValueTypes DEF TypeOK
<1> QED
  BY <1>1, <1>5, <1>6, <1>7, <1>8 DEF Finishes, FinishDelivery

(* The incident moves on and a row of the right kind is queued. *)
Queues ==
    /\ UNCHANGED <<channel, proc, job, faults, got, lost, late>>
    /\ incident' \in IncidentState /\ incident' # "none"
    /\ incident \in {"acknowledged", "resolved"} => incident' \in {"acknowledged", "resolved"}
    /\ rows' \in Seq(Row) /\ Len(rows') <= MaxRows
    /\ \A k \in DOMAIN rows' : rows'[k].by \in Pod <=> rows'[k].status = "sending"
    /\ \A k \in DOMAIN rows : k \in DOMAIN rows' /\ rows'[k] = rows[k]
    /\ DOMAIN rows' = {} => channel = "deleted"
    /\ \A k \in DOMAIN rows' : k \notin DOMAIN rows =>
         /\ k \in 1..MaxRows /\ rows'[k].status = "pending"
         /\ rows'[k].kind = "opened" <=> k = 1
         /\ rows'[k].kind \in {"acknowledged", "resolved"} => incident' \in {"acknowledged", "resolved"}
         /\ \A j \in DOMAIN rows : j < k

LEMMA QueuesEffect ==
  ASSUME TypeOK, RowsStory, OpenIncident \/ AcknowledgeIncident \/ ResolveIncident \/ Remind
  PROVE  Queues
<1>1. PICK kind \in Kind :
        /\ Queue(kind)
        /\ incident' \in IncidentState /\ incident' # "none"
        /\ incident \in {"acknowledged", "resolved"} => incident' \in {"acknowledged", "resolved"}
        /\ kind \in {"acknowledged", "resolved"} => incident' \in {"acknowledged", "resolved"}
        /\ kind = "opened" <=> incident = "none"
  BY DEF OpenIncident, AcknowledgeIncident, ResolveIncident, Remind, Kind, IncidentState, TypeOK
<1>2. UNCHANGED <<channel, proc, job, faults, got, lost, late>>
  BY DEF OpenIncident, AcknowledgeIncident, ResolveIncident, Remind, history
<1>3. /\ rows' \in Seq(Row) /\ Len(rows') <= MaxRows
      /\ \A k \in DOMAIN rows' : rows'[k].by \in Pod <=> rows'[k].status = "sending"
  BY <1>1, QueueType
<1>4. /\ \A k \in DOMAIN rows : k \in DOMAIN rows' /\ rows'[k] = rows[k]
      /\ channel = "deleted" => rows' = rows
      /\ channel # "deleted" => DOMAIN rows' # {}
      /\ \A k \in DOMAIN rows' : k \notin DOMAIN rows =>
           /\ k = Len(rows) + 1 /\ k \in 1..MaxRows
           /\ rows'[k].kind = kind /\ rows'[k].status = "pending"
  BY <1>1, QueueEffect
<1>5. DOMAIN rows = 1..Len(rows) /\ Len(rows) \in Nat /\ (Len(rows) = 0 <=> DOMAIN rows = {})
  BY DEF TypeOK
<1>6. ASSUME NEW k \in DOMAIN rows', k \notin DOMAIN rows
      PROVE  /\ k \in 1..MaxRows /\ rows'[k].status = "pending"
             /\ rows'[k].kind = "opened" <=> k = 1
             /\ rows'[k].kind \in {"acknowledged", "resolved"} => incident' \in {"acknowledged", "resolved"}
             /\ \A j \in DOMAIN rows : j < k
  <2>1. k = Len(rows) + 1 /\ k \in 1..MaxRows /\ rows'[k].kind = kind /\ rows'[k].status = "pending"
    BY <1>4, <1>6
  <2>2. channel # "deleted"
    BY <1>4, <1>6
  <2>3. k = 1 <=> incident = "none"
    BY <1>5, <2>1, <2>2 DEF RowsStory
  <2> QED
    BY <1>1, <1>5, <2>1, <2>3
<1> QED
  BY <1>1, <1>2, <1>3, <1>4, <1>6 DEF Queues

(* The steps by their effect. *)
LEMMA StepCases ==
  ASSUME TypeOK, RowsStory, JobsStory, [Next]_vars
  PROVE  \/ Quiet \/ Queues \/ Requeues
         \/ \E k \in DOMAIN rows : ComesDue(k) \/ Expires(k) \/ Prunes(k)
         \/ \E i \in Pod :
              \/ \E k \in DOMAIN rows : Claims(i, k)
              \/ Loads(i) \/ Drops(i) \/ Decides(i) \/ Finishes(i)
              \/ \E accepted \in BOOLEAN, out \in Final \cup {"pending"} : Sends(i, accepted, out)
<1>1. CASE OpenIncident \/ AcknowledgeIncident \/ ResolveIncident \/ Remind
  BY <1>1, QueuesEffect
<1>2. ASSUME NEW k \in DOMAIN rows, ComeDue(k) \/ ClaimExpires(k)
      PROVE  ComesDue(k) \/ Expires(k)
  BY <1>2, ComeDueEffect, ExpiresEffect
<1>3. ASSUME NEW i \in Pod, RequeueExpired(i)
      PROVE  Requeues
  BY <1>3, RequeueEffect
<1>4. ASSUME NEW i \in Pod, NEW k \in DOMAIN rows, ClaimDeliveries(i, k) \/ Prune(i, k)
      PROVE  Claims(i, k) \/ Prunes(k)
  BY <1>4, ClaimEffect, PruneEffect
<1>5. ASSUME NEW i \in Pod, LoadDelivery(i) \/ FinishDelivery(i)
      PROVE  Loads(i) \/ Finishes(i)
  BY <1>5, LoadEffect, FinishEffect
<1>6. ASSUME NEW i \in Pod, Crash(i) \/ LoadFails(i) \/ FinishFails(i)
      PROVE  Drops(i)
  BY <1>6, DropEffect
<1>7. ASSUME NEW i \in Pod, Fail(i) \/ Suppress(i) \/ SuppressMuted(i) \/ Mute(i)
      PROVE  Decides(i)
  BY <1>7, DecideEffect
<1>8. ASSUME NEW i \in Pod, NEW accepted \in BOOLEAN, NEW out \in Final \cup {"pending"},
             Send(i, accepted, out)
      PROVE  Sends(i, accepted, out)
  BY <1>8, SendEffect
<1>9. CASE \/ UNCHANGED vars
           \/ \E c \in ChannelState : UpdateChannel(c)
           \/ \E i \in Pod : Start(i) \/ Stop(i) \/ Exit(i)
  BY <1>9, QuietEffect
<1> QED
  BY <1>1, <1>2, <1>3, <1>4, <1>5, <1>6, <1>7, <1>8, <1>9 DEF Next, Process

(* The deliveries in hand name rows of the table. *)
LEMMA JobRows ==
  ASSUME TypeOK, JobsStory
  PROVE  \A i \in Pod : job[i].out # "none" => job[i].row \in DOMAIN rows /\ job[i].row \in 1..MaxRows
BY RowNumbers DEF JobsStory, JobSound

(* Every step keeps the types. *)
LEMMA TypeStep ==
  ASSUME TypeOK, RowsStory, JobsStory, [Next]_vars
  PROVE  TypeOK'
<1>1. CASE Quiet
  BY <1>1 DEF Quiet, TypeOK
<1>2. CASE Queues
  BY <1>2 DEF Queues, TypeOK
<1>3. ASSUME NEW k \in DOMAIN rows, ComesDue(k)
      PROVE  TypeOK'
  <2>1. /\ rows' \in [DOMAIN rows -> Row]
        /\ \A j \in DOMAIN rows : rows'[j].by \in Pod <=> rows'[j].status = "sending"
    BY <1>3, OutboxAssumption DEF ComesDue, TypeOK, Unfinished, Expired, ClaimedBy, Final
  <2>2. /\ rows' \in Seq(Row) /\ Len(rows') <= MaxRows
        /\ \A j \in DOMAIN rows' : rows'[j].by \in Pod <=> rows'[j].status = "sending"
    BY <2>1, TableType
  <2> QED
    BY <1>3, <2>2 DEF ComesDue, TypeOK
<1>4. ASSUME NEW k \in DOMAIN rows, Expires(k)
      PROVE  TypeOK'
  <2>1. /\ rows' \in [DOMAIN rows -> Row]
        /\ \A j \in DOMAIN rows : rows'[j].by \in Pod <=> rows'[j].status = "sending"
    BY <1>4, OutboxAssumption DEF Expires, TypeOK, Unfinished, Expired, ClaimedBy, Final
  <2>2. /\ rows' \in Seq(Row) /\ Len(rows') <= MaxRows
        /\ \A j \in DOMAIN rows' : rows'[j].by \in Pod <=> rows'[j].status = "sending"
    BY <2>1, TableType
  <2> QED
    BY <1>4, <2>2, RowNumbers DEF Expires, TypeOK, Loses
<1>5. CASE Requeues
  <2>1. /\ rows' \in [DOMAIN rows -> Row]
        /\ \A j \in DOMAIN rows : rows'[j].by \in Pod <=> rows'[j].status = "sending"
    BY <1>5, OutboxAssumption DEF Requeues, TypeOK, Unfinished, Expired, ClaimedBy, Final
  <2>2. /\ rows' \in Seq(Row) /\ Len(rows') <= MaxRows
        /\ \A j \in DOMAIN rows' : rows'[j].by \in Pod <=> rows'[j].status = "sending"
    BY <2>1, TableType
  <2> QED
    BY <1>5, <2>2 DEF Requeues, TypeOK
<1>6. ASSUME NEW k \in DOMAIN rows, Prunes(k)
      PROVE  TypeOK'
  <2>1. /\ rows' \in [DOMAIN rows -> Row]
        /\ \A j \in DOMAIN rows : rows'[j].by \in Pod <=> rows'[j].status = "sending"
    BY <1>6, OutboxAssumption DEF Prunes, TypeOK, Unfinished, Expired, ClaimedBy, Final
  <2>2. /\ rows' \in Seq(Row) /\ Len(rows') <= MaxRows
        /\ \A j \in DOMAIN rows' : rows'[j].by \in Pod <=> rows'[j].status = "sending"
    BY <2>1, TableType
  <2> QED
    BY <1>6, <2>2 DEF Prunes, TypeOK
<1>7. ASSUME NEW i \in Pod, NEW k \in DOMAIN rows, Claims(i, k)
      PROVE  TypeOK'
  <2>1. /\ rows' \in [DOMAIN rows -> Row]
        /\ \A j \in DOMAIN rows : rows'[j].by \in Pod <=> rows'[j].status = "sending"
    <3>1. \A j \in DOMAIN rows : rows[j].by \in Pod <=> rows[j].status = "sending"
      BY DEF TypeOK
    <3> QED
      BY <1>7, <3>1 DEF Claims
  <2>2. /\ rows' \in Seq(Row) /\ Len(rows') <= MaxRows
        /\ \A j \in DOMAIN rows' : rows'[j].by \in Pod <=> rows'[j].status = "sending"
    BY <2>1, TableType
  <2> QED
    BY <1>7, <2>2 DEF Claims, TypeOK
<1>8. ASSUME NEW i \in Pod, Loads(i)
      PROVE  TypeOK'
  BY <1>8 DEF Loads, TypeOK
<1>9. ASSUME NEW i \in Pod, Drops(i)
      PROVE  TypeOK'
  BY <1>9, JobRows DEF Drops, TypeOK, Loses
<1>10. ASSUME NEW i \in Pod, Decides(i)
      PROVE  TypeOK'
  BY <1>10 DEF Decides, TypeOK
<1>11. ASSUME NEW i \in Pod, NEW accepted \in BOOLEAN, NEW out \in Final \cup {"pending"},
             Sends(i, accepted, out)
      PROVE  TypeOK'
  BY <1>11 DEF Sends, TypeOK, Loses
<1>12. ASSUME NEW i \in Pod, Finishes(i)
      PROVE  TypeOK'
  <2>1. /\ rows' \in [DOMAIN rows -> Row]
        /\ \A j \in DOMAIN rows : rows'[j].by \in Pod <=> rows'[j].status = "sending"
    <3>1. \A j \in DOMAIN rows : rows[j].by \in Pod <=> rows[j].status = "sending"
      BY DEF TypeOK
    <3>2. NoPod \notin Pod /\ job[i].out # "sending"
      BY <1>12, OutboxAssumption DEF Finishes, Final
    <3> QED
      BY <1>12, <3>1, <3>2 DEF Finishes
  <2>2. /\ rows' \in Seq(Row) /\ Len(rows') <= MaxRows
        /\ \A j \in DOMAIN rows' : rows'[j].by \in Pod <=> rows'[j].status = "sending"
    BY <2>1, TableType
  <2> QED
    BY <1>12, <2>2 DEF Finishes, TypeOK
<1> QED
  BY <1>1, <1>2, <1>3, <1>4, <1>5, <1>6, <1>7, <1>8, <1>9, <1>10, <1>11, <1>12, StepCases

(* The opening stays the first row, and what was queued after it tells of the incident. *)
LEMMA RowsStep ==
  ASSUME TypeOK, RowsStory, JobsStory, [Next]_vars
  PROVE  RowsStory'
<1>1. CASE Quiet
  BY <1>1 DEF Quiet, RowsStory
<1>2. CASE Queues
  BY <1>2, RowNumbers DEF Queues, TypeOK, RowsStory, IncidentState
<1>3. ASSUME NEW k \in DOMAIN rows, ComesDue(k)
      PROVE  RowsStory'
  BY <1>3 DEF ComesDue, RowsStory
<1>4. ASSUME NEW k \in DOMAIN rows, Expires(k)
      PROVE  RowsStory'
  BY <1>4 DEF Expires, RowsStory
<1>5. CASE Requeues
  BY <1>5 DEF Requeues, RowsStory
<1>6. ASSUME NEW k \in DOMAIN rows, Prunes(k)
      PROVE  RowsStory'
  BY <1>6 DEF Prunes, RowsStory
<1>7. ASSUME NEW i \in Pod, NEW k \in DOMAIN rows, Claims(i, k)
      PROVE  RowsStory'
  BY <1>7 DEF Claims, RowsStory
<1>8. ASSUME NEW i \in Pod, Loads(i)
      PROVE  RowsStory'
  BY <1>8 DEF Loads, RowsStory
<1>9. ASSUME NEW i \in Pod, Drops(i)
      PROVE  RowsStory'
  BY <1>9 DEF Drops, RowsStory
<1>10. ASSUME NEW i \in Pod, Decides(i)
      PROVE  RowsStory'
  BY <1>10 DEF Decides, RowsStory
<1>11. ASSUME NEW i \in Pod, NEW accepted \in BOOLEAN, NEW out \in Final \cup {"pending"},
             Sends(i, accepted, out)
      PROVE  RowsStory'
  BY <1>11 DEF Sends, RowsStory
<1>12. ASSUME NEW i \in Pod, Finishes(i)
      PROVE  RowsStory'
  BY <1>12 DEF Finishes, RowsStory
<1> QED
  BY <1>1, <1>2, <1>3, <1>4, <1>5, <1>6, <1>7, <1>8, <1>9, <1>10, <1>11, <1>12, StepCases

(* A pod works on a row of the table. *)
LEMMA JobsStep ==
  ASSUME TypeOK, RowsStory, JobsStory, [Next]_vars
  PROVE  JobsStory'
<1>0. \A i \in Pod : JobSound(i)
  BY DEF JobsStory
<1> SUFFICES ASSUME NEW j \in Pod PROVE JobSound(j)'
  BY DEF JobsStory
<1>1. CASE Quiet
  BY <1>1, <1>0 DEF Quiet, JobSound, TypeOK, Idle
<1>2. CASE Queues
  BY <1>2, <1>0 DEF Queues, JobSound, TypeOK, Idle
<1>3. ASSUME NEW k \in DOMAIN rows, ComesDue(k)
      PROVE  JobSound(j)'
  BY <1>3, <1>0 DEF ComesDue, JobSound, TypeOK, Idle
<1>4. ASSUME NEW k \in DOMAIN rows, Expires(k)
      PROVE  JobSound(j)'
  BY <1>4, <1>0 DEF Expires, JobSound, TypeOK, Idle
<1>5. CASE Requeues
  BY <1>5, <1>0 DEF Requeues, JobSound, TypeOK, Idle
<1>6. ASSUME NEW k \in DOMAIN rows, Prunes(k)
      PROVE  JobSound(j)'
  BY <1>6, <1>0 DEF Prunes, JobSound, TypeOK, Idle
<1>7. ASSUME NEW i \in Pod, NEW k \in DOMAIN rows, Claims(i, k)
      PROVE  JobSound(j)'
  <2>1. CASE j = i
    BY <1>7, <2>1 DEF Claims, JobSound
  <2>2. CASE j # i
    BY <1>0, <1>7, <2>2 DEF Claims, JobSound
  <2> QED
    BY <2>1, <2>2
<1>8. ASSUME NEW i \in Pod, Loads(i)
      PROVE  JobSound(j)'
  BY <1>8, <1>0 DEF Loads, JobSound, TypeOK, Idle
<1>9. ASSUME NEW i \in Pod, Drops(i)
      PROVE  JobSound(j)'
  BY <1>9, <1>0 DEF Drops, JobSound, TypeOK, Idle
<1>10. ASSUME NEW i \in Pod, Decides(i)
      PROVE  JobSound(j)'
  BY <1>10, <1>0 DEF Decides, JobSound, TypeOK, Idle
<1>11. ASSUME NEW i \in Pod, NEW accepted \in BOOLEAN, NEW out \in Final \cup {"pending"},
             Sends(i, accepted, out)
      PROVE  JobSound(j)'
  <2>1. CASE j = i
    <3>1. /\ job'[i].phase = "decided" /\ job'[i].row = job[i].row /\ rows' = rows
          /\ job'[i].out = out /\ out # "none" /\ job[i].row \in DOMAIN rows
      BY <1>11 DEF Sends, Final
    <3>2. out = "delivered" => got'[job[i].row] > 0
      <4>1. job[i].row \in 1..MaxRows /\ got[job[i].row] \in Nat
        BY <1>11 DEF Sends, TypeOK
      <4>2. out = "delivered" => got'[job[i].row] = got[job[i].row] + 1
        BY <1>11 DEF Sends
      <4> QED
        BY <4>1, <4>2
    <3> QED
      BY <2>1, <3>1, <3>2 DEF JobSound
  <2>2. CASE j # i
    <3>1. job'[j] = job[j] /\ rows' = rows
      BY <1>11, <2>2 DEF Sends
    <3>2. CASE job[j].out = "delivered"
      <4>1. job[j].row \in 1..MaxRows
        BY <1>0, <3>2, JobRows DEF JobSound
      <4>2. got[job[j].row] <= got'[job[j].row] /\ got[job[j].row] \in Nat /\ got'[job[j].row] \in Nat
        BY <1>11, <4>1 DEF Sends, TypeOK
      <4> QED
        BY <1>0, <3>1, <4>2 DEF JobSound
    <3>3. CASE job[j].out # "delivered"
      BY <1>0, <3>1, <3>3 DEF JobSound
    <3> QED
      BY <3>2, <3>3
  <2> QED
    BY <2>1, <2>2
<1>12. ASSUME NEW i \in Pod, Finishes(i)
      PROVE  JobSound(j)'
  BY <1>12, <1>0 DEF Finishes, JobSound, TypeOK, Idle
<1> QED
  BY <1>1, <1>2, <1>3, <1>4, <1>5, <1>6, <1>7, <1>8, <1>9, <1>10, <1>11, <1>12, StepCases

(***************************************************************************)
(* What happens to a row: it stays, of the same kind; once finished it     *)
(* stays finished, and once pruned it stays pruned.                        *)
(***************************************************************************)
RowsKept ==
    \A k \in DOMAIN rows :
        /\ k \in DOMAIN rows' /\ rows'[k].kind = rows[k].kind
        /\ ~Unfinished(k) => ~(rows'[k].status \in {"pending", "sending"})
        /\ rows[k].status = "pruned" => rows'[k].status = "pruned"

(* Every step keeps the rows. *)
LEMMA RowsKeptStep ==
  ASSUME TypeOK, RowsStory, JobsStory, [Next]_vars
  PROVE  RowsKept
<1>1. CASE Quiet
  BY <1>1 DEF Quiet, RowsKept, TypeOK, Unfinished, Expired, ClaimedBy
<1>2. CASE Queues
  BY <1>2 DEF Queues, RowsKept, TypeOK, Unfinished, Expired, ClaimedBy
<1>3. ASSUME NEW k \in DOMAIN rows, ComesDue(k)
      PROVE  RowsKept
  BY <1>3 DEF ComesDue, RowsKept, TypeOK, Unfinished, Expired, ClaimedBy
<1>4. ASSUME NEW k \in DOMAIN rows, Expires(k)
      PROVE  RowsKept
  BY <1>4 DEF Expires, RowsKept, TypeOK, Unfinished, Expired, ClaimedBy
<1>5. CASE Requeues
  BY <1>5 DEF Requeues, RowsKept, TypeOK, Unfinished, Expired, ClaimedBy
<1>6. ASSUME NEW k \in DOMAIN rows, Prunes(k)
      PROVE  RowsKept
  BY <1>6 DEF Prunes, RowsKept, TypeOK, Unfinished, Expired, ClaimedBy
<1>7. ASSUME NEW i \in Pod, NEW k \in DOMAIN rows, Claims(i, k)
      PROVE  RowsKept
  BY <1>7 DEF Claims, RowsKept, TypeOK, Unfinished, Expired, ClaimedBy
<1>8. ASSUME NEW i \in Pod, Loads(i)
      PROVE  RowsKept
  BY <1>8 DEF Loads, RowsKept, TypeOK, Unfinished, Expired, ClaimedBy
<1>9. ASSUME NEW i \in Pod, Drops(i)
      PROVE  RowsKept
  BY <1>9 DEF Drops, RowsKept, TypeOK, Unfinished, Expired, ClaimedBy
<1>10. ASSUME NEW i \in Pod, Decides(i)
      PROVE  RowsKept
  BY <1>10 DEF Decides, RowsKept, TypeOK, Unfinished, Expired, ClaimedBy
<1>11. ASSUME NEW i \in Pod, NEW accepted \in BOOLEAN, NEW out \in Final \cup {"pending"},
             Sends(i, accepted, out)
      PROVE  RowsKept
  BY <1>11 DEF Sends, RowsKept, TypeOK, Unfinished, Expired, ClaimedBy
<1>12. ASSUME NEW i \in Pod, Finishes(i)
      PROVE  RowsKept
  BY <1>12 DEF Finishes, RowsKept, TypeOK, Unfinished, Expired, ClaimedBy
<1> QED
  BY <1>1, <1>2, <1>3, <1>4, <1>5, <1>6, <1>7, <1>8, <1>9, <1>10, <1>11, <1>12, StepCases

(* What is lost stays lost. *)
LEMMA LostGrows ==
  ASSUME TypeOK, RowsStory, JobsStory, [Next]_vars
  PROVE  \A n \in 1..MaxRows : lost[n] \in Nat /\ lost'[n] \in Nat /\ lost[n] <= lost'[n]
<1>0. \A n \in 1..MaxRows : lost[n] \in Nat
  BY DEF TypeOK
<1>1. CASE Quiet
  BY <1>0, <1>1 DEF Quiet, Loses
<1>2. CASE Queues
  BY <1>0, <1>2 DEF Queues, Loses
<1>3. ASSUME NEW k \in DOMAIN rows, ComesDue(k)
      PROVE  \A n \in 1..MaxRows : lost[n] \in Nat /\ lost'[n] \in Nat /\ lost[n] <= lost'[n]
  BY <1>0, <1>3 DEF ComesDue, Loses
<1>4. ASSUME NEW k \in DOMAIN rows, Expires(k)
      PROVE  \A n \in 1..MaxRows : lost[n] \in Nat /\ lost'[n] \in Nat /\ lost[n] <= lost'[n]
  BY <1>0, <1>4 DEF Expires, Loses
<1>5. CASE Requeues
  BY <1>0, <1>5 DEF Requeues, Loses
<1>6. ASSUME NEW k \in DOMAIN rows, Prunes(k)
      PROVE  \A n \in 1..MaxRows : lost[n] \in Nat /\ lost'[n] \in Nat /\ lost[n] <= lost'[n]
  BY <1>0, <1>6 DEF Prunes, Loses
<1>7. ASSUME NEW i \in Pod, NEW k \in DOMAIN rows, Claims(i, k)
      PROVE  \A n \in 1..MaxRows : lost[n] \in Nat /\ lost'[n] \in Nat /\ lost[n] <= lost'[n]
  BY <1>0, <1>7 DEF Claims, Loses
<1>8. ASSUME NEW i \in Pod, Loads(i)
      PROVE  \A n \in 1..MaxRows : lost[n] \in Nat /\ lost'[n] \in Nat /\ lost[n] <= lost'[n]
  BY <1>0, <1>8 DEF Loads, Loses
<1>9. ASSUME NEW i \in Pod, Drops(i)
      PROVE  \A n \in 1..MaxRows : lost[n] \in Nat /\ lost'[n] \in Nat /\ lost[n] <= lost'[n]
  BY <1>0, <1>9 DEF Drops, Loses
<1>10. ASSUME NEW i \in Pod, Decides(i)
      PROVE  \A n \in 1..MaxRows : lost[n] \in Nat /\ lost'[n] \in Nat /\ lost[n] <= lost'[n]
  BY <1>0, <1>10 DEF Decides, Loses
<1>11. ASSUME NEW i \in Pod, NEW accepted \in BOOLEAN, NEW out \in Final \cup {"pending"},
             Sends(i, accepted, out)
      PROVE  \A n \in 1..MaxRows : lost[n] \in Nat /\ lost'[n] \in Nat /\ lost[n] <= lost'[n]
  BY <1>0, <1>11 DEF Sends, Loses
<1>12. ASSUME NEW i \in Pod, Finishes(i)
      PROVE  \A n \in 1..MaxRows : lost[n] \in Nat /\ lost'[n] \in Nat /\ lost[n] <= lost'[n]
  BY <1>0, <1>12 DEF Finishes, Loses
<1> QED
  BY <1>1, <1>2, <1>3, <1>4, <1>5, <1>6, <1>7, <1>8, <1>9, <1>10, <1>11, <1>12, StepCases

(* A pod that works on a row holds its claim, or the claim expired under it. *)
LEMMA ClaimsStep ==
  ASSUME TypeOK, RowsStory, JobsStory, ClaimsHeld, [Next]_vars
  PROVE  ClaimsHeld'
<1> SUFFICES ASSUME NEW j \in Pod, NEW n \in DOMAIN rows', WorkingOn(j, n)', j \notin late'
             PROVE  ClaimedBy(j, n)' /\ rows'[n].live = TRUE
  BY DEF ClaimsHeld
<1>1. CASE Quiet
  BY <1>1 DEF Quiet, ClaimsHeld, WorkingOn, ClaimedBy, JobsStory, JobSound, Expired, Unfinished, Idle
<1>2. CASE Queues
  BY <1>2 DEF Queues, ClaimsHeld, WorkingOn, ClaimedBy, JobsStory, JobSound, Expired, Unfinished, Idle
<1>3. ASSUME NEW k \in DOMAIN rows, ComesDue(k)
      PROVE  ClaimedBy(j, n)' /\ rows'[n].live = TRUE
  BY <1>3 DEF ComesDue, ClaimsHeld, WorkingOn, ClaimedBy, JobsStory, JobSound, Expired, Unfinished, Idle
<1>4. ASSUME NEW k \in DOMAIN rows, Expires(k)
      PROVE  ClaimedBy(j, n)' /\ rows'[n].live = TRUE
  BY <1>4 DEF Expires, ClaimsHeld, WorkingOn, ClaimedBy, JobsStory, JobSound, Expired, Unfinished, Idle
<1>5. CASE Requeues
  BY <1>5 DEF Requeues, ClaimsHeld, WorkingOn, ClaimedBy, JobsStory, JobSound, Expired, Unfinished, Idle
<1>6. ASSUME NEW k \in DOMAIN rows, Prunes(k)
      PROVE  ClaimedBy(j, n)' /\ rows'[n].live = TRUE
  BY <1>6 DEF Prunes, ClaimsHeld, WorkingOn, ClaimedBy, JobsStory, JobSound, Expired, Unfinished, Idle
<1>7. ASSUME NEW i \in Pod, NEW k \in DOMAIN rows, Claims(i, k)
      PROVE  ClaimedBy(j, n)' /\ rows'[n].live = TRUE
  BY <1>7 DEF Claims, ClaimsHeld, WorkingOn, ClaimedBy, JobsStory, JobSound, Expired, Unfinished, Idle
<1>8. ASSUME NEW i \in Pod, Loads(i)
      PROVE  ClaimedBy(j, n)' /\ rows'[n].live = TRUE
  BY <1>8 DEF Loads, ClaimsHeld, WorkingOn, ClaimedBy, JobsStory, JobSound, Expired, Unfinished, Idle
<1>9. ASSUME NEW i \in Pod, Drops(i)
      PROVE  ClaimedBy(j, n)' /\ rows'[n].live = TRUE
  BY <1>9 DEF Drops, ClaimsHeld, WorkingOn, ClaimedBy, JobsStory, JobSound, Expired, Unfinished, Idle
<1>10. ASSUME NEW i \in Pod, Decides(i)
      PROVE  ClaimedBy(j, n)' /\ rows'[n].live = TRUE
  BY <1>10 DEF Decides, ClaimsHeld, WorkingOn, ClaimedBy, JobsStory, JobSound, Expired, Unfinished, Idle
<1>11. ASSUME NEW i \in Pod, NEW accepted \in BOOLEAN, NEW out \in Final \cup {"pending"},
             Sends(i, accepted, out)
      PROVE  ClaimedBy(j, n)' /\ rows'[n].live = TRUE
  BY <1>11 DEF Sends, ClaimsHeld, WorkingOn, ClaimedBy, JobsStory, JobSound, Expired, Unfinished, Idle
<1>12. ASSUME NEW i \in Pod, Finishes(i)
      PROVE  ClaimedBy(j, n)' /\ rows'[n].live = TRUE
  BY <1>12 DEF Finishes, ClaimsHeld, WorkingOn, ClaimedBy, JobsStory, JobSound, Expired, Unfinished, Idle
<1> QED
  BY <1>1, <1>2, <1>3, <1>4, <1>5, <1>6, <1>7, <1>8, <1>9, <1>10, <1>11, <1>12, StepCases

(* A message is accepted only by a Send. *)
LEMMA AcceptedBySend ==
  ASSUME TypeOK, RowsStory, JobsStory, [Next]_vars, NEW k \in 1..MaxRows, got'[k] # got[k]
  PROVE  \E i \in Pod, out \in Final \cup {"pending"} : Sends(i, TRUE, out) /\ job[i].row = k
<1>1. CASE Quiet
  BY <1>1 DEF Quiet
<1>2. CASE Queues
  BY <1>2 DEF Queues
<1>3. ASSUME NEW n \in DOMAIN rows, ComesDue(n)
      PROVE  \E p \in Pod, o \in Final \cup {"pending"} : Sends(p, TRUE, o) /\ job[p].row = k
  BY <1>3 DEF ComesDue
<1>4. ASSUME NEW n \in DOMAIN rows, Expires(n)
      PROVE  \E p \in Pod, o \in Final \cup {"pending"} : Sends(p, TRUE, o) /\ job[p].row = k
  BY <1>4 DEF Expires
<1>5. CASE Requeues
  BY <1>5 DEF Requeues
<1>6. ASSUME NEW n \in DOMAIN rows, Prunes(n)
      PROVE  \E p \in Pod, o \in Final \cup {"pending"} : Sends(p, TRUE, o) /\ job[p].row = k
  BY <1>6 DEF Prunes
<1>7. ASSUME NEW i \in Pod, NEW n \in DOMAIN rows, Claims(i, n)
      PROVE  \E p \in Pod, o \in Final \cup {"pending"} : Sends(p, TRUE, o) /\ job[p].row = k
  BY <1>7 DEF Claims
<1>8. ASSUME NEW i \in Pod, Loads(i)
      PROVE  \E p \in Pod, o \in Final \cup {"pending"} : Sends(p, TRUE, o) /\ job[p].row = k
  BY <1>8 DEF Loads
<1>9. ASSUME NEW i \in Pod, Drops(i)
      PROVE  \E p \in Pod, o \in Final \cup {"pending"} : Sends(p, TRUE, o) /\ job[p].row = k
  BY <1>9 DEF Drops
<1>10. ASSUME NEW i \in Pod, Decides(i)
      PROVE  \E p \in Pod, o \in Final \cup {"pending"} : Sends(p, TRUE, o) /\ job[p].row = k
  BY <1>10 DEF Decides
<1>11. ASSUME NEW i \in Pod, NEW accepted \in BOOLEAN, NEW out \in Final \cup {"pending"},
             Sends(i, accepted, out)
      PROVE  \E p \in Pod, o \in Final \cup {"pending"} : Sends(p, TRUE, o) /\ job[p].row = k
  <2>1. accepted = TRUE /\ job[i].row = k
    BY <1>11 DEF Sends
  <2> QED
    BY <1>11, <2>1
<1>12. ASSUME NEW i \in Pod, Finishes(i)
      PROVE  \E p \in Pod, o \in Final \cup {"pending"} : Sends(p, TRUE, o) /\ job[p].row = k
  BY <1>12 DEF Finishes
<1> QED
  BY <1>1, <1>2, <1>3, <1>4, <1>5, <1>6, <1>7, <1>8, <1>9, <1>10, <1>11, <1>12, StepCases

(* Nobody works on a row that is not there, and the receiver has not seen it. *)
LEMMA NewRowUntouched ==
  ASSUME TypeOK, RowsStory, JobsStory, InOrder, Queues, NEW j \in DOMAIN rows', Touched(j)'
  PROVE  j \in DOMAIN rows /\ Touched(j)
<1>1. CASE j \in DOMAIN rows
  BY <1>1 DEF Queues, Touched, WorkingOn
<1>2. CASE j \notin DOMAIN rows
  <2>1. got[j] = 0 /\ rows'[j].status = "pending" /\ got' = got /\ job' = job /\ j \in 1..MaxRows
    BY <1>2 DEF Queues, InOrder
  <2>2. \A i \in Pod : ~WorkingOn(i, j)'
    BY <1>2, <2>1 DEF WorkingOn, JobsStory, JobSound
  <2> QED
    BY <2>1, <2>2 DEF Touched, TypeOK
<1> QED
  BY <1>1, <1>2

(* A row is taken up when the rows before it have finished. *)
LEMMA TouchedStep ==
  ASSUME TypeOK, RowsStory, JobsStory, InOrder, NEW j \in DOMAIN rows', Touched(j)', [Next]_vars
  PROVE  j \in DOMAIN rows /\ (Touched(j) \/ \A n \in DOMAIN rows : n < j => ~Unfinished(n))
<1>1. CASE Quiet
  BY <1>1 DEF Quiet, Touched, WorkingOn, Idle
<1>2. CASE Queues
  BY <1>2, NewRowUntouched DEF Queues
<1>3. ASSUME NEW k \in DOMAIN rows, ComesDue(k)
      PROVE  j \in DOMAIN rows /\ (Touched(j) \/ \A n \in DOMAIN rows : n < j => ~Unfinished(n))
  BY <1>3 DEF ComesDue, Touched, WorkingOn, Idle
<1>4. ASSUME NEW k \in DOMAIN rows, Expires(k)
      PROVE  j \in DOMAIN rows /\ (Touched(j) \/ \A n \in DOMAIN rows : n < j => ~Unfinished(n))
  BY <1>4 DEF Expires, Touched, WorkingOn, Idle
<1>5. CASE Requeues
  BY <1>5 DEF Requeues, Touched, WorkingOn, TypeOK, Expired
<1>6. ASSUME NEW k \in DOMAIN rows, Prunes(k)
      PROVE  j \in DOMAIN rows /\ (Touched(j) \/ \A n \in DOMAIN rows : n < j => ~Unfinished(n))
  BY <1>6 DEF Prunes, Touched, WorkingOn, TypeOK, Unfinished
<1>7. ASSUME NEW i \in Pod, NEW k \in DOMAIN rows, Claims(i, k)
      PROVE  j \in DOMAIN rows /\ (Touched(j) \/ \A n \in DOMAIN rows : n < j => ~Unfinished(n))
  <2>1. CASE j = k
    BY <1>7, <2>1 DEF Claims
  <2>2. CASE j # k
    BY <1>7, <2>2 DEF Claims, Touched, WorkingOn, Idle
  <2> QED
    BY <2>1, <2>2
<1>8. ASSUME NEW i \in Pod, Loads(i)
      PROVE  j \in DOMAIN rows /\ (Touched(j) \/ \A n \in DOMAIN rows : n < j => ~Unfinished(n))
  BY <1>8 DEF Loads, Touched, WorkingOn, Idle
<1>9. ASSUME NEW i \in Pod, Drops(i)
      PROVE  j \in DOMAIN rows /\ (Touched(j) \/ \A n \in DOMAIN rows : n < j => ~Unfinished(n))
  BY <1>9 DEF Drops, Touched, WorkingOn, Idle
<1>10. ASSUME NEW i \in Pod, Decides(i)
      PROVE  j \in DOMAIN rows /\ (Touched(j) \/ \A n \in DOMAIN rows : n < j => ~Unfinished(n))
  BY <1>10 DEF Decides, Touched, WorkingOn, Idle
<1>11. ASSUME NEW i \in Pod, NEW accepted \in BOOLEAN, NEW out \in Final \cup {"pending"},
             Sends(i, accepted, out)
      PROVE  j \in DOMAIN rows /\ (Touched(j) \/ \A n \in DOMAIN rows : n < j => ~Unfinished(n))
  <2>1. CASE j = job[i].row
    BY <1>11, <2>1 DEF Sends, Touched, WorkingOn
  <2>2. CASE j # job[i].row
    BY <1>11, <2>2, RowNumbers DEF Sends, Touched, WorkingOn
  <2> QED
    BY <2>1, <2>2
<1>12. ASSUME NEW i \in Pod, Finishes(i)
      PROVE  j \in DOMAIN rows /\ (Touched(j) \/ \A n \in DOMAIN rows : n < j => ~Unfinished(n))
  <2>1. CASE j = job[i].row
    BY <1>12, <2>1 DEF Finishes, Touched, WorkingOn
  <2>2. CASE j # job[i].row
    BY <1>12, <2>2 DEF Finishes, Touched, WorkingOn, Idle
  <2> QED
    BY <2>1, <2>2
<1> QED
  BY <1>1, <1>2, <1>3, <1>4, <1>5, <1>6, <1>7, <1>8, <1>9, <1>10, <1>11, <1>12, StepCases

(* Rows are taken up in order. *)
LEMMA OrderStep ==
  ASSUME TypeOK, RowsStory, JobsStory, InOrder, [Next]_vars
  PROVE  InOrder'
<1>1. RowsKept
  BY RowsKeptStep
<1>2. TypeOK'
  BY TypeStep
<1>3. ASSUME NEW k \in 1..MaxRows, k \notin DOMAIN rows'
      PROVE  got'[k] = 0
  <2>1. k \notin DOMAIN rows
    BY <1>1, <1>3 DEF RowsKept
  <2>2. got[k] = 0
    BY <2>1 DEF InOrder
  <2>3. CASE got'[k] # got[k]
    <3>1. PICK i \in Pod, out \in Final \cup {"pending"} : Sends(i, TRUE, out) /\ job[i].row = k
      BY <2>3, AcceptedBySend
    <3> QED
      BY <2>1, <3>1 DEF Sends
  <2> QED
    BY <2>2, <2>3
<1>4. ASSUME NEW j \in DOMAIN rows', NEW k \in DOMAIN rows', k < j, Touched(j)'
      PROVE  ~Unfinished(k)'
  <2>1. j \in DOMAIN rows /\ (Touched(j) \/ \A n \in DOMAIN rows : n < j => ~Unfinished(n))
    BY <1>4, TouchedStep
  <2>2. k \in DOMAIN rows
    BY <1>2, <1>4, <2>1 DEF TypeOK
  <2>3. ~Unfinished(k)
    BY <1>4, <2>1, <2>2 DEF InOrder
  <2> QED
    BY <1>1, <2>2, <2>3 DEF RowsKept, Unfinished
<1> QED
  BY <1>3, <1>4 DEF InOrder

(* What is delivered was accepted. *)
LEMMA DeliveredStep ==
  ASSUME TypeOK, RowsStory, JobsStory, InOrder, AcceptedShown, [Next]_vars,
         NEW n \in DOMAIN rows', rows'[n].status = "delivered"
  PROVE  got'[n] > 0
<1>0. n \in DOMAIN rows => n \in 1..MaxRows /\ got[n] \in Nat
  BY RowNumbers DEF TypeOK
<1>1. CASE Quiet
  BY <1>1 DEF Quiet, AcceptedShown
<1>2. CASE Queues
  BY <1>2 DEF Queues, AcceptedShown
<1>3. ASSUME NEW k \in DOMAIN rows, ComesDue(k)
      PROVE  got'[n] > 0
  BY <1>3 DEF ComesDue, AcceptedShown
<1>4. ASSUME NEW k \in DOMAIN rows, Expires(k)
      PROVE  got'[n] > 0
  BY <1>4 DEF Expires, AcceptedShown
<1>5. CASE Requeues
  BY <1>5 DEF Requeues, AcceptedShown, Expired
<1>6. ASSUME NEW k \in DOMAIN rows, Prunes(k)
      PROVE  got'[n] > 0
  BY <1>6 DEF Prunes, AcceptedShown
<1>7. ASSUME NEW i \in Pod, NEW k \in DOMAIN rows, Claims(i, k)
      PROVE  got'[n] > 0
  BY <1>7 DEF Claims, AcceptedShown
<1>8. ASSUME NEW i \in Pod, Loads(i)
      PROVE  got'[n] > 0
  BY <1>8 DEF Loads, AcceptedShown
<1>9. ASSUME NEW i \in Pod, Drops(i)
      PROVE  got'[n] > 0
  BY <1>9 DEF Drops, AcceptedShown
<1>10. ASSUME NEW i \in Pod, Decides(i)
      PROVE  got'[n] > 0
  BY <1>10 DEF Decides, AcceptedShown
<1>11. ASSUME NEW i \in Pod, NEW accepted \in BOOLEAN, NEW out \in Final \cup {"pending"},
             Sends(i, accepted, out)
      PROVE  got'[n] > 0
  <2>1. rows' = rows /\ n \in DOMAIN rows /\ n \in 1..MaxRows /\ got[n] <= got'[n] /\ got'[n] \in Nat
    BY <1>0, <1>11 DEF Sends
  <2> QED
    BY <1>0, <2>1 DEF AcceptedShown
<1>12. ASSUME NEW i \in Pod, Finishes(i)
      PROVE  got'[n] > 0
  BY <1>12 DEF Finishes, AcceptedShown, JobsStory, JobSound, ClaimedBy
<1> QED
  BY <1>1, <1>2, <1>3, <1>4, <1>5, <1>6, <1>7, <1>8, <1>9, <1>10, <1>11, <1>12, StepCases

(* What was accepted is delivered, or about to be recorded, or lost. *)
LEMMA ShownStep ==
  ASSUME TypeOK, RowsStory, JobsStory, ClaimsHeld, InOrder, AcceptedShown, DuplicatesPaidFor,
         [Next]_vars, NEW n \in DOMAIN rows', got'[n] > lost'[n]
  PROVE  \/ rows'[n].status \in {"delivered", "pruned"}
         \/ \E p \in Pod : WorkingOn(p, n)' /\ Holds(p)'
<1> DEFINE Shown == \/ rows'[n].status \in {"delivered", "pruned"}
                    \/ \E p \in Pod : WorkingOn(p, n)' /\ Holds(p)'
<1> SUFFICES Shown
  OBVIOUS
<1>a. n \in 1..MaxRows /\ got'[n] \in Nat /\ lost'[n] \in Nat
  BY TypeStep, OutboxAssumption DEF TypeOK
<1>b. n \in DOMAIN rows
  <2>1. Touched(n)'
    BY <1>a DEF Touched
  <2> QED
    BY <2>1, TouchedStep
<1>c. got[n] > lost[n] =>
        \/ rows[n].status \in {"delivered", "pruned"}
        \/ \E p \in Pod : WorkingOn(p, n) /\ job[p].out = "delivered" /\ p \notin late
                          /\ ClaimedBy(p, n) /\ rows[n].live = TRUE
  BY <1>b DEF AcceptedShown, ClaimsHeld, Holds
<1>d. got[n] \in Nat /\ lost[n] \in Nat /\ got[n] <= 1 + lost[n]
  BY <1>a, <1>b DEF TypeOK, DuplicatesPaidFor
<1>1. CASE Quiet
  BY <1>1, <1>b, <1>c DEF Holds, Quiet, WorkingOn
<1>2. CASE Queues
  BY <1>2, <1>b, <1>c DEF Holds, Queues, WorkingOn
<1>3. ASSUME NEW k \in DOMAIN rows, ComesDue(k)
      PROVE  Shown
  BY <1>3, <1>b, <1>c DEF Holds, ComesDue, WorkingOn
<1>4. ASSUME NEW k \in DOMAIN rows, Expires(k)
      PROVE  Shown
  <2>1. CASE k = n /\ WorkingOn(rows[k].by, k) /\ Holds(rows[k].by)
    <3>1. lost'[n] = lost[n] + 1 /\ got'[n] = got[n]
      BY <1>4, <1>a, <2>1 DEF Expires, Loses
    <3> QED
      BY <1>d, <3>1
  <2>2. CASE ~(k = n /\ WorkingOn(rows[k].by, k) /\ Holds(rows[k].by))
    <3>1. lost'[n] = lost[n] /\ got'[n] = got[n] /\ job' = job
      BY <1>4, <1>a, <2>2 DEF Expires, Loses
    <3>2. \A p \in Pod : WorkingOn(p, n) /\ Holds(p) /\ ClaimedBy(p, n) => p \notin late'
      BY <1>4, <1>b, <2>2 DEF Expires, Holds, ClaimedBy, WorkingOn
    <3> QED
      BY <1>4, <1>b, <1>c, <3>1, <3>2 DEF Expires, WorkingOn, Holds
  <2> QED
    BY <2>1, <2>2
<1>5. CASE Requeues
  BY <1>5, <1>c DEF Holds, Requeues, WorkingOn, ClaimedBy, Expired
<1>6. ASSUME NEW k \in DOMAIN rows, Prunes(k)
      PROVE  Shown
  BY <1>6, <1>c DEF Holds, Prunes, WorkingOn, Unfinished
<1>7. ASSUME NEW i \in Pod, NEW k \in DOMAIN rows, Claims(i, k)
      PROVE  Shown
  BY <1>7, <1>c DEF Holds, Claims, WorkingOn, ClaimedBy, Idle
<1>8. ASSUME NEW i \in Pod, Loads(i)
      PROVE  Shown
  BY <1>8, <1>c DEF Holds, Loads, WorkingOn, JobsStory, JobSound
<1>9. ASSUME NEW i \in Pod, Drops(i)
      PROVE  Shown
  <2>1. CASE n = job[i].row /\ Holds(i)
    <3>1. lost'[n] = lost[n] + 1 /\ got'[n] = got[n]
      BY <1>9, <1>a, <2>1 DEF Drops, Loses
    <3> QED
      BY <1>d, <3>1
  <2>2. CASE ~(n = job[i].row /\ Holds(i))
    <3>1. lost'[n] = lost[n] /\ got'[n] = got[n] /\ rows' = rows
      BY <1>9, <1>a, <2>2 DEF Drops, Loses
    <3>2. \A p \in Pod : WorkingOn(p, n) /\ Holds(p) => p # i /\ job'[p] = job[p] /\ p \notin late'
      BY <1>9, <2>2 DEF Drops, WorkingOn, Holds
    <3> QED
      BY <1>c, <3>1, <3>2 DEF WorkingOn, Holds
  <2> QED
    BY <2>1, <2>2
<1>10. ASSUME NEW i \in Pod, Decides(i)
      PROVE  Shown
  BY <1>10, <1>c DEF Holds, Decides, WorkingOn, JobsStory, JobSound
<1>11. ASSUME NEW i \in Pod, NEW accepted \in BOOLEAN, NEW out \in Final \cup {"pending"},
             Sends(i, accepted, out)
      PROVE  Shown
  <2>1. CASE n = job[i].row /\ accepted /\ out = "delivered" /\ i \notin late
    BY <1>11, <2>1 DEF Sends, WorkingOn, Holds
  <2>2. CASE ~(n = job[i].row /\ accepted /\ out = "delivered" /\ i \notin late)
    <3>1. got'[n] - lost'[n] = got[n] - lost[n]
      <4>1. CASE n = job[i].row /\ accepted
        <5>1. got'[n] = got[n] + 1
          BY <1>11, <4>1 DEF Sends
        <5>2. lost'[n] = lost[n] + 1
          BY <1>11, <1>a, <2>2, <4>1 DEF Sends, Loses
        <5> QED
          BY <1>d, <5>1, <5>2
      <4>2. CASE ~(n = job[i].row /\ accepted)
        <5>1. got'[n] = got[n] /\ lost'[n] = lost[n]
          BY <1>11, <1>a, <4>2 DEF Sends, Loses
        <5> QED
          BY <5>1
      <4> QED
        BY <4>1, <4>2
    <3>2. job[i].out # "delivered" /\ \A p \in Pod : p # i => job'[p] = job[p]
      BY <1>11 DEF Sends, JobsStory, JobSound
    <3>3. got[n] > lost[n]
      BY <1>a, <1>d, <3>1
    <3> QED
      BY <1>11, <1>c, <3>2, <3>3 DEF Sends, WorkingOn, Holds
  <2> QED
    BY <2>1, <2>2
<1>12. ASSUME NEW i \in Pod, Finishes(i)
      PROVE  Shown
  <2>1. CASE n = job[i].row
    BY <1>12, <1>c, <2>1 DEF Holds, Finishes, WorkingOn, ClaimedBy
  <2>2. CASE n # job[i].row
    BY <1>12, <1>c, <2>2 DEF Holds, Finishes, WorkingOn
  <2> QED
    BY <2>1, <2>2
<1> HIDE DEF Shown
<1> QED
  BY <1>1, <1>2, <1>3, <1>4, <1>5, <1>6, <1>7, <1>8, <1>9, <1>10, <1>11, <1>12, StepCases

(* What AcceptedShown says of the next state. *)
LEMMA AcceptedStep ==
  ASSUME TypeOK, RowsStory, JobsStory, ClaimsHeld, InOrder, AcceptedShown, DuplicatesPaidFor,
         [Next]_vars
  PROVE  AcceptedShown'
BY DeliveredStep, ShownStep DEF AcceptedShown

(* The receiver gets more only. *)
LEMMA GotGrows ==
  ASSUME TypeOK, RowsStory, JobsStory, [Next]_vars, NEW k \in 1..MaxRows
  PROVE  got[k] \in Nat /\ got'[k] \in Nat /\ got[k] <= got'[k]
<1>0. TypeOK'
  BY TypeStep
<1>1. got[k] \in Nat /\ got'[k] \in Nat
  BY <1>0 DEF TypeOK
<1>2. CASE got'[k] # got[k]
  BY <1>1, <1>2, AcceptedBySend DEF Sends
<1> QED
  BY <1>1, <1>2

(* A send of the first row while a younger one is taken up comes from a claim that has expired. *)
LEMMA UnknownStays ==
  ASSUME TypeOK, RowsStory, JobsStory, ClaimsHeld, InOrder, [Next]_vars,
         NEW k \in DOMAIN rows, k # 1, Touched(k), OpeningUnknown
  PROVE  OpeningUnknown'
<1>1. 1 \in DOMAIN rows /\ 1 \in 1..MaxRows /\ 1 < k
  BY RowNumbers DEF TypeOK
<1>2. ~Unfinished(1)
  BY <1>1 DEF InOrder
<1>3. CASE lost[1] > 0 \/ rows[1].status = "pruned"
  BY <1>1, <1>3, LostGrows, RowsKeptStep DEF OpeningUnknown, RowsKept
<1>4. CASE got[1] = 0 /\ got'[1] # got[1]
  <2>1. PICK i \in Pod, out \in Final \cup {"pending"} : Sends(i, TRUE, out) /\ job[i].row = 1
    BY <1>1, <1>4, AcceptedBySend
  <2>2. WorkingOn(i, 1)
    BY <2>1 DEF Sends, WorkingOn
  <2>3. i \in late
    BY <1>1, <1>2, <2>2 DEF ClaimsHeld, ClaimedBy, Unfinished
  <2>4. lost'[1] = lost[1] + 1 /\ lost[1] \in Nat
    BY <1>1, <2>1, <2>3 DEF Sends, Loses, TypeOK
  <2> QED
    BY <2>4 DEF OpeningUnknown
<1> QED
  BY <1>3, <1>4 DEF OpeningUnknown

(* What a pod reads about a row that is not the opening, when the opening is not delivered. *)
LEMMA UnknownWhenRead ==
  ASSUME TypeOK, RowsStory, JobsStory, ClaimsHeld, InOrder, AcceptedShown,
         NEW k \in DOMAIN rows, k # 1, Touched(k), OpenedStatus # "delivered"
  PROVE  OpeningUnknown
<1>1. 1 \in DOMAIN rows /\ 1 < k
  BY RowNumbers DEF TypeOK
<1>2. ~Unfinished(1)
  BY <1>1 DEF InOrder
<1>3. rows[1].status # "delivered"
  BY OpenedIsFirst
<1>4. ASSUME NEW i \in Pod, WorkingOn(i, 1), Holds(i)
      PROVE  FALSE
  BY <1>1, <1>2, <1>4 DEF ClaimsHeld, ClaimedBy, Unfinished, Holds
<1>5. got[1] = 0 \/ lost[1] > 0 \/ got[1] > lost[1]
  BY <1>1, RowNumbers DEF TypeOK
<1> QED
  BY <1>1, <1>3, <1>4, <1>5 DEF AcceptedShown, OpeningUnknown

(* A delivery that has been read stays good to act on. *)
LEMMA ReadingStep ==
  ASSUME TypeOK, RowsStory, JobsStory, ClaimsHeld, InOrder, AcceptedShown, ReadingsHold, [Next]_vars
  PROVE  ReadingsHold'
<1> SUFFICES ASSUME NEW j \in Pod PROVE ReadingHolds(j)'
  BY DEF ReadingsHold
<1>0. ReadingHolds(j) /\ JobSound(j)
  BY DEF ReadingsHold, JobsStory
<1>1. RowsKept
  BY RowsKeptStep
<1>2. \A k \in DOMAIN rows : WorkingOn(j, k) => Touched(k)
  BY DEF Touched
<1>3. CASE job'[j] = job[j]
  <2>1. job[j].phase = "loaded" => job[j].row \in DOMAIN rows /\ WorkingOn(j, job[j].row)
    BY <1>0 DEF JobSound, WorkingOn
  <2>2. job[j].out = "suppressed" => job[j].row \in DOMAIN rows /\ WorkingOn(j, job[j].row)
    BY <1>0 DEF JobSound, WorkingOn
  <2>3. job[j].phase = "loaded" /\ job[j].opened = "delivered" => got'[1] > 0
    <3>1. job[j].phase = "loaded" => 1 \in 1..MaxRows
      BY <2>1, RowNumbers
    <3> QED
      BY <1>0, <3>1, GotGrows DEF ReadingHolds
  <2>4. job[j].phase = "loaded" /\ job[j].row # 1 /\ job[j].opened # "delivered" => OpeningUnknown'
    BY <1>0, <1>2, <2>1, UnknownStays DEF ReadingHolds
  <2>5. job[j].out = "suppressed" /\ rows'[job[j].row].kind = "resolved" => OpeningUnknown'
    <3>1. job[j].out = "suppressed" => rows'[job[j].row].kind = rows[job[j].row].kind
      BY <1>1, <2>2 DEF RowsKept
    <3>2. job[j].out = "suppressed" /\ rows[job[j].row].kind = "resolved" => job[j].row # 1
      BY <2>2 DEF RowsStory
    <3> QED
      BY <1>0, <1>2, <2>2, <3>1, <3>2, UnknownStays DEF ReadingHolds, KindOf
  <2>6. ASSUME NEW n \in DOMAIN rows', job[j].phase = "loaded", n < job[j].row,
               rows'[n].kind \in {"acknowledged", "resolved"}
        PROVE  job[j].incident # "open"
    <3>1. n \in DOMAIN rows
      BY <2>1, <2>6, TypeStep DEF TypeOK
    <3> QED
      BY <1>0, <1>1, <2>6, <3>1 DEF ReadingHolds, RowsKept
  <2> QED
    BY <1>3, <2>3, <2>4, <2>5, <2>6 DEF ReadingHolds, KindOf
<1>4. CASE job'[j] = Idle
  BY <1>4 DEF ReadingHolds, Idle
<1>5. ASSUME NEW k \in DOMAIN rows, Claims(j, k)
      PROVE  ReadingHolds(j)'
  BY <1>5 DEF Claims, ReadingHolds
<1>6. CASE Loads(j)
  <2>1. job[j].row \in DOMAIN rows /\ WorkingOn(j, job[j].row) /\ job[j].out = "none"
    BY <1>0, <1>6 DEF JobSound, WorkingOn, Loads
  <2>2. OpenedStatus = "delivered" => got[1] > 0
    BY OpenedIsFirst DEF AcceptedShown
  <2>3. job[j].row # 1 /\ OpenedStatus # "delivered" => OpeningUnknown
    BY <1>2, <2>1, UnknownWhenRead
  <2>4. UNCHANGED <<rows, got, lost>> => OpeningUnknown' = OpeningUnknown
    BY DEF OpeningUnknown
  <2>5. ASSUME NEW n \in DOMAIN rows, rows[n].kind \in {"acknowledged", "resolved"}
        PROVE  incident # "open"
    BY <2>5 DEF RowsStory
  <2> QED
    BY <1>6, <2>1, <2>2, <2>3, <2>4, <2>5 DEF Loads, ReadingHolds, KindOf
<1>7. CASE Decides(j)
  <2>1. job[j].row \in DOMAIN rows
    BY <1>0, <1>7 DEF JobSound, Decides
  <2>2. KindOf(job[j]) = "resolved" => job[j].row # 1
    BY <2>1 DEF RowsStory, KindOf
  <2>3. UNCHANGED <<rows, got, lost>> => OpeningUnknown' = OpeningUnknown
    BY DEF OpeningUnknown
  <2> QED
    BY <1>0, <1>7, <2>2, <2>3 DEF Decides, ReadingHolds, KindOf
<1>8. ASSUME NEW accepted \in BOOLEAN, NEW out \in Final \cup {"pending"}, Sends(j, accepted, out)
      PROVE  ReadingHolds(j)'
  BY <1>8 DEF Sends, ReadingHolds
<1>9. \/ job'[j] = job[j] \/ job'[j] = Idle \/ Loads(j) \/ Decides(j)
      \/ \E k \in DOMAIN rows : Claims(j, k)
      \/ \E accepted \in BOOLEAN, out \in Final \cup {"pending"} : Sends(j, accepted, out)
  <2> DEFINE Own == \/ job'[j] = job[j] \/ job'[j] = Idle \/ Loads(j) \/ Decides(j)
                    \/ \E k \in DOMAIN rows : Claims(j, k)
                    \/ \E accepted \in BOOLEAN, out \in Final \cup {"pending"} : Sends(j, accepted, out)
  <2>1. CASE \/ Quiet \/ Queues \/ Requeues
             \/ \E k \in DOMAIN rows : ComesDue(k) \/ Expires(k) \/ Prunes(k)
    BY <2>1 DEF Quiet, Queues, Requeues, ComesDue, Expires, Prunes
  <2>2. ASSUME NEW i \in Pod, NEW k \in DOMAIN rows, Claims(i, k)
        PROVE  Own
    BY <2>2 DEF Claims
  <2>3. ASSUME NEW i \in Pod, Loads(i) \/ Drops(i) \/ Decides(i) \/ Finishes(i)
        PROVE  Own
    <3>1. CASE i = j
      BY <2>3, <3>1 DEF Drops, Finishes
    <3>2. CASE i # j
      BY <2>3, <3>2 DEF Loads, Drops, Decides, Finishes
    <3> QED
      BY <3>1, <3>2
  <2>4. ASSUME NEW i \in Pod, NEW accepted \in BOOLEAN, NEW out \in Final \cup {"pending"},
               Sends(i, accepted, out)
        PROVE  Own
    BY <2>4 DEF Sends
  <2> QED
    BY <2>1, <2>2, <2>3, <2>4, StepCases
<1> QED
  BY <1>3, <1>4, <1>5, <1>6, <1>7, <1>8, <1>9

-----------------------------------------------------------------------------
(* The properties. *)

(* A receiver that gets something has got the opening. *)
LEMMA OpeningStep ==
  ASSUME IInv, [Next]_vars
  PROVE  OpeningFirst'
<1> USE DEF IInv
<1> SUFFICES ASSUME NEW k \in DOMAIN rows', got'[k] > 0, rows'[k].kind # "opened"
             PROVE  got'[1] > 0
  BY DEF OpeningFirst
<1>1. k \in DOMAIN rows
  <2>1. Touched(k)'
    BY DEF Touched
  <2> QED
    BY <2>1, TouchedStep
<1>2. rows[k].kind # "opened"
  BY <1>1, RowsKeptStep DEF RowsKept
<1>3. k \in 1..MaxRows /\ 1 \in 1..MaxRows
  BY <1>1, RowNumbers
<1>4. got[1] > 0
  <2>1. CASE got'[k] = got[k]
    BY <1>1, <1>2, <2>1 DEF OpeningFirst
  <2>2. CASE got'[k] # got[k]
    <3>1. PICK i \in Pod, out \in Final \cup {"pending"} : Sends(i, TRUE, out) /\ job[i].row = k
      BY <1>3, <2>2, AcceptedBySend
    <3>2. job[i].phase = "loaded" /\ job[i].opened = "delivered"
      BY <1>2, <3>1 DEF Sends, KindOf
    <3> QED
      BY <3>2 DEF ReadingsHold, ReadingHolds
  <2> QED
    BY <2>1, <2>2
<1> QED
  BY <1>3, <1>4, GotGrows

(* Every acceptance but one is lost. *)
LEMMA DuplicatesStep ==
  ASSUME IInv, [Next]_vars
  PROVE  DuplicatesPaidFor'
<1> USE DEF IInv
<1> SUFFICES ASSUME NEW k \in DOMAIN rows'
             PROVE  got'[k] <= 1 + lost'[k]
  BY DEF DuplicatesPaidFor
<1>0. k \in 1..MaxRows
  BY TypeStep, OutboxAssumption DEF TypeOK
<1>2. /\ got[k] \in Nat /\ got'[k] \in Nat
      /\ lost[k] \in Nat /\ lost'[k] \in Nat /\ lost[k] <= lost'[k]
  BY <1>0, LostGrows, GotGrows
<1>3. CASE k \notin DOMAIN rows
  <2>1. ~Touched(k)'
    BY <1>3, TouchedStep
  <2> QED
    BY <1>2, <2>1 DEF Touched
<1>4. CASE k \in DOMAIN rows /\ got'[k] = got[k]
  <2>1. got[k] <= 1 + lost[k]
    BY <1>4 DEF DuplicatesPaidFor
  <2> QED
    BY <1>2, <1>4, <2>1
<1>5. CASE k \in DOMAIN rows /\ got'[k] # got[k]
  <2>1. PICK i \in Pod, out \in Final \cup {"pending"} : Sends(i, TRUE, out) /\ job[i].row = k
    BY <1>0, <1>5, AcceptedBySend
  <2>2. /\ got'[k] = got[k] + 1 /\ WorkingOn(i, k) /\ job[i].out = "none"
        /\ lost'[k] = IF out # "delivered" \/ i \in late THEN lost[k] + 1 ELSE lost[k]
    BY <1>0, <2>1 DEF Sends, Loses, WorkingOn, JobsStory, JobSound
  <2>3. CASE out # "delivered" \/ i \in late
    <3>1. got[k] <= 1 + lost[k]
      BY <1>5 DEF DuplicatesPaidFor
    <3> QED
      BY <1>2, <2>2, <2>3, <3>1
  <2>4. CASE i \notin late
    <3>1. rows[k].status = "sending"
      BY <1>5, <2>2, <2>4 DEF ClaimsHeld, ClaimedBy
    <3>2. ASSUME NEW p \in Pod, WorkingOn(p, k), Holds(p) PROVE FALSE
      <4>1. p \notin late /\ job[p].out = "delivered"
        BY <3>2 DEF Holds
      <4>2. p = i
        BY <1>5, <2>2, <2>4, <3>2, <4>1 DEF ClaimsHeld, ClaimedBy
      <4> QED
        BY <2>2, <4>1, <4>2
    <3>3. ~(got[k] > lost[k])
      BY <1>5, <3>1, <3>2 DEF AcceptedShown
    <3> QED
      BY <1>2, <2>2, <3>3
  <2> QED
    BY <2>3, <2>4
<1> QED
  BY <1>3, <1>4, <1>5

(* A late re-notification is not sent. *)
LEMMA RemindersStep ==
  ASSUME IInv, [Next]_vars
  PROVE  RemindersWhileOpen'
<1> USE DEF IInv
<1> SUFFICES ASSUME NEW j \in DOMAIN rows', NEW k \in DOMAIN rows', j < k,
                    rows'[j].kind \in {"acknowledged", "resolved"}, rows'[k].kind = "renotify"
             PROVE  got'[k] = 0
  BY DEF RemindersWhileOpen
<1>0. TypeOK' /\ RowsKept
  BY TypeStep, RowsKeptStep
<1>4. k \in 1..MaxRows
  <2>1. rows' \in Seq(Row) /\ Len(rows') <= MaxRows /\ MaxRows \in Nat
    BY <1>0, OutboxAssumption DEF TypeOK
  <2>2. k \in 1..Len(rows') /\ Len(rows') \in Nat
    BY <2>1
  <2> QED
    BY <2>1, <2>2
<1>1. TypeOK' /\ k \in 1..MaxRows /\ RowsKept
  BY <1>0, <1>4
<1>2. CASE k \notin DOMAIN rows
  <2>1. ~Touched(k)'
    BY <1>2, TouchedStep
  <2> QED
    BY <1>1, <2>1 DEF Touched, TypeOK
<1>3. CASE k \in DOMAIN rows
  <2>1. j \in DOMAIN rows
    BY <1>1, <1>3 DEF TypeOK
  <2>2. rows[j].kind \in {"acknowledged", "resolved"} /\ rows[k].kind = "renotify"
    BY <1>1, <1>3, <2>1 DEF RowsKept
  <2>3. got[k] = 0
    BY <1>3, <2>1, <2>2 DEF RemindersWhileOpen
  <2>4. CASE got'[k] # got[k]
    <3>1. PICK i \in Pod, out \in Final \cup {"pending"} : Sends(i, TRUE, out) /\ job[i].row = k
      BY <1>1, <2>4, AcceptedBySend
    <3> QED
      BY <2>1, <2>2, <3>1 DEF Sends, KindOf, ReadingsHold, ReadingHolds
  <2> QED
    BY <2>3, <2>4
<1> QED
  BY <1>2, <1>3

(* A row is suppressed by the record of its outcome. *)
LEMMA SuppressedByFinish ==
  ASSUME TypeOK, RowsStory, JobsStory, [Next]_vars, NEW n \in DOMAIN rows,
         rows'[n].status = "suppressed", rows[n].status # "suppressed"
  PROVE  \E p \in Pod : Finishes(p) /\ job[p].row = n /\ job[p].out = "suppressed"
<1>1. CASE Quiet
  BY <1>1 DEF Quiet
<1>2. CASE Queues
  BY <1>2 DEF Queues
<1>3. ASSUME NEW k \in DOMAIN rows, ComesDue(k)
      PROVE  \E p \in Pod : Finishes(p) /\ job[p].row = n /\ job[p].out = "suppressed"
  BY <1>3 DEF ComesDue
<1>4. ASSUME NEW k \in DOMAIN rows, Expires(k)
      PROVE  \E p \in Pod : Finishes(p) /\ job[p].row = n /\ job[p].out = "suppressed"
  BY <1>4 DEF Expires
<1>5. CASE Requeues
  BY <1>5 DEF Requeues, Expired
<1>6. ASSUME NEW k \in DOMAIN rows, Prunes(k)
      PROVE  \E p \in Pod : Finishes(p) /\ job[p].row = n /\ job[p].out = "suppressed"
  BY <1>6 DEF Prunes
<1>7. ASSUME NEW i \in Pod, NEW k \in DOMAIN rows, Claims(i, k)
      PROVE  \E p \in Pod : Finishes(p) /\ job[p].row = n /\ job[p].out = "suppressed"
  BY <1>7 DEF Claims
<1>8. ASSUME NEW i \in Pod, Loads(i)
      PROVE  \E p \in Pod : Finishes(p) /\ job[p].row = n /\ job[p].out = "suppressed"
  BY <1>8 DEF Loads
<1>9. ASSUME NEW i \in Pod, Drops(i)
      PROVE  \E p \in Pod : Finishes(p) /\ job[p].row = n /\ job[p].out = "suppressed"
  BY <1>9 DEF Drops
<1>10. ASSUME NEW i \in Pod, Decides(i)
      PROVE  \E p \in Pod : Finishes(p) /\ job[p].row = n /\ job[p].out = "suppressed"
  BY <1>10 DEF Decides
<1>11. ASSUME NEW i \in Pod, NEW accepted \in BOOLEAN, NEW out \in Final \cup {"pending"},
             Sends(i, accepted, out)
      PROVE  \E p \in Pod : Finishes(p) /\ job[p].row = n /\ job[p].out = "suppressed"
  BY <1>11 DEF Sends
<1>12. ASSUME NEW i \in Pod, Finishes(i)
      PROVE  \E p \in Pod : Finishes(p) /\ job[p].row = n /\ job[p].out = "suppressed"
  <2>1. n = job[i].row /\ ClaimedBy(i, n)
    BY <1>12 DEF Finishes
  <2> QED
    BY <1>12, <2>1 DEF Finishes
<1> QED
  BY <1>1, <1>2, <1>3, <1>4, <1>5, <1>6, <1>7, <1>8, <1>9, <1>10, <1>11, <1>12, StepCases

(* A resolve that is suppressed has its excuse. *)
LEMMA SuppressionStep ==
  ASSUME IInv, [Next]_vars
  PROVE  SuppressionExcused'
<1> USE DEF IInv
<1> SUFFICES ASSUME NEW k \in DOMAIN rows', rows'[k].kind = "resolved", rows'[k].status = "suppressed"
             PROVE  OpeningUnknown'
  BY DEF SuppressionExcused, OpeningUnknown
<1>1. k \in DOMAIN rows
  <2>1. Touched(k)'
    BY DEF Touched
  <2> QED
    BY <2>1, TouchedStep
<1>2. rows[k].kind = "resolved" /\ k # 1
  BY <1>1, RowsKeptStep DEF RowsKept, RowsStory
<1>3. CASE rows[k].status = "suppressed"
  BY <1>1, <1>2, <1>3, UnknownStays DEF SuppressionExcused, OpeningUnknown, Touched
<1>4. CASE rows[k].status # "suppressed"
  <2>1. PICK i \in Pod : Finishes(i) /\ job[i].row = k /\ job[i].out = "suppressed"
    BY <1>1, <1>4, SuppressedByFinish
  <2>2. OpeningUnknown
    BY <1>2, <2>1 DEF ReadingsHold, ReadingHolds, KindOf
  <2>3. Touched(k)
    BY <2>1 DEF Touched, WorkingOn, Finishes
  <2> QED
    BY <1>1, <1>2, <2>2, <2>3, UnknownStays
<1> QED
  BY <1>3, <1>4

(* The invariant is inductive. *)
LEMMA Inductive == IInv /\ [Next]_vars => IInv'
<1> SUFFICES ASSUME IInv, [Next]_vars PROVE IInv'
  OBVIOUS
<1>1. OpeningFirst' /\ DuplicatesPaidFor' /\ RemindersWhileOpen' /\ SuppressionExcused'
  BY OpeningStep, DuplicatesStep, RemindersStep, SuppressionStep
<1>2. TypeOK' /\ RowsStory' /\ JobsStory' /\ ClaimsHeld' /\ InOrder' /\ AcceptedShown' /\ ReadingsHold'
  BY TypeStep, RowsStep, JobsStep, ClaimsStep, OrderStep, AcceptedStep, ReadingStep DEF IInv
<1> QED
  BY <1>1, <1>2 DEF IInv

(* It holds in the beginning. *)
LEMMA Initially == Init => IInv
<1> SUFFICES ASSUME Init PROVE IInv
  OBVIOUS
<1>1. rows \in Seq(Row) /\ Len(rows) = 0 /\ DOMAIN rows = {}
  BY DEF Init
<1>2. Idle \in Delivery
  BY ValueTypes
<1>3. TypeOK
  BY <1>1, <1>2, OutboxAssumption DEF Init, TypeOK, IncidentState, ChannelState
<1>4. JobsStory /\ ReadingsHold
  BY DEF Init, JobsStory, JobSound, ReadingsHold, ReadingHolds, Idle, KindOf
<1> QED
  BY <1>1, <1>3, <1>4 DEF Init, IInv, RowsStory, ClaimsHeld, InOrder, AcceptedShown, OpeningFirst,
     DuplicatesPaidFor, RemindersWhileOpen, SuppressionExcused

LEMMA Invariance == Spec => []IInv
BY Initially, Inductive, PTL DEF Spec

(***************************************************************************)
(* The table and the deliveries in hand keep their types: a row names the  *)
(* pod that has claimed it exactly while it is being sent                  *)
(* (ClaimDeliveries, RequeueExpired, FinishDelivery).                      *)
(***************************************************************************)
THEOREM TypeCorrect == Spec => []TypeOK
<1>1. IInv => TypeOK
  BY DEF IInv
<1> QED
  BY <1>1, Invariance, PTL

(***************************************************************************)
(* For any number of pods, rows and faults nothing but the opening reaches *)
(* a receiver that has not got the opening (Process).                      *)
(***************************************************************************)
THEOREM ReceiverOpensFirst == Spec => []OpeningFirst
<1>1. IInv => OpeningFirst
  BY DEF IInv
<1> QED
  BY <1>1, Invariance, PTL

(***************************************************************************)
(* However many pods, faults and retries there are, a message arrives at   *)
(* most once more often than its acceptance was lost to the table: by an   *)
(* answer or a record that failed, a death, or a claim that expired under  *)
(* its sender (the claims of ClaimDeliveries, RequeueExpired and           *)
(* FinishDelivery).                                                        *)
(***************************************************************************)
THEOREM NoUnpaidDuplicate == Spec => []DuplicatesPaidFor
<1>1. IInv => DuplicatesPaidFor
  BY DEF IInv
<1> QED
  BY <1>1, Invariance, PTL

(***************************************************************************)
(* No re-notification that was queued after the acknowledgement or the     *)
(* resolve reaches the receiver (Process reads the incident after the      *)
(* claim).                                                                 *)
(***************************************************************************)
THEOREM NoLateReminder == Spec => []RemindersWhileOpen
<1>1. IInv => RemindersWhileOpen
  BY DEF IInv
<1> QED
  BY <1>1, Invariance, PTL

(***************************************************************************)
(* A resolve is dropped only if the receiver has not got the opening, or   *)
(* the table cannot tell (Process, the test on OpenedStatus).              *)
(***************************************************************************)
THEOREM ResolveDroppedForCause == Spec => []SuppressionExcused
<1>1. IInv => SuppressionExcused
  BY DEF IInv
<1> QED
  BY <1>1, Invariance, PTL

(***************************************************************************)
(* Messages arrive in the order of seq, but for a pod that went on after   *)
(* its claim had expired: a claim is only given when nothing older is      *)
(* unfinished (ClaimDeliveries), and a younger row that was accepted had   *)
(* been claimed.                                                           *)
(***************************************************************************)
THEOREM ArrivalInOrder == Spec => OrderKept
<1> DEFINE Late(k) == \E i \in late : job[i].row = k /\ job'[i] # job[i]
<1>1. ASSUME IInv, [Next]_vars, NEW k \in 1..MaxRows, got'[k] # got[k], ~Late(k),
             NEW j \in (k + 1)..MaxRows
      PROVE  got[j] = 0
  <2>1. PICK i \in Pod, out \in Final \cup {"pending"} : Sends(i, TRUE, out) /\ job[i].row = k
    BY <1>1, AcceptedBySend DEF IInv
  <2>2. k \in DOMAIN rows /\ WorkingOn(i, k)
    BY <2>1 DEF Sends, WorkingOn
  <2>7. i \notin late
    <3>1. job'[i] # job[i]
      BY <2>1 DEF Sends
    <3> QED
      BY <1>1, <2>1, <3>1
  <2>3. Unfinished(k)
    BY <1>1, <2>2, <2>7 DEF IInv, ClaimsHeld, ClaimedBy, Unfinished
  <2>4. j \in 1..MaxRows /\ k < j /\ got[j] \in Nat
    BY <1>1, OutboxAssumption DEF IInv, TypeOK
  <2>5. CASE j \notin DOMAIN rows
    BY <1>1, <2>4, <2>5 DEF IInv, InOrder
  <2>6. CASE j \in DOMAIN rows
    <3>1. ~Touched(j)
      BY <1>1, <2>2, <2>3, <2>4, <2>6 DEF IInv, InOrder
    <3> QED
      BY <2>4, <3>1 DEF Touched
  <2> QED
    BY <2>5, <2>6
<1>2. IInv /\ [Next]_vars =>
        [\A k \in 1..MaxRows : got'[k] # got[k] =>
            \/ \A j \in (k + 1)..MaxRows : got[j] = 0
            \/ Late(k)]_vars
  BY <1>1
<1> QED
  BY <1>2, Invariance, PTL DEF Spec, OrderKept
=============================================================================
