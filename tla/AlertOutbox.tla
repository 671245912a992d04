----------------------------- MODULE AlertOutbox -----------------------------
(***************************************************************************)
(* Delivery of alert notifications (internal/alert/dispatcher.go and the   *)
(* OutboxStore part of pgstore_eval.go): the pods of openlog-alert claim   *)
(* rows of alert_notifications, send them and record the outcome.          *)
(*                                                                         *)
(* The module follows the rows of one incident for one channel of a type   *)
(* that tracks the lifecycle (pagerduty, opsgenie).  A row is claimable    *)
(* only when no older row of its incident and channel is unfinished, and   *)
(* RunOnce waits for its batch, so a pod works on one of these rows at a   *)
(* time.  Rows are numbered by seq.  Time is abstracted: a postponed row   *)
(* is not due until it comes due, a claim is live until it expires, and a  *)
(* finished row may be pruned once it is old enough.                       *)
(***************************************************************************)
EXTENDS Naturals, Sequences, FiniteSets

CONSTANTS
    Pod,            \* instances of openlog-alert
    NoPod,          \* claimed_by of a row nobody has claimed
    MaxAttempts,    \* OPENLOG_ALERT_DELIVERY_MAX_ATTEMPTS
    MaxRows,        \* bound: rows of the incident and channel
    Faults,         \* the faults and disturbances that may happen
    MaxFaults       \* bound: how many of them happen in all

Fault == {"crash", "stop", "stall", "error", "mute", "channel", "prune"}

ASSUME OutboxAssumption ==
    /\ IsFiniteSet(Pod)
    /\ NoPod \notin Pod
    /\ MaxAttempts \in Nat \ {0}
    /\ MaxRows \in Nat
    /\ Faults \subseteq Fault
    /\ MaxFaults \in Nat

VARIABLES
    incident,   \* state of the incident: alert_incidents
    channel,    \* the channel: alert_channels
    rows,       \* sequence of rows of alert_notifications, by seq
    proc,       \* [Pod -> {"down", "up", "leaving"}]
    job,        \* [Pod -> the delivery RunOnce is working on]
    faults,     \* how many faults are left
    got,        \* history: how often the receiver accepted each row
    lost,       \* history: how many of these the table will never show
    late        \* history: pods whose claim expired under the delivery they work on

vars == <<incident, channel, rows, proc, job, faults, got, lost, late>>

history == <<got, lost, late>>

Kind == {"opened", "acknowledged", "renotify", "resolved"}

Final == {"delivered", "failed", "suppressed"}

IncidentState == {"none", "open", "acknowledged", "resolved"}

ChannelState == {"enabled", "disabled", "deleted"}

Row == [kind : Kind, status : {"pending", "sending", "pruned"} \cup Final, by : Pod \cup {NoPod},
        live : BOOLEAN, due : BOOLEAN, attempts : Nat, muted : BOOLEAN]

NewRow(kind) == [kind |-> kind, status |-> "pending", by |-> NoPod, live |-> FALSE, due |-> TRUE,
                 attempts |-> 0, muted |-> FALSE]

(* A Delivery and, once it is decided, its DeliveryOutcome. *)
Delivery == [phase : {"idle", "claimed", "loaded", "decided"}, row : 0..MaxRows, attempts : Nat,
             muted : BOOLEAN, channel : ChannelState, incident : IncidentState,
             opened : {"none", "pending", "sending"} \cup Final,
             out : {"none", "pending"} \cup Final]

Idle == [phase |-> "idle", row |-> 0, attempts |-> 0, muted |-> FALSE, channel |-> "enabled",
         incident |-> "none", opened |-> "none", out |-> "none"]

Unfinished(k) == rows[k].status \in {"pending", "sending"}

(* A row names the pod that has claimed it exactly while it is being sent. *)
TypeOK ==
    /\ incident \in IncidentState
    /\ channel \in ChannelState
    /\ rows \in Seq(Row) /\ Len(rows) <= MaxRows
    /\ \A k \in DOMAIN rows : rows[k].by \in Pod <=> rows[k].status = "sending"
    /\ proc \in [Pod -> {"down", "up", "leaving"}]
    /\ job \in [Pod -> Delivery]
    /\ faults \in 0..MaxFaults
    /\ got \in [1..MaxRows -> Nat]
    /\ lost \in [1..MaxRows -> Nat]
    /\ late \subseteq Pod

Init ==
    /\ incident = "none"
    /\ channel = "enabled"
    /\ rows = << >>
    /\ proc = [i \in Pod |-> "down"]
    /\ job = [i \in Pod |-> Idle]
    /\ faults = MaxFaults
    /\ got = [k \in 1..MaxRows |-> 0]
    /\ lost = [k \in 1..MaxRows |-> 0]
    /\ late = {}

Spend(f) == f \in Faults /\ faults > 0 /\ faults' = faults - 1

-----------------------------------------------------------------------------
(* What the evaluator and the API do to the incident and to the channel. *)

(* queueNotifications: a deleted channel gets no row. *)
Queue(kind) ==
    /\ Len(rows) < MaxRows
    /\ rows' = IF channel = "deleted" THEN rows ELSE Append(rows, NewRow(kind))

OpenIncident ==
    /\ incident = "none"
    /\ incident' = "open"
    /\ Queue("opened")
    /\ UNCHANGED <<channel, proc, job, faults, history>>

AcknowledgeIncident ==
    /\ incident = "open"
    /\ incident' = "acknowledged"
    /\ Queue("acknowledged")
    /\ UNCHANGED <<channel, proc, job, faults, history>>

ResolveIncident ==
    /\ incident \in {"open", "acknowledged"}
    /\ incident' = "resolved"
    /\ Queue("resolved")
    /\ UNCHANGED <<channel, proc, job, faults, history>>

(***************************************************************************)
(* A re-notification.  The plan that holds it was computed from an open    *)
(* incident, which may be acknowledged or resolved when it is committed.   *)
(***************************************************************************)
Remind ==
    /\ incident # "none"
    /\ channel # "deleted"
    /\ Queue("renotify")
    /\ UNCHANGED <<incident, channel, proc, job, faults, history>>

UpdateChannel(c) ==
    /\ channel \notin {"deleted", c}
    /\ Spend("channel")
    /\ channel' = c
    /\ UNCHANGED <<incident, rows, proc, job, history>>

(* Time passes for a postponed row. *)
ComeDue(k) ==
    /\ rows[k].status = "pending" /\ ~rows[k].due
    /\ rows' = [rows EXCEPT ![k].due = TRUE]
    /\ UNCHANGED <<incident, channel, proc, job, faults, history>>

-----------------------------------------------------------------------------
(* Claims. *)

WorkingOn(i, k) == job[i].phase # "idle" /\ job[i].row = k

(* The receiver has accepted the message and i, whose claim holds, is to record that. *)
Holds(i) == job[i].out = "delivered" /\ i \notin late

(* What the receiver of row k has accepted is lost to the table. *)
Lose(k, gone) == lost' = IF gone THEN [lost EXCEPT ![k] = @ + 1] ELSE lost

(* i is done with its delivery, or dies. *)
Leave(i) ==
    /\ job' = [job EXCEPT ![i] = Idle]
    /\ late' = late \ {i}

(***************************************************************************)
(* claimed_until passes: some time after a claim whose pod has died or has *)
(* failed to record the outcome, or, a fault, before the pod is done.      *)
(***************************************************************************)
ClaimExpires(k) ==
    /\ rows[k].status = "sending" /\ rows[k].live
    /\ rows' = [rows EXCEPT ![k].live = FALSE]
    /\ IF WorkingOn(rows[k].by, k)
       THEN Spend("stall") /\ Lose(k, Holds(rows[k].by)) /\ late' = late \cup {rows[k].by}
       ELSE UNCHANGED <<faults, lost, late>>
    /\ UNCHANGED <<incident, channel, proc, job, got>>

Expired(k) == rows[k].status = "sending" /\ ~rows[k].live

Requeued(row) == [row EXCEPT !.status = "pending", !.by = NoPod, !.live = FALSE]

RequeueExpired(i) ==
    /\ proc[i] = "up" /\ job[i] = Idle
    /\ \E k \in DOMAIN rows : Expired(k)
    /\ rows' = [k \in DOMAIN rows |-> IF Expired(k) THEN Requeued(rows[k]) ELSE rows[k]]
    /\ UNCHANGED <<incident, channel, proc, job, faults, history>>

(* Mutant: only the opening holds the younger rows back. *)
BlocksOpened(j) == Unfinished(j) /\ rows[j].kind = "opened"

(* Mutant: a row that has failed holds the younger ones back too. *)
BlocksFailed(j) == rows[j].status \in {"pending", "sending", "failed"}

Blocks(j) == Unfinished(j)

Claimable(k) ==
    /\ rows[k].status = "pending" /\ rows[k].due
    /\ \A j \in 1..(k - 1) : ~Blocks(j)

ClaimDeliveries(i, k) ==
    /\ proc[i] = "up" /\ job[i] = Idle
    /\ Claimable(k)
    /\ rows' = [rows EXCEPT ![k].status = "sending", ![k].by = i, ![k].live = TRUE, ![k].attempts = @ + 1]
    /\ job' = [job EXCEPT ![i] = [Idle EXCEPT !.phase = "claimed", !.row = k,
           !.attempts = rows[k].attempts + 1, !.muted = rows[k].muted]]
    /\ UNCHANGED <<incident, channel, proc, faults, history>>

OpenedStatus ==
    LET opened == {k \in DOMAIN rows : rows[k].kind = "opened" /\ rows[k].status # "pruned"} IN
    IF opened = {} THEN "none" ELSE rows[CHOOSE k \in opened : TRUE].status

(* The channel, the incident and the opening row are read after the claim. *)
LoadDelivery(i) ==
    /\ job[i].phase = "claimed"
    /\ job' = [job EXCEPT ![i].phase = "loaded", ![i].channel = channel, ![i].incident = incident,
           ![i].opened = OpenedStatus]
    /\ UNCHANGED <<incident, channel, rows, proc, faults, history>>

(* Reading fails, or is cut short by a shutdown: the claimed row waits for its claim to expire. *)
LoadFails(i) ==
    /\ job[i].phase = "claimed"
    /\ IF proc[i] = "leaving" THEN UNCHANGED faults ELSE Spend("error")
    /\ Leave(i)
    /\ UNCHANGED <<incident, channel, rows, proc, got, lost>>

-----------------------------------------------------------------------------
(* Process: what becomes of a loaded delivery, in the order of its early returns. *)

KindOf(d) == rows[d.row].kind

Undeliverable(d) == d.channel # "enabled"

(* Mutant: the state of the opening is not asked for. *)
UnopenedNever(d) == FALSE

Unopened(d) == KindOf(d) # "opened" /\ d.opened # "delivered"

(* Mutant: a re-notification is sent whatever has become of the incident. *)
OutdatedNever(d) == FALSE

Outdated(d) == KindOf(d) = "renotify" /\ d.incident # "open"

(* The DeliveryOutcome of a delivery; what was loaded is used no more. *)
Outcome(d, out) == [Idle EXCEPT !.phase = "decided", !.row = d.row, !.muted = d.muted, !.out = out]

Decide(i, out) ==
    /\ job' = [job EXCEPT ![i] = Outcome(@, out)]
    /\ UNCHANGED <<incident, channel, rows, proc>>

Fail(i) ==
    /\ job[i].phase = "loaded"
    /\ Undeliverable(job[i])
    /\ Decide(i, "failed")
    /\ UNCHANGED <<faults, history>>

Suppress(i) ==
    /\ job[i].phase = "loaded"
    /\ ~Undeliverable(job[i])
    /\ Unopened(job[i]) \/ Outdated(job[i])
    /\ Decide(i, "suppressed")
    /\ UNCHANGED <<faults, history>>

Wanted(i) ==
    /\ job[i].phase = "loaded"
    /\ ~Undeliverable(job[i]) /\ ~Unopened(job[i]) /\ ~Outdated(job[i])

(* Mutant: everything but an opening is dropped during a mute. *)
DroppedByMuteAll(kind) == kind # "opened"

DroppedByMute(kind) == kind \in {"renotify", "acknowledged"}

(* A mute covers the incident: state updates are dropped, the others postponed to its end. *)
Mute(i) ==
    /\ Wanted(i)
    /\ Spend("mute")
    /\ job' = [job EXCEPT ![i] =
           IF DroppedByMute(KindOf(@)) THEN Outcome(@, "suppressed")
           ELSE [Outcome(@, "pending") EXCEPT !.muted = TRUE]]
    /\ UNCHANGED <<incident, channel, rows, proc, history>>

ResolvedWhileMuted(d) == KindOf(d) = "opened" /\ d.muted /\ d.incident = "resolved"

SuppressMuted(i) ==
    /\ Wanted(i)
    /\ ResolvedWhileMuted(job[i])
    /\ Decide(i, "suppressed")
    /\ UNCHANGED <<faults, history>>

(* retryOrFail: the row is given up after MaxAttempts claims, or when it is too old. *)
RetryOrFail(d) == IF d.attempts >= MaxAttempts THEN {"failed"} ELSE {"pending", "failed"}

(***************************************************************************)
(* Send: the receiver accepts the message and says so, accepts it without  *)
(* the answer arriving, or does not accept it.  An error is permanent or   *)
(* retryable; secrets that cannot be decrypted are a retryable one.        *)
(***************************************************************************)
Send(i, accepted, out) ==
    LET k == job[i].row IN
    /\ Wanted(i)
    /\ ~ResolvedWhileMuted(job[i])
    /\ \/ out = "delivered" /\ accepted
       \/ out = "failed" /\ ~accepted
       \/ out \in RetryOrFail(job[i])
    /\ Decide(i, out)
    /\ got' = IF accepted THEN [got EXCEPT ![k] = @ + 1] ELSE got
    /\ Lose(k, accepted /\ (out # "delivered" \/ i \in late))
    /\ UNCHANGED <<faults, late>>

-----------------------------------------------------------------------------

(* Mutant: whoever has claimed the row meanwhile, the outcome is recorded. *)
ClaimedByAnyone(i, k) == rows[k].status = "sending"

(* WHERE status = 'sending' AND claimed_by = instance *)
ClaimedBy(i, k) == rows[k].status = "sending" /\ rows[k].by = i

(* The row with its outcome; nothing reads the attempts or the mute of a finished row. *)
Recorded(row, d) ==
    IF d.out = "pending"
    THEN [Requeued(row) EXCEPT !.due = FALSE, !.muted = d.muted]
    ELSE [NewRow(row.kind) EXCEPT !.status = d.out]

(* A claim that was lost leaves the row to its new owner. *)
FinishDelivery(i) ==
    LET d == job[i] IN
    /\ d.phase = "decided"
    /\ rows' = IF ClaimedBy(i, d.row)
               THEN [rows EXCEPT ![d.row] = Recorded(@, d)]
               ELSE rows
    /\ Leave(i)
    /\ UNCHANGED <<incident, channel, proc, faults, got, lost>>

(* The outcome is logged only. *)
FinishFails(i) ==
    /\ job[i].phase = "decided"
    /\ Spend("error")
    /\ Lose(job[i].row, Holds(i))
    /\ Leave(i)
    /\ UNCHANGED <<incident, channel, rows, proc, got>>

(***************************************************************************)
(* Rows that finished longer ago than the retention, 30 days, are deleted  *)
(* between two rounds of a pod; rows finish in the order of seq.  In that  *)
(* time every row that was due has been tried.                             *)
(***************************************************************************)
Prune(i, n) ==
    /\ proc[i] = "up" /\ job[i] = Idle
    /\ \A k \in 1..n : ~Unfinished(k)
    /\ rows[n].status # "pruned"
    /\ \A k \in DOMAIN rows : Unfinished(k) => rows[k].status = "pending" /\ ~rows[k].due
    /\ Spend("prune")
    /\ rows' = [k \in DOMAIN rows |-> IF k <= n THEN [rows[k] EXCEPT !.status = "pruned"] ELSE rows[k]]
    /\ UNCHANGED <<incident, channel, proc, job, history>>

-----------------------------------------------------------------------------
Start(i) ==
    /\ proc[i] = "down"
    /\ proc' = [proc EXCEPT ![i] = "up"]
    /\ UNCHANGED <<incident, channel, rows, job, faults, history>>

(* Run's context is done: a delivery that has started is finished and recorded. *)
Stop(i) ==
    /\ proc[i] = "up"
    /\ Spend("stop")
    /\ proc' = [proc EXCEPT ![i] = "leaving"]
    /\ UNCHANGED <<incident, channel, rows, job, history>>

Exit(i) ==
    /\ proc[i] = "leaving" /\ job[i] = Idle
    /\ proc' = [proc EXCEPT ![i] = "down"]
    /\ UNCHANGED <<incident, channel, rows, job, faults, history>>

Crash(i) ==
    /\ proc[i] # "down"
    /\ Spend("crash")
    /\ proc' = [proc EXCEPT ![i] = "down"]
    /\ Lose(job[i].row, Holds(i))
    /\ Leave(i)
    /\ UNCHANGED <<incident, channel, rows, got>>

-----------------------------------------------------------------------------
Process(i) ==
    \/ Fail(i) \/ Suppress(i) \/ SuppressMuted(i)
    \/ \E accepted \in BOOLEAN, out \in Final \cup {"pending"} : Send(i, accepted, out)

Next ==
    \/ OpenIncident \/ AcknowledgeIncident \/ ResolveIncident \/ Remind
    \/ \E c \in ChannelState : UpdateChannel(c)
    \/ \E k \in DOMAIN rows : ComeDue(k) \/ ClaimExpires(k)
    \/ \E i \in Pod :
        \/ Start(i) \/ Stop(i) \/ Exit(i) \/ Crash(i)
        \/ RequeueExpired(i)
        \/ \E k \in DOMAIN rows : ClaimDeliveries(i, k) \/ Prune(i, k)
        \/ LoadDelivery(i) \/ LoadFails(i)
        \/ Mute(i) \/ Process(i)
        \/ FinishDelivery(i) \/ FinishFails(i)

Spec == Init /\ [][Next]_vars

(***************************************************************************)
(* A pod that is down is started again, a running Run loop polls, a        *)
(* delivery ends by its timeout, and time passes.                          *)
(***************************************************************************)
Fairness ==
    /\ \A i \in Pod :
        /\ WF_vars(Start(i)) /\ WF_vars(Exit(i))
        /\ WF_vars(RequeueExpired(i))
        /\ WF_vars(\E k \in DOMAIN rows : ClaimDeliveries(i, k))
        /\ WF_vars(LoadDelivery(i)) /\ WF_vars(Process(i)) /\ WF_vars(FinishDelivery(i))
    /\ \A k \in 1..MaxRows :
        /\ WF_vars(k \in DOMAIN rows /\ ComeDue(k))
        /\ WF_vars(k \in DOMAIN rows /\ ClaimExpires(k))

FairSpec == Spec /\ Fairness

-----------------------------------------------------------------------------
(* Properties *)

(***************************************************************************)
(* "A receiver never gets a resolve without the opening message": nothing  *)
(* but the opening is accepted before it (dispatcher.go, Process, the test *)
(* on OpenedStatus).                                                       *)
(***************************************************************************)
OpeningFirst ==
    \A k \in DOMAIN rows : got[k] > 0 /\ rows[k].kind # "opened" => got[1] > 0

(***************************************************************************)
(* Every duplicate at the receiver is paid for: a message is accepted n    *)
(* times only if n - 1 acceptances were lost to the table, each by an      *)
(* answer that did not arrive, a record that failed, a death before the    *)
(* record, or a claim that expired under the pod that sent it.  Claims,    *)
(* RequeueExpired and the claimed_by of FinishDelivery add none.  This is  *)
(* weaker than docs/contracts/alerting.md 5.1, which says that "a          *)
(* duplicate is possible only if a process dies": the code does not keep   *)
(* that, since a timeout is retried though the receiver may have accepted. *)
(***************************************************************************)
DuplicatesPaidFor == \A k \in DOMAIN rows : got[k] <= 1 + lost[k]

(***************************************************************************)
(* A re-notification queued after the acknowledgement or the resolve, by   *)
(* an evaluation that had seen the incident open, never reaches the        *)
(* receiver (the incident is read after the claim).                        *)
(***************************************************************************)
RemindersWhileOpen ==
    \A j, k \in DOMAIN rows :
        /\ j < k
        /\ rows[j].kind \in {"acknowledged", "resolved"} /\ rows[k].kind = "renotify"
        => got[k] = 0

(***************************************************************************)
(* A resolve is suppressed only if the receiver has not got the opening,   *)
(* or the table cannot tell that it has.                                   *)
(***************************************************************************)
SuppressionExcused ==
    \A k \in DOMAIN rows :
        rows[k].kind = "resolved" /\ rows[k].status = "suppressed"
        => got[1] = 0 \/ lost[1] > 0 \/ rows[1].status = "pruned"

(***************************************************************************)
(* Messages arrive in the order of seq, except one sent by a pod whose own *)
(* claim has expired under it; what such a pod records afterwards reorders *)
(* nothing (NOT EXISTS in ClaimDeliveries, claimed_by in FinishDelivery).  *)
(***************************************************************************)
OrderKept ==
    [][\A k \in 1..MaxRows : got'[k] # got[k] =>
        \/ \A j \in (k + 1)..MaxRows : got[j] = 0
        \/ \E i \in late : job[i].row = k /\ job'[i] # job[i]]_vars

(***************************************************************************)
(* Every row that is queued is eventually finished, whatever becomes of    *)
(* the pods, the channel and the older rows.                               *)
(***************************************************************************)
EventuallyFinished ==
    \A k \in 1..MaxRows :
        (k \in DOMAIN rows) ~> (k \in DOMAIN rows /\ ~Unfinished(k))
=============================================================================
