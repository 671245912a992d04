------------------------------ MODULE AlertEval ------------------------------
(***************************************************************************)
(* Evaluation of alert rules by several pods (internal/alert/evaluator.go, *)
(* plan.go, pgstore_eval.go) together with the API that edits the rules    *)
(* and their incidents (pgstore_api.go).                                   *)
(*                                                                         *)
(* An evaluation reads the rule, queries the condition, reads the stored   *)
(* series, computes a plan, and commits the plan in one transaction that   *)
(* is fenced by the lease row.  Nothing is locked between the reads and    *)
(* the commit.                                                             *)
(*                                                                         *)
(* `window' is the end of the latest complete window, in intervals: what   *)
(* AlignedEnd returns at that moment on every pod.  An incident is named   *)
(* <<rule, series, end of the window that opened it>>.  One channel stands *)
(* for the channels of a rule, and an outbox row for its idempotency key,  *)
(* which is UNIQUE.  Timeline events are left out.                         *)
(***************************************************************************)
EXTENDS AlertLease, AlertState

CONSTANTS
    Series,       \* series keys of a rule
    Cond,         \* conditions a rule may be given
    Config,       \* settings that leave the condition unchanged
    Observation,  \* what a query may return for a series
    MaxWindow,    \* bound: windows
    MaxVersion,   \* bound: versions of a rule
    Budgets       \* bound: how often each fault may happen, of which one is chosen

Fault == {"crash", "stop", "expire", "error"}

Incident == Rule \X Series \X (1..MaxWindow)

ASSUME EvalAssumption ==
    /\ Config \subseteq StepConfig
    /\ Observation \subseteq Verdict \cup {"absent"}
    /\ MaxWindow \in Nat \ {0}
    /\ MaxVersion \in Nat
    /\ Budgets \subseteq [Fault -> Nat]
    /\ NoIncident \notin Incident

VARIABLES
    window,       \* the end of the window an evaluation that starts now covers
    eval,         \* [Pod -> [Rule -> the evaluation in progress]]
    series,       \* [Rule -> [Series -> row]]: alert_series_state
    incidents,    \* [Incident -> [state, reason, cond]]: alert_incidents
    outbox,       \* idempotency keys of alert_notifications
    budget,       \* faults left
    judged,       \* history: [Rule -> [Series -> the condition a row was computed for]]
    overtaken     \* history: rules with a commit of a plan read before another commit

evalVars == <<window, eval, series, incidents, outbox, budget, judged, overtaken>>
vars == <<leaseVars, evalVars>>

Key == [inc : Incident, kind : {"opened", "acknowledged", "renotify", "resolved"}, n : Nat]

key(id, kind) == [inc |-> id, kind |-> kind, n |-> 0]

NoEval == [phase |-> "idle"]

Absent == [state |-> "none", reason |-> "none", cond |-> "none"]

Reason == {"none", "recovered", "no_data", "expired", "manual", "rule_disabled", "rule_deleted",
           "rule_changed"}

TypeOK ==
    /\ LeaseTypeOK
    /\ rules \in [Rule -> [exists : BOOLEAN, enabled : BOOLEAN, version : 0..MaxVersion,
                           cond : Cond, cfg : Config]]
    /\ window \in 1..MaxWindow
    /\ \A i \in Pod, r \in Rule : eval[i][r].phase \in {"idle", "rule", "plan"}
    /\ series \in [Rule -> [Series -> SeriesState(Incident)]]
    /\ incidents \in [Incident -> [state : {"none", "open", "acknowledged", "resolved"},
                                   reason : Reason, cond : Cond \cup {"none"}]]
    /\ outbox \subseteq Key
    /\ budget \in [Fault -> Nat]
    /\ judged \in [Rule -> [Series -> Cond]]
    /\ overtaken \subseteq Rule

Init ==
    /\ LeaseInit
    /\ \E c \in Cond, g \in Config :
         /\ rules = [r \in Rule |-> [exists |-> FALSE, enabled |-> FALSE, version |-> 0,
                                     cond |-> c, cfg |-> g]]
         /\ judged = [r \in Rule |-> [s \in Series |-> c]]
    /\ window = 1
    /\ eval = [i \in Pod |-> [r \in Rule |-> NoEval]]
    /\ series = [r \in Rule |-> [s \in Series |-> NoRow]]
    /\ incidents = [id \in Incident |-> Absent]
    /\ outbox = {}
    /\ budget \in Budgets
    /\ overtaken = {}

Spend(f) == budget[f] > 0 /\ budget' = [budget EXCEPT ![f] = @ - 1]

Unresolved(id) == incidents[id].state \in {"open", "acknowledged"}

-----------------------------------------------------------------------------
(* Pods and leases. *)

LeaseStep(i) ==
    /\ \/ Start(i)
       \/ TickRenew(i)
       \/ \E locked \in SUBSET Rule : TickBalance(i, locked, TRUE)
       \/ Silence(i) /\ proc[i] # "up"
    /\ UNCHANGED evalVars

LeaseFault(i) ==
    /\ \/ \E locked \in SUBSET Rule : TickBalance(i, locked, FALSE)
       \/ TickFails(i)
       \/ Silence(i) /\ proc[i] = "up"
    /\ Spend("error")
    /\ UNCHANGED <<window, eval, series, incidents, outbox, judged, overtaken>>

CrashPod(i) ==
    /\ Crash(i)
    /\ Spend("crash")
    /\ eval' = [eval EXCEPT ![i] = [r \in Rule |-> NoEval]]
    /\ UNCHANGED <<window, series, incidents, outbox, judged, overtaken>>

(* SIGTERM: evaluations that are running go on. *)
StopPod(i) ==
    /\ \E ok \in BOOLEAN : Stop(i, ok)
    /\ Spend("stop")
    /\ UNCHANGED <<window, eval, series, incidents, outbox, judged, overtaken>>

(* Evaluator.Run waits for the running evaluations. *)
ExitPod(i) ==
    /\ proc[i] = "leaving"
    /\ \A r \in Rule : eval[i][r] = NoEval
    /\ proc' = [proc EXCEPT ![i] = "down"]
    /\ UNCHANGED <<seen, rules, lease, owned, tick, evalVars>>

(* The lease of a pod that renews in time expires only by a fault. *)
ExpireLease(r) ==
    /\ Expire(r)
    /\ IF \E i \in Pod : lease[r].owner = i /\ proc[i] = "up"
       THEN Spend("expire")
       ELSE UNCHANGED budget
    /\ UNCHANGED <<window, eval, series, incidents, outbox, judged, overtaken>>

NextWindow ==
    /\ window < MaxWindow
    /\ window' = window + 1
    /\ UNCHANGED <<leaseVars, eval, series, incidents, outbox, budget, judged, overtaken>>

-----------------------------------------------------------------------------
(* One evaluation. *)

Due(i, r) ==
    /\ proc[i] = "up"
    /\ owned[i][r].held /\ owned[i][r].valid
    /\ owned[i][r].next <= window
    /\ eval[i][r] = NoEval

(***************************************************************************)
(* dispatchDue and the first part of Evaluate: LoadRule.  A rule that is   *)
(* gone or disabled is dropped, a window that was evaluated is skipped.    *)
(***************************************************************************)
BeginEvaluation(i, r) ==
    /\ Due(i, r)
    /\ \/ /\ ~Active(r)
          /\ owned' = Drop(i, r)
          /\ UNCHANGED eval
       \/ /\ Active(r)
          /\ owned[i][r].last # 0 /\ window <= owned[i][r].last
          /\ owned' = Scheduled(i, r, window + 1, 0)
          /\ UNCHANGED eval
       \/ /\ Active(r)
          /\ owned[i][r].last = 0 \/ window > owned[i][r].last
          /\ eval' = [eval EXCEPT ![i][r] =
                 [phase |-> "rule", version |-> rules[r].version, cond |-> rules[r].cond,
                  cfg |-> rules[r].cfg, end |-> window, prev |-> owned[i][r].last]]
          /\ UNCHANGED owned
    /\ UNCHANGED <<proc, seen, rules, lease, tick, window, series, incidents, outbox, budget,
                   judged, overtaken>>

(* The tenant is over its budget, or LoadRule fails: the rule is tried again shortly. *)
Postpone(i, r) ==
    /\ Due(i, r)
    /\ owned' = Scheduled(i, r, window, 0)
    /\ UNCHANGED <<proc, seen, rules, lease, tick, evalVars>>

(***************************************************************************)
(* The query of the condition and LoadSeries with the incidents of the     *)
(* rows.  The row's last_eval_end at this moment is recorded as base.      *)
(***************************************************************************)
LoadSeries(i, r) ==
    /\ eval[i][r].phase = "rule"
    /\ \E obs \in [Series -> Observation] :
         eval' = [eval EXCEPT ![i][r] =
            [phase |-> "plan", version |-> @.version, cond |-> @.cond, cfg |-> @.cfg,
             end |-> @.end, prev |-> @.prev, failed |-> FALSE, obs |-> obs,
             snap |-> series[r], base |-> lease[r].last,
             inc |-> [s \in Series |-> IF series[r][s].incident = NoIncident THEN "none"
                                       ELSE incidents[series[r][s].incident].state]]]
    /\ UNCHANGED <<leaseVars, window, series, incidents, outbox, budget, judged, overtaken>>

(* The query or LoadSeries fails: the plan changes nothing but the schedule. *)
QueryFails(i, r) ==
    /\ eval[i][r].phase = "rule"
    /\ Spend("error")
    /\ eval' = [eval EXCEPT ![i][r] =
          [phase |-> "plan", version |-> @.version, cond |-> @.cond, cfg |-> @.cfg,
           end |-> @.end, prev |-> @.prev, failed |-> TRUE,
           obs |-> [s \in Series |-> "absent"], snap |-> [s \in Series |-> NoRow],
           base |-> lease[r].last, inc |-> [s \in Series |-> "none"]]]
    /\ UNCHANGED <<leaseVars, window, series, incidents, outbox, judged, overtaken>>

-----------------------------------------------------------------------------
(* BuildPlan, for the evaluation e of rule r and one series s. *)

(* An incident that was resolved outside the evaluator: the series starts over. *)
Prev(e, s) ==
    IF e.snap[s].incident # NoIncident /\ e.inc[s] \in {"none", "resolved"}
    THEN resetToOK(e.snap[s])
    ELSE e.snap[s]

Planned(e, s) == ~e.failed /\ (e.snap[s] # NoRow \/ e.obs[s] # "absent")

Outcome(e, s) ==
    Step(Prev(e, s), [end |-> e.end, prevEvalEnd |-> e.prev, obs |-> e.obs[s]], e.cfg)

Opens(e, s) == Planned(e, s) /\ Outcome(e, s).open

Resolves(e, s) ==
    Planned(e, s) /\ Outcome(e, s).resolve # "none" /\ Prev(e, s).incident # NoIncident

Renotifies(e, s) ==
    LET next == Outcome(e, s).next IN
    /\ Planned(e, s)
    /\ ~Opens(e, s)
    /\ next.state = "firing" /\ next.incident # NoIncident
    /\ e.cfg.renotify > 0
    /\ e.inc[s] = "open"
    /\ e.end - next.lastNotifiedAt >= e.cfg.renotify

PlannedRow(e, r, s) ==
    LET next == Outcome(e, s).next IN
    IF Opens(e, s) THEN [next EXCEPT !.incident = <<r, s, e.end>>]
    ELSE IF Renotifies(e, s)
         THEN [next EXCEPT !.renotifyCount = @ + 1, !.lastNotifiedAt = e.end]
         ELSE next

-----------------------------------------------------------------------------
(* Commit: one transaction that locks the lease row. *)

LeaseHeld(i, r) == rules[r].exists /\ lease[r].owner = i /\ lease[r].live

Newer(r, e) == e.end > lease[r].last

(* Mutant: a rule that was edited meanwhile is accepted while it is enabled. *)
SameRuleLoose(r, e) == rules[r].enabled

SameRule(r, e) == rules[r].enabled /\ rules[r].version = e.version

(* alert_incidents_open_uniq: one unresolved incident per rule and series. *)
Conflict(r, e) ==
    \E s \in Series : Opens(e, s) /\ \E w \in 1..MaxWindow : Unresolved(<<r, s, w>>)

(* Mutant: an incident that is resolved already is resolved again. *)
ResolvedAgain(r, e, s, id) == Resolves(e, s) /\ Prev(e, s).incident = id

(* UPDATE alert_incidents ... WHERE id = $1 AND state <> 'resolved' *)
ResolvedBy(r, e, s, id) ==
    Resolves(e, s) /\ Prev(e, s).incident = id /\ incidents[id].state # "resolved"

(* Mutant: a resolve is not notified. *)
NotificationsOpened(r, e) ==
    {key(<<r, s, e.end>>, "opened") : s \in {s \in Series : Opens(e, s)}}

Notifications(r, e) ==
    {key(<<r, s, e.end>>, "opened") : s \in {s \in Series : Opens(e, s)}}
    \cup {key(Prev(e, s).incident, "resolved") : s \in {s \in Series : Resolves(e, s)}}
    \cup {[inc |-> Prev(e, s).incident, kind |-> "renotify",
           n |-> PlannedRow(e, r, s).renotifyCount] : s \in {s \in Series : Renotifies(e, s)}}

(* Mutant: the row of a series that opens an incident is not linked to it. *)
StoredRowUnlinked(r, e, s) ==
    IF ~Planned(e, s) THEN series[r][s]
    ELSE IF Outcome(e, s).persist THEN Outcome(e, s).next
    ELSE IF Outcome(e, s).delete THEN NoRow
    ELSE series[r][s]

(* The upserts and deletes of the plan. *)
StoredRow(r, e, s) ==
    IF ~Planned(e, s) THEN series[r][s]
    ELSE IF Outcome(e, s).persist THEN PlannedRow(e, r, s)
    ELSE IF Outcome(e, s).delete /\ e.snap[s] # NoRow THEN NoRow
    ELSE series[r][s]

IncidentAfter(r, e, id) ==
    IF id[1] = r /\ id[3] = e.end /\ Opens(e, id[2])
    THEN [state |-> "open", reason |-> "none", cond |-> e.cond]
    ELSE IF id[1] = r /\ ResolvedBy(r, e, id[2], id)
    THEN [incidents[id] EXCEPT !.state = "resolved", !.reason = Outcome(e, id[2]).resolve]
    ELSE incidents[id]

(* Another evaluation of r was committed since the plan e was read. *)
Overtaken(r, e) == e.base # lease[r].last

Apply(r, e) ==
    /\ series' = [series EXCEPT ![r] = [s \in Series |-> StoredRow(r, e, s)]]
    /\ incidents' = [id \in Incident |-> IncidentAfter(r, e, id)]
    /\ outbox' = outbox \cup Notifications(r, e)
    /\ lease' = [lease EXCEPT ![r].last = e.end, ![r].next = e.end + 1]
    /\ judged' = [judged EXCEPT ![r] = [s \in Series |-> IF Planned(e, s) THEN e.cond ELSE @[s]]]
    /\ overtaken' = IF Overtaken(r, e) THEN overtaken \cup {r} ELSE overtaken

Discard == UNCHANGED <<series, incidents, outbox, lease, judged, overtaken>>

Finish(i, r) == eval' = [eval EXCEPT ![i][r] = NoEval]

Commit(i, r) ==
    LET e == eval[i][r] IN
    /\ e.phase = "plan"
    /\ \/ /\ ~LeaseHeld(i, r)                                   \* ErrLeaseLost
          /\ owned' = Drop(i, r)
          /\ Discard
       \/ /\ LeaseHeld(i, r) /\ ~Newer(r, e)                    \* ErrStale
          /\ owned' = Scheduled(i, r, e.end + 1, e.end)
          /\ Discard
       \/ /\ LeaseHeld(i, r) /\ Newer(r, e) /\ ~SameRule(r, e)  \* ErrRuleChanged
          /\ owned' = Scheduled(i, r, window, 0)
          /\ Discard
       \/ /\ LeaseHeld(i, r) /\ Newer(r, e) /\ SameRule(r, e)   \* the index is violated
          /\ Conflict(r, e)
          /\ owned' = Scheduled(i, r, window, 0)
          /\ Discard
       \/ /\ LeaseHeld(i, r) /\ Newer(r, e) /\ SameRule(r, e)
          /\ ~Conflict(r, e)
          /\ owned' = Scheduled(i, r, e.end + 1, e.end)
          /\ Apply(r, e)
    /\ Finish(i, r)
    /\ UNCHANGED <<proc, seen, rules, tick, window, budget>>

(* The pod sees an error: the transaction failed, or only its answer was lost. *)
CommitFails(i, r) ==
    LET e == eval[i][r] IN
    /\ e.phase = "plan"
    /\ Spend("error")
    /\ \/ Discard
       \/ /\ LeaseHeld(i, r) /\ Newer(r, e) /\ SameRule(r, e) /\ ~Conflict(r, e)
          /\ Apply(r, e)
    /\ owned' = Scheduled(i, r, window, 0)
    /\ Finish(i, r)
    /\ UNCHANGED <<proc, seen, rules, tick, window>>

-----------------------------------------------------------------------------
(* The API.  Every change of a rule locks its lease row first. *)

CreateRule(r, on) ==
    /\ rules[r].version = 0
    /\ MaxVersion > 0
    /\ rules' = [rules EXCEPT ![r].exists = TRUE, ![r].enabled = on, ![r].version = 1]
    /\ lease' = [lease EXCEPT ![r].next = window]
    /\ UNCHANGED <<proc, seen, owned, tick, evalVars>>


(* resolveRuleIncidents: the incidents of r are resolved and its rows deleted. *)
ResolveRule(r, reason) ==
    LET open == {id \in Incident : id[1] = r /\ Unresolved(id)} IN
    /\ incidents' = [id \in Incident |->
           IF id \in open THEN [incidents[id] EXCEPT !.state = "resolved", !.reason = reason]
                          ELSE incidents[id]]
    /\ outbox' = outbox \cup {key(id, "resolved") : id \in open}
    /\ series' = [series EXCEPT ![r] = [s \in Series |-> NoRow]]

(* An edit: another condition, or disabling, resolves the incidents. *)
UpdateRule(r, c, g, on) ==
    /\ rules[r].exists
    /\ rules[r].version < MaxVersion
    /\ IF c # rules[r].cond THEN ResolveRule(r, "rule_changed")
       ELSE IF rules[r].enabled /\ ~on THEN ResolveRule(r, "rule_disabled")
       ELSE UNCHANGED <<incidents, outbox, series>>
    /\ rules' = [rules EXCEPT ![r] = [@ EXCEPT !.cond = c, !.cfg = g, !.enabled = on,
                                               !.version = rules[r].version + 1]]
    /\ lease' = IF c # rules[r].cond \/ (on /\ ~rules[r].enabled)
                THEN [lease EXCEPT ![r].next = window] ELSE lease
    /\ UNCHANGED <<proc, seen, owned, tick, window, eval, budget, judged, overtaken>>

SetRuleEnabled(r, on) ==
    /\ rules[r].exists
    /\ rules[r].version < MaxVersion
    /\ on # rules[r].enabled
    /\ IF on THEN UNCHANGED <<incidents, outbox, series>> ELSE ResolveRule(r, "rule_disabled")
    /\ rules' = [rules EXCEPT ![r].enabled = on, ![r].version = @ + 1]
    /\ lease' = IF on THEN [lease EXCEPT ![r].next = window] ELSE lease
    /\ UNCHANGED <<proc, seen, owned, tick, window, eval, budget, judged, overtaken>>

(* The lease row goes with the rule, and the incidents keep no rule. *)
DeleteRule(r) ==
    /\ rules[r].exists
    /\ ResolveRule(r, "rule_deleted")
    /\ rules' = [rules EXCEPT ![r].exists = FALSE, ![r].enabled = FALSE]
    /\ lease' = [lease EXCEPT ![r] = Freed(@)]
    /\ UNCHANGED <<proc, seen, owned, tick, window, eval, budget, judged, overtaken>>

AcknowledgeIncident(id) ==
    /\ incidents[id].state = "open"
    /\ incidents' = [incidents EXCEPT ![id].state = "acknowledged"]
    /\ outbox' = outbox \cup {key(id, "acknowledged")}
    /\ UNCHANGED <<leaseVars, window, eval, series, budget, judged, overtaken>>

ResolveIncident(id) ==
    /\ Unresolved(id)
    /\ incidents' = [incidents EXCEPT ![id].state = "resolved", ![id].reason = "manual"]
    /\ outbox' = outbox \cup {key(id, "resolved")}
    /\ series' = [series EXCEPT ![id[1]] = [s \in Series |->
           IF @[s].incident = id THEN NoRow ELSE @[s]]]
    /\ UNCHANGED <<leaseVars, window, eval, budget, judged, overtaken>>

-----------------------------------------------------------------------------
Next ==
    \/ \E i \in Pod : \/ LeaseStep(i) \/ LeaseFault(i)
                      \/ CrashPod(i) \/ StopPod(i) \/ ExitPod(i)
    \/ \E i \in Pod, r \in Rule : \/ BeginEvaluation(i, r) \/ Postpone(i, r)
                                  \/ LoadSeries(i, r) \/ QueryFails(i, r)
                                  \/ Commit(i, r) \/ CommitFails(i, r)
    \/ \E r \in Rule : \/ ExpireLease(r) \/ DeleteRule(r)
                       \/ \E on \in BOOLEAN : CreateRule(r, on) \/ SetRuleEnabled(r, on)
                       \/ \E c \in Cond, g \in Config, on \in BOOLEAN : UpdateRule(r, c, g, on)
    \/ \E id \in Incident : AcknowledgeIncident(id) \/ ResolveIncident(id)
    \/ NextWindow

Spec == Init /\ [][Next]_vars

-----------------------------------------------------------------------------
(* Properties. *)

(***************************************************************************)
(* What is stored is a verdict of the rule as it is now: a rule that is    *)
(* disabled or deleted has no row and no unresolved incident, and after an *)
(* edit of the condition none that was computed for the old one, whatever  *)
(* evaluations were under way during the edit.                             *)
(***************************************************************************)
VerdictsCurrent ==
    /\ \A r \in Rule, s \in Series : series[r][s] # NoRow =>
           Active(r) /\ judged[r][s] = rules[r].cond
    /\ \A id \in Incident : Unresolved(id) =>
           Active(id[1]) /\ incidents[id].cond = rules[id[1]].cond

(***************************************************************************)
(* The outbox tells the story of every incident: an opening for each, a    *)
(* resolve for exactly the resolved ones, whoever resolved them, and an    *)
(* acknowledgement only of incidents that were acknowledged.               *)
(***************************************************************************)
OutboxMatches ==
    \A id \in Incident :
        /\ key(id, "opened") \in outbox <=> incidents[id].state # "none"
        /\ key(id, "resolved") \in outbox <=> incidents[id].state = "resolved"
        /\ key(id, "acknowledged") \in outbox =>
               incidents[id].state \in {"acknowledged", "resolved"}

(***************************************************************************)
(* An unresolved incident is the incident of its firing series, so that an *)
(* evaluation will resolve it; one that no row names stays open for ever,  *)
(* and the unique index then refuses every commit that opens another.      *)
(* docs/contracts/alerting.md 4 says that "two pods can therefore never    *)
(* both transition a series": the fence compares the windows, not what the *)
(* plan has read.                                                          *)
(***************************************************************************)
IncidentTracked ==
    \A id \in Incident : Unresolved(id) =>
        /\ series[id[1]][id[2]].state = "firing"
        /\ series[id[1]][id[2]].incident = id

(***************************************************************************)
(* The end of an incident is final: neither its state nor the reason of    *)
(* its resolve changes, whichever plan that knew it as open is committed   *)
(* later.                                                                  *)
(***************************************************************************)
ResolutionKept ==
    [][\A id \in Incident : incidents[id].state = "resolved" => incidents'[id] = incidents[id]]_vars

-----------------------------------------------------------------------------
(* Liveness. *)

(* A round that nothing disturbs. *)
Balance(i) == TickBalance(i, {}, TRUE) /\ UNCHANGED evalVars

(***************************************************************************)
(* Pods are started again, tick, and are scheduled; leases and heartbeats  *)
(* of dead pods grow old.                                                  *)
(***************************************************************************)
Fairness ==
    /\ \A i \in Pod :
         /\ WF_vars(Start(i) /\ UNCHANGED evalVars)
         /\ WF_vars(TickRenew(i) /\ UNCHANGED evalVars)
         /\ SF_vars(Balance(i))
         /\ WF_vars(ExitPod(i))
         /\ WF_vars(Silence(i) /\ proc[i] # "up" /\ UNCHANGED evalVars)
         /\ \A r \in Rule : WF_vars(BeginEvaluation(i, r)) /\ WF_vars(LoadSeries(i, r))
                            /\ WF_vars(Commit(i, r))
    /\ \A r \in Rule : WF_vars(ExpireLease(r) /\ UNCHANGED budget)

FairSpec == Spec /\ Fairness

(***************************************************************************)
(* Again and again every enabled rule has been evaluated for the latest    *)
(* window, although a pod that holds its lease dies or stops: leases and   *)
(* heartbeats grow old, and shares, releases and claims leave no rule      *)
(* without an owner.                                                       *)
(***************************************************************************)
EventuallyEvaluated == []<>(\A r \in Rule : Active(r) => lease[r].last >= window)
=============================================================================
