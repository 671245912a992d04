--------------------------- MODULE AlertEvalProofs ---------------------------
(***************************************************************************)
(* Proofs about the evaluation of alert rules, for any number of pods,     *)
(* rules, series, settings, windows and faults.                            *)
(*                                                                         *)
(* An evaluation works on what it read some time ago.  The inductive       *)
(* invariant says how far that can be from what is stored now: the edition *)
(* of the rule it was started for (EvalsStory), the incidents its snapshot *)
(* names (PlansStory), and, while no other commit came between, the rows   *)
(* themselves (SnapsFresh).                                                *)
(***************************************************************************)
EXTENDS AlertEval, AlertStateProofs

RuleRow == [exists : BOOLEAN, enabled : BOOLEAN, version : 0..MaxVersion, cond : Cond, cfg : Config]

IncidentRow == [state : {"none", "open", "acknowledged", "resolved"}, reason : Reason,
                cond : Cond \cup {"none"}]

(* The types that the argument needs. *)
Typed ==
    /\ lease \in [Rule -> Row]
    /\ rules \in [Rule -> RuleRow]
    /\ window \in 1..MaxWindow
    /\ incidents \in [Incident -> IncidentRow]
    /\ judged \in [Rule -> [Series -> Cond]]

(***************************************************************************)
(* An incident that a row of the incidents' table inc names is one of the  *)
(* row's rule and series, and was opened.                                  *)
(***************************************************************************)
Names(inc, row, r, s) ==
    row.incident # NoIncident =>
        /\ row.incident \in Incident
        /\ row.incident[1] = r /\ row.incident[2] = s
        /\ inc[row.incident].state # "none"

RowsStory ==
    /\ DOMAIN series = Rule
    /\ \A r \in Rule : DOMAIN series[r] = Series
    /\ \A r \in Rule, s \in Series : IsRow(series[r][s]) /\ Names(incidents, series[r][s], r, s)

(* An evaluation that knows the current version of the rule knows its condition. *)
Begun(e, rule) ==
    /\ e.version \in Nat /\ e.version <= rule.version
    /\ e.version = rule.version => e.cond = rule.cond
    /\ e.cond \in Cond /\ e.cfg \in Config
    /\ e.end \in 1..MaxWindow

EvalsStory ==
    /\ DOMAIN eval = Pod
    /\ \A i \in Pod : DOMAIN eval[i] = Rule
    /\ \A i \in Pod, r \in Rule :
         /\ eval[i][r].phase \in {"idle", "rule", "plan"}
         /\ eval[i][r].phase # "idle" => Begun(eval[i][r], rules[r])

(* What a plan read of the incidents can only have gone on since. *)
Read(inc, e, r, s) ==
    /\ IsRow(e.snap[s]) /\ Names(inc, e.snap[s], r, s)
    /\ e.obs[s] \in Verdict \cup {"absent"}
    /\ e.snap[s].incident # NoIncident =>
           /\ e.inc[s] # "none"
           /\ e.inc[s] = "resolved" => inc[e.snap[s].incident].state = "resolved"

PlansStory ==
    \A i \in Pod, r \in Rule : eval[i][r].phase = "plan" =>
        \A s \in Series : Read(incidents, eval[i][r], r, s)

(* While nothing was committed since, a row is as the plan read it, or it was deleted. *)
Fresh(e, rows, last) ==
    /\ e.base \in Nat /\ e.base <= last
    /\ e.failed \in BOOLEAN
    /\ e.failed = FALSE /\ e.base = last => \A s \in Series : rows[s] \in {e.snap[s], NoRow}

SnapsFresh ==
    \A i \in Pod, r \in Rule : eval[i][r].phase = "plan" =>
        Fresh(eval[i][r], series[r], lease[r].last)

(* A rule that was never created does not exist. *)
Created == \A r \in Rule : rules[r].exists = TRUE => rules[r].version > 0

(* An incident is not younger than the last window that was committed for its rule. *)
NotYounger ==
    \A id \in Incident : incidents[id].state # "none" => id[3] <= lease[id[1]].last

(* IncidentTracked, except for a rule with a commit of a plan read before another commit. *)
TrackedUnlessOvertaken ==
    \A id \in Incident : Unresolved(id) /\ id[1] \notin overtaken =>
        /\ series[id[1]][id[2]].state = "firing"
        /\ series[id[1]][id[2]].incident = id

IInv ==
    /\ Typed
    /\ RowsStory
    /\ EvalsStory
    /\ PlansStory
    /\ SnapsFresh
    /\ Created
    /\ NotYounger
    /\ VerdictsCurrent
    /\ OutboxMatches
    /\ TrackedUnlessOvertaken

-----------------------------------------------------------------------------
(* The plan of an evaluation, for one series. *)

PlanSound(e, r, s) ==
    /\ IsRow(Prev(e, s))
    /\ Prev(e, s).incident # NoIncident => Prev(e, s) = e.snap[s]
    /\ e.snap[s].incident # NoIncident /\ e.inc[s] # "resolved" => Prev(e, s) = e.snap[s]
    /\ StepSound(Prev(e, s), Outcome(e, s))
    /\ IsRow(PlannedRow(e, r, s))
    /\ PlannedRow(e, r, s).state = Outcome(e, s).next.state
    /\ PlannedRow(e, r, s).incident = IF Opens(e, s) THEN <<r, s, e.end>>
                                      ELSE Outcome(e, s).next.incident

LEMMA PlanIsSound ==
    ASSUME NEW r \in Rule, NEW s \in Series, NEW e, NEW rule, Begun(e, rule),
           NEW inc, Read(inc, e, r, s)
    PROVE  PlanSound(e, r, s)
<1> DEFINE p == Prev(e, s)
           o == Outcome(e, s)
           q == PlannedRow(e, r, s)
           in == [end |-> e.end, prevEvalEnd |-> e.prev, obs |-> e.obs[s]]
<1>1. IsRow(e.snap[s]) /\ (e.snap[s].incident # NoIncident => e.inc[s] # "none")
  BY DEF Read
<1>2. IsRow(resetToOK(e.snap[s])) /\ resetToOK(e.snap[s]).incident = NoIncident
  BY <1>1 DEF resetToOK, IsRow, Field
<1>3. /\ IsRow(p)
      /\ p.incident # NoIncident => p = e.snap[s]
      /\ e.snap[s].incident # NoIncident /\ e.inc[s] # "resolved" => p = e.snap[s]
  BY <1>1, <1>2 DEF Prev
<1>4. StepSound(p, o)
  <2>1. in.obs \in Verdict \cup {"absent"}
    BY DEF Read
  <2>2. e.cfg \in StepConfig
    BY EvalAssumption DEF Begun
  <2>3. o = Step(p, in, e.cfg)
    BY DEF Outcome
  <2> HIDE DEF p, in, o
  <2>4. QED  BY <1>3, <2>1, <2>2, <2>3, StepRow
<1>5. DOMAIN o.next = Field /\ o.next.state \in {"ok", "pending", "firing"}
  BY <1>4 DEF StepSound, GoesOn
<1>6. /\ IsRow(q)
      /\ q.state = o.next.state
      /\ q.incident = IF Opens(e, s) THEN <<r, s, e.end>> ELSE o.next.incident
  <2> DEFINE n == o.next
             x == [n EXCEPT !.incident = <<r, s, e.end>>]
             y == [n EXCEPT !.renotifyCount = @ + 1, !.lastNotifiedAt = e.end]
  <2>1. q = IF Opens(e, s) THEN x ELSE IF Renotifies(e, s) THEN y ELSE n
    BY DEF PlannedRow
  <2> HIDE DEF q, o
  <2>2. IsRow(x) /\ x.state = n.state /\ x.incident = <<r, s, e.end>>
    BY <1>5 DEF IsRow, Field
  <2>3. IsRow(y) /\ y.state = n.state /\ y.incident = n.incident
    BY <1>5 DEF IsRow, Field
  <2>4. IsRow(n)
    BY <1>5 DEF IsRow
  <2> HIDE DEF x, y, n
  <2>5. CASE Opens(e, s)
    BY <2>1, <2>2, <2>5 DEF n
  <2>6. CASE ~Opens(e, s) /\ Renotifies(e, s)
    BY <2>1, <2>3, <2>6 DEF n
  <2>7. CASE ~Opens(e, s) /\ ~Renotifies(e, s)
    BY <2>1, <2>4, <2>7 DEF n
  <2>8. QED  BY <2>5, <2>6, <2>7
<1> HIDE DEF p, o, q
<1>7. QED  BY <1>3, <1>4, <1>6 DEF PlanSound, p, o, q

-----------------------------------------------------------------------------
(* The kinds of steps, by what they do to the rules, the stored rows and the evaluations. *)

Stored == <<rules, series, incidents, outbox, judged, overtaken>>

(* The lease rows may change hands; the window they were evaluated for stays. *)
LeasesKept ==
    /\ lease' \in [Rule -> Row]
    /\ \A r \in Rule : lease'[r].last = lease[r].last

(* Evaluations may end. *)
EvalsKept ==
    /\ DOMAIN eval' = Pod
    /\ \A i \in Pod : DOMAIN eval'[i] = Rule
    /\ \A i \in Pod, r \in Rule : eval'[i][r] \in {eval[i][r], NoEval}

Rests ==
    /\ LeasesKept /\ EvalsKept
    /\ window' \in 1..MaxWindow
    /\ UNCHANGED Stored

Begins(i, r) ==
    /\ Active(r)
    /\ \E prev : eval' = [eval EXCEPT ![i][r] =
           [phase |-> "rule", version |-> rules[r].version, cond |-> rules[r].cond,
            cfg |-> rules[r].cfg, end |-> window, prev |-> prev]]
    /\ UNCHANGED <<Stored, lease, window>>

(* e1 is the evaluation e after it read the rows, or failed to. *)
ReadInto(e, r, e1) ==
    /\ e1.phase = "plan" /\ e1.version = e.version /\ e1.cond = e.cond /\ e1.cfg = e.cfg
    /\ e1.end = e.end /\ e1.base = lease[r].last
    /\ e1.failed \in BOOLEAN
    /\ \A s \in Series : e1.obs[s] \in Verdict \cup {"absent"}
    /\ e1.failed = TRUE => \A s \in Series : e1.snap[s] = NoRow
    /\ e1.failed = FALSE => \A s \in Series :
           /\ e1.snap[s] = series[r][s]
           /\ series[r][s].incident # NoIncident =>
                  e1.inc[s] = incidents[series[r][s].incident].state

Reads(i, r) ==
    /\ eval[i][r].phase = "rule"
    /\ \E e1 : eval' = [eval EXCEPT ![i][r] = e1] /\ ReadInto(eval[i][r], r, e1)
    /\ UNCHANGED <<Stored, lease, window>>

Commits(i, r) ==
    /\ eval[i][r].phase = "plan"
    /\ LeaseHeld(i, r) /\ Newer(r, eval[i][r]) /\ SameRule(r, eval[i][r])
    /\ ~Conflict(r, eval[i][r])
    /\ Apply(r, eval[i][r])
    /\ Finish(i, r)
    /\ UNCHANGED <<rules, window>>

(* A new edition of rule r: a condition changes with the version only. *)
Edited(r) ==
    /\ rules' \in [Rule -> RuleRow]
    /\ \A q \in Rule \ {r} : rules'[q] = rules[q]
    /\ rules'[r].version >= rules[r].version
    /\ rules'[r].cond # rules[r].cond => rules'[r].version > rules[r].version
    /\ rules'[r].exists = TRUE => rules'[r].version > 0

(* It leaves what is stored alone, if that is still the verdict of the rule. *)
Keeps(r) ==
    /\ rules'[r].cond = rules[r].cond
    /\ Active(r) => Active(r)'
    /\ UNCHANGED <<series, incidents, outbox>>

Edits(r) ==
    /\ Edited(r)
    /\ Keeps(r) \/ \E reason \in Reason : ResolveRule(r, reason)
    /\ LeasesKept
    /\ UNCHANGED <<eval, window, judged, overtaken>>

Effect ==
    \/ Rests
    \/ \E i \in Pod, r \in Rule : Begins(i, r) \/ Reads(i, r) \/ Commits(i, r)
    \/ \E r \in Rule : Edits(r)
    \/ \E id \in Incident : AcknowledgeIncident(id) \/ ResolveIncident(id)

LEMMA FreedKeeps ==
    ASSUME NEW l \in Row
    PROVE  Freed(l) \in Row /\ Freed(l).last = l.last
BY DEF Freed, Row

LEMMA LiveKeeps ==
    ASSUME NEW l \in Row, NEW b \in BOOLEAN
    PROVE  [l EXCEPT !.live = b] \in Row /\ [l EXCEPT !.live = b].last = l.last
BY DEF Row

LEMMA OwnedKeeps ==
    ASSUME NEW l \in Row, NEW i \in Pod
    PROVE  /\ [l EXCEPT !.owner = i, !.live = TRUE] \in Row
           /\ [l EXCEPT !.owner = i, !.live = TRUE].last = l.last
BY DEF Row

(* No round of a pod, and no end of one, moves the window a rule was evaluated for. *)
LEMMA LeaseStepsKeep ==
    ASSUME Typed, NEW i \in Pod
    PROVE  /\ TickRenew(i) => LeasesKept
           /\ \A locked, ok : TickBalance(i, locked, ok) => LeasesKept
           /\ \A ok : Stop(i, ok) => LeasesKept
           /\ \A r \in Rule : Expire(r) => LeasesKept
           /\ UNCHANGED lease => LeasesKept
<1> USE DEF LeasesKept
<1>0. lease \in [Rule -> Row] /\ \A r \in Rule : lease[r] \in Row
  BY DEF Typed
<1>1. ASSUME TickRenew(i) PROVE LeasesKept
  <2> DEFINE mine    == {r \in Rule : rules[r].exists /\ lease[r].owner = i}
             renewed == {r \in mine : rules[r].enabled}
             new(r)  == IF r \in renewed THEN [lease[r] EXCEPT !.live = TRUE]
                        ELSE IF r \in mine THEN Freed(lease[r]) ELSE lease[r]
  <2>1. lease' = [r \in Rule |-> new(r)]
    BY <1>1 DEF TickRenew
  <2> HIDE DEF mine, renewed
  <2>2. \A r \in Rule : new(r) \in Row /\ new(r).last = lease[r].last
    BY <1>0, FreedKeeps, LiveKeeps
  <2> HIDE DEF new
  <2>3. QED  BY <2>1, <2>2
<1>2. ASSUME NEW locked, NEW ok, TickBalance(i, locked, ok) PROVE LeasesKept
  <2>1. PICK released \in SUBSET Rule : \E claimed \in SUBSET Rule : Rebalance(i, released, claimed)
    BY <1>2 DEF TickBalance
  <2>2. PICK claimed \in SUBSET Rule : Rebalance(i, released, claimed)
    BY <2>1
  <2> DEFINE new(r) == CASE r \in released -> Freed(lease[r])
                         [] r \in claimed  -> [lease[r] EXCEPT !.owner = i, !.live = TRUE]
                         [] OTHER          -> lease[r]
  <2>3. lease' = [r \in Rule |-> new(r)]
    BY <2>2 DEF Rebalance
  <2>4. \A r \in Rule : new(r) \in {Freed(lease[r]), [lease[r] EXCEPT !.owner = i, !.live = TRUE], lease[r]}
    OBVIOUS
  <2> HIDE DEF new
  <2>5. ASSUME NEW r \in Rule PROVE new(r) \in Row /\ new(r).last = lease[r].last
    <3> DEFINE got == [lease[r] EXCEPT !.owner = i, !.live = TRUE]
    <3>1. got \in Row /\ got.last = lease[r].last
      BY <1>0, OwnedKeeps
    <3>2. Freed(lease[r]) \in Row /\ Freed(lease[r]).last = lease[r].last
      BY <1>0, FreedKeeps
    <3>3. new(r) \in {Freed(lease[r]), got, lease[r]}
      BY <2>4
    <3> HIDE DEF got
    <3>4. QED  BY <1>0, <3>1, <3>2, <3>3
  <2>6. QED  BY <2>3, <2>5
<1>3. ASSUME NEW ok, Stop(i, ok) PROVE LeasesKept
  <2>1. CASE lease' = [r \in Rule |-> IF lease[r].owner = i THEN Freed(lease[r]) ELSE lease[r]]
    BY <1>0, <2>1, FreedKeeps
  <2>2. CASE lease' = lease
    BY <1>0, <2>2
  <2>3. QED  BY <1>3, <2>1, <2>2 DEF Stop
<1>4. ASSUME NEW r \in Rule, Expire(r) PROVE LeasesKept
  <2>1. lease' = [lease EXCEPT ![r] = [lease[r] EXCEPT !.live = FALSE]]
    BY <1>0, <1>4 DEF Expire
  <2>2. QED  BY <1>0, <2>1, LiveKeeps
<1>5. ASSUME UNCHANGED lease PROVE LeasesKept
  BY <1>0, <1>5
<1>6. QED  BY <1>1, <1>2, <1>3, <1>4, <1>5

(* Evaluations go on or end. *)
LEMMA EvalStepsKeep ==
    ASSUME EvalsStory
    PROVE  /\ UNCHANGED eval => EvalsKept
           /\ \A i \in Pod, r \in Rule : Finish(i, r) => EvalsKept
           /\ \A i \in Pod : eval' = [eval EXCEPT ![i] = [r \in Rule |-> NoEval]] => EvalsKept
<1>0. DOMAIN eval = Pod /\ \A i \in Pod : DOMAIN eval[i] = Rule
  BY DEF EvalsStory
<1>1. ASSUME UNCHANGED eval PROVE EvalsKept
  BY <1>0, <1>1 DEF EvalsKept
<1>2. ASSUME NEW i \in Pod, NEW r \in Rule, Finish(i, r) PROVE EvalsKept
  <2> DEFINE x == NoEval
  <2>1. eval' = [eval EXCEPT ![i][r] = x]
    BY <1>2 DEF Finish
  <2> HIDE DEF x
  <2>2. DOMAIN eval' = Pod /\ \A j \in Pod : DOMAIN eval'[j] = Rule
    BY <1>0, <2>1
  <2>3. \A j \in Pod, q \in Rule : eval'[j][q] \in {eval[j][q], x}
    BY <1>0, <2>1
  <2>4. QED  BY <2>2, <2>3 DEF EvalsKept, x
<1>3. ASSUME NEW i \in Pod, eval' = [eval EXCEPT ![i] = [r \in Rule |-> NoEval]] PROVE EvalsKept
  BY <1>0, <1>3 DEF EvalsKept
<1>4. QED  BY <1>1, <1>2, <1>3

LEMMA PodsRest ==
    ASSUME Typed, EvalsStory, NEW i \in Pod,
           LeaseStep(i) \/ LeaseFault(i) \/ CrashPod(i) \/ StopPod(i) \/ ExitPod(i)
    PROVE  Rests
<1>1. UNCHANGED Stored
  BY DEF Stored, LeaseStep, LeaseFault, CrashPod, StopPod, ExitPod, evalVars, Start, TickRenew,
         TickBalance, Silence, TickFails, Crash, Stop
<1>2. window' \in 1..MaxWindow
  BY DEF Typed, LeaseStep, LeaseFault, CrashPod, StopPod, ExitPod, evalVars
<1>3. EvalsKept
  <2>1. UNCHANGED eval \/ eval' = [eval EXCEPT ![i] = [r \in Rule |-> NoEval]]
    BY DEF LeaseStep, LeaseFault, CrashPod, StopPod, ExitPod, evalVars
  <2>2. QED  BY <2>1, EvalStepsKeep
<1>4. LeasesKept
  <2>1. \/ TickRenew(i) \/ \E locked, ok : TickBalance(i, locked, ok)
        \/ \E ok : Stop(i, ok)
        \/ UNCHANGED lease
    BY DEF LeaseStep, LeaseFault, CrashPod, StopPod, ExitPod, Start, Silence, TickFails, Crash
  <2>2. QED  BY <2>1, LeaseStepsKeep
<1>5. QED  BY <1>1, <1>2, <1>3, <1>4 DEF Rests

LEMMA OthersRest ==
    ASSUME Typed, EvalsStory,
           \/ \E r \in Rule : ExpireLease(r)
           \/ \E i \in Pod, r \in Rule : Postpone(i, r)
           \/ NextWindow
           \/ UNCHANGED vars
    PROVE  Rests
<1>1. UNCHANGED Stored /\ UNCHANGED eval
  BY DEF Stored, ExpireLease, Expire, Postpone, NextWindow, vars, leaseVars, evalVars
<1>2. window' \in 1..MaxWindow
  <2>1. UNCHANGED window \/ NextWindow
    BY DEF ExpireLease, Postpone, vars, evalVars
  <2>2. QED  BY <2>1, EvalAssumption DEF Typed, NextWindow
<1>3. EvalsKept
  BY <1>1, EvalStepsKeep
<1>4. LeasesKept
  <2>1. (\E r \in Rule : Expire(r)) \/ UNCHANGED lease
    BY DEF ExpireLease, Postpone, NextWindow, vars, leaseVars
  <2>2. CASE UNCHANGED lease
    BY <2>2 DEF LeasesKept, Typed
  <2>3. ASSUME NEW r \in Rule, Expire(r) PROVE LeasesKept
    <3>1. lease' = [lease EXCEPT ![r] = [lease[r] EXCEPT !.live = FALSE]] /\ lease \in [Rule -> Row]
      BY <2>3 DEF Expire, Typed
    <3>2. QED  BY <3>1, LiveKeeps DEF LeasesKept
  <2>4. QED  BY <2>1, <2>2, <2>3
<1>5. QED  BY <1>1, <1>2, <1>3, <1>4 DEF Rests

LEMMA BeginEffect ==
    ASSUME Typed, EvalsStory, NEW i \in Pod, NEW r \in Rule, BeginEvaluation(i, r)
    PROVE  Rests \/ Begins(i, r)
<1>1. UNCHANGED <<Stored, lease, window>>
  BY DEF BeginEvaluation, Stored
<1>2. UNCHANGED eval \/ Begins(i, r)
  BY <1>1 DEF BeginEvaluation, Begins
<1>3. ASSUME UNCHANGED eval PROVE Rests
  BY <1>1, <1>3, EvalStepsKeep, LeaseStepsKeep DEF Rests, Typed
<1>4. QED  BY <1>2, <1>3

LEMMA ReadEffect ==
    ASSUME NEW i \in Pod, NEW r \in Rule, EvalsStory, LoadSeries(i, r) \/ QueryFails(i, r)
    PROVE  Reads(i, r)
<1> DEFINE e == eval[i][r]
<1>1. UNCHANGED <<Stored, lease, window>> /\ e.phase = "rule"
  BY DEF LoadSeries, QueryFails, Stored, leaseVars
<1>2. DOMAIN eval = Pod /\ DOMAIN eval[i] = Rule
  BY DEF EvalsStory
<1>3. CASE LoadSeries(i, r)
  <2>1. PICK obs \in [Series -> Observation] :
         eval' = [eval EXCEPT ![i][r] =
            [phase |-> "plan", version |-> @.version, cond |-> @.cond, cfg |-> @.cfg,
             end |-> @.end, prev |-> @.prev, failed |-> FALSE, obs |-> obs,
             snap |-> series[r], base |-> lease[r].last,
             inc |-> [s \in Series |-> IF series[r][s].incident = NoIncident THEN "none"
                                       ELSE incidents[series[r][s].incident].state]]]
    BY <1>3 DEF LoadSeries
  <2> DEFINE e1 == [phase |-> "plan", version |-> e.version, cond |-> e.cond, cfg |-> e.cfg,
             end |-> e.end, prev |-> e.prev, failed |-> FALSE, obs |-> obs,
             snap |-> series[r], base |-> lease[r].last,
             inc |-> [s \in Series |-> IF series[r][s].incident = NoIncident THEN "none"
                                       ELSE incidents[series[r][s].incident].state]]
  <2>2. eval' = [eval EXCEPT ![i][r] = e1]
    BY <1>2, <2>1
  <2>3. ReadInto(e, r, e1)
    <3>1. /\ e1.phase = "plan" /\ e1.version = e.version /\ e1.cond = e.cond /\ e1.cfg = e.cfg
          /\ e1.end = e.end /\ e1.base = lease[r].last /\ e1.failed = FALSE
          /\ e1.obs = obs /\ e1.snap = series[r]
          /\ e1.inc = [s \in Series |-> IF series[r][s].incident = NoIncident THEN "none"
                                       ELSE incidents[series[r][s].incident].state]
      OBVIOUS
    <3> HIDE DEF e1, e
    <3>2. \A s \in Series : obs[s] \in Verdict \cup {"absent"}
      BY EvalAssumption
    <3>3. QED  BY <3>1, <3>2 DEF ReadInto
  <2> HIDE DEF e1
  <2>4. QED  BY <1>1, <2>2, <2>3 DEF Reads
<1>4. CASE QueryFails(i, r)
  <2> DEFINE e1 == [phase |-> "plan", version |-> e.version, cond |-> e.cond, cfg |-> e.cfg,
             end |-> e.end, prev |-> e.prev, failed |-> TRUE,
             obs |-> [s \in Series |-> "absent"], snap |-> [s \in Series |-> NoRow],
             base |-> lease[r].last, inc |-> [s \in Series |-> "none"]]
  <2>1. eval' = [eval EXCEPT ![i][r] = e1]
    BY <1>2, <1>4 DEF QueryFails
  <2>2. ReadInto(e, r, e1)
    <3>1. /\ e1.phase = "plan" /\ e1.version = e.version /\ e1.cond = e.cond /\ e1.cfg = e.cfg
          /\ e1.end = e.end /\ e1.base = lease[r].last /\ e1.failed = TRUE
          /\ e1.obs = [s \in Series |-> "absent"] /\ e1.snap = [s \in Series |-> NoRow]
      OBVIOUS
    <3> HIDE DEF e1, e
    <3>2. \A s \in Series : e1.obs[s] = "absent" /\ e1.snap[s] = NoRow
      BY <3>1
    <3>3. QED  BY <3>1, <3>2 DEF ReadInto
  <2> HIDE DEF e1
  <2>3. QED  BY <1>1, <2>1, <2>2 DEF Reads
<1>5. QED  BY <1>3, <1>4

LEMMA CommitEffect ==
    ASSUME Typed, EvalsStory, NEW i \in Pod, NEW r \in Rule, Commit(i, r) \/ CommitFails(i, r)
    PROVE  Rests \/ Commits(i, r)
<1>1. UNCHANGED <<rules, window>> /\ Finish(i, r) /\ eval[i][r].phase = "plan"
  BY DEF Commit, CommitFails
<1>2. Discard \/ Commits(i, r)
  BY <1>1 DEF Commit, CommitFails, Commits
<1>3. ASSUME Discard PROVE Rests
  <2>1. UNCHANGED Stored /\ UNCHANGED lease
    BY <1>1, <1>3 DEF Stored, Discard
  <2>2. QED  BY <1>1, <2>1, EvalStepsKeep, LeaseStepsKeep DEF Rests, Typed
<1>4. QED  BY <1>2, <1>3

(* The edits of a rule. *)
LEMMA ScheduleKeeps ==
    ASSUME Typed, NEW r \in Rule, NEW n \in Nat, lease' = [lease EXCEPT ![r].next = n]
    PROVE  LeasesKept
<1>1. lease \in [Rule -> Row]
  BY DEF Typed
<1> DEFINE l == [lease[r] EXCEPT !.next = n]
<1>2. l \in Row /\ l.last = lease[r].last
  BY <1>1 DEF Row
<1>3. lease' = [lease EXCEPT ![r] = l]
  BY <1>1
<1> HIDE DEF l
<1>4. QED  BY <1>1, <1>2, <1>3 DEF LeasesKept

LEMMA EditEffect ==
    ASSUME Typed, EvalsStory, Created, NEW r \in Rule,
           \/ DeleteRule(r)
           \/ \E on \in BOOLEAN : CreateRule(r, on) \/ SetRuleEnabled(r, on)
           \/ \E c \in Cond, g \in Config, on \in BOOLEAN : UpdateRule(r, c, g, on)
    PROVE  Edits(r)
<1>0. /\ rules \in [Rule -> RuleRow] /\ rules[r] \in RuleRow
      /\ lease \in [Rule -> Row] /\ lease[r] \in Row /\ window \in Nat
      /\ rules[r].version \in Nat /\ rules[r].version <= MaxVersion
      /\ rules[r].exists \in BOOLEAN /\ rules[r].enabled \in BOOLEAN
      /\ MaxVersion \in Nat
  BY EvalAssumption DEF Typed, RuleRow
<1>1. UNCHANGED <<eval, window, judged, overtaken>>
  BY DEF DeleteRule, CreateRule, SetRuleEnabled, UpdateRule, evalVars
<1>2. CASE DeleteRule(r)
  <2> DEFINE x == [rules[r] EXCEPT !.exists = FALSE, !.enabled = FALSE]
  <2>1. rules' = [rules EXCEPT ![r] = x]
    BY <1>0, <1>2 DEF DeleteRule
  <2>2. x \in RuleRow /\ x.version = rules[r].version /\ x.cond = rules[r].cond /\ x.exists = FALSE
    BY <1>0 DEF RuleRow
  <2> HIDE DEF x
  <2>3. Edited(r)
    BY <1>0, <2>1, <2>2 DEF Edited
  <2>4. lease' = [lease EXCEPT ![r] = Freed(lease[r])]
    BY <1>0, <1>2 DEF DeleteRule
  <2>5. LeasesKept
    BY <1>0, <2>4, FreedKeeps DEF LeasesKept
  <2>6. ResolveRule(r, "rule_deleted") /\ "rule_deleted" \in Reason
    BY <1>2 DEF DeleteRule, Reason
  <2>7. QED  BY <1>1, <2>3, <2>5, <2>6 DEF Edits
<1>3. ASSUME NEW on \in BOOLEAN, CreateRule(r, on) PROVE Edits(r)
  <2> DEFINE x == [rules[r] EXCEPT !.exists = TRUE, !.enabled = on, !.version = 1]
  <2>1. rules' = [rules EXCEPT ![r] = x]
    BY <1>0, <1>3 DEF CreateRule
  <2>2. rules[r].version = 0 /\ 1 \in 0..MaxVersion
    <3>1. rules[r].version = 0 /\ MaxVersion > 0
      BY <1>3 DEF CreateRule
    <3>2. QED  BY <1>0, <3>1
  <2>3. x \in RuleRow /\ x.version = 1 /\ x.cond = rules[r].cond
    BY <1>0, <2>2 DEF RuleRow
  <2> HIDE DEF x
  <2>4. Edited(r)
    BY <1>0, <2>1, <2>2, <2>3 DEF Edited
  <2>5. ~Active(r)
    BY <1>0, <2>2 DEF Active, Created
  <2>6. Keeps(r)
    BY <1>0, <1>3, <2>1, <2>3, <2>5 DEF Keeps, CreateRule, evalVars
  <2>7. LeasesKept
    BY <1>0, <1>3, ScheduleKeeps DEF CreateRule
  <2>8. QED  BY <1>1, <2>4, <2>6, <2>7 DEF Edits
<1>4. ASSUME NEW on \in BOOLEAN, SetRuleEnabled(r, on) PROVE Edits(r)
  <2> DEFINE n == rules[r].version + 1
             x == [rules[r] EXCEPT !.enabled = on, !.version = n]
  <2>1. rules' = [rules EXCEPT ![r] = x]
    BY <1>0, <1>4 DEF SetRuleEnabled
  <2>2. n \in 0..MaxVersion /\ n > rules[r].version /\ n > 0
    <3>1. rules[r].version < MaxVersion
      BY <1>4 DEF SetRuleEnabled
    <3>2. QED  BY <1>0, <3>1
  <2> HIDE DEF n
  <2>3. x \in RuleRow /\ x.version = n /\ x.cond = rules[r].cond /\ x.enabled = on
        /\ x.exists = rules[r].exists
    BY <1>0, <2>2 DEF RuleRow
  <2> HIDE DEF x
  <2>4. Edited(r)
    BY <1>0, <2>1, <2>2, <2>3 DEF Edited
  <2>5. Keeps(r) \/ \E reason \in Reason : ResolveRule(r, reason)
    <3>1. CASE on = TRUE
      <4>1. ~Active(r)
        BY <1>4, <3>1 DEF SetRuleEnabled, Active
      <4>2. UNCHANGED <<series, incidents, outbox>>
        BY <1>4, <3>1 DEF SetRuleEnabled
      <4>3. rules'[r].cond = rules[r].cond
        BY <1>0, <2>1, <2>3
      <4>4. QED  BY <4>1, <4>2, <4>3 DEF Keeps
    <3>2. CASE on = FALSE
      <4>1. ResolveRule(r, "rule_disabled") /\ "rule_disabled" \in Reason
        BY <1>4, <3>2 DEF SetRuleEnabled, Reason
      <4>2. QED  BY <4>1
    <3>3. QED  BY <3>1, <3>2
  <2>6. LeasesKept
    <3>1. UNCHANGED lease \/ lease' = [lease EXCEPT ![r].next = window]
      BY <1>4 DEF SetRuleEnabled
    <3>2. QED  BY <1>0, <3>1, ScheduleKeeps DEF LeasesKept
  <2>7. QED  BY <1>1, <2>4, <2>5, <2>6 DEF Edits
<1>5. ASSUME NEW c \in Cond, NEW g \in Config, NEW on \in BOOLEAN, UpdateRule(r, c, g, on)
      PROVE  Edits(r)
  <2> DEFINE n == rules[r].version + 1
             x == [rules[r] EXCEPT !.cond = c, !.cfg = g, !.enabled = on, !.version = n]
  <2>1. rules' = [rules EXCEPT ![r] = x]
    BY <1>5 DEF UpdateRule
  <2>2. n \in 0..MaxVersion /\ n > rules[r].version /\ n > 0
    <3>1. rules[r].version < MaxVersion
      BY <1>5 DEF UpdateRule
    <3>2. QED  BY <1>0, <3>1
  <2> HIDE DEF n
  <2>3. x \in RuleRow /\ x.version = n /\ x.cond = c /\ x.enabled = on
        /\ x.exists = rules[r].exists
    BY <1>0, <2>2 DEF RuleRow
  <2> HIDE DEF x
  <2>4. Edited(r)
    BY <1>0, <2>1, <2>2, <2>3 DEF Edited
  <2>5. Keeps(r) \/ \E reason \in Reason : ResolveRule(r, reason)
    <3>1. CASE c # rules[r].cond
      <4>1. ResolveRule(r, "rule_changed") /\ "rule_changed" \in Reason
        BY <1>5, <3>1 DEF UpdateRule, Reason
      <4>2. QED  BY <4>1
    <3>2. CASE c = rules[r].cond /\ rules[r].enabled = TRUE /\ on = FALSE
      <4>1. ResolveRule(r, "rule_disabled") /\ "rule_disabled" \in Reason
        BY <1>5, <3>2 DEF UpdateRule, Reason
      <4>2. QED  BY <4>1
    <3>3. CASE c = rules[r].cond /\ (rules[r].enabled = FALSE \/ on = TRUE)
      <4>1. UNCHANGED <<series, incidents, outbox>>
        BY <1>5, <3>3 DEF UpdateRule
      <4>2. rules'[r] = x
        BY <1>0, <2>1
      <4>3. QED  BY <2>3, <3>3, <4>1, <4>2 DEF Keeps, Active
    <3>4. QED  BY <1>0, <3>1, <3>2, <3>3
  <2>6. LeasesKept
    <3>1. UNCHANGED lease \/ lease' = [lease EXCEPT ![r].next = window]
      BY <1>5 DEF UpdateRule
    <3>2. QED  BY <1>0, <3>1, ScheduleKeeps DEF LeasesKept
  <2>7. QED  BY <1>1, <2>4, <2>5, <2>6 DEF Edits
<1>6. QED  BY <1>2, <1>3, <1>4, <1>5

(* Every step is of one of the kinds. *)
LEMMA StepEffect ==
    ASSUME Typed, EvalsStory, Created, [Next]_vars
    PROVE  Effect
<1>1. ASSUME NEW i \in Pod,
             LeaseStep(i) \/ LeaseFault(i) \/ CrashPod(i) \/ StopPod(i) \/ ExitPod(i)
      PROVE  Effect
  BY <1>1, PodsRest DEF Effect
<1>2. ASSUME NEW i \in Pod, NEW r \in Rule,
             \/ BeginEvaluation(i, r) \/ Postpone(i, r) \/ LoadSeries(i, r) \/ QueryFails(i, r)
             \/ Commit(i, r) \/ CommitFails(i, r)
      PROVE  Effect
  BY <1>2, OthersRest, BeginEffect, ReadEffect, CommitEffect DEF Effect
<1>3. ASSUME NEW r \in Rule,
             \/ ExpireLease(r) \/ DeleteRule(r)
             \/ \E on \in BOOLEAN : CreateRule(r, on) \/ SetRuleEnabled(r, on)
             \/ \E c \in Cond, g \in Config, on \in BOOLEAN : UpdateRule(r, c, g, on)
      PROVE  Effect
  <2>1. CASE ExpireLease(r)
    BY <2>1, OthersRest DEF Effect
  <2>2. CASE ~ExpireLease(r)
    BY <1>3, <2>2, EditEffect DEF Effect
  <2>3. QED  BY <2>1, <2>2
<1>4. ASSUME NEW id \in Incident, AcknowledgeIncident(id) \/ ResolveIncident(id)
      PROVE  Effect
  BY <1>4 DEF Effect
<1>5. ASSUME NextWindow \/ UNCHANGED vars PROVE Effect
  BY <1>5, OthersRest DEF Effect
<1>6. QED  BY <1>1, <1>2, <1>3, <1>4, <1>5 DEF Next

-----------------------------------------------------------------------------
(* A commit, incident by incident. *)

Opened(e, r, id) == \E s \in Series : Opens(e, s) /\ id = <<r, s, e.end>>

Ended(e, id) == \E s \in Series : Resolves(e, s) /\ Prev(e, s).incident = id

(* What a commit finds. *)
LEMMA CommitFinds ==
    ASSUME Typed, EvalsStory, PlansStory, NotYounger, NEW i \in Pod, NEW r \in Rule, Commits(i, r)
    PROVE  LET e == eval[i][r] IN
           /\ Active(r) /\ e.cond = rules[r].cond /\ e.cond \in Cond
           /\ e.end \in 1..MaxWindow /\ e.end > lease[r].last
           /\ \A s \in Series : PlanSound(e, r, s) /\ Read(incidents, e, r, s)
           /\ \A id \in Incident : Opened(e, r, id) =>
                  /\ incidents[id].state = "none"
                  /\ \A jd \in Incident : jd[1] = id[1] /\ jd[2] = id[2] => ~Unresolved(jd)
           /\ \A s \in Series : Resolves(e, s) =>
                  /\ Prev(e, s).incident \in Incident
                  /\ Prev(e, s).incident[1] = r /\ Prev(e, s).incident[2] = s
                  /\ incidents[Prev(e, s).incident].state # "none"
                  /\ Outcome(e, s).resolve \in Reason
<1> DEFINE e == eval[i][r]
<1>1. Begun(e, rules[r]) /\ \A s \in Series : Read(incidents, e, r, s)
  BY DEF EvalsStory, PlansStory, Commits
<1>2. Active(r) /\ rules[r].version = e.version
  BY DEF Commits, LeaseHeld, SameRule, Active
<1>3. e.cond = rules[r].cond /\ e.cond \in Cond /\ e.end \in 1..MaxWindow
  BY <1>1, <1>2 DEF Begun
<1>4. e.end > lease[r].last /\ lease[r].last \in Nat
  BY DEF Commits, Newer, Typed, Row
<1>5. \A s \in Series : PlanSound(e, r, s)
  BY <1>1, PlanIsSound
<1>6. ASSUME NEW id \in Incident, Opened(e, r, id)
      PROVE  /\ incidents[id].state = "none"
             /\ \A jd \in Incident : jd[1] = id[1] /\ jd[2] = id[2] => ~Unresolved(jd)
  <2>1. PICK s \in Series : Opens(e, s) /\ id = <<r, s, e.end>>
    BY <1>6 DEF Opened
  <2> HIDE DEF e
  <2>2. id[1] = r /\ id[2] = s /\ id[3] = e.end
    BY <2>1
  <2>3. ~(id[3] <= lease[id[1]].last)
    BY <1>3, <1>4, <2>2
  <2>4. incidents[id].state = "none"
    BY <2>3 DEF NotYounger
  <2>5. ASSUME NEW jd \in Incident, jd[1] = id[1], jd[2] = id[2] PROVE ~Unresolved(jd)
    <3>1. jd = <<r, s, jd[3]>> /\ jd[3] \in 1..MaxWindow
      BY <2>2, <2>5 DEF Incident
    <3>2. \A w \in 1..MaxWindow : ~Unresolved(<<r, s, w>>)
      BY <2>1 DEF Commits, Conflict, e
    <3>3. QED  BY <3>1, <3>2
  <2>6. QED  BY <2>4, <2>5
<1>7. ASSUME NEW s \in Series, Resolves(e, s)
      PROVE  /\ Prev(e, s).incident \in Incident
             /\ Prev(e, s).incident[1] = r /\ Prev(e, s).incident[2] = s
             /\ incidents[Prev(e, s).incident].state # "none"
             /\ Outcome(e, s).resolve \in Reason
  <2> HIDE DEF e
  <2>1. Prev(e, s).incident # NoIncident
    BY <1>7 DEF Resolves
  <2>2. Prev(e, s) = e.snap[s]
    BY <1>5, <2>1 DEF PlanSound
  <2>3. Names(incidents, e.snap[s], r, s)
    BY <1>1 DEF Read
  <2>4. Outcome(e, s).resolve \in {"none", "recovered", "no_data", "expired"}
    BY <1>5 DEF PlanSound, StepSound
  <2>5. QED  BY <2>1, <2>2, <2>3, <2>4 DEF Names, Reason
<1> HIDE DEF e
<1>8. QED  BY <1>1, <1>2, <1>3, <1>4, <1>5, <1>6, <1>7 DEF e

(* What a commit makes of each incident. *)
CommittedIncident(e, r, id) ==
    /\ Opened(e, r, id) => incidents'[id] = [state |-> "open", reason |-> "none", cond |-> e.cond]
    /\ ~Opened(e, r, id) /\ Ended(e, id) /\ incidents[id].state # "resolved" =>
           /\ incidents'[id].state = "resolved"
           /\ incidents'[id].reason \in Reason
           /\ incidents'[id].cond = incidents[id].cond
           /\ incidents'[id] \in IncidentRow
    /\ ~Opened(e, r, id) /\ (~Ended(e, id) \/ incidents[id].state = "resolved") =>
           incidents'[id] = incidents[id]

LEMMA CommitIncidents ==
    ASSUME Typed, EvalsStory, PlansStory, NotYounger, NEW i \in Pod, NEW r \in Rule, Commits(i, r),
           NEW id \in Incident
    PROVE  CommittedIncident(eval[i][r], r, id)
<1> DEFINE e == eval[i][r]
           open == id[1] = r /\ id[3] = e.end /\ Opens(e, id[2])
           end  == id[1] = r /\ ResolvedBy(r, e, id[2], id)
           closed == [incidents[id] EXCEPT !.state = "resolved", !.reason = Outcome(e, id[2]).resolve]
<1>1. incidents'[id] = IF open THEN [state |-> "open", reason |-> "none", cond |-> e.cond]
                       ELSE IF end THEN closed ELSE incidents[id]
  BY DEF Commits, Apply, IncidentAfter
<1>2. id[1] \in Rule /\ id[2] \in Series /\ id = <<id[1], id[2], id[3]>>
  BY DEF Incident
<1>3. incidents[id] \in IncidentRow
  BY DEF Typed
<1>4. \A s \in Series : Resolves(e, s) =>
          /\ Prev(e, s).incident[1] = r /\ Prev(e, s).incident[2] = s
          /\ Outcome(e, s).resolve \in Reason
  BY CommitFinds
<1> HIDE DEF e
<1>5. open <=> Opened(e, r, id)
  BY <1>2 DEF Opened
<1>6. end <=> Ended(e, id) /\ incidents[id].state # "resolved"
  BY <1>2, <1>4 DEF Ended, ResolvedBy
<1>7. end => closed \in IncidentRow /\ closed.state = "resolved" /\ closed.cond = incidents[id].cond
             /\ closed.reason \in Reason
  <2>1. SUFFICES ASSUME end
                 PROVE  closed \in IncidentRow /\ closed.state = "resolved"
                        /\ closed.cond = incidents[id].cond /\ closed.reason \in Reason
    OBVIOUS
  <2> DEFINE x == Outcome(e, id[2]).resolve
  <2>2. x \in Reason
    BY <1>2, <1>4, <2>1 DEF ResolvedBy
  <2> HIDE DEF x
  <2>3. QED  BY <1>3, <2>2 DEF IncidentRow, x
<1> HIDE DEF open, end, closed
<1>8. QED  BY <1>1, <1>5, <1>6, <1>7 DEF CommittedIncident, e

(* And what it queues. *)
LEMMA CommitKeys ==
    ASSUME NEW e, NEW r, NEW id
    PROVE  /\ key(id, "opened") \in Notifications(r, e) <=> Opened(e, r, id)
           /\ key(id, "resolved") \in Notifications(r, e) <=> Ended(e, id)
           /\ key(id, "acknowledged") \notin Notifications(r, e)
<1> DEFINE A == {key(<<r, s, e.end>>, "opened") : s \in {s \in Series : Opens(e, s)}}
           B == {key(Prev(e, s).incident, "resolved") : s \in {s \in Series : Resolves(e, s)}}
           C == {[inc |-> Prev(e, s).incident, kind |-> "renotify",
                  n |-> PlannedRow(e, r, s).renotifyCount] : s \in {s \in Series : Renotifies(e, s)}}
<1>1. Notifications(r, e) = A \cup B \cup C
  BY DEF Notifications
<1>2. \A a \in A : a.kind = "opened" /\ \E s \in Series : Opens(e, s) /\ a.inc = <<r, s, e.end>>
  BY DEF key
<1>3. \A a \in B : a.kind = "resolved" /\ \E s \in Series : Resolves(e, s) /\ a.inc = Prev(e, s).incident
  BY DEF key
<1>4. \A a \in C : a.kind = "renotify"
  OBVIOUS
<1>5. /\ key(id, "opened").kind = "opened" /\ key(id, "opened").inc = id
      /\ key(id, "resolved").kind = "resolved" /\ key(id, "resolved").inc = id
      /\ key(id, "acknowledged").kind = "acknowledged"
  BY DEF key
<1>6. Opened(e, r, id) => key(id, "opened") \in A
  BY DEF Opened
<1>7. Ended(e, id) => key(id, "resolved") \in B
  BY DEF Ended
<1> HIDE DEF A, B, C
<1>8. key(id, "opened") \in Notifications(r, e) => Opened(e, r, id)
  BY <1>1, <1>2, <1>3, <1>4, <1>5 DEF Opened
<1>9. key(id, "resolved") \in Notifications(r, e) => Ended(e, id)
  BY <1>1, <1>2, <1>3, <1>4, <1>5 DEF Ended
<1>10. key(id, "acknowledged") \notin Notifications(r, e)
  BY <1>1, <1>2, <1>3, <1>4, <1>5
<1>11. QED  BY <1>1, <1>6, <1>7, <1>8, <1>9, <1>10

-----------------------------------------------------------------------------
(* Incidents that are resolved outside the evaluator. *)

(* The incidents S are resolved, with their notifications and their rows. *)
Closes(S) ==
    /\ \A id \in S : id \in Incident /\ Unresolved(id)
    /\ incidents' \in [Incident -> IncidentRow]
    /\ \A id \in Incident : IF id \in S THEN /\ incidents'[id].state = "resolved"
                                             /\ incidents'[id].cond = incidents[id].cond
                                        ELSE incidents'[id] = incidents[id]
    /\ \A id \in Incident :
         /\ key(id, "opened") \in outbox' <=> key(id, "opened") \in outbox
         /\ key(id, "acknowledged") \in outbox' <=> key(id, "acknowledged") \in outbox
         /\ key(id, "resolved") \in outbox' <=> key(id, "resolved") \in outbox \/ id \in S
    /\ DOMAIN series' = Rule
    /\ \A r \in Rule : DOMAIN series'[r] = Series
    /\ \A r \in Rule, s \in Series :
         \/ series'[r][s] = series[r][s]
         \/ /\ series'[r][s] = NoRow
            /\ \A id \in Incident : id[1] = r /\ Unresolved(id) /\ series[r][s].incident = id => id \in S

(* The keys of a set of resolved incidents. *)
LEMMA ResolvedKeys ==
    ASSUME NEW S, outbox' = outbox \cup {key(id, "resolved") : id \in S}, NEW id
    PROVE  /\ key(id, "opened") \in outbox' <=> key(id, "opened") \in outbox
           /\ key(id, "acknowledged") \in outbox' <=> key(id, "acknowledged") \in outbox
           /\ key(id, "resolved") \in outbox' <=> key(id, "resolved") \in outbox \/ id \in S
<1> DEFINE K == {key(jd, "resolved") : jd \in S}
<1>1. \A a \in K : a.kind = "resolved" /\ a.inc \in S
  BY DEF key
<1>2. /\ key(id, "opened").kind = "opened"
      /\ key(id, "acknowledged").kind = "acknowledged" /\ key(id, "resolved").inc = id
  BY DEF key
<1>3. id \in S => key(id, "resolved") \in K
  OBVIOUS
<1>4. outbox' = outbox \cup K
  OBVIOUS
<1> HIDE DEF K
<1>5. key(id, "opened") \notin K /\ key(id, "acknowledged") \notin K
  BY <1>1, <1>2
<1>6. key(id, "resolved") \in K => id \in S
  BY <1>1, <1>2
<1>7. QED  BY <1>3, <1>4, <1>5, <1>6

LEMMA ClosedRow ==
    ASSUME NEW x \in IncidentRow, NEW reason \in Reason
    PROVE  LET y == [x EXCEPT !.state = "resolved", !.reason = reason] IN
           y \in IncidentRow /\ y.state = "resolved" /\ y.cond = x.cond
BY DEF IncidentRow

LEMMA RuleCloses ==
    ASSUME Typed, RowsStory, NEW r \in Rule, NEW reason \in Reason, ResolveRule(r, reason)
    PROVE  /\ Closes({id \in Incident : id[1] = r /\ Unresolved(id)})
           /\ \A s \in Series : series'[r][s] = NoRow
<1> DEFINE open == {id \in Incident : id[1] = r /\ Unresolved(id)}
           new(id) == IF id \in open
                      THEN [incidents[id] EXCEPT !.state = "resolved", !.reason = reason]
                      ELSE incidents[id]
<1>1. /\ incidents' = [id \in Incident |-> new(id)]
      /\ outbox' = outbox \cup {key(id, "resolved") : id \in open}
      /\ series' = [series EXCEPT ![r] = [s \in Series |-> NoRow]]
  BY DEF ResolveRule
<1>2. incidents \in [Incident -> IncidentRow]
  BY DEF Typed
<1>3. \A id \in open : id \in Incident /\ Unresolved(id)
  OBVIOUS
<1>4. \A id \in Incident : id[1] = r /\ Unresolved(id) => id \in open
  OBVIOUS
<1> HIDE DEF open
<1>5. \A id \in Incident : /\ new(id) \in IncidentRow
                           /\ IF id \in open THEN /\ new(id).state = "resolved"
                                                  /\ new(id).cond = incidents[id].cond
                                             ELSE new(id) = incidents[id]
  BY <1>2, ClosedRow
<1> HIDE DEF new
<1>6. DOMAIN series = Rule /\ \A q \in Rule : DOMAIN series[q] = Series
  BY DEF RowsStory
<1>7. /\ DOMAIN series' = Rule
      /\ \A q \in Rule : DOMAIN series'[q] = Series
      /\ \A q \in Rule, s \in Series : series'[q][s] = IF q = r THEN NoRow ELSE series[q][s]
  BY <1>1, <1>6
<1>8. \A q \in Rule, s \in Series :
         \/ series'[q][s] = series[q][s]
         \/ /\ series'[q][s] = NoRow
            /\ \A id \in Incident : id[1] = q /\ Unresolved(id) /\ series[q][s].incident = id => id \in open
  BY <1>4, <1>7
<1>9. \A id \in Incident :
         /\ key(id, "opened") \in outbox' <=> key(id, "opened") \in outbox
         /\ key(id, "acknowledged") \in outbox' <=> key(id, "acknowledged") \in outbox
         /\ key(id, "resolved") \in outbox' <=> key(id, "resolved") \in outbox \/ id \in open
  BY <1>1, ResolvedKeys
<1>10. Closes(open)
  BY <1>1, <1>3, <1>5, <1>7, <1>8, <1>9 DEF Closes
<1>11. QED  BY <1>7, <1>10 DEF open

LEMMA IncidentCloses ==
    ASSUME Typed, RowsStory, NEW id \in Incident, ResolveIncident(id)
    PROVE  Closes({id})
<1> DEFINE x == [incidents[id] EXCEPT !.state = "resolved", !.reason = "manual"]
           rows == [s \in Series |-> IF series[id[1]][s].incident = id THEN NoRow ELSE series[id[1]][s]]
<1>0. id[1] \in Rule
  BY DEF Incident
<1>1. incidents \in [Incident -> IncidentRow]
  BY DEF Typed
<1>2. DOMAIN series = Rule /\ \A q \in Rule : DOMAIN series[q] = Series
  BY DEF RowsStory
<1>3. incidents' = [incidents EXCEPT ![id] = x]
  BY <1>1 DEF ResolveIncident
<1>4. /\ Unresolved(id)
      /\ outbox' = outbox \cup {key(jd, "resolved") : jd \in {id}}
      /\ series' = [series EXCEPT ![id[1]] = rows]
  BY <1>0, <1>2 DEF ResolveIncident
<1>5. x \in IncidentRow /\ x.state = "resolved" /\ x.cond = incidents[id].cond
  BY <1>1, ClosedRow DEF Reason
<1> HIDE DEF x
<1>6. /\ incidents' \in [Incident -> IncidentRow]
      /\ \A jd \in Incident : IF jd \in {id} THEN /\ incidents'[jd].state = "resolved"
                                                  /\ incidents'[jd].cond = incidents[jd].cond
                                             ELSE incidents'[jd] = incidents[jd]
  BY <1>1, <1>3, <1>5
<1>7. \A s \in Series : rows[s] = IF series[id[1]][s].incident = id THEN NoRow ELSE series[id[1]][s]
  OBVIOUS
<1>8. DOMAIN rows = Series
  OBVIOUS
<1> HIDE DEF rows
<1>9. DOMAIN series' = Rule /\ \A q \in Rule : DOMAIN series'[q] = Series
  BY <1>2, <1>4, <1>8
<1>10. \A q \in Rule, s \in Series :
         \/ series'[q][s] = series[q][s]
         \/ series'[q][s] = NoRow /\ q = id[1] /\ series[q][s].incident = id
  BY <1>0, <1>2, <1>4, <1>7
<1>11. \A jd \in Incident :
         /\ key(jd, "opened") \in outbox' <=> key(jd, "opened") \in outbox
         /\ key(jd, "acknowledged") \in outbox' <=> key(jd, "acknowledged") \in outbox
         /\ key(jd, "resolved") \in outbox' <=> key(jd, "resolved") \in outbox \/ jd \in {id}
  BY <1>4, ResolvedKeys
<1>12. QED  BY <1>4, <1>6, <1>9, <1>10, <1>11 DEF Closes

-----------------------------------------------------------------------------
(* What no step undoes. *)

Acked(id) ==
    /\ incidents[id].state = "open"
    /\ incidents' \in [Incident -> IncidentRow]
    /\ incidents'[id].state = "acknowledged" /\ incidents'[id].cond = incidents[id].cond
    /\ \A jd \in Incident \ {id} : incidents'[jd] = incidents[jd]
    /\ \A jd \in Incident :
         /\ key(jd, "opened") \in outbox' <=> key(jd, "opened") \in outbox
         /\ key(jd, "resolved") \in outbox' <=> key(jd, "resolved") \in outbox
         /\ key(jd, "acknowledged") \in outbox' <=> key(jd, "acknowledged") \in outbox \/ jd = id

LEMMA AckEffect ==
    ASSUME Typed, NEW id \in Incident, AcknowledgeIncident(id)
    PROVE  Acked(id)
<1> DEFINE x == [incidents[id] EXCEPT !.state = "acknowledged"]
<1>1. incidents \in [Incident -> IncidentRow] /\ incidents[id] \in IncidentRow
  BY DEF Typed
<1>2. incidents' = [incidents EXCEPT ![id] = x] /\ incidents[id].state = "open"
      /\ outbox' = outbox \cup {key(id, "acknowledged")}
  BY <1>1 DEF AcknowledgeIncident
<1>3. x \in IncidentRow /\ x.state = "acknowledged" /\ x.cond = incidents[id].cond
  BY <1>1 DEF IncidentRow
<1> HIDE DEF x
<1>4. \A jd : /\ key(jd, "opened") # key(id, "acknowledged")
              /\ key(jd, "resolved") # key(id, "acknowledged")
              /\ key(jd, "acknowledged") = key(id, "acknowledged") <=> jd = id
  BY DEF key
<1>5. QED  BY <1>1, <1>2, <1>3, <1>4 DEF Acked

(* The kinds of steps, with the effect of those that resolve or acknowledge. *)
Kind ==
    \/ Rests
    \/ \E i \in Pod, r \in Rule : Begins(i, r) \/ Reads(i, r) \/ Commits(i, r)
    \/ \E r \in Rule : /\ Edited(r) /\ LeasesKept
                       /\ UNCHANGED <<eval, window, judged, overtaken>>
                       /\ \/ Keeps(r)
                          \/ /\ Closes({id \in Incident : id[1] = r /\ Unresolved(id)})
                             /\ \A s \in Series : series'[r][s] = NoRow
    \/ \E id \in Incident : /\ Acked(id)
                            /\ UNCHANGED <<rules, lease, window, eval, series, judged, overtaken>>
    \/ \E id \in Incident : /\ Closes({id})
                            /\ UNCHANGED <<rules, lease, window, eval, judged, overtaken>>

LEMMA StepKind ==
    ASSUME Typed, RowsStory, EvalsStory, Created, [Next]_vars
    PROVE  Kind
<1>1. Effect
  BY StepEffect
<1>2. ASSUME NEW r \in Rule, Edits(r) PROVE Kind
  BY <1>2, RuleCloses DEF Kind, Edits
<1>3. ASSUME NEW id \in Incident, AcknowledgeIncident(id) PROVE Kind
  <2>1. Acked(id) /\ UNCHANGED <<rules, lease, window, eval, series, judged, overtaken>>
    BY <1>3, AckEffect DEF AcknowledgeIncident, leaseVars
  <2>2. QED  BY <2>1 DEF Kind
<1>4. ASSUME NEW id \in Incident, ResolveIncident(id) PROVE Kind
  <2>1. Closes({id}) /\ UNCHANGED <<rules, lease, window, eval, judged, overtaken>>
    BY <1>4, IncidentCloses DEF ResolveIncident, leaseVars
  <2>2. QED  BY <2>1 DEF Kind
<1>5. CASE Rests
  BY <1>5 DEF Kind
<1>6. ASSUME NEW i \in Pod, NEW r \in Rule, Begins(i, r) \/ Reads(i, r) \/ Commits(i, r) PROVE Kind
  BY <1>6 DEF Kind
<1>7. QED  BY <1>1, <1>2, <1>3, <1>4, <1>5, <1>6 DEF Effect

(* An incident does not disappear, and the end of one is final. *)
Progress(inc, inc2) ==
    \A id \in Incident :
        /\ inc[id].state # "none" => inc2[id].state # "none"
        /\ inc[id].state = "resolved" => inc2[id] = inc[id]

LEMMA IncidentsProgress ==
    ASSUME Typed, EvalsStory, PlansStory, NotYounger, Kind
    PROVE  incidents' \in [Incident -> IncidentRow] /\ Progress(incidents, incidents')
<1>0. incidents \in [Incident -> IncidentRow]
  BY DEF Typed
<1>1. CASE UNCHANGED incidents
  BY <1>0, <1>1 DEF Progress
<1>2. ASSUME NEW i \in Pod, NEW r \in Rule, Commits(i, r)
      PROVE  incidents' \in [Incident -> IncidentRow] /\ Progress(incidents, incidents')
  <2> DEFINE e == eval[i][r]
  <2>1. \A id \in Incident : CommittedIncident(e, r, id)
    BY <1>2, CommitIncidents
  <2>2. e.cond \in Cond /\ \A id \in Incident : Opened(e, r, id) => incidents[id].state = "none"
    BY <1>2, CommitFinds
  <2>3. incidents' = [id \in Incident |-> IncidentAfter(r, e, id)]
    BY <1>2 DEF Commits, Apply
  <2> HIDE DEF e
  <2>4. [state |-> "open", reason |-> "none", cond |-> e.cond] \in IncidentRow
    BY <2>2 DEF IncidentRow, Reason
  <2>5. \A id \in Incident : incidents'[id] \in IncidentRow
    BY <1>0, <2>1, <2>4 DEF CommittedIncident
  <2>6. \A id \in Incident : incidents[id].state # "none" => incidents'[id].state # "none"
    BY <2>1, <2>2 DEF CommittedIncident
  <2>7. \A id \in Incident : incidents[id].state = "resolved" => incidents'[id] = incidents[id]
    BY <2>1, <2>2 DEF CommittedIncident
  <2>8. incidents' \in [Incident -> IncidentRow]
    BY <2>3, <2>5
  <2>9. QED  BY <2>6, <2>7, <2>8 DEF Progress
<1>3. ASSUME NEW S, Closes(S)
      PROVE  incidents' \in [Incident -> IncidentRow] /\ Progress(incidents, incidents')
  BY <1>3 DEF Closes, Progress, Unresolved
<1>4. ASSUME NEW id \in Incident, Acked(id)
      PROVE  incidents' \in [Incident -> IncidentRow] /\ Progress(incidents, incidents')
  BY <1>4 DEF Acked, Progress
<1>5. \/ UNCHANGED incidents
      \/ \E i \in Pod, r \in Rule : Commits(i, r)
      \/ \E S : Closes(S)
      \/ \E id \in Incident : Acked(id)
  BY DEF Kind, Rests, Begins, Reads, Keeps, Stored
<1>6. QED  BY <1>1, <1>2, <1>3, <1>4, <1>5

(* Unless it is a commit, a step leaves a row or deletes it. *)
Quiet ==
    /\ LeasesKept
    /\ DOMAIN series' = Rule
    /\ \A r \in Rule : DOMAIN series'[r] = Series
    /\ \A r \in Rule, s \in Series : series'[r][s] \in {series[r][s], NoRow}

LEMMA QuietOrCommit ==
    ASSUME Typed, RowsStory, Kind
    PROVE  Quiet \/ \E i \in Pod, r \in Rule : Commits(i, r)
<1>1. ASSUME UNCHANGED series, LeasesKept PROVE Quiet
  BY <1>1 DEF Quiet, RowsStory
<1>2. ASSUME NEW S, Closes(S), LeasesKept PROVE Quiet
  BY <1>2 DEF Quiet, Closes
<1>3. UNCHANGED lease => LeasesKept
  BY DEF LeasesKept, Typed
<1>4. \/ UNCHANGED series /\ LeasesKept
      \/ \E S : Closes(S) /\ LeasesKept
      \/ \E i \in Pod, r \in Rule : Commits(i, r)
  BY <1>3 DEF Kind, Rests, Begins, Reads, Keeps, Stored
<1>5. QED  BY <1>1, <1>2, <1>4

-----------------------------------------------------------------------------
(* Each part of the invariant is preserved. *)

(* What a commit stores. *)
CommitStored(r, e) ==
    /\ DOMAIN series' = Rule
    /\ \A q \in Rule : DOMAIN series'[q] = Series
    /\ \A q \in Rule \ {r}, s \in Series : series'[q][s] = series[q][s]
    /\ \A s \in Series : series'[r][s] = StoredRow(r, e, s)
    /\ lease' \in [Rule -> Row]
    /\ \A q \in Rule : lease'[q].last = IF q = r THEN e.end ELSE lease[q].last
    /\ judged' \in [Rule -> [Series -> Cond]]
    /\ \A q \in Rule, s \in Series :
           judged'[q][s] = IF q = r /\ Planned(e, s) THEN e.cond ELSE judged[q][s]

LEMMA CommitStores ==
    ASSUME Typed, RowsStory, EvalsStory, PlansStory, NotYounger,
           NEW i \in Pod, NEW r \in Rule, Commits(i, r)
    PROVE  CommitStored(r, eval[i][r])
<1> DEFINE e == eval[i][r]
           rows == [s \in Series |-> StoredRow(r, e, s)]
           verdicts == [s \in Series |-> IF Planned(e, s) THEN e.cond ELSE judged[r][s]]
           l == [lease[r] EXCEPT !.last = e.end, !.next = e.end + 1]
<1>1. e.end \in Nat /\ e.end + 1 \in Nat /\ e.cond \in Cond
  <2>1. e.end \in 1..MaxWindow /\ e.cond \in Cond
    BY CommitFinds
  <2>2. QED  BY <2>1, EvalAssumption
<1>2. lease \in [Rule -> Row] /\ judged \in [Rule -> [Series -> Cond]]
  BY DEF Typed
<1>3. DOMAIN series = Rule /\ \A q \in Rule : DOMAIN series[q] = Series
  BY DEF RowsStory
<1>4. series' = [series EXCEPT ![r] = rows]
  BY DEF Commits, Apply
<1>5. lease' = [lease EXCEPT ![r] = l]
  BY <1>2 DEF Commits, Apply
<1>6. judged' = [judged EXCEPT ![r] = verdicts]
  BY <1>2 DEF Commits, Apply
<1> HIDE DEF e
<1>7. l \in Row /\ l.last = e.end
  BY <1>1, <1>2 DEF Row
<1>8. \A s \in Series : rows[s] = StoredRow(r, e, s)
  OBVIOUS
<1>9. verdicts \in [Series -> Cond]
      /\ \A s \in Series : verdicts[s] = IF Planned(e, s) THEN e.cond ELSE judged[r][s]
  BY <1>1, <1>2
<1>10. DOMAIN rows = Series
  OBVIOUS
<1> HIDE DEF rows, l, verdicts
<1>11. /\ DOMAIN series' = Rule
       /\ \A q \in Rule : DOMAIN series'[q] = Series
       /\ \A q \in Rule \ {r}, s \in Series : series'[q][s] = series[q][s]
       /\ \A s \in Series : series'[r][s] = StoredRow(r, e, s)
  BY <1>3, <1>4, <1>8, <1>10
<1>12. /\ lease' \in [Rule -> Row]
       /\ \A q \in Rule : lease'[q].last = IF q = r THEN e.end ELSE lease[q].last
  BY <1>2, <1>5, <1>7
<1>13. /\ judged' \in [Rule -> [Series -> Cond]]
       /\ \A q \in Rule, s \in Series :
              judged'[q][s] = IF q = r /\ Planned(e, s) THEN e.cond ELSE judged[q][s]
  BY <1>2, <1>6, <1>9
<1>14. QED  BY <1>11, <1>12, <1>13 DEF CommitStored, e

LEMMA TypedStep ==
    ASSUME Typed, RowsStory, EvalsStory, PlansStory, NotYounger, Kind
    PROVE  Typed'
<1>1. incidents' \in [Incident -> IncidentRow]
  BY IncidentsProgress
<1>2. CASE \E i \in Pod, r \in Rule : Commits(i, r)
  <2>1. PICK i \in Pod, r \in Rule : Commits(i, r)
    BY <1>2
  <2>2. lease' \in [Rule -> Row] /\ judged' \in [Rule -> [Series -> Cond]]
    BY <2>1, CommitStores DEF CommitStored
  <2>3. UNCHANGED <<rules, window>>
    BY <2>1 DEF Commits
  <2>4. QED  BY <1>1, <2>2, <2>3 DEF Typed
<1>3. CASE ~\E i \in Pod, r \in Rule : Commits(i, r)
  <2>1. LeasesKept \/ UNCHANGED lease
    BY <1>3 DEF Kind, Rests, Begins, Reads
  <2>2. rules' \in [Rule -> RuleRow]
    BY <1>3 DEF Kind, Rests, Begins, Reads, Edited, Stored, Typed
  <2>3. window' \in 1..MaxWindow
    BY <1>3 DEF Kind, Rests, Begins, Reads, Typed
  <2>4. UNCHANGED judged
    BY <1>3 DEF Kind, Rests, Begins, Reads, Stored
  <2>5. lease' \in [Rule -> Row]
    BY <2>1 DEF LeasesKept, Typed
  <2>6. QED  BY <1>1, <2>2, <2>3, <2>4, <2>5 DEF Typed
<1>4. QED  BY <1>2, <1>3

LEMMA NoRowIsRow == IsRow(NoRow) /\ NoRow.incident = NoIncident /\ NoRow.state = "none"
BY DEF IsRow, NoRow, Field

(* A row that names an incident goes on doing so. *)
LEMMA NamesStay ==
    ASSUME NEW inc, NEW inc2, Progress(inc, inc2), NEW row, NEW r, NEW s, Names(inc, row, r, s)
    PROVE  Names(inc2, row, r, s)
BY DEF Names, Progress

LEMMA RowsStep ==
    ASSUME Typed, RowsStory, EvalsStory, PlansStory, NotYounger, Kind
    PROVE  RowsStory'
<1>1. Progress(incidents, incidents')
  BY IncidentsProgress
<1>2. \A r \in Rule, s \in Series : IsRow(series[r][s]) /\ Names(incidents', series[r][s], r, s)
  BY <1>1, NamesStay DEF RowsStory
<1>3. \A r \in Rule, s \in Series : IsRow(NoRow) /\ Names(incidents', NoRow, r, s)
  BY NoRowIsRow DEF Names
<1>4. CASE Quiet
  <2>1. \A r \in Rule, s \in Series : IsRow(series'[r][s]) /\ Names(incidents', series'[r][s], r, s)
    BY <1>2, <1>3, <1>4 DEF Quiet
  <2>2. QED  BY <1>4, <2>1 DEF RowsStory, Quiet
<1>5. ASSUME NEW i \in Pod, NEW r \in Rule, Commits(i, r) PROVE RowsStory'
  <2> DEFINE e == eval[i][r]
  <2>1. CommitStored(r, e)
    BY <1>5, CommitStores
  <2>2. \A id \in Incident : CommittedIncident(e, r, id)
    BY <1>5, CommitIncidents
  <2>3. /\ e.end \in 1..MaxWindow
        /\ \A s \in Series : PlanSound(e, r, s) /\ Read(incidents, e, r, s)
    BY <1>5, CommitFinds
  <2> HIDE DEF e
  <2>4. ASSUME NEW s \in Series, Planned(e, s)
        PROVE  IsRow(PlannedRow(e, r, s)) /\ Names(incidents', PlannedRow(e, r, s), r, s)
    <3> DEFINE q == PlannedRow(e, r, s)
    <3>1. IsRow(q) /\ q.incident = IF Opens(e, s) THEN <<r, s, e.end>> ELSE Outcome(e, s).next.incident
      BY <2>3 DEF PlanSound
    <3>2. CASE Opens(e, s)
      <4> DEFINE id == <<r, s, e.end>>
      <4>1. id \in Incident /\ id[1] = r /\ id[2] = s
        BY <2>3 DEF Incident
      <4>2. Opened(e, r, id)
        BY <3>2 DEF Opened
      <4>3. incidents'[id].state = "open"
        BY <2>2, <4>1, <4>2 DEF CommittedIncident
      <4>4. QED  BY <3>1, <3>2, <4>1, <4>3 DEF Names
    <3>3. CASE ~Opens(e, s)
      <4>1. q.incident \in {Prev(e, s).incident, NoIncident}
        BY <2>3, <3>1, <3>3 DEF PlanSound, StepSound, GoesOn
      <4>2. q.incident # NoIncident => q.incident = e.snap[s].incident
        BY <2>3, <4>1 DEF PlanSound
      <4>3. Names(incidents', e.snap[s], r, s)
        BY <1>1, <2>3, NamesStay DEF Read
      <4> HIDE DEF q
      <4>4. Names(incidents', q, r, s)
        BY <4>2, <4>3 DEF Names
      <4>5. QED  BY <3>1, <4>4 DEF q
    <3>4. QED  BY <3>2, <3>3
  <2>5. \A s \in Series : \/ Planned(e, s) /\ series'[r][s] = PlannedRow(e, r, s)
                          \/ series'[r][s] \in {series[r][s], NoRow}
    BY <2>1 DEF CommitStored, StoredRow
  <2>6. \A q \in Rule, s \in Series : IsRow(series'[q][s]) /\ Names(incidents', series'[q][s], q, s)
    <3>1. TAKE q \in Rule, s \in Series
    <3>2. CASE q # r
      BY <1>2, <2>1, <3>2 DEF CommitStored
    <3>3. CASE q = r
      BY <1>2, <1>3, <2>4, <2>5, <3>3
    <3>4. QED  BY <3>2, <3>3
  <2>7. QED  BY <2>1, <2>6 DEF RowsStory, CommitStored
<1>6. QED  BY <1>4, <1>5, QuietOrCommit

(* What becomes of an evaluation in a step. *)
EvalFate(i, r) ==
    \/ eval'[i][r] \in {eval[i][r], NoEval}
    \/ /\ UNCHANGED <<Stored, lease>>
       /\ eval'[i][r].phase = "rule"
       /\ Begun(eval'[i][r], rules[r])
    \/ /\ UNCHANGED <<Stored, lease>>
       /\ eval[i][r].phase = "rule"
       /\ ReadInto(eval[i][r], r, eval'[i][r])

LEMMA EvalFates ==
    ASSUME Typed, EvalsStory, Kind
    PROVE  /\ DOMAIN eval' = Pod
           /\ \A i \in Pod : DOMAIN eval'[i] = Rule
           /\ \A i \in Pod, r \in Rule : EvalFate(i, r)
<1>0. DOMAIN eval = Pod /\ \A i \in Pod : DOMAIN eval[i] = Rule
  BY DEF EvalsStory
<1>1. CASE EvalsKept
  BY <1>1 DEF EvalsKept, EvalFate
<1>2. ASSUME NEW i \in Pod, NEW r \in Rule, Begins(i, r)
      PROVE  /\ DOMAIN eval' = Pod
             /\ \A j \in Pod : DOMAIN eval'[j] = Rule
             /\ \A j \in Pod, q \in Rule : EvalFate(j, q)
  <2>1. PICK prev : eval' = [eval EXCEPT ![i][r] =
           [phase |-> "rule", version |-> rules[r].version, cond |-> rules[r].cond,
            cfg |-> rules[r].cfg, end |-> window, prev |-> prev]]
    BY <1>2 DEF Begins
  <2> DEFINE e == [phase |-> "rule", version |-> rules[r].version, cond |-> rules[r].cond,
                   cfg |-> rules[r].cfg, end |-> window, prev |-> prev]
  <2>2. e.phase = "rule" /\ e.version = rules[r].version /\ e.cond = rules[r].cond
        /\ e.cfg = rules[r].cfg /\ e.end = window
    OBVIOUS
  <2>3. eval' = [eval EXCEPT ![i][r] = e]
    BY <2>1
  <2> HIDE DEF e
  <2>4. rules[r] \in RuleRow /\ window \in 1..MaxWindow
    BY DEF Typed
  <2>5. rules[r].version \in Nat /\ rules[r].cond \in Cond /\ rules[r].cfg \in Config
    BY <2>4, EvalAssumption DEF RuleRow
  <2>6. Begun(e, rules[r])
    BY <2>2, <2>4, <2>5 DEF Begun
  <2>7. \A j \in Pod, q \in Rule : eval'[j][q] = IF j = i /\ q = r THEN e ELSE eval[j][q]
    BY <1>0, <2>3
  <2>8. UNCHANGED <<Stored, lease>>
    BY <1>2 DEF Begins
  <2>9. DOMAIN eval' = Pod /\ \A j \in Pod : DOMAIN eval'[j] = Rule
    BY <1>0, <2>3
  <2>10. QED  BY <2>2, <2>6, <2>7, <2>8, <2>9 DEF EvalFate
<1>3. ASSUME NEW i \in Pod, NEW r \in Rule, Reads(i, r)
      PROVE  /\ DOMAIN eval' = Pod
             /\ \A j \in Pod : DOMAIN eval'[j] = Rule
             /\ \A j \in Pod, q \in Rule : EvalFate(j, q)
  <2>1. PICK e : eval' = [eval EXCEPT ![i][r] = e] /\ ReadInto(eval[i][r], r, e)
    BY <1>3 DEF Reads
  <2>2. \A j \in Pod, q \in Rule : eval'[j][q] = IF j = i /\ q = r THEN e ELSE eval[j][q]
    BY <1>0, <2>1
  <2>3. UNCHANGED <<Stored, lease>> /\ eval[i][r].phase = "rule"
    BY <1>3 DEF Reads
  <2>4. DOMAIN eval' = Pod /\ \A j \in Pod : DOMAIN eval'[j] = Rule
    BY <1>0, <2>1
  <2>5. QED  BY <2>1, <2>2, <2>3, <2>4 DEF EvalFate
<1>4. UNCHANGED eval => EvalsKept
  BY <1>0 DEF EvalsKept
<1>5. \A i \in Pod, r \in Rule : Commits(i, r) => EvalsKept
  BY EvalStepsKeep DEF Commits
<1>6. EvalsKept \/ \E i \in Pod, r \in Rule : Begins(i, r) \/ Reads(i, r)
  BY <1>4, <1>5 DEF Kind, Rests
<1>7. QED  BY <1>1, <1>2, <1>3, <1>6

(* A new edition of a rule has a later version, or the condition it had. *)
LEMMA BegunStays ==
    ASSUME Typed, Kind, NEW r \in Rule, NEW e, Begun(e, rules[r])
    PROVE  Begun(e, rules'[r])
<1>1. CASE rules'[r] = rules[r]
  BY <1>1
<1>2. CASE Edited(r)
  <2>1. rules[r] \in RuleRow /\ rules'[r] \in RuleRow
    BY <1>2 DEF Edited, Typed
  <2>2. rules[r].version \in Nat /\ rules'[r].version \in Nat
    BY <2>1, EvalAssumption DEF RuleRow
  <2>3. /\ rules'[r].version >= rules[r].version
        /\ rules'[r].cond # rules[r].cond => rules'[r].version > rules[r].version
    BY <1>2 DEF Edited
  <2>4. QED  BY <2>2, <2>3 DEF Begun
<1>3. rules'[r] = rules[r] \/ Edited(r)
  BY DEF Kind, Rests, Begins, Reads, Commits, Stored, Edited
<1>4. QED  BY <1>1, <1>2, <1>3

LEMMA EvalsStep ==
    ASSUME Typed, EvalsStory, Kind
    PROVE  EvalsStory'
<1>1. ASSUME NEW i \in Pod, NEW r \in Rule
      PROVE  /\ eval'[i][r].phase \in {"idle", "rule", "plan"}
             /\ eval'[i][r].phase # "idle" => Begun(eval'[i][r], rules'[r])
  <2>0. EvalFate(i, r) /\ eval[i][r].phase \in {"idle", "rule", "plan"}
        /\ (eval[i][r].phase # "idle" => Begun(eval[i][r], rules[r]))
    BY EvalFates DEF EvalsStory
  <2>1. CASE eval'[i][r] = eval[i][r]
    <3>1. eval[i][r].phase # "idle" => Begun(eval[i][r], rules'[r])
      BY <2>0, BegunStays
    <3>2. QED  BY <2>0, <2>1, <3>1
  <2>2. CASE eval'[i][r] = NoEval
    BY <2>2 DEF NoEval
  <2>3. CASE UNCHANGED Stored /\ eval'[i][r].phase = "rule" /\ Begun(eval'[i][r], rules[r])
    BY <2>3 DEF Stored
  <2>4. CASE UNCHANGED Stored /\ eval[i][r].phase = "rule" /\ ReadInto(eval[i][r], r, eval'[i][r])
    <3>1. Begun(eval[i][r], rules[r]) /\ rules'[r] = rules[r]
      BY <2>0, <2>4 DEF Stored
    <3>2. QED  BY <2>4, <3>1 DEF ReadInto, Begun
  <2>5. QED  BY <2>0, <2>1, <2>2, <2>3, <2>4 DEF EvalFate
<1>2. DOMAIN eval' = Pod /\ \A i \in Pod : DOMAIN eval'[i] = Rule
  BY EvalFates
<1>3. QED  BY <1>1, <1>2 DEF EvalsStory

LEMMA PlansStep ==
    ASSUME Typed, RowsStory, EvalsStory, PlansStory, NotYounger, Kind
    PROVE  PlansStory'
<1>1. Progress(incidents, incidents')
  BY IncidentsProgress
<1>2. SUFFICES ASSUME NEW i \in Pod, NEW r \in Rule, eval'[i][r].phase = "plan", NEW s \in Series
               PROVE  Read(incidents', eval'[i][r], r, s)
  BY DEF PlansStory
<1> DEFINE e == eval'[i][r]
<1>3. EvalFate(i, r)
  BY EvalFates
<1>4. CASE e = eval[i][r]
  <2>1. Read(incidents, e, r, s)
    BY <1>2, <1>4 DEF PlansStory
  <2> HIDE DEF e
  <2>2. Names(incidents', e.snap[s], r, s) /\ Names(incidents, e.snap[s], r, s)
    BY <1>1, <2>1, NamesStay DEF Read
  <2>3. e.snap[s].incident # NoIncident /\ e.inc[s] = "resolved" =>
            incidents'[e.snap[s].incident].state = "resolved"
    BY <1>1, <2>1, <2>2 DEF Read, Names, Progress
  <2>4. QED  BY <2>1, <2>2, <2>3 DEF Read, e
<1>5. CASE UNCHANGED Stored /\ ReadInto(eval[i][r], r, e)
  <2>1. incidents' = incidents /\ ReadInto(eval[i][r], r, e)
    BY <1>5 DEF Stored
  <2> HIDE DEF e
  <2>2. IsRow(series[r][s]) /\ Names(incidents, series[r][s], r, s)
    BY DEF RowsStory
  <2>3. e.obs[s] \in Verdict \cup {"absent"} /\ e.failed \in BOOLEAN
    BY <2>1 DEF ReadInto
  <2>4. CASE e.failed = TRUE
    <3>1. e.snap[s] = NoRow
      BY <2>1, <2>4 DEF ReadInto
    <3>2. QED  BY <2>3, <3>1, NoRowIsRow DEF Read, Names, e
  <2>5. CASE e.failed = FALSE
    <3>1. /\ e.snap[s] = series[r][s]
          /\ series[r][s].incident # NoIncident => e.inc[s] = incidents[series[r][s].incident].state
      BY <2>1, <2>5 DEF ReadInto
    <3>2. QED  BY <2>1, <2>2, <2>3, <3>1 DEF Read, Names, e
  <2>6. QED  BY <2>3, <2>4, <2>5
<1>6. e # NoEval
  BY <1>2 DEF NoEval
<1>7. QED  BY <1>2, <1>3, <1>4, <1>5, <1>6 DEF EvalFate

LEMMA SnapsStep ==
    ASSUME Typed, RowsStory, EvalsStory, PlansStory, SnapsFresh, NotYounger, Kind
    PROVE  SnapsFresh'
<1>2. SUFFICES ASSUME NEW i \in Pod, NEW r \in Rule, eval'[i][r].phase = "plan"
               PROVE  Fresh(eval'[i][r], series'[r], lease'[r].last)
  BY DEF SnapsFresh
<1> DEFINE e == eval'[i][r]
<1>3. EvalFate(i, r) /\ lease[r].last \in Nat
  BY EvalFates DEF Typed, Row
<1>4. CASE e = eval[i][r]
  <2>1. Fresh(e, series[r], lease[r].last)
    BY <1>2, <1>4 DEF SnapsFresh
  <2> HIDE DEF e
  <2>2. CASE Quiet
    <3>1. lease'[r].last = lease[r].last /\ \A s \in Series : series'[r][s] \in {series[r][s], NoRow}
      BY <2>2 DEF Quiet, LeasesKept
    <3>2. QED  BY <2>1, <3>1 DEF Fresh, e
  <2>3. ASSUME NEW j \in Pod, NEW q \in Rule, Commits(j, q)
        PROVE  Fresh(eval'[i][r], series'[r], lease'[r].last)
    <3>1. CommitStored(q, eval[j][q])
      BY <2>3, CommitStores
    <3>2. eval[j][q].end \in 1..MaxWindow /\ eval[j][q].end > lease[q].last
      BY <2>3, CommitFinds
    <3>3. CASE q = r
      <4>1. lease'[r].last = eval[j][q].end
        BY <3>1, <3>3 DEF CommitStored
      <4>2. lease'[r].last \in Nat /\ lease'[r].last > lease[r].last
        BY <3>2, <3>3, <4>1, EvalAssumption
      <4>3. e.base \in Nat /\ e.base <= lease[r].last /\ e.failed \in BOOLEAN
        BY <2>1 DEF Fresh
      <4>4. e.base <= lease'[r].last /\ e.base # lease'[r].last
        BY <1>3, <4>2, <4>3
      <4>5. QED  BY <4>3, <4>4 DEF Fresh, e
    <3>4. CASE q # r
      <4>1. lease'[r].last = lease[r].last /\ \A s \in Series : series'[r][s] = series[r][s]
        BY <3>1, <3>4 DEF CommitStored
      <4>2. QED  BY <2>1, <4>1 DEF Fresh, e
    <3>5. QED  BY <3>3, <3>4
  <2>4. QED  BY <2>2, <2>3, QuietOrCommit
<1>5. CASE UNCHANGED <<Stored, lease>> /\ ReadInto(eval[i][r], r, e)
  <2>1. series' = series /\ lease' = lease
    BY <1>5 DEF Stored
  <2> HIDE DEF e
  <2>2. e.base = lease[r].last /\ e.failed \in BOOLEAN
        /\ (e.failed = FALSE => \A s \in Series : e.snap[s] = series[r][s])
    BY <1>5 DEF ReadInto
  <2>3. QED  BY <1>3, <2>1, <2>2 DEF Fresh, e
<1>6. e # NoEval
  BY <1>2 DEF NoEval
<1>7. QED  BY <1>2, <1>3, <1>4, <1>5, <1>6 DEF EvalFate

LEMMA CreatedStep ==
    ASSUME Created, Kind
    PROVE  Created'
<1>1. CASE rules' = rules
  BY <1>1 DEF Created
<1>2. ASSUME NEW r \in Rule, Edited(r) PROVE Created'
  BY <1>2 DEF Created, Edited
<1>3. rules' = rules \/ \E r \in Rule : Edited(r)
  BY DEF Kind, Rests, Begins, Reads, Commits, Stored
<1>4. QED  BY <1>1, <1>2, <1>3

(* How the state of an incident may change. *)
LEMMA NotYoungerStep ==
    ASSUME Typed, RowsStory, EvalsStory, PlansStory, NotYounger, Kind
    PROVE  NotYounger'
<1>0. \A id \in Incident : id[1] \in Rule /\ id[2] \in Series /\ id[3] \in 1..MaxWindow
  BY DEF Incident
<1>1. ASSUME LeasesKept, \A id \in Incident : incidents'[id].state # "none" => incidents[id].state # "none"
      PROVE  NotYounger'
  BY <1>0, <1>1 DEF NotYounger, LeasesKept
<1>2. ASSUME NEW i \in Pod, NEW r \in Rule, Commits(i, r) PROVE NotYounger'
  <2> DEFINE e == eval[i][r]
  <2>1. \A q \in Rule : lease'[q].last = IF q = r THEN e.end ELSE lease[q].last
    BY <1>2, CommitStores DEF CommitStored
  <2>2. \A id \in Incident : CommittedIncident(e, r, id)
    BY <1>2, CommitIncidents
  <2>3. e.end \in 1..MaxWindow /\ e.end > lease[r].last /\ lease[r].last \in Nat
    BY <1>2, CommitFinds DEF Typed, Row
  <2>3a. \A s \in Series : Resolves(e, s) => /\ Prev(e, s).incident \in Incident
                                             /\ incidents[Prev(e, s).incident].state # "none"
    BY <1>2, CommitFinds
  <2> HIDE DEF e
  <2>4. ASSUME NEW id \in Incident, incidents'[id].state # "none" PROVE id[3] <= lease'[id[1]].last
    <3>1. CASE Opened(e, r, id)
      <4>1. id[1] = r /\ id[3] = e.end
        BY <3>1 DEF Opened
      <4>2. QED  BY <2>1, <2>3, <4>1, EvalAssumption
    <3>2. CASE ~Opened(e, r, id)
      <4>1. Ended(e, id) => incidents[id].state # "none"
        BY <2>3a DEF Ended
      <4>2. incidents[id].state # "none"
        BY <2>2, <2>4, <3>2, <4>1 DEF CommittedIncident
      <4>3. id[3] <= lease[id[1]].last
        BY <4>2 DEF NotYounger
      <4>4. CASE id[1] = r
        <5>1. id[3] <= lease[r].last /\ lease'[id[1]].last = e.end
          BY <2>1, <4>3, <4>4
        <5>2. id[3] \in Nat /\ e.end \in Nat
          BY <1>0, <2>3, EvalAssumption
        <5>3. QED  BY <2>3, <5>1, <5>2
      <4>5. CASE id[1] # r
        BY <1>0, <2>1, <4>3, <4>5
      <4>6. QED  BY <4>4, <4>5
    <3>3. QED  BY <3>1, <3>2
  <2>5. QED  BY <2>4 DEF NotYounger
<1>3. UNCHANGED lease => LeasesKept
  BY DEF LeasesKept, Typed
<1>4. CASE UNCHANGED incidents /\ LeasesKept
  BY <1>1, <1>4
<1>5. ASSUME NEW S, Closes(S), LeasesKept PROVE NotYounger'
  <2>1. \A id \in Incident : incidents'[id].state # "none" => incidents[id].state # "none"
    BY <1>5 DEF Closes, Unresolved
  <2>2. QED  BY <1>1, <1>5, <2>1
<1>6. ASSUME NEW id \in Incident, Acked(id), LeasesKept PROVE NotYounger'
  <2>1. \A jd \in Incident : incidents'[jd].state # "none" => incidents[jd].state # "none"
    BY <1>6 DEF Acked
  <2>2. QED  BY <1>1, <1>6, <2>1
<1>7. \/ UNCHANGED incidents /\ LeasesKept
      \/ \E i \in Pod, r \in Rule : Commits(i, r)
      \/ \E S : Closes(S) /\ LeasesKept
      \/ \E id \in Incident : Acked(id) /\ LeasesKept
  BY <1>3 DEF Kind, Rests, Begins, Reads, Keeps, Stored
<1>8. QED  BY <1>2, <1>4, <1>5, <1>6, <1>7

LEMMA OutboxStep ==
    ASSUME Typed, EvalsStory, PlansStory, NotYounger, OutboxMatches, Kind
    PROVE  OutboxMatches'
<1>1. CASE UNCHANGED <<incidents, outbox>>
  BY <1>1 DEF OutboxMatches
<1>2. ASSUME NEW i \in Pod, NEW r \in Rule, Commits(i, r) PROVE OutboxMatches'
  <2> DEFINE e == eval[i][r]
  <2>1. \A id \in Incident : CommittedIncident(e, r, id)
    BY <1>2, CommitIncidents
  <2>2. /\ \A id \in Incident : Opened(e, r, id) => incidents[id].state = "none"
        /\ \A s \in Series : Resolves(e, s) => incidents[Prev(e, s).incident].state # "none"
    BY <1>2, CommitFinds
  <2>3. outbox' = outbox \cup Notifications(r, e)
    BY <1>2 DEF Commits, Apply
  <2> HIDE DEF e
  <2>4. \A id \in Incident : Ended(e, id) => incidents[id].state # "none"
    BY <2>2 DEF Ended
  <2>5. ASSUME NEW id \in Incident
        PROVE  /\ key(id, "opened") \in outbox' <=> incidents'[id].state # "none"
               /\ key(id, "resolved") \in outbox' <=> incidents'[id].state = "resolved"
               /\ key(id, "acknowledged") \in outbox' =>
                      incidents'[id].state \in {"acknowledged", "resolved"}
    <3>1. /\ key(id, "opened") \in outbox' <=> key(id, "opened") \in outbox \/ Opened(e, r, id)
          /\ key(id, "resolved") \in outbox' <=> key(id, "resolved") \in outbox \/ Ended(e, id)
          /\ key(id, "acknowledged") \in outbox' <=> key(id, "acknowledged") \in outbox
      BY <2>3, CommitKeys
    <3>2. /\ key(id, "opened") \in outbox <=> incidents[id].state # "none"
          /\ key(id, "resolved") \in outbox <=> incidents[id].state = "resolved"
          /\ key(id, "acknowledged") \in outbox =>
                 incidents[id].state \in {"acknowledged", "resolved"}
      BY DEF OutboxMatches
    <3>3. CASE Opened(e, r, id)
      <4>1. incidents[id].state = "none" /\ incidents'[id].state = "open" /\ ~Ended(e, id)
        BY <2>1, <2>2, <2>4, <3>3 DEF CommittedIncident
      <4>2. QED  BY <3>1, <3>2, <3>3, <4>1
    <3>4. CASE ~Opened(e, r, id) /\ Ended(e, id) /\ incidents[id].state # "resolved"
      <4>1. incidents[id].state # "none" /\ incidents'[id].state = "resolved"
        BY <2>1, <2>4, <3>4 DEF CommittedIncident
      <4>2. QED  BY <3>1, <3>2, <3>4, <4>1
    <3>5. CASE ~Opened(e, r, id) /\ (~Ended(e, id) \/ incidents[id].state = "resolved")
      <4>1. incidents'[id] = incidents[id]
        BY <2>1, <3>5 DEF CommittedIncident
      <4>2. QED  BY <3>1, <3>2, <3>5, <4>1
    <3>6. QED  BY <3>3, <3>4, <3>5
  <2>6. QED  BY <2>5 DEF OutboxMatches
<1>3. ASSUME NEW S, Closes(S) PROVE OutboxMatches'
  BY <1>3 DEF Closes, OutboxMatches, Unresolved
<1>4. ASSUME NEW id \in Incident, Acked(id) PROVE OutboxMatches'
  BY <1>4 DEF Acked, OutboxMatches
<1>5. \/ UNCHANGED <<incidents, outbox>>
      \/ \E i \in Pod, r \in Rule : Commits(i, r)
      \/ \E S : Closes(S)
      \/ \E id \in Incident : Acked(id)
  BY DEF Kind, Rests, Begins, Reads, Keeps, Stored
<1>6. QED  BY <1>1, <1>2, <1>3, <1>4, <1>5

(* What is stored stays the verdict of the rule. *)
LEMMA VerdictsStep ==
    ASSUME Typed, RowsStory, EvalsStory, PlansStory, NotYounger, VerdictsCurrent, Kind
    PROVE  VerdictsCurrent'
<1>0. \A id \in Incident : id[1] \in Rule /\ id[2] \in Series
  BY DEF Incident
<1>1. CASE UNCHANGED Stored
  BY <1>1 DEF VerdictsCurrent, Stored, Active, Unresolved
<1>2. ASSUME NEW i \in Pod, NEW r \in Rule, Commits(i, r) PROVE VerdictsCurrent'
  <2> DEFINE e == eval[i][r]
  <2>1. \A id \in Incident : CommittedIncident(e, r, id)
    BY <1>2, CommitIncidents
  <2>2. Active(r) /\ e.cond = rules[r].cond
    BY <1>2, CommitFinds
  <2>3. rules' = rules
    BY <1>2 DEF Commits
  <2>4. CommitStored(r, e)
    BY <1>2, CommitStores
  <2> HIDE DEF e
  <2>5. \A q \in Rule : Active(q)' <=> Active(q)
    BY <2>3 DEF Active
  <2>6. ASSUME NEW q \in Rule, NEW s \in Series, series'[q][s] # NoRow
        PROVE  Active(q)' /\ judged'[q][s] = rules'[q].cond
    <3>1. CASE q = r /\ Planned(e, s)
      BY <2>2, <2>3, <2>4, <2>5, <3>1 DEF CommitStored
    <3>2. CASE ~(q = r /\ Planned(e, s))
      <4>1. series'[q][s] = series[q][s] /\ judged'[q][s] = judged[q][s]
        BY <2>4, <3>2 DEF CommitStored, StoredRow
      <4>2. QED  BY <2>3, <2>5, <2>6, <4>1 DEF VerdictsCurrent
    <3>3. QED  BY <3>1, <3>2
  <2>7. ASSUME NEW id \in Incident, Unresolved(id)'
        PROVE  Active(id[1])' /\ incidents'[id].cond = rules'[id[1]].cond
    <3>1. CASE Opened(e, r, id)
      <4>1. id[1] = r /\ incidents'[id].cond = e.cond
        BY <2>1, <3>1 DEF Opened, CommittedIncident
      <4>2. QED  BY <2>2, <2>3, <2>5, <4>1
    <3>2. CASE ~Opened(e, r, id)
      <4>1. Unresolved(id) /\ incidents'[id] = incidents[id]
        BY <2>1, <2>7, <3>2 DEF CommittedIncident, Unresolved
      <4>2. QED  BY <1>0, <2>3, <2>5, <4>1 DEF VerdictsCurrent
    <3>3. QED  BY <3>1, <3>2
  <2>8. QED  BY <2>6, <2>7 DEF VerdictsCurrent
<1>3. ASSUME NEW r \in Rule, Edited(r), Keeps(r), UNCHANGED judged PROVE VerdictsCurrent'
  <2>1. \A q \in Rule : (Active(q) => Active(q)') /\ rules'[q].cond = rules[q].cond
    BY <1>3 DEF Edited, Keeps, Active
  <2>2. UNCHANGED <<series, incidents, judged>>
    BY <1>3 DEF Keeps
  <2>3. QED  BY <1>0, <2>1, <2>2 DEF VerdictsCurrent, Unresolved
<1>4. ASSUME NEW r \in Rule, Edited(r), UNCHANGED judged, \A s \in Series : series'[r][s] = NoRow,
             Closes({id \in Incident : id[1] = r /\ Unresolved(id)})
      PROVE  VerdictsCurrent'
  <2> DEFINE S == {id \in Incident : id[1] = r /\ Unresolved(id)}
  <2>1. \A q \in Rule \ {r} : (Active(q) <=> Active(q)') /\ rules'[q].cond = rules[q].cond
    BY <1>4 DEF Edited, Active
  <2>2. \A id \in Incident : Unresolved(id)' =>
            id[1] # r /\ Unresolved(id) /\ incidents'[id] = incidents[id]
    <3>1. \A id \in Incident : id[1] = r /\ Unresolved(id) => id \in S
      OBVIOUS
    <3>2. Closes(S)
      BY <1>4
    <3> HIDE DEF S
    <3>3. QED  BY <3>1, <3>2 DEF Closes, Unresolved
  <2>3. \A q \in Rule, s \in Series : series'[q][s] \in {series[q][s], NoRow}
    BY <1>4 DEF Closes
  <2>4. ASSUME NEW q \in Rule, NEW s \in Series, series'[q][s] # NoRow
        PROVE  Active(q)' /\ judged'[q][s] = rules'[q].cond
    <3>1. q # r /\ series[q][s] # NoRow /\ judged'[q][s] = judged[q][s]
      BY <1>4, <2>3, <2>4
    <3>2. QED  BY <2>1, <3>1 DEF VerdictsCurrent
  <2>5. ASSUME NEW id \in Incident, Unresolved(id)'
        PROVE  Active(id[1])' /\ incidents'[id].cond = rules'[id[1]].cond
    <3>1. id[1] # r /\ Unresolved(id) /\ incidents'[id] = incidents[id]
      BY <2>2, <2>5
    <3>2. Active(id[1]) /\ incidents[id].cond = rules[id[1]].cond
      BY <3>1 DEF VerdictsCurrent
    <3>3. QED  BY <1>0, <2>1, <3>1, <3>2
  <2>6. QED  BY <2>4, <2>5 DEF VerdictsCurrent
<1>5. ASSUME NEW id \in Incident, Acked(id), UNCHANGED <<rules, series, judged>> PROVE VerdictsCurrent'
  <2>1. \A jd \in Incident : Unresolved(jd)' => Unresolved(jd) /\ incidents'[jd].cond = incidents[jd].cond
    BY <1>5 DEF Acked, Unresolved
  <2>2. QED  BY <1>5, <2>1 DEF VerdictsCurrent, Active
<1>6. ASSUME NEW id \in Incident, Closes({id}), UNCHANGED <<rules, judged>> PROVE VerdictsCurrent'
  <2>1. \A jd \in Incident : Unresolved(jd)' => Unresolved(jd) /\ incidents'[jd].cond = incidents[jd].cond
    BY <1>6 DEF Closes, Unresolved
  <2>2. \A q \in Rule, s \in Series : series'[q][s] \in {series[q][s], NoRow}
    BY <1>6 DEF Closes
  <2>3. \A q \in Rule, s \in Series : series'[q][s] # NoRow =>
            Active(q)' /\ judged'[q][s] = rules'[q].cond
    BY <1>6, <2>2 DEF VerdictsCurrent, Active
  <2>4. \A jd \in Incident : Unresolved(jd)' =>
            Active(jd[1])' /\ incidents'[jd].cond = rules'[jd[1]].cond
    BY <1>6, <2>1 DEF VerdictsCurrent, Active
  <2>5. QED  BY <2>3, <2>4 DEF VerdictsCurrent
<1>7. CASE Rests
  BY <1>1, <1>7 DEF Rests
<1>8. CASE \E i \in Pod, r \in Rule : Begins(i, r) \/ Reads(i, r) \/ Commits(i, r)
  BY <1>1, <1>2, <1>8 DEF Begins, Reads
<1>9. QED  BY <1>3, <1>4, <1>5, <1>6, <1>7, <1>8 DEF Kind

(***************************************************************************)
(* A commit that overtook no other either finds the row as its plan read   *)
(* it, or leaves it, or finds none.                                        *)
(***************************************************************************)
LEMMA NotOvertaken ==
    ASSUME SnapsFresh, NEW i \in Pod, NEW r \in Rule, Commits(i, r), r \notin overtaken',
           NEW s \in Series
    PROVE  LET e == eval[i][r] IN
           \/ series[r][s] = NoRow
           \/ series[r][s] = StoredRow(r, e, s)
           \/ series[r][s] = e.snap[s]
<1> DEFINE e == eval[i][r]
<1>1. Fresh(e, series[r], lease[r].last)
  BY DEF SnapsFresh, Commits
<1>2. ~Overtaken(r, e)
  BY DEF Commits, Apply
<1> HIDE DEF e
<1>3. CASE e.base # lease[r].last
  BY <1>2, <1>3 DEF Overtaken, e
<1>4. CASE e.base = lease[r].last /\ e.failed = FALSE
  BY <1>1, <1>4 DEF Fresh, e
<1>5. CASE e.failed = TRUE
  <2>1. StoredRow(r, e, s) = series[r][s]
    BY <1>5 DEF StoredRow, Planned
  <2>2. QED  BY <2>1 DEF e
<1>6. QED  BY <1>1, <1>3, <1>4, <1>5 DEF Fresh

(* A commit keeps the firing row of an incident it knows and does not resolve. *)
LEMMA FiringKept ==
    ASSUME NEW r \in Rule, NEW s \in Series, NEW e, PlanSound(e, r, s), e.failed \in BOOLEAN,
           series[r][s] = e.snap[s], NEW id, id # NoIncident,
           e.snap[s].state = "firing", e.snap[s].incident = id, e.inc[s] # "resolved",
           ~Ended(e, id)
    PROVE  StoredRow(r, e, s).state = "firing" /\ StoredRow(r, e, s).incident = id
<1> DEFINE o == Outcome(e, s)
           q == PlannedRow(e, r, s)
<1>1. Prev(e, s) = e.snap[s] /\ StepSound(Prev(e, s), o)
  BY DEF PlanSound
<1>2. CASE ~Planned(e, s)
  BY <1>2 DEF StoredRow
<1>3. CASE Planned(e, s)
  <2>1. o.resolve = "none"
    BY <1>1, <1>3 DEF Ended, Resolves
  <2>2. o.next.state = "firing" /\ o.next.incident = id
    BY <1>1, <2>1 DEF StepSound, GoesOn
  <2>3. ~Opens(e, s)
    BY <1>1, <2>2 DEF StepSound, Opens
  <2>4. q.state = "firing" /\ q.incident = id
    BY <2>2, <2>3 DEF PlanSound
  <2>5. o.persist
    BY <1>1, <2>2 DEF StepSound
  <2>6. StoredRow(r, e, s) = q
    BY <1>3, <2>5 DEF StoredRow
  <2>7. QED  BY <2>4, <2>6
<1>4. QED  BY <1>2, <1>3

LEMMA TrackedStep ==
    ASSUME Typed, RowsStory, EvalsStory, PlansStory, SnapsFresh, NotYounger, TrackedUnlessOvertaken, Kind
    PROVE  TrackedUnlessOvertaken'
<1>0. \A id \in Incident : id[1] \in Rule /\ id[2] \in Series
  BY DEF Incident
<1>1. CASE UNCHANGED <<series, incidents, overtaken>>
  BY <1>1 DEF TrackedUnlessOvertaken, Unresolved
<1>2. ASSUME NEW i \in Pod, NEW r \in Rule, Commits(i, r) PROVE TrackedUnlessOvertaken'
  <2> DEFINE e == eval[i][r]
  <2>1. \A id \in Incident : CommittedIncident(e, r, id)
    BY <1>2, CommitIncidents
  <2>2. \A s \in Series : PlanSound(e, r, s) /\ Read(incidents, e, r, s)
    BY <1>2, CommitFinds
  <2>3. CommitStored(r, e)
    BY <1>2, CommitStores
  <2>4. e.failed \in BOOLEAN
    BY <1>2 DEF SnapsFresh, Fresh, Commits
  <2>5. overtaken \subseteq overtaken'
    BY <1>2 DEF Commits, Apply
  <2>6. r \notin overtaken' => \A s \in Series : \/ series[r][s] = NoRow
                                                 \/ series[r][s] = StoredRow(r, e, s)
                                                 \/ series[r][s] = e.snap[s]
    BY <1>2, NotOvertaken
  <2> HIDE DEF e
  <2>7. ASSUME NEW id \in Incident, Unresolved(id)', id[1] \notin overtaken'
        PROVE  series'[id[1]][id[2]].state = "firing" /\ series'[id[1]][id[2]].incident = id
    <3> DEFINE s == id[2]
    <3>0. id[1] \in Rule /\ s \in Series
      BY <1>0
    <3>1. CASE Opened(e, r, id)
      <4>1. id[1] = r /\ Opens(e, s) /\ id = <<r, s, e.end>>
        BY <3>1 DEF Opened
      <4> HIDE DEF s
      <4>2. PlannedRow(e, r, s).incident = id
        BY <2>2, <3>0, <4>1 DEF PlanSound
      <4>3. Outcome(e, s).open /\ Planned(e, s)
        BY <4>1 DEF Opens
      <4>4. Outcome(e, s).next.state = "firing" /\ Outcome(e, s).persist
        BY <2>2, <3>0, <4>3 DEF PlanSound, StepSound
      <4>5. PlannedRow(e, r, s).state = "firing"
        BY <2>2, <3>0, <4>4 DEF PlanSound
      <4>6. StoredRow(r, e, s) = PlannedRow(e, r, s)
        BY <4>3, <4>4 DEF StoredRow
      <4>7. series'[r][s] = StoredRow(r, e, s)
        BY <2>3, <3>0 DEF CommitStored
      <4>8. QED  BY <4>1, <4>2, <4>5, <4>6, <4>7 DEF s
    <3>2. CASE ~Opened(e, r, id)
      <4>1. Unresolved(id) /\ ~Ended(e, id)
        BY <2>1, <2>7, <3>2 DEF CommittedIncident, Unresolved
      <4>2. id[1] \notin overtaken
        BY <2>5, <2>7
      <4>3. series[id[1]][s].state = "firing" /\ series[id[1]][s].incident = id
        BY <4>1, <4>2 DEF TrackedUnlessOvertaken
      <4>4. CASE id[1] # r
        BY <2>3, <3>0, <4>3, <4>4 DEF CommitStored
      <4>5. CASE id[1] = r
        <5>1. series'[r][s] = StoredRow(r, e, s)
          BY <2>3, <3>0 DEF CommitStored
        <5>2. series[r][s].state = "firing" /\ series[r][s].incident = id
          BY <4>3, <4>5
        <5>3. series[r][s] # NoRow
          BY <5>2, NoRowIsRow
        <5>4. CASE series[r][s] = StoredRow(r, e, s)
          BY <4>5, <5>1, <5>2, <5>4
        <5>5. CASE series[r][s] = e.snap[s]
          <6>1. id # NoIncident
            BY EvalAssumption
          <6>2. e.snap[s].state = "firing" /\ e.snap[s].incident = id
            BY <5>2, <5>5
          <6>3. e.inc[s] # "resolved"
            BY <2>2, <3>0, <4>1, <6>1, <6>2 DEF Read, Unresolved
          <6> HIDE DEF s
          <6>4. StoredRow(r, e, s).state = "firing" /\ StoredRow(r, e, s).incident = id
            BY <2>2, <2>4, <3>0, <4>1, <5>5, <6>1, <6>2, <6>3, FiringKept
          <6>5. QED  BY <4>5, <5>1, <6>4 DEF s
        <5>6. r \notin overtaken'
          BY <2>7, <4>5
        <5>7. QED  BY <2>6, <3>0, <5>3, <5>4, <5>5, <5>6
      <4>6. QED  BY <4>4, <4>5
    <3>3. QED  BY <3>1, <3>2
  <2>8. QED  BY <2>7 DEF TrackedUnlessOvertaken
<1>3. ASSUME NEW S, Closes(S), UNCHANGED overtaken PROVE TrackedUnlessOvertaken'
  <2>1. SUFFICES ASSUME NEW id \in Incident, Unresolved(id)', id[1] \notin overtaken'
                 PROVE  series'[id[1]][id[2]].state = "firing" /\ series'[id[1]][id[2]].incident = id
    BY DEF TrackedUnlessOvertaken
  <2>2. id \notin S /\ Unresolved(id)
    BY <1>3, <2>1 DEF Closes, Unresolved
  <2>3. series[id[1]][id[2]].state = "firing" /\ series[id[1]][id[2]].incident = id
    BY <1>3, <2>1, <2>2 DEF TrackedUnlessOvertaken
  <2>4. series'[id[1]][id[2]] = series[id[1]][id[2]]
    BY <1>0, <1>3, <2>2, <2>3 DEF Closes
  <2>5. QED  BY <2>3, <2>4
<1>4. ASSUME NEW id \in Incident, Acked(id), UNCHANGED <<series, overtaken>> PROVE TrackedUnlessOvertaken'
  <2>1. \A jd \in Incident : Unresolved(jd)' => Unresolved(jd)
    BY <1>4 DEF Acked, Unresolved
  <2>2. QED  BY <1>4, <2>1 DEF TrackedUnlessOvertaken
<1>5. \/ UNCHANGED <<series, incidents, overtaken>>
      \/ \E i \in Pod, r \in Rule : Commits(i, r)
      \/ \E S : Closes(S) /\ UNCHANGED overtaken
      \/ \E id \in Incident : Acked(id) /\ UNCHANGED <<series, overtaken>>
  BY DEF Kind, Rests, Begins, Reads, Keeps, Stored
<1>6. QED  BY <1>1, <1>2, <1>3, <1>4, <1>5

-----------------------------------------------------------------------------
(* Theorems. *)

LEMMA InitIInv == Init => IInv
<1>1. SUFFICES ASSUME Init PROVE IInv
  OBVIOUS
<1>2. PICK c \in Cond, g \in Config :
         /\ rules = [r \in Rule |-> [exists |-> FALSE, enabled |-> FALSE, version |-> 0,
                                     cond |-> c, cfg |-> g]]
         /\ judged = [r \in Rule |-> [s \in Series |-> c]]
  BY <1>1 DEF Init
<1>3. /\ lease = [r \in Rule |-> [owner |-> NoPod, live |-> FALSE, next |-> 0, last |-> 0]]
      /\ window = 1
      /\ eval = [i \in Pod |-> [r \in Rule |-> NoEval]]
      /\ series = [r \in Rule |-> [s \in Series |-> NoRow]]
      /\ incidents = [id \in Incident |-> Absent]
      /\ outbox = {}
  BY <1>1 DEF Init, LeaseInit
<1>4. \A id \in Incident : incidents[id].state = "none"
  BY <1>3 DEF Absent
<1>5. \A i \in Pod, r \in Rule : eval[i][r].phase = "idle"
  BY <1>3 DEF NoEval
<1>6. \A r \in Rule, s \in Series : series[r][s] = NoRow
  BY <1>3
<1>7. Typed
  <2>1. lease \in [Rule -> Row]
    BY <1>3 DEF Row
  <2>2. rules \in [Rule -> RuleRow]
    BY <1>2, EvalAssumption DEF RuleRow
  <2>3. window \in 1..MaxWindow
    BY <1>3, EvalAssumption
  <2>4. incidents \in [Incident -> IncidentRow]
    BY <1>3 DEF IncidentRow, Absent, Reason
  <2>5. judged \in [Rule -> [Series -> Cond]]
    BY <1>2
  <2>6. QED  BY <2>1, <2>2, <2>3, <2>4, <2>5 DEF Typed
<1>8. RowsStory
  BY <1>3, <1>6, NoRowIsRow DEF RowsStory, Names
<1>9. EvalsStory
  BY <1>3, <1>5 DEF EvalsStory
<1>10. PlansStory /\ SnapsFresh
  BY <1>5 DEF PlansStory, SnapsFresh
<1>11. Created
  BY <1>2 DEF Created
<1>12. NotYounger /\ VerdictsCurrent /\ TrackedUnlessOvertaken
  BY <1>4, <1>6 DEF NotYounger, VerdictsCurrent, TrackedUnlessOvertaken, Unresolved
<1>13. OutboxMatches
  BY <1>3, <1>4 DEF OutboxMatches
<1>14. QED  BY <1>7, <1>8, <1>9, <1>10, <1>11, <1>12, <1>13 DEF IInv

LEMMA StepIInv == IInv /\ [Next]_vars => IInv'
<1>1. SUFFICES ASSUME IInv, [Next]_vars PROVE IInv'
  OBVIOUS
<1>2. /\ Typed /\ RowsStory /\ EvalsStory /\ PlansStory /\ SnapsFresh /\ Created /\ NotYounger
      /\ VerdictsCurrent /\ OutboxMatches /\ TrackedUnlessOvertaken
  BY <1>1 DEF IInv
<1>3. Kind
  BY <1>1, <1>2, StepKind
<1>4. Typed' /\ RowsStory' /\ EvalsStory' /\ PlansStory' /\ SnapsFresh' /\ Created' /\ NotYounger'
  BY <1>2, <1>3, TypedStep, RowsStep, EvalsStep, PlansStep, SnapsStep, CreatedStep, NotYoungerStep
<1>5. VerdictsCurrent' /\ OutboxMatches' /\ TrackedUnlessOvertaken'
  BY <1>2, <1>3, VerdictsStep, OutboxStep, TrackedStep
<1>6. QED  BY <1>4, <1>5 DEF IInv

(***************************************************************************)
(* What evaluations in progress know stays consistent with what is stored, *)
(* whatever pods, leases, rules and incidents do in the meantime           *)
(* (evaluator.go, plan.go, Commit of pgstore_eval.go).                     *)
(***************************************************************************)
THEOREM Invariance == Spec => []IInv
<1>1. QED  BY InitIInv, StepIInv, PTL DEF Spec

(***************************************************************************)
(* No evaluation that was under way during an edit leaves a row or an      *)
(* unresolved incident of the old condition, or of a rule that is disabled *)
(* or deleted: Commit compares the version under the lease row's lock.     *)
(***************************************************************************)
THEOREM EditsWin == Spec => []VerdictsCurrent
<1>1. IInv => VerdictsCurrent
  BY DEF IInv
<1>2. QED  BY <1>1, Invariance, PTL

(***************************************************************************)
(* Every incident has its opening in the outbox, and a resolve exactly     *)
(* when it is resolved, by an evaluation, by a person or by an edit of its *)
(* rule (Commit, ResolveIncident and resolveRuleIncidents).                *)
(***************************************************************************)
THEOREM OutboxTellsAll == Spec => []OutboxMatches
<1>1. IInv => OutboxMatches
  BY DEF IInv
<1>2. QED  BY <1>1, Invariance, PTL

(***************************************************************************)
(* An unresolved incident is the one its firing row names, unless a plan   *)
(* of its rule that was read before another commit was committed after it: *)
(* then the fence of Commit, which compares windows only, has let rows be  *)
(* replaced that the plan had not read.                                    *)
(***************************************************************************)
THEOREM NoOrphanUnlessOvertaken == Spec => []TrackedUnlessOvertaken
<1>1. IInv => TrackedUnlessOvertaken
  BY DEF IInv
<1>2. QED  BY <1>1, Invariance, PTL

(* The only pod knows of every commit: its evaluations read what is stored. *)
NeverOvertaken ==
    /\ overtaken = {}
    /\ \A i \in Pod, r \in Rule : eval[i][r].phase = "plan" => eval[i][r].base = lease[r].last

LEMMA NeverOvertakenStep ==
    ASSUME NEW p, Pod = {p}, IInv, NeverOvertaken, [Next]_vars
    PROVE  NeverOvertaken'
<1>0. Typed /\ RowsStory /\ EvalsStory /\ PlansStory /\ NotYounger /\ Created
  BY DEF IInv
<1>1. Kind
  BY <1>0, StepKind
<1>2. \A i \in Pod, r \in Rule : EvalFate(i, r)
  BY <1>0, <1>1, EvalFates
<1>3. ASSUME NEW i \in Pod, NEW r \in Rule, Commits(i, r) PROVE NeverOvertaken'
  <2>1. eval[i][r].base = lease[r].last /\ eval[i][r].phase = "plan"
    BY <1>3 DEF NeverOvertaken, Commits
  <2>2. overtaken' = {}
    BY <1>3, <2>1 DEF NeverOvertaken, Commits, Apply, Overtaken
  <2>3. \A q \in Rule : q # r => lease'[q].last = lease[q].last
    BY <1>0, <1>3, CommitStores DEF CommitStored
  <2>4. /\ eval'[i][r].phase = "idle"
        /\ \A q \in Rule : q # r => eval'[i][q] = eval[i][q]
    BY <1>0, <1>3 DEF Commits, Finish, EvalsStory, NoEval
  <2>5. QED  BY <2>2, <2>3, <2>4 DEF NeverOvertaken
<1>4. ASSUME LeasesKept, UNCHANGED overtaken PROVE NeverOvertaken'
  <2>1. SUFFICES ASSUME NEW i \in Pod, NEW r \in Rule, eval'[i][r].phase = "plan"
                 PROVE  eval'[i][r].base = lease'[r].last
    BY <1>4 DEF NeverOvertaken
  <2>2. lease'[r].last = lease[r].last
    BY <1>4 DEF LeasesKept
  <2>3. CASE eval'[i][r] = eval[i][r]
    BY <2>1, <2>2, <2>3 DEF NeverOvertaken
  <2>4. CASE ReadInto(eval[i][r], r, eval'[i][r])
    BY <2>2, <2>4 DEF ReadInto
  <2>5. eval'[i][r] # NoEval
    BY <2>1 DEF NoEval
  <2>6. QED  BY <1>2, <2>1, <2>3, <2>4, <2>5 DEF EvalFate
<1>5. UNCHANGED lease => LeasesKept
  BY <1>0 DEF LeasesKept, Typed
<1>6. \/ \E i \in Pod, r \in Rule : Commits(i, r)
      \/ LeasesKept /\ UNCHANGED overtaken
  BY <1>1, <1>5 DEF Kind, Rests, Begins, Reads, Stored
<1>7. QED  BY <1>3, <1>4, <1>6

(***************************************************************************)
(* With one pod no incident is orphaned, whatever crashes, expired leases, *)
(* failed statements, edits and resolves happen: the row of a series, its  *)
(* incident and the plan that changes both stay in step (BuildPlan and     *)
(* Commit).  With two pods TLC finds the opposite.                         *)
(***************************************************************************)
THEOREM OnePodTracks ==
    ASSUME NEW p, Pod = {p}
    PROVE  Spec => []IncidentTracked
<1>1. Init => NeverOvertaken
  BY DEF Init, NeverOvertaken, NoEval
<1>2. IInv /\ NeverOvertaken /\ [Next]_vars => NeverOvertaken'
  BY NeverOvertakenStep
<1>3. IInv /\ NeverOvertaken => IncidentTracked
  <2>1. SUFFICES ASSUME TrackedUnlessOvertaken, overtaken = {} PROVE IncidentTracked
    BY DEF IInv, NeverOvertaken
  <2>2. QED  BY <2>1 DEF TrackedUnlessOvertaken, IncidentTracked
<1>4. QED  BY <1>1, <1>2, <1>3, Invariance, PTL DEF Spec

(***************************************************************************)
(* No step changes an incident that is resolved, although plans that knew  *)
(* it as open are committed later (the WHERE of the UPDATE in Commit, and  *)
(* the age of the incidents a commit opens).                               *)
(***************************************************************************)
THEOREM EndIsFinal == Spec => ResolutionKept
<1> DEFINE Kept == \A id \in Incident : incidents[id].state = "resolved" => incidents'[id] = incidents[id]
<1>1. IInv /\ [Next]_vars => [Kept]_vars
  <2>1. SUFFICES ASSUME IInv, [Next]_vars PROVE Kept
    OBVIOUS
  <2>2. Kind
    BY <2>1, StepKind DEF IInv
  <2>3. Progress(incidents, incidents')
    BY <2>1, <2>2, IncidentsProgress DEF IInv
  <2>4. QED  BY <2>3 DEF Progress
<1>2. QED  BY <1>1, Invariance, PTL DEF Spec, ResolutionKept
=============================================================================
