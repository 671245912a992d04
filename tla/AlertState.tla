------------------------------ MODULE AlertState ------------------------------
(***************************************************************************)
(* The state machine of one series of an alert rule                        *)
(* (internal/alert/state.go): Step takes the stored row of the series, one *)
(* evaluation of it and the settings of its rule, and says what the row    *)
(* becomes and whether an incident opens or resolves.                      *)
(*                                                                         *)
(* A time is the end of an evaluated window, a positive number; 0 is Go's  *)
(* zero time, "not set"; "none" is its empty string.  A value is           *)
(* abstracted to what Judge says of it:                                    *)
(*   "breach"     value OP threshold                                       *)
(*   "recovered"  NOT (value OP recovery_threshold)                        *)
(*   "band"       between the two, or NaN                                  *)
(* and "absent" is a series without a sample.  Values, labels and          *)
(* FiringSince decide nothing and are left out.  The transitions, a slice  *)
(* in the code, are a set: the windows of a series are evaluated in their  *)
(* order, so that each adds a later time than all before it.               *)
(***************************************************************************)
EXTENDS Integers, FiniteSets

CONSTANTS
    maxTransitions,   \* entries into firing that a row remembers
    NoIncident        \* the incident of a row that has none

ASSUME TransitionsAssumption == maxTransitions \in Nat

Verdict == {"breach", "recovered", "band"}

MissingPolicy == {"keep", "ok", "breach", "zero", "expire"}

(***************************************************************************)
(* StepConfig: the settings of a rule; zero is the verdict on the value 0, *)
(* and a flapping window that is not set has its default already.          *)
(***************************************************************************)
StepConfig ==
    [for : Nat, recoveryFor : Nat, interval : Nat, delay : Nat, expireAfter : Nat,
     missing : MissingPolicy, zero : Verdict, renotify : Nat,
     flapping : [enabled : BOOLEAN, transitions : Nat, window : Nat \ {0}, hold : Nat]]

(* SeriesState, a row of alert_series_state, for incidents in I. *)
SeriesState(I) ==
    [state : {"none", "ok", "pending", "firing"}, pendingSince : Nat, recoveringSince : Nat,
     lastSeenAt : Nat, incident : I \cup {NoIncident}, transitions : SUBSET Nat,
     lastNotifiedAt : Nat, renotifyCount : Nat]

(* The zero value: the series has no row. *)
NoRow ==
    [state |-> "none", pendingSince |-> 0, recoveringSince |-> 0, lastSeenAt |-> 0,
     incident |-> NoIncident, transitions |-> {}, lastNotifiedAt |-> 0, renotifyCount |-> 0]


pruneTransitions(ts, end, f) == {t \in ts : end - t <= f.window}

isFlapping(ts, end, f) ==
    /\ f.enabled
    /\ f.transitions > 0
    /\ Cardinality(pruneTransitions(ts, end, f)) >= f.transitions

resetToOK(s) ==
    [s EXCEPT !.state = "ok", !.pendingSince = 0, !.recoveringSince = 0,
              !.incident = NoIncident, !.lastNotifiedAt = 0, !.renotifyCount = 0]

(* The n latest. *)
LastN(ts, n) == {t \in ts : Cardinality({u \in ts : u >= t}) <= n}

(* Mutant: entering firing is not remembered. *)
fireForgotten(s, end) ==
    [s EXCEPT !.state = "firing", !.pendingSince = 0, !.recoveringSince = 0,
              !.lastNotifiedAt = end, !.renotifyCount = 0]

fire(s, end) ==
    [s EXCEPT !.state = "firing", !.pendingSince = 0, !.recoveringSince = 0,
              !.transitions = LastN(@ \cup {end}, maxTransitions),
              !.lastNotifiedAt = end, !.renotifyCount = 0]

(* The evaluations before this one are too long ago to have observed continuity. *)
EvaluationGap(in, cfg) == in.prevEvalEnd # 0 /\ in.end - in.prevEvalEnd > 2 * cfg.interval + cfg.delay

(* Mutant: a pending timer survives a gap. *)
EnteredAnyway(prev, in, cfg) ==
    [prev EXCEPT !.state = IF @ = "none" THEN "ok" ELSE @,
                 !.transitions = pruneTransitions(@, in.end, cfg.flapping)]

(* What an evaluation starts from: a pending timer does not survive a gap. *)
Entered(prev, in, cfg) ==
    [prev EXCEPT !.state = IF @ = "none" THEN "ok" ELSE @,
                 !.transitions = pruneTransitions(@, in.end, cfg.flapping),
                 !.pendingSince = IF prev.state = "pending" /\ EvaluationGap(in, cfg)
                                  THEN in.end ELSE @]

(* A row that must not be kept any longer without data. *)
Expired(s, in, cfg) ==
    /\ s.state # "ok"
    /\ s.lastSeenAt # 0
    /\ cfg.expireAfter > 0
    /\ in.end - s.lastSeenAt > cfg.expireAfter

(***************************************************************************)
(* What the evaluation says of the series: the verdict on its value, or    *)
(* what the rule's policy makes of a missing one.  "no_data" and "expired" *)
(* are recoveries without a hold, "kept" leaves everything as it is.       *)
(***************************************************************************)
Observed(s, in, cfg) ==
    CASE in.obs # "absent"                          -> in.obs
      [] in.obs = "absent" /\ cfg.missing = "breach" -> "breach"
      [] in.obs = "absent" /\ cfg.missing = "zero"   -> cfg.zero
      [] in.obs = "absent" /\ cfg.missing = "ok"     -> "no_data"
      [] in.obs = "absent" /\ cfg.missing = "expire" -> "expired"
      [] in.obs = "absent" /\ cfg.missing = "keep"   ->
             IF Expired(s, in, cfg) THEN "expired" ELSE "kept"

Sighted(s, in, cfg) ==
    IF in.obs # "absent" \/ cfg.missing = "zero" THEN [s EXCEPT !.lastSeenAt = in.end] ELSE s

(* The hold is extended because the series is flapping. *)
HoldExtended(s, v, end, cfg) ==
    /\ v = "recovered"
    /\ isFlapping(s.transitions, end, cfg.flapping)
    /\ cfg.flapping.hold > cfg.recoveryFor

hold(s, v, end, cfg) ==
    IF v # "recovered" THEN 0
    ELSE IF HoldExtended(s, v, end, cfg) THEN cfg.flapping.hold
    ELSE cfg.recoveryFor

(* Mutant: a pending series fires one evaluation after its time. *)
FromPendingLate(s, v, end, cfg) ==
    IF v # "breach" THEN [s EXCEPT !.state = "ok", !.pendingSince = 0]
    ELSE IF end - s.pendingSince > cfg.for THEN fire(s, end)
    ELSE s

FromPending(s, v, end, cfg) ==
    IF v # "breach" THEN [s EXCEPT !.state = "ok", !.pendingSince = 0]
    ELSE IF end - s.pendingSince >= cfg.for THEN fire(s, end)
    ELSE s

Recover(s, v, end, cfg) ==
    LET since == IF s.recoveringSince = 0 THEN end ELSE s.recoveringSince
    IN  IF end - since >= hold(s, v, end, cfg) THEN resetToOK(s)
                                               ELSE [s EXCEPT !.recoveringSince = since]

(* Mutant: a value in the hysteresis band does not cancel a recovery hold. *)
FromFiringThroughBand(s, v, end, cfg) ==
    CASE v = "breach" -> [s EXCEPT !.recoveringSince = 0]
      [] v = "band"   -> s
      [] OTHER        -> Recover(s, v, end, cfg)

(* A breach or a value in the hysteresis band cancels a running recovery hold. *)
FromFiring(s, v, end, cfg) ==
    IF v \in {"breach", "band"} THEN [s EXCEPT !.recoveringSince = 0] ELSE Recover(s, v, end, cfg)

Advance(s, v, end, cfg) ==
    CASE s.state = "ok" /\ v # "breach"                 -> s
      [] s.state = "ok" /\ v = "breach" /\ cfg.for = 0  -> fire(s, end)
      [] s.state = "ok" /\ v = "breach" /\ cfg.for > 0  ->
             [s EXCEPT !.state = "pending", !.pendingSince = end]
      [] s.state = "pending"                            -> FromPending(s, v, end, cfg)
      [] s.state = "firing"                             -> FromFiring(s, v, end, cfg)

(***************************************************************************)
(* Step: one evaluation `in' (end, prevEvalEnd and obs) of a series whose  *)
(* row is prev.  The result is StepOutcome.                                *)
(***************************************************************************)
Step(prev, in, cfg) ==
    LET s    == Sighted(Entered(prev, in, cfg), in, cfg)
        v    == Observed(s, in, cfg)
        kept == v = "kept"
        adv  == IF kept THEN s ELSE Advance(s, v, in.end, cfg)
        next == IF kept \/ cfg.flapping.enabled THEN adv ELSE [adv EXCEPT !.transitions = {}]
        persist == next.state # "ok" \/ (~kept /\ next.transitions # {})
    IN  [next     |-> next,
         open     |-> s.state # "firing" /\ next.state = "firing",
         resolve  |-> IF s.state = "firing" /\ next.state = "ok" THEN v ELSE "none",
         flapping |-> ~kept /\ s.state = "firing" /\ HoldExtended(s, v, in.end, cfg),
         persist  |-> persist,
         delete   |-> ~kept /\ ~persist /\ (prev.state # "none" \/ prev.incident # NoIncident)]
=============================================================================
