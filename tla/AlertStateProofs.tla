--------------------------- MODULE AlertStateProofs ---------------------------
(***************************************************************************)
(* What one step of the state machine of a series does, for any row, any   *)
(* observation and any settings: to the state and the incident of the row  *)
(* (StepRow), on which AlertEvalProofs rests, and to its timers            *)
(* (StepTimers), on which AlertSeriesProofs rests.                         *)
(***************************************************************************)
EXTENDS AlertState, TLAPS

Field == {"state", "pendingSince", "recoveringSince", "lastSeenAt", "incident", "transitions",
          "lastNotifiedAt", "renotifyCount"}

(* A row of alert_series_state, as far as incidents depend on it. *)
IsRow(row) ==
    /\ DOMAIN row = Field
    /\ row.state \in {"none", "ok", "pending", "firing"}

-----------------------------------------------------------------------------
(* The state and the incident of a row. *)

(***************************************************************************)
(* What an evaluation makes of a row: a firing row goes on firing for the  *)
(* same incident, or is back to ok; no row gets an incident it had not.    *)
(***************************************************************************)
GoesOn(s, t) ==
    /\ DOMAIN t = Field
    /\ t.state \in {"ok", "pending", "firing"}
    /\ t.incident \in {s.incident, NoIncident}
    /\ s.state = "firing" => t.state = "ok" \/ (t.state = "firing" /\ t.incident = s.incident)

(* The state machine starts from a row that has a state and the incident of the stored one. *)
LEMMA EnteredRow ==
    ASSUME NEW prev, IsRow(prev), NEW in, NEW cfg
    PROVE  LET s == Sighted(Entered(prev, in, cfg), in, cfg) IN
           /\ DOMAIN s = Field
           /\ s.state \in {"ok", "pending", "firing"}
           /\ s.incident = prev.incident
           /\ s.state = "firing" <=> prev.state = "firing"
<1> DEFINE t == Entered(prev, in, cfg)
<1>1. /\ DOMAIN t = Field
      /\ t.state = IF prev.state = "none" THEN "ok" ELSE prev.state
      /\ t.incident = prev.incident
  BY DEF Entered, IsRow, Field
<1>2. t.state \in {"ok", "pending", "firing"} /\ (t.state = "firing" <=> prev.state = "firing")
  BY <1>1 DEF IsRow
<1> HIDE DEF t
<1>3. DOMAIN Sighted(t, in, cfg) = Field /\ Sighted(t, in, cfg).state = t.state
      /\ Sighted(t, in, cfg).incident = t.incident
  BY <1>1 DEF Sighted, Field
<1>4. QED  BY <1>1, <1>2, <1>3 DEF t

(* What an evaluation says of a series is a verdict, a recovery without a hold, or nothing. *)
LEMMA ObservedValue ==
    ASSUME NEW s, NEW in, in.obs \in Verdict \cup {"absent"}, NEW cfg \in StepConfig
    PROVE  Observed(s, in, cfg) \in Verdict \cup {"no_data", "expired", "kept"}
<1>1. cfg.missing \in MissingPolicy /\ cfg.zero \in Verdict
  BY DEF StepConfig
<1>2. CASE in.obs # "absent"
  BY <1>2 DEF Observed
<1>3. CASE in.obs = "absent"
  <2>1. CASE cfg.missing = "breach"
    BY <1>3, <2>1 DEF Observed, Verdict
  <2>2. CASE cfg.missing = "zero"
    BY <1>1, <1>3, <2>2 DEF Observed
  <2>3. CASE cfg.missing = "ok"
    BY <1>3, <2>3 DEF Observed
  <2>4. CASE cfg.missing = "expire"
    BY <1>3, <2>4 DEF Observed
  <2>5. CASE cfg.missing = "keep"
    BY <1>3, <2>5 DEF Observed
  <2>6. QED  BY <1>1, <2>1, <2>2, <2>3, <2>4, <2>5 DEF MissingPolicy
<1>4. QED  BY <1>2, <1>3

(* Firing sets the state and leaves the incident to the plan. *)
LEMMA FireRow ==
    ASSUME NEW s, DOMAIN s = Field, NEW end
    PROVE  /\ DOMAIN fire(s, end) = Field
           /\ fire(s, end).state = "firing"
           /\ fire(s, end).incident = s.incident
BY DEF fire, Field

(* A recovery ends in a fresh ok row or leaves the row firing for its incident. *)
LEMMA RecoverRow ==
    ASSUME NEW s, DOMAIN s = Field, s.state = "firing", NEW v, NEW end, NEW cfg
    PROVE  GoesOn(s, Recover(s, v, end, cfg))
<1> DEFINE since == IF s.recoveringSince = 0 THEN end ELSE s.recoveringSince
           b == end - since >= hold(s, v, end, cfg)
<1>1. Recover(s, v, end, cfg) = IF b THEN resetToOK(s) ELSE [s EXCEPT !.recoveringSince = since]
  BY DEF Recover
<1> HIDE DEF b, since
<1>2. GoesOn(s, resetToOK(s))
  BY DEF GoesOn, resetToOK, Field
<1>3. GoesOn(s, [s EXCEPT !.recoveringSince = since])
  BY DEF GoesOn, Field
<1>4. CASE b
  BY <1>1, <1>2, <1>4
<1>5. CASE ~b
  BY <1>1, <1>3, <1>5
<1>6. QED  BY <1>4, <1>5

(* Every transition of the state machine. *)
LEMMA AdvanceRow ==
    ASSUME NEW s, DOMAIN s = Field, s.state \in {"ok", "pending", "firing"},
           NEW v, NEW end, NEW cfg \in StepConfig
    PROVE  GoesOn(s, Advance(s, v, end, cfg))
<1>1. CASE s.state = "ok"
  <2>1. CASE v # "breach"
    BY <1>1, <2>1 DEF Advance, GoesOn
  <2>2. CASE v = "breach" /\ cfg.for = 0
    BY <1>1, <2>2, FireRow DEF Advance, GoesOn
  <2>3. CASE v = "breach" /\ cfg.for > 0
    <3>1. cfg.for # 0
      BY <2>3 DEF StepConfig
    <3>2. Advance(s, v, end, cfg) = [s EXCEPT !.state = "pending", !.pendingSince = end]
      BY <1>1, <2>3, <3>1 DEF Advance
    <3>3. QED  BY <1>1, <3>2 DEF GoesOn, Field
  <2>4. cfg.for = 0 \/ cfg.for > 0
    BY DEF StepConfig
  <2>5. QED  BY <2>1, <2>2, <2>3, <2>4
<1>2. CASE s.state = "pending"
  <2> DEFINE b == end - s.pendingSince >= cfg.for
  <2>1. Advance(s, v, end, cfg) = FromPending(s, v, end, cfg)
    BY <1>2 DEF Advance
  <2>2. FromPending(s, v, end, cfg) =
            IF v # "breach" THEN [s EXCEPT !.state = "ok", !.pendingSince = 0]
            ELSE IF b THEN fire(s, end) ELSE s
    BY DEF FromPending
  <2> HIDE DEF b
  <2>3. GoesOn(s, [s EXCEPT !.state = "ok", !.pendingSince = 0])
    BY <1>2 DEF GoesOn, Field
  <2>4. GoesOn(s, fire(s, end)) /\ GoesOn(s, s)
    BY <1>2, FireRow DEF GoesOn
  <2>5. CASE v # "breach"
    BY <2>1, <2>2, <2>3, <2>5
  <2>6. CASE v = "breach" /\ b
    BY <2>1, <2>2, <2>4, <2>6
  <2>7. CASE v = "breach" /\ ~b
    BY <2>1, <2>2, <2>4, <2>7
  <2>8. QED  BY <2>5, <2>6, <2>7
<1>3. CASE s.state = "firing"
  <2>1. Advance(s, v, end, cfg) = FromFiring(s, v, end, cfg)
    BY <1>3 DEF Advance
  <2>2. CASE v \in {"breach", "band"}
    <3>1. FromFiring(s, v, end, cfg) = [s EXCEPT !.recoveringSince = 0]
      BY <2>2 DEF FromFiring
    <3>2. QED  BY <1>3, <2>1, <3>1 DEF GoesOn, Field
  <2>3. CASE v \notin {"breach", "band"}
    <3>1. FromFiring(s, v, end, cfg) = Recover(s, v, end, cfg)
      BY <2>3 DEF FromFiring
    <3>2. QED  BY <1>3, <2>1, <3>1, RecoverRow
  <2>4. QED  BY <2>2, <2>3
<1>4. QED  BY <1>1, <1>2, <1>3

(* Only a recovery ends a firing row. *)
LEMMA OnlyRecoveryEnds ==
    ASSUME NEW s, DOMAIN s = Field, s.state = "firing", NEW v \in {"breach", "band"}, NEW end, NEW cfg
    PROVE  Advance(s, v, end, cfg).state = "firing"
<1>1. Advance(s, v, end, cfg) = FromFiring(s, v, end, cfg)
  BY DEF Advance
<1>2. FromFiring(s, v, end, cfg) = [s EXCEPT !.recoveringSince = 0]
  BY DEF FromFiring
<1>3. QED  BY <1>1, <1>2 DEF Field

(***************************************************************************)
(* What the plan may rely on: an incident opens when the series starts     *)
(* firing, a firing series that ends has a reason, and a row that is not   *)
(* ok is stored.                                                           *)
(***************************************************************************)
StepSound(prev, o) ==
    /\ GoesOn(prev, o.next)
    /\ o.open <=> prev.state # "firing" /\ o.next.state = "firing"
    /\ o.resolve \in {"none", "recovered", "no_data", "expired"}
    /\ o.resolve # "none" <=> prev.state = "firing" /\ o.next.state = "ok"
    /\ o.next.state # "ok" => o.persist

LEMMA StepRow ==
    ASSUME NEW prev, IsRow(prev), NEW in, in.obs \in Verdict \cup {"absent"},
           NEW cfg \in StepConfig
    PROVE  StepSound(prev, Step(prev, in, cfg))
<1> DEFINE s    == Sighted(Entered(prev, in, cfg), in, cfg)
           v    == Observed(s, in, cfg)
           kept == v = "kept"
           adv  == IF kept THEN s ELSE Advance(s, v, in.end, cfg)
           next == IF kept \/ cfg.flapping.enabled THEN adv ELSE [adv EXCEPT !.transitions = {}]
           some == ~kept /\ next.transitions # {}
           flap == ~kept /\ s.state = "firing" /\ HoldExtended(s, v, in.end, cfg)
           o    == Step(prev, in, cfg)
<1>1. /\ o.next = next
      /\ o.open = (s.state # "firing" /\ next.state = "firing")
      /\ o.resolve = IF s.state = "firing" /\ next.state = "ok" THEN v ELSE "none"
      /\ o.persist = (next.state # "ok" \/ some)
  BY DEF Step
<1>2. /\ DOMAIN s = Field
      /\ s.state \in {"ok", "pending", "firing"}
      /\ s.incident = prev.incident
      /\ s.state = "firing" <=> prev.state = "firing"
  BY EnteredRow
<1>3. v \in Verdict \cup {"no_data", "expired", "kept"}
  BY ObservedValue
<1> HIDE DEF s, v, o
<1>4. GoesOn(s, adv)
  <2>1. CASE kept
    BY <1>2, <2>1 DEF GoesOn
  <2>2. CASE ~kept
    BY <1>2, <2>2, AdvanceRow
  <2>3. QED  BY <2>1, <2>2
<1>5. s.state = "firing" /\ adv.state = "ok" => v \in {"recovered", "no_data", "expired"}
  <2>1. SUFFICES ASSUME s.state = "firing", adv.state = "ok"
                 PROVE  v \in {"recovered", "no_data", "expired"}
    OBVIOUS
  <2>2. ~kept
    BY <2>1
  <2>3. adv = Advance(s, v, in.end, cfg)
    BY <2>2
  <2>4. v \notin {"breach", "band"}
    BY <1>2, <2>1, <2>3, OnlyRecoveryEnds
  <2>5. QED  BY <1>3, <2>2, <2>4 DEF Verdict
<1> HIDE DEF adv, kept
<1>6. next.state = adv.state /\ GoesOn(s, next)
  <2>1. [adv EXCEPT !.transitions = {}].state = adv.state
    BY <1>4 DEF GoesOn, Field
  <2>2. GoesOn(s, [adv EXCEPT !.transitions = {}])
    BY <1>4 DEF GoesOn, Field
  <2>3. CASE kept \/ cfg.flapping.enabled
    BY <1>4, <2>3
  <2>4. CASE ~(kept \/ cfg.flapping.enabled)
    BY <2>1, <2>2, <2>4
  <2>5. QED  BY <2>3, <2>4
<1> HIDE DEF next, some
<1>7. GoesOn(prev, o.next)
  BY <1>1, <1>2, <1>6 DEF GoesOn
<1>8. o.open <=> prev.state # "firing" /\ o.next.state = "firing"
  BY <1>1, <1>2
<1>9. /\ o.resolve \in {"none", "recovered", "no_data", "expired"}
      /\ o.resolve # "none" <=> prev.state = "firing" /\ o.next.state = "ok"
  BY <1>1, <1>2, <1>5, <1>6
<1>10. o.next.state # "ok" => o.persist
  BY <1>1
<1>11. QED  BY <1>7, <1>8, <1>9, <1>10 DEF StepSound, o

-----------------------------------------------------------------------------
(* The timers of a row. *)

Timed(row) == IsRow(row) /\ row.pendingSince \in Nat /\ row.recoveringSince \in Nat

(* The pending timer that an evaluation starts from. *)
Pending(prev, in, cfg) ==
    IF prev.state = "pending" /\ EvaluationGap(in, cfg) THEN in.end ELSE prev.pendingSince

(* When the recovery of a row began, if it recovers at end. *)
Recovering(row, end) == IF row.recoveringSince = 0 THEN end ELSE row.recoveringSince

(* The state machine starts with the pending timer after a gap, and with the recovery as it was. *)
LEMMA EnteredTimers ==
    ASSUME NEW prev, Timed(prev), NEW in, in.end \in Nat, NEW cfg
    PROVE  LET s == Sighted(Entered(prev, in, cfg), in, cfg) IN
           /\ Timed(s)
           /\ s.state = IF prev.state = "none" THEN "ok" ELSE prev.state
           /\ s.pendingSince = Pending(prev, in, cfg)
           /\ s.recoveringSince = prev.recoveringSince
<1> DEFINE t == Entered(prev, in, cfg)
           gap == prev.state = "pending" /\ EvaluationGap(in, cfg)
<1>1. /\ DOMAIN t = Field
      /\ t.state = IF prev.state = "none" THEN "ok" ELSE prev.state
      /\ t.pendingSince = IF gap THEN in.end ELSE prev.pendingSince
      /\ t.recoveringSince = prev.recoveringSince
  BY DEF Entered, Timed, IsRow, Field
<1>2. Pending(prev, in, cfg) = IF gap THEN in.end ELSE prev.pendingSince
  BY DEF Pending
<1> HIDE DEF t, gap
<1>3. Timed(t)
  BY <1>1 DEF Timed, IsRow
<1>4. /\ DOMAIN Sighted(t, in, cfg) = Field
      /\ Sighted(t, in, cfg).state = t.state
      /\ Sighted(t, in, cfg).pendingSince = t.pendingSince
      /\ Sighted(t, in, cfg).recoveringSince = t.recoveringSince
  BY <1>1 DEF Sighted, Field
<1>5. Timed(Sighted(t, in, cfg))
  BY <1>3, <1>4 DEF Timed, IsRow
<1>6. QED  BY <1>1, <1>2, <1>4, <1>5 DEF t

(* Marking a row as seen does not change what the evaluation says of it. *)
LEMMA SightedObserved ==
    ASSUME NEW s, NEW in, in.obs \in Verdict \cup {"absent"}, NEW cfg \in StepConfig
    PROVE  Observed(Sighted(s, in, cfg), in, cfg) = Observed(s, in, cfg)
<1>1. cfg.missing \in MissingPolicy
  BY DEF StepConfig
<1>2. CASE in.obs # "absent"
  BY <1>2 DEF Observed
<1>3. CASE in.obs = "absent" /\ cfg.missing = "keep"
  <2>1. Sighted(s, in, cfg) = s
    BY <1>3 DEF Sighted
  <2>2. QED  BY <2>1
<1>4. CASE in.obs = "absent" /\ cfg.missing # "keep"
  <2>1. CASE cfg.missing = "breach"
    BY <1>4, <2>1 DEF Observed
  <2>2. CASE cfg.missing = "zero"
    BY <1>4, <2>2 DEF Observed
  <2>3. CASE cfg.missing = "ok"
    BY <1>4, <2>3 DEF Observed
  <2>4. CASE cfg.missing = "expire"
    BY <1>4, <2>4 DEF Observed
  <2>5. QED  BY <1>1, <1>4, <2>1, <2>2, <2>3, <2>4 DEF MissingPolicy
<1>5. QED  BY <1>2, <1>3, <1>4

(* A recovery hold is never shorter than recovery_for. *)
LEMMA HoldLength ==
    ASSUME NEW s, NEW v, NEW end, NEW cfg \in StepConfig
    PROVE  /\ hold(s, v, end, cfg) \in Nat
           /\ v = "recovered" => hold(s, v, end, cfg) >= cfg.recoveryFor
           /\ v # "recovered" => hold(s, v, end, cfg) = 0
<1>1. cfg.recoveryFor \in Nat /\ cfg.flapping.hold \in Nat
  BY DEF StepConfig
<1>2. CASE v # "recovered"
  BY <1>2 DEF hold
<1>3. CASE v = "recovered" /\ HoldExtended(s, v, end, cfg)
  <2>1. cfg.flapping.hold > cfg.recoveryFor
    BY <1>3 DEF HoldExtended
  <2>2. hold(s, v, end, cfg) = cfg.flapping.hold
    BY <1>3 DEF hold
  <2>3. QED  BY <1>1, <1>3, <2>1, <2>2
<1>4. CASE v = "recovered" /\ ~HoldExtended(s, v, end, cfg)
  <2>1. hold(s, v, end, cfg) = cfg.recoveryFor
    BY <1>4 DEF hold
  <2>2. QED  BY <1>1, <1>4, <2>1
<1>5. QED  BY <1>2, <1>3, <1>4

(***************************************************************************)
(* What a step makes of the timers of s, for the observation v at end: t   *)
(* is pending since its first breach or as s was; it fires only when the   *)
(* time is up, and does fire then; its recovery began now, began when that *)
(* of s did, or is off; and it ends firing after the hold.                 *)
(***************************************************************************)
Ticks(s, t, v, end, cfg) ==
    /\ t.recoveringSince \in {0, s.recoveringSince, end}
    /\ t.state = "pending" =>
           \/ s.state = "ok" /\ v = "breach" /\ t.pendingSince = end /\ cfg.for > 0
           \/ s.state = "pending" /\ v \in {"breach", "kept"} /\ t.pendingSince = s.pendingSince
    /\ t.state = "firing" /\ s.state # "firing" =>
           /\ v = "breach" /\ t.recoveringSince = 0
           /\ s.state = "ok" => cfg.for = 0
           /\ s.state = "pending" => end - s.pendingSince >= cfg.for
    /\ v = "breach" =>
           \/ t.state = "firing"
           \/ t.state = "pending" /\ (s.state = "pending" => end - s.pendingSince < cfg.for)
    /\ s.state = "firing" => t.state \in {"ok", "firing"}
    /\ s.state = "firing" /\ t.state = "firing" =>
           \/ t.recoveringSince = 0
           \/ v = "kept" /\ t.recoveringSince = s.recoveringSince
           \/ v = "recovered" /\ t.recoveringSince = Recovering(s, end)
    /\ s.state = "firing" /\ t.state = "ok" /\ v = "recovered" =>
           end - Recovering(s, end) >= cfg.recoveryFor

(* A recovery of a firing row. *)
LEMMA RecoverTimers ==
    ASSUME NEW s, Timed(s), s.state = "firing", NEW end \in Nat, s.recoveringSince <= end,
           NEW v \in {"recovered", "no_data", "expired"}, NEW cfg \in StepConfig
    PROVE  Timed(Recover(s, v, end, cfg)) /\ Ticks(s, Recover(s, v, end, cfg), v, end, cfg)
<1> DEFINE since == Recovering(s, end)
           b == end - since >= hold(s, v, end, cfg)
           t == Recover(s, v, end, cfg)
<1>1. t = IF b THEN resetToOK(s) ELSE [s EXCEPT !.recoveringSince = since]
  BY DEF Recover, Recovering
<1>2. since \in Nat /\ since <= end /\ since \in {s.recoveringSince, end}
  BY DEF Timed, Recovering
<1>3. /\ hold(s, v, end, cfg) \in Nat
      /\ v = "recovered" => hold(s, v, end, cfg) >= cfg.recoveryFor
      /\ v # "recovered" => hold(s, v, end, cfg) = 0
  BY HoldLength
<1>4. cfg.recoveryFor \in Nat
  BY DEF StepConfig
<1>5. b /\ v = "recovered" => end - since >= cfg.recoveryFor
  BY <1>2, <1>3, <1>4
<1>6. ~b => v = "recovered"
  BY <1>2, <1>3
<1> HIDE DEF b, t, since
<1>7. CASE b
  <2>1. t = resetToOK(s)
    BY <1>1, <1>7
  <2>2. DOMAIN t = Field /\ t.state = "ok" /\ t.pendingSince = 0 /\ t.recoveringSince = 0
    BY <2>1 DEF resetToOK, Timed, IsRow, Field
  <2>3. QED  BY <1>5, <1>7, <2>2 DEF Timed, IsRow, Ticks, since, t
<1>8. CASE ~b
  <2>1. t = [s EXCEPT !.recoveringSince = since]
    BY <1>1, <1>8
  <2>2. DOMAIN t = Field /\ t.state = "firing" /\ t.pendingSince = s.pendingSince /\ t.recoveringSince = since
    BY <2>1 DEF Timed, IsRow, Field
  <2>3. QED  BY <1>2, <1>6, <1>8, <2>2 DEF Timed, IsRow, Ticks, since, t
<1>9. QED  BY <1>7, <1>8

(* Every transition of the state machine moves the timers so. *)
LEMMA AdvanceTimers ==
    ASSUME NEW s, Timed(s), s.state \in {"ok", "pending", "firing"}, NEW end \in Nat,
           s.recoveringSince <= end, NEW v \in Verdict \cup {"no_data", "expired"},
           NEW cfg \in StepConfig
    PROVE  Timed(Advance(s, v, end, cfg)) /\ Ticks(s, Advance(s, v, end, cfg), v, end, cfg)
<1> DEFINE t == Advance(s, v, end, cfg)
<1>1. cfg.for \in Nat
  BY DEF StepConfig
<1>2. DOMAIN s = Field
  BY DEF Timed, IsRow
<1>3. /\ DOMAIN fire(s, end) = Field /\ fire(s, end).state = "firing"
      /\ fire(s, end).pendingSince = 0 /\ fire(s, end).recoveringSince = 0
  BY <1>2 DEF fire, Field
<1>4. CASE s.state = "ok"
  <2>1. CASE v # "breach"
    <3>1. t = s
      BY <1>4, <2>1 DEF Advance
    <3> HIDE DEF t
    <3>2. QED  BY <1>4, <2>1, <3>1 DEF Ticks, t
  <2>2. CASE v = "breach" /\ cfg.for = 0
    <3>1. t = fire(s, end)
      BY <1>4, <2>2 DEF Advance
    <3> HIDE DEF t
    <3>2. QED  BY <1>3, <1>4, <2>2, <3>1 DEF Ticks, Timed, IsRow, t
  <2>3. CASE v = "breach" /\ cfg.for > 0
    <3>1. cfg.for # 0
      BY <1>1, <2>3
    <3>2. t = [s EXCEPT !.state = "pending", !.pendingSince = end]
      BY <1>4, <2>3, <3>1 DEF Advance
    <3> HIDE DEF t
    <3>3. DOMAIN t = Field /\ t.state = "pending" /\ t.pendingSince = end
          /\ t.recoveringSince = s.recoveringSince
      BY <1>2, <3>2 DEF Field
    <3>4. QED  BY <1>4, <2>3, <3>3 DEF Ticks, Timed, IsRow, t
  <2>4. QED  BY <1>1, <2>1, <2>2, <2>3
<1>5. CASE s.state = "pending"
  <2> DEFINE b == end - s.pendingSince >= cfg.for
  <2>1. t = FromPending(s, v, end, cfg)
    BY <1>5 DEF Advance
  <2>2. FromPending(s, v, end, cfg) =
            IF v # "breach" THEN [s EXCEPT !.state = "ok", !.pendingSince = 0]
            ELSE IF b THEN fire(s, end) ELSE s
    BY DEF FromPending
  <2>3. ~b => end - s.pendingSince < cfg.for
    BY <1>1 DEF Timed
  <2> HIDE DEF t, b
  <2>4. CASE v # "breach"
    <3>1. t = [s EXCEPT !.state = "ok", !.pendingSince = 0]
      BY <2>1, <2>2, <2>4
    <3>2. DOMAIN t = Field /\ t.state = "ok" /\ t.pendingSince = 0 /\ t.recoveringSince = s.recoveringSince
      BY <1>2, <3>1 DEF Field
    <3>3. QED  BY <1>5, <2>4, <3>2 DEF Ticks, Timed, IsRow, t
  <2>5. CASE v = "breach" /\ b
    <3>1. t = fire(s, end)
      BY <2>1, <2>2, <2>5
    <3>2. end - s.pendingSince >= cfg.for
      BY <2>5 DEF b
    <3>3. QED  BY <1>3, <1>5, <2>5, <3>1, <3>2 DEF Ticks, Timed, IsRow, t
  <2>6. CASE v = "breach" /\ ~b
    <3>1. t = s
      BY <2>1, <2>2, <2>6
    <3>2. QED  BY <1>5, <2>3, <2>6, <3>1 DEF Ticks, t
  <2>7. QED  BY <2>4, <2>5, <2>6
<1>6. CASE s.state = "firing"
  <2>1. t = FromFiring(s, v, end, cfg)
    BY <1>6 DEF Advance
  <2>2. CASE v \in {"breach", "band"}
    <3>1. FromFiring(s, v, end, cfg) = [s EXCEPT !.recoveringSince = 0]
      BY <2>2 DEF FromFiring
    <3>2. t = [s EXCEPT !.recoveringSince = 0]
      BY <2>1, <3>1
    <3> HIDE DEF t
    <3>3. DOMAIN t = Field /\ t.state = "firing" /\ t.pendingSince = s.pendingSince /\ t.recoveringSince = 0
      BY <1>2, <1>6, <3>2 DEF Field
    <3>4. QED  BY <1>6, <2>2, <3>3 DEF Ticks, Timed, IsRow, t
  <2>3. CASE v \notin {"breach", "band"}
    <3>1. FromFiring(s, v, end, cfg) = Recover(s, v, end, cfg)
      BY <2>3 DEF FromFiring
    <3>2. v \in {"recovered", "no_data", "expired"}
      BY <2>3 DEF Verdict
    <3>3. QED  BY <1>6, <2>1, <3>1, <3>2, RecoverTimers
  <2>4. QED  BY <2>2, <2>3
<1>7. QED  BY <1>4, <1>5, <1>6

(* The row that an evaluation starts from: the stored one, with a state and the timer after a gap. *)
Resumed(prev, s, in, cfg) ==
    /\ Timed(s)
    /\ s.state = IF prev.state = "none" THEN "ok" ELSE prev.state
    /\ s.pendingSince = Pending(prev, in, cfg)
    /\ s.recoveringSince = prev.recoveringSince

(***************************************************************************)
(* One step of the state machine, and what the plan stores of it: only a   *)
(* row that is ok may be left out.                                         *)
(***************************************************************************)
LEMMA StepTimers ==
    ASSUME NEW prev, Timed(prev), NEW in, in.end \in Nat, in.obs \in Verdict \cup {"absent"},
           prev.recoveringSince <= in.end, NEW cfg \in StepConfig
    PROVE  LET v == Observed(Entered(prev, in, cfg), in, cfg)
               o == Step(prev, in, cfg)
           IN  /\ v \in Verdict \cup {"no_data", "expired", "kept"}
               /\ Timed(o.next) /\ o.next.state # "none"
               /\ \E s : Resumed(prev, s, in, cfg) /\ Ticks(s, o.next, v, in.end, cfg)
               /\ o.open <=> prev.state # "firing" /\ o.next.state = "firing"
               /\ o.next.state # "ok" => o.persist
               /\ ~o.persist /\ ~o.delete => prev.state \in {"none", "ok"}
<1> DEFINE t    == Entered(prev, in, cfg)
           s    == Sighted(t, in, cfg)
           v    == Observed(s, in, cfg)
           kept == v = "kept"
           adv  == IF kept THEN s ELSE Advance(s, v, in.end, cfg)
           next == IF kept \/ cfg.flapping.enabled THEN adv ELSE [adv EXCEPT !.transitions = {}]
           some == ~kept /\ next.transitions # {}
           o    == Step(prev, in, cfg)
<1>1. /\ o.next = next
      /\ o.open = (s.state # "firing" /\ next.state = "firing")
      /\ o.persist = (next.state # "ok" \/ some)
      /\ o.delete = (~kept /\ ~o.persist /\ (prev.state # "none" \/ prev.incident # NoIncident))
  BY DEF Step
<1>2. Resumed(prev, s, in, cfg)
  BY EnteredTimers DEF Resumed
<1>3. s.state \in {"ok", "pending", "firing"} /\ (s.state = "firing" <=> prev.state = "firing")
  BY <1>2 DEF Resumed, Timed, IsRow
<1>4. v = Observed(t, in, cfg)
  BY SightedObserved
<1>5. v \in Verdict \cup {"no_data", "expired", "kept"}
  BY ObservedValue
<1> HIDE DEF o, v, s, t
<1>6. /\ Timed(adv) /\ adv.state \in {"ok", "pending", "firing"}
      /\ Ticks(s, adv, v, in.end, cfg)
  <2>1. CASE kept
    <3>1. adv = s
      BY <2>1
    <3> HIDE DEF adv
    <3>2. Ticks(s, s, v, in.end, cfg)
      BY <1>3, <2>1 DEF Ticks
    <3>3. QED  BY <1>2, <1>3, <3>1, <3>2 DEF Resumed
  <2>2. CASE ~kept
    <3>1. adv = Advance(s, v, in.end, cfg)
      BY <2>2
    <3>2. Timed(s) /\ s.recoveringSince <= in.end /\ DOMAIN s = Field
      BY <1>2 DEF Resumed, Timed, IsRow
    <3>3. v \in Verdict \cup {"no_data", "expired"}
      BY <1>5, <2>2
    <3>4. GoesOn(s, Advance(s, v, in.end, cfg))
      BY <1>3, <3>2, AdvanceRow
    <3>5. Timed(Advance(s, v, in.end, cfg)) /\ Ticks(s, Advance(s, v, in.end, cfg), v, in.end, cfg)
      BY <1>3, <3>2, <3>3, AdvanceTimers
    <3> HIDE DEF adv
    <3>6. QED  BY <3>1, <3>4, <3>5 DEF GoesOn
  <2>3. QED  BY <2>1, <2>2
<1>7. kept => adv = s
  OBVIOUS
<1> HIDE DEF adv, kept
<1>8. /\ DOMAIN next = Field /\ next.state = adv.state
      /\ next.pendingSince = adv.pendingSince /\ next.recoveringSince = adv.recoveringSince
  BY <1>6 DEF Timed, IsRow, Field
<1> HIDE DEF next, some
<1>9. Timed(next) /\ Ticks(s, next, v, in.end, cfg)
  BY <1>6, <1>8 DEF Timed, IsRow, Ticks
<1>10. o.open <=> prev.state # "firing" /\ o.next.state = "firing"
  BY <1>1, <1>3
<1>11. o.next.state # "ok" => o.persist
  BY <1>1
<1>12. ~o.persist /\ ~o.delete => prev.state \in {"none", "ok"}
  <2>1. SUFFICES ASSUME ~o.persist, ~o.delete, prev.state # "none"
                 PROVE  prev.state = "ok"
    OBVIOUS
  <2>2. kept
    BY <1>1, <2>1
  <2>3. s.state = "ok"
    BY <1>1, <1>7, <1>8, <2>1, <2>2
  <2>4. QED  BY <1>2, <2>1, <2>3 DEF Resumed
<1>13. \E s0 : Resumed(prev, s0, in, cfg) /\ Ticks(s0, o.next, v, in.end, cfg)
  BY <1>1, <1>2, <1>9
<1>14. Timed(o.next) /\ o.next.state # "none"
  BY <1>1, <1>6, <1>8, <1>9
<1>15. QED  BY <1>4, <1>5, <1>10, <1>11, <1>12, <1>13, <1>14 DEF o, t
-----------------------------------------------------------------------------
(* The remembered entries into firing. *)

(* Every transition of the state machine remembers the entry into firing that it is. *)
LEMMA AdvanceTransitions ==
    ASSUME NEW s, DOMAIN s = Field, s.state \in {"ok", "pending", "firing"},
           NEW v, NEW end, NEW cfg \in StepConfig
    PROVE  LET t == Advance(s, v, end, cfg) IN
           \/ s.state # "firing" /\ t.state = "firing" /\ t.transitions = LastN(s.transitions \cup {end}, maxTransitions)
           \/ (s.state = "firing" \/ t.state # "firing") /\ t.transitions = s.transitions
<1> DEFINE t == Advance(s, v, end, cfg)
           Adds(u) == u.state = "firing" /\ u.transitions = LastN(s.transitions \cup {end}, maxTransitions)
<1>1. Adds(fire(s, end))
  BY DEF fire, Field
<1> HIDE DEF Adds
<1>2. CASE s.state = "ok"
  <2>1. CASE v # "breach"
    BY <1>2, <2>1 DEF Advance
  <2>2. CASE v = "breach" /\ cfg.for = 0
    <3>1. t = fire(s, end)
      BY <1>2, <2>2 DEF Advance
    <3> HIDE DEF t
    <3>2. QED  BY <1>1, <1>2, <3>1 DEF Adds, t
  <2>3. CASE v = "breach" /\ cfg.for > 0
    <3>1. cfg.for # 0
      BY <2>3 DEF StepConfig
    <3>2. t = [s EXCEPT !.state = "pending", !.pendingSince = end]
      BY <1>2, <2>3, <3>1 DEF Advance
    <3>3. QED  BY <3>2 DEF Field
  <2>4. cfg.for = 0 \/ cfg.for > 0
    BY DEF StepConfig
  <2>5. QED  BY <2>1, <2>2, <2>3, <2>4
<1>3. CASE s.state = "pending"
  <2> DEFINE b == end - s.pendingSince >= cfg.for
  <2>1. t = FromPending(s, v, end, cfg)
    BY <1>3 DEF Advance
  <2>2. FromPending(s, v, end, cfg) =
            IF v # "breach" THEN [s EXCEPT !.state = "ok", !.pendingSince = 0]
            ELSE IF b THEN fire(s, end) ELSE s
    BY DEF FromPending
  <2> HIDE DEF t, b
  <2>3. CASE v # "breach"
    <3>1. t = [s EXCEPT !.state = "ok", !.pendingSince = 0]
      BY <2>1, <2>2, <2>3
    <3>2. t.state = "ok" /\ t.transitions = s.transitions
      BY <3>1 DEF Field
    <3>3. QED  BY <3>2 DEF t
  <2>4. CASE v = "breach" /\ b
    <3>1. t = fire(s, end)
      BY <2>1, <2>2, <2>4
    <3>2. QED  BY <1>1, <1>3, <3>1 DEF Adds, t
  <2>5. CASE v = "breach" /\ ~b
    <3>1. t = s
      BY <2>1, <2>2, <2>5
    <3>2. QED  BY <1>3, <3>1 DEF t
  <2>6. QED  BY <2>3, <2>4, <2>5
<1>4. CASE s.state = "firing"
  <2> DEFINE since == Recovering(s, end)
             b == end - since >= hold(s, v, end, cfg)
  <2>1. t = FromFiring(s, v, end, cfg)
    BY <1>4 DEF Advance
  <2>2. FromFiring(s, v, end, cfg) = IF v \in {"breach", "band"} THEN [s EXCEPT !.recoveringSince = 0]
                                     ELSE IF b THEN resetToOK(s) ELSE [s EXCEPT !.recoveringSince = since]
    BY DEF FromFiring, Recover, Recovering
  <2> HIDE DEF t, b, since
  <2>3. /\ resetToOK(s).transitions = s.transitions
        /\ \A y : [s EXCEPT !.recoveringSince = y].transitions = s.transitions
    BY DEF resetToOK, Field
  <2>4. t.transitions = s.transitions
    BY <2>1, <2>2, <2>3
  <2>5. QED  BY <1>4, <2>4 DEF t
<1>5. QED  BY <1>2, <1>3, <1>4

(* A firing row that flaps is not reset before it has recovered for the hold of the protection. *)
LEMMA FlappingHold ==
    ASSUME NEW s, DOMAIN s = Field, s.state = "firing", NEW end, NEW cfg \in StepConfig,
           Recovering(s, end) \in Nat, end \in Nat,
           Advance(s, "recovered", end, cfg).state # "firing",
           isFlapping(s.transitions, end, cfg.flapping)
    PROVE  end - Recovering(s, end) >= cfg.flapping.hold
<1> DEFINE since == Recovering(s, end)
           d == hold(s, "recovered", end, cfg)
           b == end - since >= d
           t == Advance(s, "recovered", end, cfg)
<1>1. cfg.recoveryFor \in Nat /\ cfg.flapping.hold \in Nat
  BY DEF StepConfig
<1>2. t = FromFiring(s, "recovered", end, cfg)
  BY DEF Advance
<1>3. FromFiring(s, "recovered", end, cfg) = IF b THEN resetToOK(s) ELSE [s EXCEPT !.recoveringSince = since]
  BY DEF FromFiring, Recover, Recovering
<1>4. CASE cfg.flapping.hold > cfg.recoveryFor
  <2>1. d = cfg.flapping.hold
    BY <1>4 DEF hold, HoldExtended
  <2> HIDE DEF since, d, t
  <2>2. b
    <3> HIDE DEF b
    <3>1. ~b => t.state = "firing"
      BY <1>2, <1>3 DEF Field
    <3>2. QED  BY <3>1 DEF t
  <2>3. QED  BY <2>1, <2>2 DEF since
<1>5. CASE ~(cfg.flapping.hold > cfg.recoveryFor)
  <2>1. d = cfg.recoveryFor
    BY <1>5 DEF hold, HoldExtended
  <2> HIDE DEF d, t
  <2>2. b
    <3> HIDE DEF b, since
    <3>1. ~b => t.state = "firing"
      BY <1>2, <1>3 DEF Field
    <3>2. QED  BY <3>1 DEF t
  <2>3. QED  BY <1>1, <1>5, <2>1, <2>2
<1>6. QED  BY <1>4, <1>5

(***************************************************************************)
(* What a step remembers of the entries into firing, and how long it holds *)
(* the recovery of a row that flaps.                                       *)
(***************************************************************************)
LEMMA StepTransitions ==
    ASSUME NEW prev, Timed(prev), NEW in, in.end \in Nat, in.obs \in Verdict \cup {"absent"},
           NEW cfg \in StepConfig
    PROVE  LET v == Observed(Entered(prev, in, cfg), in, cfg)
               o == Step(prev, in, cfg)
               p == pruneTransitions(prev.transitions, in.end, cfg.flapping)
           IN  /\ \/ o.next.transitions = {} /\ ~cfg.flapping.enabled
                  \/ o.next.transitions = p /\ ~o.open
                  \/ o.next.transitions = LastN(p \cup {in.end}, maxTransitions) /\ o.open
               /\ o.open => o.persist
               /\ o.delete => o.next.transitions = {}
               /\ /\ prev.state = "firing" /\ o.next.state # "firing" /\ v = "recovered"
                  /\ isFlapping(p, in.end, cfg.flapping)
                  => in.end - Recovering(prev, in.end) >= cfg.flapping.hold
<1> DEFINE t    == Entered(prev, in, cfg)
           s    == Sighted(t, in, cfg)
           v    == Observed(s, in, cfg)
           kept == v = "kept"
           adv  == IF kept THEN s ELSE Advance(s, v, in.end, cfg)
           next == IF kept \/ cfg.flapping.enabled THEN adv ELSE [adv EXCEPT !.transitions = {}]
           some == ~kept /\ next.transitions # {}
           o    == Step(prev, in, cfg)
           p    == pruneTransitions(prev.transitions, in.end, cfg.flapping)
           Fires(u) == s.state # "firing" /\ u.state = "firing"
<1>1. /\ o.next = next
      /\ o.open = (s.state # "firing" /\ next.state = "firing")
      /\ o.persist = (next.state # "ok" \/ some)
      /\ o.delete = (~kept /\ ~o.persist /\ (prev.state # "none" \/ prev.incident # NoIncident))
  BY DEF Step
<1>2. Resumed(prev, s, in, cfg)
  BY EnteredTimers DEF Resumed
<1>3. s.state \in {"ok", "pending", "firing"} /\ (s.state = "firing" <=> prev.state = "firing")
      /\ DOMAIN s = Field /\ s.recoveringSince = prev.recoveringSince
  BY <1>2 DEF Resumed, Timed, IsRow
<1>4. v = Observed(t, in, cfg)
  BY SightedObserved
<1>5. s.transitions = p
  <2>1. DOMAIN t = Field /\ t.transitions = p
    BY DEF Entered, Timed, IsRow, Field
  <2> HIDE DEF t
  <2>2. QED  BY <2>1 DEF Sighted, Field
<1> HIDE DEF o, v, s, t, p
<1>6. /\ DOMAIN adv = Field
      /\ \/ ~Fires(adv) /\ adv.transitions = p
         \/ Fires(adv) /\ adv.transitions = LastN(p \cup {in.end}, maxTransitions)
  <2>1. CASE kept
    <3>1. adv = s
      BY <2>1
    <3>2. QED  BY <1>3, <1>5, <3>1
  <2>2. CASE ~kept
    <3>1. adv = Advance(s, v, in.end, cfg)
      BY <2>2
    <3>2. GoesOn(s, Advance(s, v, in.end, cfg))
      BY <1>3, AdvanceRow
    <3> HIDE DEF adv
    <3>3. QED  BY <1>3, <1>5, <3>1, <3>2, AdvanceTransitions DEF GoesOn
  <2>3. QED  BY <2>1, <2>2
<1>7. v = "recovered" => adv = Advance(s, v, in.end, cfg)
  OBVIOUS
<1> HIDE DEF adv, kept
<1>8. /\ next.state = adv.state
      /\ \/ next.transitions = adv.transitions
         \/ next.transitions = {} /\ ~cfg.flapping.enabled
  BY <1>6 DEF Field
<1> HIDE DEF next, some, Fires
<1>9. \/ o.next.transitions = {} /\ ~cfg.flapping.enabled
      \/ o.next.transitions = p /\ ~o.open
      \/ o.next.transitions = LastN(p \cup {in.end}, maxTransitions) /\ o.open
  BY <1>1, <1>6, <1>8 DEF Fires
<1>10. o.open => o.persist
  BY <1>1
<1>11. o.delete => o.next.transitions = {}
  BY <1>1 DEF some
<1>12. ASSUME prev.state = "firing", o.next.state # "firing", v = "recovered",
              isFlapping(p, in.end, cfg.flapping)
       PROVE  in.end - Recovering(prev, in.end) >= cfg.flapping.hold
  <2>1. Recovering(prev, in.end) = Recovering(s, in.end) /\ Recovering(s, in.end) \in Nat
    BY <1>3 DEF Recovering, Timed
  <2>2. Advance(s, "recovered", in.end, cfg).state # "firing"
    BY <1>1, <1>7, <1>8, <1>12
  <2>3. QED  BY <1>3, <1>5, <1>12, <2>1, <2>2, FlappingHold
<1>13. QED  BY <1>4, <1>9, <1>10, <1>11, <1>12 DEF o, t, p
=============================================================================
