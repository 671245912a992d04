--------------------------- MODULE AlertSeriesProofs ---------------------------
(***************************************************************************)
(* Proofs about the life of one series, for any settings, any schedule of  *)
(* evaluations and any number of edits: what the timers of the row say is  *)
(* what was observed.                                                      *)
(***************************************************************************)
EXTENDS AlertSeries, AlertStateProofs, FiniteSetTheorems, WellFoundedInduction

Entry == [at : Nat, obs : Verdict \cup {"no_data", "expired", "kept"},
          gap : BOOLEAN, fired : BOOLEAN, window : Nat]

(* The types that the argument needs; nothing was observed after the last window. *)
Typed ==
    /\ cfg \in Config
    /\ end \in Nat
    /\ Timed(row) /\ row.recoveringSince <= end
    /\ hist \in Seq(Entry)
    /\ \A j \in 1..Len(hist) : hist[j].at <= end

(* From the i-th evaluation of h on, the series was seen breaching. *)
BreachingFrom(h, i) ==
    /\ h[i].obs = "breach" \/ h[i].gap = TRUE
    /\ Throughout(h, i, {"breach", "kept"})
    /\ Unbroken(h, i)

(* A pending row counts from an evaluation since which the series was seen breaching. *)
PendingStory(h, r) ==
    r.state = "pending" =>
        \E i \in 1..Len(h) : h[i].at = r.pendingSince /\ BreachingFrom(h, i)

(* From the i-th evaluation of h on, the series was recovered. *)
RecoveredFrom(h, i) == h[i].obs = "recovered" /\ Throughout(h, i, {"recovered", "kept"})

(* A recovery hold counts from an evaluation since which the series was recovered. *)
RecoveryStory(h, r) ==
    r.state = "firing" /\ r.recoveringSince # 0 =>
        \E i \in 1..Len(h) : h[i].at = r.recoveringSince /\ RecoveredFrom(h, i)

(* A series that only breached since the i-th evaluation of h fires, or counts at least from there. *)
NoneMissed(h, r) ==
    \A i \in 1..Len(h) : Throughout(h, i, {"breach"}) /\ Unbroken(h, i) =>
        r.state = "firing" \/ (r.state = "pending" /\ r.pendingSince <= h[i].at)

IInv ==
    /\ Typed
    /\ PendingStory(hist, row)
    /\ RecoveryStory(hist, row)
    /\ NoneMissed(hist, row)

-----------------------------------------------------------------------------
(* The record of an evaluation at the end of the history. *)

LEMMA AppendHistory ==
    ASSUME NEW h \in Seq(Entry), NEW x \in Entry
    PROVE  LET g == Append(h, x) IN
           /\ g \in Seq(Entry) /\ Len(g) = Len(h) + 1 /\ Len(h) \in Nat
           /\ g[Len(g)] = x
           /\ \A j \in 1..Len(h) : g[j] = h[j]
OBVIOUS

(* Observations in V go on being so with one more in V. *)
LEMMA ThroughoutAppend ==
    ASSUME NEW h \in Seq(Entry), NEW x \in Entry, NEW V, NEW i \in 1..Len(h)
    PROVE  Throughout(Append(h, x), i, V) <=> Throughout(h, i, V) /\ x.obs \in V
<1> DEFINE g == Append(h, x)
<1>1. /\ Len(g) = Len(h) + 1 /\ Len(h) \in Nat /\ g[Len(g)] = x
      /\ \A j \in 1..Len(h) : g[j] = h[j]
  BY AppendHistory
<1> HIDE DEF g
<1>2. i..Len(g) = (i..Len(h)) \cup {Len(g)} /\ i..Len(h) \subseteq 1..Len(h)
  BY <1>1
<1>3. Throughout(g, i, V) <=> (\A j \in i..Len(h) : g[j].obs \in V) /\ g[Len(g)].obs \in V
  BY <1>2 DEF Throughout
<1>4. (\A j \in i..Len(h) : g[j].obs \in V) <=> Throughout(h, i, V)
  BY <1>1, <1>2 DEF Throughout
<1>5. QED  BY <1>1, <1>3, <1>4 DEF g

(* A history without a gap goes on without one. *)
LEMMA UnbrokenAppend ==
    ASSUME NEW h \in Seq(Entry), NEW x \in Entry, NEW i \in 1..Len(h)
    PROVE  Unbroken(Append(h, x), i) <=> Unbroken(h, i) /\ x.gap = FALSE
<1> DEFINE g == Append(h, x)
<1>1. /\ Len(g) = Len(h) + 1 /\ Len(h) \in Nat /\ g[Len(g)] = x
      /\ \A j \in 1..Len(h) : g[j] = h[j]
  BY AppendHistory
<1> HIDE DEF g
<1>2. (i + 1)..Len(g) = ((i + 1)..Len(h)) \cup {Len(g)} /\ (i + 1)..Len(h) \subseteq 1..Len(h)
  BY <1>1
<1>3. Unbroken(g, i) <=> (\A j \in (i + 1)..Len(h) : ~g[j].gap) /\ ~g[Len(g)].gap
  BY <1>2 DEF Unbroken
<1>4. (\A j \in (i + 1)..Len(h) : ~g[j].gap) <=> Unbroken(h, i)
  BY <1>1, <1>2 DEF Unbroken
<1>5. ~x.gap <=> x.gap = FALSE
  BY DEF Entry
<1>6. QED  BY <1>1, <1>3, <1>4, <1>5 DEF g

(* The last evaluation alone. *)
LEMMA LastAppended ==
    ASSUME NEW h \in Seq(Entry), NEW x \in Entry, NEW V
    PROVE  LET g == Append(h, x) IN
           /\ Len(g) \in 1..Len(g)
           /\ Throughout(g, Len(g), V) <=> x.obs \in V
           /\ Unbroken(g, Len(g))
<1> DEFINE g == Append(h, x)
<1>1. Len(g) = Len(h) + 1 /\ Len(h) \in Nat /\ g[Len(g)] = x
  BY AppendHistory
<1> HIDE DEF g
<1>2. Len(g)..Len(g) = {Len(g)} /\ (Len(g) + 1)..Len(g) = {} /\ Len(g) \in 1..Len(g)
  BY <1>1
<1>3. QED  BY <1>1, <1>2 DEF Throughout, Unbroken, g

(***************************************************************************)
(* An evaluation with the record x takes the row r to r2: it starts from s *)
(* and ends with t, of which at most a row that is ok is not stored.       *)
(***************************************************************************)
Moves(r, s, t, r2, x, c) ==
    /\ Timed(s) /\ Timed(t) /\ Timed(r2)
    /\ s.state = IF r.state = "none" THEN "ok" ELSE r.state
    /\ s.pendingSince = IF r.state = "pending" /\ x.gap = TRUE THEN x.at ELSE r.pendingSince
    /\ s.recoveringSince = r.recoveringSince
    /\ Ticks(s, t, x.obs, x.at, c)
    /\ t.state # "none"
    /\ t.state = "ok" => r2.state \in {"none", "ok"}
    /\ t.state # "ok" => /\ r2.state = t.state
                         /\ r2.pendingSince = t.pendingSince
                         /\ r2.recoveringSince = t.recoveringSince
    /\ r2.recoveringSince <= x.at
    /\ x.fired = TRUE <=> r.state # "firing" /\ r2.state = "firing"

(***************************************************************************)
(* What the evaluation with the record x does to the remembered entries    *)
(* into firing, and how long it holds the recovery of a row that flaps.    *)
(***************************************************************************)
Recalls(r, r2, x, c) ==
    LET p == pruneTransitions(r.transitions, x.at, c.flapping) IN
    /\ x.window = Protected(c)
    /\ \/ r2.transitions = {} /\ x.window = 0
       \/ r2.transitions = r.transitions /\ x.fired = FALSE
       \/ r2.transitions = p /\ x.fired = FALSE
       \/ r2.transitions = LastN(p \cup {x.at}, maxTransitions) /\ x.fired = TRUE
    /\ /\ r.state = "firing" /\ r2.state # "firing" /\ x.obs = "recovered"
       /\ isFlapping(p, x.at, c.flapping)
       => x.at - Recovering(r, x.at) >= c.flapping.hold

Observes(x) ==
    /\ x \in Entry /\ x.at = end' /\ hist' = Append(hist, x)
    /\ end < end' /\ end' \in Nat /\ UNCHANGED cfg
    /\ \E s, t : Moves(row, s, t, row', x, cfg)
    /\ Recalls(row, row', x, cfg)

LEMMA EvaluateEffect ==
    ASSUME Typed, NEW skip \in Skip, NEW obs \in Verdict \cup {"absent"}, Evaluate(skip, obs)
    PROVE  \/ UNCHANGED <<row, hist, cfg>> /\ end' \in Nat /\ end <= end'
           \/ \E x : Observes(x)
<1> DEFINE in == [end |-> end', prevEvalEnd |-> end, obs |-> obs]
           out == Step(row, in, cfg)
           v == Observed(Entered(row, in, cfg), in, cfg)
           gap == EvaluationGap(in, cfg)
           x == [at |-> end', gap |-> gap, obs |-> v, fired |-> out.open,
                 window |-> Protected(cfg)]
<1>1. cfg \in StepConfig /\ cfg.interval \in Nat \ {0} /\ skip \in Nat /\ end \in Nat /\ end' \in Int
      /\ end' = end + (1 + skip) * cfg.interval /\ UNCHANGED cfg
  <2>0. cfg \in StepConfig /\ cfg.interval > 0 /\ end \in Nat
    BY SeriesAssumption DEF Typed
  <2>1. cfg \in StepConfig /\ cfg.interval \in Nat \ {0} /\ end \in Nat
    BY ONLY <2>0 DEF StepConfig
  <2>2. skip \in Nat
    BY SeriesAssumption
  <2>3. end' = end + (1 + skip) * cfg.interval /\ UNCHANGED cfg
    BY DEF Evaluate
  <2>4. (1 + skip) * cfg.interval \in Int
    BY <2>1, <2>2
  <2> HIDE DEF x, gap, v, out, in
  <2>5. end' \in Int
    BY <2>1, <2>3, <2>4
  <2> QED  BY <2>1, <2>2, <2>3, <2>5
<1>2. end' \in Nat /\ end < end'
  <2> DEFINE d == skip * cfg.interval
  <2>1. \A m, n \in Nat : m * n \in Nat
    OBVIOUS
  <2>2. d \in Nat
    BY <1>1, <2>1
  <2>3. (1 + skip) * cfg.interval = cfg.interval + d
    BY <1>1
  <2>4. end' = end + (cfg.interval + d)
    BY <1>1, <2>3
  <2> HIDE DEF d
  <2>5. QED  BY <1>1, <2>2, <2>4
<1>3. CASE row = NoRow /\ obs = "absent"
  BY <1>1, <1>2, <1>3 DEF Evaluate
<1>4. CASE ~(row = NoRow /\ obs = "absent")
  <2>1. row' = Stored(out, "incident") /\ hist' = Append(hist, x)
    BY <1>1, <1>4 DEF Evaluate
  <2>2. in.end = end' /\ in.prevEvalEnd = end /\ in.obs = obs
    OBVIOUS
  <2>3. Timed(row) /\ row.recoveringSince <= in.end
    BY <1>1, <1>2, <2>2 DEF Typed, Timed
  <2> DEFINE S(s) == Resumed(row, s, in, cfg) /\ Ticks(s, out.next, v, in.end, cfg)
  <2> HIDE DEF in
  <2>4. /\ v \in Verdict \cup {"no_data", "expired", "kept"}
        /\ Timed(out.next) /\ out.next.state # "none"
        /\ \E s : S(s)
        /\ out.open <=> row.state # "firing" /\ out.next.state = "firing"
        /\ out.next.state # "ok" => out.persist
        /\ ~out.persist /\ ~out.delete => row.state \in {"none", "ok"}
    BY <1>1, <1>2, <2>2, <2>3, StepTimers
  <2>5. PICK s : S(s)
    BY <2>4
  <2> DEFINE p == pruneTransitions(row.transitions, in.end, cfg.flapping)
             Held == /\ row.state = "firing" /\ out.next.state # "firing" /\ v = "recovered"
                     /\ isFlapping(p, in.end, cfg.flapping)
                     => in.end - Recovering(row, in.end) >= cfg.flapping.hold
             T == \/ out.next.transitions = {} /\ ~cfg.flapping.enabled
                  \/ out.next.transitions = p /\ ~out.open
                  \/ out.next.transitions = LastN(p \cup {in.end}, maxTransitions) /\ out.open
  <2>5a. T /\ (out.open => out.persist) /\ (out.delete => out.next.transitions = {}) /\ Held
    <3>1. in.end \in Nat /\ in.obs \in Verdict \cup {"absent"} /\ Timed(row) /\ cfg \in StepConfig
      BY <1>1, <1>2, <2>2, <2>3
    <3>2. QED  BY <3>1, StepTransitions
  <2>6. gap \in BOOLEAN /\ out.open \in BOOLEAN /\ Protected(cfg) \in Nat
    BY <1>1 DEF EvaluationGap, Step, StepConfig, Protected
  <2> DEFINE t == out.next
  <2> HIDE DEF out, v, gap, S
  <2>7. x \in Entry /\ x.at = end' /\ x.obs = v /\ x.gap = gap /\ x.fired = out.open
        /\ x.window = Protected(cfg)
    BY <1>2, <2>4, <2>6 DEF Entry
  <2>8. s.pendingSince = IF row.state = "pending" /\ x.gap = TRUE THEN x.at ELSE row.pendingSince
    BY <2>2, <2>5, <2>6, <2>7 DEF S, Resumed, Pending, gap
  <2> HIDE DEF x
  <2>9. /\ Timed(row')
        /\ t.state = "ok" => row'.state \in {"none", "ok"}
        /\ t.state # "ok" => /\ row'.state = t.state
                             /\ row'.pendingSince = t.pendingSince
                             /\ row'.recoveringSince = t.recoveringSince
        /\ row'.recoveringSince <= x.at
    <3>1. t.recoveringSince <= x.at
      BY <1>1, <1>2, <2>2, <2>3, <2>5, <2>7 DEF S, Resumed, Ticks, Timed
    <3>2. CASE out.persist
      <4> DEFINE i == IF out.open THEN "incident" ELSE t.incident
      <4>1. row' = [t EXCEPT !.incident = i]
        BY <2>1, <3>2 DEF Stored
      <4> HIDE DEF i
      <4>2. /\ DOMAIN row' = Field /\ row'.state = t.state /\ row'.pendingSince = t.pendingSince
            /\ row'.recoveringSince = t.recoveringSince
        BY <2>4, <4>1 DEF Timed, IsRow, Field
      <4>3. QED  BY <2>4, <3>1, <4>2 DEF Timed, IsRow
    <3>3. CASE ~out.persist /\ out.delete
      <4>1. row' = NoRow
        BY <2>1, <3>3 DEF Stored
      <4>2. /\ DOMAIN NoRow = Field /\ NoRow.state = "none" /\ NoRow.pendingSince = 0
            /\ NoRow.recoveringSince = 0
        BY DEF NoRow, Field
      <4>3. QED  BY <1>2, <2>4, <2>7, <3>3, <4>1, <4>2 DEF Timed, IsRow
    <3>4. CASE ~out.persist /\ ~out.delete
      <4>1. row' = row
        BY <2>1, <3>4 DEF Stored
      <4>2. QED  BY <2>2, <2>3, <2>4, <2>7, <3>4, <4>1
    <3>5. QED  BY <3>2, <3>3, <3>4
  <2>10. x.fired = TRUE <=> row.state # "firing" /\ row'.state = "firing"
    BY <2>4, <2>6, <2>7, <2>9 DEF Timed, IsRow
  <2>11. Moves(row, s, t, row', x, cfg)
    BY <2>2, <2>4, <2>5, <2>7, <2>8, <2>9, <2>10 DEF Moves, S, Resumed
  <2>12. \E s1, t1 : Moves(row, s1, t1, row', x, cfg)
    BY <2>11
  <2>13. Recalls(row, row', x, cfg)
    <3>1. \/ row'.transitions = {} /\ x.window = 0
          \/ row'.transitions = row.transitions /\ x.fired = FALSE
          \/ row'.transitions = p /\ x.fired = FALSE
          \/ row'.transitions = LastN(p \cup {x.at}, maxTransitions) /\ x.fired = TRUE
      <4> HIDE DEF p, Held
      <4>1. CASE out.persist
        <5> DEFINE i == IF out.open THEN "incident" ELSE t.incident
        <5>1. row' = [t EXCEPT !.incident = i]
          BY <2>1, <4>1 DEF Stored
        <5> HIDE DEF i
        <5>2. row'.transitions = out.next.transitions
          BY <2>4, <5>1 DEF Timed, IsRow, Field
        <5>3. QED  BY <2>2, <2>6, <2>7, <2>5a, <5>2 DEF Protected
      <4>2. CASE ~out.persist /\ out.delete
        <5>1. row' = NoRow
          BY <2>1, <4>2 DEF Stored
        <5>2. row'.transitions = out.next.transitions
          BY <2>5a, <4>2, <5>1 DEF NoRow
        <5>3. QED  BY <2>2, <2>6, <2>7, <2>5a, <5>2 DEF Protected
      <4>3. CASE ~out.persist /\ ~out.delete
        <5>1. row' = row
          BY <2>1, <4>3 DEF Stored
        <5>2. QED  BY <2>6, <2>7, <2>5a, <4>3, <5>1
      <4>4. QED  BY <4>1, <4>2, <4>3
    <3>2. row.state = "firing" /\ row'.state # "firing" => t.state # "firing"
      BY <2>9
    <3>3. /\ row.state = "firing" /\ row'.state # "firing" /\ x.obs = "recovered"
          /\ isFlapping(p, x.at, cfg.flapping)
          => x.at - Recovering(row, x.at) >= cfg.flapping.hold
      BY <2>2, <2>7, <2>5a, <3>2
    <3>4. QED  BY <2>2, <2>7, <3>1, <3>3 DEF Recalls
  <2>14. Observes(x)
    BY <1>1, <1>2, <2>1, <2>7, <2>12, <2>13 DEF Observes, x
  <2>15. QED  BY <2>14
<1>5. QED  BY <1>3, <1>4

-----------------------------------------------------------------------------
(* The inductive invariant. *)

LEMMA TypedStep ==
    ASSUME Typed, NEW x, Observes(x)
    PROVE  Typed'
<1> DEFINE h == hist
           g == Append(h, x)
<1>1. hist \in Seq(Entry) /\ x \in Entry /\ hist' = g /\ x.at = end' /\ end <= end' /\ end' \in Nat
      /\ cfg' = cfg /\ end \in Nat
  BY DEF Typed, Observes
<1>2. /\ g \in Seq(Entry) /\ Len(g) = Len(h) + 1 /\ Len(h) \in Nat
      /\ g[Len(g)] = x /\ \A j \in 1..Len(h) : g[j] = h[j]
  BY <1>1, AppendHistory
<1> HIDE DEF g
<1>3. \A j \in 1..Len(g) : g[j].at <= end'
  <2>1. SUFFICES ASSUME NEW j \in 1..Len(g)
                 PROVE  g[j].at <= end'
    OBVIOUS
  <2>2. CASE j = Len(g)
    BY <1>1, <1>2, <2>2
  <2>3. CASE j # Len(g)
    <3>1. j \in 1..Len(h)
      BY <1>2, <2>1, <2>3
    <3>2. h[j].at <= end /\ h[j] \in Entry
      BY <1>1, <3>1 DEF Typed
    <3>3. h[j].at \in Nat
      BY <3>2 DEF Entry
    <3>4. QED  BY <1>1, <1>2, <3>1, <3>2, <3>3
  <2>4. QED  BY <2>2, <2>3
<1>4. Timed(row') /\ row'.recoveringSince <= end'
  BY <1>1 DEF Observes, Moves
<1>5. QED  BY <1>1, <1>2, <1>3, <1>4 DEF Typed

(* A pending row has been pending, or it starts to count with this evaluation. *)
LEMMA PendingStep ==
    ASSUME NEW h \in Seq(Entry), NEW x \in Entry, NEW r, NEW s, NEW t, NEW r2, NEW c,
           PendingStory(h, r), Moves(r, s, t, r2, x, c)
    PROVE  PendingStory(Append(h, x), r2)
<1> DEFINE g == Append(h, x)
<1>1. SUFFICES ASSUME r2.state = "pending"
               PROVE  \E i \in 1..Len(g) : g[i].at = r2.pendingSince /\ BreachingFrom(g, i)
  BY DEF PendingStory
<1>2. /\ Len(g) = Len(h) + 1 /\ Len(h) \in Nat /\ g[Len(g)] = x /\ Len(g) \in 1..Len(g)
      /\ \A j \in 1..Len(h) : g[j] = h[j]
  BY AppendHistory, LastAppended
<1>3. t.state = "pending" /\ r2.pendingSince = t.pendingSince
  BY <1>1 DEF Moves
<1>4. x.gap \in BOOLEAN
  BY DEF Entry
<1>5. \/ x.obs = "breach" /\ r2.pendingSince = x.at
      \/ s.state = "pending" /\ x.obs \in {"breach", "kept"} /\ r2.pendingSince = s.pendingSince
  BY <1>3 DEF Moves, Ticks
<1>6. CASE x.obs = "breach" /\ r2.pendingSince = x.at
  <2>1. Throughout(g, Len(g), {"breach", "kept"}) /\ Unbroken(g, Len(g))
    BY <1>6, LastAppended
  <2>2. BreachingFrom(g, Len(g))
    BY <1>2, <1>6, <2>1 DEF BreachingFrom
  <2>3. QED  BY <1>2, <1>6, <2>2
<1>7. CASE s.state = "pending" /\ x.obs \in {"breach", "kept"} /\ r2.pendingSince = s.pendingSince
  <2>1. r.state = "pending"
    BY <1>7 DEF Moves
  <2>2. CASE x.gap = TRUE
    <3>1. r2.pendingSince = x.at
      BY <1>7, <2>1, <2>2 DEF Moves
    <3>2. Throughout(g, Len(g), {"breach", "kept"}) /\ Unbroken(g, Len(g))
      BY <1>7, LastAppended
    <3>3. BreachingFrom(g, Len(g))
      BY <1>2, <2>2, <3>2 DEF BreachingFrom
    <3>4. QED  BY <1>2, <3>1, <3>3
  <2>3. CASE x.gap = FALSE
    <3>1. r2.pendingSince = r.pendingSince
      BY <1>7, <2>3 DEF Moves
    <3>2. PICK i \in 1..Len(h) : h[i].at = r.pendingSince /\ BreachingFrom(h, i)
      BY <2>1 DEF PendingStory
    <3>3. Throughout(g, i, {"breach", "kept"}) /\ Unbroken(g, i)
      BY <1>7, <2>3, <3>2, ThroughoutAppend, UnbrokenAppend DEF BreachingFrom
    <3>4. g[i] = h[i] /\ i \in 1..Len(g)
      BY <1>2, <3>2
    <3> HIDE DEF g
    <3>5. BreachingFrom(g, i)
      BY <3>2, <3>3, <3>4 DEF BreachingFrom
    <3>6. QED  BY <3>1, <3>2, <3>4, <3>5
  <2>4. QED  BY <1>4, <2>2, <2>3
<1>8. QED  BY <1>5, <1>6, <1>7

(* A row in recovery has been so, or its hold starts to count with this evaluation. *)
LEMMA RecoveryStep ==
    ASSUME NEW h \in Seq(Entry), NEW x \in Entry, NEW r, NEW s, NEW t, NEW r2, NEW c,
           RecoveryStory(h, r), Moves(r, s, t, r2, x, c)
    PROVE  RecoveryStory(Append(h, x), r2)
<1> DEFINE g == Append(h, x)
<1>1. SUFFICES ASSUME r2.state = "firing", r2.recoveringSince # 0
               PROVE  \E i \in 1..Len(g) : g[i].at = r2.recoveringSince /\ RecoveredFrom(g, i)
  BY DEF RecoveryStory
<1>2. /\ Len(g) = Len(h) + 1 /\ Len(h) \in Nat /\ g[Len(g)] = x /\ Len(g) \in 1..Len(g)
      /\ \A j \in 1..Len(h) : g[j] = h[j]
  BY AppendHistory, LastAppended
<1>3. t.state = "firing" /\ r2.recoveringSince = t.recoveringSince
  BY <1>1 DEF Moves
<1>4. s.state = "firing" /\ r.state = "firing" /\ s.recoveringSince = r.recoveringSince
  BY <1>1, <1>3 DEF Moves, Ticks
<1>5. \/ x.obs = "recovered" /\ r2.recoveringSince = x.at
      \/ x.obs \in {"recovered", "kept"} /\ r2.recoveringSince = r.recoveringSince
  BY <1>1, <1>3, <1>4 DEF Moves, Ticks, Recovering
<1>6. CASE x.obs = "recovered" /\ r2.recoveringSince = x.at
  <2>1. Throughout(g, Len(g), {"recovered", "kept"})
    BY <1>6, LastAppended
  <2>2. RecoveredFrom(g, Len(g))
    BY <1>2, <1>6, <2>1 DEF RecoveredFrom
  <2>3. QED  BY <1>2, <1>6, <2>2
<1>7. CASE x.obs \in {"recovered", "kept"} /\ r2.recoveringSince = r.recoveringSince
  <2>1. PICK i \in 1..Len(h) : h[i].at = r.recoveringSince /\ RecoveredFrom(h, i)
    BY <1>1, <1>4, <1>7 DEF RecoveryStory
  <2>2. Throughout(g, i, {"recovered", "kept"})
    BY <1>7, <2>1, ThroughoutAppend DEF RecoveredFrom
  <2>3. g[i] = h[i] /\ i \in 1..Len(g)
    BY <1>2, <2>1
  <2> HIDE DEF g
  <2>4. RecoveredFrom(g, i)
    BY <2>1, <2>2, <2>3 DEF RecoveredFrom
  <2>5. QED  BY <1>7, <2>1, <2>3, <2>4
<1>8. QED  BY <1>5, <1>6, <1>7

(* What the rows count from is not later than the last evaluation. *)
LEMMA PendingBefore ==
    ASSUME NEW h, NEW r, PendingStory(h, r), r.state = "pending", NEW e,
           \A j \in 1..Len(h) : h[j].at <= e
    PROVE  r.pendingSince <= e
BY DEF PendingStory

(* A breach that is not overlooked is not overlooked by the next evaluation either. *)
LEMMA NoneMissedStep ==
    ASSUME NEW h \in Seq(Entry), NEW x \in Entry, NEW r, NEW s, NEW t, NEW r2, NEW c,
           PendingStory(h, r), NoneMissed(h, r), Moves(r, s, t, r2, x, c), Timed(r),
           \A j \in 1..Len(h) : h[j].at <= x.at
    PROVE  NoneMissed(Append(h, x), r2)
<1> DEFINE g == Append(h, x)
<1>1. SUFFICES ASSUME NEW i \in 1..Len(g), Throughout(g, i, {"breach"}), Unbroken(g, i),
                      r2.state # "firing"
               PROVE  r2.state = "pending" /\ r2.pendingSince <= g[i].at
  BY DEF NoneMissed
<1>2. /\ Len(g) = Len(h) + 1 /\ Len(h) \in Nat /\ g[Len(g)] = x
      /\ \A j \in 1..Len(h) : g[j] = h[j]
  BY AppendHistory
<1>3. x.obs = "breach"
  <2>1. g[Len(g)].obs = "breach"
    BY <1>1, <1>2 DEF Throughout
  <2>2. QED  BY <1>2, <2>1
<1>4. t.state = "pending" /\ r2.state = "pending" /\ r2.pendingSince = t.pendingSince
  BY <1>1, <1>3 DEF Moves, Ticks
<1>5. \/ s.state = "ok" /\ r2.pendingSince = x.at
      \/ s.state = "pending" /\ r2.pendingSince = s.pendingSince
  BY <1>4 DEF Moves, Ticks
<1>6. x.at \in Nat /\ x.gap \in BOOLEAN /\ r.pendingSince \in Nat
  BY DEF Entry, Timed
<1>7. CASE i = Len(g)
  <2>1. s.state = "pending" => r.state = "pending"
    BY DEF Moves
  <2>2. r.state = "pending" => r.pendingSince <= x.at
    BY PendingBefore
  <2>3. s.state = "pending" => s.pendingSince \in {x.at, r.pendingSince}
    BY DEF Moves
  <2>4. QED  BY <1>2, <1>4, <1>5, <1>6, <1>7, <2>1, <2>2, <2>3
<1>8. CASE i # Len(g)
  <2>1. i \in 1..Len(h)
    BY <1>1, <1>2, <1>8
  <2>2. Throughout(h, i, {"breach"}) /\ Unbroken(h, i) /\ x.gap = FALSE
    BY <1>1, <2>1, ThroughoutAppend, UnbrokenAppend
  <2>3. r.state = "firing" \/ (r.state = "pending" /\ r.pendingSince <= h[i].at)
    BY <2>1, <2>2 DEF NoneMissed
  <2>4. r.state # "firing"
    BY <1>4 DEF Moves, Ticks
  <2>5. s.state = "pending" /\ s.pendingSince = r.pendingSince
    BY <2>2, <2>3, <2>4 DEF Moves
  <2>6. g[i] = h[i]
    BY <1>2, <2>1
  <2>7. QED  BY <1>4, <1>5, <2>3, <2>4, <2>5, <2>6
<1>9. QED  BY <1>7, <1>8

LEMMA InitIInv == Init => IInv
<1>1. SUFFICES ASSUME Init
               PROVE  IInv
  OBVIOUS
<1>2. cfg \in Config /\ row = NoRow /\ end = 0 /\ hist = <<>>
  BY <1>1 DEF Init
<1>3. /\ DOMAIN NoRow = Field /\ NoRow.state = "none" /\ NoRow.pendingSince = 0
      /\ NoRow.recoveringSince = 0
  BY DEF NoRow, Field
<1>4. Typed
  BY <1>2, <1>3 DEF Typed, Timed, IsRow
<1>5. NoneMissed(hist, row)
  BY <1>2 DEF NoneMissed
<1>6. QED  BY <1>2, <1>3, <1>4, <1>5 DEF IInv, PendingStory, RecoveryStory

(* Every step is an evaluation, a window without the series, an edit, or a manual resolve. *)
LEMMA StepKind ==
    ASSUME Typed, [Next]_vars
    PROVE  \/ UNCHANGED <<row, hist>> /\ end' \in Nat /\ end <= end' /\ cfg' \in Config
           \/ \E x : Observes(x)
           \/ ManualResolve
<1>1. CASE \E skip \in Skip, obs \in Verdict \cup {"absent"} : Evaluate(skip, obs)
  <2>1. PICK skip \in Skip : \E obs \in Verdict \cup {"absent"} : Evaluate(skip, obs)
    BY <1>1
  <2>2. PICK obs \in Verdict \cup {"absent"} : Evaluate(skip, obs)
    BY <2>1
  <2>3. QED  BY <2>2, EvaluateEffect DEF Typed
<1>2. CASE \E c \in Config : EditRule(c)
  BY <1>2 DEF EditRule, Typed
<1>3. CASE ManualResolve
  BY <1>3
<1>4. CASE UNCHANGED vars
  BY <1>4 DEF vars, Typed
<1>5. QED  BY <1>1, <1>2, <1>3, <1>4 DEF Next

LEMMA StepIInv == IInv /\ [Next]_vars => IInv'
<1>1. SUFFICES ASSUME IInv, [Next]_vars
               PROVE  IInv'
  OBVIOUS
<1>2. CASE UNCHANGED <<row, hist>> /\ end' \in Nat /\ end <= end' /\ cfg' \in Config
  <2>1. \A j \in 1..Len(hist) : hist[j].at <= end'
    <3>1. SUFFICES ASSUME NEW j \in 1..Len(hist)
                   PROVE  hist[j].at <= end'
      OBVIOUS
    <3>2. hist[j] \in Entry /\ hist[j].at <= end /\ end \in Nat
      BY <1>1 DEF IInv, Typed
    <3>3. hist[j].at \in Nat
      BY <3>2 DEF Entry
    <3>4. QED  BY <1>2, <3>2, <3>3
  <2>2. row.recoveringSince <= end'
    BY <1>1, <1>2 DEF IInv, Typed, Timed
  <2>3. Typed'
    BY <1>1, <1>2, <2>1, <2>2 DEF IInv, Typed
  <2>4. QED  BY <1>1, <1>2, <2>3 DEF IInv
<1>3. CASE \E x : Observes(x)
  <2>1. PICK x : Observes(x)
    BY <1>3
  <2>2. Typed'
    BY <1>1, <2>1, TypedStep DEF IInv
  <2>3. x \in Entry /\ hist \in Seq(Entry) /\ hist' = Append(hist, x)
    BY <1>1, <2>1 DEF IInv, Typed, Observes
  <2>4. PICK s : \E t : Moves(row, s, t, row', x, cfg)
    BY <2>1 DEF Observes
  <2>5. PICK t : Moves(row, s, t, row', x, cfg)
    BY <2>4
  <2>6. \A j \in 1..Len(hist) : hist[j].at <= x.at
    <3>1. SUFFICES ASSUME NEW j \in 1..Len(hist)
                   PROVE  hist[j].at <= x.at
      OBVIOUS
    <3>2. hist[j] \in Entry /\ hist[j].at <= end /\ end \in Nat
      BY <1>1 DEF IInv, Typed
    <3>3. hist[j].at \in Nat /\ x.at \in Nat
      BY <2>3, <3>2 DEF Entry
    <3>4. QED  BY <2>1, <3>2, <3>3 DEF Observes
  <2>7. PendingStory(hist', row')
    BY <1>1, <2>3, <2>5, PendingStep DEF IInv
  <2>8. RecoveryStory(hist', row')
    BY <1>1, <2>3, <2>5, RecoveryStep DEF IInv
  <2>9. NoneMissed(hist', row')
    BY <1>1, <2>3, <2>5, <2>6, NoneMissedStep DEF IInv, Typed
  <2>10. QED  BY <2>2, <2>7, <2>8, <2>9 DEF IInv
<1>4. CASE ManualResolve
  <2>1. row' = NoRow /\ hist' = <<>> /\ UNCHANGED <<cfg, end>>
    BY <1>4 DEF ManualResolve
  <2>2. /\ DOMAIN NoRow = Field /\ NoRow.state = "none" /\ NoRow.pendingSince = 0
        /\ NoRow.recoveringSince = 0
    BY DEF NoRow, Field
  <2>3. Typed'
    BY <1>1, <2>1, <2>2 DEF IInv, Typed, Timed, IsRow
  <2>4. NoneMissed(hist', row')
    BY <2>1 DEF NoneMissed
  <2>5. QED  BY <2>1, <2>2, <2>3, <2>4 DEF IInv, PendingStory, RecoveryStory
<1>5. QED  BY <1>1, <1>2, <1>3, <1>4, StepKind DEF IInv

(***************************************************************************)
(* The inductive invariant: a pending row counts from an evaluation since  *)
(* which the series was seen breaching, a recovery hold from one since     *)
(* which it was recovered, and no breach is overlooked, over every         *)
(* sequence of evaluations, edits of the settings and manual resolves.     *)
(***************************************************************************)
THEOREM Invariance == Spec => []IInv
<1>1. QED  BY InitIInv, StepIInv, PTL DEF Spec

-----------------------------------------------------------------------------
(* What a step of the specification may not do. *)

(* A step that evaluates the series leaves its record. *)
LEMMA EvaluatedObserves ==
    ASSUME IInv, [Next]_vars, Evaluated
    PROVE  \E x, s, t : /\ x \in Entry /\ x.at = end' /\ end' \in Nat
                        /\ hist \in Seq(Entry) /\ hist' = Append(hist, x)
                        /\ Moves(row, s, t, row', x, cfg)
<1>1. \E x : Observes(x)
  BY StepKind DEF IInv, Evaluated, ManualResolve
<1>2. QED  BY <1>1 DEF Observes, IInv, Typed

LEMMA FiringStep ==
    ASSUME NEW h \in Seq(Entry), NEW x \in Entry, NEW r, NEW s, NEW t, NEW r2, NEW c \in StepConfig,
           PendingStory(h, r), Moves(r, s, t, r2, x, c), Timed(r), x.fired
    PROVE  LET g == Append(h, x) IN
           /\ x.obs = "breach"
           /\ \E i \in 1..Len(g) : /\ g[i].obs = "breach" \/ g[i].gap
                                   /\ x.at - g[i].at >= c.for
                                   /\ Throughout(g, i, {"breach", "kept"})
                                   /\ Unbroken(g, i)
<1> DEFINE g == Append(h, x)
<1>1. /\ Len(g) = Len(h) + 1 /\ Len(h) \in Nat /\ g[Len(g)] = x /\ Len(g) \in 1..Len(g)
      /\ \A j \in 1..Len(h) : g[j] = h[j]
  BY AppendHistory, LastAppended
<1>2. x.at \in Nat /\ x.gap \in BOOLEAN /\ x.fired = TRUE /\ c.for \in Nat
  BY DEF Entry, StepConfig
<1>3. r.state # "firing" /\ r2.state = "firing"
  BY <1>2 DEF Moves
<1>4. t.state = "firing" /\ s.state # "firing" /\ s.state \in {"ok", "pending"}
  BY <1>3 DEF Moves, Timed, IsRow
<1>5. /\ x.obs = "breach"
      /\ s.state = "ok" => c.for = 0
      /\ s.state = "pending" => x.at - s.pendingSince >= c.for
  BY <1>4 DEF Moves, Ticks
<1>6. Throughout(g, Len(g), {"breach", "kept"}) /\ Unbroken(g, Len(g))
  BY <1>5, LastAppended
<1>7. CASE c.for = 0
  BY <1>1, <1>2, <1>5, <1>6, <1>7
<1>8. CASE s.state = "pending" /\ x.gap = TRUE
  <2>1. s.pendingSince = x.at
    BY <1>4, <1>8 DEF Moves
  <2>2. x.at - g[Len(g)].at >= c.for
    BY <1>1, <1>5, <1>8, <2>1
  <2>3. QED  BY <1>1, <1>5, <1>6, <2>2
<1>9. CASE s.state = "pending" /\ x.gap = FALSE
  <2>1. r.state = "pending" /\ s.pendingSince = r.pendingSince
    BY <1>9 DEF Moves
  <2>2. PICK i \in 1..Len(h) : h[i].at = r.pendingSince /\ BreachingFrom(h, i)
    BY <2>1 DEF PendingStory
  <2>3. Throughout(g, i, {"breach", "kept"}) /\ Unbroken(g, i)
    BY <1>5, <1>9, <2>2, ThroughoutAppend, UnbrokenAppend DEF BreachingFrom
  <2>4. g[i] = h[i] /\ i \in 1..Len(g)
    BY <1>1, <2>2
  <2>5. x.at - g[i].at >= c.for
    BY <1>5, <1>9, <2>1, <2>2, <2>4
  <2>6. g[i].obs = "breach" \/ g[i].gap
    BY <2>2, <2>4 DEF BreachingFrom
  <2>7. QED  BY <1>5, <2>3, <2>4, <2>5, <2>6
<1>10. QED  BY <1>2, <1>4, <1>5, <1>7, <1>8, <1>9

(***************************************************************************)
(* FiresAfterFor, for any settings and schedule: a series enters firing    *)
(* only after it was seen breaching for for_seconds without a gap, over    *)
(* every change of that setting in between.                                *)
(***************************************************************************)
THEOREM NoEarlyAlarm == Spec => FiresAfterFor
<1>1. ASSUME IInv, [Next]_vars, Evaluated, Last(hist').fired
      PROVE  /\ Last(hist').obs = "breach"
             /\ \E i \in 1..Len(hist') :
                  /\ hist'[i].obs = "breach" \/ hist'[i].gap
                  /\ end' - hist'[i].at >= cfg.for
                  /\ Throughout(hist', i, {"breach", "kept"})
                  /\ Unbroken(hist', i)
  <2>1. PICK x, s, t : /\ x \in Entry /\ x.at = end'
                       /\ hist \in Seq(Entry) /\ hist' = Append(hist, x)
                       /\ Moves(row, s, t, row', x, cfg)
    BY <1>1, EvaluatedObserves
  <2>2. Last(hist') = x
    BY <2>1, AppendHistory DEF Last
  <2>3. cfg \in StepConfig /\ Timed(row) /\ PendingStory(hist, row)
    BY <1>1, SeriesAssumption DEF IInv, Typed
  <2>4. QED  BY <1>1, <2>1, <2>2, <2>3, FiringStep
<1>2. IInv /\ [Next]_vars =>
        [Evaluated /\ Last(hist').fired =>
           /\ Last(hist').obs = "breach"
           /\ \E i \in 1..Len(hist') :
                /\ hist'[i].obs = "breach" \/ hist'[i].gap
                /\ end' - hist'[i].at >= cfg.for
                /\ Throughout(hist', i, {"breach", "kept"})
                /\ Unbroken(hist', i)]_vars
  BY <1>1
<1>3. QED  BY <1>2, Invariance, PTL DEF Spec, FiresAfterFor

LEMMA FiringInTime ==
    ASSUME NEW h \in Seq(Entry), NEW x \in Entry, NEW r, NEW s, NEW t, NEW r2, NEW c \in StepConfig,
           NoneMissed(Append(h, x), r2), Moves(r, s, t, r2, x, c),
           NEW i \in 1..Len(Append(h, x)), x.at - Append(h, x)[i].at >= c.for,
           Throughout(Append(h, x), i, {"breach"}), Unbroken(Append(h, x), i)
    PROVE  r2.state = "firing"
<1> DEFINE g == Append(h, x)
<1>1. g \in Seq(Entry) /\ Len(g) = Len(h) + 1 /\ Len(h) \in Nat /\ g[Len(g)] = x
  BY AppendHistory
<1> HIDE DEF g
<1>2. i \in 1..Len(g) /\ g[i] \in Entry /\ Throughout(g, i, {"breach"}) /\ Unbroken(g, i)
  BY <1>1 DEF g
<1>3. x.obs = "breach"
  <2>1. g[Len(g)].obs = "breach"
    BY <1>1, <1>2 DEF Throughout
  <2>2. QED  BY <1>1, <2>1
<1>4. SUFFICES ASSUME r2.state = "pending", r2.pendingSince <= g[i].at
               PROVE  FALSE
  BY <1>2 DEF NoneMissed, g
<1>5. t.state = "pending" /\ t.pendingSince = r2.pendingSince
  BY <1>4 DEF Moves
<1>6. \/ t.pendingSince = x.at /\ c.for > 0
      \/ s.state = "pending" /\ t.pendingSince = s.pendingSince /\ x.at - s.pendingSince < c.for
  BY <1>3, <1>5 DEF Moves, Ticks
<1>7. x.at \in Nat /\ c.for \in Nat /\ g[i].at \in Nat /\ t.pendingSince \in Nat
  BY <1>2 DEF Entry, StepConfig, Moves, Timed
<1>8. x.at - g[i].at >= c.for
  BY DEF g
<1>9. QED  BY <1>4, <1>5, <1>6, <1>7, <1>8

(***************************************************************************)
(* FiresInTime, for any settings and schedule: a series that breached in   *)
(* every evaluation for for_seconds, without a gap, is firing.             *)
(***************************************************************************)
THEOREM NoMissedAlarm == Spec => FiresInTime
<1>1. ASSUME IInv, [Next]_vars, IInv', Evaluated, NEW i \in 1..Len(hist'),
             end' - hist'[i].at >= cfg.for,
             Throughout(hist', i, {"breach"}), Unbroken(hist', i)
      PROVE  row'.state = "firing"
  <2>1. PICK x, s, t : /\ x \in Entry /\ x.at = end'
                       /\ hist \in Seq(Entry) /\ hist' = Append(hist, x)
                       /\ Moves(row, s, t, row', x, cfg)
    BY <1>1, EvaluatedObserves
  <2>2. cfg \in StepConfig /\ NoneMissed(hist', row')
    BY <1>1, SeriesAssumption DEF IInv, Typed
  <2>3. QED  BY <1>1, <2>1, <2>2, FiringInTime
<1>2. IInv /\ [Next]_vars /\ IInv' =>
        [Evaluated =>
           \A i \in 1..Len(hist') :
              /\ end' - hist'[i].at >= cfg.for
              /\ Throughout(hist', i, {"breach"})
              /\ Unbroken(hist', i)
              => row'.state = "firing"]_vars
  BY <1>1
<1>3. QED  BY <1>2, Invariance, PTL DEF Spec, FiresInTime

(* A recovery that began d before x has been seen for d. *)
LEMMA RecoveredFor ==
    ASSUME NEW h \in Seq(Entry), NEW x \in Entry, NEW r, NEW d \in Nat, Timed(r),
           RecoveryStory(h, r), r.state = "firing", x.obs = "recovered",
           x.at - Recovering(r, x.at) >= d
    PROVE  RecoveredSince(Append(h, x), x.at, d)
<1> DEFINE g == Append(h, x)
<1>1. /\ Len(g) = Len(h) + 1 /\ Len(h) \in Nat /\ g[Len(g)] = x /\ Len(g) \in 1..Len(g)
      /\ \A j \in 1..Len(h) : g[j] = h[j]
  BY AppendHistory, LastAppended
<1>2. CASE r.recoveringSince = 0
  <2>1. x.at - x.at >= d
    BY <1>2 DEF Recovering
  <2>2. Throughout(g, Len(g), {"recovered", "kept"})
    BY LastAppended
  <2>3. QED  BY <1>1, <2>1, <2>2 DEF RecoveredSince
<1>3. CASE r.recoveringSince # 0
  <2>1. PICK i \in 1..Len(h) : h[i].at = r.recoveringSince /\ RecoveredFrom(h, i)
    BY <1>3 DEF RecoveryStory
  <2>2. Throughout(g, i, {"recovered", "kept"})
    BY <2>1, ThroughoutAppend DEF RecoveredFrom
  <2>3. g[i] = h[i] /\ i \in 1..Len(g)
    BY <1>1, <2>1
  <2>4. x.at - g[i].at >= d /\ g[i].obs = "recovered"
    BY <1>3, <2>1, <2>3 DEF Recovering, RecoveredFrom
  <2>5. QED  BY <2>2, <2>3, <2>4 DEF RecoveredSince
<1>4. QED  BY <1>2, <1>3

LEMMA ResolvingStep ==
    ASSUME NEW h \in Seq(Entry), NEW x \in Entry, NEW r, NEW s, NEW t, NEW r2, NEW c \in StepConfig,
           RecoveryStory(h, r), Moves(r, s, t, r2, x, c), Timed(r),
           r.state = "firing", r2.state # "firing", x.obs = "recovered"
    PROVE  RecoveredSince(Append(h, x), x.at, c.recoveryFor)
<1>1. c.recoveryFor \in Nat
  BY DEF StepConfig
<1>2. s.state = "firing" /\ t.state = "ok" /\ s.recoveringSince = r.recoveringSince
  BY DEF Moves, Ticks
<1>3. x.at - Recovering(r, x.at) >= c.recoveryFor
  BY <1>2 DEF Moves, Ticks, Recovering
<1>4. QED  BY <1>1, <1>3, RecoveredFor

(***************************************************************************)
(* ResolvesAfterHold, for any settings and schedule: an incident resolves  *)
(* as recovered only when the series was recovered for the recovery hold.  *)
(***************************************************************************)
THEOREM NoEarlyResolve == Spec => ResolvesAfterHold
<1>1. ASSUME IInv, [Next]_vars, Evaluated, row.state = "firing", row'.state # "firing",
             Last(hist').obs = "recovered"
      PROVE  RecoveredSince(hist', end', cfg.recoveryFor)
  <2>1. PICK x, s, t : /\ x \in Entry /\ x.at = end'
                       /\ hist \in Seq(Entry) /\ hist' = Append(hist, x)
                       /\ Moves(row, s, t, row', x, cfg)
    BY <1>1, EvaluatedObserves
  <2>2. Last(hist') = x
    BY <2>1, AppendHistory DEF Last
  <2>3. cfg \in StepConfig /\ RecoveryStory(hist, row) /\ Timed(row)
    BY <1>1, SeriesAssumption DEF IInv, Typed
  <2>4. QED  BY <1>1, <2>1, <2>2, <2>3, ResolvingStep
<1>2. IInv /\ [Next]_vars =>
        [/\ Evaluated
         /\ row.state = "firing" /\ row'.state # "firing"
         /\ Last(hist').obs = "recovered"
         => RecoveredSince(hist', end', cfg.recoveryFor)]_vars
  BY <1>1
<1>3. QED  BY <1>2, Invariance, PTL DEF Spec, ResolvesAfterHold

-----------------------------------------------------------------------------
(* Flapping: the row remembers enough of the entries into firing. *)

(* The j-th evaluation of h is an entry into firing that counts at e for the window w. *)
Counts(h, j, w, e) ==
    /\ h[j].fired = TRUE
    /\ e - h[j].at <= w
    /\ \A k \in j..Len(h) : h[k].window >= w

(* The times ts have the time u, or have as many later ones as are remembered at all. *)
Has(ts, u) == u \in ts \/ (Cardinality(ts) = maxTransitions /\ \A t \in ts : u <= t)

(* Every entry into firing that counts for some window is remembered. *)
Remembered(h, ts, e) ==
    \A w \in Nat \ {0} : \A j \in 1..Len(h) : Counts(h, j, w, e) => Has(ts, h[j].at)

(* The remembered times. *)
Times(ts, e) ==
    /\ ts \in SUBSET Nat /\ IsFiniteSet(ts) /\ Cardinality(ts) <= maxTransitions
    /\ \A t \in ts : t <= e

(* Evaluations are recorded in their order. *)
InOrder(h) == \A i, j \in 1..Len(h) : i < j => h[i].at < h[j].at

FlapInv ==
    /\ InOrder(hist)
    /\ Times(row.transitions, end)
    /\ Remembered(hist, row.transitions, end)

(* A set of natural numbers has a least one. *)
LEMMA LeastOne ==
    ASSUME NEW S \in SUBSET Nat, S # {}
    PROVE  \E x \in S : \A y \in S : x <= y
<1>1. IsWellFoundedOn(OpToRel(<, Nat), Nat)
  BY NatLessThanWellFounded
<1>2. PICK x \in S : \A y \in S : ~(<<y, x>> \in OpToRel(<, Nat))
  BY <1>1, WFMin
<1>3. \A y \in S : ~(y < x)
  BY <1>2 DEF OpToRel
<1> QED
  BY <1>3

(* Pruning leaves out times. *)
LEMMA PruneTimes ==
    ASSUME NEW ts, NEW e \in Nat, NEW d \in Nat, NEW f, Times(ts, e), e <= d
    PROVE  Times(pruneTransitions(ts, d, f), d) /\ Times(ts, d) /\ pruneTransitions(ts, d, f) \subseteq ts
<1> DEFINE p == pruneTransitions(ts, d, f)
<1>1. p \subseteq ts
  BY DEF pruneTransitions
<1> HIDE DEF p
<1>2. ts \in SUBSET Nat /\ IsFiniteSet(ts) /\ Cardinality(ts) <= maxTransitions /\ \A t \in ts : t <= e
  BY DEF Times
<1>3. IsFiniteSet(p) /\ Cardinality(p) <= Cardinality(ts) /\ Cardinality(p) \in Nat /\ Cardinality(ts) \in Nat
  BY <1>1, <1>2, FS_Subset, FS_CardinalityType
<1>4. \A t \in ts : t <= d
  BY <1>2
<1>5. Cardinality(p) <= maxTransitions
  BY <1>2, <1>3, TransitionsAssumption
<1> QED
  BY <1>1, <1>2, <1>3, <1>4, <1>5 DEF Times, p

(* Of one more than are remembered, the earliest is left out. *)
LEMMA LatestOnes ==
    ASSUME NEW ts, NEW e \in Nat, Times(ts, e), e \notin ts
    PROVE  LET A == ts \cup {e}
               L == LastN(A, maxTransitions)
           IN  /\ Times(L, e)
               /\ \/ L = A
                  \/ Cardinality(L) = maxTransitions /\ \A t \in A \ L, u \in L : t <= u
<1> DEFINE A == ts \cup {e}
           L == LastN(A, maxTransitions)
           From(t) == {u \in A : u >= t}
<1>1. ts \in SUBSET Nat /\ IsFiniteSet(ts) /\ Cardinality(ts) <= maxTransitions /\ \A t \in ts : t <= e
  BY DEF Times
<1>2. IsFiniteSet(A) /\ Cardinality(A) = Cardinality(ts) + 1 /\ Cardinality(ts) \in Nat
  BY <1>1, FS_AddElement, FS_CardinalityType
<1>3. A \in SUBSET Nat /\ A # {} /\ \A t \in A : t <= e
  BY <1>1
<1>4. L \subseteq A /\ \A t \in A : t \in L <=> Cardinality(From(t)) <= maxTransitions
  BY DEF LastN
<1>5. maxTransitions \in Nat
  BY TransitionsAssumption
<1> HIDE DEF A, L
<1>6. IsFiniteSet(L) /\ Cardinality(L) <= Cardinality(A) /\ Cardinality(L) \in Nat
  BY <1>2, <1>4, FS_Subset, FS_CardinalityType
<1>7. CASE Cardinality(ts) < maxTransitions
  <2>1. ASSUME NEW t \in A PROVE t \in L
    <3>1. From(t) \subseteq A
      OBVIOUS
    <3>2. IsFiniteSet(From(t)) /\ Cardinality(From(t)) <= Cardinality(A) /\ Cardinality(From(t)) \in Nat
      BY <1>2, <3>1, FS_Subset, FS_CardinalityType
    <3> HIDE DEF From
    <3>3. Cardinality(From(t)) <= maxTransitions
      BY <1>2, <1>5, <1>7, <3>2
    <3> QED
      BY <1>4, <3>3
  <2>2. L = A
    BY <1>4, <2>1
  <2>3. Cardinality(L) <= maxTransitions
    BY <1>2, <1>5, <1>7, <2>2
  <2> QED
    BY <1>3, <1>6, <2>2, <2>3 DEF Times, A, L
<1>8. CASE Cardinality(ts) = maxTransitions
  <2>1. PICK x \in A : \A y \in A : x <= y
    BY <1>3, LeastOne
  <2>2. From(x) = A
    BY <1>3, <2>1
  <2>3. x \notin L
    <3>1. ~(Cardinality(From(x)) <= maxTransitions)
      BY <1>2, <1>5, <1>8, <2>2
    <3> QED
      BY <1>4, <3>1
  <2>4. IsFiniteSet(A \ {x}) /\ Cardinality(A \ {x}) = Cardinality(A) - 1
    BY <1>2, <2>1, FS_RemoveElement
  <2>5. ASSUME NEW t \in A, t # x PROVE t \in L
    <3>1. From(t) \subseteq A \ {x}
      BY <1>3, <2>1, <2>5
    <3>2. IsFiniteSet(From(t)) /\ Cardinality(From(t)) <= Cardinality(A \ {x}) /\ Cardinality(From(t)) \in Nat
      BY <2>4, <3>1, FS_Subset, FS_CardinalityType
    <3> HIDE DEF From
    <3>3. Cardinality(From(t)) <= maxTransitions
      BY <1>2, <1>5, <1>8, <2>4, <3>2
    <3> QED
      BY <1>4, <3>3
  <2>6. L = A \ {x}
    BY <1>4, <2>3, <2>5
  <2>7. Cardinality(L) = maxTransitions
    BY <1>2, <1>5, <1>8, <2>4, <2>6
  <2>8. \A t \in A \ L, u \in L : t <= u
    BY <2>1, <2>6
  <2>9. Times(L, e)
    BY <1>3, <1>4, <1>5, <1>6, <2>7 DEF Times
  <2> QED
    BY <2>7, <2>8, <2>9 DEF A, L
<1> QED
  BY <1>1, <1>2, <1>5, <1>7, <1>8

(* What counts after an evaluation without an entry, or before the one it records, has counted before. *)
LEMMA CountedBefore ==
    ASSUME NEW h \in Seq(Entry), NEW x \in Entry, NEW e \in Nat, NEW w \in Nat, e <= x.at,
           NEW j \in 1..Len(Append(h, x)), Counts(Append(h, x), j, w, x.at)
    PROVE  /\ w <= x.window
           /\ x.fired = FALSE => j \in 1..Len(h)
           /\ j \in 1..Len(h) => Counts(h, j, w, e) /\ Append(h, x)[j] = h[j] /\ x.at - h[j].at <= w /\ h[j].at \in Nat
           /\ j \notin 1..Len(h) => Append(h, x)[j] = x
<1> DEFINE g == Append(h, x)
<1>1. /\ g \in Seq(Entry) /\ Len(g) = Len(h) + 1 /\ Len(h) \in Nat
      /\ g[Len(g)] = x /\ \A i \in 1..Len(h) : g[i] = h[i]
  BY AppendHistory
<1>2. j \in 1..Len(g) /\ g[j].fired = TRUE /\ x.at - g[j].at <= w /\ \A k \in j..Len(g) : g[k].window >= w
  BY DEF Counts
<1> HIDE DEF g
<1>3. x.window \in Nat /\ x.at \in Nat
  BY DEF Entry
<1>4. w <= x.window
  <2>1. g[Len(g)].window >= w
    BY <1>1, <1>2
  <2> QED
    BY <1>1, <1>3, <2>1
<1>5. j \notin 1..Len(h) => g[j] = x
  BY <1>1, <1>2
<1>6. x.fired = FALSE => j \in 1..Len(h)
  BY <1>2, <1>5
<1>7. ASSUME j \in 1..Len(h)
      PROVE  Counts(h, j, w, e) /\ g[j] = h[j] /\ x.at - h[j].at <= w /\ h[j].at \in Nat
  <2>1. g[j] = h[j]
    BY <1>1, <1>7
  <2>2. h[j].at \in Nat
    <3>1. h[j] \in Entry
      BY <1>7
    <3> QED
      BY <3>1 DEF Entry
  <2>3. \A k \in j..Len(h) : h[k].window >= w
    <3> TAKE k \in j..Len(h)
    <3>1. k \in 1..Len(h) /\ k \in j..Len(g)
      BY <1>1, <1>7
    <3> QED
      BY <1>1, <1>2, <3>1
  <2>4. e - h[j].at <= w
    BY <1>2, <1>3, <2>1, <2>2
  <2> QED
    BY <1>2, <2>1, <2>2, <2>3, <2>4 DEF Counts
<1> QED
  BY <1>4, <1>5, <1>6, <1>7 DEF g

(* An evaluation remembers what counts after it. *)
LEMMA RememberedStep ==
    ASSUME NEW h \in Seq(Entry), NEW x \in Entry, NEW r, NEW r2, NEW c \in StepConfig,
           NEW e \in Nat, e < x.at, Times(r.transitions, e), Remembered(h, r.transitions, e),
           \A j \in 1..Len(h) : h[j].at <= e,
           Recalls(r, r2, x, c)
    PROVE  Times(r2.transitions, x.at) /\ Remembered(Append(h, x), r2.transitions, x.at)
<1> DEFINE g == Append(h, x)
           ts == r.transitions
           p == pruneTransitions(ts, x.at, c.flapping)
           L == LastN(p \cup {x.at}, maxTransitions)
<1>0. x.at \in Nat /\ x.window \in Nat /\ maxTransitions \in Nat /\ c.flapping.window \in Nat /\ e <= x.at
  BY TransitionsAssumption DEF Entry, StepConfig
<1>1. Times(p, x.at) /\ Times(ts, x.at) /\ p \subseteq ts
  BY <1>0, PruneTimes
<1>2. x.at \notin p
  BY <1>0, <1>1 DEF Times
<1>3. /\ Times(L, x.at)
      /\ \/ L = p \cup {x.at}
         \/ Cardinality(L) = maxTransitions /\ \A t \in (p \cup {x.at}) \ L, u \in L : t <= u
  BY <1>0, <1>1, <1>2, LatestOnes
<1>4. \/ r2.transitions = {} /\ x.window = 0
      \/ r2.transitions = ts /\ x.fired = FALSE
      \/ r2.transitions = p /\ x.fired = FALSE
      \/ r2.transitions = L /\ x.fired = TRUE
  BY DEF Recalls
<1>5. x.window = 0 \/ x.window = c.flapping.window
  BY DEF Recalls, Protected
<1>6. ASSUME NEW t \in ts, x.at - t <= c.flapping.window PROVE t \in p
  BY <1>6 DEF pruneTransitions
<1> HIDE DEF p, L
<1>7. Times({}, x.at)
  BY <1>0, FS_EmptySet DEF Times
<1>8. ASSUME NEW w \in Nat \ {0}, NEW j \in 1..Len(g), Counts(g, j, w, x.at)
      PROVE  Has(r2.transitions, g[j].at)
  <2>1. /\ w <= x.window
        /\ x.fired = FALSE => j \in 1..Len(h)
        /\ j \in 1..Len(h) => Counts(h, j, w, e) /\ g[j] = h[j] /\ x.at - h[j].at <= w /\ h[j].at \in Nat
        /\ j \notin 1..Len(h) => g[j] = x
    <3>1. w \in Nat
      OBVIOUS
    <3> QED
      BY <1>0, <1>8, <3>1, CountedBefore
  <2> HIDE DEF g
  <2>2. x.window = c.flapping.window /\ x.window # 0
    BY <1>0, <1>5, <2>1
  <2>3. j \in 1..Len(h) => Has(ts, h[j].at)
    BY <2>1 DEF Remembered
  <2>4. ASSUME j \in 1..Len(h) PROVE Has(p, h[j].at)
    <3>1. x.at - h[j].at <= c.flapping.window
      BY <1>0, <2>1, <2>2, <2>4
    <3>2. CASE h[j].at \in ts
      BY <1>6, <3>1, <3>2 DEF Has
    <3>3. CASE Cardinality(ts) = maxTransitions /\ \A t \in ts : h[j].at <= t
      <4>1. ts \subseteq p
        <5> SUFFICES ASSUME NEW t \in ts
                     PROVE  t \in p
          OBVIOUS
        <5>1. t \in Nat /\ h[j].at <= t /\ h[j].at \in Nat
          BY <1>1, <2>1, <2>4, <3>3 DEF Times
        <5>2. \A m, n, k, l \in Int : m - n <= l /\ n <= k => m - k <= l
          OBVIOUS
        <5>3. x.at \in Int /\ h[j].at \in Int /\ t \in Int /\ c.flapping.window \in Int
          BY <1>0, <5>1
        <5>4. x.at - t <= c.flapping.window
          BY <3>1, <5>1, <5>2, <5>3
        <5> QED
          BY <1>6, <5>4
      <4>2. p = ts
        BY <1>1, <4>1
      <4> QED
        BY <3>3, <4>2 DEF Has
    <3> QED
      BY <2>3, <2>4, <3>2, <3>3 DEF Has
  <2>5. CASE x.fired = FALSE
    BY <1>4, <2>1, <2>2, <2>3, <2>4, <2>5
  <2>6. CASE r2.transitions = L /\ x.fired = TRUE
    <3> DEFINE y == g[j].at
    <3>1. y \in Nat /\ y <= x.at
      <4>1. CASE j \in 1..Len(h)
        BY <1>0, <2>1, <4>1
      <4>2. CASE j \notin 1..Len(h)
        BY <1>0, <2>1, <4>2
      <4> QED
        BY <4>1, <4>2
    <3>2. y \in p \cup {x.at} \/ (Cardinality(p) = maxTransitions /\ \A t \in p : y <= t)
      BY <2>1, <2>4 DEF Has
    <3> HIDE DEF y
    <3>3. ASSUME y \in p \cup {x.at} PROVE Has(L, y)
      BY <1>3, <3>3 DEF Has
    <3>4. ASSUME Cardinality(p) = maxTransitions, \A t \in p : y <= t PROVE Has(L, y)
      <4>1. IsFiniteSet(p) /\ Cardinality(L) <= maxTransitions
        BY <1>1, <1>3 DEF Times
      <4>2. Cardinality(p \cup {x.at}) = maxTransitions + 1
        BY <1>2, <3>4, <4>1, FS_AddElement
      <4>3. Cardinality(L) = maxTransitions
        <5>1. ASSUME L = p \cup {x.at} PROVE FALSE
          <6>1. Cardinality(L) = maxTransitions + 1
            BY <4>2, <5>1
          <6> QED
            BY <1>0, <4>1, <6>1
        <5> QED
          BY <1>3, <5>1
      <4>4. L \subseteq p \cup {x.at}
        BY DEF L, LastN
      <4>5. \A t \in L : y <= t
        BY <3>1, <3>4, <4>4
      <4> QED
        BY <4>3, <4>5 DEF Has
    <3>5. Has(L, y)
      BY <3>2, <3>3, <3>4
    <3> QED
      BY <2>6, <3>5 DEF y
  <2> QED
    BY <1>4, <2>2, <2>5, <2>6
<1>9. Times(r2.transitions, x.at)
  BY <1>1, <1>3, <1>4, <1>7
<1> QED
  BY <1>8, <1>9 DEF Remembered, g

LEMMA InOrderStep ==
    ASSUME NEW h \in Seq(Entry), NEW x \in Entry, NEW e \in Nat, e < x.at, InOrder(h),
           \A j \in 1..Len(h) : h[j].at <= e
    PROVE  InOrder(Append(h, x))
<1> DEFINE g == Append(h, x)
<1>1. /\ g \in Seq(Entry) /\ Len(g) = Len(h) + 1 /\ Len(h) \in Nat
      /\ g[Len(g)] = x /\ \A i \in 1..Len(h) : g[i] = h[i]
  BY AppendHistory
<1> HIDE DEF g
<1>2. ASSUME NEW i \in 1..Len(g), NEW j \in 1..Len(g), i < j
      PROVE  g[i].at < g[j].at
  <2>1. i \in 1..Len(h) /\ g[i] = h[i] /\ h[i].at <= e
    BY <1>1, <1>2
  <2>2. h[i].at \in Nat /\ x.at \in Nat
    <3>1. h[i] \in Entry
      BY <2>1
    <3> QED
      BY <3>1 DEF Entry
  <2>3. CASE j \in 1..Len(h)
    BY <1>1, <1>2, <2>1, <2>3 DEF InOrder
  <2>4. CASE j \notin 1..Len(h)
    <3>1. g[j] = x
      BY <1>1, <1>2, <2>4
    <3> QED
      BY <2>1, <2>2, <3>1
  <2> QED
    BY <2>3, <2>4
<1> QED
  BY <1>2 DEF InOrder, g

LEMMA InitFlapInv == Init => FlapInv
<1> SUFFICES ASSUME Init
             PROVE  FlapInv
  OBVIOUS
<1>1. row.transitions = {} /\ hist = <<>> /\ end = 0
  BY DEF Init, NoRow
<1>2. Times({}, 0)
  BY FS_EmptySet, TransitionsAssumption DEF Times
<1> QED
  BY <1>1, <1>2 DEF FlapInv, InOrder, Remembered

LEMMA StepFlapInv == IInv /\ FlapInv /\ [Next]_vars => FlapInv'
<1> SUFFICES ASSUME IInv, FlapInv, [Next]_vars
             PROVE  FlapInv'
  OBVIOUS
<1>1. Typed /\ hist \in Seq(Entry) /\ end \in Nat /\ (\A j \in 1..Len(hist) : hist[j].at <= end) /\ cfg \in StepConfig
  BY SeriesAssumption DEF IInv, Typed
<1>2. InOrder(hist) /\ Times(row.transitions, end) /\ Remembered(hist, row.transitions, end)
  BY DEF FlapInv
<1>3. CASE UNCHANGED <<row, hist>> /\ end' \in Nat /\ end <= end' /\ cfg' \in Config
  <2>1. Times(row.transitions, end')
    BY <1>1, <1>2, <1>3, PruneTimes
  <2>2. ASSUME NEW w \in Nat \ {0}, NEW j \in 1..Len(hist), Counts(hist, j, w, end')
        PROVE  Has(row.transitions, hist[j].at)
    <3>1. hist[j] \in Entry
      BY <1>1
    <3>2. hist[j].at \in Nat
      BY <3>1 DEF Entry
    <3>3. Counts(hist, j, w, end)
      BY <1>1, <1>3, <2>2, <3>2 DEF Counts
    <3> QED
      BY <1>2, <3>3 DEF Remembered
  <2>3. Remembered(hist, row.transitions, end')
    BY <2>2 DEF Remembered
  <2> QED
    BY <1>2, <1>3, <2>1, <2>3 DEF FlapInv
<1>4. CASE \E x : Observes(x)
  <2>1. PICK x : Observes(x)
    BY <1>4
  <2>2. x \in Entry /\ x.at = end' /\ hist' = Append(hist, x) /\ end < x.at /\ Recalls(row, row', x, cfg)
    BY <2>1 DEF Observes
  <2>3. Times(row'.transitions, x.at) /\ Remembered(Append(hist, x), row'.transitions, x.at)
    BY <1>1, <1>2, <2>2, RememberedStep
  <2>4. InOrder(Append(hist, x))
    BY <1>1, <1>2, <2>2, InOrderStep
  <2> QED
    BY <2>2, <2>3, <2>4 DEF FlapInv
<1>5. CASE ManualResolve
  <2>1. row'.transitions = {} /\ hist' = <<>> /\ end' = end
    BY <1>5 DEF ManualResolve, NoRow
  <2>2. Times({}, end)
    BY <1>1, FS_EmptySet, TransitionsAssumption DEF Times
  <2> QED
    BY <2>1, <2>2 DEF FlapInv, InOrder, Remembered
<1> QED
  BY <1>1, <1>3, <1>4, <1>5, StepKind

(* At a recovery that flaps, the row remembers as many entries into firing as it takes. *)
LEMMA FlapsShown ==
    ASSUME NEW h \in Seq(Entry), NEW x \in Entry, NEW r, NEW r2, NEW c \in StepConfig,
           NEW e \in Nat, e < x.at, Times(r.transitions, e), Remembered(h, r.transitions, e), InOrder(h),
           Recalls(r, r2, x, c), x.fired = FALSE,
           c.flapping.transitions \in 1..maxTransitions,
           Cardinality({j \in 1..Len(Append(h, x)) :
                           /\ Append(h, x)[j].fired
                           /\ x.at - Append(h, x)[j].at <= c.flapping.window
                           /\ \A k \in j..Len(Append(h, x)) : Append(h, x)[k].window >= c.flapping.window})
               >= c.flapping.transitions
    PROVE  isFlapping(pruneTransitions(r.transitions, x.at, c.flapping), x.at, c.flapping)
<1> DEFINE g == Append(h, x)
           w == c.flapping.window
           n == c.flapping.transitions
           ts == r.transitions
           p == pruneTransitions(ts, x.at, c.flapping)
           J == {j \in 1..Len(g) : /\ g[j].fired
                                   /\ x.at - g[j].at <= w
                                   /\ \A k \in j..Len(g) : g[k].window >= w}
<1>1. x.at \in Nat /\ maxTransitions \in Nat /\ w \in Nat \ {0} /\ n \in Nat /\ n > 0 /\ n <= maxTransitions /\ e <= x.at
      /\ Len(h) \in Nat
  BY TransitionsAssumption DEF Entry, StepConfig
<1>2. Cardinality(J) >= n
  OBVIOUS
<1>3. ASSUME NEW j \in J
      PROVE  j \in 1..Len(h) /\ Has(ts, h[j].at) /\ x.at - h[j].at <= w /\ h[j].at \in Nat /\ w <= x.window
  <2>1. g[j] \in Entry /\ j \in 1..Len(g)
    BY AppendHistory
  <2>2. Counts(g, j, w, x.at)
    <3>1. g[j].fired = TRUE
      BY <1>3, <2>1 DEF Entry
    <3> QED
      BY <1>3, <3>1 DEF Counts
  <2> HIDE DEF J
  <2>3. /\ w <= x.window
        /\ x.fired = FALSE => j \in 1..Len(h)
        /\ j \in 1..Len(h) => Counts(h, j, w, e) /\ g[j] = h[j] /\ x.at - h[j].at <= w /\ h[j].at \in Nat
    <3>1. w \in Nat /\ e <= x.at
      BY <1>1
    <3> HIDE DEF w
    <3> QED
      BY <2>1, <2>2, <3>1, CountedBefore
  <2> QED
    BY <1>1, <2>3 DEF Remembered
<1>4. Times(p, x.at) /\ Times(ts, x.at)
  BY <1>1, PruneTimes
<1>5. pruneTransitions(p, x.at, c.flapping) = p
  BY DEF pruneTransitions
<1>6. \A t \in ts : x.at - t <= w => t \in p
  BY DEF pruneTransitions
<1> HIDE DEF p, J, g
<1>7. IsFiniteSet(p) /\ Cardinality(p) \in Nat
  BY <1>4, FS_CardinalityType DEF Times
<1>8. IsFiniteSet(J) /\ J # {}
  <2>1. IsFiniteSet(1..Len(h))
    BY <1>1, FS_Interval
  <2>2. J \subseteq 1..Len(h)
    BY <1>3
  <2>3. IsFiniteSet(J)
    BY <2>1, <2>2, FS_Subset
  <2>4. J # {}
    <3>1. ASSUME J = {} PROVE FALSE
      <4>1. Cardinality(J) = 0
        BY <3>1, FS_EmptySet
      <4> HIDE DEF n
      <4> QED
        BY <1>1, <1>2, <4>1
    <3> QED
      BY <3>1
  <2> QED
    BY <2>3, <2>4
<1>9. c.flapping.enabled
  <2>1. PICK j \in J : TRUE
    BY <1>8
  <2>2. w <= x.window
    BY <1>3, <2>1
  <2>3. x.window # 0
    BY <1>1, <2>2
  <2> QED
    BY <2>3 DEF Recalls, Protected
<1>10. Cardinality(p) >= n
  <2>1. CASE \A j \in J : h[j].at \in ts
    <3> DEFINE f == [j \in J |-> h[j].at]
    <3>1. \A j \in J : f[j] \in p
      BY <1>3, <1>6, <2>1
    <3>2. \A i, j \in J : i # j => f[i] # f[j]
      <4> SUFFICES ASSUME NEW i \in J, NEW j \in J, i # j
                   PROVE  h[i].at # h[j].at
        OBVIOUS
      <4>1. i \in 1..Len(h) /\ j \in 1..Len(h) /\ h[i].at \in Nat /\ h[j].at \in Nat
        BY <1>3
      <4>2. i < j \/ j < i
        BY <4>1
      <4> QED
        BY <4>1, <4>2 DEF InOrder
    <3>3. f \in Injection(J, p)
      BY <3>1, <3>2 DEF Injection, IsInjective
    <3>4. Cardinality(J) <= Cardinality(p) /\ Cardinality(J) \in Nat
      BY <1>7, <1>8, <3>3, FS_Injection, FS_CardinalityType
    <3> QED
      BY <1>1, <1>2, <1>7, <3>4
  <2>2. CASE \E j \in J : h[j].at \notin ts
    <3>1. PICK j \in J : h[j].at \notin ts
      BY <2>2
    <3>2. Cardinality(ts) = maxTransitions /\ \A t \in ts : h[j].at <= t
      BY <1>3, <3>1 DEF Has
    <3>3. ts \subseteq p
      <4> SUFFICES ASSUME NEW t \in ts
                   PROVE  t \in p
        OBVIOUS
      <4>1. t \in Nat /\ h[j].at <= t /\ h[j].at \in Nat /\ x.at - h[j].at <= w
        BY <1>3, <1>4, <3>1, <3>2 DEF Times
      <4>2. x.at - t <= w
        BY <1>1, <4>1
      <4> QED
        BY <1>6, <4>2
    <3>4. Cardinality(ts) <= Cardinality(p)
      BY <1>7, <3>3, FS_Subset
    <3> QED
      BY <1>1, <1>7, <3>2, <3>4
  <2> QED
    BY <2>1, <2>2
<1> QED
  BY <1>1, <1>5, <1>9, <1>10 DEF isFlapping, p

(***************************************************************************)
(* FlappingHeld, for any settings, schedule and edits: under a rule that   *)
(* asks for at most maxTransitions, an incident of a series that flaps     *)
(* resolves as recovered only after hold_seconds.  Of rules that ask for   *)
(* more, which the validation admits, it says nothing.                     *)
(***************************************************************************)
THEOREM FlappingKept == Spec => FlappingHeld
<1>1. ASSUME IInv, FlapInv, [Next]_vars, Evaluated, row.state = "firing", row'.state # "firing",
             Last(hist').obs = "recovered", Countable, Flaps(hist', end')
      PROVE  RecoveredSince(hist', end', cfg.flapping.hold)
  <2>1. PICK x : Observes(x)
    BY <1>1, StepKind DEF IInv, Evaluated, ManualResolve
  <2>2. /\ x \in Entry /\ x.at = end' /\ hist' = Append(hist, x) /\ end < x.at /\ Recalls(row, row', x, cfg)
        /\ hist \in Seq(Entry) /\ end \in Nat /\ RecoveryStory(hist, row)
        /\ cfg \in Config /\ cfg \in StepConfig
    BY <1>1, <2>1, SeriesAssumption DEF Observes, IInv, Typed
  <2>3. Last(hist') = x
    BY <2>2, AppendHistory DEF Last
  <2>4. x.fired = FALSE
    <3>1. \E s, t : Moves(row, s, t, row', x, cfg)
      BY <2>1 DEF Observes
    <3>2. ~(x.fired = TRUE)
      BY <1>1, <3>1 DEF Moves
    <3> QED
      BY <2>2, <3>2 DEF Entry
  <2>5. isFlapping(pruneTransitions(row.transitions, x.at, cfg.flapping), x.at, cfg.flapping)
    <3>1. InOrder(hist) /\ Times(row.transitions, end) /\ Remembered(hist, row.transitions, end)
      BY <1>1 DEF FlapInv
    <3>2. cfg.flapping.transitions \in 1..maxTransitions
      BY <1>1 DEF Countable
    <3>3. Cardinality({j \in 1..Len(Append(hist, x)) :
                           /\ Append(hist, x)[j].fired
                           /\ x.at - Append(hist, x)[j].at <= cfg.flapping.window
                           /\ \A k \in j..Len(Append(hist, x)) : Append(hist, x)[k].window >= cfg.flapping.window})
               >= cfg.flapping.transitions
      BY <1>1, <2>2 DEF Flaps
    <3> QED
      BY <2>2, <2>4, <3>1, <3>2, <3>3, FlapsShown
  <2>6. x.at - Recovering(row, x.at) >= cfg.flapping.hold
    BY <1>1, <2>2, <2>3, <2>5 DEF Recalls
  <2> QED
    <3>1. Timed(row) /\ cfg.flapping.hold \in Nat /\ x.obs = "recovered"
      BY <1>1, <2>2, <2>3 DEF IInv, Typed, StepConfig
    <3>2. RecoveredSince(Append(hist, x), x.at, cfg.flapping.hold)
      BY <1>1, <2>2, <2>6, <3>1, RecoveredFor
    <3> QED
      BY <2>2, <3>2
<1>2. IInv /\ FlapInv /\ [Next]_vars =>
        [/\ Evaluated
         /\ row.state = "firing" /\ row'.state # "firing"
         /\ Last(hist').obs = "recovered"
         /\ Countable /\ Flaps(hist', end')
         => RecoveredSince(hist', end', cfg.flapping.hold)]_vars
  BY <1>1
<1>3. QED  BY <1>2, Invariance, InitFlapInv, StepFlapInv, PTL DEF Spec, FlappingHeld
=============================================================================
