----------------------------- MODULE AlertSeries -----------------------------
(***************************************************************************)
(* The life of one series: evaluations of it, one after the other, edits   *)
(* of its rule that keep the state (internal/alert/state.go, plan.go) and  *)
(* manual resolves.  What was observed is recorded, and the properties     *)
(* compare what Step does with that record.                                *)
(***************************************************************************)
EXTENDS AlertState, Sequences

CONSTANTS
    Config,    \* settings a rule may have; an edit moves between them
    Skip,      \* evaluated windows are 1 + skip intervals apart, skip \in Skip
    MaxEnd     \* bound: the last window

ASSUME SeriesAssumption ==
    /\ Config \subseteq StepConfig
    /\ \A c \in Config : c.interval > 0
    /\ Skip \subseteq Nat
    /\ MaxEnd \in Nat

VARIABLES
    cfg,    \* the settings of the rule
    row,    \* the stored row of the series, NoRow when there is none
    end,    \* the end of the last evaluated window, 0 before the first
    hist    \* history: [at, obs, gap, fired, window] of every evaluation since a manual resolve

vars == <<cfg, row, end, hist>>

Incident == {"incident"}

TypeOK ==
    /\ cfg \in Config
    /\ row \in SeriesState(Incident)
    /\ Cardinality(row.transitions) <= maxTransitions
    /\ end \in 0..MaxEnd
    /\ hist \in Seq([at : Nat, obs : Verdict \cup {"no_data", "expired", "kept"},
                     gap : BOOLEAN, fired : BOOLEAN, window : Nat])

Init ==
    /\ cfg \in Config
    /\ row = NoRow
    /\ end = 0
    /\ hist = <<>>

(* What a plan stores for the series. *)
Stored(out, inc) ==
    IF out.persist THEN [out.next EXCEPT !.incident = IF out.open THEN inc ELSE @]
    ELSE IF out.delete THEN NoRow
    ELSE row

(* The window in which entries into firing are remembered, 0 without the protection. *)
Protected(c) == IF c.flapping.enabled THEN c.flapping.window ELSE 0

(* A series without a row and without a sample is not evaluated. *)
Evaluate(skip, obs) ==
    LET e   == end + (1 + skip) * cfg.interval
        in  == [end |-> e, prevEvalEnd |-> end, obs |-> obs]
        out == Step(row, in, cfg)
    IN  /\ e <= MaxEnd
        /\ end' = e
        /\ IF row = NoRow /\ obs = "absent"
           THEN UNCHANGED <<row, hist>>
           ELSE /\ row' = Stored(out, "incident")
                /\ hist' = Append(hist, [at |-> e, gap |-> EvaluationGap(in, cfg),
                                         obs |-> Observed(Entered(row, in, cfg), in, cfg),
                                         fired |-> out.open, window |-> Protected(cfg)])
        /\ UNCHANGED cfg

(* An edit that changes neither type nor condition keeps the state. *)
EditRule(c) ==
    /\ c # cfg
    /\ c.missing = cfg.missing /\ c.zero = cfg.zero
    /\ cfg' = c
    /\ UNCHANGED <<row, end, hist>>

(* ResolveIncident deletes the row of the incident. *)
ManualResolve ==
    /\ row.incident # NoIncident
    /\ row' = NoRow
    /\ hist' = <<>>
    /\ UNCHANGED <<cfg, end>>

Next ==
    \/ \E skip \in Skip, obs \in Verdict \cup {"absent"} : Evaluate(skip, obs)
    \/ \E c \in Config : EditRule(c)
    \/ ManualResolve

Spec == Init /\ [][Next]_vars

-----------------------------------------------------------------------------
Evaluated == end' # end /\ hist' # hist

Last(h) == h[Len(h)]

(* The observations of h from the i-th on are all in V. *)
Throughout(h, i, V) == \A j \in i..Len(h) : h[j].obs \in V

(* From the i-th on, no evaluation of h came after a gap. *)
Unbroken(h, i) == \A j \in (i + 1)..Len(h) : ~h[j].gap

(***************************************************************************)
(* A series enters firing only after it was seen breaching for at least    *)
(* for_seconds in evaluations without a gap: every evaluation in that time *)
(* breached, or had no data and a policy that keeps the state.             *)
(***************************************************************************)
FiresAfterFor ==
    [][Evaluated /\ Last(hist').fired =>
         /\ Last(hist').obs = "breach"
         /\ \E i \in 1..Len(hist') :
              /\ hist'[i].obs = "breach" \/ hist'[i].gap
              /\ end' - hist'[i].at >= cfg.for
              /\ Throughout(hist', i, {"breach", "kept"})
              /\ Unbroken(hist', i)]_vars

(***************************************************************************)
(* A series that breached in every evaluation for for_seconds, without a   *)
(* gap, is firing after the last of them: no breach is overlooked.         *)
(***************************************************************************)
FiresInTime ==
    [][Evaluated =>
         \A i \in 1..Len(hist') :
            /\ end' - hist'[i].at >= cfg.for
            /\ Throughout(hist', i, {"breach"})
            /\ Unbroken(hist', i)
            => row'.state = "firing"]_vars

(***************************************************************************)
(* The series entered firing at least flapping.transitions times in the    *)
(* window, with the protection enabled since then and for no shorter a     *)
(* window.                                                                 *)
(***************************************************************************)
Flaps(h, e) ==
    Cardinality({j \in 1..Len(h) : /\ h[j].fired
                                   /\ e - h[j].at <= cfg.flapping.window
                                   /\ \A k \in j..Len(h) : h[k].window >= cfg.flapping.window})
        >= cfg.flapping.transitions

(***************************************************************************)
(* An incident resolves as recovered only when the series was recovered    *)
(* for the recovery hold: from a first recovered evaluation at least that  *)
(* long ago on, no evaluation breached or was in the hysteresis band.      *)
(***************************************************************************)
RecoveredSince(h, e, d) ==
    \E i \in 1..Len(h) : /\ h[i].obs = "recovered"
                         /\ e - h[i].at >= d
                         /\ Throughout(h, i, {"recovered", "kept"})

ResolvesAfterHold ==
    [][/\ Evaluated
       /\ row.state = "firing" /\ row'.state # "firing"
       /\ Last(hist').obs = "recovered"
       => RecoveredSince(hist', end', cfg.recoveryFor)]_vars

(* A row remembers enough entries into firing to count what the rule asks for. *)
Countable == cfg.flapping.transitions \in 1..maxTransitions

(***************************************************************************)
(* Flapping protection: when at least flapping.transitions entries into    *)
(* firing happened within the window, the incident is kept open until the  *)
(* series was recovered for flapping.hold_seconds.  It holds for the rules *)
(* that ask for at most as many transitions as a row remembers;            *)
(* docs/contracts/alerting.md 3.4 and the validation in rules.go promise   *)
(* it for up to 20, of which fire keeps 10.                                *)
(***************************************************************************)
FlappingHeld ==
    [][/\ Evaluated
       /\ row.state = "firing" /\ row'.state # "firing"
       /\ Last(hist').obs = "recovered"
       /\ Countable /\ Flaps(hist', end')
       => RecoveredSince(hist', end', cfg.flapping.hold)]_vars

(* The most a row can know: the entries into firing in the window, if they can be counted. *)
MayFlap(h, e) ==
    /\ cfg.flapping.enabled
    /\ Countable
    /\ Cardinality({j \in 1..Len(h) : h[j].fired /\ e - h[j].at <= cfg.flapping.window})
           >= cfg.flapping.transitions

=============================================================================
