----------------------------- MODULE MCAlertEval -----------------------------
(***************************************************************************)
(* Instances of AlertEval for TLC.                                         *)
(***************************************************************************)
EXTENDS AlertEval, TLC

CONSTANTS a, b, r1, r2, s1

Steady == [enabled |-> FALSE, transitions |-> 4, window |-> 6, hold |-> 3]

Settings == [for |-> 0, recoveryFor |-> 0, interval |-> 1, delay |-> 0, expireAfter |-> 0,
             missing |-> "keep", zero |-> "recovered", renotify |-> 0, flapping |-> Steady]

OneSetting == {Settings}
Reminding == {[Settings EXCEPT !.renotify = 1]}
Waiting == {[Settings EXCEPT !.for = 1]}

TwoVerdicts == {"breach", "recovered"}

NoFaults == [f \in Fault |-> 0]
FencingBudgets == {[NoFaults EXCEPT !["expire"] = 3]}
RuleBudgets == {[NoFaults EXCEPT !["stop"] = 1, !["error"] = 1]}
LiveBudgets == {[NoFaults EXCEPT ![f] = 1] : f \in {"crash", "stop"}}

PodSymmetry == Permutations({a, b})
=============================================================================
