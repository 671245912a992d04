---------------------------- MODULE MCAlertSeries ----------------------------
(***************************************************************************)
(* Instances of AlertSeries for TLC.                                       *)
(***************************************************************************)
EXTENDS AlertSeries

Steady == [enabled |-> FALSE, transitions |-> 4, window |-> 6, hold |-> 3]

Base == [for |-> 2, recoveryFor |-> 2, interval |-> 1, delay |-> 0, expireAfter |-> 3,
         missing |-> "keep", zero |-> "recovered", renotify |-> 0, flapping |-> Steady]

(* Every policy for missing data, with for and recovery_for and without. *)
TimerConfigs ==
    {[Base EXCEPT !.missing = m, !.for = f, !.recoveryFor = 3 - f] :
        m \in MissingPolicy, f \in {0, 2}}

(* A series that flaps after two entries into firing in a window of five. *)
FlapConfig ==
    [Base EXCEPT !.for = 0, !.recoveryFor = 0, !.missing = "ok", !.zero = "band",
                 !.flapping = [enabled |-> TRUE, transitions |-> 2, window |-> 5, hold |-> 1]]

(***************************************************************************)
(* Edits of it, each with its way back: a shorter window, a number of      *)
(* transitions that a row cannot remember, and no protection.              *)
(***************************************************************************)
FlapConfigs ==
    {FlapConfig, [FlapConfig EXCEPT !.flapping.window = 2],
     [FlapConfig EXCEPT !.flapping.transitions = 3]}
    \cup {[FlapConfig EXCEPT !.zero = "breach", !.flapping.enabled = on] : on \in BOOLEAN}

SeriesConfigs == TimerConfigs \cup FlapConfigs

Often == {0, 2}
=============================================================================
