------------------------------ MODULE AgentUpdate ------------------------------
(***************************************************************************)
(* The self-update of the infrastructure agent on one host                 *)
(* (agents/infra/internal/update): the agent stages a release, the link    *)
(* "current" is switched to it, it is confirmed by its first export and    *)
(* rolled back otherwise.  Who switches depends on the installation:       *)
(*   "staged"  the unit's privileged pre-start step "-apply"               *)
(*   "native"  the service process runs the same step before it starts and *)
(*             exits after a switch (macOS, Windows)                       *)
(*   "legacy"  the agent itself                                            *)
(* Every write of a file and every switch is atomic and durable; a crash   *)
(* may fall between any two of them.                                       *)
(*                                                                         *)
(* The control point of the service is                                     *)
(*   "down"     nothing runs; the service manager starts the service again *)
(*   "check", "install", "record", "switch", "save"   the steps of Apply   *)
(*   "start"    main, before Startup has run                               *)
(*   "run"      the agent runs                                             *)
(*   "undo"     rollbackLocked has switched back, its result is not saved  *)
(*   "exit"     the agent is stopping                                      *)
(* and that of the sync goroutine, in Handle:                              *)
(*   "idle", "stage" (download, verify, self-test), "placed" (the tree is  *)
(*   in place), "staged" (recorded), "switched", "done"                    *)
(*                                                                         *)
(* The agent is the only writer of its state file and saves it with every  *)
(* change: st is the file and, but for a confirmation that could not be    *)
(* saved (proc.unsaved), the manager's memory.  Times are ticks of a clock *)
(* that counts the recorded events; the confirmation window of every event *)
(* up to overdue has passed.  Version 0 is "", and "none" is the empty     *)
(* result.                                                                 *)
(***************************************************************************)
EXTENDS Integers, FiniteSets

CONSTANTS
    Version,            \* versions, ordered as SemVer orders them
    First,              \* the version installed by the package
    Broken,             \* versions that pass the self-test and never export
    Instruction,        \* update instructions of the backend
    Layouts,            \* kinds of installation
    MaxStartAttempts,   \* starts a candidate gets
    MaxStagings,        \* bound: releases staged
    Faults,             \* the faults that may happen
    MaxFaults           \* bound: how many of them

Fault == {"crash", "die", "cancel", "link", "package", "save"}

ASSUME UpdateAssumption ==
    /\ Version \subseteq Nat \ {0} /\ IsFiniteSet(Version)
    /\ First \in Version \ Broken
    /\ Instruction \subseteq [action : {"upgrade", "rollback"}, target : Version, rollout : Nat \ {0}]
    /\ Layouts \subseteq {"staged", "native", "legacy"} /\ Layouts # {}
    /\ MaxStartAttempts \in Nat \ {0} /\ MaxStagings \in Nat /\ MaxFaults \in Nat
    /\ Faults \subseteq Fault

VARIABLES
    layout,      \* the kind of this installation
    pc,          \* control point of the service
    installed,   \* versions/<v> directories
    current,     \* what the link names
    package,     \* the version the package manager owns, None without one
    status,      \* apply-status.json
    unit,        \* reconcile-status.json of that start asks for a restart
    st,          \* update-state.json
    updates,     \* the release in <state_dir>/updates
    ap,          \* the status that a running Apply builds
    proc,        \* the process: binary, mode, sync goroutine, flags
    prune,       \* the versions a pruning goroutine keeps, {} for none
    clock,       \* recorded events
    overdue,     \* events whose confirmation window has passed
    stagings,    \* releases staged
    faults,      \* faults so far
    hist         \* what the properties look back on

diskVars == <<installed, current, package, status, unit, st, updates>>
timeVars == <<clock, overdue, stagings>>
vars == <<layout, pc, diskVars, ap, proc, prune, timeVars, faults, hist>>

-----------------------------------------------------------------------------
None == 0

NoIns == [action |-> "none", target |-> None, rollout |-> 0]

NoCandidate == [version |-> None, previous |-> None, at |-> 0, attempts |-> 0]

Candidate == [version : Version \cup {None}, previous : Version \cup {None},
              at : Nat, attempts : 0..MaxStartAttempts]

Result == {"none", "switched", "rejected", "rolled_back", "rollback_failed"}

(* ApplyStatus; mine says that it carries the invocation id of this start. *)
Status == [mine : BOOLEAN, cand : Candidate, handled : Nat, result : Result,
           from : Version \cup {None}, to : Version \cup {None},
           cur : Version \cup {None}, carried : BOOLEAN]

Reported == {"idle", "verifying", "staged", "restarting", "confirming",
             "succeeded", "failed", "rolled_back"}

State == [previous : Version \cup {None}, candidate : Version \cup {None}, attempts : Nat,
          stagedAt : Nat, confirmed : BOOLEAN, status : Reported, ins : Instruction \cup {NoIns},
          staged : Version \cup {None}, confVer : Version \cup {None}, confAt : Nat,
          rollback : Version \cup {None}]

Process == [ver : Version \cup {None}, mode : {"unset", "staged", "legacy", "none"},
            h : {"idle", "stage", "placed", "staged", "switched", "done"},
            ins : Instruction \cup {NoIns}, settled : BOOLEAN, restarting : BOOLEAN,
            unsaved : Nat]      \* the time of a confirmation that is not in the file

NoProcess == [ver |-> None, mode |-> "unset", h |-> "idle", ins |-> NoIns,
              settled |-> FALSE, restarting |-> FALSE, unsaved |-> 0]

NoStatus == [mine |-> FALSE, cand |-> NoCandidate, handled |-> 0, result |-> "none", from |-> None,
             to |-> None, cur |-> None, carried |-> FALSE]

(***************************************************************************)
(* What the properties look back on: whether the current version exported  *)
(* since it became current, how often it ran unproved, what was current    *)
(* before it (None after a rollback), the instructions that were rolled    *)
(* back since the last other one, and the excuses:                         *)
(*   torn      a start was cut off: "-apply" died, or the process was      *)
(*             killed after a switch or a rollback and before the agent    *)
(*             had recorded it; or a package replaced the candidate        *)
(*   stuck     switching back failed                                       *)
(*   packaged  the package manager replaced its version                    *)
(*   late      the link was switched with a pruning goroutine under way    *)
(*   unsaved   the confirmation of the current version was not saved       *)
(***************************************************************************)
Hist == [healthy : BOOLEAN, runs : Nat, before : Version \cup {None},
         refused : SUBSET (Instruction \cup {NoIns}), torn : BOOLEAN, stuck : BOOLEAN,
         packaged : BOOLEAN, late : BOOLEAN, unsaved : BOOLEAN]

TypeOK ==
    /\ layout \in Layouts
    /\ pc \in {"down", "check", "install", "record", "switch", "save", "start", "run", "undo", "exit"}
    /\ installed \subseteq Version /\ current \in Version /\ package \in Version \cup {None}
    /\ status \in Status /\ unit \in BOOLEAN
    /\ st \in State /\ updates \in Version \cup {None}
    /\ ap \in Status
    /\ proc \in Process
    /\ prune \subseteq Version
    /\ clock \in Nat /\ overdue \in 0..clock
    /\ stagings \in 0..MaxStagings
    /\ faults \in 0..MaxFaults
    /\ hist \in Hist

Init ==
    /\ layout \in Layouts
    /\ pc = "down"
    /\ installed = {First} /\ current = First
    /\ package \in IF layout = "native" THEN {None} ELSE {First, None}
    /\ status = NoStatus /\ unit = FALSE
    /\ st = [previous |-> None, candidate |-> None, attempts |-> 0, stagedAt |-> 0, confirmed |-> FALSE,
             status |-> "idle", ins |-> NoIns, staged |-> None, confVer |-> None, confAt |-> 0,
             rollback |-> None]
    /\ updates = None
    /\ ap = NoStatus
    /\ proc = NoProcess
    /\ prune = {}
    /\ clock = 0 /\ overdue = 0 /\ stagings = 0 /\ faults = 0
    /\ hist = [healthy |-> FALSE, runs |-> 0, before |-> None, refused |-> {}, torn |-> FALSE,
               stuck |-> FALSE, packaged |-> FALSE, late |-> FALSE, unsaved |-> FALSE]

Fails(f) == f \in Faults /\ faults < MaxFaults /\ faults' = faults + 1

pendingCandidate(s, v) == s.candidate = v /\ ~s.confirmed

-----------------------------------------------------------------------------
(***************************************************************************)
(* SwitchCurrent needs the binary of v; the link itself may fail.          *)
(***************************************************************************)
SwitchCurrent(v) == v \in installed /\ current' = v

LinkFails(v) == (v \notin installed /\ UNCHANGED faults) \/ Fails("link")

(* Mutant: the running version is not kept. *)
KeepPrevious(v, previous) == {previous, package} \ {None}

(* The versions that pruning keeps; the package's only where there is a package. *)
Keep(v, previous) == {v, previous, package} \ {None}

(* The link is switched, to another version or back. *)
Relinked(h) == [h EXCEPT !.healthy = FALSE, !.runs = 0, !.unsaved = FALSE, !.late = @ \/ prune # {}]

Switched(h) == [Relinked(h) EXCEPT !.before = current]

RolledBack(h) == [Relinked(h) EXCEPT !.before = None, !.refused = @ \cup {st.ins}]

-----------------------------------------------------------------------------
(* The service manager starts the service: "-apply" first, except in a legacy installation. *)
Boot ==
    /\ pc = "down"
    /\ pc' = IF layout = "legacy" THEN "start" ELSE "check"
    /\ status' = [status EXCEPT !.mine = FALSE]
    /\ ap' = [NoStatus EXCEPT !.mine = TRUE, !.cand = status.cand, !.handled = status.handled]
    /\ proc' = [NoProcess EXCEPT !.ver = current]
    /\ UNCHANGED <<layout, installed, current, package, unit, st, updates, prune, timeVars, faults, hist>>

(* The start after a reconcile that changed the unit is not counted. *)
Attempts == ap.cand.attempts + (IF unit THEN 0 ELSE 1)

(* Mutant: any confirmation of the version counts, one of an earlier installation too. *)
ConfirmedEver(c) == st.confVer = c.version

Confirmed(c) == st.confVer = c.version /\ st.confAt > c.at

RollbackDue(c) == st.rollback = c.version \/ Attempts > MaxStartAttempts \/ c.at <= overdue

applyVars == <<layout, package, status, unit, st, updates, proc, prune, timeVars>>

(* checkCandidate: nothing to watch, because there is no candidate or another version is current. *)
ForgetCandidate ==
    /\ pc = "check"
    /\ ap.cand.version # current
    /\ ap' = [ap EXCEPT !.cand = NoCandidate]
    /\ pc' = "install"
    /\ UNCHANGED <<applyVars, installed, current, faults, hist>>

(* checkCandidate: the candidate has confirmed; old versions are pruned. *)
AcceptCandidate ==
    /\ pc = "check"
    /\ ap.cand.version = current
    /\ Confirmed(ap.cand)
    /\ installed' = installed \cap Keep(ap.cand.version, ap.cand.previous)
    /\ ap' = [ap EXCEPT !.cand = NoCandidate]
    /\ pc' = "install"
    /\ UNCHANGED <<applyVars, current, faults, hist>>

(* Mutant: the count is not kept. *)
CountStartForgets ==
    /\ pc = "check"
    /\ ap.cand.version = current
    /\ ~Confirmed(ap.cand) /\ ~RollbackDue(ap.cand)
    /\ pc' = "save"
    /\ UNCHANGED <<applyVars, installed, current, ap, faults, hist>>

(* checkCandidate: another start of the unconfirmed candidate. *)
CountStart ==
    /\ pc = "check"
    /\ ap.cand.version = current
    /\ ~Confirmed(ap.cand) /\ ~RollbackDue(ap.cand)
    /\ ap' = [ap EXCEPT !.cand.attempts = Attempts]
    /\ pc' = "save"
    /\ UNCHANGED <<applyVars, installed, current, faults, hist>>

(* checkCandidate and switchBack: back to the version recorded before the switch. *)
RollBack ==
    /\ pc = "check"
    /\ ap.cand.version = current
    /\ ~Confirmed(ap.cand) /\ RollbackDue(ap.cand)
    /\ \/ /\ SwitchCurrent(ap.cand.previous)
          /\ ap' = [ap EXCEPT !.cand = NoCandidate, !.result = "rolled_back",
                              !.from = ap.cand.version, !.to = ap.cand.previous]
          /\ pc' = "save"
          /\ hist' = RolledBack(hist)
          /\ UNCHANGED faults
       \/ /\ LinkFails(ap.cand.previous)
          /\ ap' = [ap EXCEPT !.cand = NoCandidate, !.result = "rollback_failed",
                              !.from = ap.cand.version, !.to = ap.cand.previous]
          /\ pc' = "install"
          /\ hist' = [hist EXCEPT !.stuck = TRUE]
          /\ UNCHANGED current
    /\ UNCHANGED <<applyVars, installed>>

Staged == st.staged # None /\ st.stagedAt # ap.handled

NothingStaged ==
    /\ pc = "install"
    /\ ~Staged
    /\ pc' = "save"
    /\ UNCHANGED <<applyVars, installed, current, ap, faults, hist>>

Reject(a) == [a EXCEPT !.handled = st.stagedAt, !.result = "rejected", !.from = proc.ver, !.to = st.staged]

(* applyStaged: a rule refuses the staged release, or it is gone, or already current. *)
RejectStaged ==
    /\ pc = "install"
    /\ Staged
    /\ ap' = Reject(ap)
    /\ pc' = "save"
    /\ UNCHANGED <<applyVars, installed, current, faults, hist>>

(* VerifyInstruction, rules 4 and 5: the direction of the change. *)
Verified(ins, running) ==
    \/ ins.action = "upgrade" /\ ins.target > running
    \/ ins.action = "rollback" /\ ins.target < running

(* applyStaged: the staged release is verified again and put into versions/. *)
InstallStaged ==
    /\ pc = "install"
    /\ Staged
    /\ updates = st.staged
    /\ Verified(st.ins, proc.ver)
    /\ st.staged # current
    /\ installed' = installed \cup {st.staged}
    /\ ap' = [ap EXCEPT !.handled = st.stagedAt]
    /\ pc' = "record"
    /\ UNCHANGED <<applyVars, current, faults, hist>>

(* Mutant: a rollback is to go to the version of the package. *)
RecordCandidatePackage ==
    /\ pc = "record"
    /\ ap' = [ap EXCEPT !.cand = [version |-> st.staged, previous |-> package, at |-> clock + 1,
                                  attempts |-> IF layout = "native" THEN 0 ELSE 1],
                        !.cur = current]
    /\ status' = ap'
    /\ unit' = FALSE
    /\ clock' = clock + 1
    /\ pc' = "switch"
    /\ UNCHANGED <<layout, installed, current, package, st, updates, proc, prune, overdue, stagings, faults, hist>>

(* applyStaged: the candidate is recorded before the switch. *)
RecordCandidate ==
    /\ pc = "record"
    /\ ap' = [ap EXCEPT !.cand = [version |-> st.staged, previous |-> current, at |-> clock + 1,
                                  attempts |-> IF layout = "native" THEN 0 ELSE 1],
                        !.cur = current]
    /\ status' = ap'
    /\ unit' = FALSE
    /\ clock' = clock + 1
    /\ pc' = "switch"
    /\ UNCHANGED <<layout, installed, current, package, st, updates, proc, prune, overdue, stagings, faults, hist>>

SwitchStaged ==
    /\ pc = "switch"
    /\ pc' = "save"
    /\ \/ /\ SwitchCurrent(ap.cand.version)
          /\ ap' = [ap EXCEPT !.result = "switched", !.from = proc.ver, !.to = ap.cand.version]
          /\ hist' = Switched(hist)
          /\ UNCHANGED faults
       \/ /\ LinkFails(ap.cand.version)
          /\ ap' = [Reject(ap) EXCEPT !.cand = NoCandidate]
          /\ UNCHANGED <<current, hist>>
    /\ UNCHANGED <<applyVars, installed>>

(* Mutant: every start reports its own result only. *)
CarryNothing(a) == a

(* The result of the start that switched and exited is reported by the next one, once. *)
Carry(a) ==
    IF /\ layout = "native" /\ a.result = "none" /\ ~status.carried /\ status.cur = current
       /\ status.result \in {"switched", "rolled_back", "rollback_failed"}
    THEN [a EXCEPT !.result = status.result, !.from = status.from, !.to = status.to, !.carried = TRUE]
    ELSE a

(* Apply is over: its status is saved; the version that starts next may change the unit. *)
SaveStatus ==
    /\ pc = "save"
    /\ status' = [Carry(ap) EXCEPT !.cur = current]
    /\ unit' \in IF layout = "staged" /\ current # proc.ver THEN BOOLEAN ELSE {FALSE}
    /\ pc' = IF layout = "native" /\ ap.result \in {"switched", "rolled_back"} THEN "down" ELSE "start"
    /\ UNCHANGED <<layout, installed, current, package, st, updates, ap, proc, prune, timeVars, faults, hist>>

(* "-apply" dies (ExecStartPre=-, or a panic that is recovered): the service starts all the same. *)
ApplyDies ==
    /\ pc \in {"check", "install", "record", "switch", "save"}
    /\ Fails("die")
    /\ pc' = "start"
    /\ hist' = [hist EXCEPT !.torn = TRUE]
    /\ UNCHANGED <<layout, diskVars, ap, proc, prune, timeVars>>

-----------------------------------------------------------------------------
(* Startup of the agent. *)

Set(s, status0) == [s EXCEPT !.status = status0]

Replaced(s, v) ==
    s.candidate \notin {None, v} /\ ~s.confirmed /\ s.status \in {"restarting", "confirming", "staged"}

(* startupStagedLocked: the result of this start's "-apply", for the binary v. *)
startupStaged(s, v) ==
    LET r     == status.result
        ofIts == s.candidate # None /\ status.from = s.candidate
    IN  IF r = "rolled_back" /\ ofIts
          THEN [Set(s, "rolled_back") EXCEPT !.candidate = None, !.staged = None, !.rollback = None]
        ELSE IF r = "rollback_failed" /\ ofIts
          THEN [Set(s, "failed") EXCEPT !.candidate = None, !.rollback = None, !.confirmed = TRUE]
        ELSE IF r = "rejected" /\ s.staged # None /\ status.to = s.staged
          THEN [Set(s, "failed") EXCEPT !.candidate = None, !.staged = None]
        ELSE IF r = "switched" /\ status.to = v /\ s.staged = v
          THEN [Set(s, "confirming") EXCEPT !.staged = None, !.attempts = 1]
        ELSE IF s.staged # None
          THEN [Set(s, "failed") EXCEPT !.candidate = None, !.staged = None]
        ELSE IF pendingCandidate(s, v)
          THEN [Set(s, "confirming") EXCEPT !.attempts = IF status.cand.version = v THEN status.cand.attempts ELSE @]
        ELSE IF Replaced(s, v) THEN [Set(s, "failed") EXCEPT !.candidate = None]
        ELSE s

Binary == IF layout = "native" THEN proc.ver ELSE current

(* Detect: the pre-start step ran for this start, or the agent can write the install root, or neither. *)
Mode == IF status.mine /\ layout # "legacy" THEN "staged"
        ELSE IF layout = "staged" THEN "none" ELSE "legacy"

(* An unproved version reaches its run once more. *)
Ran(h) == [h EXCEPT !.runs = IF h.before # None /\ ~(h.healthy \/ h.stuck \/ h.torn) THEN @ + 1 ELSE @]

Started(v, s) ==
    proc' = [NoProcess EXCEPT !.ver = v, !.mode = Mode, !.settled = ~pendingCandidate(s, v)]

startVars == <<layout, installed, package, status, unit, ap, prune, timeVars>>

(* Startup in staged mode; a unit that this start's reconcile changed needs one more start. *)
StartStaged ==
    /\ pc = "start"
    /\ Mode = "staged"
    /\ st' = startupStaged(st, Binary)
    /\ Started(Binary, st')
    /\ updates' = IF st'.staged = None THEN None ELSE updates
    /\ pc' = IF unit THEN "down" ELSE "run"
    /\ hist' = IF unit THEN hist ELSE Ran(hist)
    /\ UNCHANGED <<startVars, current, faults>>

(* Startup without the pre-start step: what was staged for it is given up. *)
Unstaged ==
    IF st.staged = None THEN st
    ELSE [Set(st, "failed") EXCEPT !.candidate = None, !.staged = None]

Counted == [Unstaged EXCEPT !.attempts = @ + 1]

GiveUp(s) == s.attempts > MaxStartAttempts \/ s.stagedAt <= overdue

StartLegacy ==
    /\ pc = "start"
    /\ Mode # "staged"
    /\ ~(pendingCandidate(Unstaged, Binary) /\ GiveUp(Counted))
    /\ st' = IF pendingCandidate(Unstaged, Binary) THEN Set(Counted, "confirming")
             ELSE IF Replaced(Unstaged, Binary) THEN [Set(Unstaged, "failed") EXCEPT !.candidate = None]
             ELSE Unstaged
    /\ Started(Binary, st')
    /\ updates' = IF st.staged = None THEN updates ELSE None
    /\ pc' = "run"
    /\ hist' = Ran(hist)
    /\ UNCHANGED <<startVars, current, faults>>

(***************************************************************************)
(* rollbackLocked: the link is switched back, then the result is saved; or *)
(* that is impossible and the version stays.                               *)
(***************************************************************************)
rollbackLocked(s, mode) ==
    \/ /\ mode = "legacy"
       /\ SwitchCurrent(s.previous)
       /\ st' = st
       /\ pc' = "undo"
       /\ hist' = RolledBack(hist)
       /\ UNCHANGED faults
    \/ /\ IF mode = "legacy" THEN LinkFails(s.previous) ELSE UNCHANGED faults
       /\ st' = [Set(s, "failed") EXCEPT !.candidate = None, !.confirmed = TRUE]
       /\ pc' = "run"
       /\ hist' = [hist EXCEPT !.stuck = TRUE]
       /\ UNCHANGED current

RollBackAtStart ==
    /\ pc = "start"
    /\ Mode # "staged"
    /\ pendingCandidate(Unstaged, Binary) /\ GiveUp(Counted)
    /\ rollbackLocked(Counted, Mode)
    /\ proc' = [NoProcess EXCEPT !.ver = Binary, !.mode = Mode, !.settled = TRUE]
    /\ UNCHANGED <<startVars, updates>>

SaveRollback ==
    /\ pc = "undo"
    /\ st' = [Set(st, "rolled_back") EXCEPT !.candidate = None]
    /\ pc' = "exit"
    /\ proc' = [proc EXCEPT !.settled = TRUE, !.restarting = TRUE]
    /\ UNCHANGED <<startVars, current, updates, faults, hist>>

-----------------------------------------------------------------------------
(* The running agent. *)

Runs == pc \in {"run", "exit"}

(* mu is held from the record of a legacy staging to its end. *)
Unlocked == proc.h \notin {"staged", "switched"}

runVars == <<layout, package, status, unit, ap>>

(* Mutant: a confirmation is not stamped with the version and the time. *)
StampNothing(s, v, n) == [Set(s, "succeeded") EXCEPT !.confirmed = TRUE]

(* The version v is confirmed at the time n. *)
Stamp(s, v, n) == [Set(s, "succeeded") EXCEPT !.confirmed = TRUE, !.confVer = v, !.confAt = n]

(* The manager's memory. *)
Memory == IF proc.unsaved = 0 THEN st ELSE Stamp(st, proc.ver, proc.unsaved)

Pending == proc.unsaved = 0 /\ pendingCandidate(st, proc.ver)

(* An export succeeds: Confirm has nothing to do, because the candidate is settled. *)
ConfirmAgain ==
    /\ Runs /\ Unlocked
    /\ proc.ver \notin Broken
    /\ proc.settled \/ ~pendingCandidate(st, proc.ver)
    /\ proc' = [proc EXCEPT !.settled = TRUE]
    /\ hist' = [hist EXCEPT !.healthy = current = proc.ver]
    /\ UNCHANGED <<runVars, pc, installed, current, st, updates, prune, timeVars, faults>>

(* The first export of a candidate: Confirm; that its result could not be saved is only logged. *)
Confirm ==
    /\ Runs /\ Unlocked
    /\ proc.ver \notin Broken
    /\ ~proc.settled /\ pendingCandidate(st, proc.ver)
    /\ clock' = clock + 1
    /\ prune' = IF proc.mode = "legacy" THEN Keep(proc.ver, st.previous) ELSE prune
    /\ \/ /\ st' = Stamp(st, proc.ver, clock + 1)
          /\ proc' = [proc EXCEPT !.settled = TRUE]
          /\ hist' = [hist EXCEPT !.healthy = current = proc.ver, !.unsaved = FALSE]
          /\ UNCHANGED faults
       \/ /\ Fails("save")
          /\ proc' = [proc EXCEPT !.settled = TRUE, !.unsaved = clock + 1]
          /\ hist' = [hist EXCEPT !.healthy = current = proc.ver, !.unsaved = TRUE]
          /\ UNCHANGED st
    /\ UNCHANGED <<runVars, pc, installed, current, updates, overdue, stagings>>

(* The goroutine that Confirm started prunes versions/. *)
Prune ==
    /\ Runs
    /\ prune # {}
    /\ installed' = installed \cap prune
    /\ prune' = {}
    /\ UNCHANGED <<runVars, pc, current, st, updates, proc, timeVars, faults, hist>>

(* Mutant: the rollback is asked for and the agent goes on. *)
WatchdogStagedStays ==
    /\ pc = "run" /\ Unlocked
    /\ Pending /\ st.stagedAt <= overdue
    /\ proc.mode = "staged"
    /\ st' = [Set(st, "restarting") EXCEPT !.rollback = proc.ver]
    /\ UNCHANGED <<runVars, pc, installed, current, updates, proc, prune, timeVars, faults, hist>>

(* Run: the candidate did not confirm within its window. *)
WatchdogStaged ==
    /\ pc = "run" /\ Unlocked
    /\ Pending /\ st.stagedAt <= overdue
    /\ proc.mode = "staged"
    /\ st' = [Set(st, "restarting") EXCEPT !.rollback = proc.ver]
    /\ proc' = [proc EXCEPT !.restarting = TRUE]
    /\ pc' = "exit"
    /\ UNCHANGED <<runVars, installed, current, updates, prune, timeVars, faults, hist>>

WatchdogLegacy ==
    /\ pc = "run" /\ Unlocked
    /\ Pending /\ st.stagedAt <= overdue
    /\ proc.mode # "staged"
    /\ rollbackLocked(st, proc.mode)
    /\ proc' = [proc EXCEPT !.settled = TRUE]
    /\ UNCHANGED <<runVars, installed, updates, prune, timeVars>>

-----------------------------------------------------------------------------
(* Handle: an update instruction of a sync response. *)

(* Mutant: a rolled back instruction is retried like a failed one. *)
skipLess(ins) ==
    \/ Pending
    \/ ins.action = "upgrade" /\ ins.target = proc.ver
    \/ ins = st.ins /\ Memory.status = "succeeded" /\ ins.target = proc.ver

skip(ins) ==
    \/ Pending
    \/ ins.action = "upgrade" /\ ins.target = proc.ver
    \/ ins = st.ins /\ Memory.status = "rolled_back"
    \/ ins = st.ins /\ Memory.status = "succeeded" /\ ins.target = proc.ver

(* A failed instruction is tried again when its delay has passed. *)
Handle(ins) ==
    /\ pc = "run"
    /\ proc.h = "idle" /\ ~proc.restarting
    /\ stagings < MaxStagings
    /\ ~skip(ins)
    /\ st' = [Set(Memory, "verifying") EXCEPT !.ins = ins]
    /\ proc' = [proc EXCEPT !.h = "stage", !.ins = ins, !.unsaved = 0]
    /\ hist' = [hist EXCEPT !.refused = IF ins = st.ins THEN @ ELSE {}, !.unsaved = FALSE]
    /\ UNCHANGED <<runVars, pc, installed, current, updates, prune, timeVars, faults>>

(* stage returned an error: the attempt failed, or it is forgotten because the agent stops. *)
NotStaged(s) ==
    IF pc = "run" THEN Set(s, "failed") ELSE IF proc.restarting THEN s ELSE Set(s, "idle")

(* A rule refuses the release, or the context is cancelled. *)
StageFails ==
    /\ Runs
    /\ proc.h = "stage"
    /\ st' = NotStaged(st)
    /\ proc' = [proc EXCEPT !.h = "idle"]
    /\ updates' = IF proc.mode = "staged" THEN None ELSE updates
    /\ UNCHANGED <<runVars, pc, installed, current, prune, timeVars, faults, hist>>

(* The release is verified and in place: in updates/ or in versions/. *)
StagePlaces ==
    /\ Runs
    /\ proc.h = "stage"
    /\ Verified(proc.ins, proc.ver)
    /\ \/ proc.mode = "staged" /\ updates' = proc.ins.target /\ UNCHANGED installed
       \/ proc.mode = "legacy" /\ installed' = installed \cup {proc.ins.target} /\ UNCHANGED updates
    /\ proc' = [proc EXCEPT !.h = "placed"]
    /\ UNCHANGED <<runVars, pc, current, st, prune, timeVars, faults, hist>>

(* The candidate is recorded; in staged mode the agent then exits. *)
StageRecords ==
    /\ Runs
    /\ proc.h = "placed"
    /\ stagings' = stagings + 1
    /\ clock' = clock + 1
    /\ LET s == [st EXCEPT !.previous = proc.ver, !.candidate = proc.ins.target, !.attempts = 0,
                           !.stagedAt = clock + 1, !.confirmed = FALSE]
       IN  IF proc.mode = "staged"
           THEN /\ st' = [Set(s, "restarting") EXCEPT !.staged = proc.ins.target, !.rollback = None]
                /\ proc' = [proc EXCEPT !.h = "done", !.restarting = TRUE]
                /\ pc' = "exit"
           ELSE /\ st' = Set(s, "staged")
                /\ proc' = [proc EXCEPT !.h = "staged"]
                /\ pc' = pc
    /\ UNCHANGED <<runVars, installed, current, updates, prune, overdue, faults, hist>>

StageSwitches ==
    /\ Runs
    /\ proc.h = "staged"
    /\ \/ /\ SwitchCurrent(proc.ins.target)
          /\ proc' = [proc EXCEPT !.h = "switched"]
          /\ hist' = Switched(hist)
          /\ UNCHANGED <<st, faults>>
       \/ /\ LinkFails(proc.ins.target)
          /\ st' = NotStaged([st EXCEPT !.candidate = None])
          /\ proc' = [proc EXCEPT !.h = "idle"]
          /\ UNCHANGED <<current, hist>>
    /\ UNCHANGED <<runVars, pc, installed, updates, prune, timeVars>>

StageDone ==
    /\ Runs
    /\ proc.h = "switched"
    /\ st' = Set(st, "restarting")
    /\ proc' = [proc EXCEPT !.h = "done", !.restarting = TRUE]
    /\ pc' = "exit"
    /\ UNCHANGED <<runVars, installed, current, updates, prune, timeVars, faults, hist>>

-----------------------------------------------------------------------------
(* The end of the process, and the world around it. *)

Ends ==
    /\ pc' = "down"
    /\ proc' = NoProcess
    /\ prune' = {}
    /\ UNCHANGED <<layout, diskVars, ap, timeVars>>

(* The agent has stopped; main waits for the sync goroutine. *)
Exit ==
    /\ pc = "exit"
    /\ proc.h \in {"idle", "done"}
    /\ Ends
    /\ UNCHANGED <<faults, hist>>

(* A broken version ends by itself, early or late. *)
Fall ==
    /\ pc = "run"
    /\ proc.ver \in Broken
    /\ Ends
    /\ UNCHANGED <<faults, hist>>

(* A switch or a rollback that the agent has yet to hear of, or to record. *)
Lasting == {"switched", "rolled_back", "rollback_failed"}

CutOff ==
    \/ pc = "save" /\ ap.result \in Lasting
    \/ pc = "start" /\ status.result \in Lasting
    \/ pc = "undo"

(* The process is killed or the host loses power. *)
Crash ==
    /\ pc # "down"
    /\ Fails("crash")
    /\ Ends
    /\ hist' = [hist EXCEPT !.torn = @ \/ CutOff]

(* Another part of the agent, or the operator, stops it. *)
Cancel ==
    /\ pc = "run"
    /\ Fails("cancel")
    /\ pc' = "exit"
    /\ UNCHANGED <<layout, diskVars, ap, proc, prune, timeVars, hist>>

(***************************************************************************)
(* The package manager replaces its version, once; its script keeps a      *)
(* newer current one, and restarts the agent after a switch or when the    *)
(* reconcile asks for it.                                                  *)
(***************************************************************************)
PackageInstalls(v) ==
    /\ layout = "staged" /\ package # None
    /\ pc \in {"down", "run"}
    /\ Fails("package") /\ ~hist.packaged
    /\ v # package
    /\ package' = v
    /\ current' = IF current > v /\ current # package THEN current ELSE v
    /\ installed' = (installed \ ({package} \ {current'})) \cup {v}
    /\ pc' \in IF pc = "down" THEN {"down"} ELSE IF current' = current THEN {"run", "exit"} ELSE {"exit"}
    /\ hist' = [hist EXCEPT !.packaged = TRUE, !.torn = @ \/ v = status.cand.version,
                            !.healthy = @ /\ current' = current,
                            !.before = IF current' = current THEN @ ELSE None]
    /\ UNCHANGED <<layout, status, unit, st, updates, ap, proc, prune, timeVars>>

(* The confirmation window of everything recorded so far passes. *)
TimePasses ==
    /\ overdue < clock
    /\ overdue' = clock
    /\ UNCHANGED <<layout, pc, diskVars, ap, proc, prune, clock, stagings, faults, hist>>

Next ==
    \/ Boot \/ ForgetCandidate \/ AcceptCandidate \/ CountStart \/ RollBack
    \/ NothingStaged \/ RejectStaged \/ InstallStaged \/ RecordCandidate \/ SwitchStaged
    \/ SaveStatus \/ ApplyDies
    \/ StartStaged \/ StartLegacy \/ RollBackAtStart \/ SaveRollback
    \/ ConfirmAgain \/ Confirm \/ Prune \/ WatchdogStaged \/ WatchdogLegacy
    \/ \E ins \in Instruction : Handle(ins)
    \/ StageFails \/ StagePlaces \/ StageRecords \/ StageSwitches \/ StageDone
    \/ Exit \/ Fall \/ Crash \/ Cancel
    \/ \E v \in Version : PackageInstalls(v)
    \/ TimePasses

Spec == Init /\ [][Next]_vars

-----------------------------------------------------------------------------
(* Properties. *)

(***************************************************************************)
(* Pruning old versions, by "-apply" or by the goroutine of Confirm, never *)
(* removes the version that the link names.  The exceptions: the link was  *)
(* switched while that goroutine had not run yet, or, in the native        *)
(* layout, after a pre-start step that died, when the agent prunes without *)
(* having switched itself.                                                 *)
(***************************************************************************)
CurrentInstalled == current \in installed \/ hist.late \/ (layout = "native" /\ hist.torn)

(***************************************************************************)
(* A version that has not exported anything since it became current runs   *)
(* at most MaxStartAttempts times: checkCandidate and Startup count every  *)
(* start, over crashes of the agent and restarts for a changed unit.  Runs *)
(* after a start that was cut off (torn) or a rollback that failed (stuck) *)
(* are not counted.                                                        *)
(***************************************************************************)
StartsBounded == hist.runs <= MaxStartAttempts

(* The link is switched back, by checkCandidate or by rollbackLocked. *)
RollsBack == current' # current /\ (pc = "check" \/ pc' = "undo")

(***************************************************************************)
(* A version that exported something since it became current is not rolled *)
(* back, whatever window has passed and however often it starts.  The code *)
(* makes two exceptions: its confirmation could not be saved and only the  *)
(* process knew of it (unsaved); or a start was cut off (torn): after a    *)
(* crash between the switch and Startup's record of it, Startup drops the  *)
(* candidate, Confirm finds nothing to confirm, and "-apply", which still  *)
(* watches the candidate, rolls it back although it exports.               *)
(***************************************************************************)
HealthyStays == [][RollsBack => ~hist.healthy \/ hist.unsaved \/ hist.torn]_vars

(***************************************************************************)
(* A rollback goes to the version that was current before the switch, also *)
(* when further updates, crashes of the agent or packages of other         *)
(* versions fall in between; after a start that was cut off or a package   *)
(* of the candidate itself (torn) nothing is said.                         *)
(***************************************************************************)
RollbackToPrevious == [][RollsBack => current' = hist.before \/ hist.torn]_vars

(***************************************************************************)
(* "-apply" takes a candidate for confirmed only if it exported since this *)
(* switch: a confirmation of an earlier installation of it does not count. *)
(* Nothing is said after a start that was cut off (torn).                  *)
(***************************************************************************)
AcceptedExported == [][AcceptCandidate => hist.healthy \/ hist.torn]_vars

(***************************************************************************)
(* An instruction whose version was rolled back is not tried again until   *)
(* another one has been handled, over restarts and however often the       *)
(* server repeats it, if no start was cut off (torn): a rollback that was  *)
(* not recorded is not remembered.  skipLocked knows the last instruction  *)
(* only; that a rolled back version is NEVER retried does not hold.        *)
(***************************************************************************)
RefusedUntilNext ==
    [][\A ins \in Instruction : Handle(ins) => ins \notin hist.refused \/ hist.torn]_vars

(***************************************************************************)
(* What the agent reports of the instruction is what happened: the version *)
(* confirms or has succeeded only while it runs, and is reported as rolled *)
(* back, or an upgrade as failed, only while it does not.  Said only while *)
(* no package was installed (packaged), no start was cut off (torn) and no *)
(* rollback failed (stuck).                                                *)
(***************************************************************************)
ReportTrue ==
    pc = "run" /\ proc.h = "idle" /\ ~hist.packaged /\ ~hist.torn /\ ~hist.stuck =>
        /\ Memory.status \in {"confirming", "succeeded"} => proc.ver = st.ins.target
        /\ Memory.status = "rolled_back" \/ (Memory.status = "failed" /\ st.ins.action = "upgrade") =>
               proc.ver # st.ins.target

-----------------------------------------------------------------------------
(***************************************************************************)
(* The service manager starts the service again whenever it ended, a       *)
(* running step of the agent ends, and time passes.  Nothing is assumed of *)
(* exports, of instructions and of the faults.                             *)
(***************************************************************************)
Fairness ==
    /\ WF_vars(Boot \/ ForgetCandidate \/ AcceptCandidate \/ CountStart \/ RollBack \/ NothingStaged
               \/ RejectStaged \/ InstallStaged \/ RecordCandidate \/ SwitchStaged \/ SaveStatus)
    /\ WF_vars(StartStaged \/ StartLegacy \/ RollBackAtStart \/ SaveRollback)
    /\ WF_vars(WatchdogStaged \/ WatchdogLegacy)
    /\ WF_vars(StageFails \/ StageRecords \/ StageSwitches \/ StageDone)
    /\ WF_vars(Exit)
    /\ WF_vars(TimePasses)

FairSpec == Spec /\ Fairness

(***************************************************************************)
(* A version that never exports does not stay current: it is rolled back   *)
(* by its starts, by the watchdog or by the window, unless switching back  *)
(* failed, a start was cut off (torn) or a package was installed.          *)
(***************************************************************************)
BrokenLeaves == (current \in Broken) ~> (current \notin Broken \/ hist.stuck \/ hist.torn \/ hist.packaged)
=============================================================================
