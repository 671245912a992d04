--------------------------- MODULE AgentUpdateProofs ---------------------------
(***************************************************************************)
(* Proofs about the self-update of the infrastructure agent, for any       *)
(* versions, instructions, installations, and any number of starts and     *)
(* faults.                                                                 *)
(***************************************************************************)
EXTENDS AgentUpdate, TLAPS

Applying == {"check", "install", "record", "switch", "save"}

(* What the types rest on. *)
Sound ==
    /\ pc # "down" => proc.ver \in Version
    /\ st.candidate # None => st.previous # None
    /\ proc.h # "idle" => proc.ins \in Instruction
    /\ proc.h \in {"stage", "placed"} => stagings < MaxStagings
    /\ pc \in {"record", "switch"} => st.staged # None

(* Nothing is stamped with a time to come. *)
Stamped ==
    /\ st.confAt <= clock /\ st.stagedAt <= clock
    /\ status.cand.at <= clock /\ ap.cand.at <= clock
    /\ proc.unsaved <= clock

(***************************************************************************)
(* The sync goroutine: it works while the agent runs, on a version that is *)
(* not the running one and not while a candidate is to be confirmed.       *)
(***************************************************************************)
HandleStory ==
    /\ proc.h # "idle" => Runs
    /\ proc.h # "idle" => ~pendingCandidate(st, proc.ver)
    /\ proc.h \in {"placed", "staged", "switched"} => Verified(proc.ins, proc.ver)
    /\ proc.h = "staged" => /\ proc.mode # "staged"
                            /\ st.candidate = proc.ins.target /\ st.previous = proc.ver
    /\ pc = "run" => proc.restarting = FALSE /\ proc.h # "done"
    /\ st.candidate # None => st.candidate # st.previous

(***************************************************************************)
(* "-apply": what it builds of the status of the last start, and where it  *)
(* is between recording a candidate and switching to it.                   *)
(***************************************************************************)
ApplyStory ==
    /\ layout = "legacy" => pc \notin Applying /\ status.cand = NoCandidate
    /\ pc \in Applying => ap.mine = TRUE
    /\ pc \in Applying \ {"save"} => proc.ver = current
    /\ pc = "check" => ap.cand = status.cand
    /\ pc \in {"install", "record"} => ap.cand = NoCandidate
    /\ pc = "record" => st.staged # current
    /\ pc = "switch" => /\ status = ap
                        /\ ap.cand.version = st.staged /\ st.staged # current
                        /\ ap.cand.previous = current
    /\ pc = "save" => ap.cand = NoCandidate \/ ap.cand.version = current
    /\ \A c \in {status.cand, ap.cand} : c.version # None => c.version # c.previous

(* Unless "-apply" died, the agent of an installation with that step leaves the switching to it. *)
ModeStory ==
    hist.torn = FALSE =>
        /\ pc = "start" => layout = "legacy" \/ status.mine = TRUE
        /\ pc \in {"run", "exit", "undo"} =>
               proc.mode = IF layout = "legacy" THEN "legacy" ELSE "staged"
        /\ pc = "undo" => layout = "legacy"

(* The candidate that "-apply" watches came in place of the version that was current before. *)
CandidateStory ==
    hist.torn = FALSE =>
        /\ status.cand.version = current => status.cand.previous = hist.before
        /\ pc = "save" /\ ap.cand.version = current => ap.cand.previous = hist.before

(* So did the candidate that an agent without "-apply" watches; it runs what is current until it switches. *)
LegacyStory ==
    layout = "legacy" =>
        /\ pc = "start" => proc.ver = current
        /\ Runs \/ pc = "undo" => proc.mode = "legacy"
        /\ Runs /\ proc.restarting = FALSE /\ proc.h \notin {"switched", "done"} => proc.ver = current
        /\ Runs /\ proc.h \in {"stage", "placed", "staged"} => proc.restarting = FALSE
        /\ hist.torn = FALSE /\ st.candidate = current /\ st.confirmed = FALSE =>
               st.previous = hist.before
        /\ st.staged = None

IInv ==
    /\ TypeOK
    /\ Sound
    /\ Stamped
    /\ HandleStory
    /\ ApplyStory
    /\ ModeStory
    /\ CandidateStory
    /\ LegacyStory

-----------------------------------------------------------------------------
(* The types of what the steps are made of. *)

LEMMA Records ==
    /\ NoCandidate \in Candidate /\ NoCandidate.version = None /\ NoCandidate.at = 0
    /\ NoStatus \in Status /\ NoStatus.cand = NoCandidate
    /\ NoProcess \in Process /\ NoProcess.h = "idle" /\ NoProcess.ver = None
    /\ NoProcess.unsaved = 0 /\ NoProcess.mode = "unset"
    /\ MaxStartAttempts \in Nat
BY UpdateAssumption DEF NoCandidate, Candidate, NoStatus, Status, Result, NoProcess, Process, None

LEMMA Versions ==
    /\ None \notin Version /\ Version \subseteq Nat
    /\ \A ins \in Instruction : ins.target \in Version
BY UpdateAssumption DEF None

(* What Startup may change of the state file. *)
Settles(s, t) ==
    /\ t \in State
    /\ t.previous = s.previous /\ t.ins = s.ins /\ t.stagedAt = s.stagedAt
    /\ t.confVer = s.confVer /\ t.confAt = s.confAt
    /\ t.candidate \in {s.candidate, None}
    /\ t.staged \in {s.staged, None}
    /\ t.rollback \in {s.rollback, None}
    /\ t.confirmed = s.confirmed \/ t.confirmed = TRUE

LEMMA SetSettles ==
    ASSUME NEW s \in State, NEW r \in Reported
    PROVE  Settles(s, Set(s, r)) /\ Set(s, r).status = r /\ Set(s, r).candidate = s.candidate
BY DEF Settles, Set, State

LEMMA startupSettles ==
    ASSUME NEW s \in State, NEW v, status \in Status
    PROVE  Settles(s, startupStaged(s, v))
<1> DEFINE r == status.result
           ofIts == s.candidate # None /\ status.from = s.candidate
           rolled == r = "rolled_back" /\ ofIts
           stuck == r = "rollback_failed" /\ ofIts
           refused == r = "rejected" /\ s.staged # None /\ status.to = s.staged
           done == r = "switched" /\ status.to = v /\ s.staged = v
           left == s.staged # None
           attempts == IF status.cand.version = v THEN status.cand.attempts ELSE s.attempts
<1>1. startupStaged(s, v) =
        IF rolled THEN [Set(s, "rolled_back") EXCEPT !.candidate = None, !.staged = None, !.rollback = None]
        ELSE IF stuck THEN [Set(s, "failed") EXCEPT !.candidate = None, !.rollback = None, !.confirmed = TRUE]
        ELSE IF refused THEN [Set(s, "failed") EXCEPT !.candidate = None, !.staged = None]
        ELSE IF done THEN [Set(s, "confirming") EXCEPT !.staged = None, !.attempts = 1]
        ELSE IF left THEN [Set(s, "failed") EXCEPT !.candidate = None, !.staged = None]
        ELSE IF pendingCandidate(s, v) THEN [Set(s, "confirming") EXCEPT !.attempts = attempts]
        ELSE IF Replaced(s, v) THEN [Set(s, "failed") EXCEPT !.candidate = None]
        ELSE s
  BY DEF startupStaged, Set, State
<1>2. attempts \in Nat
  BY UpdateAssumption DEF Status, Candidate, State
<1> HIDE DEF rolled, stuck, refused, done, left, attempts
<1>3. Settles(s, [Set(s, "rolled_back") EXCEPT !.candidate = None, !.staged = None, !.rollback = None])
  BY DEF Settles, Set, State, Reported
<1>4. Settles(s, [Set(s, "failed") EXCEPT !.candidate = None, !.rollback = None, !.confirmed = TRUE])
  BY DEF Settles, Set, State, Reported
<1>5. Settles(s, [Set(s, "failed") EXCEPT !.candidate = None, !.staged = None])
  BY DEF Settles, Set, State, Reported
<1>6. Settles(s, [Set(s, "confirming") EXCEPT !.staged = None, !.attempts = 1])
  BY DEF Settles, Set, State, Reported
<1>7. Settles(s, [Set(s, "confirming") EXCEPT !.attempts = attempts])
  BY <1>2 DEF Settles, Set, State, Reported
<1>8. Settles(s, [Set(s, "failed") EXCEPT !.candidate = None]) /\ Settles(s, s)
  BY DEF Settles, Set, State, Reported
<1>9. QED  BY <1>1, <1>3, <1>4, <1>5, <1>6, <1>7, <1>8

(* Startup without the pre-start step. *)
LEMMA UnstagedSettles ==
    ASSUME st \in State
    PROVE  /\ Settles(st, Unstaged) /\ Unstaged.staged = None
           /\ st.staged = None => Unstaged = st
           /\ Settles(st, Counted) /\ Counted.staged = None
           /\ Counted.candidate = Unstaged.candidate /\ Counted.confirmed = Unstaged.confirmed
<1>1. /\ Settles(st, Unstaged) /\ Unstaged.staged = None
      /\ st.staged = None => Unstaged = st
  <2>1. CASE st.staged = None
    BY <2>1 DEF Unstaged, Settles
  <2>2. CASE st.staged # None
    <3>1. Unstaged = [Set(st, "failed") EXCEPT !.candidate = None, !.staged = None]
      BY <2>2 DEF Unstaged
    <3>2. QED  BY <2>2, <3>1 DEF Settles, Set, State, Reported
  <2>3. QED  BY <2>1, <2>2
<1>2. Counted = [Unstaged EXCEPT !.attempts = Unstaged.attempts + 1]
  BY <1>1 DEF Counted, Settles, State
<1>3. QED  BY <1>1, <1>2 DEF Settles, State

(* A confirmation of v at the time n makes t of the state s. *)
Stamps(s, t, v, n) ==
    /\ t \in State /\ t.status = "succeeded" /\ t.confirmed = TRUE
    /\ t.confVer = v /\ t.confAt = n /\ t.candidate = s.candidate /\ t.staged = s.staged
    /\ t.previous = s.previous /\ t.ins = s.ins /\ t.stagedAt = s.stagedAt
    /\ t.attempts = s.attempts /\ t.rollback = s.rollback

LEMMA StampTypes ==
    ASSUME NEW s \in State, NEW v \in Version, NEW n \in Nat
    PROVE  Stamps(s, Stamp(s, v, n), v, n)
BY DEF Stamps, Stamp, Set, State, Reported

(* What the process knows is the file, or the file with the confirmation. *)
LEMMA MemoryTypes ==
    ASSUME st \in State, proc.unsaved \in Nat, proc.unsaved # 0 => proc.ver \in Version
    PROVE  /\ Memory \in State
           /\ Memory.candidate = st.candidate /\ Memory.staged = st.staged
           /\ Memory.previous = st.previous /\ Memory.ins = st.ins /\ Memory.stagedAt = st.stagedAt
           /\ Memory.attempts = st.attempts /\ Memory.rollback = st.rollback
           /\ proc.unsaved = 0 => /\ Memory.confirmed = st.confirmed /\ Memory.confVer = st.confVer
                                  /\ Memory.confAt = st.confAt /\ Memory.status = st.status
           /\ proc.unsaved # 0 => /\ Memory.confirmed = TRUE /\ Memory.confVer = proc.ver
                                  /\ Memory.confAt = proc.unsaved /\ Memory.status = "succeeded"
<1>1. CASE proc.unsaved = 0
  BY <1>1 DEF Memory
<1>2. CASE proc.unsaved # 0
  <2>1. Memory = Stamp(st, proc.ver, proc.unsaved)
    BY <1>2 DEF Memory
  <2>2. Stamps(st, Memory, proc.ver, proc.unsaved)
    BY <1>2, <2>1, StampTypes
  <2>3. QED  BY <1>2, <2>2 DEF Stamps
<1>3. QED  BY <1>1, <1>2

(* A status that carries the last result is one. *)
LEMMA CarryKeeps ==
    ASSUME NEW a \in Status, status \in Status
    PROVE  /\ Carry(a) \in Status /\ Carry(a).cand = a.cand /\ Carry(a).mine = a.mine
           /\ Carry(a).handled = a.handled
<1> DEFINE b == /\ layout = "native" /\ a.result = "none" /\ ~status.carried /\ status.cur = current
                /\ status.result \in {"switched", "rolled_back", "rollback_failed"}
<1>1. Carry(a) = IF b THEN [a EXCEPT !.result = status.result, !.from = status.from, !.to = status.to,
                                     !.carried = TRUE]
                 ELSE a
  BY DEF Carry
<1> HIDE DEF b
<1>2. QED  BY <1>1 DEF Status

(* The history of the properties, after every step that changes it. *)
LEMMA HistSteps ==
    ASSUME hist \in Hist, st \in State, current \in Version
    PROVE  /\ Switched(hist) \in Hist /\ RolledBack(hist) \in Hist /\ Ran(hist) \in Hist
           /\ [hist EXCEPT !.stuck = TRUE] \in Hist
           /\ [hist EXCEPT !.torn = TRUE] \in Hist
           /\ \A b \in BOOLEAN : /\ [hist EXCEPT !.healthy = b] \in Hist
                                /\ \A c \in BOOLEAN : [hist EXCEPT !.healthy = b, !.unsaved = c] \in Hist
<1>0. Relinked(hist) \in Hist /\ Relinked(hist).refused = hist.refused
  BY DEF Relinked, Hist
<1>1. Switched(hist) \in Hist
  <2> DEFINE h == Relinked(hist)
  <2>1. h \in Hist /\ Switched(hist) = [h EXCEPT !.before = current]
    BY <1>0 DEF Switched
  <2> HIDE DEF h
  <2>2. QED  BY <2>1 DEF Hist
<1>2. RolledBack(hist) \in Hist
  <2> DEFINE h == Relinked(hist)
             r == hist.refused \cup {st.ins}
  <2>1. h \in Hist /\ RolledBack(hist) = [h EXCEPT !.before = None, !.refused = r]
    BY <1>0 DEF RolledBack
  <2>2. r \in SUBSET (Instruction \cup {NoIns})
    BY DEF Hist, State
  <2> HIDE DEF h, r
  <2>3. QED  BY <2>1, <2>2 DEF Hist
<1>3. Ran(hist) \in Hist
  <2> DEFINE n == IF hist.before # None /\ ~(hist.healthy \/ hist.stuck \/ hist.torn)
                  THEN hist.runs + 1 ELSE hist.runs
  <2>1. n \in Nat /\ Ran(hist) = [hist EXCEPT !.runs = n]
    BY DEF Ran, Hist
  <2> HIDE DEF n
  <2>2. QED  BY <2>1 DEF Hist
<1>4. [hist EXCEPT !.stuck = TRUE] \in Hist /\ [hist EXCEPT !.torn = TRUE] \in Hist
  BY DEF Hist
<1>5. \A b \in BOOLEAN : /\ [hist EXCEPT !.healthy = b] \in Hist
                         /\ \A c \in BOOLEAN : [hist EXCEPT !.healthy = b, !.unsaved = c] \in Hist
  BY DEF Hist
<1>6. QED  BY <1>1, <1>2, <1>3, <1>4, <1>5

LEMMA FaultCount ==
    ASSUME faults \in 0..MaxFaults, NEW f, NEW v, Fails(f) \/ LinkFails(v) \/ UNCHANGED faults
    PROVE  faults' \in 0..MaxFaults
BY UpdateAssumption DEF Fails, LinkFails

LEMMA RollbackTypes ==
    ASSUME TypeOK, NEW s \in State, NEW mode, rollbackLocked(s, mode)
    PROVE  /\ st' \in State /\ hist' \in Hist /\ faults' \in 0..MaxFaults /\ current' \in Version
           /\ pc' \in {"undo", "run"}
<1>1. [Set(s, "failed") EXCEPT !.candidate = None, !.confirmed = TRUE] \in State
  BY DEF Set, State, Reported
<1>2. st' \in State /\ current' \in Version /\ pc' \in {"undo", "run"}
  BY <1>1 DEF rollbackLocked, SwitchCurrent, TypeOK
<1>3. hist' \in Hist
  BY HistSteps DEF rollbackLocked, TypeOK
<1>4. Fails("link") \/ LinkFails(s.previous) \/ UNCHANGED faults
  BY DEF rollbackLocked
<1>5. QED  BY <1>2, <1>3, <1>4, FaultCount DEF TypeOK

LEMMA TypeStep == IInv /\ [Next]_vars => TypeOK'
<1>1. SUFFICES ASSUME TypeOK, Sound, [Next]_vars
               PROVE  TypeOK'
  BY DEF IInv
<1> USE Records, Versions
<1>2. CASE Boot
  <2>1. status' \in Status
    BY <1>1, <1>2 DEF Boot, TypeOK, Status
  <2>2. ap' \in Status
    <3>1. status.cand \in Candidate /\ status.handled \in Nat
      BY <1>1 DEF TypeOK, Status
    <3>2. QED  BY <1>2, <3>1 DEF Boot, Status
  <2>3. proc' \in Process
    BY <1>1, <1>2 DEF Boot, TypeOK, Process
  <2>4. QED  BY <1>1, <1>2, <2>1, <2>2, <2>3 DEF Boot, TypeOK, timeVars
<1>3. CASE ForgetCandidate
  <2>1. ap' \in Status
    BY <1>1, <1>3 DEF ForgetCandidate, TypeOK, Status
  <2>2. QED  BY <1>1, <1>3, <2>1 DEF ForgetCandidate, TypeOK, applyVars, timeVars
<1>4. CASE AcceptCandidate
  <2>1. ap' \in Status
    BY <1>1, <1>4 DEF AcceptCandidate, TypeOK, Status
  <2>2. QED  BY <1>1, <1>4, <2>1 DEF AcceptCandidate, TypeOK, applyVars, timeVars
<1>5. CASE CountStart
  <2>1. ap.cand \in Candidate /\ ap \in Status /\ ap.cand.attempts \in 0..MaxStartAttempts
    BY <1>1 DEF TypeOK, Status, Candidate
  <2>2. Attempts \in 0..MaxStartAttempts
    BY <1>5, <2>1, UpdateAssumption DEF CountStart, RollbackDue, Attempts
  <2>3. [ap.cand EXCEPT !.attempts = Attempts] \in Candidate
    BY <2>1, <2>2 DEF Candidate
  <2>4. ap' = [ap EXCEPT !.cand = [ap.cand EXCEPT !.attempts = Attempts]]
    BY <1>5 DEF CountStart
  <2>5. ap' \in Status
    BY <2>1, <2>3, <2>4 DEF Status
  <2>6. QED  BY <1>1, <1>5, <2>5 DEF CountStart, TypeOK, applyVars, timeVars
<1>6. CASE RollBack
  <2>1. ap.cand \in Candidate /\ ap.cand.version \in Version \cup {None} /\ ap.cand.previous \in Version \cup {None}
    BY <1>1 DEF TypeOK, Status, Candidate
  <2>2. ap' \in Status
    BY <1>1, <1>6, <2>1 DEF RollBack, TypeOK, Status, Result
  <2>3. hist' \in Hist
    BY <1>1, <1>6, HistSteps DEF RollBack, TypeOK
  <2>4. faults' \in 0..MaxFaults
    BY <1>1, <1>6, FaultCount DEF RollBack, TypeOK
  <2>5. current' \in Version
    BY <1>1, <1>6 DEF RollBack, SwitchCurrent, TypeOK
  <2>6. QED  BY <1>1, <1>6, <2>2, <2>3, <2>4, <2>5 DEF RollBack, TypeOK, applyVars, timeVars
<1>7. CASE NothingStaged
  BY <1>1, <1>7 DEF NothingStaged, TypeOK, applyVars, timeVars
<1>8. CASE RejectStaged
  <2>1. Reject(ap) \in Status
    BY <1>1 DEF Reject, TypeOK, Status, Result, State, Process
  <2>2. QED  BY <1>1, <1>8, <2>1 DEF RejectStaged, TypeOK, applyVars, timeVars
<1>9. CASE InstallStaged
  <2>1. st.staged \in Version /\ st.stagedAt \in Nat
    BY <1>1, <1>9 DEF InstallStaged, Staged, TypeOK, State
  <2>2. ap' \in Status
    BY <1>1, <1>9, <2>1 DEF InstallStaged, TypeOK, Status
  <2>3. QED  BY <1>1, <1>9, <2>1, <2>2 DEF InstallStaged, TypeOK, applyVars, timeVars
<1>10. CASE RecordCandidate
  <2> DEFINE c == [version |-> st.staged, previous |-> current, at |-> clock + 1,
                   attempts |-> IF layout = "native" THEN 0 ELSE 1]
  <2>1. c \in Candidate
    BY <1>1, UpdateAssumption DEF TypeOK, State, Candidate
  <2>2. ap' = [ap EXCEPT !.cand = c, !.cur = current] /\ status' = ap'
    BY <1>10 DEF RecordCandidate
  <2> HIDE DEF c
  <2>3. ap' \in Status
    BY <1>1, <2>1, <2>2 DEF TypeOK, Status
  <2>4. clock' \in Nat /\ overdue' \in 0..clock'
    BY <1>1, <1>10 DEF RecordCandidate, TypeOK
  <2>5. QED  BY <1>1, <1>10, <2>2, <2>3, <2>4 DEF RecordCandidate, TypeOK
<1>11. CASE SwitchStaged
  <2>1. Reject(ap) \in Status /\ proc.ver \in Version \cup {None}
    BY <1>1 DEF Reject, TypeOK, Status, Result, State, Process
  <2>2. ap.cand \in Candidate /\ ap.cand.version \in Version \cup {None}
    BY <1>1 DEF TypeOK, Status, Candidate
  <2>3. [Reject(ap) EXCEPT !.cand = NoCandidate] \in Status
    BY <2>1 DEF Status
  <2>4. [ap EXCEPT !.result = "switched", !.from = proc.ver, !.to = ap.cand.version] \in Status
    BY <1>1, <2>1, <2>2 DEF TypeOK, Status, Result
  <2>5. ap' \in Status
    BY <1>11, <2>3, <2>4 DEF SwitchStaged
  <2>6. hist' \in Hist
    BY <1>1, <1>11, HistSteps DEF SwitchStaged, TypeOK
  <2>7. faults' \in 0..MaxFaults
    BY <1>1, <1>11, FaultCount DEF SwitchStaged, TypeOK
  <2>8. current' \in Version
    BY <1>1, <1>11 DEF SwitchStaged, SwitchCurrent, TypeOK
  <2>9. QED  BY <1>1, <1>11, <2>5, <2>6, <2>7, <2>8 DEF SwitchStaged, TypeOK, applyVars, timeVars
<1>12. CASE SaveStatus
  <2>1. Carry(ap) \in Status
    BY <1>1, CarryKeeps DEF TypeOK
  <2>2. status' \in Status
    BY <1>1, <1>12, <2>1 DEF SaveStatus, TypeOK, Status
  <2>3. unit' \in BOOLEAN
    BY <1>12 DEF SaveStatus
  <2>4. QED  BY <1>1, <1>12, <2>2, <2>3 DEF SaveStatus, TypeOK, timeVars
<1>13. CASE ApplyDies
  <2>1. hist' \in Hist
    BY <1>1, <1>13, HistSteps DEF ApplyDies, TypeOK
  <2>2. faults' \in 0..MaxFaults
    BY <1>1, <1>13, FaultCount DEF ApplyDies, TypeOK
  <2>3. QED  BY <1>1, <1>13, <2>1, <2>2 DEF ApplyDies, TypeOK, diskVars, timeVars
<1>14. CASE StartStaged
  <2>1. Binary \in Version \cup {None} /\ Mode \in {"staged", "legacy", "none"}
    BY <1>1 DEF Binary, Mode, TypeOK, Process
  <2>2. st' \in State
    BY <1>1, <1>14, startupSettles DEF StartStaged, TypeOK, Settles
  <2>3. proc' \in Process
    BY <1>14, <2>1 DEF StartStaged, Started, Process, pendingCandidate
  <2>4. hist' \in Hist
    BY <1>1, <1>14, HistSteps DEF StartStaged, TypeOK
  <2>5. QED  BY <1>1, <1>14, <2>2, <2>3, <2>4 DEF StartStaged, TypeOK, startVars, timeVars
<1>15. CASE StartLegacy
  <2>1. Binary \in Version \cup {None} /\ Mode \in {"staged", "legacy", "none"}
    BY <1>1 DEF Binary, Mode, TypeOK, Process
  <2>2. Unstaged \in State /\ Counted \in State
    BY <1>1, UnstagedSettles DEF TypeOK, Settles
  <2>3. Set(Counted, "confirming") \in State /\ [Set(Unstaged, "failed") EXCEPT !.candidate = None] \in State
    <3>1. Set(Counted, "confirming") \in State /\ Set(Unstaged, "failed") \in State
      BY <2>2, SetSettles DEF Settles, Reported
    <3>2. \A t \in State : [t EXCEPT !.candidate = None] \in State
      BY DEF State
    <3>3. QED  BY <3>1, <3>2
  <2>4. st' \in State
    BY <1>15, <2>2, <2>3 DEF StartLegacy
  <2>5. proc' \in Process
    BY <1>15, <2>1 DEF StartLegacy, Started, Process, pendingCandidate
  <2>6. hist' \in Hist
    BY <1>1, <1>15, HistSteps DEF StartLegacy, TypeOK
  <2>7. QED  BY <1>1, <1>15, <2>4, <2>5, <2>6 DEF StartLegacy, TypeOK, startVars, timeVars
<1>16. CASE RollBackAtStart
  <2>1. Binary \in Version \cup {None} /\ Mode \in {"staged", "legacy", "none"}
    BY <1>1 DEF Binary, Mode, TypeOK, Process
  <2>2. Counted \in State
    BY <1>1, UnstagedSettles DEF TypeOK, Settles
  <2>3. rollbackLocked(Counted, Mode)
    BY <1>16 DEF RollBackAtStart
  <2>4. st' \in State /\ hist' \in Hist /\ faults' \in 0..MaxFaults /\ current' \in Version
        /\ pc' \in {"undo", "run"}
    BY <1>1, <2>2, <2>3, RollbackTypes
  <2>5. proc' \in Process
    BY <1>16, <2>1 DEF RollBackAtStart, Process
  <2>6. QED  BY <1>1, <1>16, <2>4, <2>5 DEF RollBackAtStart, TypeOK, startVars, timeVars
<1>17. CASE SaveRollback
  <2>1. st' \in State
    BY <1>1, <1>17 DEF SaveRollback, Set, TypeOK, State, Reported
  <2>2. proc' \in Process
    BY <1>1, <1>17 DEF SaveRollback, TypeOK, Process
  <2>3. QED  BY <1>1, <1>17, <2>1, <2>2 DEF SaveRollback, TypeOK, startVars, timeVars
<1>18. CASE ConfirmAgain \/ Confirm
  <2>1. CASE ConfirmAgain
    <3>1. proc' \in Process
      BY <1>1, <2>1 DEF ConfirmAgain, TypeOK, Process
    <3>2. hist' \in Hist
      BY <1>1, <2>1, HistSteps DEF ConfirmAgain, TypeOK
    <3>3. QED  BY <1>1, <2>1, <3>1, <3>2 DEF ConfirmAgain, TypeOK, runVars, timeVars
  <2>2. CASE Confirm
    <3>1. proc.ver \in Version /\ st.previous \in Version /\ package \in Version \cup {None}
      BY <1>1, <2>2 DEF Confirm, Runs, pendingCandidate, Sound, TypeOK, State
    <3>2. clock' = clock + 1 /\ clock' \in Nat /\ overdue' \in 0..clock' /\ prune' \subseteq Version
      BY <1>1, <2>2, <3>1 DEF Confirm, TypeOK, Keep
    <3>3. proc' \in Process
      <4>1. proc \in Process /\ clock + 1 \in Nat
        BY <1>1 DEF TypeOK
      <4>2. \A n \in Nat : [proc EXCEPT !.settled = TRUE, !.unsaved = n] \in Process
                          /\ [proc EXCEPT !.settled = TRUE] \in Process
        BY <4>1 DEF Process
      <4>3. \/ proc' = [proc EXCEPT !.settled = TRUE]
            \/ proc' = [proc EXCEPT !.settled = TRUE, !.unsaved = clock + 1]
        BY <2>2 DEF Confirm
      <4>4. QED  BY <4>1, <4>2, <4>3
    <3>4. hist' \in Hist
      BY <1>1, <2>2, HistSteps DEF Confirm, TypeOK
    <3>5. st' \in State
      <4>1. st \in State /\ clock + 1 \in Nat
        BY <1>1 DEF TypeOK
      <4>2. Stamp(st, proc.ver, clock + 1) \in State
        BY <3>1, <4>1, StampTypes DEF Stamps
      <4>3. QED  BY <2>2, <4>1, <4>2 DEF Confirm
    <3>6. faults' \in 0..MaxFaults
      BY <1>1, <2>2, FaultCount DEF Confirm, TypeOK
    <3>7. QED  BY <1>1, <2>2, <3>2, <3>3, <3>4, <3>5, <3>6 DEF Confirm, TypeOK, runVars
  <2>3. QED  BY <1>18, <2>1, <2>2
<1>19. CASE Prune
  BY <1>1, <1>19 DEF Prune, TypeOK, runVars, timeVars
<1>20. CASE WatchdogStaged
  <2>1. st' \in State
    BY <1>1, <1>20 DEF WatchdogStaged, Set, TypeOK, State, Reported, Process
  <2>2. proc' \in Process
    BY <1>1, <1>20 DEF WatchdogStaged, TypeOK, Process
  <2>3. QED  BY <1>1, <1>20, <2>1, <2>2 DEF WatchdogStaged, TypeOK, runVars, timeVars
<1>21. CASE WatchdogLegacy
  <2>1. rollbackLocked(st, proc.mode) /\ st \in State
    BY <1>1, <1>21 DEF WatchdogLegacy, TypeOK
  <2>2. st' \in State /\ hist' \in Hist /\ faults' \in 0..MaxFaults /\ current' \in Version
        /\ pc' \in {"undo", "run"}
    BY <1>1, <2>1, RollbackTypes
  <2>3. proc' \in Process
    BY <1>1, <1>21 DEF WatchdogLegacy, TypeOK, Process
  <2>4. QED  BY <1>1, <1>21, <2>2, <2>3 DEF WatchdogLegacy, TypeOK, runVars, timeVars
<1>22. CASE \E ins \in Instruction : Handle(ins)
  <2>1. PICK ins \in Instruction : Handle(ins)
    BY <1>22
  <2>2. Memory \in State
    BY <1>1, <2>1, MemoryTypes DEF Handle, Sound, TypeOK, Process
  <2>3. st' \in State
    BY <2>1, <2>2 DEF Handle, Set, State, Reported
  <2>4. proc' \in Process
    BY <1>1, <2>1 DEF Handle, TypeOK, Process
  <2>5. hist' \in Hist
    BY <1>1, <2>1 DEF Handle, TypeOK, Hist
  <2>6. QED  BY <1>1, <2>1, <2>3, <2>4, <2>5 DEF Handle, TypeOK, runVars, timeVars
<1>23. CASE StageFails
  <2>1. NotStaged(st) \in State
    BY <1>1, SetSettles DEF NotStaged, TypeOK, Settles, Reported
  <2>2. proc' \in Process
    BY <1>1, <1>23 DEF StageFails, TypeOK, Process
  <2>3. QED  BY <1>1, <1>23, <2>1, <2>2 DEF StageFails, TypeOK, runVars, timeVars
<1>24. CASE StagePlaces
  <2>1. proc.ins.target \in Version
    BY <1>1, <1>24 DEF StagePlaces, Sound
  <2>2. proc' \in Process
    BY <1>1, <1>24 DEF StagePlaces, TypeOK, Process
  <2>3. QED  BY <1>1, <1>24, <2>1, <2>2 DEF StagePlaces, TypeOK, runVars, timeVars
<1>25. CASE StageRecords
  <2> DEFINE s == [st EXCEPT !.previous = proc.ver, !.candidate = proc.ins.target, !.attempts = 0,
                             !.stagedAt = clock + 1, !.confirmed = FALSE]
  <2>1. proc.ins.target \in Version /\ proc.ver \in Version /\ stagings < MaxStagings
    BY <1>1, <1>25 DEF StageRecords, Runs, Sound
  <2>2. s \in State
    <3>1. st \in State /\ clock + 1 \in Nat
      BY <1>1 DEF TypeOK
    <3>2. \A v, w \in Version, n \in Nat :
            [st EXCEPT !.previous = v, !.candidate = w, !.attempts = 0, !.stagedAt = n,
                       !.confirmed = FALSE] \in State
      BY <3>1 DEF State
    <3>3. QED  BY <2>1, <3>1, <3>2
  <2>3. \/ st' = [Set(s, "restarting") EXCEPT !.staged = proc.ins.target, !.rollback = None]
        \/ st' = Set(s, "staged")
    BY <1>25 DEF StageRecords
  <2> HIDE DEF s
  <2>4. st' \in State
    BY <2>1, <2>2, <2>3 DEF Set, State, Reported
  <2>5. proc' \in Process
    <3>1. \/ proc' = [proc EXCEPT !.h = "done", !.restarting = TRUE]
          \/ proc' = [proc EXCEPT !.h = "staged"]
      BY <1>25 DEF StageRecords
    <3>2. QED  BY <1>1, <3>1 DEF TypeOK, Process
  <2>6. clock' \in Nat /\ overdue' \in 0..clock' /\ stagings' \in 0..MaxStagings
    BY <1>1, <1>25, <2>1, UpdateAssumption DEF StageRecords, TypeOK
  <2>7. pc' \in {pc, "exit"}
    BY <1>25 DEF StageRecords
  <2>8. QED  BY <1>1, <1>25, <2>4, <2>5, <2>6, <2>7 DEF StageRecords, TypeOK, runVars
<1>26. CASE StageSwitches
  <2>1. [st EXCEPT !.candidate = None] \in State
    BY <1>1 DEF TypeOK, State
  <2>2. NotStaged([st EXCEPT !.candidate = None]) \in State
    BY <2>1, SetSettles DEF NotStaged, Settles, Reported
  <2>3. st' \in State
    BY <1>1, <1>26, <2>2 DEF StageSwitches, TypeOK
  <2>4. proc' \in Process
    BY <1>1, <1>26 DEF StageSwitches, TypeOK, Process
  <2>5. hist' \in Hist
    BY <1>1, <1>26, HistSteps DEF StageSwitches, TypeOK
  <2>6. faults' \in 0..MaxFaults
    BY <1>1, <1>26, FaultCount DEF StageSwitches, TypeOK
  <2>7. current' \in Version
    BY <1>1, <1>26 DEF StageSwitches, SwitchCurrent, TypeOK
  <2>8. QED  BY <1>1, <1>26, <2>3, <2>4, <2>5, <2>6, <2>7 DEF StageSwitches, TypeOK, runVars, timeVars
<1>27. CASE StageDone
  <2>1. st' \in State
    BY <1>1, <1>27, SetSettles DEF StageDone, TypeOK, Settles, Reported
  <2>2. proc' \in Process
    BY <1>1, <1>27 DEF StageDone, TypeOK, Process
  <2>3. QED  BY <1>1, <1>27, <2>1, <2>2 DEF StageDone, TypeOK, runVars, timeVars
<1>28. CASE Exit
  BY <1>1, <1>28 DEF Exit, Ends, TypeOK, diskVars, timeVars
<1>29. CASE Fall
  BY <1>1, <1>29 DEF Fall, Ends, TypeOK, diskVars, timeVars
<1>30. CASE Crash
  <2>1. hist' \in Hist
    BY <1>1, <1>30 DEF Crash, TypeOK, Hist
  <2>2. faults' \in 0..MaxFaults
    BY <1>1, <1>30, FaultCount DEF Crash, TypeOK
  <2>3. QED  BY <1>1, <1>30, <2>1, <2>2 DEF Crash, Ends, TypeOK, diskVars, timeVars
<1>31. CASE Cancel
  <2>1. faults' \in 0..MaxFaults
    BY <1>1, <1>31, FaultCount DEF Cancel, TypeOK
  <2>2. QED  BY <1>1, <1>31, <2>1 DEF Cancel, TypeOK, diskVars, timeVars
<1>32. CASE \E v \in Version : PackageInstalls(v)
  <2>1. PICK v \in Version : PackageInstalls(v)
    BY <1>32
  <2>2. faults' \in 0..MaxFaults
    BY <1>1, <2>1, FaultCount DEF PackageInstalls, TypeOK
  <2>3. current' \in Version /\ installed' \subseteq Version /\ package' \in Version \cup {None}
    BY <1>1, <2>1 DEF PackageInstalls, TypeOK
  <2>4. hist' \in Hist
    <3> DEFINE t == hist.torn \/ v = status.cand.version
               g == hist.healthy /\ current' = current
               b == IF current' = current THEN hist.before ELSE None
    <3>1. hist \in Hist
      BY <1>1 DEF TypeOK
    <3>2. t \in BOOLEAN /\ g \in BOOLEAN
      BY ZenonT(20)
    <3>3. b \in Version \cup {None}
      BY <3>1 DEF Hist
    <3>4. hist' = [hist EXCEPT !.packaged = TRUE, !.torn = t, !.healthy = g, !.before = b]
      BY <2>1 DEF PackageInstalls
    <3> HIDE DEF t, g, b
    <3>5. QED  BY <3>1, <3>2, <3>3, <3>4 DEF Hist
  <2>5. pc' \in {"down", "run", "exit"}
    BY <2>1 DEF PackageInstalls
  <2>6. QED  BY <1>1, <2>1, <2>2, <2>3, <2>4, <2>5 DEF PackageInstalls, TypeOK, timeVars
<1>33. CASE TimePasses
  BY <1>1, <1>33 DEF TimePasses, TypeOK, diskVars
<1>34. CASE UNCHANGED vars
  BY <1>1, <1>34 DEF vars, TypeOK, diskVars, timeVars
<1>35. QED
  BY <1>1, <1>2, <1>3, <1>4, <1>5, <1>6, <1>7, <1>8, <1>9, <1>10, <1>11, <1>12, <1>13, <1>14,
     <1>15, <1>16, <1>17, <1>18, <1>19, <1>20, <1>21, <1>22, <1>23, <1>24, <1>25, <1>26, <1>27,
     <1>28, <1>29, <1>30, <1>31, <1>32, <1>33, <1>34 DEF Next

-----------------------------------------------------------------------------
(* What the steps do, field by field. *)

(* The excuses of the properties stay; that the link was switched too early may be added. *)
SameExcuses(h) ==
    /\ h.torn = hist.torn /\ h.stuck = hist.stuck /\ h.packaged = hist.packaged
    /\ hist.late = TRUE => h.late = TRUE

LEMMA HistFields ==
    ASSUME hist \in Hist
    PROVE  /\ /\ SameExcuses(Switched(hist))
              /\ Switched(hist).healthy = FALSE /\ Switched(hist).runs = 0
              /\ Switched(hist).before = current /\ Switched(hist).refused = hist.refused
              /\ Switched(hist).unsaved = FALSE
              /\ prune # {} => Switched(hist).late = TRUE
           /\ /\ SameExcuses(RolledBack(hist))
              /\ RolledBack(hist).healthy = FALSE /\ RolledBack(hist).runs = 0
              /\ RolledBack(hist).before = None
              /\ RolledBack(hist).refused = hist.refused \cup {st.ins}
              /\ RolledBack(hist).unsaved = FALSE
              /\ prune # {} => RolledBack(hist).late = TRUE
           /\ LET h == [hist EXCEPT !.stuck = TRUE] IN
              /\ h.torn = hist.torn /\ h.packaged = hist.packaged /\ h.late = hist.late
              /\ h.stuck = TRUE /\ h.unsaved = hist.unsaved
              /\ h.healthy = hist.healthy /\ h.runs = hist.runs
              /\ h.before = hist.before /\ h.refused = hist.refused
<1> DEFINE h == Relinked(hist)
<1>1. /\ DOMAIN h = DOMAIN hist /\ SameExcuses(h) /\ h.healthy = FALSE /\ h.runs = 0
      /\ h.refused = hist.refused /\ h.unsaved = FALSE /\ (prune # {} => h.late = TRUE)
      /\ h \in Hist
  BY DEF Relinked, Hist, SameExcuses
<1>2. /\ Switched(hist) = [h EXCEPT !.before = current]
      /\ RolledBack(hist) = [h EXCEPT !.before = None, !.refused = h.refused \cup {st.ins}]
  BY DEF Switched, RolledBack
<1> HIDE DEF h
<1>3. /\ SameExcuses(Switched(hist))
      /\ Switched(hist).healthy = FALSE /\ Switched(hist).runs = 0
      /\ Switched(hist).before = current /\ Switched(hist).refused = hist.refused
      /\ Switched(hist).unsaved = FALSE
      /\ prune # {} => Switched(hist).late = TRUE
  BY <1>1, <1>2 DEF Hist, SameExcuses
<1>4. /\ SameExcuses(RolledBack(hist))
      /\ RolledBack(hist).healthy = FALSE /\ RolledBack(hist).runs = 0
      /\ RolledBack(hist).before = None
      /\ RolledBack(hist).refused = hist.refused \cup {st.ins}
      /\ RolledBack(hist).unsaved = FALSE
      /\ prune # {} => RolledBack(hist).late = TRUE
  BY <1>1, <1>2 DEF Hist, SameExcuses
<1>5. QED  BY <1>3, <1>4 DEF Hist

(* What another run of an unproved version changes. *)
RanFields(h) ==
    /\ SameExcuses(h)
    /\ h.healthy = hist.healthy /\ h.before = hist.before /\ h.refused = hist.refused
    /\ h.unsaved = hist.unsaved
    /\ h.runs = IF hist.before # None /\ ~(hist.healthy \/ hist.stuck \/ hist.torn)
                THEN hist.runs + 1 ELSE hist.runs

LEMMA RanChanges == ASSUME hist \in Hist PROVE RanFields(Ran(hist))
BY DEF Hist, Ran, RanFields, SameExcuses

(* What "-apply" leaves alone. *)
agentVars == <<layout, package, st, updates, prune, stagings>>

BootDoes ==
    /\ pc = "down" /\ pc' = IF layout = "legacy" THEN "start" ELSE "check"
    /\ status'.mine = FALSE /\ status'.cand = status.cand /\ status'.handled = status.handled
    /\ status'.result = status.result /\ status'.from = status.from /\ status'.to = status.to
    /\ status'.cur = status.cur /\ status'.carried = status.carried
    /\ ap'.mine = TRUE /\ ap'.cand = status.cand /\ ap'.handled = status.handled
    /\ ap'.result = "none" /\ ap'.from = None /\ ap'.to = None /\ ap'.carried = FALSE
    /\ proc'.ver = current /\ proc'.h = "idle" /\ proc'.settled = FALSE /\ proc'.restarting = FALSE
    /\ proc'.unsaved = 0 /\ proc'.mode = "unset"
    /\ UNCHANGED <<agentVars, installed, current, unit, clock, overdue, faults, hist>>

LEMMA BootEffect == TypeOK /\ Boot => BootDoes
<1>1. SUFFICES ASSUME TypeOK, Boot
               PROVE  BootDoes
  OBVIOUS
<1>2. status \in Status
  BY <1>1 DEF TypeOK
<1>3. /\ status'.mine = FALSE /\ status'.cand = status.cand /\ status'.handled = status.handled
      /\ status'.result = status.result /\ status'.from = status.from /\ status'.to = status.to
      /\ status'.cur = status.cur /\ status'.carried = status.carried
  BY <1>1, <1>2 DEF Boot, Status
<1>4. /\ ap'.mine = TRUE /\ ap'.cand = status.cand /\ ap'.handled = status.handled
      /\ ap'.result = "none" /\ ap'.from = None /\ ap'.to = None /\ ap'.carried = FALSE
  BY <1>1 DEF Boot, NoStatus
<1>5. /\ proc'.ver = current /\ proc'.h = "idle" /\ proc'.settled = FALSE /\ proc'.restarting = FALSE
      /\ proc'.unsaved = 0 /\ proc'.mode = "unset"
  BY <1>1 DEF Boot, NoProcess
<1>6. QED  BY <1>1, <1>3, <1>4, <1>5 DEF Boot, BootDoes, agentVars, timeVars

(* checkCandidate lets the candidate go. *)
LetGoDoes ==
    /\ pc = "check" /\ pc' = "install"
    /\ ap'.cand = NoCandidate /\ ap'.mine = ap.mine /\ ap'.handled = ap.handled
    /\ ap'.result = ap.result /\ ap'.from = ap.from /\ ap'.to = ap.to /\ ap'.carried = ap.carried
    /\ \/ ap.cand.version # current /\ UNCHANGED installed
       \/ /\ ap.cand.version = current /\ Confirmed(ap.cand)
          /\ installed' = installed \cap Keep(ap.cand.version, ap.cand.previous)
    /\ UNCHANGED <<agentVars, current, status, unit, proc, clock, overdue, faults, hist>>

LEMMA LetGoEffect == TypeOK /\ (ForgetCandidate \/ AcceptCandidate) => LetGoDoes
BY DEF TypeOK, ForgetCandidate, AcceptCandidate, LetGoDoes, agentVars, applyVars, timeVars, Status

CountStartDoes ==
    /\ pc = "check" /\ pc' = "save"
    /\ ap.cand.version = current /\ ~Confirmed(ap.cand) /\ ~RollbackDue(ap.cand)
    /\ ap'.cand.version = ap.cand.version /\ ap'.cand.previous = ap.cand.previous
    /\ ap'.cand.at = ap.cand.at /\ ap'.cand.attempts = Attempts
    /\ ap'.mine = ap.mine /\ ap'.handled = ap.handled
    /\ ap'.result = ap.result /\ ap'.from = ap.from /\ ap'.to = ap.to /\ ap'.carried = ap.carried
    /\ UNCHANGED <<agentVars, installed, current, status, unit, proc, clock, overdue, faults, hist>>

LEMMA CountStartEffect == TypeOK /\ CountStart => CountStartDoes
<1>1. SUFFICES ASSUME TypeOK, CountStart
               PROVE  CountStartDoes
  OBVIOUS
<1>2. ap \in Status /\ ap.cand \in Candidate
  BY <1>1 DEF TypeOK, Status
<1>3. ap' = [ap EXCEPT !.cand = [ap.cand EXCEPT !.attempts = Attempts]]
  BY <1>1 DEF CountStart
<1>4. /\ ap'.cand = [ap.cand EXCEPT !.attempts = Attempts]
      /\ ap'.mine = ap.mine /\ ap'.handled = ap.handled
      /\ ap'.result = ap.result /\ ap'.from = ap.from /\ ap'.to = ap.to /\ ap'.carried = ap.carried
  BY <1>2, <1>3 DEF Status
<1>5. /\ ap'.cand.version = ap.cand.version /\ ap'.cand.previous = ap.cand.previous
      /\ ap'.cand.at = ap.cand.at /\ ap'.cand.attempts = Attempts
  BY <1>2, <1>4 DEF Candidate
<1>6. QED  BY <1>1, <1>4, <1>5 DEF CountStart, CountStartDoes, agentVars, applyVars, timeVars

RollBackDoes ==
    /\ pc = "check" /\ ap.cand.version = current /\ ~Confirmed(ap.cand)
    /\ ap'.cand = NoCandidate /\ ap'.mine = ap.mine /\ ap'.handled = ap.handled
    /\ ap'.from = ap.cand.version /\ ap'.to = ap.cand.previous /\ ap'.carried = ap.carried
    /\ \/ /\ current' = ap.cand.previous /\ current' \in installed
          /\ ap'.result = "rolled_back" /\ pc' = "save" /\ hist' = RolledBack(hist)
       \/ /\ UNCHANGED current
          /\ ap'.result = "rollback_failed" /\ pc' = "install" /\ hist' = [hist EXCEPT !.stuck = TRUE]
    /\ UNCHANGED <<agentVars, installed, status, unit, proc, clock, overdue>>

LEMMA RollBackEffect == TypeOK /\ RollBack => RollBackDoes
<1>1. SUFFICES ASSUME TypeOK, RollBack
               PROVE  RollBackDoes
  OBVIOUS
<1>2. /\ ap'.cand = NoCandidate /\ ap'.mine = ap.mine /\ ap'.handled = ap.handled
      /\ ap'.from = ap.cand.version /\ ap'.to = ap.cand.previous /\ ap'.carried = ap.carried
  BY <1>1 DEF TypeOK, RollBack, Status
<1>3. \/ /\ current' = ap.cand.previous /\ current' \in installed
         /\ ap'.result = "rolled_back" /\ pc' = "save" /\ hist' = RolledBack(hist)
      \/ /\ UNCHANGED current
         /\ ap'.result = "rollback_failed" /\ pc' = "install" /\ hist' = [hist EXCEPT !.stuck = TRUE]
  BY <1>1 DEF TypeOK, RollBack, SwitchCurrent, Status
<1>4. QED  BY <1>1, <1>2, <1>3 DEF RollBack, RollBackDoes, agentVars, applyVars, timeVars

(* Nothing is staged, or it is refused. *)
LeaveDoes ==
    /\ pc = "install" /\ pc' = "save"
    /\ ap'.cand = ap.cand /\ ap'.mine = ap.mine /\ ap'.carried = ap.carried
    /\ \/ ~Staged /\ ap' = ap
       \/ /\ Staged
          /\ ap'.handled = st.stagedAt /\ ap'.result = "rejected"
          /\ ap'.from = proc.ver /\ ap'.to = st.staged
    /\ UNCHANGED <<agentVars, installed, current, status, unit, proc, clock, overdue, faults, hist>>

LEMMA LeaveEffect == TypeOK /\ (NothingStaged \/ RejectStaged) => LeaveDoes
BY DEF TypeOK, NothingStaged, RejectStaged, Reject, LeaveDoes, agentVars, applyVars, timeVars, Status

InstallDoes ==
    /\ pc = "install" /\ pc' = "record"
    /\ Staged /\ updates = st.staged /\ Verified(st.ins, proc.ver) /\ st.staged # current
    /\ installed' = installed \cup {st.staged}
    /\ ap'.handled = st.stagedAt /\ ap'.cand = ap.cand /\ ap'.mine = ap.mine
    /\ ap'.result = ap.result /\ ap'.from = ap.from /\ ap'.to = ap.to /\ ap'.carried = ap.carried
    /\ UNCHANGED <<agentVars, current, status, unit, proc, clock, overdue, faults, hist>>

LEMMA InstallEffect == TypeOK /\ InstallStaged => InstallDoes
BY DEF TypeOK, InstallStaged, InstallDoes, agentVars, applyVars, timeVars, Status

RecordDoes ==
    /\ pc = "record" /\ pc' = "switch"
    /\ ap'.cand.version = st.staged /\ ap'.cand.previous = current /\ ap'.cand.at = clock + 1
    /\ ap'.cand.attempts = IF layout = "native" THEN 0 ELSE 1
    /\ ap'.handled = ap.handled /\ ap'.mine = ap.mine /\ ap'.cur = current
    /\ ap'.result = ap.result /\ ap'.from = ap.from /\ ap'.to = ap.to /\ ap'.carried = ap.carried
    /\ status' = ap' /\ unit' = FALSE /\ clock' = clock + 1
    /\ UNCHANGED <<agentVars, installed, current, proc, overdue, faults, hist>>

LEMMA RecordEffect == TypeOK /\ RecordCandidate => RecordDoes
<1>1. SUFFICES ASSUME TypeOK, RecordCandidate
               PROVE  RecordDoes
  OBVIOUS
<1> DEFINE c == [version |-> st.staged, previous |-> current, at |-> clock + 1,
                 attempts |-> IF layout = "native" THEN 0 ELSE 1]
<1>2. ap' = [ap EXCEPT !.cand = c, !.cur = current] /\ ap \in Status
  BY <1>1 DEF RecordCandidate, TypeOK
<1>3. /\ c.version = st.staged /\ c.previous = current /\ c.at = clock + 1
      /\ c.attempts = IF layout = "native" THEN 0 ELSE 1
  OBVIOUS
<1> HIDE DEF c
<1>4. /\ ap'.cand = c /\ ap'.handled = ap.handled /\ ap'.mine = ap.mine /\ ap'.cur = current
      /\ ap'.result = ap.result /\ ap'.from = ap.from /\ ap'.to = ap.to /\ ap'.carried = ap.carried
  BY <1>2 DEF Status
<1>5. QED  BY <1>1, <1>3, <1>4 DEF RecordCandidate, RecordDoes, agentVars

SwitchDoes ==
    /\ pc = "switch" /\ pc' = "save"
    /\ ap'.mine = ap.mine /\ ap'.carried = ap.carried /\ ap'.cur = ap.cur
    /\ \/ /\ current' = ap.cand.version /\ current' \in installed
          /\ ap'.result = "switched" /\ ap'.from = proc.ver /\ ap'.to = ap.cand.version
          /\ ap'.cand = ap.cand /\ ap'.handled = ap.handled
          /\ hist' = Switched(hist)
       \/ /\ UNCHANGED <<current, hist>>
          /\ ap'.result = "rejected" /\ ap'.from = proc.ver /\ ap'.to = st.staged
          /\ ap'.cand = NoCandidate /\ ap'.handled = st.stagedAt
    /\ UNCHANGED <<agentVars, installed, status, unit, proc, clock, overdue>>

LEMMA SwitchEffect == TypeOK /\ SwitchStaged => SwitchDoes
<1>1. SUFFICES ASSUME TypeOK, SwitchStaged
               PROVE  SwitchDoes
  OBVIOUS
<1>2. ap \in Status
  BY <1>1 DEF TypeOK
<1>3. CASE SwitchCurrent(ap.cand.version) /\ hist' = Switched(hist)
           /\ ap' = [ap EXCEPT !.result = "switched", !.from = proc.ver, !.to = ap.cand.version]
  BY <1>1, <1>2, <1>3 DEF SwitchStaged, SwitchCurrent, SwitchDoes, agentVars, applyVars, timeVars, Status
<1>4. CASE UNCHANGED <<current, hist>> /\ ap' = [Reject(ap) EXCEPT !.cand = NoCandidate]
  <2>1. /\ ap'.mine = ap.mine /\ ap'.carried = ap.carried /\ ap'.cur = ap.cur
        /\ ap'.result = "rejected" /\ ap'.from = proc.ver /\ ap'.to = st.staged
        /\ ap'.cand = NoCandidate /\ ap'.handled = st.stagedAt
    BY <1>2, <1>4 DEF Reject, Status
  <2>2. QED  BY <1>1, <1>4, <2>1 DEF SwitchStaged, SwitchDoes, agentVars, applyVars, timeVars
<1>5. QED  BY <1>1, <1>3, <1>4 DEF SwitchStaged

(* The result of the last start is carried over. *)
Carries ==
    /\ layout = "native" /\ ap.result = "none" /\ status.carried = FALSE /\ status.cur = current
    /\ status.result \in {"switched", "rolled_back", "rollback_failed"}

SaveDoes ==
    /\ pc = "save"
    /\ pc' = IF layout = "native" /\ ap.result \in {"switched", "rolled_back"} THEN "down" ELSE "start"
    /\ status'.cand = ap.cand /\ status'.mine = ap.mine /\ status'.handled = ap.handled
    /\ status'.cur = current
    /\ Carries => /\ status'.result = status.result /\ status'.from = status.from
                  /\ status'.to = status.to /\ status'.carried = TRUE
    /\ ~Carries => /\ status'.result = ap.result /\ status'.from = ap.from
                   /\ status'.to = ap.to /\ status'.carried = ap.carried
    /\ unit' \in BOOLEAN /\ (unit' = TRUE => layout = "staged" /\ current # proc.ver)
    /\ UNCHANGED <<agentVars, installed, current, ap, proc, clock, overdue, faults, hist>>

LEMMA SaveEffect == TypeOK /\ SaveStatus => SaveDoes
<1>1. SUFFICES ASSUME TypeOK, SaveStatus
               PROVE  SaveDoes
  OBVIOUS
<1>2. ap \in Status /\ status \in Status /\ status.carried \in BOOLEAN
  BY <1>1 DEF TypeOK, Status
<1>3. Carry(ap) = IF Carries THEN [ap EXCEPT !.result = status.result, !.from = status.from,
                                             !.to = status.to, !.carried = TRUE]
                  ELSE ap
  BY <1>2 DEF Carry, Carries
<1>4. status' = [Carry(ap) EXCEPT !.cur = current]
  BY <1>1 DEF SaveStatus
<1>5. CASE Carries
  <2>1. Carry(ap) = [ap EXCEPT !.result = status.result, !.from = status.from, !.to = status.to,
                               !.carried = TRUE]
    BY <1>3, <1>5
  <2>2. /\ status'.cand = ap.cand /\ status'.mine = ap.mine /\ status'.handled = ap.handled
        /\ status'.cur = current
        /\ status'.result = status.result /\ status'.from = status.from
        /\ status'.to = status.to /\ status'.carried = TRUE
    BY <1>2, <1>4, <2>1 DEF Status
  <2>3. QED  BY <1>1, <1>5, <2>2 DEF SaveStatus, SaveDoes, agentVars, timeVars
<1>6. CASE ~Carries
  <2>1. status' = [ap EXCEPT !.cur = current]
    BY <1>3, <1>4, <1>6
  <2>2. /\ status'.cand = ap.cand /\ status'.mine = ap.mine /\ status'.handled = ap.handled
        /\ status'.cur = current
        /\ status'.result = ap.result /\ status'.from = ap.from
        /\ status'.to = ap.to /\ status'.carried = ap.carried
    BY <1>2, <2>1 DEF Status
  <2>3. QED  BY <1>1, <1>6, <2>2 DEF SaveStatus, SaveDoes, agentVars, timeVars
<1>7. QED  BY <1>5, <1>6

(* What a starting or running agent leaves alone. *)
rootVars == <<layout, package, status, unit, ap>>

(* What Startup in staged mode makes of the state file, by the cases of startupStagedLocked. *)
StartedFrom(s, t, v) ==
    LET ofIts == s.candidate # None /\ status.from = s.candidate IN
    \/ /\ status.result = "rolled_back" /\ ofIts
       /\ t.status = "rolled_back" /\ t.candidate = None /\ t.staged = None
       /\ t.confirmed = s.confirmed
    \/ /\ status.result = "rollback_failed" /\ ofIts
       /\ t.status = "failed" /\ t.candidate = None /\ t.staged = s.staged
       /\ t.confirmed = TRUE
    \/ /\ status.result = "rejected" /\ s.staged # None /\ status.to = s.staged
       /\ t.status = "failed" /\ t.candidate = None /\ t.staged = None
       /\ t.confirmed = s.confirmed
    \/ /\ status.result = "switched" /\ status.to = v /\ s.staged = v
       /\ t.status = "confirming" /\ t.candidate = s.candidate /\ t.staged = None
       /\ t.confirmed = s.confirmed
    \/ /\ ~(status.result \in {"rolled_back", "rollback_failed"} /\ ofIts)
       /\ ~(status.result = "switched" /\ status.to = v /\ s.staged = v)
       /\ s.staged # None
       /\ t.status = "failed" /\ t.candidate = None /\ t.staged = None
       /\ t.confirmed = s.confirmed
    \/ /\ ~(status.result \in {"rolled_back", "rollback_failed"} /\ ofIts)
       /\ s.staged = None /\ pendingCandidate(s, v)
       /\ t.status = "confirming" /\ t.candidate = s.candidate /\ t.staged = None
       /\ t.confirmed = s.confirmed
    \/ /\ ~(status.result \in {"rolled_back", "rollback_failed"} /\ ofIts)
       /\ s.staged = None /\ ~pendingCandidate(s, v) /\ Replaced(s, v)
       /\ t.status = "failed" /\ t.candidate = None /\ t.staged = None
       /\ t.confirmed = s.confirmed
    \/ /\ ~(status.result \in {"rolled_back", "rollback_failed"} /\ ofIts)
       /\ s.staged = None /\ ~pendingCandidate(s, v) /\ ~Replaced(s, v)
       /\ t = s

LEMMA startupCases ==
    ASSUME NEW s \in State, NEW v \in Version
    PROVE  StartedFrom(s, startupStaged(s, v), v)
<1> DEFINE r == status.result
           ofIts == s.candidate # None /\ status.from = s.candidate
           rolled == r = "rolled_back" /\ ofIts
           stuck == r = "rollback_failed" /\ ofIts
           refused == r = "rejected" /\ s.staged # None /\ status.to = s.staged
           done == r = "switched" /\ status.to = v /\ s.staged = v
           left == s.staged # None
           attempts == IF status.cand.version = v THEN status.cand.attempts ELSE s.attempts
           t == startupStaged(s, v)
<1>1. t =
        IF rolled THEN [Set(s, "rolled_back") EXCEPT !.candidate = None, !.staged = None, !.rollback = None]
        ELSE IF stuck THEN [Set(s, "failed") EXCEPT !.candidate = None, !.rollback = None, !.confirmed = TRUE]
        ELSE IF refused THEN [Set(s, "failed") EXCEPT !.candidate = None, !.staged = None]
        ELSE IF done THEN [Set(s, "confirming") EXCEPT !.staged = None, !.attempts = 1]
        ELSE IF left THEN [Set(s, "failed") EXCEPT !.candidate = None, !.staged = None]
        ELSE IF pendingCandidate(s, v) THEN [Set(s, "confirming") EXCEPT !.attempts = attempts]
        ELSE IF Replaced(s, v) THEN [Set(s, "failed") EXCEPT !.candidate = None]
        ELSE s
  BY DEF startupStaged, Set, State
<1> HIDE DEF attempts, t
<1>2. CASE rolled
  <2>1. t = [Set(s, "rolled_back") EXCEPT !.candidate = None, !.staged = None, !.rollback = None]
    BY <1>1, <1>2
  <2>2. t.status = "rolled_back" /\ t.candidate = None /\ t.staged = None /\ t.confirmed = s.confirmed
    BY <2>1 DEF Set, State
  <2>3. QED  BY <1>2, <2>2 DEF StartedFrom, t
<1>3. CASE stuck
  <2>1. t = [Set(s, "failed") EXCEPT !.candidate = None, !.rollback = None, !.confirmed = TRUE]
    BY <1>1, <1>3
  <2>2. t.status = "failed" /\ t.candidate = None /\ t.staged = s.staged /\ t.confirmed = TRUE
    BY <2>1 DEF Set, State
  <2>3. QED  BY <1>3, <2>2 DEF StartedFrom, t
<1>4. CASE refused
  <2>1. t = [Set(s, "failed") EXCEPT !.candidate = None, !.staged = None]
    BY <1>1, <1>4
  <2>2. t.status = "failed" /\ t.candidate = None /\ t.staged = None /\ t.confirmed = s.confirmed
    BY <2>1 DEF Set, State
  <2>3. QED  BY <1>4, <2>2 DEF StartedFrom, t
<1>5. CASE done
  <2>1. t = [Set(s, "confirming") EXCEPT !.staged = None, !.attempts = 1]
    BY <1>1, <1>5
  <2>2. /\ t.status = "confirming" /\ t.candidate = s.candidate /\ t.staged = None
        /\ t.confirmed = s.confirmed
    BY <2>1 DEF Set, State
  <2>3. QED  BY <1>5, <2>2 DEF StartedFrom, t
<1>6. CASE ~rolled /\ ~stuck /\ ~refused /\ ~done /\ left
  <2>1. t = [Set(s, "failed") EXCEPT !.candidate = None, !.staged = None]
    BY <1>1, <1>6
  <2>2. t.status = "failed" /\ t.candidate = None /\ t.staged = None /\ t.confirmed = s.confirmed
    BY <2>1 DEF Set, State
  <2>3. QED  BY <1>6, <2>2 DEF StartedFrom, t
<1>7. CASE ~rolled /\ ~stuck /\ ~left /\ pendingCandidate(s, v)
  <2>1. t = [Set(s, "confirming") EXCEPT !.attempts = attempts]
    BY <1>1, <1>7, Versions
  <2>2. /\ t.status = "confirming" /\ t.candidate = s.candidate /\ t.staged = s.staged
        /\ t.confirmed = s.confirmed
    BY <2>1 DEF Set, State
  <2>3. QED  BY <1>7, <2>2 DEF StartedFrom, t
<1>8. CASE ~rolled /\ ~stuck /\ ~left /\ ~pendingCandidate(s, v) /\ Replaced(s, v)
  <2>1. t = [Set(s, "failed") EXCEPT !.candidate = None]
    BY <1>1, <1>8, Versions
  <2>2. t.status = "failed" /\ t.candidate = None /\ t.staged = s.staged /\ t.confirmed = s.confirmed
    BY <2>1 DEF Set, State
  <2>3. QED  BY <1>8, <2>2 DEF StartedFrom, t
<1>9. CASE ~rolled /\ ~stuck /\ ~left /\ ~pendingCandidate(s, v) /\ ~Replaced(s, v)
  <2>1. t = s
    BY <1>1, <1>9, Versions
  <2>2. QED  BY <1>9, <2>1 DEF StartedFrom, t
<1>10. QED  BY <1>2, <1>3, <1>4, <1>5, <1>6, <1>7, <1>8, <1>9

StartStagedDoes ==
    /\ pc = "start" /\ pc' = IF unit THEN "down" ELSE "run"
    /\ Mode = "staged"
    /\ Settles(st, st') /\ StartedFrom(st, st', Binary)
    /\ proc'.ver = Binary /\ proc'.mode = "staged" /\ proc'.h = "idle" /\ proc'.restarting = FALSE
    /\ proc'.unsaved = 0
    /\ pendingCandidate(st', Binary) => proc'.settled = FALSE
    /\ updates' = IF st'.staged = None THEN None ELSE updates
    /\ unit = TRUE => hist' = hist
    /\ unit = FALSE => RanFields(hist')
    /\ UNCHANGED <<rootVars, installed, current, prune, clock, overdue, stagings, faults>>

LEMMA StartStagedEffect == TypeOK /\ Sound /\ StartStaged => StartStagedDoes
<1>1. SUFFICES ASSUME TypeOK, Sound, StartStaged
               PROVE  StartStagedDoes
  OBVIOUS
<1>2. Binary \in Version /\ unit \in BOOLEAN
  BY <1>1 DEF StartStaged, Sound, TypeOK, Binary
<1>3. Settles(st, st') /\ StartedFrom(st, st', Binary)
  BY <1>1, <1>2, startupSettles, startupCases DEF StartStaged, TypeOK
<1>4. /\ proc'.ver = Binary /\ proc'.mode = "staged" /\ proc'.h = "idle" /\ proc'.restarting = FALSE
      /\ proc'.unsaved = 0
      /\ pendingCandidate(st', Binary) => proc'.settled = FALSE
  BY <1>1 DEF StartStaged, Started, NoProcess
<1>5. (unit = TRUE => hist' = hist) /\ (unit = FALSE => RanFields(hist'))
  BY <1>1, RanChanges DEF StartStaged, TypeOK
<1>6. QED  BY <1>1, <1>3, <1>4, <1>5 DEF StartStaged, StartStagedDoes, rootVars, startVars, timeVars

StartLegacyDoes ==
    /\ pc = "start" /\ pc' = "run"
    /\ Mode # "staged"
    /\ Settles(st, st') /\ st'.staged = None
    /\ ~(pendingCandidate(Unstaged, Binary) /\ GiveUp(Counted))
    /\ \/ /\ pendingCandidate(Unstaged, Binary)
          /\ st'.status = "confirming" /\ st'.candidate = Binary /\ st'.confirmed = FALSE
          /\ st'.attempts = Counted.attempts
       \/ /\ ~pendingCandidate(Unstaged, Binary) /\ Replaced(Unstaged, Binary)
          /\ st'.status = "failed" /\ st'.candidate = None /\ st'.attempts = Unstaged.attempts
       \/ ~pendingCandidate(Unstaged, Binary) /\ ~Replaced(Unstaged, Binary) /\ st' = Unstaged
    /\ proc'.ver = Binary /\ proc'.mode = Mode /\ proc'.h = "idle" /\ proc'.restarting = FALSE
    /\ proc'.unsaved = 0
    /\ pendingCandidate(st', Binary) => proc'.settled = FALSE
    /\ RanFields(hist')
    /\ UNCHANGED <<rootVars, installed, current, prune, clock, overdue, stagings, faults>>

LEMMA StartLegacyEffect == TypeOK /\ StartLegacy => StartLegacyDoes
<1>1. SUFFICES ASSUME TypeOK, StartLegacy
               PROVE  StartLegacyDoes
  OBVIOUS
<1>2. /\ st \in State /\ Settles(st, Unstaged) /\ Unstaged.staged = None
      /\ Settles(st, Counted) /\ Counted.staged = None
      /\ Counted.candidate = Unstaged.candidate /\ Counted.confirmed = Unstaged.confirmed
  BY <1>1, UnstagedSettles DEF TypeOK
<1>3. /\ proc'.ver = Binary /\ proc'.mode = Mode /\ proc'.h = "idle" /\ proc'.restarting = FALSE
      /\ proc'.unsaved = 0
      /\ pendingCandidate(st', Binary) => proc'.settled = FALSE
  BY <1>1 DEF StartLegacy, Started, NoProcess
<1>4. RanFields(hist')
  BY <1>1, RanChanges DEF StartLegacy, TypeOK
<1>5. CASE pendingCandidate(Unstaged, Binary)
  <2>1. st' = Set(Counted, "confirming")
    BY <1>1, <1>5 DEF StartLegacy
  <2>2. Settles(st, st') /\ st'.staged = None
    BY <1>2, <2>1 DEF Settles, Set, State, Reported
  <2>3. /\ st'.status = "confirming" /\ st'.candidate = Counted.candidate
        /\ st'.confirmed = Counted.confirmed /\ st'.attempts = Counted.attempts
    BY <1>2, <2>1 DEF Settles, Set, State
  <2>4. Counted.candidate = Binary /\ Counted.confirmed = FALSE
    BY <1>2, <1>5 DEF pendingCandidate, Settles, State
  <2>5. QED  BY <1>1, <1>3, <1>4, <1>5, <2>2, <2>3, <2>4
             DEF StartLegacy, StartLegacyDoes, rootVars, startVars, timeVars
<1>6. CASE ~pendingCandidate(Unstaged, Binary) /\ Replaced(Unstaged, Binary)
  <2>1. st' = [Set(Unstaged, "failed") EXCEPT !.candidate = None]
    BY <1>1, <1>6 DEF StartLegacy
  <2>2. Settles(st, st') /\ st'.staged = None /\ st'.status = "failed" /\ st'.candidate = None
        /\ st'.attempts = Unstaged.attempts
    BY <1>2, <2>1 DEF Settles, Set, State, Reported
  <2>3. QED  BY <1>1, <1>3, <1>4, <1>6, <2>2
             DEF StartLegacy, StartLegacyDoes, rootVars, startVars, timeVars
<1>7. CASE ~pendingCandidate(Unstaged, Binary) /\ ~Replaced(Unstaged, Binary)
  <2>1. st' = Unstaged
    BY <1>1, <1>7 DEF StartLegacy
  <2>2. QED  BY <1>1, <1>2, <1>3, <1>4, <1>7, <2>1
             DEF StartLegacy, StartLegacyDoes, rootVars, startVars, timeVars
<1>8. QED  BY <1>5, <1>6, <1>7

(* rollbackLocked, from the state s of the file. *)
UndoDoes(s, mode) ==
    \/ /\ mode = "legacy" /\ current' = s.previous /\ s.previous \in installed
       /\ st' = st /\ pc' = "undo" /\ hist' = RolledBack(hist)
    \/ /\ Settles(s, st') /\ st'.status = "failed" /\ st'.candidate = None /\ st'.confirmed = TRUE
       /\ st'.staged = s.staged /\ pc' = "run" /\ hist' = [hist EXCEPT !.stuck = TRUE]
       /\ UNCHANGED current

LEMMA UndoEffect ==
    ASSUME NEW s \in State, NEW mode, rollbackLocked(s, mode)
    PROVE  UndoDoes(s, mode)
<1> DEFINE t == [Set(s, "failed") EXCEPT !.candidate = None, !.confirmed = TRUE]
<1>1. Settles(s, t) /\ t.status = "failed" /\ t.candidate = None /\ t.confirmed = TRUE /\ t.staged = s.staged
  BY DEF Settles, Set, State, Reported
<1>2. st' = t => Settles(s, st') /\ st'.status = "failed" /\ st'.candidate = None
                 /\ st'.confirmed = TRUE /\ st'.staged = s.staged
  BY <1>1
<1> HIDE DEF t
<1>3. QED  BY <1>2 DEF rollbackLocked, SwitchCurrent, UndoDoes, t

RollBackAtStartDoes ==
    /\ pc = "start" /\ Mode # "staged"
    /\ pendingCandidate(Unstaged, Binary) /\ GiveUp(Counted)
    /\ Settles(st, Counted) /\ Counted.staged = None /\ UndoDoes(Counted, Mode)
    /\ proc'.ver = Binary /\ proc'.mode = Mode /\ proc'.h = "idle" /\ proc'.restarting = FALSE
    /\ proc'.unsaved = 0
    /\ proc'.settled = TRUE
    /\ UNCHANGED <<rootVars, installed, updates, prune, clock, overdue, stagings>>

LEMMA RollBackAtStartEffect == TypeOK /\ RollBackAtStart => RollBackAtStartDoes
<1>1. SUFFICES ASSUME TypeOK, RollBackAtStart
               PROVE  RollBackAtStartDoes
  OBVIOUS
<1>2. Settles(st, Counted) /\ Counted.staged = None /\ Counted \in State
  BY <1>1, UnstagedSettles DEF TypeOK, Settles
<1>3. UndoDoes(Counted, Mode)
  BY <1>1, <1>2, UndoEffect DEF RollBackAtStart
<1>4. /\ proc'.ver = Binary /\ proc'.mode = Mode /\ proc'.h = "idle" /\ proc'.restarting = FALSE
      /\ proc'.unsaved = 0
      /\ proc'.settled = TRUE
  BY <1>1 DEF RollBackAtStart, NoProcess
<1>5. QED  BY <1>1, <1>2, <1>3, <1>4 DEF RollBackAtStart, RollBackAtStartDoes, rootVars, startVars, timeVars

SaveRollbackDoes ==
    /\ pc = "undo" /\ pc' = "exit"
    /\ Settles(st, st') /\ st'.status = "rolled_back" /\ st'.candidate = None
    /\ st'.staged = st.staged /\ st'.confirmed = st.confirmed
    /\ proc'.ver = proc.ver /\ proc'.mode = proc.mode /\ proc'.h = proc.h /\ proc'.ins = proc.ins
    /\ proc'.settled = TRUE /\ proc'.restarting = TRUE /\ proc'.unsaved = proc.unsaved
    /\ UNCHANGED <<rootVars, installed, current, updates, prune, clock, overdue, stagings, faults, hist>>

LEMMA SaveRollbackEffect == TypeOK /\ SaveRollback => SaveRollbackDoes
<1>1. SUFFICES ASSUME TypeOK, SaveRollback
               PROVE  SaveRollbackDoes
  OBVIOUS
<1>2. /\ Settles(st, st') /\ st'.status = "rolled_back" /\ st'.candidate = None
      /\ st'.staged = st.staged /\ st'.confirmed = st.confirmed
  BY <1>1 DEF SaveRollback, TypeOK, Settles, Set, State, Reported
<1>3. /\ proc'.ver = proc.ver /\ proc'.mode = proc.mode /\ proc'.h = proc.h /\ proc'.ins = proc.ins
      /\ proc'.settled = TRUE /\ proc'.restarting = TRUE /\ proc'.unsaved = proc.unsaved
  BY <1>1 DEF SaveRollback, TypeOK, Process
<1>4. QED  BY <1>1, <1>2, <1>3 DEF SaveRollback, SaveRollbackDoes, rootVars, startVars, timeVars

(* The process goes on as it is, but for its sync goroutine. *)
SameProcess ==
    /\ proc'.ver = proc.ver /\ proc'.mode = proc.mode /\ proc'.settled = proc.settled
    /\ proc'.unsaved = proc.unsaved

(* An export of a candidate, or of a version that has nothing to confirm. *)
ConfirmDoes ==
    /\ Runs /\ Unlocked /\ proc.ver \notin Broken
    /\ proc'.ver = proc.ver /\ proc'.mode = proc.mode /\ proc'.h = proc.h /\ proc'.ins = proc.ins
    /\ proc'.restarting = proc.restarting /\ proc'.settled = TRUE
    /\ SameExcuses(hist') /\ hist'.runs = hist.runs /\ hist'.before = hist.before
    /\ hist'.refused = hist.refused
    /\ current = proc.ver => hist'.healthy = TRUE
    /\ current # proc.ver => hist'.healthy = FALSE
    /\ \/ /\ proc.settled = TRUE \/ ~pendingCandidate(st, proc.ver)
          /\ proc'.unsaved = proc.unsaved /\ hist'.unsaved = hist.unsaved
          /\ UNCHANGED <<st, prune, clock>>
       \/ /\ proc.settled = FALSE /\ pendingCandidate(st, proc.ver)
          /\ st' \in State
          /\ st'.status = "succeeded" /\ st'.confirmed = TRUE /\ st'.candidate = st.candidate
          /\ st'.staged = st.staged /\ st'.confVer = proc.ver /\ st'.confAt = clock + 1
          /\ st'.previous = st.previous /\ st'.ins = st.ins /\ st'.stagedAt = st.stagedAt
          /\ st'.attempts = st.attempts /\ st'.rollback = st.rollback
          /\ proc'.unsaved = proc.unsaved /\ hist'.unsaved = FALSE
          /\ clock' = clock + 1
          /\ prune' = IF proc.mode = "legacy" THEN Keep(proc.ver, st.previous) ELSE prune
       \/ /\ proc.settled = FALSE /\ pendingCandidate(st, proc.ver)
          /\ st' = st
          /\ proc'.unsaved = clock + 1 /\ hist'.unsaved = TRUE
          /\ clock' = clock + 1
          /\ prune' = IF proc.mode = "legacy" THEN Keep(proc.ver, st.previous) ELSE prune
    /\ UNCHANGED <<rootVars, pc, installed, current, updates, overdue, stagings>>

LEMMA ConfirmEffect == TypeOK /\ Sound /\ (ConfirmAgain \/ Confirm) => ConfirmDoes
<1>1. SUFFICES ASSUME TypeOK, Sound, ConfirmAgain \/ Confirm
               PROVE  ConfirmDoes
  OBVIOUS
<1>2. st \in State /\ proc \in Process /\ hist \in Hist /\ proc.settled \in BOOLEAN
  BY <1>1 DEF TypeOK, Process
<1>3. clock + 1 \in Nat /\ proc.ver \in Version
  BY <1>1 DEF TypeOK, Sound, ConfirmAgain, Confirm, Runs
<1>4. /\ proc'.ver = proc.ver /\ proc'.mode = proc.mode /\ proc'.h = proc.h /\ proc'.ins = proc.ins
      /\ proc'.restarting = proc.restarting /\ proc'.settled = TRUE
  BY <1>1, <1>2 DEF ConfirmAgain, Confirm, Process
<1>5. /\ SameExcuses(hist') /\ hist'.runs = hist.runs /\ hist'.before = hist.before
      /\ hist'.refused = hist.refused
      /\ current = proc.ver => hist'.healthy = TRUE
      /\ current # proc.ver => hist'.healthy = FALSE
  BY <1>1, <1>2 DEF ConfirmAgain, Confirm, Hist, SameExcuses
<1>6. CASE ConfirmAgain
  <2>1. proc'.unsaved = proc.unsaved /\ hist'.unsaved = hist.unsaved
    BY <1>2, <1>6 DEF ConfirmAgain, Process, Hist
  <2>2. QED  BY <1>2, <1>4, <1>5, <1>6, <2>1 DEF ConfirmAgain, ConfirmDoes, runVars, rootVars, timeVars
<1>7. CASE /\ Confirm /\ st' = Stamp(st, proc.ver, clock + 1)
           /\ proc' = [proc EXCEPT !.settled = TRUE]
           /\ hist' = [hist EXCEPT !.healthy = current = proc.ver, !.unsaved = FALSE]
  <2>1. proc'.unsaved = proc.unsaved /\ hist'.unsaved = FALSE
    BY <1>2, <1>7 DEF Process, Hist
  <2>2. /\ st' \in State /\ st'.status = "succeeded" /\ st'.confirmed = TRUE
        /\ st'.candidate = st.candidate
        /\ st'.staged = st.staged /\ st'.confVer = proc.ver /\ st'.confAt = clock + 1
        /\ st'.previous = st.previous /\ st'.ins = st.ins /\ st'.stagedAt = st.stagedAt
        /\ st'.attempts = st.attempts /\ st'.rollback = st.rollback
    <3>1. Stamps(st, st', proc.ver, clock + 1)
      BY <1>2, <1>3, <1>7, StampTypes
    <3>2. QED  BY <3>1 DEF Stamps
  <2>3. QED  BY <1>2, <1>4, <1>5, <1>7, <2>1, <2>2 DEF Confirm, ConfirmDoes, runVars, rootVars
<1>8. CASE /\ Confirm /\ st' = st
           /\ proc' = [proc EXCEPT !.settled = TRUE, !.unsaved = clock + 1]
           /\ hist' = [hist EXCEPT !.healthy = current = proc.ver, !.unsaved = TRUE]
  <2>1. proc'.unsaved = clock + 1 /\ hist'.unsaved = TRUE
    BY <1>2, <1>8 DEF Process, Hist
  <2>2. QED  BY <1>2, <1>4, <1>5, <1>8, <2>1 DEF Confirm, ConfirmDoes, runVars, rootVars
<1>9. QED  BY <1>1, <1>6, <1>7, <1>8 DEF Confirm

PruneDoes ==
    /\ Runs /\ prune # {} /\ prune' = {}
    /\ installed' = installed \cap prune
    /\ UNCHANGED <<rootVars, pc, current, st, updates, proc, clock, overdue, stagings, faults, hist>>

LEMMA PruneEffect == TypeOK /\ Prune => PruneDoes
BY DEF Prune, PruneDoes, runVars, rootVars, timeVars

(* Run asks "-apply" for a rollback. *)
WatchdogStagedDoes ==
    /\ pc = "run" /\ pc' = "exit" /\ Unlocked
    /\ pendingCandidate(st, proc.ver) /\ proc.unsaved = 0 /\ proc.mode = "staged"
    /\ st' \in State /\ st'.status = "restarting" /\ st'.rollback = proc.ver
    /\ st'.candidate = st.candidate /\ st'.confirmed = st.confirmed /\ st'.staged = st.staged
    /\ st'.previous = st.previous /\ st'.ins = st.ins /\ st'.stagedAt = st.stagedAt
    /\ st'.confVer = st.confVer /\ st'.confAt = st.confAt /\ st'.attempts = st.attempts
    /\ SameProcess /\ proc'.h = proc.h /\ proc'.ins = proc.ins /\ proc'.restarting = TRUE
    /\ UNCHANGED <<rootVars, installed, current, updates, prune, clock, overdue, stagings, faults, hist>>

LEMMA WatchdogStagedEffect == TypeOK /\ WatchdogStaged => WatchdogStagedDoes
<1>1. SUFFICES ASSUME TypeOK, WatchdogStaged
               PROVE  WatchdogStagedDoes
  OBVIOUS
<1>2. st \in State /\ proc \in Process /\ proc.ver \in Version \cup {None}
  BY <1>1 DEF TypeOK, Process
<1>3. /\ st' \in State /\ st'.status = "restarting" /\ st'.rollback = proc.ver
      /\ st'.candidate = st.candidate /\ st'.confirmed = st.confirmed /\ st'.staged = st.staged
      /\ st'.previous = st.previous /\ st'.ins = st.ins /\ st'.stagedAt = st.stagedAt
      /\ st'.confVer = st.confVer /\ st'.confAt = st.confAt /\ st'.attempts = st.attempts
  BY <1>1, <1>2 DEF WatchdogStaged, Set, State, Reported
<1>4. SameProcess /\ proc'.h = proc.h /\ proc'.ins = proc.ins /\ proc'.restarting = TRUE
  BY <1>1, <1>2 DEF WatchdogStaged, SameProcess, Process
<1>5. QED  BY <1>1, <1>3, <1>4 DEF WatchdogStaged, WatchdogStagedDoes, Pending, runVars, rootVars, timeVars

WatchdogLegacyDoes ==
    /\ pc = "run" /\ Unlocked
    /\ pendingCandidate(st, proc.ver) /\ proc.unsaved = 0 /\ proc.mode # "staged"
    /\ UndoDoes(st, proc.mode)
    /\ proc'.ver = proc.ver /\ proc'.mode = proc.mode /\ proc'.h = proc.h /\ proc'.ins = proc.ins
    /\ proc'.restarting = proc.restarting /\ proc'.settled = TRUE /\ proc'.unsaved = proc.unsaved
    /\ UNCHANGED <<rootVars, installed, updates, prune, clock, overdue, stagings>>

LEMMA WatchdogLegacyEffect == TypeOK /\ WatchdogLegacy => WatchdogLegacyDoes
<1>1. SUFFICES ASSUME TypeOK, WatchdogLegacy
               PROVE  WatchdogLegacyDoes
  OBVIOUS
<1>2. UndoDoes(st, proc.mode)
  BY <1>1, UndoEffect DEF WatchdogLegacy, TypeOK
<1>3. /\ proc'.ver = proc.ver /\ proc'.mode = proc.mode /\ proc'.h = proc.h /\ proc'.ins = proc.ins
      /\ proc'.restarting = proc.restarting /\ proc'.settled = TRUE /\ proc'.unsaved = proc.unsaved
  BY <1>1 DEF WatchdogLegacy, TypeOK, Process
<1>4. QED  BY <1>1, <1>2, <1>3 DEF WatchdogLegacy, WatchdogLegacyDoes, Pending, runVars, rootVars, timeVars

(* An instruction is taken up; a confirmation that was not saved is saved with it. *)
HandleDoes(ins) ==
    /\ pc = "run" /\ proc.h = "idle" /\ proc.restarting = FALSE
    /\ stagings < MaxStagings /\ ~skip(ins) /\ (proc.unsaved = 0 => ~pendingCandidate(st, proc.ver))
    /\ st' \in State /\ st'.status = "verifying" /\ st'.ins = ins
    /\ st'.candidate = st.candidate /\ st'.staged = st.staged
    /\ st'.previous = st.previous /\ st'.stagedAt = st.stagedAt /\ st'.attempts = st.attempts
    /\ st'.rollback = st.rollback
    /\ proc.unsaved = 0 =>
           st'.confirmed = st.confirmed /\ st'.confVer = st.confVer /\ st'.confAt = st.confAt
    /\ proc.unsaved # 0 =>
           st'.confirmed = TRUE /\ st'.confVer = proc.ver /\ st'.confAt = proc.unsaved
    /\ proc'.ver = proc.ver /\ proc'.mode = proc.mode /\ proc'.settled = proc.settled
    /\ proc'.unsaved = 0
    /\ proc'.h = "stage" /\ proc'.ins = ins /\ proc'.restarting = FALSE
    /\ SameExcuses(hist') /\ hist'.healthy = hist.healthy /\ hist'.runs = hist.runs
    /\ hist'.before = hist.before /\ hist'.unsaved = FALSE
    /\ hist'.refused = IF ins = st.ins THEN hist.refused ELSE {}
    /\ UNCHANGED <<rootVars, pc, installed, current, updates, prune, clock, overdue, stagings, faults>>

LEMMA HandleEffect == TypeOK /\ Sound => \A ins \in Instruction : Handle(ins) => HandleDoes(ins)
<1>1. SUFFICES ASSUME TypeOK, Sound, NEW ins \in Instruction, Handle(ins)
               PROVE  HandleDoes(ins)
  OBVIOUS
<1>2. /\ st \in State /\ proc \in Process /\ hist \in Hist /\ proc.restarting \in BOOLEAN
      /\ proc.unsaved \in Nat /\ proc.ver \in Version
  BY <1>1 DEF TypeOK, Sound, Handle, Process
<1> DEFINE m == Memory
<1>3. /\ m \in State
      /\ m.candidate = st.candidate /\ m.staged = st.staged
      /\ m.previous = st.previous /\ m.ins = st.ins /\ m.stagedAt = st.stagedAt
      /\ m.attempts = st.attempts /\ m.rollback = st.rollback
      /\ proc.unsaved = 0 => m.confirmed = st.confirmed /\ m.confVer = st.confVer /\ m.confAt = st.confAt
      /\ proc.unsaved # 0 => m.confirmed = TRUE /\ m.confVer = proc.ver /\ m.confAt = proc.unsaved
  BY <1>2, MemoryTypes
<1>4. st' = [Set(m, "verifying") EXCEPT !.ins = ins]
  BY <1>1 DEF Handle
<1> HIDE DEF m
<1>5. /\ st' \in State /\ st'.status = "verifying" /\ st'.ins = ins
      /\ st'.candidate = m.candidate /\ st'.confirmed = m.confirmed /\ st'.staged = m.staged
      /\ st'.previous = m.previous /\ st'.stagedAt = m.stagedAt /\ st'.attempts = m.attempts
      /\ st'.confVer = m.confVer /\ st'.confAt = m.confAt /\ st'.rollback = m.rollback
  BY <1>3, <1>4 DEF Set, State, Reported
<1>6. /\ proc'.ver = proc.ver /\ proc'.mode = proc.mode /\ proc'.settled = proc.settled
      /\ proc'.unsaved = 0
      /\ proc'.h = "stage" /\ proc'.ins = ins /\ proc'.restarting = proc.restarting
  BY <1>1, <1>2 DEF Handle, Process
<1>7. /\ SameExcuses(hist') /\ hist'.healthy = hist.healthy /\ hist'.runs = hist.runs
      /\ hist'.before = hist.before /\ hist'.refused = IF ins = st.ins THEN hist.refused ELSE {}
      /\ hist'.unsaved = FALSE
  BY <1>1, <1>2 DEF Handle, SameExcuses, Hist
<1>8. ~skip(ins) /\ (proc.unsaved = 0 => ~pendingCandidate(st, proc.ver)) /\ proc.restarting = FALSE
  BY <1>1, <1>2 DEF Handle, skip, Pending
<1>9. QED  BY <1>1, <1>3, <1>5, <1>6, <1>7, <1>8 DEF Handle, HandleDoes, runVars, rootVars, timeVars

(* What the sync goroutine saves leaves the timers and the versions of s alone. *)
SavesStatus(s, t) ==
    /\ t \in State
    /\ t.candidate = s.candidate /\ t.confirmed = s.confirmed /\ t.staged = s.staged
    /\ t.previous = s.previous /\ t.ins = s.ins /\ t.stagedAt = s.stagedAt
    /\ t.confVer = s.confVer /\ t.confAt = s.confAt /\ t.attempts = s.attempts
    /\ t.rollback = s.rollback

LEMMA SetSaves ==
    ASSUME NEW s \in State, NEW r \in Reported
    PROVE  SavesStatus(s, Set(s, r)) /\ Set(s, r).status = r
BY DEF SavesStatus, Set, State

LEMMA NotStagedSaves ==
    ASSUME NEW s \in State
    PROVE  /\ SavesStatus(s, NotStaged(s))
           /\ pc = "run" => NotStaged(s).status = "failed"
           /\ NotStaged(s).status \in {"failed", "idle", s.status}
<1>1. SavesStatus(s, s)
  BY DEF SavesStatus
<1>2. QED  BY <1>1, SetSaves DEF NotStaged, Reported

StageFailsDoes ==
    /\ Runs /\ proc.h = "stage"
    /\ SavesStatus(st, st')
    /\ pc = "run" => st'.status = "failed"
    /\ st'.status \in {"failed", "idle", st.status}
    /\ SameProcess /\ proc'.h = "idle" /\ proc'.ins = proc.ins /\ proc'.restarting = proc.restarting
    /\ updates' = IF proc.mode = "staged" THEN None ELSE updates
    /\ UNCHANGED <<rootVars, pc, installed, current, prune, clock, overdue, stagings, faults, hist>>

LEMMA StageFailsEffect == TypeOK /\ StageFails => StageFailsDoes
<1>1. SUFFICES ASSUME TypeOK, StageFails
               PROVE  StageFailsDoes
  OBVIOUS
<1>2. /\ SavesStatus(st, st') /\ (pc = "run" => st'.status = "failed")
      /\ st'.status \in {"failed", "idle", st.status}
  BY <1>1, NotStagedSaves DEF StageFails, TypeOK
<1>3. SameProcess /\ proc'.h = "idle" /\ proc'.ins = proc.ins /\ proc'.restarting = proc.restarting
  BY <1>1 DEF StageFails, TypeOK, SameProcess, Process
<1>4. QED  BY <1>1, <1>2, <1>3 DEF StageFails, StageFailsDoes, runVars, rootVars, timeVars

StagePlacesDoes ==
    /\ Runs /\ proc.h = "stage" /\ Verified(proc.ins, proc.ver)
    /\ \/ proc.mode = "staged" /\ updates' = proc.ins.target /\ UNCHANGED installed
       \/ proc.mode = "legacy" /\ installed' = installed \cup {proc.ins.target} /\ UNCHANGED updates
    /\ SameProcess /\ proc'.h = "placed" /\ proc'.ins = proc.ins /\ proc'.restarting = proc.restarting
    /\ UNCHANGED <<rootVars, pc, current, st, prune, clock, overdue, stagings, faults, hist>>

LEMMA StagePlacesEffect == TypeOK /\ StagePlaces => StagePlacesDoes
BY DEF TypeOK, StagePlaces, StagePlacesDoes, SameProcess, runVars, rootVars, timeVars, Process

StageRecordsDoes ==
    /\ Runs /\ proc.h = "placed"
    /\ stagings' = stagings + 1 /\ clock' = clock + 1
    /\ st' \in State
    /\ st'.previous = proc.ver /\ st'.candidate = proc.ins.target /\ st'.attempts = 0
    /\ st'.stagedAt = clock + 1 /\ st'.confirmed = FALSE /\ st'.ins = st.ins
    /\ st'.confVer = st.confVer /\ st'.confAt = st.confAt
    /\ SameProcess /\ proc'.ins = proc.ins
    /\ \/ /\ proc.mode = "staged" /\ pc' = "exit"
          /\ st'.status = "restarting" /\ st'.staged = proc.ins.target /\ st'.rollback = None
          /\ proc'.h = "done" /\ proc'.restarting = TRUE
       \/ /\ proc.mode # "staged" /\ pc' = pc
          /\ st'.status = "staged" /\ st'.staged = st.staged /\ st'.rollback = st.rollback
          /\ proc'.h = "staged" /\ proc'.restarting = proc.restarting
    /\ UNCHANGED <<rootVars, installed, current, updates, prune, overdue, faults, hist>>

LEMMA StageRecordsEffect == TypeOK /\ Sound /\ StageRecords => StageRecordsDoes
<1>1. SUFFICES ASSUME TypeOK, Sound, StageRecords
               PROVE  StageRecordsDoes
  OBVIOUS
<1> DEFINE s == [st EXCEPT !.previous = proc.ver, !.candidate = proc.ins.target, !.attempts = 0,
                           !.stagedAt = clock + 1, !.confirmed = FALSE]
<1>2. st \in State /\ proc \in Process /\ clock + 1 \in Nat
  BY <1>1 DEF TypeOK
<1>3. proc.ver \in Version /\ proc.ins.target \in Version
  BY <1>1, Versions DEF StageRecords, Sound, Runs
<1>4. \A v, w \in Version, n \in Nat :
        [st EXCEPT !.previous = v, !.candidate = w, !.attempts = 0, !.stagedAt = n, !.confirmed = FALSE]
          \in State
  <2>1. TAKE v, w \in Version, n \in Nat
  <2>2. [st EXCEPT !.previous = v, !.candidate = w] \in State
    BY <1>2 DEF State
  <2> DEFINE t == [st EXCEPT !.previous = v, !.candidate = w]
  <2>3. [t EXCEPT !.attempts = 0, !.stagedAt = n, !.confirmed = FALSE] \in State
    <3> HIDE DEF t
    <3> QED  BY <2>2 DEF State, t
  <2>4. QED  BY <2>3
<1>5. /\ s \in State /\ s.previous = proc.ver /\ s.candidate = proc.ins.target /\ s.attempts = 0
      /\ s.stagedAt = clock + 1 /\ s.confirmed = FALSE /\ s.ins = st.ins
      /\ s.confVer = st.confVer /\ s.confAt = st.confAt
      /\ s.staged = st.staged /\ s.rollback = st.rollback
  <2>1. s \in State
    BY <1>2, <1>3, <1>4
  <2>2. QED  BY <1>2, <2>1 DEF State
<1>6. \/ /\ proc.mode = "staged" /\ pc' = "exit"
         /\ st' = [Set(s, "restarting") EXCEPT !.staged = proc.ins.target, !.rollback = None]
         /\ proc' = [proc EXCEPT !.h = "done", !.restarting = TRUE]
      \/ /\ proc.mode # "staged" /\ pc' = pc
         /\ st' = Set(s, "staged")
         /\ proc' = [proc EXCEPT !.h = "staged"]
  BY <1>1 DEF StageRecords
<1> HIDE DEF s
<1>7. SavesStatus(s, Set(s, "restarting")) /\ Set(s, "restarting").status = "restarting"
      /\ SavesStatus(s, Set(s, "staged")) /\ Set(s, "staged").status = "staged"
  BY <1>5, SetSaves DEF Reported
<1>8. CASE proc.mode = "staged"
  <2> DEFINE u == Set(s, "restarting")
  <2>1. st' = [u EXCEPT !.staged = proc.ins.target, !.rollback = None]
    BY <1>6, <1>8
  <2>2. SavesStatus(s, u) /\ u \in State /\ u.status = "restarting"
    BY <1>7 DEF SavesStatus
  <2> HIDE DEF u
  <2>3. /\ st' \in State /\ st'.status = u.status /\ st'.staged = proc.ins.target /\ st'.rollback = None
        /\ st'.previous = u.previous /\ st'.candidate = u.candidate /\ st'.attempts = u.attempts
        /\ st'.stagedAt = u.stagedAt /\ st'.confirmed = u.confirmed /\ st'.ins = u.ins
        /\ st'.confVer = u.confVer /\ st'.confAt = u.confAt
    BY <1>3, <2>1, <2>2 DEF State
  <2>4. SameProcess /\ proc'.ins = proc.ins /\ proc'.h = "done" /\ proc'.restarting = TRUE /\ pc' = "exit"
    BY <1>2, <1>6, <1>8 DEF SameProcess, Process
  <2>5. QED  BY <1>1, <1>5, <1>8, <2>2, <2>3, <2>4
             DEF StageRecords, StageRecordsDoes, SavesStatus, runVars, rootVars
<1>9. CASE proc.mode # "staged"
  <2>1. SavesStatus(s, st') /\ st'.status = "staged"
    BY <1>6, <1>7, <1>9
  <2>2. SameProcess /\ proc'.ins = proc.ins /\ proc'.h = "staged" /\ proc'.restarting = proc.restarting
        /\ pc' = pc
    BY <1>2, <1>6, <1>9 DEF SameProcess, Process
  <2>3. QED  BY <1>1, <1>5, <1>9, <2>1, <2>2
             DEF StageRecords, StageRecordsDoes, SavesStatus, runVars, rootVars
<1>10. QED  BY <1>8, <1>9

StageSwitchesDoes ==
    /\ Runs /\ proc.h = "staged"
    /\ SameProcess /\ proc'.ins = proc.ins /\ proc'.restarting = proc.restarting
    /\ \/ /\ current' = proc.ins.target /\ proc.ins.target \in installed
          /\ proc'.h = "switched" /\ hist' = Switched(hist) /\ UNCHANGED st
       \/ /\ SavesStatus([st EXCEPT !.candidate = None], st')
          /\ pc = "run" => st'.status = "failed"
          /\ st'.status \in {"failed", "idle", st.status}
          /\ st'.candidate = None /\ st'.staged = st.staged /\ st'.confirmed = st.confirmed
          /\ st'.previous = st.previous /\ st'.ins = st.ins /\ st'.stagedAt = st.stagedAt
          /\ st'.confVer = st.confVer /\ st'.confAt = st.confAt
          /\ proc'.h = "idle" /\ UNCHANGED <<current, hist>>
    /\ UNCHANGED <<rootVars, pc, installed, updates, prune, clock, overdue, stagings>>

LEMMA StageSwitchesEffect == TypeOK /\ StageSwitches => StageSwitchesDoes
<1>1. SUFFICES ASSUME TypeOK, StageSwitches
               PROVE  StageSwitchesDoes
  OBVIOUS
<1> DEFINE u == [st EXCEPT !.candidate = None]
<1>2. st \in State /\ proc \in Process
  BY <1>1 DEF TypeOK
<1>3. /\ u \in State /\ u.candidate = None /\ u.staged = st.staged /\ u.confirmed = st.confirmed
      /\ u.previous = st.previous /\ u.ins = st.ins /\ u.stagedAt = st.stagedAt
      /\ u.confVer = st.confVer /\ u.confAt = st.confAt /\ u.status = st.status
  BY <1>2 DEF State
<1>4. \/ /\ current' = proc.ins.target /\ proc.ins.target \in installed
         /\ proc' = [proc EXCEPT !.h = "switched"] /\ hist' = Switched(hist) /\ UNCHANGED st
      \/ /\ st' = NotStaged(u) /\ proc' = [proc EXCEPT !.h = "idle"] /\ UNCHANGED <<current, hist>>
  BY <1>1 DEF StageSwitches, SwitchCurrent
<1> HIDE DEF u
<1>5. /\ SavesStatus(u, NotStaged(u)) /\ (pc = "run" => NotStaged(u).status = "failed")
      /\ NotStaged(u).status \in {"failed", "idle", st.status}
  BY <1>3, NotStagedSaves
<1>6. SameProcess /\ proc'.ins = proc.ins /\ proc'.restarting = proc.restarting
  BY <1>2, <1>4 DEF SameProcess, Process
<1>7. CASE /\ current' = proc.ins.target /\ proc.ins.target \in installed
           /\ proc' = [proc EXCEPT !.h = "switched"] /\ hist' = Switched(hist) /\ UNCHANGED st
  <2>1. proc'.h = "switched"
    BY <1>2, <1>7 DEF Process
  <2>2. QED  BY <1>1, <1>6, <1>7, <2>1 DEF StageSwitches, StageSwitchesDoes, runVars, rootVars, timeVars
<1>8. CASE st' = NotStaged(u) /\ proc' = [proc EXCEPT !.h = "idle"] /\ UNCHANGED <<current, hist>>
  <2>1. proc'.h = "idle"
    BY <1>2, <1>8 DEF Process
  <2>2. /\ SavesStatus(u, st') /\ (pc = "run" => st'.status = "failed")
        /\ st'.status \in {"failed", "idle", st.status}
    BY <1>5, <1>8
  <2>3. /\ st'.candidate = None /\ st'.staged = st.staged /\ st'.confirmed = st.confirmed
        /\ st'.previous = st.previous /\ st'.ins = st.ins /\ st'.stagedAt = st.stagedAt
        /\ st'.confVer = st.confVer /\ st'.confAt = st.confAt
    BY <1>3, <2>2 DEF SavesStatus
  <2>4. QED  BY <1>1, <1>6, <1>8, <2>1, <2>2, <2>3
             DEF StageSwitches, StageSwitchesDoes, runVars, rootVars, timeVars, u
<1>9. QED  BY <1>4, <1>7, <1>8

StageDoneDoes ==
    /\ Runs /\ proc.h = "switched" /\ pc' = "exit"
    /\ SavesStatus(st, st') /\ st'.status = "restarting"
    /\ SameProcess /\ proc'.h = "done" /\ proc'.ins = proc.ins /\ proc'.restarting = TRUE
    /\ UNCHANGED <<rootVars, installed, current, updates, prune, clock, overdue, stagings, faults, hist>>

LEMMA StageDoneEffect == TypeOK /\ StageDone => StageDoneDoes
<1>1. SUFFICES ASSUME TypeOK, StageDone
               PROVE  StageDoneDoes
  OBVIOUS
<1>2. SavesStatus(st, st') /\ st'.status = "restarting"
  BY <1>1, SetSaves DEF StageDone, TypeOK, Reported
<1>3. SameProcess /\ proc'.h = "done" /\ proc'.ins = proc.ins /\ proc'.restarting = TRUE
  BY <1>1 DEF StageDone, TypeOK, SameProcess, Process
<1>4. QED  BY <1>1, <1>2, <1>3 DEF StageDone, StageDoneDoes, runVars, rootVars, timeVars

(* The process is gone, by itself or by a crash. *)
GoneDoes ==
    /\ pc' = "down" /\ proc'.h = "idle" /\ proc'.unsaved = 0 /\ proc'.mode = "unset" /\ prune' = {}
    /\ hist'.stuck = hist.stuck /\ hist'.packaged = hist.packaged /\ hist'.late = hist.late
    /\ hist'.healthy = hist.healthy /\ hist'.runs = hist.runs /\ hist'.unsaved = hist.unsaved
    /\ hist'.before = hist.before /\ hist'.refused = hist.refused
    /\ hist.torn = TRUE => hist'.torn = TRUE
    /\ \/ pc = "exit" /\ proc.h \in {"idle", "done"} /\ hist'.torn = hist.torn
       \/ pc = "run" /\ proc.ver \in Broken /\ hist'.torn = hist.torn
       \/ /\ pc # "down"
          /\ hist'.torn = FALSE => hist.torn = FALSE /\ ~CutOff
    /\ UNCHANGED <<layout, installed, current, package, status, unit, st, updates, ap, clock, overdue, stagings>>

LEMMA GoneEffect == TypeOK /\ (Exit \/ Fall \/ Crash) => GoneDoes
<1>1. SUFFICES ASSUME TypeOK, Exit \/ Fall \/ Crash
               PROVE  GoneDoes
  OBVIOUS
<1>2. hist \in Hist /\ proc' = NoProcess
  BY <1>1 DEF TypeOK, Exit, Fall, Crash, Ends
<1>3. CASE Exit \/ Fall
  BY <1>2, <1>3, Records DEF Exit, Fall, Ends, GoneDoes, diskVars, timeVars
<1>4. CASE Crash
  <2>1. /\ hist'.stuck = hist.stuck /\ hist'.packaged = hist.packaged /\ hist'.late = hist.late
        /\ hist'.healthy = hist.healthy /\ hist'.runs = hist.runs /\ hist'.unsaved = hist.unsaved
        /\ hist'.before = hist.before /\ hist'.refused = hist.refused
        /\ hist'.torn = (hist.torn \/ CutOff)
    BY <1>2, <1>4 DEF Crash, Hist
  <2>2. (hist.torn = TRUE => hist'.torn = TRUE) /\ (hist'.torn = FALSE => hist.torn = FALSE /\ ~CutOff)
    BY <1>2, <2>1 DEF Hist
  <2>3. QED  BY <1>2, <1>4, <2>1, <2>2, Records DEF Crash, Ends, GoneDoes, diskVars, timeVars
<1>5. QED  BY <1>1, <1>3, <1>4

PackageDoes(v) ==
    /\ layout = "staged" /\ pc \in {"down", "run"} /\ hist.packaged = FALSE
    /\ pc' \in IF pc = "run" THEN {"run", "exit"} ELSE {pc}
    /\ package' = v /\ current' \in {current, v}
    /\ v \in installed'
    /\ current' = current /\ current \in installed => current \in installed'
    /\ hist'.packaged = TRUE
    /\ hist'.torn = FALSE => hist.torn = FALSE /\ v # status.cand.version
    /\ hist.torn = TRUE => hist'.torn = TRUE
    /\ hist'.stuck = hist.stuck /\ hist'.late = hist.late /\ hist'.runs = hist.runs
    /\ hist'.unsaved = hist.unsaved
    /\ hist'.refused = hist.refused
    /\ hist.healthy = FALSE => hist'.healthy = FALSE
    /\ current' = current => hist'.healthy = hist.healthy
    /\ hist'.before = IF current' = current THEN hist.before ELSE None
    /\ UNCHANGED <<layout, status, unit, st, updates, ap, proc, prune, clock, overdue, stagings>>

LEMMA PackageEffect == TypeOK => \A v \in Version : PackageInstalls(v) => PackageDoes(v)
<1>1. SUFFICES ASSUME TypeOK, NEW v \in Version, PackageInstalls(v)
               PROVE  PackageDoes(v)
  OBVIOUS
<1>2. hist \in Hist /\ hist.packaged \in BOOLEAN
  BY <1>1 DEF TypeOK, Hist
<1>3. /\ current' \in {current, v} /\ v \in installed'
      /\ current' = current /\ current \in installed => current \in installed'
  BY <1>1 DEF PackageInstalls
<1>4. /\ hist'.packaged = TRUE /\ hist'.torn = (hist.torn \/ v = status.cand.version)
      /\ hist'.stuck = hist.stuck /\ hist'.late = hist.late /\ hist'.runs = hist.runs
      /\ hist'.refused = hist.refused /\ hist'.unsaved = hist.unsaved
      /\ hist'.healthy = (hist.healthy /\ current' = current)
      /\ hist'.before = IF current' = current THEN hist.before ELSE None
  BY <1>1, <1>2 DEF PackageInstalls, Hist
<1>5. /\ hist'.torn = FALSE => hist.torn = FALSE /\ v # status.cand.version
      /\ hist.torn = TRUE => hist'.torn = TRUE
  BY <1>2, <1>4 DEF Hist
<1>6. (hist.healthy = FALSE => hist'.healthy = FALSE) /\ (current' = current => hist'.healthy = hist.healthy)
  BY <1>2, <1>4 DEF Hist
<1>7. QED  BY <1>1, <1>2, <1>3, <1>4, <1>5, <1>6 DEF PackageInstalls, PackageDoes, timeVars

(* "-apply" dies, the agent is told to stop, or time passes. *)
WorldDoes ==
    /\ \/ /\ pc \in Applying /\ pc' = "start" /\ hist' = [hist EXCEPT !.torn = TRUE]
          /\ UNCHANGED <<clock, overdue>>
       \/ pc = "run" /\ pc' = "exit" /\ UNCHANGED <<hist, clock, overdue>>
       \/ UNCHANGED <<pc, hist, clock, faults>>
    /\ UNCHANGED <<layout, installed, current, package, status, unit, st, updates, ap, proc, prune, stagings>>

LEMMA WorldEffect == ApplyDies \/ Cancel \/ TimePasses \/ UNCHANGED vars => WorldDoes
BY DEF ApplyDies, Cancel, TimePasses, vars, WorldDoes, Applying, diskVars, timeVars

-----------------------------------------------------------------------------
(* Every step does one of these things. *)

StepDoes ==
    \/ BootDoes \/ LetGoDoes \/ CountStartDoes \/ RollBackDoes \/ LeaveDoes \/ InstallDoes
    \/ RecordDoes \/ SwitchDoes \/ SaveDoes
    \/ StartStagedDoes \/ StartLegacyDoes \/ RollBackAtStartDoes \/ SaveRollbackDoes
    \/ ConfirmDoes \/ PruneDoes \/ WatchdogStagedDoes \/ WatchdogLegacyDoes
    \/ \E ins \in Instruction : HandleDoes(ins)
    \/ StageFailsDoes \/ StagePlacesDoes \/ StageRecordsDoes \/ StageSwitchesDoes \/ StageDoneDoes
    \/ GoneDoes
    \/ \E v \in Version : PackageDoes(v)
    \/ WorldDoes

LEMMA StepEffect == TypeOK /\ Sound /\ [Next]_vars => StepDoes
BY BootEffect, LetGoEffect, CountStartEffect, RollBackEffect, LeaveEffect, InstallEffect, RecordEffect,
   SwitchEffect, SaveEffect, StartStagedEffect, StartLegacyEffect, RollBackAtStartEffect,
   SaveRollbackEffect, ConfirmEffect, PruneEffect, WatchdogStagedEffect, WatchdogLegacyEffect,
   HandleEffect, StageFailsEffect, StagePlacesEffect, StageRecordsEffect, StageSwitchesEffect,
   StageDoneEffect, GoneEffect, PackageEffect, WorldEffect
   DEF Next, StepDoes

(* What the steps that switch, roll back, fail to or die make of the history. *)
HistDoes ==
    /\ hist' = Switched(hist) =>
           /\ SameExcuses(hist') /\ hist'.healthy = FALSE /\ hist'.runs = 0
           /\ hist'.before = current /\ hist'.refused = hist.refused
           /\ hist'.unsaved = FALSE /\ (prune # {} => hist'.late = TRUE)
    /\ hist' = RolledBack(hist) =>
           /\ SameExcuses(hist') /\ hist'.healthy = FALSE /\ hist'.runs = 0
           /\ hist'.before = None /\ hist'.refused = hist.refused \cup {st.ins}
           /\ hist'.unsaved = FALSE /\ (prune # {} => hist'.late = TRUE)
    /\ hist' = [hist EXCEPT !.stuck = TRUE] =>
           /\ hist'.torn = hist.torn /\ hist'.stuck = TRUE /\ hist'.packaged = hist.packaged
           /\ hist'.late = hist.late /\ hist'.unsaved = hist.unsaved
           /\ hist'.healthy = hist.healthy /\ hist'.runs = hist.runs
           /\ hist'.before = hist.before /\ hist'.refused = hist.refused
    /\ hist' = [hist EXCEPT !.torn = TRUE] =>
           /\ hist'.torn = TRUE /\ hist'.stuck = hist.stuck /\ hist'.packaged = hist.packaged
           /\ hist'.late = hist.late /\ hist'.unsaved = hist.unsaved
           /\ hist'.healthy = hist.healthy /\ hist'.runs = hist.runs
           /\ hist'.before = hist.before /\ hist'.refused = hist.refused

LEMMA HistEffect == TypeOK => HistDoes
<1>1. SUFFICES ASSUME TypeOK
               PROVE  HistDoes
  OBVIOUS
<1>2. hist \in Hist
  BY <1>1 DEF TypeOK
<1>3. LET h == [hist EXCEPT !.torn = TRUE] IN
      /\ h.torn = TRUE /\ h.packaged = hist.packaged /\ h.late = hist.late
      /\ h.stuck = hist.stuck /\ h.unsaved = hist.unsaved
      /\ h.healthy = hist.healthy /\ h.runs = hist.runs
      /\ h.before = hist.before /\ h.refused = hist.refused
  BY <1>2 DEF Hist
<1>4. hist' = Switched(hist) =>
        /\ SameExcuses(hist') /\ hist'.healthy = FALSE /\ hist'.runs = 0
        /\ hist'.before = current /\ hist'.refused = hist.refused
           /\ hist'.unsaved = FALSE /\ (prune # {} => hist'.late = TRUE)
  BY <1>2, HistFields
<1>5. hist' = RolledBack(hist) =>
        /\ SameExcuses(hist') /\ hist'.healthy = FALSE /\ hist'.runs = 0
        /\ hist'.before = None /\ hist'.refused = hist.refused \cup {st.ins}
           /\ hist'.unsaved = FALSE /\ (prune # {} => hist'.late = TRUE)
  BY <1>2, HistFields
<1>6. hist' = [hist EXCEPT !.stuck = TRUE] =>
        /\ hist'.torn = hist.torn /\ hist'.stuck = TRUE /\ hist'.packaged = hist.packaged
        /\ hist'.late = hist.late /\ hist'.unsaved = hist.unsaved
        /\ hist'.healthy = hist.healthy /\ hist'.runs = hist.runs
        /\ hist'.before = hist.before /\ hist'.refused = hist.refused
  BY <1>2, HistFields
<1>7. QED  BY <1>3, <1>4, <1>5, <1>6 DEF HistDoes

-----------------------------------------------------------------------------
(* The parts of the inductive invariant are kept. *)

LEMMA SoundStep == TypeOK /\ Sound /\ StepDoes => Sound'
<1>1. SUFFICES ASSUME TypeOK, Sound, StepDoes
               PROVE  Sound'
  OBVIOUS
<1>2. CASE BootDoes
  BY <1>1, <1>2, Versions DEF BootDoes, agentVars, Sound, TypeOK, Applying, Runs
<1>3. CASE LetGoDoes
  BY <1>1, <1>3, Versions DEF LetGoDoes, agentVars, Sound, TypeOK, Applying, Runs
<1>4. CASE CountStartDoes
  BY <1>1, <1>4, Versions DEF CountStartDoes, agentVars, Sound, TypeOK, Applying, Runs
<1>5. CASE RollBackDoes
  BY <1>1, <1>5, Versions DEF RollBackDoes, agentVars, Sound, TypeOK, Applying, Runs
<1>6. CASE LeaveDoes
  BY <1>1, <1>6, Versions DEF LeaveDoes, agentVars, Sound, TypeOK, Applying, Runs
<1>7. CASE InstallDoes
  BY <1>1, <1>7, Versions DEF InstallDoes, agentVars, Sound, TypeOK, Applying, Runs, Staged
<1>8. CASE RecordDoes
  BY <1>1, <1>8, Versions DEF RecordDoes, agentVars, Sound, TypeOK, Applying, Runs
<1>9. CASE SwitchDoes
  BY <1>1, <1>9, Versions DEF SwitchDoes, agentVars, Sound, TypeOK, Applying, Runs
<1>10. CASE SaveDoes
  BY <1>1, <1>10, Versions DEF SaveDoes, agentVars, Sound, TypeOK, Applying, Runs
<1>11. CASE StartStagedDoes
  BY <1>1, <1>11, Versions DEF StartStagedDoes, rootVars, Settles, StartedFrom, RanFields,
     SameExcuses, Sound, TypeOK, Applying, Runs, Binary
<1>12. CASE StartLegacyDoes
  BY <1>1, <1>12, Versions DEF StartLegacyDoes, rootVars, Settles, RanFields, SameExcuses, Sound,
     TypeOK, Applying, Runs, Binary
<1>13. CASE RollBackAtStartDoes
  BY <1>1, <1>13, Versions DEF RollBackAtStartDoes, rootVars, Settles, UndoDoes, SameExcuses, Sound,
     TypeOK, Applying, Runs, Binary
<1>14. CASE SaveRollbackDoes
  BY <1>1, <1>14, Versions DEF SaveRollbackDoes, rootVars, Settles, Sound, TypeOK, Applying, Runs
<1>15. CASE ConfirmDoes
  BY <1>1, <1>15, Versions DEF ConfirmDoes, rootVars, SameExcuses, Sound, TypeOK, Applying, Runs
<1>16. CASE PruneDoes
  BY <1>1, <1>16, Versions DEF PruneDoes, rootVars, Sound, TypeOK, Applying, Runs
<1>17. CASE WatchdogStagedDoes
  BY <1>1, <1>17, Versions DEF WatchdogStagedDoes, rootVars, SameProcess, Sound, TypeOK, Applying,
     Runs
<1>18. CASE WatchdogLegacyDoes
  BY <1>1, <1>18, Versions DEF WatchdogLegacyDoes, rootVars, Settles, UndoDoes, SameExcuses, Sound,
     TypeOK, Applying, Runs
<1>19. CASE \E ins \in Instruction : HandleDoes(ins)
  BY <1>1, <1>19, Versions DEF HandleDoes, rootVars, SameProcess, SameExcuses, Sound, TypeOK,
     Applying, Runs
<1>20. CASE StageFailsDoes
  BY <1>1, <1>20, Versions DEF StageFailsDoes, rootVars, SameProcess, SavesStatus, Sound, TypeOK,
     Applying, Runs
<1>21. CASE StagePlacesDoes
  BY <1>1, <1>21, Versions DEF StagePlacesDoes, rootVars, SameProcess, Sound, TypeOK, Applying, Runs
<1>22. CASE StageRecordsDoes
  BY <1>1, <1>22, Versions DEF StageRecordsDoes, rootVars, SameProcess, Sound, TypeOK, Applying, Runs
<1>23. CASE StageSwitchesDoes
  BY <1>1, <1>23, Versions DEF StageSwitchesDoes, rootVars, SameProcess, SavesStatus, SameExcuses,
     Sound, TypeOK, Applying, Runs
<1>24. CASE StageDoneDoes
  BY <1>1, <1>24, Versions DEF StageDoneDoes, rootVars, SameProcess, SavesStatus, Sound, TypeOK,
     Applying, Runs
<1>25. CASE GoneDoes
  BY <1>1, <1>25, Versions DEF GoneDoes, Sound, TypeOK, Applying, Runs
<1>26. CASE \E v \in Version : PackageDoes(v)
  BY <1>1, <1>26, Versions DEF PackageDoes, Sound, TypeOK, Applying, Runs
<1>27. CASE WorldDoes
  BY <1>1, <1>27, Versions DEF WorldDoes, Sound, TypeOK, Applying, Runs
<1>28. QED  BY <1>1, <1>2, <1>3, <1>4, <1>5, <1>6, <1>7, <1>8, <1>9, <1>10, <1>11, <1>12, <1>13,
                   <1>14, <1>15, <1>16, <1>17, <1>18, <1>19, <1>20, <1>21, <1>22, <1>23, <1>24, <1>25, <1>26,
                   <1>27 DEF StepDoes

LEMMA StampedStep == TypeOK /\ Stamped /\ StepDoes => Stamped'
<1>1. SUFFICES ASSUME TypeOK, Stamped, StepDoes
               PROVE  Stamped'
  OBVIOUS
<1>2. /\ clock \in Nat /\ NoCandidate.at = 0 /\ st.confAt \in Nat /\ st.stagedAt \in Nat
      /\ status.cand.at \in Nat /\ ap.cand.at \in Nat /\ proc.unsaved \in Nat
  BY <1>1, Records DEF TypeOK, State, Status, Candidate, Process
<1>3. CASE BootDoes
  BY <1>1, <1>2, <1>3 DEF BootDoes, agentVars, Stamped
<1>4. CASE LetGoDoes
  BY <1>1, <1>2, <1>4 DEF LetGoDoes, agentVars, Stamped
<1>5. CASE CountStartDoes
  BY <1>1, <1>2, <1>5 DEF CountStartDoes, agentVars, Stamped
<1>6. CASE RollBackDoes
  BY <1>1, <1>2, <1>6 DEF RollBackDoes, agentVars, Stamped
<1>7. CASE LeaveDoes
  BY <1>1, <1>2, <1>7 DEF LeaveDoes, agentVars, Stamped
<1>8. CASE InstallDoes
  BY <1>1, <1>2, <1>8 DEF InstallDoes, agentVars, Stamped
<1>9. CASE RecordDoes
  BY <1>1, <1>2, <1>9 DEF RecordDoes, agentVars, Stamped
<1>10. CASE SwitchDoes
  BY <1>1, <1>2, <1>10 DEF SwitchDoes, agentVars, Stamped
<1>11. CASE SaveDoes
  BY <1>1, <1>2, <1>11 DEF SaveDoes, agentVars, Stamped
<1>12. CASE StartStagedDoes
  BY <1>1, <1>2, <1>12 DEF StartStagedDoes, rootVars, Settles, StartedFrom, RanFields, SameExcuses,
     Stamped
<1>13. CASE StartLegacyDoes
  BY <1>1, <1>2, <1>13 DEF StartLegacyDoes, rootVars, Settles, RanFields, SameExcuses, Stamped
<1>14. CASE RollBackAtStartDoes
  BY <1>1, <1>2, <1>14 DEF RollBackAtStartDoes, rootVars, Settles, UndoDoes, SameExcuses, Stamped
<1>15. CASE SaveRollbackDoes
  BY <1>1, <1>2, <1>15 DEF SaveRollbackDoes, rootVars, Settles, Stamped
<1>16. CASE ConfirmDoes
  BY <1>1, <1>2, <1>16 DEF ConfirmDoes, rootVars, SameExcuses, Stamped
<1>17. CASE PruneDoes
  BY <1>1, <1>2, <1>17 DEF PruneDoes, rootVars, Stamped
<1>18. CASE WatchdogStagedDoes
  BY <1>1, <1>2, <1>18 DEF WatchdogStagedDoes, rootVars, SameProcess, Stamped
<1>19. CASE WatchdogLegacyDoes
  BY <1>1, <1>2, <1>19 DEF WatchdogLegacyDoes, rootVars, Settles, UndoDoes, SameExcuses, Stamped
<1>20. CASE \E ins \in Instruction : HandleDoes(ins)
  BY <1>1, <1>2, <1>20 DEF HandleDoes, rootVars, SameProcess, SameExcuses, Stamped
<1>21. CASE StageFailsDoes
  BY <1>1, <1>2, <1>21 DEF StageFailsDoes, rootVars, SameProcess, SavesStatus, Stamped
<1>22. CASE StagePlacesDoes
  BY <1>1, <1>2, <1>22 DEF StagePlacesDoes, rootVars, SameProcess, Stamped
<1>23. CASE StageRecordsDoes
  BY <1>1, <1>2, <1>23 DEF StageRecordsDoes, rootVars, SameProcess, Stamped
<1>24. CASE StageSwitchesDoes
  BY <1>1, <1>2, <1>24 DEF StageSwitchesDoes, rootVars, SameProcess, SavesStatus, SameExcuses, Stamped
<1>25. CASE StageDoneDoes
  BY <1>1, <1>2, <1>25 DEF StageDoneDoes, rootVars, SameProcess, SavesStatus, Stamped
<1>26. CASE GoneDoes
  BY <1>1, <1>2, <1>26 DEF GoneDoes, Stamped
<1>27. CASE \E v \in Version : PackageDoes(v)
  BY <1>1, <1>2, <1>27 DEF PackageDoes, Stamped
<1>28. CASE WorldDoes
  BY <1>1, <1>2, <1>28 DEF WorldDoes, Stamped
<1>29. QED  BY <1>1, <1>3, <1>4, <1>5, <1>6, <1>7, <1>8, <1>9, <1>10, <1>11, <1>12, <1>13,
                   <1>14, <1>15, <1>16, <1>17, <1>18, <1>19, <1>20, <1>21, <1>22, <1>23, <1>24, <1>25, <1>26,
                   <1>27, <1>28 DEF StepDoes

LEMMA HandleStoryStep == TypeOK /\ Sound /\ HandleStory /\ StepDoes => HandleStory'
<1>1. SUFFICES ASSUME TypeOK, Sound, HandleStory, StepDoes
               PROVE  HandleStory'
  OBVIOUS
<1>2. CASE BootDoes
  BY <1>1, <1>2, Versions DEF BootDoes, agentVars, HandleStory, Runs, Unlocked, pendingCandidate,
     Applying
<1>3. CASE LetGoDoes
  BY <1>1, <1>3, Versions DEF LetGoDoes, agentVars, HandleStory, Runs, Unlocked, pendingCandidate,
     Applying
<1>4. CASE CountStartDoes
  BY <1>1, <1>4, Versions DEF CountStartDoes, agentVars, HandleStory, Runs, Unlocked,
     pendingCandidate, Applying
<1>5. CASE RollBackDoes
  BY <1>1, <1>5, Versions DEF RollBackDoes, agentVars, HandleStory, Runs, Unlocked, pendingCandidate,
     Applying
<1>6. CASE LeaveDoes
  BY <1>1, <1>6, Versions DEF LeaveDoes, agentVars, HandleStory, Runs, Unlocked, pendingCandidate,
     Applying
<1>7. CASE InstallDoes
  BY <1>1, <1>7, Versions DEF InstallDoes, agentVars, HandleStory, Runs, Unlocked, pendingCandidate,
     Applying
<1>8. CASE RecordDoes
  BY <1>1, <1>8, Versions DEF RecordDoes, agentVars, HandleStory, Runs, Unlocked, pendingCandidate,
     Applying
<1>9. CASE SwitchDoes
  BY <1>1, <1>9, Versions DEF SwitchDoes, agentVars, HandleStory, Runs, Unlocked, pendingCandidate,
     Applying
<1>10. CASE SaveDoes
  BY <1>1, <1>10, Versions DEF SaveDoes, agentVars, HandleStory, Runs, Unlocked, pendingCandidate,
     Applying
<1>11. CASE StartStagedDoes
  BY <1>1, <1>11, Versions DEF StartStagedDoes, rootVars, Settles, StartedFrom, RanFields,
     SameExcuses, HandleStory, Runs, Unlocked, pendingCandidate, Applying
<1>12. CASE StartLegacyDoes
  BY <1>1, <1>12, Versions DEF StartLegacyDoes, rootVars, Settles, RanFields, SameExcuses,
     HandleStory, Runs, Unlocked, pendingCandidate, Applying
<1>13. CASE RollBackAtStartDoes
  BY <1>1, <1>13, Versions DEF RollBackAtStartDoes, rootVars, Settles, UndoDoes, SameExcuses,
     HandleStory, Runs, Unlocked, pendingCandidate, Applying
<1>14. CASE SaveRollbackDoes
  BY <1>1, <1>14, Versions DEF SaveRollbackDoes, rootVars, Settles, HandleStory, Runs, Unlocked,
     pendingCandidate, Applying
<1>15. CASE ConfirmDoes
  BY <1>1, <1>15, Versions DEF ConfirmDoes, rootVars, SameExcuses, HandleStory, Runs, Unlocked,
     pendingCandidate, Applying
<1>16. CASE PruneDoes
  BY <1>1, <1>16, Versions DEF PruneDoes, rootVars, HandleStory, Runs, Unlocked, pendingCandidate,
     Applying
<1>17. CASE WatchdogStagedDoes
  BY <1>1, <1>17, Versions DEF WatchdogStagedDoes, rootVars, SameProcess, HandleStory, Runs, Unlocked,
     pendingCandidate, Applying
<1>18. CASE WatchdogLegacyDoes
  BY <1>1, <1>18, Versions DEF WatchdogLegacyDoes, rootVars, Settles, UndoDoes, SameExcuses,
     HandleStory, Runs, Unlocked, pendingCandidate, Applying
<1>19. CASE \E ins \in Instruction : HandleDoes(ins)
  BY <1>1, <1>19, Versions DEF HandleDoes, rootVars, SameProcess, SameExcuses, HandleStory, Runs,
     Unlocked, pendingCandidate, Applying, skip
<1>20. CASE StageFailsDoes
  BY <1>1, <1>20, Versions DEF StageFailsDoes, rootVars, SameProcess, SavesStatus, HandleStory, Runs,
     Unlocked, pendingCandidate, Applying
<1>21. CASE StagePlacesDoes
  BY <1>1, <1>21, Versions DEF StagePlacesDoes, rootVars, SameProcess, HandleStory, Runs, Unlocked,
     pendingCandidate, Applying
<1>22. CASE StageRecordsDoes
  <2>1. proc.ver \in Nat /\ proc.ins.target \in Nat
    BY <1>1, <1>22, Versions DEF StageRecordsDoes, Sound, Runs
  <2>2. proc.ins.target # proc.ver
    BY <1>1, <1>22, <2>1 DEF StageRecordsDoes, HandleStory, Verified
  <2>3. QED  BY <1>1, <1>22, <2>2
             DEF StageRecordsDoes, SameProcess, HandleStory, Runs, pendingCandidate, Verified
<1>23. CASE StageSwitchesDoes
  BY <1>1, <1>23, Versions DEF StageSwitchesDoes, rootVars, SameProcess, SavesStatus, SameExcuses,
     HandleStory, Runs, Unlocked, pendingCandidate, Applying
<1>24. CASE StageDoneDoes
  BY <1>1, <1>24, Versions DEF StageDoneDoes, rootVars, SameProcess, SavesStatus, HandleStory, Runs,
     Unlocked, pendingCandidate, Applying
<1>25. CASE GoneDoes
  BY <1>1, <1>25, Versions DEF GoneDoes, HandleStory, Runs, Unlocked, pendingCandidate, Applying
<1>26. CASE \E v \in Version : PackageDoes(v)
  BY <1>1, <1>26, Versions DEF PackageDoes, HandleStory, Runs, Unlocked, pendingCandidate, Applying
<1>27. CASE WorldDoes
  BY <1>1, <1>27, Versions DEF WorldDoes, HandleStory, Runs, Unlocked, pendingCandidate, Applying
<1>28. QED  BY <1>1, <1>2, <1>3, <1>4, <1>5, <1>6, <1>7, <1>8, <1>9, <1>10, <1>11, <1>12, <1>13,
                   <1>14, <1>15, <1>16, <1>17, <1>18, <1>19, <1>20, <1>21, <1>22, <1>23, <1>24, <1>25, <1>26,
                   <1>27 DEF StepDoes

LEMMA ApplyStoryStep == TypeOK /\ Sound /\ ApplyStory /\ StepDoes => ApplyStory'
<1>1. SUFFICES ASSUME TypeOK, Sound, ApplyStory, StepDoes
               PROVE  ApplyStory'
  OBVIOUS
<1>2. CASE BootDoes
  BY <1>1, <1>2, Records DEF BootDoes, agentVars, ApplyStory, Applying, NoStatus
<1>3. CASE LetGoDoes
  BY <1>1, <1>3, Records DEF LetGoDoes, agentVars, ApplyStory, Applying
<1>4. CASE CountStartDoes
  BY <1>1, <1>4, Records DEF CountStartDoes, agentVars, ApplyStory, Applying
<1>5. CASE RollBackDoes
  BY <1>1, <1>5, Records DEF RollBackDoes, agentVars, ApplyStory, Applying
<1>6. CASE LeaveDoes
  BY <1>1, <1>6, Records DEF LeaveDoes, agentVars, ApplyStory, Applying
<1>7. CASE InstallDoes
  BY <1>1, <1>7, Records DEF InstallDoes, agentVars, ApplyStory, Applying
<1>8. CASE RecordDoes
  BY <1>1, <1>8, Records DEF RecordDoes, agentVars, ApplyStory, Applying
<1>9. CASE SwitchDoes
  BY <1>1, <1>9, Records DEF SwitchDoes, agentVars, ApplyStory, Applying
<1>10. CASE SaveDoes
  BY <1>1, <1>10, Records DEF SaveDoes, agentVars, ApplyStory, Applying
<1>11. CASE StartStagedDoes
  BY <1>1, <1>11, Records DEF StartStagedDoes, rootVars, Settles, StartedFrom, RanFields, SameExcuses,
     ApplyStory, Applying
<1>12. CASE StartLegacyDoes
  BY <1>1, <1>12, Records DEF StartLegacyDoes, rootVars, Settles, RanFields, SameExcuses, ApplyStory,
     Applying
<1>13. CASE RollBackAtStartDoes
  BY <1>1, <1>13, Records DEF RollBackAtStartDoes, rootVars, Settles, UndoDoes, SameExcuses,
     ApplyStory, Applying
<1>14. CASE SaveRollbackDoes
  BY <1>1, <1>14, Records DEF SaveRollbackDoes, rootVars, Settles, ApplyStory, Applying
<1>15. CASE ConfirmDoes
  BY <1>1, <1>15, Records DEF ConfirmDoes, rootVars, SameExcuses, ApplyStory, Applying
<1>16. CASE PruneDoes
  BY <1>1, <1>16, Records DEF PruneDoes, rootVars, ApplyStory, Applying
<1>17. CASE WatchdogStagedDoes
  BY <1>1, <1>17, Records DEF WatchdogStagedDoes, rootVars, SameProcess, ApplyStory, Applying
<1>18. CASE WatchdogLegacyDoes
  BY <1>1, <1>18, Records DEF WatchdogLegacyDoes, rootVars, Settles, UndoDoes, SameExcuses,
     ApplyStory, Applying
<1>19. CASE \E ins \in Instruction : HandleDoes(ins)
  BY <1>1, <1>19, Records DEF HandleDoes, rootVars, SameProcess, SameExcuses, ApplyStory, Applying
<1>20. CASE StageFailsDoes
  BY <1>1, <1>20, Records DEF StageFailsDoes, rootVars, SameProcess, SavesStatus, ApplyStory, Applying
<1>21. CASE StagePlacesDoes
  BY <1>1, <1>21, Records DEF StagePlacesDoes, rootVars, SameProcess, ApplyStory, Applying
<1>22. CASE StageRecordsDoes
  BY <1>1, <1>22, Records DEF StageRecordsDoes, rootVars, SameProcess, ApplyStory, Applying
<1>23. CASE StageSwitchesDoes
  BY <1>1, <1>23, Records DEF StageSwitchesDoes, rootVars, SameProcess, SavesStatus, SameExcuses,
     ApplyStory, Applying, Runs
<1>24. CASE StageDoneDoes
  BY <1>1, <1>24, Records DEF StageDoneDoes, rootVars, SameProcess, SavesStatus, ApplyStory, Applying
<1>25. CASE GoneDoes
  BY <1>1, <1>25, Records DEF GoneDoes, ApplyStory, Applying
<1>26. CASE \E v \in Version : PackageDoes(v)
  BY <1>1, <1>26, Records DEF PackageDoes, ApplyStory, Applying
<1>27. CASE WorldDoes
  BY <1>1, <1>27, Records DEF WorldDoes, ApplyStory, Applying
<1>28. QED  BY <1>1, <1>2, <1>3, <1>4, <1>5, <1>6, <1>7, <1>8, <1>9, <1>10, <1>11, <1>12, <1>13,
                   <1>14, <1>15, <1>16, <1>17, <1>18, <1>19, <1>20, <1>21, <1>22, <1>23, <1>24, <1>25, <1>26,
                   <1>27 DEF StepDoes

LEMMA ModeStoryStep == TypeOK /\ ApplyStory /\ ModeStory /\ StepDoes => ModeStory'
<1>1. SUFFICES ASSUME TypeOK, ApplyStory, ModeStory, StepDoes
               PROVE  ModeStory'
  OBVIOUS
<1>2. CASE BootDoes
  BY <1>1, <1>2 DEF BootDoes, agentVars, ModeStory, ApplyStory, Applying, Runs
<1>3. CASE LetGoDoes
  BY <1>1, <1>3 DEF LetGoDoes, agentVars, ModeStory, ApplyStory, Applying, Runs
<1>4. CASE CountStartDoes
  BY <1>1, <1>4 DEF CountStartDoes, agentVars, ModeStory, ApplyStory, Applying, Runs
<1>5. CASE RollBackDoes
  BY <1>1, <1>5, HistEffect DEF RollBackDoes, agentVars, ModeStory, ApplyStory, Applying, Runs,
     HistDoes, SameExcuses
<1>6. CASE LeaveDoes
  BY <1>1, <1>6 DEF LeaveDoes, agentVars, ModeStory, ApplyStory, Applying, Runs
<1>7. CASE InstallDoes
  BY <1>1, <1>7 DEF InstallDoes, agentVars, ModeStory, ApplyStory, Applying, Runs
<1>8. CASE RecordDoes
  BY <1>1, <1>8 DEF RecordDoes, agentVars, ModeStory, ApplyStory, Applying, Runs
<1>9. CASE SwitchDoes
  BY <1>1, <1>9, HistEffect DEF SwitchDoes, agentVars, ModeStory, ApplyStory, Applying, Runs,
     HistDoes, SameExcuses
<1>10. CASE SaveDoes
  BY <1>1, <1>10 DEF SaveDoes, agentVars, ModeStory, ApplyStory, Applying, Runs
<1>11. CASE StartStagedDoes
  BY <1>1, <1>11 DEF StartStagedDoes, rootVars, Settles, StartedFrom, RanFields, SameExcuses,
     ModeStory, ApplyStory, Applying, Runs, Binary, Mode
<1>12. CASE StartLegacyDoes
  BY <1>1, <1>12 DEF StartLegacyDoes, rootVars, Settles, RanFields, SameExcuses, ModeStory,
     ApplyStory, Applying, Runs, Binary, Mode
<1>13. CASE RollBackAtStartDoes
  BY <1>1, <1>13, HistEffect DEF RollBackAtStartDoes, rootVars, Settles, UndoDoes, SameExcuses,
     ModeStory, ApplyStory, Applying, Runs, HistDoes, Binary, Mode
<1>14. CASE SaveRollbackDoes
  BY <1>1, <1>14 DEF SaveRollbackDoes, rootVars, Settles, ModeStory, ApplyStory, Applying, Runs
<1>15. CASE ConfirmDoes
  BY <1>1, <1>15 DEF ConfirmDoes, rootVars, SameExcuses, ModeStory, ApplyStory, Applying, Runs
<1>16. CASE PruneDoes
  BY <1>1, <1>16 DEF PruneDoes, rootVars, ModeStory, ApplyStory, Applying, Runs
<1>17. CASE WatchdogStagedDoes
  BY <1>1, <1>17 DEF WatchdogStagedDoes, rootVars, SameProcess, ModeStory, ApplyStory, Applying, Runs
<1>18. CASE WatchdogLegacyDoes
  BY <1>1, <1>18, HistEffect DEF WatchdogLegacyDoes, rootVars, Settles, UndoDoes, SameExcuses,
     ModeStory, ApplyStory, Applying, Runs, HistDoes
<1>19. CASE \E ins \in Instruction : HandleDoes(ins)
  BY <1>1, <1>19 DEF HandleDoes, rootVars, SameProcess, SameExcuses, ModeStory, ApplyStory, Applying,
     Runs
<1>20. CASE StageFailsDoes
  BY <1>1, <1>20 DEF StageFailsDoes, rootVars, SameProcess, SavesStatus, ModeStory, ApplyStory,
     Applying, Runs
<1>21. CASE StagePlacesDoes
  BY <1>1, <1>21 DEF StagePlacesDoes, rootVars, SameProcess, ModeStory, ApplyStory, Applying, Runs
<1>22. CASE StageRecordsDoes
  BY <1>1, <1>22 DEF StageRecordsDoes, rootVars, SameProcess, ModeStory, ApplyStory, Applying, Runs
<1>23. CASE StageSwitchesDoes
  BY <1>1, <1>23, HistEffect DEF StageSwitchesDoes, rootVars, SameProcess, SavesStatus, SameExcuses,
     ModeStory, ApplyStory, Applying, Runs, HistDoes
<1>24. CASE StageDoneDoes
  BY <1>1, <1>24 DEF StageDoneDoes, rootVars, SameProcess, SavesStatus, ModeStory, ApplyStory,
     Applying, Runs
<1>25. CASE GoneDoes
  BY <1>1, <1>25 DEF GoneDoes, ModeStory, ApplyStory, Applying, Runs
<1>26. CASE \E v \in Version : PackageDoes(v)
  BY <1>1, <1>26 DEF PackageDoes, ModeStory, ApplyStory, Applying, Runs
<1>27. CASE WorldDoes
  BY <1>1, <1>27, HistEffect DEF WorldDoes, ModeStory, ApplyStory, Applying, Runs, HistDoes,
     SameExcuses
<1>28. QED  BY <1>1, <1>2, <1>3, <1>4, <1>5, <1>6, <1>7, <1>8, <1>9, <1>10, <1>11, <1>12, <1>13,
                   <1>14, <1>15, <1>16, <1>17, <1>18, <1>19, <1>20, <1>21, <1>22, <1>23, <1>24, <1>25, <1>26,
                   <1>27 DEF StepDoes

LEMMA CandidateStoryStep ==
    TypeOK /\ Sound /\ HandleStory /\ ApplyStory /\ ModeStory /\ CandidateStory /\ StepDoes => CandidateStory'
<1>1. SUFFICES ASSUME TypeOK, Sound, HandleStory, ApplyStory, ModeStory, CandidateStory, StepDoes
               PROVE  CandidateStory'
  OBVIOUS
<1>2. CASE BootDoes
  BY <1>1, <1>2, Records, Versions DEF BootDoes, agentVars, CandidateStory, ApplyStory, ModeStory,
     Applying, TypeOK, Runs
<1>3. CASE LetGoDoes
  BY <1>1, <1>3, Records, Versions DEF LetGoDoes, agentVars, CandidateStory, ApplyStory, ModeStory,
     Applying, TypeOK, Runs
<1>4. CASE CountStartDoes
  BY <1>1, <1>4, Records, Versions DEF CountStartDoes, agentVars, CandidateStory, ApplyStory,
     ModeStory, Applying, TypeOK, Runs
<1>5. CASE RollBackDoes
  BY <1>1, <1>5, HistEffect, Records, Versions DEF RollBackDoes, agentVars, CandidateStory,
     ApplyStory, ModeStory, Applying, TypeOK, Runs, HistDoes, SameExcuses
<1>6. CASE LeaveDoes
  BY <1>1, <1>6, Records, Versions DEF LeaveDoes, agentVars, CandidateStory, ApplyStory, ModeStory,
     Applying, TypeOK, Runs
<1>7. CASE InstallDoes
  BY <1>1, <1>7, Records, Versions DEF InstallDoes, agentVars, CandidateStory, ApplyStory, ModeStory,
     Applying, TypeOK, Runs
<1>8. CASE RecordDoes
  BY <1>1, <1>8, Records, Versions DEF RecordDoes, agentVars, CandidateStory, ApplyStory, ModeStory,
     Applying, TypeOK, Runs
<1>9. CASE SwitchDoes
  BY <1>1, <1>9, HistEffect, Records, Versions DEF SwitchDoes, agentVars, CandidateStory, ApplyStory,
     ModeStory, Applying, TypeOK, Runs, HistDoes, SameExcuses
<1>10. CASE SaveDoes
  BY <1>1, <1>10, Records, Versions DEF SaveDoes, agentVars, CandidateStory, ApplyStory, ModeStory,
     Applying, TypeOK, Runs
<1>11. CASE StartStagedDoes
  BY <1>1, <1>11, Records, Versions DEF StartStagedDoes, rootVars, Settles, StartedFrom, RanFields,
     SameExcuses, CandidateStory, ApplyStory, ModeStory, Applying, TypeOK, Runs, Binary, Mode
<1>12. CASE StartLegacyDoes
  BY <1>1, <1>12, Records, Versions DEF StartLegacyDoes, rootVars, Settles, RanFields, SameExcuses,
     CandidateStory, ApplyStory, ModeStory, Applying, TypeOK, Runs, Binary, Mode
<1>13. CASE RollBackAtStartDoes
  BY <1>1, <1>13, HistEffect, Records, Versions DEF RollBackAtStartDoes, rootVars, Settles, UndoDoes,
     SameExcuses, CandidateStory, ApplyStory, ModeStory, Applying, TypeOK, Runs, HistDoes, Binary,
     Mode
<1>14. CASE SaveRollbackDoes
  BY <1>1, <1>14, Records, Versions DEF SaveRollbackDoes, rootVars, Settles, CandidateStory,
     ApplyStory, ModeStory, Applying, TypeOK, Runs
<1>15. CASE ConfirmDoes
  BY <1>1, <1>15, Records, Versions DEF ConfirmDoes, rootVars, SameExcuses, CandidateStory,
     ApplyStory, ModeStory, Applying, TypeOK, Runs
<1>16. CASE PruneDoes
  BY <1>1, <1>16, Records, Versions DEF PruneDoes, rootVars, CandidateStory, ApplyStory, ModeStory,
     Applying, TypeOK, Runs
<1>17. CASE WatchdogStagedDoes
  BY <1>1, <1>17, Records, Versions DEF WatchdogStagedDoes, rootVars, SameProcess, CandidateStory,
     ApplyStory, ModeStory, Applying, TypeOK, Runs
<1>18. CASE WatchdogLegacyDoes
  BY <1>1, <1>18, HistEffect, Records, Versions DEF WatchdogLegacyDoes, rootVars, Settles, UndoDoes,
     SameExcuses, CandidateStory, ApplyStory, ModeStory, Applying, TypeOK, Runs, HistDoes
<1>19. CASE \E ins \in Instruction : HandleDoes(ins)
  BY <1>1, <1>19, Records, Versions DEF HandleDoes, rootVars, SameProcess, SameExcuses,
     CandidateStory, ApplyStory, ModeStory, Applying, TypeOK, Runs
<1>20. CASE StageFailsDoes
  BY <1>1, <1>20, Records, Versions DEF StageFailsDoes, rootVars, SameProcess, SavesStatus,
     CandidateStory, ApplyStory, ModeStory, Applying, TypeOK, Runs
<1>21. CASE StagePlacesDoes
  BY <1>1, <1>21, Records, Versions DEF StagePlacesDoes, rootVars, SameProcess, CandidateStory,
     ApplyStory, ModeStory, Applying, TypeOK, Runs
<1>22. CASE StageRecordsDoes
  BY <1>1, <1>22, Records, Versions DEF StageRecordsDoes, rootVars, SameProcess, CandidateStory,
     ApplyStory, ModeStory, Applying, TypeOK, Runs
<1>23. CASE StageSwitchesDoes
  BY <1>1, <1>23, HistEffect, Records, Versions DEF StageSwitchesDoes, rootVars, SameProcess,
     SavesStatus, SameExcuses, CandidateStory, ApplyStory, ModeStory, Applying, TypeOK, Runs,
     HistDoes, HandleStory
<1>24. CASE StageDoneDoes
  BY <1>1, <1>24, Records, Versions DEF StageDoneDoes, rootVars, SameProcess, SavesStatus,
     CandidateStory, ApplyStory, ModeStory, Applying, TypeOK, Runs
<1>25. CASE GoneDoes
  BY <1>1, <1>25, Records, Versions DEF GoneDoes, CandidateStory, ApplyStory, ModeStory, Applying,
     TypeOK, Runs
<1>26. CASE \E v \in Version : PackageDoes(v)
  BY <1>1, <1>26, Records, Versions DEF PackageDoes, CandidateStory, ApplyStory, ModeStory, Applying,
     TypeOK, Runs
<1>27. CASE WorldDoes
  BY <1>1, <1>27, HistEffect, Records, Versions DEF WorldDoes, CandidateStory, ApplyStory, ModeStory,
     Applying, TypeOK, Runs, HistDoes, SameExcuses
<1>28. QED  BY <1>1, <1>2, <1>3, <1>4, <1>5, <1>6, <1>7, <1>8, <1>9, <1>10, <1>11, <1>12, <1>13,
                   <1>14, <1>15, <1>16, <1>17, <1>18, <1>19, <1>20, <1>21, <1>22, <1>23, <1>24, <1>25, <1>26,
                   <1>27 DEF StepDoes

LEMMA LegacyStoryStep ==
    TypeOK /\ Sound /\ HandleStory /\ ApplyStory /\ ModeStory /\ LegacyStory /\ StepDoes => LegacyStory'
<1>1. SUFFICES ASSUME TypeOK, Sound, HandleStory, ApplyStory, ModeStory, LegacyStory, StepDoes
               PROVE  LegacyStory'
  OBVIOUS
<1>2. CASE BootDoes
  BY <1>1, <1>2, Versions DEF BootDoes, agentVars, LegacyStory, HandleStory, Runs, Unlocked,
     pendingCandidate, Applying, ApplyStory, TypeOK
<1>3. CASE LetGoDoes
  BY <1>1, <1>3, Versions DEF LetGoDoes, agentVars, LegacyStory, HandleStory, Runs, Unlocked,
     pendingCandidate, Applying, ApplyStory, TypeOK
<1>4. CASE CountStartDoes
  BY <1>1, <1>4, Versions DEF CountStartDoes, agentVars, LegacyStory, HandleStory, Runs, Unlocked,
     pendingCandidate, Applying, ApplyStory, TypeOK
<1>5. CASE RollBackDoes
  BY <1>1, <1>5, HistEffect, Versions DEF RollBackDoes, agentVars, LegacyStory, HandleStory, Runs,
     Unlocked, pendingCandidate, Applying, ApplyStory, TypeOK, HistDoes, SameExcuses
<1>6. CASE LeaveDoes
  BY <1>1, <1>6, Versions DEF LeaveDoes, agentVars, LegacyStory, HandleStory, Runs, Unlocked,
     pendingCandidate, Applying, ApplyStory, TypeOK
<1>7. CASE InstallDoes
  BY <1>1, <1>7, Versions DEF InstallDoes, agentVars, LegacyStory, HandleStory, Runs, Unlocked,
     pendingCandidate, Applying, ApplyStory, TypeOK
<1>8. CASE RecordDoes
  BY <1>1, <1>8, Versions DEF RecordDoes, agentVars, LegacyStory, HandleStory, Runs, Unlocked,
     pendingCandidate, Applying, ApplyStory, TypeOK
<1>9. CASE SwitchDoes
  BY <1>1, <1>9, HistEffect, Versions DEF SwitchDoes, agentVars, LegacyStory, HandleStory, Runs,
     Unlocked, pendingCandidate, Applying, ApplyStory, TypeOK, HistDoes, SameExcuses
<1>10. CASE SaveDoes
  BY <1>1, <1>10, Versions DEF SaveDoes, agentVars, LegacyStory, HandleStory, Runs, Unlocked,
     pendingCandidate, Applying, ApplyStory, TypeOK
<1>11. CASE StartStagedDoes
  BY <1>1, <1>11, Versions DEF StartStagedDoes, rootVars, Settles, StartedFrom, RanFields,
     SameExcuses, LegacyStory, HandleStory, Runs, Unlocked, pendingCandidate, Applying, ApplyStory,
     TypeOK, Binary, Mode
<1>12. CASE StartLegacyDoes
  BY <1>1, <1>12, Versions DEF StartLegacyDoes, rootVars, Settles, RanFields, SameExcuses,
     LegacyStory, HandleStory, Runs, Unlocked, pendingCandidate, Applying, ApplyStory, TypeOK,
     Binary, Mode
<1>13. CASE RollBackAtStartDoes
  BY <1>1, <1>13, HistEffect, Versions DEF RollBackAtStartDoes, rootVars, Settles, UndoDoes,
     SameExcuses, LegacyStory, HandleStory, Runs, Unlocked, pendingCandidate, Applying, ApplyStory,
     TypeOK, HistDoes, Binary, Mode
<1>14. CASE SaveRollbackDoes
  BY <1>1, <1>14, Versions DEF SaveRollbackDoes, rootVars, Settles, LegacyStory, HandleStory, Runs,
     Unlocked, pendingCandidate, Applying, ApplyStory, TypeOK
<1>15. CASE ConfirmDoes
  BY <1>1, <1>15, Versions DEF ConfirmDoes, rootVars, SameExcuses, LegacyStory, HandleStory, Runs,
     Unlocked, pendingCandidate, Applying, ApplyStory, TypeOK
<1>16. CASE PruneDoes
  BY <1>1, <1>16, Versions DEF PruneDoes, rootVars, LegacyStory, HandleStory, Runs, Unlocked,
     pendingCandidate, Applying, ApplyStory, TypeOK
<1>17. CASE WatchdogStagedDoes
  BY <1>1, <1>17, Versions DEF WatchdogStagedDoes, rootVars, SameProcess, LegacyStory, HandleStory,
     Runs, Unlocked, pendingCandidate, Applying, ApplyStory, TypeOK
<1>18. CASE WatchdogLegacyDoes
  BY <1>1, <1>18, HistEffect, Versions DEF WatchdogLegacyDoes, rootVars, Settles, UndoDoes,
     SameExcuses, LegacyStory, HandleStory, Runs, Unlocked, pendingCandidate, Applying, ApplyStory,
     TypeOK, HistDoes
<1>19. CASE \E ins \in Instruction : HandleDoes(ins)
  BY <1>1, <1>19, Versions DEF HandleDoes, rootVars, SameProcess, SameExcuses, LegacyStory,
     HandleStory, Runs, Unlocked, pendingCandidate, Applying, ApplyStory, TypeOK
<1>20. CASE StageFailsDoes
  BY <1>1, <1>20, Versions DEF StageFailsDoes, rootVars, SameProcess, SavesStatus, LegacyStory,
     HandleStory, Runs, Unlocked, pendingCandidate, Applying, ApplyStory, TypeOK
<1>21. CASE StagePlacesDoes
  BY <1>1, <1>21, Versions DEF StagePlacesDoes, rootVars, SameProcess, LegacyStory, HandleStory, Runs,
     Unlocked, pendingCandidate, Applying, ApplyStory, TypeOK
<1>22. CASE StageRecordsDoes
  <2>1. proc.ver \in Nat /\ proc.ins.target \in Nat
    BY <1>1, <1>22, Versions DEF StageRecordsDoes, Sound, Runs
  <2>2. proc.ins.target # proc.ver
    BY <1>1, <1>22, <2>1 DEF StageRecordsDoes, HandleStory, Verified
  <2>3. QED  BY <1>1, <1>22, <2>2
             DEF StageRecordsDoes, SameProcess, rootVars, LegacyStory, HandleStory, Runs
<1>23. CASE StageSwitchesDoes
  BY <1>1, <1>23, HistEffect, Versions DEF StageSwitchesDoes, rootVars, SameProcess, SavesStatus,
     SameExcuses, LegacyStory, HandleStory, Runs, Unlocked, pendingCandidate, Applying, ApplyStory,
     TypeOK, HistDoes
<1>24. CASE StageDoneDoes
  BY <1>1, <1>24, Versions DEF StageDoneDoes, rootVars, SameProcess, SavesStatus, LegacyStory,
     HandleStory, Runs, Unlocked, pendingCandidate, Applying, ApplyStory, TypeOK
<1>25. CASE GoneDoes
  BY <1>1, <1>25, Versions DEF GoneDoes, LegacyStory, HandleStory, Runs, Unlocked, pendingCandidate,
     Applying, ApplyStory, TypeOK
<1>26. CASE \E v \in Version : PackageDoes(v)
  BY <1>1, <1>26, Versions DEF PackageDoes, LegacyStory, HandleStory, Runs, Unlocked,
     pendingCandidate, Applying, ApplyStory, TypeOK
<1>27. CASE WorldDoes
  BY <1>1, <1>27, HistEffect, Versions DEF WorldDoes, LegacyStory, HandleStory, Runs, Unlocked,
     pendingCandidate, Applying, ApplyStory, TypeOK, HistDoes, SameExcuses
<1>28. QED  BY <1>1, <1>2, <1>3, <1>4, <1>5, <1>6, <1>7, <1>8, <1>9, <1>10, <1>11, <1>12, <1>13,
                   <1>14, <1>15, <1>16, <1>17, <1>18, <1>19, <1>20, <1>21, <1>22, <1>23, <1>24, <1>25, <1>26,
                   <1>27 DEF StepDoes

LEMMA InitIInv == Init => IInv
<1>1. SUFFICES ASSUME Init
               PROVE  IInv
  OBVIOUS
<1>2. /\ st.previous = None /\ st.candidate = None /\ st.attempts = 0 /\ st.stagedAt = 0
      /\ st.confirmed = FALSE /\ st.status = "idle" /\ st.ins = NoIns /\ st.staged = None
      /\ st.confVer = None /\ st.confAt = 0 /\ st.rollback = None
  BY <1>1 DEF Init
<1>3. /\ st \in State /\ hist \in Hist
      /\ hist.torn = FALSE /\ hist.before = None /\ hist.healthy = FALSE /\ hist.runs = 0
      /\ hist.refused = {}
  BY <1>1 DEF Init, State, Reported, Hist
<1>4. TypeOK
  <2>1. /\ layout \in Layouts /\ pc = "down" /\ installed = {First} /\ current = First
        /\ package \in {First, None}
        /\ status = NoStatus /\ unit = FALSE /\ updates = None /\ ap = NoStatus /\ proc = NoProcess
        /\ prune = {} /\ clock = 0 /\ overdue = 0 /\ stagings = 0 /\ faults = 0
    BY <1>1 DEF Init
  <2>2. First \in Version /\ 0 \in 0..MaxStagings /\ 0 \in 0..MaxFaults
    BY UpdateAssumption
  <2>3. clock \in Nat /\ overdue \in 0..clock /\ stagings \in 0..MaxStagings /\ faults \in 0..MaxFaults
    BY <2>1, <2>2
  <2>4. installed \subseteq Version /\ prune \subseteq Version /\ current \in Version /\ package \in Version \cup {None}
    BY <2>1, <2>2
  <2>5. QED  BY <1>3, <2>1, <2>3, <2>4, Records DEF TypeOK
<1>5. /\ pc = "down" /\ installed = {First} /\ current = First /\ clock = 0
      /\ status = NoStatus /\ ap = NoStatus /\ proc.h = "idle" /\ proc.unsaved = 0
      /\ NoStatus.cand.version = None /\ NoStatus.cand.at = 0 /\ First # None
  BY <1>1, Records, Versions, UpdateAssumption DEF Init
<1>6. Sound /\ Stamped /\ HandleStory
  BY <1>2, <1>5 DEF Sound, Stamped, HandleStory, Verified
<1>7. ApplyStory /\ ModeStory /\ CandidateStory
  BY <1>5, Records DEF ApplyStory, ModeStory, CandidateStory, Applying
<1>8. LegacyStory
  BY <1>2, <1>5 DEF LegacyStory, Runs
<1>9. QED  BY <1>4, <1>6, <1>7, <1>8 DEF IInv

LEMMA StepIInv == IInv /\ [Next]_vars => IInv' /\ StepDoes
<1>1. SUFFICES ASSUME IInv, [Next]_vars
               PROVE  IInv' /\ StepDoes
  OBVIOUS
<1>2. TypeOK'
  BY <1>1, TypeStep DEF IInv
<1>3. StepDoes
  BY <1>1, StepEffect DEF IInv
<1>4. QED
  BY <1>1, <1>2, <1>3, SoundStep, StampedStep, HandleStoryStep, ApplyStoryStep, ModeStoryStep,
     CandidateStoryStep, LegacyStoryStep
  DEF IInv

-----------------------------------------------------------------------------
(* The theorems. *)

(* Every state that the agent, "-apply", faults and the package manager can reach satisfies IInv. *)
THEOREM Invariance == Spec => []IInv
<1>1. IInv /\ UNCHANGED vars => IInv'
  BY StepIInv
<1>2. QED  BY InitIInv, StepIInv, <1>1, PTL DEF Spec

(* Only checkCandidate and rollbackLocked switch back. *)
LEMMA OnlyRollbacks ==
    StepDoes /\ RollsBack => RollBackDoes \/ RollBackAtStartDoes \/ WatchdogLegacyDoes
BY DEF RollsBack, StepDoes, BootDoes, LetGoDoes, CountStartDoes, LeaveDoes, InstallDoes, RecordDoes,
       SwitchDoes, SaveDoes, StartStagedDoes, StartLegacyDoes, SaveRollbackDoes, ConfirmDoes,
       PruneDoes, WatchdogStagedDoes, HandleDoes, StageFailsDoes, StagePlacesDoes, StageRecordsDoes,
       StageSwitchesDoes, StageDoneDoes, GoneDoes, PackageDoes, WorldDoes, Runs

(***************************************************************************)
(* Switching back, by checkCandidate or by rollbackLocked, leads to the    *)
(* version that was current before the switch, unless a start was cut off  *)
(* or a package replaced the candidate (torn).                             *)
(***************************************************************************)
THEOREM RollbackGoesBack == Spec => RollbackToPrevious
<1>1. IInv /\ [Next]_vars => (RollsBack => current' = hist.before \/ hist.torn)
  <2>1. SUFFICES ASSUME IInv, [Next]_vars, RollsBack, hist.torn = FALSE
                 PROVE  current' = hist.before
    BY DEF IInv, TypeOK, Hist
  <2>2. StepDoes
    BY <2>1, StepIInv
  <2>3. CASE RollBackDoes
    BY <2>1, <2>3 DEF RollsBack, RollBackDoes, IInv, ApplyStory, CandidateStory
  <2>4. CASE RollBackAtStartDoes
    BY <2>1, <2>4, Versions
    DEF RollsBack, RollBackAtStartDoes, UndoDoes, Settles, IInv, LegacyStory, ModeStory, Mode, Binary,
        Unstaged, pendingCandidate
  <2>5. CASE WatchdogLegacyDoes
    BY <2>1, <2>5
    DEF RollsBack, WatchdogLegacyDoes, UndoDoes, IInv, LegacyStory, HandleStory, ModeStory, Runs,
        pendingCandidate
  <2>6. CASE ~RollBackDoes /\ ~RollBackAtStartDoes /\ ~WatchdogLegacyDoes
    BY <2>1, <2>2, <2>6, OnlyRollbacks
  <2>7. QED  BY <2>3, <2>4, <2>5, <2>6
<1>2. QED  BY Invariance, <1>1, PTL DEF Spec, RollbackToPrevious

-----------------------------------------------------------------------------
(* A version that exports is left alone, and only such a version is accepted. *)

(* What is staged is handled once, at the time it carries. *)
QueueStory ==
    /\ status.handled <= clock /\ ap.handled <= clock
    /\ pc \in {"check", "install"} => ap.handled = status.handled
    /\ pc = "check" => ap.result = "none"
    /\ pc \in Applying => ap.carried = FALSE
    /\ hist.torn = FALSE /\ layout # "legacy" =>
        /\ st.staged # None /\ st.stagedAt # status.handled =>
               st.candidate = st.staged /\ st.confirmed = FALSE
        /\ pc \in {"record", "switch"} =>
               st.candidate = st.staged /\ st.confirmed = FALSE /\ st.stagedAt = ap.handled
        /\ pc = "save" /\ st.staged # None => st.stagedAt = ap.handled
        /\ pc = "start" /\ st.staged # None => st.stagedAt = status.handled
        /\ Runs /\ st.staged # None /\ st.stagedAt # status.handled => proc.h = "done"

(* The agent of an installation with "-apply" runs what the link names, unless a package changed it. *)
RunningStory ==
    hist.torn = FALSE /\ layout # "legacy" =>
        /\ pc = "save" /\ ap.result \notin {"switched", "rolled_back"} => proc.ver = current
        /\ pc = "start" /\ layout = "native" => proc.ver = current
        /\ Runs /\ (hist.packaged = FALSE \/ status.cand.version = current) => proc.ver = current
        /\ hist.packaged = TRUE => layout = "staged"

(* The start that switched and exited is still to be reported. *)
Unreported ==
    /\ layout = "native" /\ status.carried = FALSE /\ status.cur = current
    /\ status.result = "switched" /\ status.to = current

(* "-apply" has switched and has yet to save that. *)
JustSwitched == pc = "save" /\ ap.result = "switched"

(* Of the candidate that "-apply" watches no export is on record, and the agent knows that it is one. *)
Unproved ==
    /\ pendingCandidate(st, current) /\ (hist.healthy = FALSE \/ hist.unsaved = TRUE)
    /\ ~JustSwitched => status.result \in {"none", "switched"}
    /\ st.staged # None =>
           /\ st.staged = current /\ st.stagedAt = status.handled
           /\ pc = "start" => status.result = "switched" /\ status.to = current
           /\ pc # "start" /\ ~JustSwitched => Unreported

WatchedStory ==
    hist.torn = FALSE /\ layout # "legacy" =>
        /\ pc = "switch" => st.confAt < ap.cand.at
        /\ status.cand.version = current => Confirmed(status.cand) \/ Unproved
        /\ pc = "save" /\ ap.cand.version = current =>
               /\ status.cand.version = current /\ status.cand.at = ap.cand.at
               /\ ~Confirmed(ap.cand) /\ Unproved
               /\ \/ ap.result = "switched" /\ ap.to = current
                  \/ /\ ap.result = "none" /\ status.result \in {"none", "switched"}
                     /\ st.staged # None => Unreported
        /\ Runs /\ proc.ver = current /\ status.cand.version = current =>
               Confirmed(status.cand) \/ proc.settled = FALSE \/ hist.unsaved = TRUE

(* An agent without "-apply" confirms its own candidate, once. *)
SettledStory ==
    /\ Runs /\ pendingCandidate(st, proc.ver) => proc.settled = FALSE \/ hist.unsaved = TRUE
    /\ layout = "legacy" /\ hist.torn = FALSE /\ pendingCandidate(st, current) =>
           hist.healthy = FALSE \/ hist.unsaved = TRUE

(* A confirmation that only the process knows of is one of the pending candidate. *)
UnsavedStory ==
    proc.unsaved # 0 =>
        /\ Runs /\ proc.h = "idle" /\ proc.settled = TRUE /\ pendingCandidate(st, proc.ver)
        /\ hist.unsaved = TRUE
        /\ layout = "legacy" /\ proc.ver = current => hist.healthy = TRUE
        /\ hist.torn = FALSE /\ layout # "legacy" /\ status.cand.version = current =>
               proc.unsaved > status.cand.at /\ hist.healthy = TRUE

(* What is confirmed has exported since it became current. *)
AcceptStory ==
    /\ hist.torn = FALSE /\ layout # "legacy"
    /\ status.cand.version = current /\ Confirmed(status.cand)
    => hist.healthy = TRUE

ProofInv == QueueStory /\ RunningStory /\ WatchedStory /\ SettledStory /\ UnsavedStory /\ AcceptStory

LEMMA QueueStoryStep == IInv /\ ProofInv /\ StepDoes => QueueStory'
<1>1. SUFFICES ASSUME IInv, ProofInv, StepDoes
               PROVE  QueueStory'
  OBVIOUS
<1>2. QueueStory /\ ApplyStory /\ ModeStory /\ HandleStory /\ RunningStory /\ WatchedStory
  BY <1>1 DEF IInv, ProofInv
<1>3. TypeOK /\ Sound /\ Stamped /\ clock \in Nat /\ status.handled \in Nat /\ ap.handled \in Nat
      /\ NoStatus.handled = 0 /\ st.stagedAt <= clock /\ st.stagedAt \in Nat
  BY <1>1 DEF IInv, TypeOK, Status, State, Stamped, NoStatus
<1>4. CASE BootDoes
  BY <1>1, <1>2, <1>3, <1>4 DEF BootDoes, agentVars, QueueStory, ApplyStory, Applying, Runs
<1>5. CASE LetGoDoes
  BY <1>1, <1>2, <1>3, <1>5 DEF LetGoDoes, agentVars, QueueStory, ApplyStory, Applying, Runs
<1>6. CASE CountStartDoes
  BY <1>1, <1>2, <1>3, <1>6 DEF CountStartDoes, agentVars, QueueStory, ApplyStory, Applying, Runs,
     WatchedStory, Unproved
<1>7. CASE RollBackDoes
  BY <1>1, <1>2, <1>3, <1>7, HistEffect DEF RollBackDoes, agentVars, QueueStory, ApplyStory, Applying,
     Runs, HistDoes, SameExcuses, WatchedStory, Unproved
<1>8. CASE LeaveDoes
  BY <1>1, <1>2, <1>3, <1>8 DEF LeaveDoes, agentVars, QueueStory, ApplyStory, Applying, Runs, Staged
<1>9. CASE InstallDoes
  BY <1>1, <1>2, <1>3, <1>9 DEF InstallDoes, agentVars, QueueStory, ApplyStory, Applying, Runs, Staged
<1>10. CASE RecordDoes
  BY <1>1, <1>2, <1>3, <1>10 DEF RecordDoes, agentVars, QueueStory, ApplyStory, Applying, Runs
<1>11. CASE SwitchDoes
  BY <1>1, <1>2, <1>3, <1>11, HistEffect DEF SwitchDoes, agentVars, QueueStory, ApplyStory, Applying,
     Runs, HistDoes, SameExcuses
<1>12. CASE SaveDoes
  BY <1>1, <1>2, <1>3, <1>12 DEF SaveDoes, agentVars, QueueStory, ApplyStory, Applying, Runs
<1>13. CASE StartStagedDoes
  BY <1>1, <1>2, <1>3, <1>13 DEF StartStagedDoes, rootVars, Settles, StartedFrom, RanFields,
     SameExcuses, QueueStory, ApplyStory, Applying, Runs, Binary, Mode
<1>14. CASE StartLegacyDoes
  BY <1>1, <1>2, <1>3, <1>14 DEF StartLegacyDoes, rootVars, Settles, RanFields, SameExcuses,
     QueueStory, ApplyStory, Applying, Runs, Binary, Mode
<1>15. CASE RollBackAtStartDoes
  BY <1>1, <1>2, <1>3, <1>15, HistEffect DEF RollBackAtStartDoes, rootVars, Settles, UndoDoes,
     SameExcuses, QueueStory, ApplyStory, Applying, Runs, HistDoes, ModeStory, Mode, Binary
<1>16. CASE SaveRollbackDoes
  BY <1>1, <1>2, <1>3, <1>16 DEF SaveRollbackDoes, rootVars, Settles, QueueStory, ApplyStory,
     Applying, Runs, ModeStory
<1>17. CASE ConfirmDoes
  BY <1>1, <1>2, <1>3, <1>17 DEF ConfirmDoes, rootVars, SameExcuses, QueueStory, ApplyStory, Applying,
     Runs, HandleStory, pendingCandidate
<1>18. CASE PruneDoes
  BY <1>1, <1>2, <1>3, <1>18 DEF PruneDoes, rootVars, QueueStory, ApplyStory, Applying, Runs
<1>19. CASE WatchdogStagedDoes
  BY <1>1, <1>2, <1>3, <1>19 DEF WatchdogStagedDoes, rootVars, SameProcess, QueueStory, ApplyStory,
     Applying, Runs
<1>20. CASE WatchdogLegacyDoes
  BY <1>1, <1>2, <1>3, <1>20, HistEffect DEF WatchdogLegacyDoes, rootVars, Settles, UndoDoes,
     SameExcuses, QueueStory, ApplyStory, Applying, Runs, HistDoes, ModeStory
<1>21. CASE \E ins \in Instruction : HandleDoes(ins)
  BY <1>1, <1>2, <1>3, <1>21 DEF HandleDoes, rootVars, SameProcess, SameExcuses, QueueStory,
     ApplyStory, Applying, Runs
<1>22. CASE StageFailsDoes
  BY <1>1, <1>2, <1>3, <1>22 DEF StageFailsDoes, rootVars, SameProcess, SavesStatus, QueueStory,
     ApplyStory, Applying, Runs
<1>23. CASE StagePlacesDoes
  BY <1>1, <1>2, <1>3, <1>23 DEF StagePlacesDoes, rootVars, SameProcess, QueueStory, ApplyStory,
     Applying, Runs
<1>24. CASE StageRecordsDoes
  BY <1>1, <1>2, <1>3, <1>24 DEF StageRecordsDoes, rootVars, SameProcess, QueueStory, ApplyStory,
     Applying, Runs, ModeStory
<1>25. CASE StageSwitchesDoes
  BY <1>1, <1>2, <1>3, <1>25, HistEffect DEF StageSwitchesDoes, rootVars, SameProcess, SavesStatus,
     SameExcuses, QueueStory, ApplyStory, Applying, Runs, HistDoes, ModeStory, HandleStory
<1>26. CASE StageDoneDoes
  BY <1>1, <1>2, <1>3, <1>26 DEF StageDoneDoes, rootVars, SameProcess, SavesStatus, QueueStory,
     ApplyStory, Applying, Runs
<1>27. CASE GoneDoes
  BY <1>1, <1>2, <1>3, <1>27 DEF GoneDoes, QueueStory, ApplyStory, Applying, Runs
<1>28. CASE \E v \in Version : PackageDoes(v)
  BY <1>1, <1>2, <1>3, <1>28 DEF PackageDoes, QueueStory, ApplyStory, Applying, Runs
<1>29. CASE WorldDoes
  BY <1>1, <1>2, <1>3, <1>29, HistEffect DEF WorldDoes, QueueStory, ApplyStory, Applying, Runs,
     HistDoes, SameExcuses
<1>30. QED  BY <1>1, <1>4, <1>5, <1>6, <1>7, <1>8, <1>9, <1>10, <1>11, <1>12, <1>13,
                   <1>14, <1>15, <1>16, <1>17, <1>18, <1>19, <1>20, <1>21, <1>22, <1>23, <1>24, <1>25, <1>26,
                   <1>27, <1>28, <1>29 DEF StepDoes

LEMMA RunningStoryStep == IInv /\ ProofInv /\ StepDoes => RunningStory'
<1>1. SUFFICES ASSUME IInv, ProofInv, StepDoes
               PROVE  RunningStory'
  OBVIOUS
<1>2. RunningStory /\ ApplyStory /\ ModeStory /\ HandleStory /\ TypeOK
  BY <1>1 DEF IInv, ProofInv
<1>3. CASE BootDoes
  BY <1>1, <1>2, <1>3 DEF BootDoes, agentVars, RunningStory, ApplyStory, Applying, Runs
<1>4. CASE LetGoDoes
  BY <1>1, <1>2, <1>4 DEF LetGoDoes, agentVars, RunningStory, ApplyStory, Applying, Runs
<1>5. CASE CountStartDoes
  BY <1>1, <1>2, <1>5 DEF CountStartDoes, agentVars, RunningStory, ApplyStory, Applying, Runs
<1>6. CASE RollBackDoes
  BY <1>1, <1>2, <1>6, HistEffect DEF RollBackDoes, agentVars, RunningStory, ApplyStory, Applying,
     Runs, HistDoes, SameExcuses
<1>7. CASE LeaveDoes
  BY <1>1, <1>2, <1>7 DEF LeaveDoes, agentVars, RunningStory, ApplyStory, Applying, Runs
<1>8. CASE InstallDoes
  BY <1>1, <1>2, <1>8 DEF InstallDoes, agentVars, RunningStory, ApplyStory, Applying, Runs
<1>9. CASE RecordDoes
  BY <1>1, <1>2, <1>9 DEF RecordDoes, agentVars, RunningStory, ApplyStory, Applying, Runs
<1>10. CASE SwitchDoes
  BY <1>1, <1>2, <1>10, HistEffect DEF SwitchDoes, agentVars, RunningStory, ApplyStory, Applying,
     Runs, HistDoes, SameExcuses
<1>11. CASE SaveDoes
  BY <1>1, <1>2, <1>11 DEF SaveDoes, agentVars, RunningStory, ApplyStory, Applying, Runs
<1>12. CASE StartStagedDoes
  BY <1>1, <1>2, <1>12 DEF StartStagedDoes, rootVars, Settles, StartedFrom, RanFields, SameExcuses,
     RunningStory, ApplyStory, Applying, Runs, Binary, Mode
<1>13. CASE StartLegacyDoes
  BY <1>1, <1>2, <1>13 DEF StartLegacyDoes, rootVars, Settles, RanFields, SameExcuses, RunningStory,
     ApplyStory, Applying, Runs, Binary, Mode
<1>14. CASE RollBackAtStartDoes
  BY <1>1, <1>2, <1>14, HistEffect DEF RollBackAtStartDoes, rootVars, Settles, UndoDoes, SameExcuses,
     RunningStory, ApplyStory, Applying, Runs, HistDoes, ModeStory, Mode, Binary
<1>15. CASE SaveRollbackDoes
  BY <1>1, <1>2, <1>15 DEF SaveRollbackDoes, rootVars, Settles, RunningStory, ApplyStory, Applying,
     Runs, ModeStory
<1>16. CASE ConfirmDoes
  BY <1>1, <1>2, <1>16 DEF ConfirmDoes, rootVars, SameExcuses, RunningStory, ApplyStory, Applying,
     Runs
<1>17. CASE PruneDoes
  BY <1>1, <1>2, <1>17 DEF PruneDoes, rootVars, RunningStory, ApplyStory, Applying, Runs
<1>18. CASE WatchdogStagedDoes
  BY <1>1, <1>2, <1>18 DEF WatchdogStagedDoes, rootVars, SameProcess, RunningStory, ApplyStory,
     Applying, Runs
<1>19. CASE WatchdogLegacyDoes
  BY <1>1, <1>2, <1>19, HistEffect DEF WatchdogLegacyDoes, rootVars, Settles, UndoDoes, SameExcuses,
     RunningStory, ApplyStory, Applying, Runs, HistDoes, ModeStory
<1>20. CASE \E ins \in Instruction : HandleDoes(ins)
  BY <1>1, <1>2, <1>20 DEF HandleDoes, rootVars, SameProcess, SameExcuses, RunningStory, ApplyStory,
     Applying, Runs
<1>21. CASE StageFailsDoes
  BY <1>1, <1>2, <1>21 DEF StageFailsDoes, rootVars, SameProcess, SavesStatus, RunningStory,
     ApplyStory, Applying, Runs
<1>22. CASE StagePlacesDoes
  BY <1>1, <1>2, <1>22 DEF StagePlacesDoes, rootVars, SameProcess, RunningStory, ApplyStory, Applying,
     Runs
<1>23. CASE StageRecordsDoes
  BY <1>1, <1>2, <1>23 DEF StageRecordsDoes, rootVars, SameProcess, RunningStory, ApplyStory,
     Applying, Runs
<1>24. CASE StageSwitchesDoes
  BY <1>1, <1>2, <1>24, HistEffect DEF StageSwitchesDoes, rootVars, SameProcess, SavesStatus,
     SameExcuses, RunningStory, ApplyStory, Applying, Runs, HistDoes, ModeStory, HandleStory
<1>25. CASE StageDoneDoes
  BY <1>1, <1>2, <1>25 DEF StageDoneDoes, rootVars, SameProcess, SavesStatus, RunningStory,
     ApplyStory, Applying, Runs
<1>26. CASE GoneDoes
  BY <1>1, <1>2, <1>26 DEF GoneDoes, RunningStory, ApplyStory, Applying, Runs
<1>27. CASE \E v \in Version : PackageDoes(v)
  BY <1>1, <1>2, <1>27 DEF PackageDoes, RunningStory, ApplyStory, Applying, Runs
<1>28. CASE WorldDoes
  BY <1>1, <1>2, <1>28, HistEffect DEF WorldDoes, RunningStory, ApplyStory, Applying, Runs, HistDoes,
     SameExcuses
<1>29. QED  BY <1>1, <1>3, <1>4, <1>5, <1>6, <1>7, <1>8, <1>9, <1>10, <1>11, <1>12, <1>13,
                   <1>14, <1>15, <1>16, <1>17, <1>18, <1>19, <1>20, <1>21, <1>22, <1>23, <1>24, <1>25, <1>26,
                   <1>27, <1>28 DEF StepDoes

LEMMA WatchedStoryStep == IInv /\ ProofInv /\ StepDoes => WatchedStory'
<1>1. SUFFICES ASSUME IInv, ProofInv, StepDoes
               PROVE  WatchedStory'
  OBVIOUS
<1>2. QueueStory /\ ApplyStory /\ ModeStory /\ HandleStory /\ RunningStory /\ WatchedStory
      /\ SettledStory /\ UnsavedStory
  BY <1>1 DEF IInv, ProofInv
<1>3. TypeOK /\ Sound /\ current \in Version /\ hist.healthy \in BOOLEAN /\ st.confirmed \in BOOLEAN
  BY <1>1 DEF IInv, TypeOK, Hist, State
<1>4. /\ clock \in Nat /\ st.confAt \in Nat /\ st.confAt <= clock
      /\ status.cand.at \in Nat /\ status.cand.at <= clock /\ ap.cand.at \in Nat /\ ap.cand.at <= clock
  BY <1>1 DEF IInv, TypeOK, Status, Candidate, State, Stamped
<1>5. CASE BootDoes
  BY <1>1, <1>2, <1>3, <1>4, <1>5, Records, Versions DEF BootDoes, agentVars, WatchedStory, Unproved, JustSwitched,
     Unreported, Confirmed, pendingCandidate, ApplyStory, QueueStory, Applying, Runs
<1>6. CASE LetGoDoes
  BY <1>1, <1>2, <1>3, <1>4, <1>6, Records, Versions DEF LetGoDoes, agentVars, WatchedStory, Unproved, JustSwitched,
     Unreported, Confirmed, pendingCandidate, ApplyStory, QueueStory, Applying, Runs
<1>7. CASE CountStartDoes
  BY <1>1, <1>2, <1>3, <1>4, <1>7, Records, Versions DEF CountStartDoes, agentVars, WatchedStory,
     Unproved, JustSwitched, Unreported, Confirmed, pendingCandidate, ApplyStory, QueueStory, Applying, Runs
<1>8. CASE RollBackDoes
  <2>1. /\ hist'.torn = hist.torn
        /\ pc' = "install" => hist'.healthy = hist.healthy /\ hist'.unsaved = hist.unsaved
        /\ ap.cand = status.cand /\ status.cand.version = current /\ ~Confirmed(status.cand)
    BY <1>1, <1>2, <1>3, <1>8, HistEffect DEF RollBackDoes, HistDoes, SameExcuses, ApplyStory
  <2>2. CASE pc' = "save"
    <3>1. current' \in Version /\ current' # status.cand.version /\ ap'.cand.version = None
      BY <1>2, <1>3, <1>8, <2>1, <2>2, Records, Versions DEF RollBackDoes, ApplyStory, TypeOK
    <3>2. QED  BY <1>8, <2>2, <3>1, Versions DEF RollBackDoes, agentVars, WatchedStory, Runs
  <2>3. CASE pc' = "install"
    <3>1. current' = current
      BY <1>8, <2>3 DEF RollBackDoes
    <3>2. hist.torn = FALSE /\ layout # "legacy" => Unproved
      BY <1>2, <2>1 DEF WatchedStory
    <3>3. hist.torn = FALSE /\ layout # "legacy" => Unproved'
      BY <1>8, <2>1, <2>3, <3>1, <3>2
      DEF RollBackDoes, agentVars, Unproved, JustSwitched, Unreported, pendingCandidate
    <3>4. QED  BY <1>8, <2>1, <2>3, <3>1, <3>3 DEF RollBackDoes, agentVars, WatchedStory, Runs
  <2>4. QED  BY <1>8, <2>2, <2>3 DEF RollBackDoes
<1>9. CASE LeaveDoes
  BY <1>1, <1>2, <1>3, <1>4, <1>9, Records, Versions DEF LeaveDoes, agentVars, WatchedStory, Unproved, JustSwitched,
     Unreported, Confirmed, pendingCandidate, ApplyStory, QueueStory, Applying, Runs
<1>10. CASE InstallDoes
  BY <1>1, <1>2, <1>3, <1>4, <1>10, Records, Versions DEF InstallDoes, agentVars, WatchedStory,
     Unproved, JustSwitched, Unreported, Confirmed, pendingCandidate, ApplyStory, QueueStory, Applying, Runs
<1>11. CASE RecordDoes
  BY <1>1, <1>2, <1>3, <1>4, <1>11, Records, Versions DEF RecordDoes, agentVars, WatchedStory,
     Unproved, JustSwitched, Unreported, Confirmed, pendingCandidate, ApplyStory, QueueStory, Applying, Runs
<1>12. CASE SwitchDoes
  BY <1>1, <1>2, <1>3, <1>4, <1>12, HistEffect, Records, Versions DEF SwitchDoes, agentVars,
     WatchedStory, Unproved, JustSwitched, Unreported, Confirmed, pendingCandidate, ApplyStory, QueueStory,
     Applying, Runs, HistDoes, SameExcuses
<1>13. CASE SaveDoes
  <2>1. SUFFICES ASSUME hist.torn = FALSE, layout # "legacy", status'.cand.version = current
                 PROVE  Unproved'
    BY <1>1, <1>13 DEF SaveDoes, agentVars, WatchedStory, Runs
  <2>2. /\ pc = "save" /\ ap.cand.version = current /\ ap.carried = FALSE
        /\ Unproved
        /\ \/ ap.result = "switched" /\ ap.to = current
           \/ /\ ap.result = "none" /\ status.result \in {"none", "switched"}
              /\ st.staged # None => Unreported
        /\ st.staged # None => st.stagedAt = ap.handled
    BY <1>2, <1>13, <2>1 DEF SaveDoes, WatchedStory, QueueStory, Applying
  <2>3. CASE ap.result = "switched" /\ ap.to = current
    <3>1. ~Carries
      BY <2>3 DEF Carries
    <3>2. /\ status'.result = "switched" /\ status'.to = current /\ status'.carried = FALSE
          /\ status'.cur = current /\ status'.handled = ap.handled
          /\ pc' = "start" \/ (pc' = "down" /\ layout = "native")
      BY <1>13, <2>2, <2>3, <3>1 DEF SaveDoes
    <3>3. QED  BY <1>13, <2>2, <3>2 DEF SaveDoes, agentVars, Unproved, JustSwitched, Unreported, pendingCandidate
  <2>4. CASE ap.result = "none" /\ status.result \in {"none", "switched"} /\ (st.staged # None => Unreported)
    <3>1. pc' = "start" /\ status'.handled = ap.handled /\ status'.result \in {"none", "switched"}
      BY <1>13, <2>4 DEF SaveDoes
    <3>2. st.staged # None => Carries
      BY <2>4 DEF Carries, Unreported
    <3>3. st.staged # None => status'.result = "switched" /\ status'.to = current
      BY <1>13, <2>4, <3>2 DEF SaveDoes, Unreported
    <3>4. QED  BY <1>13, <2>2, <3>1, <3>3 DEF SaveDoes, agentVars, Unproved, JustSwitched, pendingCandidate
  <2>5. QED  BY <2>2, <2>3, <2>4
<1>14. CASE StartStagedDoes
  <2>1. SUFFICES ASSUME hist.torn = FALSE, layout # "legacy", status.cand.version = current
                 PROVE  Confirmed(status.cand)' \/ (Unproved' /\ proc'.settled = FALSE)
    <3>1. hist'.torn = hist.torn /\ pc' # "switch" /\ pc' # "save"
      BY <1>3, <1>14 DEF StartStagedDoes, RanFields, SameExcuses, TypeOK
    <3>2. QED  BY <1>14, <2>1, <3>1 DEF StartStagedDoes, rootVars, WatchedStory
  <2>2. /\ Binary = current /\ pc = "start"
        /\ hist'.healthy = hist.healthy /\ hist'.unsaved = hist.unsaved
    BY <1>2, <1>3, <1>14, <2>1 DEF StartStagedDoes, Binary, RunningStory, RanFields, TypeOK
  <2>3. CASE Confirmed(status.cand)
    BY <1>14, <2>3 DEF StartStagedDoes, rootVars, Settles, Confirmed
  <2>4. CASE ~Confirmed(status.cand)
    <3>1. Unproved
      BY <1>2, <2>1, <2>4 DEF WatchedStory
    <3>2. /\ pendingCandidate(st, current) /\ (hist.healthy = FALSE \/ hist.unsaved = TRUE)
          /\ status.result \in {"none", "switched"}
          /\ st.staged # None => status.result = "switched" /\ status.to = current /\ st.staged = current
      BY <2>2, <3>1 DEF Unproved, JustSwitched
    <3>3. StartedFrom(st, st', current)
      BY <1>14, <2>2 DEF StartStagedDoes
    <3>4. st'.candidate = st.candidate /\ st'.confirmed = st.confirmed /\ st'.staged = None
      BY <3>2, <3>3 DEF StartedFrom
    <3>5. pendingCandidate(st', current) /\ proc'.settled = FALSE
      BY <1>14, <2>2, <3>2, <3>4 DEF StartStagedDoes, pendingCandidate
    <3>6. pc' # "save" /\ status' = status /\ current' = current
      BY <1>14 DEF StartStagedDoes, rootVars
    <3>7. QED  BY <2>2, <3>2, <3>4, <3>5, <3>6 DEF Unproved, JustSwitched, pendingCandidate
  <2>5. QED  BY <2>3, <2>4
<1>15. CASE StartLegacyDoes
  BY <1>1, <1>2, <1>3, <1>4, <1>15, Records, Versions DEF StartLegacyDoes, rootVars, Settles,
     RanFields, SameExcuses, WatchedStory, Unproved, JustSwitched, Unreported, Confirmed, pendingCandidate,
     ApplyStory, QueueStory, Applying, Runs, ModeStory, Mode
<1>16. CASE RollBackAtStartDoes
  BY <1>1, <1>2, <1>3, <1>4, <1>16, HistEffect, Records, Versions DEF RollBackAtStartDoes, rootVars,
     Settles, UndoDoes, SameExcuses, WatchedStory, Unproved, JustSwitched, Unreported, Confirmed,
     pendingCandidate, ApplyStory, QueueStory, Applying, Runs, HistDoes, ModeStory, Mode, Binary
<1>17. CASE SaveRollbackDoes
  BY <1>1, <1>2, <1>3, <1>4, <1>17, Records, Versions DEF SaveRollbackDoes, rootVars, Settles,
     WatchedStory, Unproved, JustSwitched, Unreported, Confirmed, pendingCandidate, ApplyStory, QueueStory,
     Applying, Runs, ModeStory
<1>18. CASE ConfirmDoes
  <2>1. SUFFICES ASSUME hist.torn = FALSE, layout # "legacy", status.cand.version = current
                 PROVE  Confirmed(status.cand)' \/ (Unproved' /\ hist'.unsaved = TRUE)
    BY <1>2, <1>18 DEF ConfirmDoes, rootVars, SameExcuses, WatchedStory, Runs
  <2>2. proc.ver = current /\ status' = status /\ current' = current /\ pc' = pc /\ pc \in {"run", "exit"}
    BY <1>2, <1>18, <2>1 DEF ConfirmDoes, RunningStory, rootVars, Runs
  <2>3. CASE Confirmed(status.cand)
    BY <1>4, <1>18, <2>1, <2>2, <2>3 DEF ConfirmDoes, rootVars, Confirmed
  <2>4. CASE ~Confirmed(status.cand)
    <3>1. Unproved /\ pendingCandidate(st, proc.ver) /\ (proc.settled = FALSE \/ hist.unsaved = TRUE)
      BY <1>2, <1>18, <2>1, <2>2, <2>4 DEF ConfirmDoes, WatchedStory, Unproved
    <3>2. CASE st' = st /\ hist'.unsaved = TRUE
      BY <1>18, <2>2, <3>1, <3>2
      DEF ConfirmDoes, rootVars, Unproved, JustSwitched, Unreported, pendingCandidate
    <3>3. CASE ~(st' = st /\ hist'.unsaved = TRUE)
      <4>1. st'.confVer = proc.ver /\ st'.confAt = clock + 1
        BY <1>18, <3>1, <3>3 DEF ConfirmDoes
      <4>2. QED  BY <1>4, <2>1, <2>2, <4>1 DEF Confirmed
    <3>4. QED  BY <3>2, <3>3
  <2>5. QED  BY <2>3, <2>4
<1>19. CASE PruneDoes
  BY <1>1, <1>2, <1>3, <1>4, <1>19, Records, Versions DEF PruneDoes, rootVars, WatchedStory, Unproved, JustSwitched,
     Unreported, Confirmed, pendingCandidate, ApplyStory, QueueStory, Applying, Runs
<1>20. CASE WatchdogStagedDoes
  BY <1>1, <1>2, <1>3, <1>4, <1>20, Records, Versions DEF WatchdogStagedDoes, rootVars, SameProcess,
     WatchedStory, Unproved, JustSwitched, Unreported, Confirmed, pendingCandidate, ApplyStory, QueueStory,
     Applying, Runs
<1>21. CASE WatchdogLegacyDoes
  BY <1>1, <1>2, <1>3, <1>4, <1>21, HistEffect, Records, Versions DEF WatchdogLegacyDoes, rootVars,
     Settles, UndoDoes, SameExcuses, WatchedStory, Unproved, JustSwitched, Unreported, Confirmed,
     pendingCandidate, ApplyStory, QueueStory, Applying, Runs, HistDoes, ModeStory
<1>22. CASE \E ins \in Instruction : HandleDoes(ins)
  <2>1. PICK ins \in Instruction : HandleDoes(ins)
    BY <1>22
  <2>2. SUFFICES ASSUME hist.torn = FALSE, layout # "legacy", status.cand.version = current
                 PROVE  Confirmed(status.cand)'
    BY <1>2, <2>1 DEF HandleDoes, rootVars, SameExcuses, WatchedStory, Runs
  <2>3. proc.ver = current /\ status' = status
    BY <1>2, <2>1, <2>2 DEF HandleDoes, RunningStory, rootVars, Runs
  <2>4. CASE proc.unsaved = 0
    BY <1>2, <2>1, <2>2, <2>3, <2>4 DEF HandleDoes, WatchedStory, Unproved, Confirmed
  <2>5. CASE proc.unsaved # 0
    BY <1>2, <2>1, <2>2, <2>3, <2>5 DEF HandleDoes, UnsavedStory, Confirmed
  <2>6. QED  BY <2>4, <2>5
<1>23. CASE StageFailsDoes
  BY <1>1, <1>2, <1>3, <1>4, <1>23, Records, Versions DEF StageFailsDoes, rootVars, SameProcess,
     SavesStatus, WatchedStory, Unproved, JustSwitched, Unreported, Confirmed, pendingCandidate, ApplyStory,
     QueueStory, Applying, Runs
<1>24. CASE StagePlacesDoes
  BY <1>1, <1>2, <1>3, <1>4, <1>24, Records, Versions DEF StagePlacesDoes, rootVars, SameProcess,
     WatchedStory, Unproved, JustSwitched, Unreported, Confirmed, pendingCandidate, ApplyStory, QueueStory,
     Applying, Runs
<1>25. CASE StageRecordsDoes
  BY <1>1, <1>2, <1>3, <1>4, <1>25, Records, Versions DEF StageRecordsDoes, rootVars, SameProcess,
     WatchedStory, Unproved, JustSwitched, Unreported, Confirmed, pendingCandidate, ApplyStory, QueueStory,
     Applying, Runs, ModeStory, HandleStory, RunningStory
<1>26. CASE StageSwitchesDoes
  BY <1>1, <1>2, <1>3, <1>4, <1>26, HistEffect, Records, Versions DEF StageSwitchesDoes, rootVars,
     SameProcess, SavesStatus, SameExcuses, WatchedStory, Unproved, JustSwitched, Unreported, Confirmed,
     pendingCandidate, ApplyStory, QueueStory, Applying, Runs, HistDoes, ModeStory, HandleStory
<1>27. CASE StageDoneDoes
  BY <1>1, <1>2, <1>3, <1>4, <1>27, Records, Versions DEF StageDoneDoes, rootVars, SameProcess,
     SavesStatus, WatchedStory, Unproved, JustSwitched, Unreported, Confirmed, pendingCandidate, ApplyStory,
     QueueStory, Applying, Runs
<1>28. CASE GoneDoes
  BY <1>1, <1>2, <1>3, <1>4, <1>28, Records, Versions DEF GoneDoes, CutOff, Lasting, WatchedStory, Unproved, JustSwitched,
     Unreported, Confirmed, pendingCandidate, ApplyStory, QueueStory, Applying, Runs
<1>29. CASE \E v \in Version : PackageDoes(v)
  BY <1>1, <1>2, <1>3, <1>4, <1>29, Records, Versions DEF PackageDoes, WatchedStory, Unproved, JustSwitched,
     Unreported, Confirmed, pendingCandidate, ApplyStory, QueueStory, Applying, Runs
<1>30. CASE WorldDoes
  BY <1>1, <1>2, <1>3, <1>4, <1>30, HistEffect, Records, Versions DEF WorldDoes, WatchedStory,
     Unproved, JustSwitched, Unreported, Confirmed, pendingCandidate, ApplyStory, QueueStory, Applying, Runs,
     HistDoes, SameExcuses
<1>31. QED  BY <1>1, <1>5, <1>6, <1>7, <1>8, <1>9, <1>10, <1>11, <1>12, <1>13,
                   <1>14, <1>15, <1>16, <1>17, <1>18, <1>19, <1>20, <1>21, <1>22, <1>23, <1>24, <1>25, <1>26,
                   <1>27, <1>28, <1>29, <1>30 DEF StepDoes

LEMMA SettledStoryStep == IInv /\ ProofInv /\ StepDoes => SettledStory'
<1>1. SUFFICES ASSUME IInv, ProofInv, StepDoes
               PROVE  SettledStory'
  OBVIOUS
<1>2. SettledStory /\ UnsavedStory /\ ApplyStory /\ ModeStory /\ HandleStory /\ LegacyStory /\ TypeOK /\ Sound
  BY <1>1 DEF IInv, ProofInv
<1>3. st.confirmed \in BOOLEAN /\ hist.healthy \in BOOLEAN
  BY <1>1 DEF IInv, TypeOK, State, Hist
<1>4. CASE BootDoes
  BY <1>1, <1>2, <1>3, <1>4, Versions DEF BootDoes, agentVars, SettledStory, pendingCandidate, Runs,
     Unlocked
<1>5. CASE LetGoDoes
  BY <1>1, <1>2, <1>3, <1>5, Versions DEF LetGoDoes, agentVars, SettledStory, pendingCandidate, Runs,
     Unlocked
<1>6. CASE CountStartDoes
  BY <1>1, <1>2, <1>3, <1>6, Versions DEF CountStartDoes, agentVars, SettledStory, pendingCandidate,
     Runs, Unlocked
<1>7. CASE RollBackDoes
  BY <1>1, <1>2, <1>3, <1>7, HistEffect, Versions DEF RollBackDoes, agentVars, SettledStory,
     pendingCandidate, Runs, Unlocked, HistDoes, SameExcuses
<1>8. CASE LeaveDoes
  BY <1>1, <1>2, <1>3, <1>8, Versions DEF LeaveDoes, agentVars, SettledStory, pendingCandidate, Runs,
     Unlocked
<1>9. CASE InstallDoes
  BY <1>1, <1>2, <1>3, <1>9, Versions DEF InstallDoes, agentVars, SettledStory, pendingCandidate,
     Runs, Unlocked
<1>10. CASE RecordDoes
  BY <1>1, <1>2, <1>3, <1>10, Versions DEF RecordDoes, agentVars, SettledStory, pendingCandidate,
     Runs, Unlocked
<1>11. CASE SwitchDoes
  BY <1>1, <1>2, <1>3, <1>11, HistEffect, Versions DEF SwitchDoes, agentVars, SettledStory,
     pendingCandidate, Runs, Unlocked, HistDoes, SameExcuses
<1>12. CASE SaveDoes
  BY <1>1, <1>2, <1>3, <1>12, Versions DEF SaveDoes, agentVars, SettledStory, pendingCandidate, Runs,
     Unlocked
<1>13. CASE StartStagedDoes
  BY <1>1, <1>2, <1>3, <1>13, Versions DEF StartStagedDoes, rootVars, Settles, StartedFrom, RanFields,
     SameExcuses, SettledStory, pendingCandidate, Runs, Unlocked, Binary, Mode
<1>14. CASE StartLegacyDoes
  <2>1. pc' = "run" /\ proc'.ver = Binary /\ (pendingCandidate(st', Binary) => proc'.settled = FALSE)
    BY <1>14 DEF StartLegacyDoes
  <2>2. /\ layout' = layout /\ current' = current /\ hist'.torn = hist.torn /\ hist'.healthy = hist.healthy
        /\ hist'.unsaved = hist.unsaved /\ Settles(st, st')
    BY <1>14 DEF StartLegacyDoes, RanFields, SameExcuses, rootVars
  <2>3. pendingCandidate(st', current) => pendingCandidate(st, current)
    BY <1>2, <1>3, <2>2, Versions DEF Settles, pendingCandidate, TypeOK, State
  <2>4. QED  BY <1>2, <2>1, <2>2, <2>3 DEF SettledStory, pendingCandidate
<1>15. CASE RollBackAtStartDoes
  BY <1>1, <1>2, <1>3, <1>15, HistEffect, Versions DEF RollBackAtStartDoes, rootVars, Settles,
     UndoDoes, SameExcuses, SettledStory, pendingCandidate, Runs, Unlocked, HistDoes, Binary, Mode
<1>16. CASE SaveRollbackDoes
  BY <1>1, <1>2, <1>3, <1>16, Versions DEF SaveRollbackDoes, rootVars, Settles, SettledStory,
     pendingCandidate, Runs, Unlocked, Sound, TypeOK, HandleStory
<1>17. CASE ConfirmDoes
  BY <1>1, <1>2, <1>3, <1>17, Versions DEF ConfirmDoes, rootVars, SameExcuses, SettledStory,
     pendingCandidate, Runs, Unlocked
<1>18. CASE PruneDoes
  BY <1>1, <1>2, <1>3, <1>18, Versions DEF PruneDoes, rootVars, SettledStory, pendingCandidate, Runs,
     Unlocked
<1>19. CASE WatchdogStagedDoes
  BY <1>1, <1>2, <1>3, <1>19, Versions DEF WatchdogStagedDoes, rootVars, SameProcess, SettledStory,
     pendingCandidate, Runs, Unlocked
<1>20. CASE WatchdogLegacyDoes
  BY <1>1, <1>2, <1>3, <1>20, HistEffect, Versions DEF WatchdogLegacyDoes, rootVars, Settles,
     UndoDoes, SameExcuses, SettledStory, pendingCandidate, Runs, Unlocked, HistDoes
<1>21. CASE \E ins \in Instruction : HandleDoes(ins)
  <2>1. PICK ins \in Instruction : HandleDoes(ins)
    BY <1>21
  <2>2. ~pendingCandidate(st', proc.ver)
    BY <1>3, <2>1 DEF HandleDoes, pendingCandidate
  <2>3. layout = "legacy" => proc.ver = current
    BY <1>2, <2>1 DEF HandleDoes, LegacyStory, Runs
  <2>4. proc'.ver = proc.ver /\ layout' = layout /\ current' = current
    BY <2>1 DEF HandleDoes, rootVars
  <2>5. QED  BY <2>2, <2>3, <2>4 DEF SettledStory, pendingCandidate
<1>22. CASE StageFailsDoes
  BY <1>1, <1>2, <1>3, <1>22, Versions DEF StageFailsDoes, rootVars, SameProcess, SavesStatus,
     SettledStory, pendingCandidate, Runs, Unlocked
<1>23. CASE StagePlacesDoes
  BY <1>1, <1>2, <1>3, <1>23, Versions DEF StagePlacesDoes, rootVars, SameProcess, SettledStory,
     pendingCandidate, Runs, Unlocked
<1>24. CASE StageRecordsDoes
  <2>1. proc.ver \in Nat /\ proc.ins.target \in Nat
    BY <1>2, <1>24, Versions DEF StageRecordsDoes, Sound, Runs
  <2>2. proc.ins.target # proc.ver
    BY <1>2, <1>24, <2>1 DEF StageRecordsDoes, HandleStory, Verified
  <2>3. QED  BY <1>2, <1>24, <2>2
             DEF StageRecordsDoes, SameProcess, rootVars, SettledStory, LegacyStory, pendingCandidate, Runs
<1>25. CASE StageSwitchesDoes
  BY <1>1, <1>2, <1>3, <1>25, HistEffect, Versions DEF StageSwitchesDoes, rootVars, SameProcess,
     SavesStatus, SameExcuses, SettledStory, pendingCandidate, Runs, Unlocked, HistDoes, Sound,
     TypeOK, HandleStory
<1>26. CASE StageDoneDoes
  BY <1>1, <1>2, <1>3, <1>26, Versions DEF StageDoneDoes, rootVars, SameProcess, SavesStatus,
     SettledStory, pendingCandidate, Runs, Unlocked
<1>27. CASE GoneDoes
  BY <1>1, <1>2, <1>3, <1>27, Versions DEF GoneDoes, SettledStory, pendingCandidate, Runs, Unlocked
<1>28. CASE \E v \in Version : PackageDoes(v)
  BY <1>1, <1>2, <1>3, <1>28, Versions DEF PackageDoes, SettledStory, pendingCandidate, Runs, Unlocked
<1>29. CASE WorldDoes
  BY <1>1, <1>2, <1>3, <1>29, HistEffect, Versions DEF WorldDoes, SettledStory, pendingCandidate,
     Runs, Unlocked, HistDoes, SameExcuses
<1>30. QED  BY <1>1, <1>4, <1>5, <1>6, <1>7, <1>8, <1>9, <1>10, <1>11, <1>12, <1>13,
                   <1>14, <1>15, <1>16, <1>17, <1>18, <1>19, <1>20, <1>21, <1>22, <1>23, <1>24, <1>25, <1>26,
                   <1>27, <1>28, <1>29 DEF StepDoes

LEMMA UnsavedStoryStep == IInv /\ ProofInv /\ StepDoes => UnsavedStory'
<1>1. SUFFICES ASSUME IInv, ProofInv, StepDoes
               PROVE  UnsavedStory'
  OBVIOUS
<1>2. UnsavedStory /\ RunningStory /\ HandleStory /\ Stamped /\ TypeOK
  BY <1>1 DEF IInv, ProofInv
<1>3. /\ clock \in Nat /\ status.cand.at \in Nat /\ status.cand.at <= clock
      /\ proc.unsaved \in Nat
  BY <1>2 DEF TypeOK, Status, Candidate, Process, Stamped
<1>4. CASE BootDoes
  BY <1>2, <1>3, <1>4 DEF BootDoes, agentVars, UnsavedStory, pendingCandidate, Runs
<1>5. CASE LetGoDoes
  BY <1>2, <1>3, <1>5 DEF LetGoDoes, agentVars, UnsavedStory, pendingCandidate, Runs
<1>6. CASE CountStartDoes
  BY <1>2, <1>3, <1>6 DEF CountStartDoes, agentVars, UnsavedStory, pendingCandidate, Runs
<1>7. CASE RollBackDoes
  BY <1>2, <1>3, <1>7 DEF RollBackDoes, agentVars, UnsavedStory, pendingCandidate, Runs
<1>8. CASE LeaveDoes
  BY <1>2, <1>3, <1>8 DEF LeaveDoes, agentVars, UnsavedStory, pendingCandidate, Runs
<1>9. CASE InstallDoes
  BY <1>2, <1>3, <1>9 DEF InstallDoes, agentVars, UnsavedStory, pendingCandidate, Runs
<1>10. CASE RecordDoes
  BY <1>2, <1>3, <1>10 DEF RecordDoes, agentVars, UnsavedStory, pendingCandidate, Runs
<1>11. CASE SwitchDoes
  BY <1>2, <1>3, <1>11 DEF SwitchDoes, agentVars, UnsavedStory, pendingCandidate, Runs
<1>12. CASE SaveDoes
  BY <1>2, <1>3, <1>12 DEF SaveDoes, agentVars, UnsavedStory, pendingCandidate, Runs
<1>13. CASE StartStagedDoes
  BY <1>2, <1>3, <1>13 DEF StartStagedDoes, UnsavedStory, pendingCandidate, Runs
<1>14. CASE StartLegacyDoes
  BY <1>2, <1>3, <1>14 DEF StartLegacyDoes, UnsavedStory, pendingCandidate, Runs
<1>15. CASE RollBackAtStartDoes
  BY <1>2, <1>3, <1>15 DEF RollBackAtStartDoes, UnsavedStory, pendingCandidate, Runs
<1>16. CASE SaveRollbackDoes
  BY <1>2, <1>3, <1>16 DEF SaveRollbackDoes, UnsavedStory, pendingCandidate, Runs
<1>17. CASE ConfirmDoes
  <2>1. /\ proc'.ver = proc.ver /\ proc'.h = proc.h /\ proc'.settled = TRUE /\ pc' = pc
        /\ status' = status /\ current' = current /\ layout' = layout /\ hist'.torn = hist.torn
        /\ (current = proc.ver => hist'.healthy = TRUE)
    BY <1>17 DEF ConfirmDoes, SameExcuses, rootVars
  <2>2. hist.torn = FALSE /\ layout # "legacy" /\ status.cand.version = current => proc.ver = current
    BY <1>2, <1>17 DEF ConfirmDoes, RunningStory
  <2>3. CASE proc'.unsaved = proc.unsaved /\ hist'.unsaved = hist.unsaved /\ st' = st
    BY <1>2, <2>1, <2>2, <2>3 DEF UnsavedStory, Runs, pendingCandidate
  <2>4. CASE proc.settled = FALSE /\ proc'.unsaved = proc.unsaved
    BY <1>2, <2>4 DEF UnsavedStory
  <2>5. CASE /\ pendingCandidate(st, proc.ver) /\ st' = st
             /\ proc'.unsaved = clock + 1 /\ hist'.unsaved = TRUE
    <3>1. Runs /\ proc.h = "idle"
      BY <1>2, <1>17, <2>5 DEF ConfirmDoes, HandleStory
    <3>2. QED  BY <1>3, <2>1, <2>2, <2>5, <3>1 DEF UnsavedStory, Runs, pendingCandidate
  <2>6. QED  BY <1>17, <2>3, <2>4, <2>5 DEF ConfirmDoes
<1>18. CASE PruneDoes
  BY <1>2, <1>3, <1>18 DEF PruneDoes, rootVars, UnsavedStory, pendingCandidate, Runs
<1>19. CASE WatchdogStagedDoes
  BY <1>2, <1>3, <1>19 DEF WatchdogStagedDoes, SameProcess, UnsavedStory, pendingCandidate, Runs
<1>20. CASE WatchdogLegacyDoes
  BY <1>2, <1>3, <1>20 DEF WatchdogLegacyDoes, UnsavedStory, pendingCandidate, Runs
<1>21. CASE \E ins \in Instruction : HandleDoes(ins)
  BY <1>21 DEF HandleDoes, UnsavedStory
<1>22. CASE StageFailsDoes
  BY <1>2, <1>3, <1>22 DEF StageFailsDoes, SameProcess, UnsavedStory, pendingCandidate, Runs
<1>23. CASE StagePlacesDoes
  BY <1>2, <1>3, <1>23 DEF StagePlacesDoes, SameProcess, UnsavedStory, pendingCandidate, Runs
<1>24. CASE StageRecordsDoes
  BY <1>2, <1>3, <1>24 DEF StageRecordsDoes, SameProcess, UnsavedStory, pendingCandidate, Runs
<1>25. CASE StageSwitchesDoes
  BY <1>2, <1>3, <1>25 DEF StageSwitchesDoes, SameProcess, UnsavedStory, pendingCandidate, Runs
<1>26. CASE StageDoneDoes
  BY <1>2, <1>3, <1>26 DEF StageDoneDoes, SameProcess, UnsavedStory, pendingCandidate, Runs
<1>27. CASE GoneDoes
  BY <1>2, <1>3, <1>27 DEF GoneDoes, UnsavedStory, pendingCandidate, Runs
<1>28. CASE \E v \in Version : PackageDoes(v)
  BY <1>2, <1>28 DEF PackageDoes, UnsavedStory, pendingCandidate, Runs
<1>29. CASE WorldDoes
  BY <1>1, <1>2, <1>29, HistEffect DEF WorldDoes, UnsavedStory, pendingCandidate, Runs, HistDoes, Applying
<1>30. QED  BY <1>1, <1>4, <1>5, <1>6, <1>7, <1>8, <1>9, <1>10, <1>11, <1>12, <1>13,
                   <1>14, <1>15, <1>16, <1>17, <1>18, <1>19, <1>20, <1>21, <1>22, <1>23, <1>24, <1>25, <1>26,
                   <1>27, <1>28, <1>29 DEF StepDoes

LEMMA AcceptStoryStep == IInv /\ ProofInv /\ StepDoes => AcceptStory'
<1>1. SUFFICES ASSUME IInv, ProofInv, StepDoes
               PROVE  AcceptStory'
  OBVIOUS
<1>2. AcceptStory /\ ApplyStory /\ ModeStory /\ HandleStory /\ RunningStory /\ WatchedStory /\ UnsavedStory /\ TypeOK
  BY <1>1 DEF IInv, ProofInv
<1>3. /\ clock \in Nat /\ st.confAt \in Nat /\ st.confAt <= clock
      /\ status.cand.at \in Nat /\ status.cand.at <= clock /\ ap.cand.at \in Nat /\ ap.cand.at <= clock
  BY <1>1 DEF IInv, TypeOK, Status, Candidate, State, Stamped
<1>4. CASE BootDoes
  BY <1>1, <1>2, <1>3, <1>4, Versions DEF BootDoes, agentVars, AcceptStory, Confirmed, ApplyStory,
     Applying, Runs
<1>5. CASE LetGoDoes
  BY <1>1, <1>2, <1>3, <1>5, Versions DEF LetGoDoes, agentVars, AcceptStory, Confirmed, ApplyStory,
     Applying, Runs
<1>6. CASE CountStartDoes
  BY <1>1, <1>2, <1>3, <1>6, Versions DEF CountStartDoes, agentVars, AcceptStory, Confirmed,
     ApplyStory, Applying, Runs
<1>7. CASE RollBackDoes
  BY <1>1, <1>2, <1>3, <1>7, HistEffect, Versions DEF RollBackDoes, agentVars, AcceptStory, Confirmed,
     ApplyStory, Applying, Runs, HistDoes, SameExcuses
<1>8. CASE LeaveDoes
  BY <1>1, <1>2, <1>3, <1>8, Versions DEF LeaveDoes, agentVars, AcceptStory, Confirmed, ApplyStory,
     Applying, Runs
<1>9. CASE InstallDoes
  BY <1>1, <1>2, <1>3, <1>9, Versions DEF InstallDoes, agentVars, AcceptStory, Confirmed, ApplyStory,
     Applying, Runs
<1>10. CASE RecordDoes
  BY <1>1, <1>2, <1>3, <1>10, Versions DEF RecordDoes, agentVars, AcceptStory, Confirmed, ApplyStory,
     Applying, Runs
<1>11. CASE SwitchDoes
  BY <1>1, <1>2, <1>3, <1>11, HistEffect, Versions DEF SwitchDoes, agentVars, AcceptStory, Confirmed,
     ApplyStory, Applying, Runs, HistDoes, SameExcuses, WatchedStory
<1>12. CASE SaveDoes
  BY <1>1, <1>2, <1>3, <1>12, Versions DEF SaveDoes, agentVars, AcceptStory, Confirmed, ApplyStory,
     Applying, Runs, WatchedStory
<1>13. CASE StartStagedDoes
  BY <1>1, <1>2, <1>3, <1>13, Versions DEF StartStagedDoes, rootVars, Settles, StartedFrom, RanFields,
     SameExcuses, AcceptStory, Confirmed, ApplyStory, Applying, Runs, Binary, Mode
<1>14. CASE StartLegacyDoes
  BY <1>1, <1>2, <1>3, <1>14, Versions DEF StartLegacyDoes, rootVars, Settles, RanFields, SameExcuses,
     AcceptStory, Confirmed, ApplyStory, Applying, Runs, Binary, Mode
<1>15. CASE RollBackAtStartDoes
  BY <1>1, <1>2, <1>3, <1>15, HistEffect, Versions DEF RollBackAtStartDoes, rootVars, Settles,
     UndoDoes, SameExcuses, AcceptStory, Confirmed, ApplyStory, Applying, Runs, HistDoes, ModeStory,
     Mode, Binary
<1>16. CASE SaveRollbackDoes
  BY <1>1, <1>2, <1>3, <1>16, Versions DEF SaveRollbackDoes, rootVars, Settles, AcceptStory,
     Confirmed, ApplyStory, Applying, Runs, ModeStory
<1>17. CASE ConfirmDoes
  BY <1>1, <1>2, <1>3, <1>17, Versions DEF ConfirmDoes, rootVars, SameExcuses, AcceptStory, Confirmed,
     ApplyStory, Applying, Runs, RunningStory
<1>18. CASE PruneDoes
  BY <1>1, <1>2, <1>3, <1>18, Versions DEF PruneDoes, rootVars, AcceptStory, Confirmed, ApplyStory,
     Applying, Runs
<1>19. CASE WatchdogStagedDoes
  BY <1>1, <1>2, <1>3, <1>19, Versions DEF WatchdogStagedDoes, rootVars, SameProcess, AcceptStory,
     Confirmed, ApplyStory, Applying, Runs
<1>20. CASE WatchdogLegacyDoes
  BY <1>1, <1>2, <1>3, <1>20, HistEffect, Versions DEF WatchdogLegacyDoes, rootVars, Settles,
     UndoDoes, SameExcuses, AcceptStory, Confirmed, ApplyStory, Applying, Runs, HistDoes, ModeStory
<1>21. CASE \E ins \in Instruction : HandleDoes(ins)
  <2>1. PICK ins \in Instruction : HandleDoes(ins)
    BY <1>21
  <2>2. /\ status' = status /\ current' = current /\ layout' = layout
        /\ hist'.torn = hist.torn /\ hist'.healthy = hist.healthy
    BY <2>1 DEF HandleDoes, rootVars, SameExcuses
  <2>3. CASE proc.unsaved = 0
    BY <1>2, <2>1, <2>2, <2>3 DEF HandleDoes, AcceptStory, Confirmed
  <2>4. CASE proc.unsaved # 0
    BY <1>2, <2>2, <2>4 DEF UnsavedStory, AcceptStory
  <2>5. QED  BY <2>3, <2>4
<1>22. CASE StageFailsDoes
  BY <1>1, <1>2, <1>3, <1>22, Versions DEF StageFailsDoes, rootVars, SameProcess, SavesStatus,
     AcceptStory, Confirmed, ApplyStory, Applying, Runs
<1>23. CASE StagePlacesDoes
  BY <1>1, <1>2, <1>3, <1>23, Versions DEF StagePlacesDoes, rootVars, SameProcess, AcceptStory,
     Confirmed, ApplyStory, Applying, Runs
<1>24. CASE StageRecordsDoes
  BY <1>1, <1>2, <1>3, <1>24, Versions DEF StageRecordsDoes, rootVars, SameProcess, AcceptStory,
     Confirmed, ApplyStory, Applying, Runs
<1>25. CASE StageSwitchesDoes
  BY <1>1, <1>2, <1>3, <1>25, HistEffect, Versions DEF StageSwitchesDoes, rootVars, SameProcess,
     SavesStatus, SameExcuses, AcceptStory, Confirmed, ApplyStory, Applying, Runs, HistDoes,
     ModeStory, HandleStory
<1>26. CASE StageDoneDoes
  BY <1>1, <1>2, <1>3, <1>26, Versions DEF StageDoneDoes, rootVars, SameProcess, SavesStatus,
     AcceptStory, Confirmed, ApplyStory, Applying, Runs
<1>27. CASE GoneDoes
  BY <1>1, <1>2, <1>3, <1>27, Versions DEF GoneDoes, AcceptStory, Confirmed, ApplyStory, Applying,
     Runs
<1>28. CASE \E v \in Version : PackageDoes(v)
  BY <1>1, <1>2, <1>3, <1>28, Versions DEF PackageDoes, AcceptStory, Confirmed, ApplyStory, Applying,
     Runs
<1>29. CASE WorldDoes
  BY <1>1, <1>2, <1>3, <1>29, HistEffect, Versions DEF WorldDoes, AcceptStory, Confirmed, ApplyStory,
     Applying, Runs, HistDoes, SameExcuses
<1>30. QED  BY <1>1, <1>4, <1>5, <1>6, <1>7, <1>8, <1>9, <1>10, <1>11, <1>12, <1>13,
                   <1>14, <1>15, <1>16, <1>17, <1>18, <1>19, <1>20, <1>21, <1>22, <1>23, <1>24, <1>25, <1>26,
                   <1>27, <1>28, <1>29 DEF StepDoes

LEMMA InitProofInv == Init => ProofInv
<1>1. SUFFICES ASSUME Init
               PROVE  ProofInv
  OBVIOUS
<1>2. st.staged = None /\ st.candidate = None /\ hist.healthy = FALSE /\ hist.packaged = FALSE
  BY <1>1 DEF Init
<1>3. /\ pc = "down" /\ current = First /\ clock = 0 /\ status = NoStatus /\ ap = NoStatus
      /\ NoStatus.cand.version = None /\ NoStatus.handled = 0 /\ First # None
  BY <1>1, Records, Versions, UpdateAssumption DEF Init, NoStatus
<1>4. QueueStory /\ RunningStory
  BY <1>2, <1>3 DEF QueueStory, RunningStory, Applying, Runs
<1>5. WatchedStory /\ SettledStory /\ AcceptStory
  BY <1>2, <1>3 DEF WatchedStory, SettledStory, AcceptStory, Runs, pendingCandidate
<1>6. UnsavedStory
  BY <1>1 DEF Init, NoProcess, UnsavedStory
<1>7. QED  BY <1>4, <1>5, <1>6 DEF ProofInv

LEMMA StepProofInv == IInv /\ ProofInv /\ [Next]_vars => ProofInv'
<1>1. SUFFICES ASSUME IInv, ProofInv, [Next]_vars
               PROVE  ProofInv'
  OBVIOUS
<1>2. StepDoes
  BY <1>1, StepIInv
<1>3. QED  BY <1>1, <1>2, QueueStoryStep, RunningStoryStep, WatchedStoryStep, SettledStoryStep,
              UnsavedStoryStep, AcceptStoryStep DEF ProofInv

(* Every reachable state also satisfies ProofInv. *)
THEOREM ProofInvariance == Spec => []ProofInv
<1>1. IInv /\ ProofInv /\ UNCHANGED vars => ProofInv'
  BY StepProofInv
<1>2. QED  BY InitProofInv, StepProofInv, Invariance, <1>1, PTL DEF Spec

(***************************************************************************)
(* A version that exported since it became current is not switched back,   *)
(* neither by checkCandidate nor by rollbackLocked, unless its             *)
(* confirmation could not be saved or a start was cut off: otherwise the   *)
(* confirmation of the agent is in its state file, later than the record   *)
(* of the candidate.  One crash between the switch and Startup's record of *)
(* it is enough for the exception.                                         *)
(***************************************************************************)
THEOREM HealthyKept == Spec => HealthyStays
<1>1. IInv /\ ProofInv /\ [Next]_vars => (RollsBack => ~hist.healthy \/ hist.unsaved \/ hist.torn)
  <2>1. SUFFICES ASSUME IInv, ProofInv, [Next]_vars, RollsBack, hist.torn = FALSE, hist.unsaved = FALSE
                 PROVE  hist.healthy = FALSE
    BY DEF IInv, TypeOK, Hist
  <2>2. StepDoes
    BY <2>1, StepIInv
  <2>3. CASE RollBackDoes
    <3>1. layout # "legacy" /\ ap.cand = status.cand
      BY <2>1, <2>3 DEF RollBackDoes, IInv, ApplyStory, Applying
    <3>2. QED  BY <2>1, <2>3, <3>1 DEF RollBackDoes, ProofInv, WatchedStory, Unproved
  <2>4. CASE RollBackAtStartDoes
    BY <2>1, <2>4, Versions
    DEF RollsBack, RollBackAtStartDoes, UndoDoes, Settles, IInv, LegacyStory, ModeStory, Mode, Binary,
        Unstaged, pendingCandidate, ProofInv, SettledStory
  <2>5. CASE WatchdogLegacyDoes
    BY <2>1, <2>5
    DEF RollsBack, WatchdogLegacyDoes, UndoDoes, IInv, LegacyStory, HandleStory, ModeStory, Runs,
        pendingCandidate, ProofInv, SettledStory
  <2>6. CASE ~RollBackDoes /\ ~RollBackAtStartDoes /\ ~WatchdogLegacyDoes
    BY <2>1, <2>2, <2>6, OnlyRollbacks
  <2>7. QED  BY <2>3, <2>4, <2>5, <2>6
<1>2. QED  BY Invariance, ProofInvariance, <1>1, PTL DEF Spec, HealthyStays

(***************************************************************************)
(* checkCandidate accepts a candidate only if it exported since it became  *)
(* current, unless a start was cut off (torn): the times of the state file *)
(* and of the status tell an earlier installation of the same version      *)
(* apart.                                                                  *)
(***************************************************************************)
THEOREM AcceptanceEarned == Spec => AcceptedExported
<1>1. IInv /\ ProofInv => (AcceptCandidate => hist.healthy \/ hist.torn)
  <2>1. SUFFICES ASSUME IInv, ProofInv, AcceptCandidate, hist.torn = FALSE
                 PROVE  hist.healthy = TRUE
    BY DEF IInv, TypeOK, Hist
  <2>2. layout # "legacy" /\ ap.cand = status.cand
    BY <2>1 DEF AcceptCandidate, IInv, ApplyStory, Applying
  <2>3. QED  BY <2>1, <2>2 DEF AcceptCandidate, ProofInv, AcceptStory
<1>2. QED  BY Invariance, ProofInvariance, <1>1, PTL DEF AcceptedExported

-----------------------------------------------------------------------------
(* An unproved version is started a bounded number of times. *)

(* The current version came by a switch and has yet to export. *)
Live == hist.before # None /\ hist.healthy = FALSE /\ hist.stuck = FALSE /\ hist.torn = FALSE

(* "-apply" watches it and counts its starts ahead; a start for a changed unit is not one. *)
CountedStory ==
    /\ pc = "switch" => unit = FALSE /\ ap.cand.attempts = IF layout = "native" THEN 0 ELSE 1
    /\ Live /\ layout # "legacy" =>
        /\ status.cand.version = current /\ pc \notin {"install", "record", "switch"}
        /\ pc = "save" =>
               /\ ap.cand.version = current
               /\ \/ hist.runs + 1 <= ap.cand.attempts
                  \/ layout = "native" /\ ap.result = "switched" /\ hist.runs <= ap.cand.attempts
        /\ pc = "start" => hist.runs + 1 <= status.cand.attempts
        /\ pc # "start" =>
               hist.runs + (IF unit THEN 1 ELSE 0) <= status.cand.attempts

(* Without "-apply" the agent counts its own starts. *)
OwnCountStory ==
    /\ proc.h = "staged" => st.confirmed = FALSE
    /\ Live /\ layout = "legacy" => pendingCandidate(st, current) /\ hist.runs <= st.attempts

(* An export of the version that an update replaced is none of the new one. *)
ReplacedStory ==
    /\ pc = "undo" => hist.before = None
    /\ Runs /\ hist.torn = FALSE /\ hist.before # None /\ proc.ver # current =>
        layout = "legacy" /\ hist.healthy = FALSE

CountInv == StartsBounded /\ CountedStory /\ OwnCountStory /\ ReplacedStory

LEMMA StartsBoundedStep == IInv /\ ProofInv /\ CountInv /\ StepDoes => StartsBounded'
<1>1. SUFFICES ASSUME IInv, ProofInv, CountInv, StepDoes
               PROVE  StartsBounded'
  OBVIOUS
<1>2. /\ StartsBounded /\ CountedStory /\ OwnCountStory /\ ReplacedStory
      /\ ApplyStory /\ ModeStory /\ HandleStory /\ LegacyStory /\ RunningStory /\ AcceptStory /\ QueueStory
  BY <1>1 DEF IInv, ProofInv, CountInv
<1>3. TypeOK /\ Sound /\ current \in Version
      /\ hist.healthy \in BOOLEAN /\ hist.stuck \in BOOLEAN /\ hist.torn \in BOOLEAN
      /\ hist.runs \in Nat /\ unit \in BOOLEAN /\ status.cand.attempts \in 0..MaxStartAttempts
      /\ ap.cand.attempts \in 0..MaxStartAttempts /\ MaxStartAttempts \in Nat
      /\ st.attempts \in Nat /\ st.confirmed \in BOOLEAN
  BY <1>1, Records DEF IInv, TypeOK, Hist, Status, Candidate, State
<1>4. CASE BootDoes
  BY <1>1, <1>2, <1>3, <1>4, Records DEF BootDoes, agentVars, StartsBounded
<1>5. CASE LetGoDoes
  BY <1>1, <1>2, <1>3, <1>5, Records DEF LetGoDoes, agentVars, StartsBounded
<1>6. CASE CountStartDoes
  BY <1>1, <1>2, <1>3, <1>6, Records DEF CountStartDoes, agentVars, StartsBounded
<1>7. CASE RollBackDoes
  BY <1>1, <1>2, <1>3, <1>7, HistEffect, Records DEF RollBackDoes, agentVars, StartsBounded, HistDoes,
     SameExcuses
<1>8. CASE LeaveDoes
  BY <1>1, <1>2, <1>3, <1>8, Records DEF LeaveDoes, agentVars, StartsBounded
<1>9. CASE InstallDoes
  BY <1>1, <1>2, <1>3, <1>9, Records DEF InstallDoes, agentVars, StartsBounded
<1>10. CASE RecordDoes
  BY <1>1, <1>2, <1>3, <1>10, Records DEF RecordDoes, agentVars, StartsBounded
<1>11. CASE SwitchDoes
  BY <1>1, <1>2, <1>3, <1>11, HistEffect, Records DEF SwitchDoes, agentVars, StartsBounded, HistDoes,
     SameExcuses
<1>12. CASE SaveDoes
  BY <1>1, <1>2, <1>3, <1>12, Records DEF SaveDoes, agentVars, StartsBounded
<1>13. CASE StartStagedDoes
  BY <1>1, <1>2, <1>3, <1>13, Records DEF StartStagedDoes, rootVars, Settles, StartedFrom, RanFields,
     SameExcuses, StartsBounded, CountedStory, Live, ModeStory, Mode
<1>14. CASE StartLegacyDoes
  <2>1. CASE ~Live
    BY <1>2, <1>3, <1>14, <2>1 DEF StartLegacyDoes, RanFields, StartsBounded, Live
  <2>2. CASE Live
    <3>1. layout = "legacy" /\ Binary = current /\ Unstaged = st /\ pendingCandidate(st, current)
      BY <1>2, <1>3, <1>14, <2>2
      DEF StartLegacyDoes, Live, ModeStory, Mode, Binary, Unstaged, LegacyStory, OwnCountStory
    <3>2. ~GiveUp(Counted) /\ Counted.attempts = st.attempts + 1
      BY <1>3, <1>14, <3>1 DEF StartLegacyDoes, Counted, TypeOK, State
    <3>3. hist.runs <= st.attempts /\ st.attempts + 1 <= MaxStartAttempts
      BY <1>2, <1>3, <2>2, <3>1, <3>2 DEF OwnCountStory, GiveUp
    <3>4. QED  BY <1>3, <1>14, <3>3 DEF StartLegacyDoes, RanFields, StartsBounded
  <2>3. QED  BY <2>1, <2>2
<1>15. CASE RollBackAtStartDoes
  BY <1>1, <1>2, <1>3, <1>15, HistEffect, Records DEF RollBackAtStartDoes, rootVars, Settles,
     UndoDoes, SameExcuses, StartsBounded, HistDoes
<1>16. CASE SaveRollbackDoes
  BY <1>1, <1>2, <1>3, <1>16, Records DEF SaveRollbackDoes, rootVars, Settles, StartsBounded
<1>17. CASE ConfirmDoes
  BY <1>1, <1>2, <1>3, <1>17, Records DEF ConfirmDoes, rootVars, SameExcuses, StartsBounded
<1>18. CASE PruneDoes
  BY <1>1, <1>2, <1>3, <1>18, Records DEF PruneDoes, rootVars, StartsBounded
<1>19. CASE WatchdogStagedDoes
  BY <1>1, <1>2, <1>3, <1>19, Records DEF WatchdogStagedDoes, rootVars, SameProcess, StartsBounded
<1>20. CASE WatchdogLegacyDoes
  BY <1>1, <1>2, <1>3, <1>20, HistEffect, Records DEF WatchdogLegacyDoes, rootVars, Settles, UndoDoes,
     SameExcuses, StartsBounded, HistDoes
<1>21. CASE \E ins \in Instruction : HandleDoes(ins)
  BY <1>1, <1>2, <1>3, <1>21, Records DEF HandleDoes, rootVars, SameProcess, SameExcuses,
     StartsBounded
<1>22. CASE StageFailsDoes
  BY <1>1, <1>2, <1>3, <1>22, Records DEF StageFailsDoes, rootVars, SameProcess, SavesStatus,
     StartsBounded
<1>23. CASE StagePlacesDoes
  BY <1>1, <1>2, <1>3, <1>23, Records DEF StagePlacesDoes, rootVars, SameProcess, StartsBounded
<1>24. CASE StageRecordsDoes
  BY <1>1, <1>2, <1>3, <1>24, Records DEF StageRecordsDoes, rootVars, SameProcess, StartsBounded
<1>25. CASE StageSwitchesDoes
  BY <1>1, <1>2, <1>3, <1>25, HistEffect, Records DEF StageSwitchesDoes, rootVars, SameProcess,
     SavesStatus, SameExcuses, StartsBounded, HistDoes
<1>26. CASE StageDoneDoes
  BY <1>1, <1>2, <1>3, <1>26, Records DEF StageDoneDoes, rootVars, SameProcess, SavesStatus,
     StartsBounded
<1>27. CASE GoneDoes
  BY <1>1, <1>2, <1>3, <1>27, Records DEF GoneDoes, StartsBounded
<1>28. CASE \E v \in Version : PackageDoes(v)
  BY <1>1, <1>2, <1>3, <1>28, Records DEF PackageDoes, StartsBounded
<1>29. CASE WorldDoes
  BY <1>1, <1>2, <1>3, <1>29, HistEffect, Records DEF WorldDoes, StartsBounded, HistDoes, SameExcuses
<1>30. QED  BY <1>1, <1>4, <1>5, <1>6, <1>7, <1>8, <1>9, <1>10, <1>11, <1>12, <1>13,
                   <1>14, <1>15, <1>16, <1>17, <1>18, <1>19, <1>20, <1>21, <1>22, <1>23, <1>24, <1>25, <1>26,
                   <1>27, <1>28, <1>29 DEF StepDoes

LEMMA CountedStoryStep == IInv /\ ProofInv /\ CountInv /\ StepDoes => CountedStory'
<1>1. SUFFICES ASSUME IInv, ProofInv, CountInv, StepDoes
               PROVE  CountedStory'
  OBVIOUS
<1>2. /\ StartsBounded /\ CountedStory /\ OwnCountStory /\ ReplacedStory
      /\ ApplyStory /\ ModeStory /\ HandleStory /\ LegacyStory /\ RunningStory /\ AcceptStory /\ QueueStory
  BY <1>1 DEF IInv, ProofInv, CountInv
<1>3. TypeOK /\ Sound /\ current \in Version
      /\ hist.healthy \in BOOLEAN /\ hist.stuck \in BOOLEAN /\ hist.torn \in BOOLEAN
      /\ hist.runs \in Nat /\ unit \in BOOLEAN /\ status.cand.attempts \in 0..MaxStartAttempts
      /\ ap.cand.attempts \in 0..MaxStartAttempts /\ MaxStartAttempts \in Nat
      /\ st.attempts \in Nat /\ st.confirmed \in BOOLEAN
  BY <1>1, Records DEF IInv, TypeOK, Hist, Status, Candidate, State
<1>4. CASE BootDoes
  BY <1>1, <1>2, <1>3, <1>4, Records, Versions DEF BootDoes, agentVars, CountedStory, Live,
     ApplyStory, Applying, Runs
<1>5. CASE LetGoDoes
  BY <1>1, <1>2, <1>3, <1>5, Records, Versions DEF LetGoDoes, agentVars, CountedStory, Live,
     ApplyStory, Applying, Runs, AcceptStory
<1>6. CASE CountStartDoes
  BY <1>1, <1>2, <1>3, <1>6, Records, Versions DEF CountStartDoes, agentVars, CountedStory, Live,
     ApplyStory, Applying, Runs, Attempts
<1>7. CASE RollBackDoes
  BY <1>1, <1>2, <1>3, <1>7, HistEffect, Records, Versions DEF RollBackDoes, agentVars, CountedStory,
     Live, ApplyStory, Applying, Runs, HistDoes, SameExcuses
<1>8. CASE LeaveDoes
  BY <1>1, <1>2, <1>3, <1>8, Records, Versions DEF LeaveDoes, agentVars, CountedStory, Live,
     ApplyStory, Applying, Runs
<1>9. CASE InstallDoes
  BY <1>1, <1>2, <1>3, <1>9, Records, Versions DEF InstallDoes, agentVars, CountedStory, Live,
     ApplyStory, Applying, Runs
<1>10. CASE RecordDoes
  BY <1>1, <1>2, <1>3, <1>10, Records, Versions DEF RecordDoes, agentVars, CountedStory, Live,
     ApplyStory, Applying, Runs
<1>11. CASE SwitchDoes
  BY <1>1, <1>2, <1>3, <1>11, HistEffect, Records, Versions DEF SwitchDoes, agentVars, CountedStory,
     Live, ApplyStory, Applying, Runs, HistDoes, SameExcuses
<1>12. CASE SaveDoes
  BY <1>1, <1>2, <1>3, <1>12, Records, Versions DEF SaveDoes, agentVars, CountedStory, Live,
     ApplyStory, Applying, Runs
<1>13. CASE StartStagedDoes
  BY <1>1, <1>2, <1>3, <1>13, Records, Versions DEF StartStagedDoes, rootVars, Settles, StartedFrom,
     RanFields, SameExcuses, CountedStory, Live, ApplyStory, Applying, Runs, Mode, RunningStory
<1>14. CASE StartLegacyDoes
  BY <1>1, <1>2, <1>3, <1>14, Records, Versions DEF StartLegacyDoes, rootVars, Settles, RanFields,
     SameExcuses, CountedStory, Live, ApplyStory, Applying, Runs, ModeStory, Mode, Binary
<1>15. CASE RollBackAtStartDoes
  BY <1>1, <1>2, <1>3, <1>15, HistEffect, Records, Versions DEF RollBackAtStartDoes, rootVars,
     Settles, UndoDoes, SameExcuses, CountedStory, Live, ApplyStory, Applying, Runs, HistDoes,
     ModeStory, Mode, Binary
<1>16. CASE SaveRollbackDoes
  BY <1>1, <1>2, <1>3, <1>16, Records, Versions DEF SaveRollbackDoes, rootVars, Settles, CountedStory,
     Live, ApplyStory, Applying, Runs, ModeStory
<1>17. CASE ConfirmDoes
  BY <1>1, <1>2, <1>3, <1>17, Records, Versions DEF ConfirmDoes, rootVars, SameExcuses, CountedStory,
     Live, ApplyStory, Applying, Runs, ReplacedStory
<1>18. CASE PruneDoes
  BY <1>1, <1>2, <1>3, <1>18, Records, Versions DEF PruneDoes, rootVars, CountedStory, Live,
     ApplyStory, Applying, Runs
<1>19. CASE WatchdogStagedDoes
  BY <1>1, <1>2, <1>3, <1>19, Records, Versions DEF WatchdogStagedDoes, rootVars, SameProcess,
     CountedStory, Live, ApplyStory, Applying, Runs
<1>20. CASE WatchdogLegacyDoes
  BY <1>1, <1>2, <1>3, <1>20, HistEffect, Records, Versions DEF WatchdogLegacyDoes, rootVars, Settles,
     UndoDoes, SameExcuses, CountedStory, Live, ApplyStory, Applying, Runs, HistDoes, ModeStory
<1>21. CASE \E ins \in Instruction : HandleDoes(ins)
  BY <1>1, <1>2, <1>3, <1>21, Records, Versions DEF HandleDoes, rootVars, SameProcess, SameExcuses,
     CountedStory, Live, ApplyStory, Applying, Runs
<1>22. CASE StageFailsDoes
  BY <1>1, <1>2, <1>3, <1>22, Records, Versions DEF StageFailsDoes, rootVars, SameProcess,
     SavesStatus, CountedStory, Live, ApplyStory, Applying, Runs
<1>23. CASE StagePlacesDoes
  BY <1>1, <1>2, <1>3, <1>23, Records, Versions DEF StagePlacesDoes, rootVars, SameProcess,
     CountedStory, Live, ApplyStory, Applying, Runs
<1>24. CASE StageRecordsDoes
  BY <1>1, <1>2, <1>3, <1>24, Records, Versions DEF StageRecordsDoes, rootVars, SameProcess,
     CountedStory, Live, ApplyStory, Applying, Runs, ModeStory
<1>25. CASE StageSwitchesDoes
  BY <1>1, <1>2, <1>3, <1>25, HistEffect, Records, Versions DEF StageSwitchesDoes, rootVars,
     SameProcess, SavesStatus, SameExcuses, CountedStory, Live, ApplyStory, Applying, Runs,
     HistDoes, ModeStory, HandleStory
<1>26. CASE StageDoneDoes
  BY <1>1, <1>2, <1>3, <1>26, Records, Versions DEF StageDoneDoes, rootVars, SameProcess, SavesStatus,
     CountedStory, Live, ApplyStory, Applying, Runs
<1>27. CASE GoneDoes
  BY <1>1, <1>2, <1>3, <1>27, Records, Versions DEF GoneDoes, CountedStory, Live, ApplyStory,
     Applying, Runs
<1>28. CASE \E v \in Version : PackageDoes(v)
  BY <1>1, <1>2, <1>3, <1>28, Records, Versions DEF PackageDoes, CountedStory, Live, ApplyStory,
     Applying, Runs
<1>29. CASE WorldDoes
  BY <1>1, <1>2, <1>3, <1>29, HistEffect, Records, Versions DEF WorldDoes, CountedStory, Live,
     ApplyStory, Applying, Runs, HistDoes, SameExcuses
<1>30. QED  BY <1>1, <1>4, <1>5, <1>6, <1>7, <1>8, <1>9, <1>10, <1>11, <1>12, <1>13,
                   <1>14, <1>15, <1>16, <1>17, <1>18, <1>19, <1>20, <1>21, <1>22, <1>23, <1>24, <1>25, <1>26,
                   <1>27, <1>28, <1>29 DEF StepDoes

LEMMA OwnCountStoryStep == IInv /\ ProofInv /\ CountInv /\ StepDoes => OwnCountStory'
<1>1. SUFFICES ASSUME IInv, ProofInv, CountInv, StepDoes
               PROVE  OwnCountStory'
  OBVIOUS
<1>2. /\ StartsBounded /\ CountedStory /\ OwnCountStory /\ ReplacedStory
      /\ ApplyStory /\ ModeStory /\ HandleStory /\ LegacyStory /\ RunningStory /\ AcceptStory /\ QueueStory
  BY <1>1 DEF IInv, ProofInv, CountInv
<1>3. TypeOK /\ Sound /\ current \in Version
      /\ hist.healthy \in BOOLEAN /\ hist.stuck \in BOOLEAN /\ hist.torn \in BOOLEAN
      /\ hist.runs \in Nat /\ unit \in BOOLEAN /\ status.cand.attempts \in 0..MaxStartAttempts
      /\ ap.cand.attempts \in 0..MaxStartAttempts /\ MaxStartAttempts \in Nat
      /\ st.attempts \in Nat /\ st.confirmed \in BOOLEAN
  BY <1>1, Records DEF IInv, TypeOK, Hist, Status, Candidate, State
<1>4. CASE BootDoes
  BY <1>1, <1>2, <1>3, <1>4, Versions DEF BootDoes, agentVars, OwnCountStory, Live, LegacyStory,
     HandleStory, pendingCandidate, Runs, Unlocked
<1>5. CASE LetGoDoes
  BY <1>1, <1>2, <1>3, <1>5, Versions DEF LetGoDoes, agentVars, OwnCountStory, Live, LegacyStory,
     HandleStory, pendingCandidate, Runs, Unlocked
<1>6. CASE CountStartDoes
  BY <1>1, <1>2, <1>3, <1>6, Versions DEF CountStartDoes, agentVars, OwnCountStory, Live, LegacyStory,
     HandleStory, pendingCandidate, Runs, Unlocked
<1>7. CASE RollBackDoes
  BY <1>1, <1>2, <1>3, <1>7, HistEffect, Versions DEF RollBackDoes, agentVars, OwnCountStory, Live,
     LegacyStory, HandleStory, pendingCandidate, Runs, Unlocked, HistDoes, SameExcuses
<1>8. CASE LeaveDoes
  BY <1>1, <1>2, <1>3, <1>8, Versions DEF LeaveDoes, agentVars, OwnCountStory, Live, LegacyStory,
     HandleStory, pendingCandidate, Runs, Unlocked
<1>9. CASE InstallDoes
  BY <1>1, <1>2, <1>3, <1>9, Versions DEF InstallDoes, agentVars, OwnCountStory, Live, LegacyStory,
     HandleStory, pendingCandidate, Runs, Unlocked
<1>10. CASE RecordDoes
  BY <1>1, <1>2, <1>3, <1>10, Versions DEF RecordDoes, agentVars, OwnCountStory, Live, LegacyStory,
     HandleStory, pendingCandidate, Runs, Unlocked
<1>11. CASE SwitchDoes
  BY <1>1, <1>2, <1>3, <1>11, HistEffect, Versions DEF SwitchDoes, agentVars, OwnCountStory, Live,
     LegacyStory, HandleStory, pendingCandidate, Runs, Unlocked, HistDoes, SameExcuses, ApplyStory,
     Applying
<1>12. CASE SaveDoes
  BY <1>1, <1>2, <1>3, <1>12, Versions DEF SaveDoes, agentVars, OwnCountStory, Live, LegacyStory,
     HandleStory, pendingCandidate, Runs, Unlocked
<1>13. CASE StartStagedDoes
  BY <1>1, <1>2, <1>3, <1>13, Versions DEF StartStagedDoes, rootVars, Settles, StartedFrom, RanFields,
     SameExcuses, OwnCountStory, Live, LegacyStory, HandleStory, pendingCandidate, Runs, Unlocked,
     Binary, Mode
<1>14. CASE StartLegacyDoes
  <2>1. proc'.h = "idle"
    BY <1>14 DEF StartLegacyDoes
  <2>2. SUFFICES ASSUME Live', layout = "legacy"
                 PROVE  pendingCandidate(st', current) /\ hist'.runs <= st'.attempts
    BY <1>14, <2>1 DEF StartLegacyDoes, rootVars, OwnCountStory, pendingCandidate
  <2>3. Live /\ Binary = current /\ Unstaged = st /\ hist'.runs = hist.runs + 1
    BY <1>2, <1>3, <1>14, <2>2
    DEF StartLegacyDoes, RanFields, SameExcuses, rootVars, Live, Binary, Unstaged, LegacyStory
  <2>4. pendingCandidate(st, current) /\ hist.runs <= st.attempts
    BY <1>2, <2>2, <2>3 DEF OwnCountStory
  <2>5. Counted.attempts = st.attempts + 1
    BY <1>3, <2>3 DEF Counted, TypeOK, State
  <2>6. st'.candidate = current /\ st'.confirmed = FALSE /\ st'.attempts = st.attempts + 1
    BY <1>14, <2>3, <2>4, <2>5 DEF StartLegacyDoes
  <2>7. QED  BY <1>3, <2>3, <2>4, <2>6 DEF pendingCandidate
<1>15. CASE RollBackAtStartDoes
  BY <1>1, <1>2, <1>3, <1>15, HistEffect, Versions DEF RollBackAtStartDoes, rootVars, Settles,
     UndoDoes, SameExcuses, OwnCountStory, Live, LegacyStory, HandleStory, pendingCandidate, Runs,
     Unlocked, HistDoes, Binary, Mode
<1>16. CASE SaveRollbackDoes
  BY <1>1, <1>2, <1>3, <1>16, Versions DEF SaveRollbackDoes, rootVars, Settles, OwnCountStory, Live,
     LegacyStory, HandleStory, pendingCandidate, Runs, Unlocked, ReplacedStory
<1>17. CASE ConfirmDoes
  BY <1>1, <1>2, <1>3, <1>17, Versions DEF ConfirmDoes, rootVars, SameExcuses, OwnCountStory, Live,
     LegacyStory, HandleStory, pendingCandidate, Runs, Unlocked, ReplacedStory
<1>18. CASE PruneDoes
  BY <1>1, <1>2, <1>3, <1>18, Versions DEF PruneDoes, rootVars, OwnCountStory, Live, LegacyStory,
     HandleStory, pendingCandidate, Runs, Unlocked
<1>19. CASE WatchdogStagedDoes
  BY <1>1, <1>2, <1>3, <1>19, Versions DEF WatchdogStagedDoes, rootVars, SameProcess, OwnCountStory,
     Live, LegacyStory, HandleStory, pendingCandidate, Runs, Unlocked
<1>20. CASE WatchdogLegacyDoes
  BY <1>1, <1>2, <1>3, <1>20, HistEffect, Versions DEF WatchdogLegacyDoes, rootVars, Settles,
     UndoDoes, SameExcuses, OwnCountStory, Live, LegacyStory, HandleStory, pendingCandidate, Runs,
     Unlocked, HistDoes
<1>21. CASE \E ins \in Instruction : HandleDoes(ins)
  <2>1. PICK ins \in Instruction : HandleDoes(ins)
    BY <1>21
  <2>2. /\ proc'.h = "stage" /\ layout' = layout /\ current' = current
        /\ hist'.before = hist.before /\ hist'.healthy = hist.healthy /\ hist'.stuck = hist.stuck
        /\ hist'.torn = hist.torn
    BY <2>1 DEF HandleDoes, rootVars, SameExcuses
  <2>3. layout = "legacy" => proc.ver = current
    BY <1>2, <2>1 DEF HandleDoes, LegacyStory, Runs
  <2>4. UnsavedStory /\ ~(proc.unsaved = 0 /\ pendingCandidate(st, proc.ver))
    BY <1>1, <2>1 DEF ProofInv, HandleDoes
  <2>5. ~(Live /\ layout = "legacy")
    BY <1>2, <2>3, <2>4 DEF OwnCountStory, UnsavedStory, Live
  <2>6. QED  BY <2>2, <2>5 DEF OwnCountStory, Live
<1>22. CASE StageFailsDoes
  BY <1>1, <1>2, <1>3, <1>22, Versions DEF StageFailsDoes, rootVars, SameProcess, SavesStatus,
     OwnCountStory, Live, LegacyStory, HandleStory, pendingCandidate, Runs, Unlocked
<1>23. CASE StagePlacesDoes
  BY <1>1, <1>2, <1>3, <1>23, Versions DEF StagePlacesDoes, rootVars, SameProcess, OwnCountStory,
     Live, LegacyStory, HandleStory, pendingCandidate, Runs, Unlocked
<1>24. CASE StageRecordsDoes
  BY <1>1, <1>2, <1>3, <1>24, Versions DEF StageRecordsDoes, rootVars, SameProcess, OwnCountStory,
     Live, LegacyStory, HandleStory, pendingCandidate, Runs, Unlocked
<1>25. CASE StageSwitchesDoes
  BY <1>1, <1>2, <1>3, <1>25, HistEffect, Versions DEF StageSwitchesDoes, rootVars, SameProcess,
     SavesStatus, SameExcuses, OwnCountStory, Live, LegacyStory, HandleStory, pendingCandidate,
     Runs, Unlocked, HistDoes
<1>26. CASE StageDoneDoes
  BY <1>1, <1>2, <1>3, <1>26, Versions DEF StageDoneDoes, rootVars, SameProcess, SavesStatus,
     OwnCountStory, Live, LegacyStory, HandleStory, pendingCandidate, Runs, Unlocked
<1>27. CASE GoneDoes
  BY <1>1, <1>2, <1>3, <1>27, Versions DEF GoneDoes, OwnCountStory, Live, LegacyStory, HandleStory,
     pendingCandidate, Runs, Unlocked
<1>28. CASE \E v \in Version : PackageDoes(v)
  BY <1>1, <1>2, <1>3, <1>28, Versions DEF PackageDoes, OwnCountStory, Live, LegacyStory, HandleStory,
     pendingCandidate, Runs, Unlocked
<1>29. CASE WorldDoes
  BY <1>1, <1>2, <1>3, <1>29, HistEffect, Versions DEF WorldDoes, OwnCountStory, Live, LegacyStory,
     HandleStory, pendingCandidate, Runs, Unlocked, HistDoes, SameExcuses
<1>30. QED  BY <1>1, <1>4, <1>5, <1>6, <1>7, <1>8, <1>9, <1>10, <1>11, <1>12, <1>13,
                   <1>14, <1>15, <1>16, <1>17, <1>18, <1>19, <1>20, <1>21, <1>22, <1>23, <1>24, <1>25, <1>26,
                   <1>27, <1>28, <1>29 DEF StepDoes

LEMMA ReplacedStoryStep == IInv /\ ProofInv /\ CountInv /\ StepDoes => ReplacedStory'
<1>1. SUFFICES ASSUME IInv, ProofInv, CountInv, StepDoes
               PROVE  ReplacedStory'
  OBVIOUS
<1>2. /\ StartsBounded /\ CountedStory /\ OwnCountStory /\ ReplacedStory
      /\ ApplyStory /\ ModeStory /\ HandleStory /\ LegacyStory /\ RunningStory /\ AcceptStory /\ QueueStory
  BY <1>1 DEF IInv, ProofInv, CountInv
<1>3. TypeOK /\ Sound /\ current \in Version
      /\ hist.healthy \in BOOLEAN /\ hist.stuck \in BOOLEAN /\ hist.torn \in BOOLEAN
      /\ hist.runs \in Nat /\ unit \in BOOLEAN /\ status.cand.attempts \in 0..MaxStartAttempts
      /\ ap.cand.attempts \in 0..MaxStartAttempts /\ MaxStartAttempts \in Nat
      /\ st.attempts \in Nat /\ st.confirmed \in BOOLEAN
  BY <1>1, Records DEF IInv, TypeOK, Hist, Status, Candidate, State
<1>4. CASE BootDoes
  BY <1>1, <1>2, <1>3, <1>4 DEF BootDoes, agentVars, ReplacedStory, Applying, Runs
<1>5. CASE LetGoDoes
  BY <1>1, <1>2, <1>3, <1>5 DEF LetGoDoes, agentVars, ReplacedStory, Applying, Runs
<1>6. CASE CountStartDoes
  BY <1>1, <1>2, <1>3, <1>6 DEF CountStartDoes, agentVars, ReplacedStory, Applying, Runs
<1>7. CASE RollBackDoes
  BY <1>1, <1>2, <1>3, <1>7, HistEffect DEF RollBackDoes, agentVars, ReplacedStory, Applying, Runs,
     HistDoes, SameExcuses
<1>8. CASE LeaveDoes
  BY <1>1, <1>2, <1>3, <1>8 DEF LeaveDoes, agentVars, ReplacedStory, Applying, Runs
<1>9. CASE InstallDoes
  BY <1>1, <1>2, <1>3, <1>9 DEF InstallDoes, agentVars, ReplacedStory, Applying, Runs
<1>10. CASE RecordDoes
  BY <1>1, <1>2, <1>3, <1>10 DEF RecordDoes, agentVars, ReplacedStory, Applying, Runs
<1>11. CASE SwitchDoes
  BY <1>1, <1>2, <1>3, <1>11, HistEffect DEF SwitchDoes, agentVars, ReplacedStory, Applying, Runs,
     HistDoes, SameExcuses
<1>12. CASE SaveDoes
  BY <1>1, <1>2, <1>3, <1>12 DEF SaveDoes, agentVars, ReplacedStory, Applying, Runs
<1>13. CASE StartStagedDoes
  BY <1>1, <1>2, <1>3, <1>13 DEF StartStagedDoes, rootVars, Settles, StartedFrom, RanFields,
     SameExcuses, ReplacedStory, Applying, Runs, RunningStory, Binary
<1>14. CASE StartLegacyDoes
  BY <1>1, <1>2, <1>3, <1>14 DEF StartLegacyDoes, rootVars, Settles, RanFields, SameExcuses,
     ReplacedStory, Applying, Runs, ModeStory, Mode, Binary
<1>15. CASE RollBackAtStartDoes
  BY <1>1, <1>2, <1>3, <1>15, HistEffect DEF RollBackAtStartDoes, rootVars, Settles, UndoDoes,
     SameExcuses, ReplacedStory, Applying, Runs, HistDoes, ModeStory, Mode, Binary
<1>16. CASE SaveRollbackDoes
  BY <1>1, <1>2, <1>3, <1>16 DEF SaveRollbackDoes, rootVars, Settles, ReplacedStory, Applying, Runs,
     ModeStory
<1>17. CASE ConfirmDoes
  BY <1>1, <1>2, <1>3, <1>17 DEF ConfirmDoes, rootVars, SameExcuses, ReplacedStory, Applying, Runs
<1>18. CASE PruneDoes
  BY <1>1, <1>2, <1>3, <1>18 DEF PruneDoes, rootVars, ReplacedStory, Applying, Runs
<1>19. CASE WatchdogStagedDoes
  BY <1>1, <1>2, <1>3, <1>19 DEF WatchdogStagedDoes, rootVars, SameProcess, ReplacedStory, Applying,
     Runs
<1>20. CASE WatchdogLegacyDoes
  BY <1>1, <1>2, <1>3, <1>20, HistEffect DEF WatchdogLegacyDoes, rootVars, Settles, UndoDoes,
     SameExcuses, ReplacedStory, Applying, Runs, HistDoes, ModeStory
<1>21. CASE \E ins \in Instruction : HandleDoes(ins)
  BY <1>1, <1>2, <1>3, <1>21 DEF HandleDoes, rootVars, SameProcess, SameExcuses, ReplacedStory,
     Applying, Runs
<1>22. CASE StageFailsDoes
  BY <1>1, <1>2, <1>3, <1>22 DEF StageFailsDoes, rootVars, SameProcess, SavesStatus, ReplacedStory,
     Applying, Runs
<1>23. CASE StagePlacesDoes
  BY <1>1, <1>2, <1>3, <1>23 DEF StagePlacesDoes, rootVars, SameProcess, ReplacedStory, Applying, Runs
<1>24. CASE StageRecordsDoes
  BY <1>1, <1>2, <1>3, <1>24 DEF StageRecordsDoes, rootVars, SameProcess, ReplacedStory, Applying,
     Runs
<1>25. CASE StageSwitchesDoes
  BY <1>1, <1>2, <1>3, <1>25, HistEffect DEF StageSwitchesDoes, rootVars, SameProcess, SavesStatus,
     SameExcuses, ReplacedStory, Applying, Runs, HistDoes, ModeStory, HandleStory
<1>26. CASE StageDoneDoes
  BY <1>1, <1>2, <1>3, <1>26 DEF StageDoneDoes, rootVars, SameProcess, SavesStatus, ReplacedStory,
     Applying, Runs
<1>27. CASE GoneDoes
  BY <1>1, <1>2, <1>3, <1>27 DEF GoneDoes, ReplacedStory, Applying, Runs
<1>28. CASE \E v \in Version : PackageDoes(v)
  BY <1>1, <1>2, <1>3, <1>28 DEF PackageDoes, ReplacedStory, Applying, Runs
<1>29. CASE WorldDoes
  BY <1>1, <1>2, <1>3, <1>29, HistEffect DEF WorldDoes, ReplacedStory, Applying, Runs, HistDoes,
     SameExcuses
<1>30. QED  BY <1>1, <1>4, <1>5, <1>6, <1>7, <1>8, <1>9, <1>10, <1>11, <1>12, <1>13,
                   <1>14, <1>15, <1>16, <1>17, <1>18, <1>19, <1>20, <1>21, <1>22, <1>23, <1>24, <1>25, <1>26,
                   <1>27, <1>28, <1>29 DEF StepDoes

LEMMA InitCountInv == Init => CountInv
<1>1. SUFFICES ASSUME Init
               PROVE  CountInv
  OBVIOUS
<1>2. hist.before = None /\ hist.runs = 0 /\ pc = "down" /\ proc.h = "idle"
  BY <1>1, Records DEF Init
<1>3. QED
  BY <1>2, UpdateAssumption
  DEF CountInv, StartsBounded, CountedStory, OwnCountStory, ReplacedStory, Live, Runs

LEMMA StepCountInv == IInv /\ ProofInv /\ CountInv /\ [Next]_vars => CountInv'
<1>1. SUFFICES ASSUME IInv, ProofInv, CountInv, [Next]_vars
               PROVE  CountInv'
  OBVIOUS
<1>2. StepDoes
  BY <1>1, StepIInv
<1>3. QED  BY <1>1, <1>2, StartsBoundedStep, CountedStoryStep, OwnCountStoryStep, ReplacedStoryStep
              DEF CountInv

(* Every reachable state also satisfies CountInv. *)
THEOREM CountInvariance == Spec => []CountInv
<1>1. IInv /\ ProofInv /\ CountInv /\ UNCHANGED vars => CountInv'
  BY StepCountInv
<1>2. QED  BY InitCountInv, StepCountInv, Invariance, ProofInvariance, <1>1, PTL DEF Spec

(***************************************************************************)
(* A version that has not exported since it became current runs at most    *)
(* MaxStartAttempts times: the attempts that checkCandidate or Startup     *)
(* records before a run are never fewer than the runs.                     *)
(***************************************************************************)
THEOREM BoundedStarts == Spec => []StartsBounded
<1>1. CountInv => StartsBounded
  BY DEF CountInv
<1>2. QED  BY CountInvariance, <1>1, PTL

-----------------------------------------------------------------------------
(* What was rolled back is refused, and what is reported is true. *)

(* The state file says that the instruction was rolled back. *)
Refused == st.status = "rolled_back" /\ st.candidate = None /\ st.staged = None

(* The status tells the agent that its candidate was rolled back. *)
Telling(s) == s.result = "rolled_back" /\ s.from = st.candidate

(* The rollback is done and not yet in the state file. *)
InFlight ==
    /\ st.candidate \notin {None, current} /\ st.confirmed = FALSE
    /\ \/ pc = "save" /\ Telling(ap) /\ ap.cand.version = None
       \/ pc = "start" /\ layout # "legacy" /\ Telling(status)
       \/ /\ layout = "native" /\ pc \in {"down", "check", "install", "save"}
          /\ Telling(status) /\ status.carried = FALSE /\ status.cur = current
          /\ status.cand.version = None
          /\ st.staged # None => st.stagedAt = status.handled
          /\ pc \in {"check", "install", "save"} => ap.result = "none" /\ ap.cand.version = None
       \/ layout = "legacy" /\ pc = "undo"

RefusedStory ==
    /\ hist.refused \subseteq {st.ins}
    /\ hist.torn = FALSE /\ hist.refused # {} =>
        /\ Refused \/ InFlight
        /\ Runs => proc.h = "idle"

(* What tells of a rollback is news. *)
FreshStory ==
    hist.torn = FALSE =>
        /\ pc = "save" /\ ap.result = "rolled_back" => InFlight
        /\ pc = "start" /\ layout # "legacy" /\ status.result = "rolled_back" => InFlight
        /\ layout = "native" /\ status.result = "rolled_back" /\ status.carried = FALSE =>
               InFlight /\ pc # "start"
        /\ pc \in {"install", "record", "switch"} => ap.result # "rolled_back"
        /\ pc = "undo" => InFlight

(* No excuse applies. *)
Clean == hist.torn = FALSE /\ hist.packaged = FALSE /\ hist.stuck = FALSE

(* The sync goroutine works on the instruction of the state file. *)
TaskStory ==
    /\ proc.h \in {"stage", "placed", "staged", "switched"} => proc.ins = st.ins
    /\ proc.h # "idle" => ~(proc.ins.action = "upgrade" /\ proc.ins.target = proc.ver)
    /\ layout = "legacy" /\ Runs /\ pendingCandidate(st, proc.ver) => proc.ver = current
    /\ Clean => status.result # "rollback_failed" /\ ap.result # "rollback_failed"

(* The candidate is the target of the instruction. *)
TargetStory ==
    Clean =>
        /\ st.candidate # None /\ st.confirmed = FALSE =>
               /\ st.candidate = st.ins.target /\ st.status \in {"restarting", "confirming", "staged"}
               /\ Runs /\ proc.h \in {"idle", "stage", "placed"} => st.candidate = proc.ver
        /\ st.staged # None =>
               /\ st.candidate = st.staged /\ st.confirmed = FALSE /\ st.status = "restarting"
               /\ Runs => proc.h = "done"
               /\ \/ current # st.staged
                  \/ /\ status.cand.version = current /\ ~Confirmed(status.cand)
                     /\ pc \notin {"install", "record", "switch"}
                     /\ pc = "save" => ap.cand.version = current

(* The status agrees with what is current. *)
OutcomeStory ==
    Clean =>
        /\ st.status \in {"confirming", "succeeded"} => current = st.ins.target \/ InFlight
        /\ st.status = "rolled_back" \/ (st.status = "failed" /\ st.ins.action = "upgrade") =>
               current # st.ins.target

ReportInv == RefusedStory /\ FreshStory /\ TaskStory /\ TargetStory /\ OutcomeStory

(* What the goroutine of Confirm is to keep holds what the link names, until the link is switched. *)
PruneStory ==
    /\ proc.mode = "legacy" => layout # "staged"
    /\ prune # {} =>
        /\ layout # "staged"
        /\ layout = "native" => hist.torn = TRUE
        /\ layout = "legacy" => current \in prune \/ hist.late = TRUE

LinkInv == PruneStory /\ CurrentInstalled

LEMMA NothingUnsaved ==
    IInv /\ ProofInv /\ pc # "down" /\ st.candidate = None => proc.unsaved = 0 /\ Memory = st
BY Versions DEF IInv, Sound, ProofInv, UnsavedStory, pendingCandidate, Memory

LEMMA RefusedStoryStep == IInv /\ ProofInv /\ CountInv /\ ReportInv /\ StepDoes => RefusedStory'
<1>1. SUFFICES ASSUME IInv, ProofInv, CountInv, ReportInv, StepDoes
               PROVE  RefusedStory'
  OBVIOUS
<1>2. /\ RefusedStory /\ FreshStory /\ TaskStory /\ TargetStory /\ OutcomeStory
      /\ ApplyStory /\ ModeStory /\ HandleStory /\ LegacyStory
      /\ QueueStory /\ RunningStory /\ WatchedStory /\ SettledStory /\ OwnCountStory
  BY <1>1 DEF IInv, ProofInv, CountInv, ReportInv
<1>3. /\ TypeOK /\ Sound /\ current \in Version
      /\ hist.healthy \in BOOLEAN /\ hist.stuck \in BOOLEAN /\ hist.torn \in BOOLEAN /\ st.confirmed \in BOOLEAN
      /\ st.confAt \in Nat /\ ap.cand.at \in Nat /\ unit \in BOOLEAN
  BY <1>1 DEF IInv, TypeOK, Hist, State, Status, Candidate
<1>4. CASE BootDoes
  BY <1>1, <1>2, <1>3, <1>4, Records, Versions DEF BootDoes, agentVars, RefusedStory, Refused,
     InFlight, Telling, ApplyStory, Applying, Runs
<1>5. CASE LetGoDoes
  BY <1>1, <1>2, <1>3, <1>5, Records, Versions DEF LetGoDoes, agentVars, RefusedStory, Refused,
     InFlight, Telling, ApplyStory, Applying, Runs, WatchedStory, Unproved, pendingCandidate
<1>6. CASE CountStartDoes
  BY <1>1, <1>2, <1>3, <1>6, Records, Versions DEF CountStartDoes, agentVars, RefusedStory, Refused,
     InFlight, Telling, ApplyStory, Applying, Runs, WatchedStory, Unproved, pendingCandidate
<1>7. CASE RollBackDoes
  BY <1>1, <1>2, <1>3, <1>7, HistEffect, Records, Versions DEF RollBackDoes, agentVars, RefusedStory,
     Refused, InFlight, Telling, ApplyStory, Applying, Runs, HistDoes, SameExcuses, WatchedStory,
     Unproved, pendingCandidate
<1>8. CASE LeaveDoes
  BY <1>1, <1>2, <1>3, <1>8, Records, Versions DEF LeaveDoes, agentVars, RefusedStory, Refused,
     InFlight, Telling, ApplyStory, Applying, Runs, Staged, QueueStory
<1>9. CASE InstallDoes
  BY <1>1, <1>2, <1>3, <1>9, Records, Versions DEF InstallDoes, agentVars, RefusedStory, Refused,
     InFlight, Telling, ApplyStory, Applying, Runs, Staged, QueueStory
<1>10. CASE RecordDoes
  BY <1>1, <1>2, <1>3, <1>10, Records, Versions DEF RecordDoes, agentVars, RefusedStory, Refused,
     InFlight, Telling, ApplyStory, Applying, Runs
<1>11. CASE SwitchDoes
  BY <1>1, <1>2, <1>3, <1>11, HistEffect, Records, Versions DEF SwitchDoes, agentVars, RefusedStory,
     Refused, InFlight, Telling, ApplyStory, Applying, Runs, HistDoes, SameExcuses
<1>12. CASE SaveDoes
  BY <1>1, <1>2, <1>3, <1>12, Records, Versions DEF SaveDoes, agentVars, RefusedStory, Refused,
     InFlight, Telling, ApplyStory, Applying, Runs, Carries, QueueStory
<1>13. CASE StartStagedDoes
  BY <1>1, <1>2, <1>3, <1>13, Records, Versions DEF StartStagedDoes, rootVars, Settles, StartedFrom,
     RanFields, SameExcuses, RefusedStory, Refused, InFlight, Telling, ApplyStory, Applying, Runs,
     Mode, Binary, pendingCandidate, Replaced, Sound
<1>14. CASE StartLegacyDoes
  <2>1. /\ layout' = layout /\ current' = current /\ hist'.torn = hist.torn /\ hist'.stuck = hist.stuck
        /\ hist'.packaged = hist.packaged /\ hist'.refused = hist.refused
        /\ status' = status /\ ap' = ap /\ proc'.h = "idle" /\ proc'.ver = Binary /\ pc = "start" /\ pc' = "run"
        /\ st'.ins = st.ins
    BY <1>14 DEF StartLegacyDoes, RanFields, SameExcuses, Settles, rootVars
  <2>2. hist.torn = FALSE => /\ layout = "legacy" /\ Unstaged = st /\ Binary = current /\ st.staged = None
                             /\ st'.staged = None
    BY <1>2, <1>3, <1>14 DEF StartLegacyDoes, Mode, Binary, ModeStory, LegacyStory, Unstaged, TypeOK
  <2>3. hist.torn = FALSE =>
          \/ /\ st.candidate = current /\ st.confirmed = FALSE
             /\ st'.status = "confirming" /\ st'.candidate = current /\ st'.confirmed = FALSE
          \/ /\ st.candidate \notin {None, current} /\ st.confirmed = FALSE
             /\ st'.status = "failed" /\ st'.candidate = None
          \/ /\ ~pendingCandidate(st, current) /\ ~Replaced(st, current) /\ st' = st
    BY <1>3, <1>14, <2>2 DEF StartLegacyDoes, pendingCandidate, Replaced, TypeOK, State
  <2>4. QED  BY <1>2, <1>3, <2>1, <2>2, <2>3, Versions DEF RefusedStory, Refused, InFlight
<1>15. CASE RollBackAtStartDoes
  <2>1. hist.torn = FALSE => layout = "legacy" /\ Unstaged = st /\ st.candidate = Binary /\ Binary \in Version
                             /\ Binary = current /\ st.confirmed = FALSE
    BY <1>2, <1>3, <1>15 DEF RollBackAtStartDoes, Mode, Binary, ModeStory, LegacyStory, Unstaged,
          pendingCandidate
  <2>2. hist.torn = FALSE => hist.refused = {}
    BY <1>2, <1>15, <2>1, Versions DEF RollBackAtStartDoes, RefusedStory, Refused, InFlight
  <2>3. Counted.previous = st.previous /\ Counted.ins = st.ins /\ proc'.h = "idle" /\ layout' = layout
    BY <1>15 DEF RollBackAtStartDoes, Settles, rootVars
  <2>4. CASE pc' = "undo"
    BY <1>2, <1>3, <1>15, <2>1, <2>3, <2>4, HistEffect, Versions
    DEF RollBackAtStartDoes, UndoDoes, HistDoes, SameExcuses, RefusedStory, InFlight, HandleStory, Runs
  <2>5. CASE pc' # "undo"
    BY <1>2, <1>3, <1>15, <2>2, <2>3, <2>5, HistEffect
    DEF RollBackAtStartDoes, UndoDoes, Settles, HistDoes, RefusedStory
  <2>6. QED  BY <2>4, <2>5
<1>16. CASE SaveRollbackDoes
  BY <1>1, <1>2, <1>3, <1>16, Records, Versions DEF SaveRollbackDoes, rootVars, Settles, RefusedStory,
     Refused, InFlight, Telling, ApplyStory, Applying, Runs, LegacyStory, HandleStory, ModeStory
<1>17. CASE ConfirmDoes
  BY <1>1, <1>2, <1>3, <1>17, Records, Versions DEF ConfirmDoes, rootVars, SameExcuses, RefusedStory,
     Refused, InFlight, Telling, ApplyStory, Applying, Runs, pendingCandidate, Sound
<1>18. CASE PruneDoes
  BY <1>1, <1>2, <1>3, <1>18, Records, Versions DEF PruneDoes, rootVars, RefusedStory, Refused,
     InFlight, Telling, ApplyStory, Applying, Runs
<1>19. CASE WatchdogStagedDoes
  BY <1>1, <1>2, <1>3, <1>19, Records, Versions DEF WatchdogStagedDoes, rootVars, SameProcess,
     RefusedStory, Refused, InFlight, Telling, ApplyStory, Applying, Runs, pendingCandidate, Sound
<1>20. CASE WatchdogLegacyDoes
  BY <1>1, <1>2, <1>3, <1>20, HistEffect, Records, Versions DEF WatchdogLegacyDoes, rootVars, Settles,
     UndoDoes, SameExcuses, RefusedStory, Refused, InFlight, Telling, ApplyStory, Applying, Runs,
     HistDoes, pendingCandidate, Sound, ModeStory, HandleStory, LegacyStory
<1>21. CASE \E ins \in Instruction : HandleDoes(ins)
  <2>1. PICK ins \in Instruction : HandleDoes(ins)
    BY <1>21
  <2>2. hist.torn = FALSE /\ hist.refused # {} => Refused
    BY <1>2, <2>1 DEF HandleDoes, RefusedStory, InFlight
  <2>3. Refused => Memory.status = "rolled_back"
    BY <1>1, <2>1, NothingUnsaved DEF HandleDoes, Refused
  <2>4. hist.torn = FALSE /\ hist.refused # {} => ins # st.ins
    BY <2>1, <2>2, <2>3 DEF HandleDoes, skip
  <2>5. QED  BY <1>2, <1>3, <2>1, <2>4 DEF HandleDoes, RefusedStory, SameExcuses
<1>22. CASE StageFailsDoes
  BY <1>1, <1>2, <1>3, <1>22, Records, Versions DEF StageFailsDoes, rootVars, SameProcess,
     SavesStatus, RefusedStory, Refused, InFlight, Telling, ApplyStory, Applying, Runs
<1>23. CASE StagePlacesDoes
  BY <1>1, <1>2, <1>3, <1>23, Records, Versions DEF StagePlacesDoes, rootVars, SameProcess,
     RefusedStory, Refused, InFlight, Telling, ApplyStory, Applying, Runs
<1>24. CASE StageRecordsDoes
  BY <1>1, <1>2, <1>3, <1>24, Records, Versions DEF StageRecordsDoes, rootVars, SameProcess,
     RefusedStory, Refused, InFlight, Telling, ApplyStory, Applying, Runs
<1>25. CASE StageSwitchesDoes
  BY <1>1, <1>2, <1>3, <1>25, HistEffect, Records, Versions DEF StageSwitchesDoes, rootVars,
     SameProcess, SavesStatus, SameExcuses, RefusedStory, Refused, InFlight, Telling, ApplyStory,
     Applying, Runs, HistDoes
<1>26. CASE StageDoneDoes
  BY <1>1, <1>2, <1>3, <1>26, Records, Versions DEF StageDoneDoes, rootVars, SameProcess, SavesStatus,
     RefusedStory, Refused, InFlight, Telling, ApplyStory, Applying, Runs
<1>27. CASE GoneDoes
  BY <1>1, <1>2, <1>3, <1>27, Records, Versions DEF GoneDoes, RefusedStory, Refused, InFlight,
     Telling, ApplyStory, Applying, Runs, CutOff, Lasting
<1>28. CASE \E v \in Version : PackageDoes(v)
  BY <1>1, <1>2, <1>3, <1>28, Records, Versions DEF PackageDoes, RefusedStory, Refused, InFlight,
     Telling, ApplyStory, Applying, Runs
<1>29. CASE WorldDoes
  BY <1>1, <1>2, <1>3, <1>29, HistEffect, Records, Versions DEF WorldDoes, RefusedStory, Refused,
     InFlight, Telling, ApplyStory, Applying, Runs, HistDoes, SameExcuses
<1>30. QED  BY <1>1, <1>4, <1>5, <1>6, <1>7, <1>8, <1>9, <1>10, <1>11, <1>12, <1>13,
                   <1>14, <1>15, <1>16, <1>17, <1>18, <1>19, <1>20, <1>21, <1>22, <1>23, <1>24, <1>25, <1>26,
                   <1>27, <1>28, <1>29 DEF StepDoes

LEMMA FreshStoryStep == IInv /\ ProofInv /\ CountInv /\ ReportInv /\ StepDoes => FreshStory'
<1>1. SUFFICES ASSUME IInv, ProofInv, CountInv, ReportInv, StepDoes
               PROVE  FreshStory'
  OBVIOUS
<1>2. /\ RefusedStory /\ FreshStory /\ TaskStory /\ TargetStory /\ OutcomeStory
      /\ ApplyStory /\ ModeStory /\ HandleStory /\ LegacyStory
      /\ QueueStory /\ RunningStory /\ WatchedStory /\ SettledStory /\ OwnCountStory
  BY <1>1 DEF IInv, ProofInv, CountInv, ReportInv
<1>3. /\ TypeOK /\ Sound /\ current \in Version
      /\ hist.healthy \in BOOLEAN /\ hist.stuck \in BOOLEAN /\ hist.torn \in BOOLEAN /\ st.confirmed \in BOOLEAN
      /\ st.confAt \in Nat /\ ap.cand.at \in Nat /\ unit \in BOOLEAN
  BY <1>1 DEF IInv, TypeOK, Hist, State, Status, Candidate
<1>4. CASE BootDoes
  BY <1>1, <1>2, <1>3, <1>4, Records, Versions DEF BootDoes, agentVars, FreshStory, InFlight, Telling,
     ApplyStory, Applying, Runs
<1>5. CASE LetGoDoes
  BY <1>1, <1>2, <1>3, <1>5, Records, Versions DEF LetGoDoes, agentVars, FreshStory, InFlight,
     Telling, ApplyStory, Applying, Runs, WatchedStory, Unproved, pendingCandidate, QueueStory
<1>6. CASE CountStartDoes
  BY <1>1, <1>2, <1>3, <1>6, Records, Versions DEF CountStartDoes, agentVars, FreshStory, InFlight,
     Telling, ApplyStory, Applying, Runs, WatchedStory, Unproved, pendingCandidate, QueueStory
<1>7. CASE RollBackDoes
  BY <1>1, <1>2, <1>3, <1>7, HistEffect, Records, Versions DEF RollBackDoes, agentVars, FreshStory,
     InFlight, Telling, ApplyStory, Applying, Runs, HistDoes, SameExcuses, WatchedStory, Unproved,
     pendingCandidate, QueueStory
<1>8. CASE LeaveDoes
  BY <1>1, <1>2, <1>3, <1>8, Records, Versions DEF LeaveDoes, agentVars, FreshStory, InFlight,
     Telling, ApplyStory, Applying, Runs, Staged, QueueStory
<1>9. CASE InstallDoes
  BY <1>1, <1>2, <1>3, <1>9, Records, Versions DEF InstallDoes, agentVars, FreshStory, InFlight,
     Telling, ApplyStory, Applying, Runs, Staged, QueueStory
<1>10. CASE RecordDoes
  BY <1>1, <1>2, <1>3, <1>10, Records, Versions DEF RecordDoes, agentVars, FreshStory, InFlight,
     Telling, ApplyStory, Applying, Runs, QueueStory
<1>11. CASE SwitchDoes
  BY <1>1, <1>2, <1>3, <1>11, HistEffect, Records, Versions DEF SwitchDoes, agentVars, FreshStory,
     InFlight, Telling, ApplyStory, Applying, Runs, HistDoes, SameExcuses
<1>12. CASE SaveDoes
  BY <1>1, <1>2, <1>3, <1>12, Records, Versions DEF SaveDoes, agentVars, FreshStory, InFlight,
     Telling, ApplyStory, Applying, Runs, Carries, QueueStory
<1>13. CASE StartStagedDoes
  BY <1>1, <1>2, <1>3, <1>13, Records, Versions DEF StartStagedDoes, rootVars, Settles, StartedFrom,
     RanFields, SameExcuses, FreshStory, InFlight, Telling, ApplyStory, Applying, Runs, Mode,
     Binary, pendingCandidate, Replaced, Sound
<1>14. CASE StartLegacyDoes
  <2>1. /\ layout' = layout /\ current' = current /\ hist'.torn = hist.torn /\ hist'.stuck = hist.stuck
        /\ hist'.packaged = hist.packaged /\ hist'.refused = hist.refused
        /\ status' = status /\ ap' = ap /\ proc'.h = "idle" /\ proc'.ver = Binary /\ pc = "start" /\ pc' = "run"
        /\ st'.ins = st.ins
    BY <1>14 DEF StartLegacyDoes, RanFields, SameExcuses, Settles, rootVars
  <2>2. hist.torn = FALSE => /\ layout = "legacy" /\ Unstaged = st /\ Binary = current /\ st.staged = None
                             /\ st'.staged = None
    BY <1>2, <1>3, <1>14 DEF StartLegacyDoes, Mode, Binary, ModeStory, LegacyStory, Unstaged, TypeOK
  <2>3. hist.torn = FALSE =>
          \/ /\ st.candidate = current /\ st.confirmed = FALSE
             /\ st'.status = "confirming" /\ st'.candidate = current /\ st'.confirmed = FALSE
          \/ /\ st.candidate \notin {None, current} /\ st.confirmed = FALSE
             /\ st'.status = "failed" /\ st'.candidate = None
          \/ /\ ~pendingCandidate(st, current) /\ ~Replaced(st, current) /\ st' = st
    BY <1>3, <1>14, <2>2 DEF StartLegacyDoes, pendingCandidate, Replaced, TypeOK, State
  <2>4. QED  BY <1>2, <2>1, <2>2 DEF FreshStory, InFlight
<1>15. CASE RollBackAtStartDoes
  BY <1>1, <1>2, <1>3, <1>15, HistEffect, Records, Versions DEF RollBackAtStartDoes, rootVars,
     Settles, UndoDoes, SameExcuses, FreshStory, InFlight, Telling, ApplyStory, Applying, Runs,
     HistDoes, Mode, Binary, ModeStory, LegacyStory, Unstaged, pendingCandidate, Replaced,
     HandleStory
<1>16. CASE SaveRollbackDoes
  BY <1>1, <1>2, <1>3, <1>16, Records, Versions DEF SaveRollbackDoes, rootVars, Settles, FreshStory,
     InFlight, Telling, ApplyStory, Applying, Runs, ModeStory
<1>17. CASE ConfirmDoes
  BY <1>1, <1>2, <1>3, <1>17, Records, Versions DEF ConfirmDoes, rootVars, SameExcuses, FreshStory,
     InFlight, Telling, ApplyStory, Applying, Runs
<1>18. CASE PruneDoes
  BY <1>1, <1>2, <1>3, <1>18, Records, Versions DEF PruneDoes, rootVars, FreshStory, InFlight,
     Telling, ApplyStory, Applying, Runs
<1>19. CASE WatchdogStagedDoes
  BY <1>1, <1>2, <1>3, <1>19, Records, Versions DEF WatchdogStagedDoes, rootVars, SameProcess,
     FreshStory, InFlight, Telling, ApplyStory, Applying, Runs
<1>20. CASE WatchdogLegacyDoes
  BY <1>1, <1>2, <1>3, <1>20, HistEffect, Records, Versions DEF WatchdogLegacyDoes, rootVars, Settles,
     UndoDoes, SameExcuses, FreshStory, InFlight, Telling, ApplyStory, Applying, Runs, HistDoes,
     pendingCandidate, Sound, ModeStory, HandleStory, LegacyStory
<1>21. CASE \E ins \in Instruction : HandleDoes(ins)
  BY <1>1, <1>2, <1>3, <1>21, Records, Versions DEF HandleDoes, rootVars, SameProcess, SameExcuses,
     FreshStory, InFlight, Telling, ApplyStory, Applying, Runs
<1>22. CASE StageFailsDoes
  BY <1>1, <1>2, <1>3, <1>22, Records, Versions DEF StageFailsDoes, rootVars, SameProcess,
     SavesStatus, FreshStory, InFlight, Telling, ApplyStory, Applying, Runs
<1>23. CASE StagePlacesDoes
  BY <1>1, <1>2, <1>3, <1>23, Records, Versions DEF StagePlacesDoes, rootVars, SameProcess,
     FreshStory, InFlight, Telling, ApplyStory, Applying, Runs
<1>24. CASE StageRecordsDoes
  BY <1>1, <1>2, <1>3, <1>24, Records, Versions DEF StageRecordsDoes, rootVars, SameProcess,
     FreshStory, InFlight, Telling, ApplyStory, Applying, Runs
<1>25. CASE StageSwitchesDoes
  BY <1>1, <1>2, <1>3, <1>25, HistEffect, Records, Versions DEF StageSwitchesDoes, rootVars,
     SameProcess, SavesStatus, SameExcuses, FreshStory, InFlight, Telling, ApplyStory, Applying,
     Runs, HistDoes
<1>26. CASE StageDoneDoes
  BY <1>1, <1>2, <1>3, <1>26, Records, Versions DEF StageDoneDoes, rootVars, SameProcess, SavesStatus,
     FreshStory, InFlight, Telling, ApplyStory, Applying, Runs
<1>27. CASE GoneDoes
  BY <1>1, <1>2, <1>3, <1>27, Records, Versions DEF GoneDoes, FreshStory, InFlight, Telling,
     ApplyStory, Applying, Runs, CutOff, Lasting
<1>28. CASE \E v \in Version : PackageDoes(v)
  BY <1>1, <1>2, <1>3, <1>28, Records, Versions DEF PackageDoes, FreshStory, InFlight, Telling,
     ApplyStory, Applying, Runs
<1>29. CASE WorldDoes
  BY <1>1, <1>2, <1>3, <1>29, HistEffect, Records, Versions DEF WorldDoes, FreshStory, InFlight,
     Telling, ApplyStory, Applying, Runs, HistDoes, SameExcuses
<1>30. QED  BY <1>1, <1>4, <1>5, <1>6, <1>7, <1>8, <1>9, <1>10, <1>11, <1>12, <1>13,
                   <1>14, <1>15, <1>16, <1>17, <1>18, <1>19, <1>20, <1>21, <1>22, <1>23, <1>24, <1>25, <1>26,
                   <1>27, <1>28, <1>29 DEF StepDoes

LEMMA TaskStoryStep == IInv /\ ProofInv /\ CountInv /\ ReportInv /\ StepDoes => TaskStory'
<1>1. SUFFICES ASSUME IInv, ProofInv, CountInv, ReportInv, StepDoes
               PROVE  TaskStory'
  OBVIOUS
<1>2. /\ RefusedStory /\ FreshStory /\ TaskStory /\ TargetStory /\ OutcomeStory
      /\ ApplyStory /\ ModeStory /\ HandleStory /\ LegacyStory
      /\ QueueStory /\ RunningStory /\ WatchedStory /\ SettledStory /\ OwnCountStory
  BY <1>1 DEF IInv, ProofInv, CountInv, ReportInv
<1>3. /\ TypeOK /\ Sound /\ current \in Version
      /\ hist.healthy \in BOOLEAN /\ hist.stuck \in BOOLEAN /\ hist.torn \in BOOLEAN /\ st.confirmed \in BOOLEAN
      /\ st.confAt \in Nat /\ ap.cand.at \in Nat /\ unit \in BOOLEAN
  BY <1>1 DEF IInv, TypeOK, Hist, State, Status, Candidate
<1>4. CASE BootDoes
  BY <1>1, <1>2, <1>3, <1>4, Records, Versions DEF BootDoes, agentVars, TaskStory, Clean, Applying,
     Runs, HandleStory
<1>5. CASE LetGoDoes
  BY <1>1, <1>2, <1>3, <1>5, Records, Versions DEF LetGoDoes, agentVars, TaskStory, Clean, Applying,
     Runs
<1>6. CASE CountStartDoes
  BY <1>1, <1>2, <1>3, <1>6, Records, Versions DEF CountStartDoes, agentVars, TaskStory, Clean,
     Applying, Runs
<1>7. CASE RollBackDoes
  BY <1>1, <1>2, <1>3, <1>7, HistEffect, Records, Versions DEF RollBackDoes, agentVars, TaskStory,
     Clean, Applying, Runs, HistDoes, SameExcuses
<1>8. CASE LeaveDoes
  BY <1>1, <1>2, <1>3, <1>8, Records, Versions DEF LeaveDoes, agentVars, TaskStory, Clean, Applying,
     Runs
<1>9. CASE InstallDoes
  BY <1>1, <1>2, <1>3, <1>9, Records, Versions DEF InstallDoes, agentVars, TaskStory, Clean, Applying,
     Runs
<1>10. CASE RecordDoes
  BY <1>1, <1>2, <1>3, <1>10, Records, Versions DEF RecordDoes, agentVars, TaskStory, Clean, Applying,
     Runs
<1>11. CASE SwitchDoes
  BY <1>1, <1>2, <1>3, <1>11, HistEffect, Records, Versions DEF SwitchDoes, agentVars, TaskStory,
     Clean, Applying, Runs, HistDoes, SameExcuses
<1>12. CASE SaveDoes
  BY <1>1, <1>2, <1>3, <1>12, Records, Versions DEF SaveDoes, agentVars, TaskStory, Clean, Applying,
     Runs, Carries, HandleStory
<1>13. CASE StartStagedDoes
  BY <1>1, <1>2, <1>3, <1>13, Records, Versions DEF StartStagedDoes, rootVars, Settles, StartedFrom,
     RanFields, SameExcuses, TaskStory, Clean, Applying, Runs, Binary, Mode
<1>14. CASE StartLegacyDoes
  BY <1>1, <1>2, <1>3, <1>14, Records, Versions DEF StartLegacyDoes, rootVars, Settles, RanFields,
     SameExcuses, TaskStory, Clean, Applying, Runs, Binary, Mode, LegacyStory
<1>15. CASE RollBackAtStartDoes
  BY <1>1, <1>2, <1>3, <1>15, HistEffect, Records, Versions DEF RollBackAtStartDoes, rootVars,
     Settles, UndoDoes, SameExcuses, TaskStory, Clean, Applying, Runs, HistDoes, HandleStory,
     pendingCandidate, Sound, Binary
<1>16. CASE SaveRollbackDoes
  BY <1>1, <1>2, <1>3, <1>16, Records, Versions DEF SaveRollbackDoes, rootVars, Settles, TaskStory,
     Clean, Applying, Runs, HandleStory, pendingCandidate, Sound
<1>17. CASE ConfirmDoes
  BY <1>1, <1>2, <1>3, <1>17, Records, Versions DEF ConfirmDoes, rootVars, SameExcuses, TaskStory,
     Clean, Applying, Runs, pendingCandidate
<1>18. CASE PruneDoes
  BY <1>1, <1>2, <1>3, <1>18, Records, Versions DEF PruneDoes, rootVars, TaskStory, Clean, Applying,
     Runs
<1>19. CASE WatchdogStagedDoes
  BY <1>1, <1>2, <1>3, <1>19, Records, Versions DEF WatchdogStagedDoes, rootVars, SameProcess,
     TaskStory, Clean, Applying, Runs, pendingCandidate
<1>20. CASE WatchdogLegacyDoes
  BY <1>1, <1>2, <1>3, <1>20, HistEffect, Records, Versions DEF WatchdogLegacyDoes, rootVars, Settles,
     UndoDoes, SameExcuses, TaskStory, Clean, Applying, Runs, HistDoes, pendingCandidate, Sound
<1>21. CASE \E ins \in Instruction : HandleDoes(ins)
  BY <1>1, <1>2, <1>3, <1>21, Records, Versions DEF HandleDoes, rootVars, SameProcess, SameExcuses,
     TaskStory, Clean, Applying, Runs, skip, pendingCandidate
<1>22. CASE StageFailsDoes
  BY <1>1, <1>2, <1>3, <1>22, Records, Versions DEF StageFailsDoes, rootVars, SameProcess,
     SavesStatus, TaskStory, Clean, Applying, Runs, pendingCandidate
<1>23. CASE StagePlacesDoes
  BY <1>1, <1>2, <1>3, <1>23, Records, Versions DEF StagePlacesDoes, rootVars, SameProcess, TaskStory,
     Clean, Applying, Runs
<1>24. CASE StageRecordsDoes
  <2>1. proc.ver \in Nat /\ proc.ins.target \in Nat
    BY <1>2, <1>3, <1>24, Versions DEF StageRecordsDoes, Sound, Runs
  <2>2. proc.ins.target # proc.ver
    BY <1>2, <1>24, <2>1 DEF StageRecordsDoes, HandleStory, Verified
  <2>3. QED  BY <1>2, <1>24, <2>2
             DEF StageRecordsDoes, SameProcess, rootVars, TaskStory, Clean, pendingCandidate, Runs
<1>25. CASE StageSwitchesDoes
  BY <1>1, <1>2, <1>3, <1>25, HistEffect, Records, Versions DEF StageSwitchesDoes, rootVars,
     SameProcess, SavesStatus, SameExcuses, TaskStory, Clean, Applying, Runs, HistDoes, HandleStory,
     pendingCandidate, Sound
<1>26. CASE StageDoneDoes
  BY <1>1, <1>2, <1>3, <1>26, Records, Versions DEF StageDoneDoes, rootVars, SameProcess, SavesStatus,
     TaskStory, Clean, Applying, Runs, pendingCandidate
<1>27. CASE GoneDoes
  BY <1>1, <1>2, <1>3, <1>27, Records, Versions DEF GoneDoes, TaskStory, Clean, Applying, Runs
<1>28. CASE \E v \in Version : PackageDoes(v)
  BY <1>1, <1>2, <1>3, <1>28, Records, Versions DEF PackageDoes, TaskStory, Clean, Applying, Runs
<1>29. CASE WorldDoes
  BY <1>1, <1>2, <1>3, <1>29, HistEffect, Records, Versions DEF WorldDoes, TaskStory, Clean, Applying,
     Runs, HistDoes, SameExcuses
<1>30. QED  BY <1>1, <1>4, <1>5, <1>6, <1>7, <1>8, <1>9, <1>10, <1>11, <1>12, <1>13,
                   <1>14, <1>15, <1>16, <1>17, <1>18, <1>19, <1>20, <1>21, <1>22, <1>23, <1>24, <1>25, <1>26,
                   <1>27, <1>28, <1>29 DEF StepDoes

LEMMA TargetStoryStep == IInv /\ ProofInv /\ CountInv /\ ReportInv /\ StepDoes => TargetStory'
<1>1. SUFFICES ASSUME IInv, ProofInv, CountInv, ReportInv, StepDoes
               PROVE  TargetStory'
  OBVIOUS
<1>2. /\ RefusedStory /\ FreshStory /\ TaskStory /\ TargetStory /\ OutcomeStory
      /\ ApplyStory /\ ModeStory /\ HandleStory /\ LegacyStory
      /\ QueueStory /\ RunningStory /\ WatchedStory /\ SettledStory /\ OwnCountStory
  BY <1>1 DEF IInv, ProofInv, CountInv, ReportInv
<1>3. /\ TypeOK /\ Sound /\ current \in Version
      /\ hist.healthy \in BOOLEAN /\ hist.stuck \in BOOLEAN /\ hist.torn \in BOOLEAN /\ st.confirmed \in BOOLEAN
      /\ st.confAt \in Nat /\ ap.cand.at \in Nat /\ unit \in BOOLEAN
  BY <1>1 DEF IInv, TypeOK, Hist, State, Status, Candidate
<1>4. CASE BootDoes
  BY <1>1, <1>2, <1>3, <1>4, Records, Versions DEF BootDoes, agentVars, TargetStory, Clean, Confirmed,
     ApplyStory, Applying, Runs
<1>5. CASE LetGoDoes
  BY <1>1, <1>2, <1>3, <1>5, Records, Versions DEF LetGoDoes, agentVars, TargetStory, Clean,
     Confirmed, ApplyStory, Applying, Runs, WatchedStory, Unproved, pendingCandidate
<1>6. CASE CountStartDoes
  BY <1>1, <1>2, <1>3, <1>6, Records, Versions DEF CountStartDoes, agentVars, TargetStory, Clean,
     Confirmed, ApplyStory, Applying, Runs, WatchedStory, Unproved, pendingCandidate
<1>7. CASE RollBackDoes
  BY <1>1, <1>2, <1>3, <1>7, HistEffect, Records, Versions DEF RollBackDoes, agentVars, TargetStory,
     Clean, Confirmed, ApplyStory, Applying, Runs, HistDoes, SameExcuses, WatchedStory, Unproved,
     pendingCandidate
<1>8. CASE LeaveDoes
  BY <1>1, <1>2, <1>3, <1>8, Records, Versions DEF LeaveDoes, agentVars, TargetStory, Clean,
     Confirmed, ApplyStory, Applying, Runs, Staged, QueueStory
<1>9. CASE InstallDoes
  BY <1>1, <1>2, <1>3, <1>9, Records, Versions DEF InstallDoes, agentVars, TargetStory, Clean,
     Confirmed, ApplyStory, Applying, Runs, Staged, QueueStory
<1>10. CASE RecordDoes
  BY <1>1, <1>2, <1>3, <1>10, Records, Versions DEF RecordDoes, agentVars, TargetStory, Clean,
     Confirmed, ApplyStory, Applying, Runs, WatchedStory
<1>11. CASE SwitchDoes
  BY <1>1, <1>2, <1>3, <1>11, HistEffect, Records, Versions DEF SwitchDoes, agentVars, TargetStory,
     Clean, Confirmed, ApplyStory, Applying, Runs, HistDoes, SameExcuses, WatchedStory
<1>12. CASE SaveDoes
  BY <1>1, <1>2, <1>3, <1>12, Records, Versions DEF SaveDoes, agentVars, TargetStory, Clean,
     Confirmed, ApplyStory, Applying, Runs, WatchedStory
<1>13. CASE StartStagedDoes
  <2>1. /\ layout' = layout /\ current' = current /\ hist'.torn = hist.torn /\ hist'.stuck = hist.stuck
        /\ hist'.packaged = hist.packaged /\ status' = status /\ ap' = ap
        /\ proc'.h = "idle" /\ proc'.ver = Binary /\ pc = "start" /\ pc' \in {"run", "down"}
        /\ st'.ins = st.ins /\ st'.confVer = st.confVer /\ st'.confAt = st.confAt
        /\ layout # "legacy"
    BY <1>3, <1>13 DEF StartStagedDoes, RanFields, SameExcuses, Settles, rootVars, Mode
  <2>2. hist.torn = FALSE => Binary = current /\ StartedFrom(st, st', current)
    BY <1>2, <1>13, <2>1 DEF StartStagedDoes, RunningStory, Binary
  <2>3. SUFFICES ASSUME Clean
                 PROVE  TargetStory'
    BY <2>1 DEF TargetStory, Clean
  <2>4. st.staged = current => status.result = "switched" /\ status.to = current
    BY <1>2, <1>3, <2>1, <2>3, Versions DEF TargetStory, WatchedStory, Unproved, Clean
  <2>5. status.result = "rolled_back" => InFlight
    BY <1>2, <2>1, <2>3 DEF FreshStory, Clean
  <2>6. status.result # "rollback_failed"
    BY <1>2, <2>3 DEF TaskStory
  <2>7. \/ /\ st'.status = "rolled_back" /\ st'.candidate = None /\ st'.staged = None
           /\ InFlight
        \/ /\ st'.status = "failed" /\ st'.candidate = None /\ st'.staged = None
           /\ st.staged \notin {None, current}
        \/ /\ st'.status = "confirming" /\ st'.candidate = st.candidate /\ st'.staged = None
           /\ st'.confirmed = st.confirmed /\ pendingCandidate(st, current)
        \/ /\ st'.status = "failed" /\ st'.candidate = None /\ st'.staged = st.staged /\ st.staged = None
           /\ st.candidate \notin {None, current} /\ st.confirmed = FALSE
        \/ /\ st' = st /\ st.staged = None /\ ~pendingCandidate(st, current) /\ ~Replaced(st, current)
           /\ ~(InFlight /\ Telling(status))
    BY <1>2, <1>3, <2>1, <2>2, <2>3, <2>4, <2>5, <2>6, Versions
    DEF StartedFrom, TargetStory, Clean, pendingCandidate, Replaced, InFlight, Telling
  <2>8. QED  BY <1>2, <1>3, <2>1, <2>2, <2>3, <2>7, Versions
             DEF TargetStory, Clean, Replaced, pendingCandidate, Runs
<1>14. CASE StartLegacyDoes
  <2>1. /\ layout' = layout /\ current' = current /\ hist'.torn = hist.torn /\ hist'.stuck = hist.stuck
        /\ hist'.packaged = hist.packaged /\ hist'.refused = hist.refused
        /\ status' = status /\ ap' = ap /\ proc'.h = "idle" /\ proc'.ver = Binary /\ pc = "start" /\ pc' = "run"
        /\ st'.ins = st.ins
    BY <1>14 DEF StartLegacyDoes, RanFields, SameExcuses, Settles, rootVars
  <2>2. hist.torn = FALSE => /\ layout = "legacy" /\ Unstaged = st /\ Binary = current /\ st.staged = None
                             /\ st'.staged = None
    BY <1>2, <1>3, <1>14 DEF StartLegacyDoes, Mode, Binary, ModeStory, LegacyStory, Unstaged, TypeOK
  <2>3. hist.torn = FALSE =>
          \/ /\ st.candidate = current /\ st.confirmed = FALSE
             /\ st'.status = "confirming" /\ st'.candidate = current /\ st'.confirmed = FALSE
          \/ /\ st.candidate \notin {None, current} /\ st.confirmed = FALSE
             /\ st'.status = "failed" /\ st'.candidate = None
          \/ /\ ~pendingCandidate(st, current) /\ ~Replaced(st, current) /\ st' = st
    BY <1>3, <1>14, <2>2 DEF StartLegacyDoes, pendingCandidate, Replaced, TypeOK, State
  <2>4. QED  BY <1>2, <2>1, <2>2, <2>3, Versions
             DEF TargetStory, Clean, Replaced, pendingCandidate, Runs
<1>15. CASE RollBackAtStartDoes
  <2>1. hist.torn = FALSE => /\ layout = "legacy" /\ Unstaged = st /\ st.candidate = current
                             /\ st.confirmed = FALSE /\ st.staged = None
    BY <1>2, <1>3, <1>15 DEF RollBackAtStartDoes, Mode, Binary, ModeStory, LegacyStory, Unstaged,
          pendingCandidate
  <2>2. Counted.previous = st.previous /\ proc'.h = "idle" /\ layout' = layout
    BY <1>15 DEF RollBackAtStartDoes, Settles, rootVars
  <2>3. CASE pc' = "undo"
    BY <1>2, <1>3, <1>15, <2>1, <2>2, <2>3, HistEffect, Versions
    DEF RollBackAtStartDoes, UndoDoes, HistDoes, SameExcuses, TargetStory, Clean, Runs
  <2>4. CASE pc' # "undo"
    BY <1>3, <1>15, <2>4, HistEffect DEF RollBackAtStartDoes, UndoDoes, HistDoes, TargetStory, Clean
  <2>5. QED  BY <2>3, <2>4
<1>16. CASE SaveRollbackDoes
  BY <1>1, <1>2, <1>3, <1>16, Records, Versions DEF SaveRollbackDoes, rootVars, Settles, TargetStory,
     Clean, Confirmed, ApplyStory, Applying, Runs, LegacyStory, ModeStory
<1>17. CASE ConfirmDoes
  BY <1>1, <1>2, <1>3, <1>17, Records, Versions DEF ConfirmDoes, rootVars, SameExcuses, TargetStory,
     Clean, Confirmed, ApplyStory, Applying, Runs, HandleStory, pendingCandidate, WatchedStory,
     Unproved
<1>18. CASE PruneDoes
  BY <1>1, <1>2, <1>3, <1>18, Records, Versions DEF PruneDoes, rootVars, TargetStory, Clean,
     Confirmed, ApplyStory, Applying, Runs
<1>19. CASE WatchdogStagedDoes
  BY <1>1, <1>2, <1>3, <1>19, Records, Versions DEF WatchdogStagedDoes, rootVars, SameProcess,
     TargetStory, Clean, Confirmed, ApplyStory, Applying, Runs, HandleStory, pendingCandidate,
     RunningStory
<1>20. CASE WatchdogLegacyDoes
  BY <1>1, <1>2, <1>3, <1>20, HistEffect, Records, Versions DEF WatchdogLegacyDoes, rootVars, Settles,
     UndoDoes, SameExcuses, TargetStory, Clean, Confirmed, ApplyStory, Applying, Runs, HistDoes,
     ModeStory, LegacyStory
<1>21. CASE \E ins \in Instruction : HandleDoes(ins)
  BY <1>1, <1>2, <1>3, <1>21, Records, Versions DEF HandleDoes, rootVars, SameProcess, SameExcuses,
     TargetStory, Clean, Confirmed, ApplyStory, Applying, Runs, skip, pendingCandidate
<1>22. CASE StageFailsDoes
  BY <1>1, <1>2, <1>3, <1>22, Records, Versions DEF StageFailsDoes, rootVars, SameProcess,
     SavesStatus, TargetStory, Clean, Confirmed, ApplyStory, Applying, Runs, HandleStory,
     pendingCandidate
<1>23. CASE StagePlacesDoes
  BY <1>1, <1>2, <1>3, <1>23, Records, Versions DEF StagePlacesDoes, rootVars, SameProcess,
     TargetStory, Clean, Confirmed, ApplyStory, Applying, Runs
<1>24. CASE StageRecordsDoes
  <2>1. proc.ver \in Nat /\ proc.ins.target \in Nat
    BY <1>2, <1>3, <1>24, Versions DEF StageRecordsDoes, Sound, Runs
  <2>2. proc.ins.target # proc.ver /\ proc.ins = st.ins
    BY <1>2, <1>24, <2>1 DEF StageRecordsDoes, HandleStory, Verified, TaskStory
  <2>3. SUFFICES ASSUME Clean
                 PROVE  TargetStory'
    BY <1>24 DEF StageRecordsDoes, rootVars, TargetStory, Clean
  <2>4. proc.ver = current /\ (proc.mode # "staged" => layout = "legacy" /\ st.staged = None)
    BY <1>2, <1>24, <2>3 DEF StageRecordsDoes, Clean, RunningStory, LegacyStory, ModeStory, Runs
  <2>5. QED  BY <1>2, <1>24, <2>2, <2>3, <2>4
             DEF StageRecordsDoes, SameProcess, rootVars, TargetStory, Runs
<1>25. CASE StageSwitchesDoes
  BY <1>1, <1>2, <1>3, <1>25, HistEffect, Records, Versions DEF StageSwitchesDoes, rootVars,
     SameProcess, SavesStatus, SameExcuses, TargetStory, Clean, Confirmed, ApplyStory, Applying,
     Runs, HistDoes
<1>26. CASE StageDoneDoes
  BY <1>1, <1>2, <1>3, <1>26, Records, Versions DEF StageDoneDoes, rootVars, SameProcess, SavesStatus,
     TargetStory, Clean, Confirmed, ApplyStory, Applying, Runs, HandleStory
<1>27. CASE GoneDoes
  BY <1>1, <1>2, <1>3, <1>27, Records, Versions DEF GoneDoes, TargetStory, Clean, Confirmed,
     ApplyStory, Applying, Runs
<1>28. CASE \E v \in Version : PackageDoes(v)
  BY <1>1, <1>2, <1>3, <1>28, Records, Versions DEF PackageDoes, TargetStory, Clean, Confirmed,
     ApplyStory, Applying, Runs
<1>29. CASE WorldDoes
  BY <1>1, <1>2, <1>3, <1>29, HistEffect, Records, Versions DEF WorldDoes, TargetStory, Clean,
     Confirmed, ApplyStory, Applying, Runs, HistDoes, SameExcuses
<1>30. QED  BY <1>1, <1>4, <1>5, <1>6, <1>7, <1>8, <1>9, <1>10, <1>11, <1>12, <1>13,
                   <1>14, <1>15, <1>16, <1>17, <1>18, <1>19, <1>20, <1>21, <1>22, <1>23, <1>24, <1>25, <1>26,
                   <1>27, <1>28, <1>29 DEF StepDoes

LEMMA OutcomeStoryStep == IInv /\ ProofInv /\ CountInv /\ ReportInv /\ StepDoes => OutcomeStory'
<1>1. SUFFICES ASSUME IInv, ProofInv, CountInv, ReportInv, StepDoes
               PROVE  OutcomeStory'
  OBVIOUS
<1>2. /\ RefusedStory /\ FreshStory /\ TaskStory /\ TargetStory /\ OutcomeStory
      /\ ApplyStory /\ ModeStory /\ HandleStory /\ LegacyStory
      /\ QueueStory /\ RunningStory /\ WatchedStory /\ SettledStory /\ OwnCountStory
  BY <1>1 DEF IInv, ProofInv, CountInv, ReportInv
<1>3. /\ TypeOK /\ Sound /\ current \in Version
      /\ hist.healthy \in BOOLEAN /\ hist.stuck \in BOOLEAN /\ hist.torn \in BOOLEAN /\ st.confirmed \in BOOLEAN
      /\ st.confAt \in Nat /\ ap.cand.at \in Nat /\ unit \in BOOLEAN
  BY <1>1 DEF IInv, TypeOK, Hist, State, Status, Candidate
<1>4. CASE BootDoes
  BY <1>1, <1>2, <1>3, <1>4, Records, Versions DEF BootDoes, agentVars, OutcomeStory, Clean, InFlight,
     Telling, ApplyStory, Applying, Runs
<1>5. CASE LetGoDoes
  BY <1>1, <1>2, <1>3, <1>5, Records, Versions DEF LetGoDoes, agentVars, OutcomeStory, Clean,
     InFlight, Telling, ApplyStory, Applying, Runs, WatchedStory, Unproved, pendingCandidate
<1>6. CASE CountStartDoes
  BY <1>1, <1>2, <1>3, <1>6, Records, Versions DEF CountStartDoes, agentVars, OutcomeStory, Clean,
     InFlight, Telling, ApplyStory, Applying, Runs, WatchedStory, Unproved, pendingCandidate,
     TargetStory
<1>7. CASE RollBackDoes
  BY <1>1, <1>2, <1>3, <1>7, HistEffect, Records, Versions DEF RollBackDoes, agentVars, OutcomeStory,
     Clean, InFlight, Telling, ApplyStory, Applying, Runs, HistDoes, SameExcuses, WatchedStory,
     Unproved, pendingCandidate, TargetStory
<1>8. CASE LeaveDoes
  BY <1>1, <1>2, <1>3, <1>8, Records, Versions DEF LeaveDoes, agentVars, OutcomeStory, Clean,
     InFlight, Telling, ApplyStory, Applying, Runs, Staged, QueueStory
<1>9. CASE InstallDoes
  BY <1>1, <1>2, <1>3, <1>9, Records, Versions DEF InstallDoes, agentVars, OutcomeStory, Clean,
     InFlight, Telling, ApplyStory, Applying, Runs, Staged, QueueStory
<1>10. CASE RecordDoes
  BY <1>1, <1>2, <1>3, <1>10, Records, Versions DEF RecordDoes, agentVars, OutcomeStory, Clean,
     InFlight, Telling, ApplyStory, Applying, Runs
<1>11. CASE SwitchDoes
  BY <1>1, <1>2, <1>3, <1>11, HistEffect, Records, Versions DEF SwitchDoes, agentVars, OutcomeStory,
     Clean, InFlight, Telling, ApplyStory, Applying, Runs, HistDoes, SameExcuses, TargetStory, Sound
<1>12. CASE SaveDoes
  BY <1>1, <1>2, <1>3, <1>12, Records, Versions DEF SaveDoes, agentVars, OutcomeStory, Clean,
     InFlight, Telling, ApplyStory, Applying, Runs, Carries, QueueStory
<1>13. CASE StartStagedDoes
  <2>1. /\ layout' = layout /\ current' = current /\ hist'.torn = hist.torn /\ hist'.stuck = hist.stuck
        /\ hist'.packaged = hist.packaged /\ status' = status /\ ap' = ap
        /\ proc'.h = "idle" /\ proc'.ver = Binary /\ pc = "start" /\ pc' \in {"run", "down"}
        /\ st'.ins = st.ins /\ st'.confVer = st.confVer /\ st'.confAt = st.confAt
        /\ layout # "legacy"
    BY <1>3, <1>13 DEF StartStagedDoes, RanFields, SameExcuses, Settles, rootVars, Mode
  <2>2. hist.torn = FALSE => Binary = current /\ StartedFrom(st, st', current)
    BY <1>2, <1>13, <2>1 DEF StartStagedDoes, RunningStory, Binary
  <2>3. SUFFICES ASSUME Clean
                 PROVE  OutcomeStory'
    BY <2>1 DEF OutcomeStory, Clean
  <2>4. st.staged = current => status.result = "switched" /\ status.to = current
    BY <1>2, <1>3, <2>1, <2>3, Versions DEF TargetStory, WatchedStory, Unproved, Clean
  <2>5. status.result = "rolled_back" => InFlight
    BY <1>2, <2>1, <2>3 DEF FreshStory, Clean
  <2>6. status.result # "rollback_failed"
    BY <1>2, <2>3 DEF TaskStory
  <2>7. \/ /\ st'.status = "rolled_back" /\ st'.candidate = None /\ st'.staged = None
           /\ InFlight
        \/ /\ st'.status = "failed" /\ st'.candidate = None /\ st'.staged = None
           /\ st.staged \notin {None, current}
        \/ /\ st'.status = "confirming" /\ st'.candidate = st.candidate /\ st'.staged = None
           /\ st'.confirmed = st.confirmed /\ pendingCandidate(st, current)
        \/ /\ st'.status = "failed" /\ st'.candidate = None /\ st'.staged = st.staged /\ st.staged = None
           /\ st.candidate \notin {None, current} /\ st.confirmed = FALSE
        \/ /\ st' = st /\ st.staged = None /\ ~pendingCandidate(st, current) /\ ~Replaced(st, current)
           /\ ~(InFlight /\ Telling(status))
    BY <1>2, <1>3, <2>1, <2>2, <2>3, <2>4, <2>5, <2>6, Versions
    DEF StartedFrom, TargetStory, Clean, pendingCandidate, Replaced, InFlight, Telling
  <2>8. QED  BY <1>2, <1>3, <2>1, <2>2, <2>3, <2>7, Versions
             DEF OutcomeStory, TargetStory, Clean, Replaced, pendingCandidate, InFlight, Telling
<1>14. CASE StartLegacyDoes
  <2>1. /\ layout' = layout /\ current' = current /\ hist'.torn = hist.torn /\ hist'.stuck = hist.stuck
        /\ hist'.packaged = hist.packaged /\ hist'.refused = hist.refused
        /\ status' = status /\ ap' = ap /\ proc'.h = "idle" /\ proc'.ver = Binary /\ pc = "start" /\ pc' = "run"
        /\ st'.ins = st.ins
    BY <1>14 DEF StartLegacyDoes, RanFields, SameExcuses, Settles, rootVars
  <2>2. hist.torn = FALSE => /\ layout = "legacy" /\ Unstaged = st /\ Binary = current /\ st.staged = None
                             /\ st'.staged = None
    BY <1>2, <1>3, <1>14 DEF StartLegacyDoes, Mode, Binary, ModeStory, LegacyStory, Unstaged, TypeOK
  <2>3. hist.torn = FALSE =>
          \/ /\ st.candidate = current /\ st.confirmed = FALSE
             /\ st'.status = "confirming" /\ st'.candidate = current /\ st'.confirmed = FALSE
          \/ /\ st.candidate \notin {None, current} /\ st.confirmed = FALSE
             /\ st'.status = "failed" /\ st'.candidate = None
          \/ /\ ~pendingCandidate(st, current) /\ ~Replaced(st, current) /\ st' = st
    BY <1>3, <1>14, <2>2 DEF StartLegacyDoes, pendingCandidate, Replaced, TypeOK, State
  <2>4. QED  BY <1>2, <1>3, <2>1, <2>2, <2>3, Versions
             DEF OutcomeStory, TargetStory, Clean, Replaced, pendingCandidate, InFlight
<1>15. CASE RollBackAtStartDoes
  <2>1. hist.torn = FALSE => /\ layout = "legacy" /\ Unstaged = st /\ st.candidate = current
                             /\ st.confirmed = FALSE /\ st.staged = None
    BY <1>2, <1>3, <1>15 DEF RollBackAtStartDoes, Mode, Binary, ModeStory, LegacyStory, Unstaged,
          pendingCandidate
  <2>2. Counted.previous = st.previous /\ proc'.h = "idle" /\ layout' = layout
    BY <1>15 DEF RollBackAtStartDoes, Settles, rootVars
  <2>3. CASE pc' = "undo"
    BY <1>2, <1>3, <1>15, <2>1, <2>2, <2>3, HistEffect, Versions
    DEF RollBackAtStartDoes, UndoDoes, HistDoes, SameExcuses, OutcomeStory, TargetStory, Clean, InFlight,
        HandleStory
  <2>4. CASE pc' # "undo"
    BY <1>3, <1>15, <2>4, HistEffect DEF RollBackAtStartDoes, UndoDoes, HistDoes, OutcomeStory, Clean
  <2>5. QED  BY <2>3, <2>4
<1>16. CASE SaveRollbackDoes
  BY <1>1, <1>2, <1>3, <1>16, Records, Versions DEF SaveRollbackDoes, rootVars, Settles, OutcomeStory,
     Clean, InFlight, Telling, ApplyStory, Applying, Runs, FreshStory, TargetStory
<1>17. CASE ConfirmDoes
  BY <1>1, <1>2, <1>3, <1>17, Records, Versions DEF ConfirmDoes, rootVars, SameExcuses, OutcomeStory,
     Clean, InFlight, Telling, ApplyStory, Applying, Runs, TargetStory, TaskStory, RunningStory,
     pendingCandidate, Sound
<1>18. CASE PruneDoes
  BY <1>1, <1>2, <1>3, <1>18, Records, Versions DEF PruneDoes, rootVars, OutcomeStory, Clean,
     InFlight, Telling, ApplyStory, Applying, Runs
<1>19. CASE WatchdogStagedDoes
  BY <1>1, <1>2, <1>3, <1>19, Records, Versions DEF WatchdogStagedDoes, rootVars, SameProcess,
     OutcomeStory, Clean, InFlight, Telling, ApplyStory, Applying, Runs
<1>20. CASE WatchdogLegacyDoes
  BY <1>1, <1>2, <1>3, <1>20, HistEffect, Records, Versions DEF WatchdogLegacyDoes, rootVars, Settles,
     UndoDoes, SameExcuses, OutcomeStory, Clean, InFlight, Telling, ApplyStory, Applying, Runs,
     HistDoes, ModeStory, LegacyStory, HandleStory, TargetStory, pendingCandidate, Sound
<1>21. CASE \E ins \in Instruction : HandleDoes(ins)
  BY <1>1, <1>2, <1>3, <1>21, Records, Versions DEF HandleDoes, rootVars, SameProcess, SameExcuses,
     OutcomeStory, Clean, InFlight, Telling, ApplyStory, Applying, Runs
<1>22. CASE StageFailsDoes
  BY <1>1, <1>2, <1>3, <1>22, Records, Versions DEF StageFailsDoes, rootVars, SameProcess,
     SavesStatus, OutcomeStory, Clean, InFlight, Telling, ApplyStory, Applying, Runs, TaskStory,
     RunningStory, LegacyStory
<1>23. CASE StagePlacesDoes
  BY <1>1, <1>2, <1>3, <1>23, Records, Versions DEF StagePlacesDoes, rootVars, SameProcess,
     OutcomeStory, Clean, InFlight, Telling, ApplyStory, Applying, Runs
<1>24. CASE StageRecordsDoes
  BY <1>1, <1>2, <1>3, <1>24, Records, Versions DEF StageRecordsDoes, rootVars, SameProcess,
     OutcomeStory, Clean, InFlight, Telling, ApplyStory, Applying, Runs
<1>25. CASE StageSwitchesDoes
  <2>1. proc.ver \in Nat /\ proc.ins.target \in Nat /\ proc.ins.target # None
    BY <1>2, <1>3, <1>25, Versions DEF StageSwitchesDoes, Sound, Runs
  <2>2. proc.ins.target # proc.ver /\ proc.ins = st.ins /\ st.candidate = st.ins.target /\ st.confirmed = FALSE
    BY <1>2, <1>25, <2>1 DEF StageSwitchesDoes, HandleStory, Verified, TaskStory, OwnCountStory
  <2>3. Clean => layout = "legacy" /\ proc.ver = current /\ st.status \in {"restarting", "confirming", "staged"}
    BY <1>2, <1>3, <1>25, <2>1, <2>2, Versions
    DEF StageSwitchesDoes, Clean, ModeStory, HandleStory, LegacyStory, TargetStory, Runs
  <2>4. CASE current' = proc.ins.target /\ hist' = Switched(hist) /\ UNCHANGED st
    BY <1>2, <1>3, <2>2, <2>3, <2>4, HistEffect DEF HistDoes, SameExcuses, OutcomeStory, Clean
  <2>5. CASE UNCHANGED <<current, hist>> /\ st'.ins = st.ins /\ st'.status \in {"failed", "idle", st.status}
    BY <1>2, <1>25, <2>2, <2>3, <2>5 DEF StageSwitchesDoes, OutcomeStory, Clean, InFlight, Runs
  <2>6. QED  BY <1>25, <2>4, <2>5 DEF StageSwitchesDoes, SavesStatus
<1>26. CASE StageDoneDoes
  BY <1>1, <1>2, <1>3, <1>26, Records, Versions DEF StageDoneDoes, rootVars, SameProcess, SavesStatus,
     OutcomeStory, Clean, InFlight, Telling, ApplyStory, Applying, Runs
<1>27. CASE GoneDoes
  BY <1>1, <1>2, <1>3, <1>27, Records, Versions DEF GoneDoes, OutcomeStory, Clean, InFlight, Telling,
     ApplyStory, Applying, Runs, CutOff, Lasting
<1>28. CASE \E v \in Version : PackageDoes(v)
  BY <1>1, <1>2, <1>3, <1>28, Records, Versions DEF PackageDoes, OutcomeStory, Clean, InFlight,
     Telling, ApplyStory, Applying, Runs
<1>29. CASE WorldDoes
  BY <1>1, <1>2, <1>3, <1>29, HistEffect, Records, Versions DEF WorldDoes, OutcomeStory, Clean,
     InFlight, Telling, ApplyStory, Applying, Runs, HistDoes, SameExcuses
<1>30. QED  BY <1>1, <1>4, <1>5, <1>6, <1>7, <1>8, <1>9, <1>10, <1>11, <1>12, <1>13,
                   <1>14, <1>15, <1>16, <1>17, <1>18, <1>19, <1>20, <1>21, <1>22, <1>23, <1>24, <1>25, <1>26,
                   <1>27, <1>28, <1>29 DEF StepDoes

LEMMA InitReportInv == Init => ReportInv
<1>1. SUFFICES ASSUME Init
               PROVE  ReportInv
  OBVIOUS
<1>2. /\ st.candidate = None /\ st.staged = None /\ st.status = "idle" /\ hist.refused = {}
      /\ pc = "down" /\ proc.h = "idle" /\ status.result = "none" /\ ap.result = "none"
  BY <1>1 DEF Init, NoStatus, NoProcess
<1>3. QED
  BY <1>2
  DEF ReportInv, RefusedStory, FreshStory, TaskStory, TargetStory, OutcomeStory, Runs

LEMMA StepReportInv == IInv /\ ProofInv /\ CountInv /\ ReportInv /\ [Next]_vars => ReportInv'
<1>1. SUFFICES ASSUME IInv, ProofInv, CountInv, ReportInv, [Next]_vars
               PROVE  ReportInv'
  OBVIOUS
<1>2. StepDoes
  BY <1>1, StepIInv
<1>3. QED  BY <1>1, <1>2, RefusedStoryStep, FreshStoryStep, TaskStoryStep, TargetStoryStep,
              OutcomeStoryStep DEF ReportInv

(* Every reachable state also satisfies ReportInv. *)
THEOREM ReportInvariance == Spec => []ReportInv
<1>1. IInv /\ ProofInv /\ CountInv /\ ReportInv /\ UNCHANGED vars => ReportInv'
  BY StepReportInv
<1>2. QED  BY InitReportInv, StepReportInv, Invariance, ProofInvariance, CountInvariance, <1>1, PTL
           DEF Spec

(***************************************************************************)
(* Handle does not take up an instruction that was rolled back until       *)
(* another one has been handled, unless a start was cut off: otherwise the *)
(* rollback is in the state file before the agent syncs again.             *)
(***************************************************************************)
THEOREM NotTriedAgain == Spec => RefusedUntilNext
<1>1. ReportInv /\ IInv /\ ProofInv =>
        \A ins \in Instruction : Handle(ins) => ins \notin hist.refused \/ hist.torn
  <2>1. SUFFICES ASSUME ReportInv, IInv, ProofInv, hist.torn = FALSE,
                        NEW ins \in Instruction, Handle(ins), ins \in hist.refused
                 PROVE  FALSE
    BY DEF IInv, TypeOK, Hist
  <2>2. ins = st.ins /\ pc = "run" /\ (Refused \/ InFlight)
    BY <2>1 DEF ReportInv, RefusedStory, Handle
  <2>3. Refused
    BY <2>2 DEF InFlight
  <2>4. Memory.status = "rolled_back"
    BY <2>1, <2>2, <2>3, NothingUnsaved DEF Refused
  <2>5. QED  BY <2>1, <2>2, <2>4 DEF Handle, skip
<1>2. QED  BY Invariance, ProofInvariance, ReportInvariance, <1>1, PTL DEF RefusedUntilNext

(***************************************************************************)
(* What the agent reports of its instruction is true of the version that   *)
(* runs, as long as no package was installed, no start was cut off and no  *)
(* rollback failed; a confirmation that was not saved is reported too.     *)
(***************************************************************************)
THEOREM TrueReports == Spec => []ReportTrue
<1>1. IInv /\ ProofInv /\ ReportInv => ReportTrue
  <2>1. SUFFICES ASSUME IInv, ProofInv, ReportInv, Clean, pc = "run", proc.h = "idle"
                 PROVE  /\ Memory.status \in {"confirming", "succeeded"} => proc.ver = st.ins.target
                        /\ \/ Memory.status = "rolled_back"
                           \/ Memory.status = "failed" /\ st.ins.action = "upgrade"
                           => proc.ver # st.ins.target
    BY DEF ReportTrue, Clean, IInv, TypeOK, Hist
  <2>2. proc.ver = current
    BY <2>1 DEF IInv, ProofInv, RunningStory, LegacyStory, HandleStory, Clean, Runs
  <2>3. CASE proc.unsaved = 0
    BY <2>1, <2>2, <2>3 DEF ReportInv, OutcomeStory, InFlight, Memory
  <2>4. CASE proc.unsaved # 0
    <3>1. Memory.status = "succeeded"
      BY <2>1, <2>4 DEF Memory, Stamp, Set, IInv, TypeOK, State
    <3>2. pendingCandidate(st, proc.ver) /\ proc.ver # None
      BY <2>1, <2>4, Versions DEF ProofInv, UnsavedStory, IInv, Sound
    <3>3. proc.ver = st.ins.target
      BY <2>1, <3>2 DEF ReportInv, TargetStory, pendingCandidate, IInv, TypeOK, State
    <3>4. QED  BY <3>1, <3>3
  <2>5. QED  BY <2>3, <2>4
<1>2. QED  BY Invariance, ProofInvariance, ReportInvariance, <1>1, PTL

-----------------------------------------------------------------------------
(* The link names an installed version. *)

LEMMA PruneStoryStep == IInv /\ ReportInv /\ PruneStory /\ StepDoes => PruneStory'
<1>1. SUFFICES ASSUME IInv, TypeOK, ReportInv, PruneStory, StepDoes
               PROVE  PruneStory'
  BY DEF IInv
<1>2. CASE BootDoes
  BY <1>1, <1>2, Records DEF BootDoes, agentVars, PruneStory
<1>3. CASE LetGoDoes
  BY <1>1, <1>3, Records DEF LetGoDoes, agentVars, PruneStory
<1>4. CASE CountStartDoes
  BY <1>1, <1>4, Records DEF CountStartDoes, agentVars, PruneStory
<1>5. CASE RollBackDoes
  BY <1>1, <1>5, HistEffect, Records DEF RollBackDoes, agentVars, PruneStory, HistDoes,
     SameExcuses
<1>6. CASE LeaveDoes
  BY <1>1, <1>6, Records DEF LeaveDoes, agentVars, PruneStory
<1>7. CASE InstallDoes
  BY <1>1, <1>7, Records DEF InstallDoes, agentVars, PruneStory
<1>8. CASE RecordDoes
  BY <1>1, <1>8, Records DEF RecordDoes, agentVars, PruneStory
<1>9. CASE SwitchDoes
  BY <1>1, <1>9, HistEffect, Records DEF SwitchDoes, agentVars, PruneStory, HistDoes,
     SameExcuses
<1>10. CASE SaveDoes
  BY <1>1, <1>10, Records DEF SaveDoes, agentVars, PruneStory
<1>11. CASE StartStagedDoes
  BY <1>1, <1>11, Records DEF StartStagedDoes, rootVars, Settles, StartedFrom, RanFields, SameExcuses,
     PruneStory
<1>12. CASE StartLegacyDoes
  BY <1>1, <1>12, Records DEF StartLegacyDoes, Mode, rootVars, Settles, RanFields, SameExcuses,
     PruneStory
<1>13. CASE RollBackAtStartDoes
  BY <1>1, <1>13, HistEffect, Records DEF RollBackAtStartDoes, Mode, rootVars, Settles, UndoDoes,
     SameExcuses, PruneStory, HistDoes
<1>14. CASE SaveRollbackDoes
  BY <1>1, <1>14, Records DEF SaveRollbackDoes, rootVars, Settles, PruneStory
<1>15. CASE ConfirmDoes
  BY <1>1, <1>15, Versions DEF ConfirmDoes, rootVars, SameExcuses, PruneStory, Keep, ModeStory, ReportInv,
     TaskStory, IInv, TypeOK, Runs, Unlocked, Hist
<1>16. CASE PruneDoes
  BY <1>1, <1>16, Records DEF PruneDoes, rootVars, PruneStory
<1>17. CASE WatchdogStagedDoes
  BY <1>1, <1>17, Records DEF WatchdogStagedDoes, rootVars, SameProcess, PruneStory
<1>18. CASE WatchdogLegacyDoes
  BY <1>1, <1>18, HistEffect, Records DEF WatchdogLegacyDoes, rootVars, Settles, UndoDoes,
     SameExcuses, PruneStory, HistDoes
<1>19. CASE \E ins \in Instruction : HandleDoes(ins)
  BY <1>1, <1>19, Records DEF HandleDoes, rootVars, SameProcess, SameExcuses, PruneStory
<1>20. CASE StageFailsDoes
  BY <1>1, <1>20, Records DEF StageFailsDoes, rootVars, SameProcess, SavesStatus, PruneStory
<1>21. CASE StagePlacesDoes
  BY <1>1, <1>21, Records DEF StagePlacesDoes, rootVars, SameProcess, PruneStory
<1>22. CASE StageRecordsDoes
  BY <1>1, <1>22, Records DEF StageRecordsDoes, rootVars, SameProcess, PruneStory
<1>23. CASE StageSwitchesDoes
  BY <1>1, <1>23, HistEffect, Records DEF StageSwitchesDoes, rootVars, SameProcess, SavesStatus,
     SameExcuses, PruneStory, HistDoes
<1>24. CASE StageDoneDoes
  BY <1>1, <1>24, Records DEF StageDoneDoes, rootVars, SameProcess, SavesStatus, PruneStory
<1>25. CASE GoneDoes
  BY <1>1, <1>25, Records DEF GoneDoes, PruneStory
<1>26. CASE \E v \in Version : PackageDoes(v)
  BY <1>1, <1>26, Records DEF PackageDoes, PruneStory
<1>27. CASE WorldDoes
  BY <1>1, <1>27, HistEffect, Records DEF WorldDoes, PruneStory, HistDoes, SameExcuses
<1>28. QED  BY <1>1, <1>2, <1>3, <1>4, <1>5, <1>6, <1>7, <1>8, <1>9, <1>10, <1>11, <1>12, <1>13,
                   <1>14, <1>15, <1>16, <1>17, <1>18, <1>19, <1>20, <1>21, <1>22, <1>23, <1>24, <1>25, <1>26,
                   <1>27 DEF StepDoes

LEMMA CurrentInstalledStep == IInv /\ PruneStory /\ CurrentInstalled /\ StepDoes => CurrentInstalled'
<1>1. SUFFICES ASSUME TypeOK, PruneStory, CurrentInstalled, StepDoes
               PROVE  CurrentInstalled'
  BY DEF IInv
<1>2. CASE BootDoes
  BY <1>1, <1>2, Records DEF BootDoes, agentVars, CurrentInstalled
<1>3. CASE LetGoDoes
  BY <1>1, <1>3, Versions DEF LetGoDoes, agentVars, CurrentInstalled, Keep, TypeOK
<1>4. CASE CountStartDoes
  BY <1>1, <1>4, Records DEF CountStartDoes, agentVars, CurrentInstalled
<1>5. CASE RollBackDoes
  BY <1>1, <1>5, HistEffect, Records DEF RollBackDoes, agentVars, CurrentInstalled, HistDoes,
     SameExcuses
<1>6. CASE LeaveDoes
  BY <1>1, <1>6, Records DEF LeaveDoes, agentVars, CurrentInstalled
<1>7. CASE InstallDoes
  BY <1>1, <1>7, Records DEF InstallDoes, agentVars, CurrentInstalled
<1>8. CASE RecordDoes
  BY <1>1, <1>8, Records DEF RecordDoes, agentVars, CurrentInstalled
<1>9. CASE SwitchDoes
  BY <1>1, <1>9, HistEffect, Records DEF SwitchDoes, agentVars, CurrentInstalled, HistDoes,
     SameExcuses
<1>10. CASE SaveDoes
  BY <1>1, <1>10, Records DEF SaveDoes, agentVars, CurrentInstalled
<1>11. CASE StartStagedDoes
  BY <1>1, <1>11, Records DEF StartStagedDoes, rootVars, Settles, StartedFrom, RanFields, SameExcuses,
     CurrentInstalled
<1>12. CASE StartLegacyDoes
  BY <1>1, <1>12, Records DEF StartLegacyDoes, rootVars, Settles, RanFields, SameExcuses,
     CurrentInstalled
<1>13. CASE RollBackAtStartDoes
  BY <1>1, <1>13, HistEffect, Records DEF RollBackAtStartDoes, rootVars, Settles, UndoDoes,
     SameExcuses, CurrentInstalled, HistDoes
<1>14. CASE SaveRollbackDoes
  BY <1>1, <1>14, Records DEF SaveRollbackDoes, rootVars, Settles, CurrentInstalled
<1>15. CASE ConfirmDoes
  BY <1>1, <1>15, Records DEF ConfirmDoes, rootVars, SameExcuses, CurrentInstalled
<1>16. CASE PruneDoes
  BY <1>1, <1>16, UpdateAssumption DEF PruneDoes, rootVars, CurrentInstalled, PruneStory, TypeOK, Hist
<1>17. CASE WatchdogStagedDoes
  BY <1>1, <1>17, Records DEF WatchdogStagedDoes, rootVars, SameProcess, CurrentInstalled
<1>18. CASE WatchdogLegacyDoes
  BY <1>1, <1>18, HistEffect, Records DEF WatchdogLegacyDoes, rootVars, Settles, UndoDoes,
     SameExcuses, CurrentInstalled, HistDoes
<1>19. CASE \E ins \in Instruction : HandleDoes(ins)
  BY <1>1, <1>19, Records DEF HandleDoes, rootVars, SameProcess, SameExcuses, CurrentInstalled
<1>20. CASE StageFailsDoes
  BY <1>1, <1>20, Records DEF StageFailsDoes, rootVars, SameProcess, SavesStatus, CurrentInstalled
<1>21. CASE StagePlacesDoes
  BY <1>1, <1>21, Records DEF StagePlacesDoes, rootVars, SameProcess, CurrentInstalled
<1>22. CASE StageRecordsDoes
  BY <1>1, <1>22, Records DEF StageRecordsDoes, rootVars, SameProcess, CurrentInstalled
<1>23. CASE StageSwitchesDoes
  BY <1>1, <1>23, HistEffect, Records DEF StageSwitchesDoes, rootVars, SameProcess, SavesStatus,
     SameExcuses, CurrentInstalled, HistDoes
<1>24. CASE StageDoneDoes
  BY <1>1, <1>24, Records DEF StageDoneDoes, rootVars, SameProcess, SavesStatus, CurrentInstalled
<1>25. CASE GoneDoes
  BY <1>1, <1>25, Records DEF GoneDoes, CurrentInstalled
<1>26. CASE \E v \in Version : PackageDoes(v)
  BY <1>1, <1>26, Records DEF PackageDoes, CurrentInstalled
<1>27. CASE WorldDoes
  BY <1>1, <1>27, HistEffect, Records DEF WorldDoes, CurrentInstalled, HistDoes, SameExcuses
<1>28. QED  BY <1>1, <1>2, <1>3, <1>4, <1>5, <1>6, <1>7, <1>8, <1>9, <1>10, <1>11, <1>12, <1>13,
                   <1>14, <1>15, <1>16, <1>17, <1>18, <1>19, <1>20, <1>21, <1>22, <1>23, <1>24, <1>25, <1>26,
                   <1>27 DEF StepDoes

LEMMA InitLinkInv == Init => LinkInv
<1>1. SUFFICES ASSUME Init
               PROVE  LinkInv
  OBVIOUS
<1>2. prune = {} /\ installed = {First} /\ current = First /\ proc.mode = "unset"
  BY <1>1, Records DEF Init
<1>3. QED  BY <1>2 DEF LinkInv, PruneStory, CurrentInstalled

LEMMA StepLinkInv == IInv /\ ReportInv /\ LinkInv /\ [Next]_vars => LinkInv'
<1>1. SUFFICES ASSUME IInv, ReportInv, LinkInv, [Next]_vars
               PROVE  LinkInv'
  OBVIOUS
<1>2. StepDoes
  BY <1>1, StepIInv
<1>3. QED  BY <1>1, <1>2, PruneStoryStep, CurrentInstalledStep DEF LinkInv

(***************************************************************************)
(* Pruning, by checkCandidate or by the goroutine of Confirm, never        *)
(* removes the version that the link names, unless the link was switched   *)
(* while that goroutine was still to run, or a native agent prunes after a *)
(* pre-start step that died.                                               *)
(***************************************************************************)
THEOREM LinkNeverDangles == Spec => []CurrentInstalled
<1>1. LinkInv => CurrentInstalled
  BY DEF LinkInv
<1>2. IInv /\ ReportInv /\ LinkInv /\ UNCHANGED vars => LinkInv'
  BY StepLinkInv
<1>3. QED  BY InitLinkInv, Invariance, ReportInvariance, StepLinkInv, <1>1, <1>2, PTL DEF Spec
=============================================================================
