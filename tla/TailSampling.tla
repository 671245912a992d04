----------------------------- MODULE TailSampling -----------------------------
(***************************************************************************)
(* openlog-sampler (internal/tailsampling): buffers the spans of a trace   *)
(* over records and partitions, decides whole traces, produces the kept    *)
(* ones to the sampled topic and commits a partition up to the oldest      *)
(* record that a buffered trace or an unproduced output still refers to.   *)
(*                                                                         *)
(* A record is the sequence of the traces its spans belong to; a span is   *)
(* <<partition, offset, index in the record>>.  A rejected record is the   *)
(* empty sequence.  Every span weighs one byte.  The policy's verdict on a *)
(* trace is a choice; time is abstracted: any prefix of the buffered       *)
(* traces may be due at a tick, any prefix of the cache may have expired.  *)
(*                                                                         *)
(* The control point of a member is                                        *)
(*   "poll"   in PollRecords, rebalances allowed                           *)
(*   "add"    adding the fetched records                                   *)
(*   "mid"    in the flush in the middle of a poll                         *)
(*   "flush"  in the flush at the end of an iteration                      *)
(*   "final"  in the flush of shutdown                                     *)
(*   "exit"   Run has returned                                             *)
(*   "down"   no process                                                   *)
(***************************************************************************)
EXTENDS ConsumerGroup
LOCAL INSTANCE FiniteSetsExt

CONSTANTS
    Trace,              \* trace keys (tenant and trace id)
    MaxTraces,          \* Options: buffered traces
    MaxSpansPerTrace,   \* Options: spans of one buffered trace
    MaxBufferedBytes,   \* Options: bytes of the buffered spans
    DecisionCacheSize,  \* Options: remembered decisions
    FlushOutputs,       \* flushOutputs: outputs that force a flush within a poll
    MaxRevokes,         \* bound: planned hand-overs of a partition
    MaxRecords,         \* bound: records written to all partitions
    Faults,             \* the faults that may happen
    MaxFaults           \* bound: how many of them

Fault == {"crash", "cancel", "expel", "produce", "commit", "expire"}

ASSUME SamplingAssumption ==
    /\ Record \subseteq Seq(Trace)
    /\ MaxTraces \in Nat \ {0} /\ MaxSpansPerTrace \in Nat \ {0}
    /\ MaxBufferedBytes \in Nat /\ DecisionCacheSize \in Nat /\ FlushOutputs \in Nat \ {0}
    /\ MaxRevokes \in Nat /\ MaxRecords \in Nat /\ MaxFaults \in Nat
    /\ Faults \subseteq Fault

VARIABLES
    pc,         \* [Member -> control point]
    cancelled,  \* members whose Run context is cancelled
    eng,        \* [Member -> Engine]
    produced,   \* spans in the sampled topic
    dups,       \* spans that are there more than once
    dropped,    \* history: spans a decision dropped
    discarded,  \* history: spans of outputs that onGone gave up
    forgotten,  \* history: traces of which a decision or a buffer was lost, or two members read spans
    excused,    \* history: a crash, a lost partition, a failed commit or produce happened
    revokes,    \* planned hand-overs so far
    faults      \* faults so far

topicVars == <<produced, dups, discarded>>
localVars == <<pc, cancelled, eng, topicVars, dropped, forgotten, excused>>
vars == <<groupVars, localVars, revokes, faults>>

-----------------------------------------------------------------------------
(***************************************************************************)
(* The engine.  An entry is an uncommitted record with the number of       *)
(* buffered traces and unproduced outputs that refer to it, named by its   *)
(* partition and offset; gone collects what a step drops or forgets.       *)
(***************************************************************************)
Span == Partition \X Nat \X Nat

Entry == [offset : Nat, refs : Int]

Part == [entries : Seq(Entry), lastSeen : Int, committed : Int]

Engine == [traces : Seq([id : Trace, spans : SUBSET Span, refs : SUBSET (Partition \X Nat)]),
           cache : Seq([id : Trace, keep : BOOLEAN]),
           out : Seq([late : (Trace \X Partition \X Nat) \cup {<<>>},
                      spans : SUBSET Span, refs : SUBSET (Partition \X Nat)]),
           parts : [Partition -> Part],
           dropped : SUBSET Span, forgot : SUBSET Trace]

NewPart == [entries |-> <<>>, lastSeen |-> -1, committed |-> -1]

NewEngine == [traces |-> <<>>, cache |-> <<>>, out |-> <<>>,
              parts |-> [p \in Partition |-> NewPart], dropped |-> {}, forgot |-> {}]

Ids(s) == {s[i].id : i \in DOMAIN s}

Index(s, id) == CHOOSE i \in DOMAIN s : s[i].id = id

ById(s, id) == s[Index(s, id)]

Without(s, id) == SubSeq(s, 1, Index(s, id) - 1) \o SubSeq(s, Index(s, id) + 1, Len(s))

Bytes(ts) == Cardinality(UNION {ts[i].spans : i \in DOMAIN ts})

(* How many of the traces or outputs s refer to the record r. *)
Count(s, r) == Cardinality({i \in DOMAIN s : r \in s[i].refs})

(* The records of p that have an entry. *)
Entries(ps, p) == {<<p, ps[p].entries[i].offset>> : i \in DOMAIN ps[p].entries}

(* refs++ or refs-- of the entries R. *)
Refer(ps, R, d) ==
    [p \in Partition |-> [ps[p] EXCEPT !.entries = [i \in DOMAIN ps[p].entries |->
        LET x == ps[p].entries[i]
        IN  [offset |-> x.offset, refs |-> IF <<p, x.offset>> \in R THEN x.refs + d ELSE x.refs]]]]

(* The first n decisions of the cache are evicted or have expired. *)
popCache(e, n) ==
    [e EXCEPT !.cache = SubSeq(@, n + 1, Len(@)), !.forgot = @ \cup Ids(SubSeq(e.cache, 1, n))]

remember(e, id, keep) ==
    LET grown == [e EXCEPT !.cache = Append(@, [id |-> id, keep |-> keep])]
    IN  popCache(grown, IF Len(grown.cache) > DecisionCacheSize
                        THEN Len(grown.cache) - DecisionCacheSize ELSE 0)

(* Mutant: the references of a dropped trace are not given back. *)
decideLeak(e, id, keep) ==
    LET t    == ById(e.traces, id)
        left == remember([e EXCEPT !.traces = Without(@, id)], id, keep[id])
    IN  IF keep[id]
        THEN [left EXCEPT !.out = Append(@, [late |-> <<>>, spans |-> t.spans, refs |-> t.refs])]
        ELSE [left EXCEPT !.dropped = @ \cup t.spans]

(* decide: a kept trace becomes an output with its references, a dropped one gives them back. *)
decide(e, id, keep) ==
    LET t    == ById(e.traces, id)
        left == remember([e EXCEPT !.traces = Without(@, id)], id, keep[id])
    IN  IF keep[id]
        THEN [left EXCEPT !.out = Append(@, [late |-> <<>>, spans |-> t.spans, refs |-> t.refs])]
        ELSE [left EXCEPT !.parts = Refer(@, t.refs, -1), !.dropped = @ \cup t.spans]

(* The traces with an id in D are decided in the order of the buffer. *)
decideEach(e, D, keep) ==
    LET left[k \in 0..Len(e.traces)] ==
          IF k = 0 THEN e
          ELSE IF e.traces[k].id \in D THEN decide(left[k - 1], e.traces[k].id, keep) ELSE left[k - 1]
    IN  left[Len(e.traces)]

decideFirst(e, n, keep) == decideEach(e, {e.traces[k].id : k \in 1..n}, keep)

(* The buffer is a sequence of traces in the order of their first span. *)
appendSpan(e, id, p, o, i) ==
    LET t == ById(e.traces, id) IN
    [e EXCEPT !.traces = [k \in DOMAIN e.traces |-> IF e.traces[k].id = id
                              THEN [e.traces[k] EXCEPT !.spans = @ \cup {<<p, o, i>>}, !.refs = @ \cup {<<p, o>>}]
                              ELSE e.traces[k]],
              !.parts = IF <<p, o>> \in t.refs THEN @ ELSE Refer(@, {<<p, o>>}, 1)]

full(e, id, keep) ==
    IF Cardinality(ById(e.traces, id).spans) >= MaxSpansPerTrace THEN decide(e, id, keep) ELSE e

newTrace(e, id, keep) ==
    LET room == IF Len(e.traces) >= MaxTraces THEN decideFirst(e, 1, keep) ELSE e
    IN  [room EXCEPT !.traces = Append(@, [id |-> id, spans |-> {}, refs |-> {}])]

(* Mutant: a span of a decided trace is buffered again, and decided again. *)
addSpanAgain(e, id, p, o, i, keep) ==
    IF id \in Ids(e.traces) THEN full(appendSpan(e, id, p, o, i), id, keep)
    ELSE LET undecided == IF id \in Ids(e.cache) THEN [e EXCEPT !.cache = Without(@, id)] ELSE e
         IN  full(appendSpan(newTrace(undecided, id, keep), id, p, o, i), id, keep)

(* The late spans that a record has of one kept trace are one output. *)
late(e, id, p, o, i) ==
    IF \E k \in DOMAIN e.out : e.out[k].late = <<id, p, o>>
    THEN [e EXCEPT !.out = [k \in DOMAIN e.out |-> IF e.out[k].late = <<id, p, o>>
                                THEN [e.out[k] EXCEPT !.spans = @ \cup {<<p, o, i>>}] ELSE e.out[k]]]
    ELSE [e EXCEPT !.out = Append(@, [late |-> <<id, p, o>>, spans |-> {<<p, o, i>>}, refs |-> {<<p, o>>}]),
                   !.parts = Refer(@, {<<p, o>>}, 1)]

(* A span joins its buffered trace, else follows the remembered decision, else starts a trace. *)
addSpan(e, id, p, o, i, keep) ==
    CASE id \in Ids(e.traces) -> full(appendSpan(e, id, p, o, i), id, keep)
      [] id \notin Ids(e.traces) /\ id \in Ids(e.cache) ->
           IF ById(e.cache, id).keep THEN late(e, id, p, o, i)
                                     ELSE [e EXCEPT !.dropped = @ \cup {<<p, o, i>>}]
      [] OTHER -> full(appendSpan(newTrace(e, id, keep), id, p, o, i), id, keep)

(* The spans of a record are added one after the other. *)
addSpans(e, p, o, keep) ==
    LET r == Rec(p, o)
        with[i \in 0..Len(r)] == IF i = 0 THEN e ELSE addSpan(with[i - 1], r[i], p, o, i, keep)
    IN  with[Len(r)]

(* How many traces must be decided for the others to fit. *)
Excess(e) ==
    Cardinality({k \in DOMAIN e.traces : Bytes(SubSeq(e.traces, k, Len(e.traces))) > MaxBufferedBytes})

seen(ps, o) ==
    [entries |-> Append(ps.entries, [offset |-> o, refs |-> 0]), lastSeen |-> o,
     committed |-> IF ps.lastSeen < 0 THEN o ELSE ps.committed]

(* Add: the record at offset o of p, unless it was seen in this assignment. *)
Add(e, p, o, keep) ==
    IF o <= e.parts[p].lastSeen THEN e
    ELSE LET all == addSpans([e EXCEPT !.parts[p] = seen(@, o)], p, o, keep)
         IN  decideFirst(all, Excess(all), keep)

(* DecidePartitions: every trace with a span of the partitions P. *)
DecidePartitions(e, P, keep) ==
    LET entries == UNION {Entries(e.parts, p) : p \in P}
        due     == {k \in DOMAIN e.traces : e.traces[k].refs \cap entries # {}}
    IN  decideEach(e, {e.traces[k].id : k \in due}, keep)

DropPartitions(e, P) ==
    [e EXCEPT !.parts = [p \in Partition |-> IF p \in P THEN NewPart ELSE @[p]]]

(* Release: the outputs taken are produced, and give their references back. *)
Release(e) ==
    [e EXCEPT !.out = <<>>,
              !.parts = [p \in Partition |-> [e.parts[p] EXCEPT !.entries =
                  [i \in DOMAIN e.parts[p].entries |->
                      LET x == e.parts[p].entries[i]
                      IN  [offset |-> x.offset, refs |-> x.refs - Count(e.out, <<p, x.offset>>)]]]]]

(* The records before the first one that is still referred to. *)
Settled(ps) ==
    LET held == {i \in DOMAIN ps.entries : ps.entries[i].refs > 0}
    IN  IF held = {} THEN Len(ps.entries) ELSE (CHOOSE i \in held : \A j \in held : i <= j) - 1

(* Mutant: the position of the reader. *)
nextOffsetSeen(ps) == ps.lastSeen + 1

nextOffset(ps) ==
    IF Settled(ps) < Len(ps.entries) THEN ps.entries[Settled(ps) + 1].offset ELSE ps.lastSeen + 1

Advanced(e, P) ==
    {p \in P : e.parts[p].lastSeen >= 0 /\ nextOffset(e.parts[p]) > e.parts[p].committed}

(* CommitOffsets: what is returned counts as committed before the commit is sent. *)
CommitOffsets(e, P) ==
    [e EXCEPT !.parts = [p \in Partition |->
        IF p \in P THEN [e.parts[p] EXCEPT !.entries = SubSeq(@, Settled(e.parts[p]) + 1, Len(@)),
                                           !.committed = IF p \in Advanced(e, P) THEN nextOffset(e.parts[p]) ELSE @]
                    ELSE e.parts[p]]]

-----------------------------------------------------------------------------
TypeOK ==
    /\ GroupTypeOK
    /\ pc \in [Member -> {"poll", "add", "mid", "flush", "final", "exit", "down"}]
    /\ cancelled \subseteq Member
    /\ eng \in [Member -> Engine]
    /\ \A m \in Member, p \in Partition : \A i \in DOMAIN eng[m].parts[p].entries :
         eng[m].parts[p].entries[i].refs \in Nat
    /\ produced \subseteq Span /\ dropped \subseteq Span /\ discarded \subseteq Span
    /\ dups \subseteq produced
    /\ forgotten \subseteq Trace
    /\ excused \in BOOLEAN
    /\ revokes \in 0..MaxRevokes
    /\ faults \in 0..MaxFaults

Init ==
    /\ GroupInit
    /\ pc = [m \in Member |-> "down"]
    /\ cancelled = {}
    /\ eng = [m \in Member |-> NewEngine]
    /\ produced = {} /\ dups = {} /\ dropped = {} /\ discarded = {} /\ forgotten = {}
    /\ excused = FALSE
    /\ revokes = 0
    /\ faults = 0

Fails(f) == f \in Faults /\ faults < MaxFaults /\ faults' = faults + 1

Verdicts == [Trace -> BOOLEAN]

Known(e) == Ids(e.traces) \cup Ids(e.cache)

(* m's engine becomes e; what e dropped and forgot goes to the histories. *)
SetEngine(m, e) ==
    /\ eng' = [eng EXCEPT ![m] = [e EXCEPT !.dropped = {}, !.forgot = {}]]
    /\ dropped' = dropped \cup e.dropped
    /\ forgotten' = forgotten \cup e.forgot
                       \cup (Known(e) \cap UNION {Known(eng[k]) : k \in Member \ {m}})

(* The process of e is over. *)
Ended(e) == [NewEngine EXCEPT !.dropped = e.dropped, !.forgot = e.forgot \cup Known(e)]

Spans(out) == UNION {out[i].spans : i \in DOMAIN out}

(* The spans S reach the sampled topic. *)
Write(S) == produced' = produced \cup S /\ dups' = dups \cup (produced \cap S)

-----------------------------------------------------------------------------
(* The environment: producers, the group coordinator, the process manager. *)

ProduceRecord(p) ==
    /\ MapThenSumSet(End, Partition) < MaxRecords
    /\ Produce(p)
    /\ UNCHANGED <<localVars, revokes, faults>>

AssignPartition(m, p) ==
    /\ pc[m] = "poll"
    /\ Assign(m, p)
    /\ UNCHANGED <<localVars, revokes, faults>>

ExpelMember(m) ==
    /\ pc[m] # "down"
    /\ Expel(m)
    /\ Fails("expel")
    /\ excused' = TRUE
    /\ UNCHANGED <<pc, cancelled, eng, topicVars, dropped, forgotten, revokes>>

Start(m) ==
    /\ pc[m] = "down"
    /\ pc' = [pc EXCEPT ![m] = "poll"]
    /\ UNCHANGED <<groupVars, cancelled, eng, topicVars, dropped, forgotten, excused, revokes, faults>>

(* SIGTERM cancels the context of Run. *)
Cancel(m) ==
    /\ pc[m] \in {"poll", "add", "mid", "flush"}
    /\ m \notin cancelled
    /\ cancelled' = cancelled \cup {m}
    /\ Fails("cancel")
    /\ UNCHANGED <<groupVars, pc, eng, topicVars, dropped, forgotten, excused, revokes>>

(* The process dies, perhaps with some of the pending outputs just written. *)
Crash(m) ==
    /\ pc[m] \notin {"down", "exit"}
    /\ pc' = [pc EXCEPT ![m] = "down"]
    /\ Leave(m)
    /\ \E W \in {{}, Spans(eng[m].out)} : Write(W)
    /\ SetEngine(m, Ended(eng[m]))
    /\ cancelled' = cancelled \ {m}
    /\ Fails("crash")
    /\ excused' = TRUE
    /\ UNCHANGED <<discarded, revokes>>

-----------------------------------------------------------------------------
(* The rebalance callbacks. *)

(***************************************************************************)
(* CommitOffsetsSync for the partitions A of e: the broker accepts those   *)
(* of m.  An error is only logged: a context that was cancelled meanwhile, *)
(* or a broker's.                                                          *)
(***************************************************************************)
Commit(m, e, A) ==
    LET asked == A \cap Owned(m) IN
    \E S \in {asked, {}} :
      /\ committed' = [p \in Partition |-> IF p \in S THEN nextOffset(e.parts[p]) ELSE committed[p]]
      /\ \/ S = asked /\ UNCHANGED <<excused, faults>>
         \/ /\ S # asked /\ excused' = TRUE
            /\ \/ m \in cancelled /\ pc[m] \in {"mid", "flush"} /\ UNCHANGED faults
               \/ Fails("commit")

(* onGone is done: P is forgotten, with the rest of the engine when the client is closed. *)
Gone(e, P, how) == IF how = "closed" THEN Ended(e) ELSE DropPartitions(e, P)

(***************************************************************************)
(* onGone: the traces with spans of P are decided and produced; a revoked  *)
(* partition is committed, a lost one is not.                              *)
(***************************************************************************)
GoneProduced(m, P, how) ==
    \E keep \in Verdicts :
        LET e == DecidePartitions(eng[m], P, keep)
            r == Release(e)
        IN  /\ Write(Spans(e.out))
            /\ IF how = "lost" THEN UNCHANGED <<committed, excused, faults>>
                               ELSE Commit(m, r, Advanced(r, P))
            /\ SetEngine(m, Gone(CommitOffsets(r, P), P, how))
            /\ UNCHANGED discarded

(* Producing fails until the timeout: the outputs taken are given up, the one that was written too. *)
GoneFailed(m, P, how) ==
    \E keep \in Verdicts :
        LET e == DecidePartitions(eng[m], P, keep) IN
        /\ e.out # <<>>
        /\ \E W \in {{}, e.out[1].spans} : Write(W)
        /\ discarded' = discarded \cup Spans(e.out)
        /\ Fails("produce") /\ excused' = TRUE
        /\ UNCHANGED committed
        /\ SetEngine(m, Gone([e EXCEPT !.out = <<>>], P, how))

(* Mutant: a revoked partition is not committed, as a lost one. *)
onGoneSilent(m, P, how) ==
    GoneProduced(m, P, IF how = "revoked" THEN "lost" ELSE how) \/ GoneFailed(m, P, how)

onGone(m, P, how) == GoneProduced(m, P, how) \/ GoneFailed(m, P, how)

RevokePartition(m, p) ==
    /\ pc[m] = "poll"
    /\ owner[p] = m
    /\ revokes < MaxRevokes
    /\ revokes' = revokes + 1
    /\ onGone(m, {p}, "revoked")
    /\ owner' = [owner EXCEPT ![p] = NoMember]
    /\ pos' = [pos EXCEPT ![m][p] = 0]
    /\ UNCHANGED <<log, lost, gone, pc, cancelled>>

NoticeLoss(m) ==
    /\ pc[m] = "poll"
    /\ lost[m] # {}
    /\ onGone(m, lost[m], "lost")
    /\ lost' = [lost EXCEPT ![m] = {}]
    /\ pos' = [pos EXCEPT ![m] = [p \in Partition |-> 0]]
    /\ UNCHANGED <<log, owner, gone, pc, cancelled, revokes>>

(* Run has returned: closing the client leaves the group, which calls back a last time. *)
Exit(m) ==
    /\ pc[m] = "exit"
    /\ pc' = [pc EXCEPT ![m] = "down"]
    /\ onGone(m, Owned(m), "closed")
    /\ owner' = [p \in Partition |-> IF owner[p] = m THEN NoMember ELSE owner[p]]
    /\ lost' = [lost EXCEPT ![m] = {}]
    /\ pos' = [pos EXCEPT ![m] = [p \in Partition |-> 0]]
    /\ cancelled' = cancelled \ {m}
    /\ UNCHANGED <<log, gone, revokes>>

-----------------------------------------------------------------------------
(* The loop of Run. *)

AddRecord(m, p) ==
    /\ pc[m] \in {"poll", "add"}
    /\ p \in Fetching(m)
    /\ pos[m][p] < End(p)
    /\ pos' = [pos EXCEPT ![m][p] = @ + 1]
    /\ \E keep \in Verdicts :
         LET e == Add(eng[m], p, pos[m][p], keep) IN
         /\ SetEngine(m, e)
         /\ pc' = [pc EXCEPT ![m] = IF Len(e.out) >= FlushOutputs THEN "mid" ELSE "add"]
    /\ UNCHANGED <<log, committed, owner, lost, gone, cancelled, topicVars, excused, revokes, faults>>

(* The poll is over: the first n traces are due, the first k decisions have expired. *)
Tick(m, n, k) ==
    /\ pc[m] \in {"poll", "add"}
    /\ n \in 0..Len(eng[m].traces)
    /\ \E keep \in Verdicts :
         LET e == decideFirst(eng[m], n, keep) IN
         /\ k \in 0..Len(e.cache)
         /\ SetEngine(m, popCache(e, k))
    /\ IF k > 0 THEN Fails("expire") ELSE UNCHANGED faults
    /\ pc' = [pc EXCEPT ![m] = "flush"]
    /\ UNCHANGED <<groupVars, cancelled, topicVars, excused, revokes>>

(* flush: the outputs are produced, their records released and what is settled committed. *)
FlushDone(m) ==
    /\ pc[m] \in {"mid", "flush", "final"}
    /\ pc[m] = "flush" => m \notin cancelled
    /\ LET r == Release(eng[m]) IN
         /\ Write(Spans(eng[m].out))
         /\ Commit(m, r, Advanced(r, Partition))
         /\ SetEngine(m, CommitOffsets(r, Partition))
    /\ pc' = [pc EXCEPT ![m] = CASE @ = "mid" -> "add" [] @ = "flush" -> "poll" [] @ = "final" -> "exit"]
    /\ UNCHANGED <<log, owner, pos, lost, gone, cancelled, discarded, revokes>>

(* The flush of a cancelled Run still succeeds: shutdown decides what is buffered. *)
FlushLast(m) ==
    /\ pc[m] = "flush"
    /\ m \in cancelled
    /\ \E keep \in Verdicts :
         LET r == Release(eng[m])
             e == CommitOffsets(r, Partition)
         IN  /\ Write(Spans(eng[m].out))
             /\ Commit(m, r, Advanced(r, Partition))
             /\ SetEngine(m, decideFirst(e, Len(e.traces), keep))
    /\ pc' = [pc EXCEPT ![m] = "final"]
    /\ UNCHANGED <<log, owner, pos, lost, gone, cancelled, discarded, revokes>>

(* The flush ends with the context: its outputs stay pending for the one of shutdown. *)
FlushCancelled(m) ==
    /\ pc[m] \in {"mid", "flush"}
    /\ m \in cancelled
    /\ eng[m].out # <<>>
    /\ \E keep \in Verdicts : SetEngine(m, decideFirst(eng[m], Len(eng[m].traces), keep))
    /\ pc' = [pc EXCEPT ![m] = "final"]
    /\ UNCHANGED <<groupVars, cancelled, topicVars, excused, revokes, faults>>

(* An attempt to produce fails with some of the messages written; it is repeated. *)
ProduceFails(m) ==
    /\ pc[m] \in {"mid", "flush", "final"}
    /\ eng[m].out # <<>>
    /\ \E i \in DOMAIN eng[m].out : Write(eng[m].out[i].spans)
    /\ Fails("produce")
    /\ excused' = TRUE
    /\ UNCHANGED <<groupVars, pc, cancelled, eng, dropped, discarded, forgotten, revokes>>

(* The deadline of shutdown passes while producing fails; a shutdown is bounded as a fault already. *)
FinalTimeout(m) ==
    /\ pc[m] = "final"
    /\ eng[m].out # <<>>
    /\ "produce" \in Faults
    /\ excused' = TRUE
    /\ pc' = [pc EXCEPT ![m] = "exit"]
    /\ UNCHANGED <<groupVars, cancelled, eng, topicVars, dropped, forgotten, revokes, faults>>

-----------------------------------------------------------------------------
Next ==
    \/ \E p \in Partition : ProduceRecord(p)
    \/ \E m \in Member :
         \/ Start(m) \/ Cancel(m) \/ Crash(m) \/ Exit(m)
         \/ ExpelMember(m) \/ NoticeLoss(m)
         \/ \E p \in Partition : AssignPartition(m, p) \/ RevokePartition(m, p) \/ AddRecord(m, p)
         \/ \E n \in 0..MaxTraces, k \in 0..DecisionCacheSize : Tick(m, n, k)
         \/ FlushDone(m) \/ FlushLast(m) \/ FlushCancelled(m)
         \/ ProduceFails(m) \/ FinalTimeout(m)

Spec == Init /\ [][Next]_vars
-----------------------------------------------------------------------------
(* Safety. *)

SpansOf(p, o) == {<<p, o, i>> : i \in DOMAIN Rec(p, o)}

Handled(p, o) == SpansOf(p, o) \subseteq produced \cup dropped

(***************************************************************************)
(* A trace is kept whole or dropped whole, limits, late spans and planned  *)
(* hand-overs included, unless its decision was forgotten or two members   *)
(* saw spans of it.                                                        *)
(***************************************************************************)
WholeTraces ==
    \A x \in produced, y \in dropped :
        Rec(x[1], x[2])[x[3]] = Rec(y[1], y[2])[y[3]] => Rec(x[1], x[2])[x[3]] \in forgotten

(***************************************************************************)
(* kafka.md: "sampler crash, commit failure or lost partitions can         *)
(* duplicate kept spans" and a produce that is repeated; revocations,      *)
(* limits and a shutdown that completes do not.                            *)
(***************************************************************************)
DuplicatesExcused == dups # {} => excused

(***************************************************************************)
(* The reference counts are exact: an uncommitted record is held back by   *)
(* the buffered traces and the unproduced outputs that have a span of it   *)
(* and by nothing else, over decisions at a limit, late spans and          *)
(* hand-overs of another partition of the same trace; so its partition     *)
(* neither skips it nor waits for it forever.  Only an output that onGone  *)
(* gave up keeps its count.                                                *)
(***************************************************************************)
RefsExact ==
    \A m \in Member, p \in Partition : \A i \in DOMAIN eng[m].parts[p].entries :
        LET x == eng[m].parts[p].entries[i] IN
        \/ SpansOf(p, x.offset) \cap discarded # {}
        \/ x.refs = Count(eng[m].traces, <<p, x.offset>>) + Count(eng[m].out, <<p, x.offset>>)

(* A record is handled when its spans are dropped or in the sampled topic. *)
Pipe == INSTANCE RecordPipe WITH
    end <- [p \in Partition |-> End(p)],
    handled <- [p \in Partition |-> {o \in 0..(End(p) - 1) : Handled(p, o)}],
    acked <- committed

(***************************************************************************)
(* kafka.md: the sampler "commits a raw partition only up to the oldest    *)
(* record that still has a buffered span or an unproduced kept span": what *)
(* lies below a committed offset was dropped by a decision or is in the    *)
(* sampled topic, and no commit moves back, whichever member crashed, lost *)
(* its partitions or failed to produce.                                    *)
(***************************************************************************)
SamplesAtLeastOnce == Pipe!Spec
=============================================================================
