------------------------------ MODULE Processor ------------------------------
(***************************************************************************)
(* openlog-processor (internal/processor/processor.go): the consumer loop  *)
(* that cuts the records of each partition into chunks, inserts a chunk    *)
(* into ClickHouse table by table under a deduplication token, and commits *)
(* the offset after the last chunk whose tables are all inserted.          *)
(*                                                                         *)
(* Every member of the group runs the same loop.  Its control point is     *)
(*   "poll"     in PollRecords, rebalances allowed                         *)
(*   "add"      walking the fetched records                                *)
(*   "relieve"  in the first flush of relieve                              *)
(*   "memory"   in relieve's second flush, after closeAll(memory)          *)
(*   "flush"    in the flush at the end of an iteration of Run             *)
(*   "final"    in the flush of shutdown                                   *)
(*   "exit"     Run has returned                                           *)
(*   "down"     no process                                                 *)
(*                                                                         *)
(* Rows are <<partition, offset, table>>: what record `offset' contributes *)
(* to `table'.  A record that is rejected contributes to no table.  Time   *)
(* is abstracted: a caught-up partition's open chunk may be due at any     *)
(* time, and the deadline of shutdown may pass at any time.                *)
(***************************************************************************)
EXTENDS ConsumerGroup, Functions

CONSTANTS
    Tables,            \* sequence of tables, in the order they are written
    BatchBytes,        \* a chunk that reaches it is closed
    MaxBufferedBytes,  \* a processor that reaches it relieves its buffer
    Budgets            \* bound: how often each fault may happen, of which one is chosen

Fault == {"crash", "cancel", "expel", "revoke", "insert", "commit"}

Table == {Tables[i] : i \in 1..Len(Tables)}

(***************************************************************************)
(* A record is its timestamp window, its size and the tables it has rows   *)
(* for.  New raises MaxBufferedBytes to at least BatchBytes.               *)
(***************************************************************************)
ASSUME ProcessorAssumption ==
    /\ Tables \in Seq(STRING) /\ Tables # <<>>
    /\ \A i, j \in 1..Len(Tables) : Tables[i] = Tables[j] => i = j
    /\ Record \subseteq [win : Nat, size : Nat, tables : SUBSET Table]
    /\ BatchBytes \in Nat \ {0}
    /\ MaxBufferedBytes \in Nat
    /\ MaxBufferedBytes >= BatchBytes
    /\ Budgets \subseteq [Fault -> Nat]

VARIABLES
    pc,         \* [Member -> control point]
    cancelled,  \* members whose Run context is cancelled
    parts,      \* [Member -> [Partition -> Part]]: Processor.parts
    batch,      \* [Member -> [Partition -> Nat]]: fetched records not walked yet
    cur,        \* [Member -> Partition \cup {NoPartition}]: partition being walked
    buffered,   \* [Member -> Int]: Processor.buffered
    closedN,    \* [Member -> Int]: Processor.closedN
    rows,       \* rows stored in ClickHouse
    dups,       \* rows stored more than once
    tokens,     \* blocks ClickHouse remembers by their token
    inflight,   \* blocks whose insert failed for the client but may still be applied
    timed,      \* [Partition -> SUBSET Nat]: first offsets of chunks cut by timing
    budget      \* faults left

localVars == <<pc, cancelled, parts, batch, cur, buffered, closedN>>
storeVars == <<rows, dups, tokens, inflight>>
vars == <<groupVars, localVars, storeVars, timed, budget>>

-----------------------------------------------------------------------------
(* Chunks and partitions of one processor. *)

Chunk == [first : Int, last : Int, win : Nat, bytes : Nat,
          tab : 0..Len(Tables), status : {"buffered", "stored"}]

NoChunk == [first |-> -1, last |-> -1, win |-> 0, bytes |-> 0,
            tab |-> 0, status |-> "buffered"]

Part == [open : Chunk, closed : Seq(Chunk), lastOffset : Int, hwm : Nat]

(* part: the state a partition starts from.  A deleted one is the same. *)
NewPart == [open |-> NoChunk, closed |-> <<>>, lastOffset |-> -1, hwm |-> 0]

NoPartition == "none"

(* Mutant: off by one, the last record is never counted as read. *)
caughtUpLate(ps) == ps.hwm < ps.lastOffset + 1

caughtUp(ps) == ps.hwm <= ps.lastOffset + 1

close(ps) == [ps EXCEPT !.closed = Append(@, ps.open), !.open = NoChunk]

newChunk(o, r) == [first |-> o, last |-> o, win |-> r.win, bytes |-> r.size,
                   tab |-> 0, status |-> "buffered"]

extend(c, o, r) ==
    IF c = NoChunk THEN newChunk(o, r)
                   ELSE [c EXCEPT !.last = o, !.bytes = @ + r.size]

(***************************************************************************)
(* add: a record of a later window closes the open chunk first; a chunk    *)
(* that reaches BatchBytes is closed after it.                             *)
(***************************************************************************)
add(ps, o, r) ==
    LET cut   == IF ps.open # NoChunk /\ r.win > ps.open.win THEN close(ps) ELSE ps
        grown == [cut EXCEPT !.open = extend(cut.open, o, r), !.lastOffset = o]
    IN  IF grown.open.bytes >= BatchBytes THEN close(grown) ELSE grown

OpenParts(f) == {p \in Partition : f[p].open # NoChunk}

closeParts(f, P) == [p \in Partition |-> IF p \in P THEN close(f[p]) ELSE f[p]]

(* The chunks of ps, the open one included, and the bytes they hold. *)
ChunkBytes(ps) ==
    ps.open.bytes + SumFunction([i \in DOMAIN ps.closed |-> ps.closed[i].bytes])

ClosedCount(f) == SumFunction([p \in Partition |-> Len(f[p].closed)])

TotalBytes(f) == SumFunction([p \in Partition |-> ChunkBytes(f[p])])

-----------------------------------------------------------------------------
(* ClickHouse: a block of one table, the rows of the records of a chunk.   *)

Block == [p : Partition, first : Int, last : Int, table : STRING]

BlockRows(b) == {<<b.p, o, b.table>> : o \in {x \in b.first..b.last :
                                                b.table \in Rec(b.p, x).tables}}

token(p, c, t) == [p |-> p, first |-> c.first, last |-> c.last, table |-> t]

(* A block whose token is remembered is dropped. *)
ApplyBlock(b) ==
    IF b \in tokens \/ BlockRows(b) = {}
    THEN UNCHANGED <<rows, dups, tokens>>
    ELSE /\ dups' = dups \cup (rows \cap BlockRows(b))
         /\ rows' = rows \cup BlockRows(b)
         /\ tokens' = tokens \cup {b}

-----------------------------------------------------------------------------
TypeOK ==
    /\ GroupTypeOK
    /\ pc \in [Member -> {"poll", "add", "relieve", "memory", "flush", "final", "exit", "down"}]
    /\ cancelled \subseteq Member
    /\ parts \in [Member -> [Partition -> Part]]
    /\ batch \in [Member -> [Partition -> Nat]]
    /\ cur \in [Member -> Partition \cup {NoPartition}]
    /\ rows \subseteq Partition \X Int \X STRING
    /\ dups \subseteq rows
    /\ tokens \subseteq Block
    /\ inflight \subseteq Block
    /\ timed \in [Partition -> SUBSET Int]
    /\ budget \in [Fault -> Nat]

Fresh(m) ==
    /\ parts' = [parts EXCEPT ![m] = [p \in Partition |-> NewPart]]
    /\ buffered' = [buffered EXCEPT ![m] = 0]
    /\ closedN' = [closedN EXCEPT ![m] = 0]
    /\ batch' = [batch EXCEPT ![m] = [p \in Partition |-> 0]]
    /\ cur' = [cur EXCEPT ![m] = NoPartition]
    /\ cancelled' = cancelled \ {m}

Init ==
    /\ GroupInit
    /\ pc = [m \in Member |-> "down"]
    /\ cancelled = {}
    /\ parts = [m \in Member |-> [p \in Partition |-> NewPart]]
    /\ batch = [m \in Member |-> [p \in Partition |-> 0]]
    /\ cur = [m \in Member |-> NoPartition]
    /\ buffered = [m \in Member |-> 0]
    /\ closedN = [m \in Member |-> 0]
    /\ rows = {} /\ dups = {} /\ tokens = {} /\ inflight = {}
    /\ timed = [p \in Partition |-> {}]
    /\ budget \in Budgets

Spend(f) == budget[f] > 0 /\ budget' = [budget EXCEPT ![f] = @ - 1]

-----------------------------------------------------------------------------
(* The environment: producers, the group coordinator, the process manager. *)

ProduceRecord(p) ==
    /\ Produce(p)
    /\ UNCHANGED <<localVars, storeVars, timed, budget>>

(* A rebalance runs while the member's rebalances are not blocked. *)
AssignPartition(m, p) ==
    /\ pc[m] = "poll"
    /\ Assign(m, p)
    /\ UNCHANGED <<localVars, storeVars, timed, budget>>

RevokePartition(m, p) ==
    /\ pc[m] = "poll"
    /\ Revoke(m, p)
    /\ Spend("revoke")
    /\ UNCHANGED <<localVars, storeVars, timed>>

ExpelMember(m) ==
    /\ pc[m] # "down"
    /\ Expel(m)
    /\ Spend("expel")
    /\ UNCHANGED <<localVars, storeVars, timed>>

(* The lost callback waits for AllowRebalance. *)
NoticeLoss(m) ==
    /\ pc[m] = "poll"
    /\ Notice(m)
    /\ UNCHANGED <<localVars, storeVars, timed, budget>>

Start(m) ==
    /\ pc[m] = "down"
    /\ pc' = [pc EXCEPT ![m] = "poll"]
    /\ UNCHANGED <<groupVars, cancelled, parts, batch, cur, buffered, closedN,
                   storeVars, timed, budget>>

(* SIGTERM cancels the context of Run. *)
Cancel(m) ==
    /\ pc[m] \notin {"down", "exit"}
    /\ m \notin cancelled
    /\ cancelled' = cancelled \cup {m}
    /\ Spend("cancel")
    /\ UNCHANGED <<groupVars, pc, parts, batch, cur, buffered, closedN, storeVars, timed>>

(* The process dies, or Run returns because its client was closed. *)
Crash(m) ==
    /\ pc[m] \notin {"down", "exit"}
    /\ pc' = [pc EXCEPT ![m] = "down"]
    /\ Leave(m)
    /\ Fresh(m)
    /\ Spend("crash")
    /\ UNCHANGED <<storeVars, timed>>

(* Run has returned: the client is closed and leaves the group. *)
Exit(m) ==
    /\ pc[m] = "exit"
    /\ pc' = [pc EXCEPT ![m] = "down"]
    /\ Leave(m)
    /\ Fresh(m)
    /\ UNCHANGED <<storeVars, timed, budget>>

-----------------------------------------------------------------------------
(* The loop of Run. *)

(* applyRevocations: what is buffered for a partition that is gone is dropped. *)
applyRevocations(m, p) == IF p \in gone[m] THEN NewPart ELSE parts[m][p]

(* A fetch that brings records tells the high watermark, which never moves back. *)
SeenHwm(ps, h) == IF h > ps.hwm THEN [ps EXCEPT !.hwm = h] ELSE ps

(***************************************************************************)
(* PollRecords returns records of any of the member's partitions, together *)
(* with their high watermarks; revocations are applied before they are     *)
(* looked at.                                                              *)
(***************************************************************************)
PollRecords(m) ==
    /\ pc[m] = "poll"
    /\ \E f \in [Partition -> 0..MaxLog] :
         /\ \A p \in Partition :
              f[p] > 0 => p \in Fetching(m) /\ pos[m][p] + f[p] <= End(p)
         /\ batch' = [batch EXCEPT ![m] = f]
         /\ parts' = [parts EXCEPT ![m] = [p \in Partition |->
                SeenHwm(applyRevocations(m, p), IF f[p] > 0 THEN End(p) ELSE 0)]]
    /\ buffered' = [buffered EXCEPT ![m] =
           @ - SumFunction([p \in gone[m] |-> ChunkBytes(parts[m][p])])]
    /\ closedN' = [closedN EXCEPT ![m] =
           @ - SumFunction([p \in gone[m] |-> Len(parts[m][p].closed)])]
    /\ gone' = [gone EXCEPT ![m] = {}]
    /\ pc' = [pc EXCEPT ![m] = "add"]
    /\ UNCHANGED <<log, committed, owner, pos, lost, cancelled, cur, storeVars, timed, budget>>

Pending(m, p) == batch[m][p] > 0

(* Chunks of the partitions in P are about to be cut for a reason of timing. *)
MarkTimed(f, P) ==
    timed' = [p \in Partition |-> IF p \in P THEN timed[p] \cup {f[p].open.first} ELSE timed[p]]

(* closeAll(reason) on the partitions f, leaving n closed chunks uncommitted. *)
CloseAll(m, f, n) ==
    /\ parts' = [parts EXCEPT ![m] = closeParts(f, OpenParts(f))]
    /\ closedN' = [closedN EXCEPT ![m] = n + Cardinality(OpenParts(f))]
    /\ MarkTimed(f, OpenParts(f))

KeepOpen(m, f, n) ==
    /\ parts' = [parts EXCEPT ![m] = f]
    /\ closedN' = [closedN EXCEPT ![m] = n]
    /\ UNCHANGED timed

(***************************************************************************)
(* One record of the batch, one partition after the other.  When the       *)
(* buffer reaches its limit relieve starts: a flush of the closed chunks,  *)
(* or, when there are none, closeAll(memory) at once.                      *)
(***************************************************************************)
AddRecord(m, p) ==
    LET o    == pos[m][p]
        r    == Rec(p, o)
        old  == parts[m][p]
        new  == IF o <= old.lastOffset THEN old ELSE add(old, o, r)
        f    == [parts[m] EXCEPT ![p] = new]
        size == IF o <= old.lastOffset THEN 0 ELSE r.size
        n    == closedN[m] + Len(new.closed) - Len(old.closed)
        full == buffered[m] + size >= MaxBufferedBytes
    IN  /\ pc[m] = "add"
        /\ Pending(m, p)
        /\ cur[m] \in {p, NoPartition}
        /\ pos' = [pos EXCEPT ![m][p] = o + 1]
        /\ batch' = [batch EXCEPT ![m][p] = @ - 1]
        /\ cur' = [cur EXCEPT ![m] = IF batch[m][p] > 1 THEN p ELSE NoPartition]
        /\ buffered' = [buffered EXCEPT ![m] = @ + size]
        /\ IF full /\ n = 0 THEN CloseAll(m, f, n) ELSE KeepOpen(m, f, n)
        /\ pc' = [pc EXCEPT ![m] = IF ~full THEN "add" ELSE IF n = 0 THEN "memory" ELSE "relieve"]
        /\ UNCHANGED <<log, committed, owner, lost, gone, cancelled, storeVars, budget>>

Drained(m) == \A p \in Partition : ~Pending(m, p)

(* closeIdle: any set of caught-up partitions may be due. *)
Idle(m) == {p \in OpenParts(parts[m]) : caughtUp(parts[m][p])}

(* Mutant: the end of a poll cuts every open chunk, like a window or byte cut. *)
EndBatchCut(m) ==
    /\ pc[m] = "add"
    /\ Drained(m)
    /\ m \notin cancelled
    /\ parts' = [parts EXCEPT ![m] = closeParts(parts[m], OpenParts(parts[m]))]
    /\ closedN' = [closedN EXCEPT ![m] = @ + Cardinality(OpenParts(parts[m]))]
    /\ pc' = [pc EXCEPT ![m] = IF closedN'[m] = 0 THEN "poll" ELSE "flush"]
    /\ UNCHANGED <<groupVars, cancelled, batch, cur, buffered, storeVars, timed, budget>>

(***************************************************************************)
(* The batch is walked: closeIdle, then the flush of the iteration, which  *)
(* returns at once when nothing is closed.                                 *)
(***************************************************************************)
EndBatch(m) ==
    /\ pc[m] = "add"
    /\ Drained(m)
    /\ m \notin cancelled
    /\ \E P \in SUBSET Idle(m) :
         /\ parts' = [parts EXCEPT ![m] = closeParts(parts[m], P)]
         /\ closedN' = [closedN EXCEPT ![m] = @ + Cardinality(P)]
         /\ MarkTimed(parts[m], P)
         /\ pc' = [pc EXCEPT ![m] = IF closedN'[m] = 0 THEN "poll" ELSE "flush"]
    /\ UNCHANGED <<groupVars, cancelled, batch, cur, buffered, storeVars, budget>>

(* shutdown: closeAll(shutdown), then the final flush. *)
Shutdown(m, f, n) ==
    /\ CloseAll(m, f, n)
    /\ pc' = [pc EXCEPT ![m] = IF closedN'[m] = 0 THEN "exit" ELSE "final"]

EndBatchCancelled(m) ==
    /\ pc[m] = "add"
    /\ Drained(m)
    /\ m \in cancelled
    /\ Shutdown(m, parts[m], closedN[m])
    /\ UNCHANGED <<groupVars, cancelled, batch, cur, buffered, storeVars, budget>>

-----------------------------------------------------------------------------
(* flushClosed: every closed chunk is written by a worker of its own. *)

Flushing == {"relieve", "memory", "flush", "final"}

(* Mutant: hosts first. *)
NextBlockReversed(m, p, i) ==
    LET c == parts[m][p].closed[i] IN token(p, c, Tables[Len(Tables) - c.tab])

(* The block the worker of chunk i of partition p writes next. *)
NextBlock(m, p, i) ==
    LET c == parts[m][p].closed[i] IN token(p, c, Tables[c.tab + 1])

Writing(m, p, i) ==
    /\ pc[m] \in Flushing
    /\ i \in 1..Len(parts[m][p].closed)
    /\ parts[m][p].closed[i].tab < Len(Tables)

(* The worker's chunk after table tab + 1 is written, or has no rows to write. *)
Advance(c) ==
    [c EXCEPT !.tab = @ + 1,
              !.status = IF c.tab + 1 = Len(Tables) THEN "stored" ELSE @]

WriteTable(m, p, i) ==
    /\ Writing(m, p, i)
    /\ ApplyBlock(NextBlock(m, p, i))
    /\ parts' = [parts EXCEPT ![m][p].closed[i] = Advance(@)]
    /\ UNCHANGED <<groupVars, pc, cancelled, batch, cur, buffered, closedN,
                   inflight, timed, budget>>

(* The insert times out or its answer is lost: the worker will try again. *)
WriteFails(m, p, i) ==
    /\ Writing(m, p, i)
    /\ BlockRows(NextBlock(m, p, i)) # {}
    /\ inflight' = inflight \cup {NextBlock(m, p, i)}
    /\ Spend("insert")
    /\ UNCHANGED <<groupVars, localVars, rows, dups, tokens, timed>>

(* ClickHouse applies a block whose client has given up. *)
ApplyLate(b) ==
    /\ b \in inflight
    /\ ApplyBlock(b)
    /\ inflight' = inflight \ {b}
    /\ UNCHANGED <<groupVars, localVars, timed, budget>>

AllWritten(m) ==
    \A p \in Partition : \A i \in 1..Len(parts[m][p].closed) :
        parts[m][p].closed[i].tab = Len(Tables)

(* Mutant: everything up to the last stored chunk, the gaps before it included. *)
StoredPrefixGap(closed, n) ==
    /\ n > 0 => closed[n].status = "stored"
    /\ \A i \in (n + 1)..Len(closed) : closed[i].status # "stored"

(* n chunks at the head of closed are stored, and no more. *)
StoredPrefix(closed, n) ==
    /\ \A i \in 1..n : closed[i].status = "stored"
    /\ n < Len(closed) => closed[n + 1].status # "stored"

(* The first n chunks leave; the next flush writes the others from the start. *)
trim(ps, n) ==
    [ps EXCEPT !.closed = [i \in 1..(Len(ps.closed) - n) |->
                              [ps.closed[i + n] EXCEPT !.tab = 0]]]

(* Mutant: commits the position of the client, as CommitUncommittedOffsets does. *)
CommitPolled(m, n) ==
    LET asked == {p \in Owned(m) : n[p] > 0} IN
    /\ committed' = [p \in Partition |-> IF p \in asked THEN pos[m][p] ELSE committed[p]]
    /\ UNCHANGED budget

(***************************************************************************)
(* CommitRecords: the offset after the last chunk of the prefix, for the   *)
(* partitions the broker accepts; a fenced member commits nothing.  An     *)
(* error is logged and otherwise ignored.                                  *)
(***************************************************************************)
Commit(m, n) ==
    LET asked == {p \in Owned(m) : n[p] > 0} IN
    \E S \in SUBSET asked :
      /\ committed' = [p \in Partition |->
             IF p \in S THEN parts[m][p].closed[n[p]].last + 1 ELSE committed[p]]
      /\ \/ S = asked /\ UNCHANGED budget
         \/ /\ S # asked
            /\ m \in cancelled /\ pc[m] # "final"
            /\ UNCHANGED budget
         \/ /\ S # asked
            /\ ~AllWritten(m) /\ pc[m] = "final"
            /\ UNCHANGED budget
         \/ S # asked /\ Spend("commit")

(***************************************************************************)
(* The workers are done, or the context of the flush ended: the prefix of  *)
(* stored chunks is committed and released.                                *)
(***************************************************************************)
FlushStep(m, n) ==
    /\ n \in [Partition -> 0..MaxLog]
    /\ \A p \in Partition :
         /\ n[p] \in 0..Len(parts[m][p].closed)
         /\ StoredPrefix(parts[m][p].closed, n[p])
    /\ Commit(m, n)
    /\ buffered' = [buffered EXCEPT ![m] =
           @ - SumFunction([p \in Partition |-> ChunkBytes(parts[m][p]) - ChunkBytes(trim(parts[m][p], n[p]))])]
    /\ UNCHANGED <<log, owner, pos, lost, gone, cancelled, batch, cur, storeVars>>

Trimmed(m, n) == [p \in Partition |-> trim(parts[m][p], n[p])]

(* Mutant: released chunks still count as closed. *)
LeftUncounted(m, n) == closedN[m]

Left(m, n) == closedN[m] - SumFunction(n)

FlushDone(m) ==
    /\ pc[m] \in {"memory", "flush", "final"}
    /\ AllWritten(m)
    /\ \E n \in [Partition -> 0..MaxLog] :
         /\ FlushStep(m, n)
         /\ KeepOpen(m, Trimmed(m, n), Left(m, n))
    /\ pc' = [pc EXCEPT ![m] = CASE @ = "memory" -> "add" [] @ = "flush" -> "poll" [] @ = "final" -> "exit"]

(* Mutant: relieve without the memory cut. *)
RelieveDoneOnce(m) ==
    /\ pc[m] = "relieve"
    /\ AllWritten(m)
    /\ \E n \in [Partition -> 0..MaxLog] :
         /\ FlushStep(m, n)
         /\ KeepOpen(m, Trimmed(m, n), Left(m, n))
    /\ pc' = [pc EXCEPT ![m] = "add"]

(* relieve: still over the limit, the open chunks are cut and flushed too. *)
RelieveDone(m) ==
    /\ pc[m] = "relieve"
    /\ AllWritten(m)
    /\ \E n \in [Partition -> 0..MaxLog] :
         /\ FlushStep(m, n)
         /\ IF buffered'[m] >= MaxBufferedBytes
            THEN /\ CloseAll(m, Trimmed(m, n), Left(m, n))
                 /\ pc' = [pc EXCEPT ![m] = IF closedN'[m] = 0 THEN "add" ELSE "memory"]
            ELSE /\ KeepOpen(m, Trimmed(m, n), Left(m, n))
                 /\ pc' = [pc EXCEPT ![m] = "add"]

(* The context was cancelled with chunks unwritten: Run shuts down. *)
FlushCancelled(m) ==
    /\ pc[m] \in {"relieve", "memory", "flush"}
    /\ m \in cancelled
    /\ ~AllWritten(m)
    /\ \E n \in [Partition -> 0..MaxLog] :
         /\ FlushStep(m, n)
         /\ Shutdown(m, Trimmed(m, n), Left(m, n))

(* The deadline of the final flush passes with chunks unwritten. *)
FinalTimeout(m) ==
    /\ pc[m] = "final"
    /\ ~AllWritten(m)
    /\ \E n \in [Partition -> 0..MaxLog] :
         /\ FlushStep(m, n)
         /\ KeepOpen(m, Trimmed(m, n), Left(m, n))
    /\ pc' = [pc EXCEPT ![m] = "exit"]

-----------------------------------------------------------------------------
Step(m) ==
    \/ PollRecords(m)
    \/ \E p \in Partition : AddRecord(m, p)
    \/ EndBatch(m)
    \/ EndBatchCancelled(m)
    \/ \E p \in Partition : \E i \in 1..MaxLog : WriteTable(m, p, i)
    \/ FlushDone(m)
    \/ RelieveDone(m)
    \/ FlushCancelled(m)
    \/ FinalTimeout(m)
    \/ Exit(m)

Next ==
    \/ \E p \in Partition : ProduceRecord(p)
    \/ \E m \in Member :
         \/ Step(m)
         \/ \E p \in Partition : AssignPartition(m, p) \/ RevokePartition(m, p)
         \/ ExpelMember(m) \/ NoticeLoss(m)
         \/ Start(m) \/ Cancel(m) \/ Crash(m)
         \/ \E p \in Partition : \E i \in 1..MaxLog : WriteFails(m, p, i)
    \/ \E b \in inflight : ApplyLate(b)

Spec == Init /\ [][Next]_vars
-----------------------------------------------------------------------------
(* Safety. *)

(* Every row of the record at offset o of a partition p with log L is in R. *)
StoredIn(L, R, p, o) == \A t \in L[o + 1].tables : <<p, o, t>> \in R

Stored(p, o) == StoredIn(log[p], rows, p, o)

(***************************************************************************)
(* At-least-once: an offset is committed only after every row derived from *)
(* every record below it is stored, whatever crashed, was fenced or failed *)
(* in between (processor.go package comment; kafka.md "At-least-once").    *)
(***************************************************************************)
CommittedStored ==
    \A p \in Partition : \A o \in 0..(committed[p] - 1) : o < End(p) /\ Stored(p, o)

(***************************************************************************)
(* Deduplication: a row is stored twice only if a chunk starting at or     *)
(* before it was cut by timing (idle, memory, shutdown).  Window and byte  *)
(* cuts alone, re-delivered after any crash, rebalance or failed commit,   *)
(* give the same chunks and tokens (kafka.md "Remaining duplicate cases",  *)
(* for tokens ClickHouse has not forgotten).                               *)
(***************************************************************************)
DuplicatesNeedTimedCut ==
    \A d \in dups : \E first \in timed[d[1]] : first <= d[2]

(***************************************************************************)
(* writeTables' "hosts last": a row of a table is visible only when the    *)
(* rows the same record has in the earlier tables are, retries, late       *)
(* inserts and re-deliveries included.                                     *)
(***************************************************************************)
TablesInOrder ==
    \A x \in rows : \A i, j \in 1..Len(Tables) :
        /\ i < j
        /\ x[3] = Tables[j]
        /\ Tables[i] \in Rec(x[1], x[2]).tables
        => <<x[1], x[2], Tables[i]>> \in rows

(***************************************************************************)
(* buffered and closedN count exactly what the partitions hold, through    *)
(* cuts, revocations and flushes: flushClosed returns early on closedN,    *)
(* relieve decides on buffered.                                            *)
(***************************************************************************)
AccountingExact ==
    \A m \in Member : /\ buffered[m] = TotalBytes(parts[m])
                       /\ closedN[m] = ClosedCount(parts[m])

(***************************************************************************)
(* Memory is bounded by bytes: Run never takes another record at or over   *)
(* the limit, so the buffer exceeds it by less than one record.            *)
(***************************************************************************)
BufferBounded ==
    \A m \in Member :
        /\ pc[m] \in {"poll", "add"} => buffered[m] < MaxBufferedBytes
        /\ buffered[m] < MaxBufferedBytes \/ \E r \in Record : buffered[m] < MaxBufferedBytes + r.size

(***************************************************************************)
(* A committed offset never moves back: a fenced or re-assigned member     *)
(* cannot commit what it buffered in an earlier assignment.                *)
(***************************************************************************)
CommitsForward ==
    [][\A p \in Partition : committed'[p] >= committed[p]]_vars

(***************************************************************************)
(* The processors of a group deliver every record to ClickHouse at least   *)
(* once, as RecordPipe says: a record is handled when all its rows are     *)
(* stored and acknowledged by the commits of flushClosed, whichever member *)
(* makes them.                                                             *)
(***************************************************************************)
Pipe == INSTANCE RecordPipe WITH
    end <- [p \in Partition |-> End(p)],
    handled <- [p \in Partition |-> {o \in 0..(End(p) - 1) : Stored(p, o)}],
    acked <- committed

DeliversAtLeastOnce == Pipe!Spec

-----------------------------------------------------------------------------
(***************************************************************************)
(* The inductive invariant behind CommittedStored, TablesInOrder and       *)
(* CommitsForward.                                                         *)
(***************************************************************************)
InLog(L, c) == 0 <= c.first /\ c.first <= c.last /\ c.last < Len(L)

Covers(c, o) == c.first <= o /\ o <= c.last

(***************************************************************************)
(* Below, L is the log of partition p and R a set of rows.  The rows of    *)
(* table i of the records c.first..c.last are in R:                        *)
(***************************************************************************)
TableStored(L, R, p, c, i) ==
    \A o \in c.first..c.last : Tables[i] \in L[o + 1].tables => <<p, o, Tables[i]>> \in R

(* A worker that is past a table has stored it; a chunk marked stored has all. *)
ClosedSound(L, R, p, c) ==
    /\ InLog(L, c)
    /\ c.status = "stored" => \A i \in 1..Len(Tables) : TableStored(L, R, p, c, i)
    /\ \A i \in 1..c.tab : TableStored(L, R, p, c, i)

PartSound(L, R, p, ps) ==
    /\ \A i \in 1..Len(ps.closed) : ClosedSound(L, R, p, ps.closed[i])
    /\ ps.open # NoChunk =>
         /\ InLog(L, ps.open)
         /\ ps.open.tab = 0
         /\ ps.open.status = "buffered"

ChunksSound ==
    \A m \in Member, p \in Partition : PartSound(log[p], rows, p, parts[m][p])

(* The tables before the one a block is for are stored already. *)
EarlierStored(L, R, b) ==
    \A j \in 1..Len(Tables) : b.table = Tables[j] =>
        \A i \in 1..(j - 1) : TableStored(L, R, b.p, b, i)

StoreSound ==
    /\ \A b \in tokens : InLog(log[b.p], b) /\ BlockRows(b) \subseteq rows
    /\ \A b \in inflight : InLog(log[b.p], b) /\ EarlierStored(log[b.p], rows, b)
    /\ \A x \in rows : x[2] \in 0..(End(x[1]) - 1)

(* A fenced member owns nothing; a partition it does not fetch holds nothing. *)
GroupSound ==
    \A m \in Member :
        /\ lost[m] # {} => Owned(m) = {}
        /\ gone[m] # {} => pc[m] = "poll"
        /\ pc[m] = "down" => Fetching(m) = {}
        /\ \A p \in Partition :
             /\ pos[m][p] + batch[m][p] <= End(p)
             /\ p \notin Fetching(m) \/ pc[m] \in {"poll", "flush"} => batch[m][p] = 0
             /\ p \notin Fetching(m) \cup gone[m] => parts[m][p] = NewPart

(***************************************************************************)
(* A member that has read the records below k of a partition, of which     *)
(* those below cm are committed: each is stored or in a chunk, and the     *)
(* chunks lie in order between cm and k.                                   *)
(***************************************************************************)
OwnerSound(L, R, p, ps, k, cm) ==
    LET cl == ps.closed IN
    /\ ps.lastOffset < k
    /\ cm <= k
    /\ \A i \in 1..Len(cl) : cm <= cl[i].first /\ cl[i].last < k
    /\ \A i, j \in 1..Len(cl) : i < j => cl[i].last < cl[j].first
    /\ ps.open # NoChunk =>
         /\ cm <= ps.open.first
         /\ ps.open.last < k
         /\ \A i \in 1..Len(cl) : cl[i].last < ps.open.first
    /\ \A o \in 0..(k - 1) :
         \/ StoredIn(L, R, p, o)
         \/ \E i \in 1..Len(cl) : Covers(cl[i], o)
         \/ ps.open # NoChunk /\ Covers(ps.open, o)

(* A fenced member has no claim on the committed offset. *)
Floor(m, p) == IF owner[p] = m THEN committed[p] ELSE 0

OwnersSound ==
    \A m \in Member : \A p \in Fetching(m) :
        OwnerSound(log[p], rows, p, applyRevocations(m, p), pos[m][p], Floor(m, p))

(***************************************************************************)
(* Nothing between what is committed and what was read can be skipped: the *)
(* chunks, the store and the group stay in step whoever crashes or is      *)
(* fenced.  This is the invariant that the proofs carry from step to step. *)
(***************************************************************************)
PipelineSound ==
    /\ CommittedStored
    /\ TablesInOrder
    /\ ChunksSound
    /\ StoreSound
    /\ GroupSound
    /\ OwnersSound

-----------------------------------------------------------------------------
(* Liveness. *)

(* A fetch of p that brings records. *)
Fetch(m, p) == PollRecords(m) /\ batch'[m][p] > 0

(* closeIdle finds p due. *)
CutIdle(m, p) == EndBatch(m) /\ p \in Idle(m) /\ parts'[m][p].open = NoChunk

(* The goroutine of Run, or the restart of its process, takes its next step. *)
LoopStep(m) ==
    \/ Start(m) \/ Exit(m)
    \/ PollRecords(m) \/ EndBatch(m) \/ EndBatchCancelled(m)
    \/ FlushDone(m) \/ RelieveDone(m) \/ FlushCancelled(m)
    \/ \E p \in Partition : AddRecord(m, p)

(***************************************************************************)
(* Every process keeps running its loop and is started again when it is    *)
(* down; the group coordinator hands out partitions and tells members what *)
(* they lost; a fetch of a partition with records behind the high          *)
(* watermark cannot come back empty for ever; the clock passes the end of  *)
(* a window; an insert that is retried for ever succeeds.                  *)
(***************************************************************************)
Fairness ==
    /\ \A m \in Member :
         /\ WF_vars(LoopStep(m))
         /\ WF_vars(\E p \in Partition, i \in 1..MaxLog : WriteTable(m, p, i))
         /\ WF_vars(NoticeLoss(m))
         /\ \A p \in Partition : SF_vars(Fetch(m, p)) /\ SF_vars(CutIdle(m, p))
    /\ \A p \in Partition : SF_vars(\E m \in Member : AssignPartition(m, p))

FairSpec == Spec /\ Fairness

(***************************************************************************)
(* Whatever is written to Kafka is eventually stored in every table it has *)
(* rows for, whichever members crash, are fenced, or fail to insert or to  *)
(* commit on the way.                                                      *)
(***************************************************************************)
EventuallyStored ==
    \A p \in Partition :
        (\E o \in 0..(End(p) - 1) : ~Stored(p, o)) ~> (\A o \in 0..(End(p) - 1) : Stored(p, o))
=============================================================================
