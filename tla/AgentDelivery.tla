---------------------------- MODULE AgentDelivery ----------------------------
(***************************************************************************)
(* The way of a payload through the infrastructure agent                   *)
(* (agents/infra/internal): the log manager reads batches of a file, the   *)
(* collectors make metric payloads, both are enqueued in the pipeline's    *)
(* memory queue, spill to the disk buffer when that is full or an export   *)
(* fails, and are sent by one exporter goroutine.  The log manager commits *)
(* the offset of a batch when the pipeline acknowledges it, saves it from  *)
(* time to time, and resumes from the saved offset.                        *)
(*                                                                         *)
(* Threads: "main" (collectors, and the shutdown of Agent.Run), "logs"     *)
(* (the log manager) and "export" (pipeline.run).  A step is a critical    *)
(* section of pipeline.mu or of buffer.mu, or the answer to a request;     *)
(* what a thread has taken from the queue and not yet written is in its    *)
(* hands, where no other thread sees it.                                   *)
(*                                                                         *)
(* A log batch is its number in the file, so that offset i is that of      *)
(* the batches 1..i; metric payloads have the numbers above.  Files of the *)
(* buffer survive a crash, everything in memory does not.                  *)
(***************************************************************************)
EXTENDS Integers, Sequences, FiniteSets, FiniteSetsExt

CONSTANTS
    Batches,        \* bound: batches in the log file
    Metrics,        \* bound: metric payloads collected
    Sizes,          \* possible sizes of the payloads
    MaxItems,       \* pipeline.maxItems
    MaxQueueBytes,  \* pipeline.maxBytes
    MaxBytes,       \* buffer.maxBytes
    MaxStops,       \* bound: shutdowns
    Faults,         \* the faults that may happen
    MaxFaults       \* bound: how many of them

Fault == {"crash", "torn", "lost", "reject", "write", "drop", "remove", "read", "save"}

Log == 1..Batches

Payload == 1..(Batches + Metrics)

ASSUME DeliveryAssumption ==
    /\ Batches \in Nat /\ Metrics \in Nat
    /\ Sizes \subseteq [Payload -> Nat \ {0}] /\ Sizes # {}
    /\ MaxItems \in Nat \ {0} /\ MaxQueueBytes \in Nat /\ MaxBytes \in Nat
    /\ MaxStops \in Nat /\ MaxFaults \in Nat
    /\ Faults \subseteq Fault

VARIABLES
    size,       \* of every payload
    life,       \* of the process: "up", "stopping", "draining", "cancelled", "closing", "down"
    seq,        \* buffer.seq
    queue,      \* pipeline.queue
    index,      \* buffer.entries
    files,      \* files in the buffer directory
    pc,         \* control point of every thread
    item,       \* what a producer is enqueueing
    hands,      \* what a thread is spilling
    peeked,     \* what step has peeked
    flight,     \* what is being sent
    wake,       \* pipeline.wake
    reads,      \* batches the log manager has read
    committed,  \* its offset in memory
    tried,      \* the offset at the last attempt to save it
    saved,      \* the offset in its state file
    collected,  \* metric payloads collected
    stops,      \* shutdowns so far
    faults,     \* faults so far
    received,   \* how often the ingest took each payload
    hist        \* what the properties look back on

producerVars == <<reads, committed, tried, saved, collected>>
bufferVars == <<index, files>>
worldVars == <<stops, faults, received>>
vars == <<size, life, seq, queue, bufferVars, pc, item, hands, peeked, flight, wake, producerVars, worldVars, hist>>

-----------------------------------------------------------------------------
Thread == {"main", "logs", "export"}

Producer == {"main", "logs"}

Item == [id : Payload, seq : Nat \ {0}]

None == [id |-> 0, seq |-> 0]

NoFlight == [what |-> None, memory |-> FALSE]

Hist == [acked : SUBSET Payload, dropped : SUBSET Payload, crashed : BOOLEAN, over : BOOLEAN]

TypeOK ==
    /\ size \in Sizes
    /\ life \in {"up", "stopping", "draining", "cancelled", "closing", "down"}
    /\ seq \in Nat
    /\ queue \in Seq(Item) /\ Len(queue) <= MaxItems
    /\ index \subseteq Item /\ files \subseteq Item
    /\ pc["main"] \in {"idle", "enqueue", "full", "spill", "close"}
    /\ pc["logs"] \in {"idle", "tick", "enqueue", "full", "spill"}
    /\ pc["export"] \in {"top", "pick", "send", "spill", "failed", "delay", "wait", "stopped"}
    /\ item \in [Producer -> Item \cup {None}]
    /\ hands \in [Thread -> Seq(Item)]
    /\ peeked \in Item \cup {None}
    /\ flight \in [what : Item \cup {None}, memory : BOOLEAN]
    /\ wake \in BOOLEAN
    /\ saved \in 0..tried /\ tried \in 0..committed /\ committed \in 0..reads /\ reads \in 0..Batches
    /\ collected \in 0..Metrics
    /\ stops \in 0..MaxStops /\ faults \in 0..MaxFaults
    /\ received \in [Payload -> Nat]
    /\ hist \in Hist

Init ==
    /\ size \in Sizes
    /\ life = "up"
    /\ seq = 0 /\ queue = <<>> /\ index = {} /\ files = {}
    /\ pc = [t \in Thread |-> IF t = "export" THEN "top" ELSE "idle"]
    /\ item = [t \in Producer |-> None]
    /\ hands = [t \in Thread |-> <<>>]
    /\ peeked = None /\ flight = NoFlight /\ wake = FALSE
    /\ reads = 0 /\ committed = 0 /\ tried = 0 /\ saved = 0 /\ collected = 0
    /\ stops = 0 /\ faults = 0
    /\ received = [i \in Payload |-> 0]
    /\ hist = [acked |-> {}, dropped |-> {}, crashed |-> FALSE, over |-> FALSE]

Possible(f, n) == f \in Faults /\ n < MaxFaults

Fails(f) == Possible(f, faults) /\ faults' = faults + 1

Draining == life \in {"draining", "cancelled", "closing"}

Cancelled == life = "cancelled"

-----------------------------------------------------------------------------
(* Payloads: their sizes, and what is said of one. *)

Used(items) == SumFunction([x \in items |-> size[x.id]])

QueueBytes == Used({queue[k] : k \in DOMAIN queue})

Oldest(items) == CHOOSE x \in items : \A y \in items : x.seq <= y.seq

Ids(items) == {x.id : x \in items}

(* The callback of a payload; of a log batch it raises the committed offset. *)
ack(i) ==
    /\ committed' = IF i \in Log THEN Max({committed, i}) ELSE committed
    /\ UNCHANGED <<reads, tried, saved, collected>>

Acked(h, i) == [h EXCEPT !.acked = @ \cup {i}]

Dropped(h, ids) == [h EXCEPT !.dropped = @ \cup ids]

-----------------------------------------------------------------------------
(* Collectors and log manager. *)

backlogged == index # {} \/ Len(queue) >= MaxItems \div 2

enqueueVars == <<life, bufferVars, peeked, flight, worldVars, hist>>

(* EnqueueAck: the sequence number. *)
Reserve(t, i) ==
    /\ seq' = seq + 1
    /\ item' = [item EXCEPT ![t] = [id |-> i, seq |-> seq + 1]]
    /\ pc' = [pc EXCEPT ![t] = "enqueue"]

Collect ==
    /\ life = "up"
    /\ pc["main"] = "idle"
    /\ collected < Metrics
    /\ collected' = collected + 1
    /\ Reserve("main", Batches + collected + 1)
    /\ UNCHANGED <<size, enqueueVars, queue, hands, wake, reads, committed, tried, saved>>

(* tick reads nothing while there is a backlog. *)
Tick ==
    /\ life = "up"
    /\ pc["logs"] = "idle"
    /\ reads < Batches
    /\ ~backlogged
    /\ pc' = [pc EXCEPT !["logs"] = "tick"]
    /\ UNCHANGED <<size, enqueueVars, seq, queue, item, hands, wake, producerVars>>

(* flush: a batch is full, or the tick or the run of the log manager ends. *)
Emit ==
    /\ pc["logs"] = "tick"
    /\ reads < Batches
    /\ reads' = reads + 1
    /\ Reserve("logs", reads + 1)
    /\ UNCHANGED <<size, enqueueVars, queue, hands, wake, committed, tried, saved, collected>>

EndTick ==
    /\ pc["logs"] = "tick"
    /\ pc' = [pc EXCEPT !["logs"] = "idle"]
    /\ UNCHANGED <<size, enqueueVars, seq, queue, item, hands, wake, producerVars>>

(* Manager.dirty: the offset changed since SaveState last cleared it, which it does before it writes. *)
dirty == tried # committed

(* SaveState: that the write fails is only logged. *)
WriteState ==
    \/ saved' = committed /\ UNCHANGED faults
    \/ Fails("save") /\ UNCHANGED saved

(* The log manager saves the offsets every few seconds. *)
SaveState ==
    /\ life \in {"up", "stopping"}
    /\ pc["logs"] = "idle"
    /\ saved # committed
    /\ WriteState
    /\ tried' = committed
    /\ UNCHANGED <<size, life, bufferVars, peeked, flight, stops, received, hist,
                   seq, queue, pc, item, hands, wake, reads, committed, collected>>

Room(x) == Len(queue) < MaxItems /\ QueueBytes + size[x.id] <= MaxQueueBytes

Done(t) == IF t = "logs" THEN "tick" ELSE "idle"

(* Mutant: the exporter is not notified. *)
Append1Silent(t) ==
    /\ pc[t] = "enqueue"
    /\ Room(item[t])
    /\ queue' = Append(queue, item[t])
    /\ item' = [item EXCEPT ![t] = None]
    /\ pc' = [pc EXCEPT ![t] = Done(t)]
    /\ UNCHANGED <<size, enqueueVars, seq, hands, wake, producerVars>>

(* EnqueueAck: there is room in the memory queue. *)
Append1(t) ==
    /\ pc[t] = "enqueue"
    /\ Room(item[t])
    /\ queue' = Append(queue, item[t])
    /\ item' = [item EXCEPT ![t] = None]
    /\ pc' = [pc EXCEPT ![t] = Done(t)]
    /\ wake' = TRUE
    /\ UNCHANGED <<size, enqueueVars, seq, hands, producerVars>>

QueueFull(t) ==
    /\ pc[t] = "enqueue"
    /\ ~Room(item[t])
    /\ pc' = [pc EXCEPT ![t] = "full"]
    /\ UNCHANGED <<size, enqueueVars, seq, queue, item, hands, wake, producerVars>>

(* spillAll takes the queue; the payload itself is spilled last. *)
TakeQueue(t) ==
    /\ pc[t] = "full"
    /\ hands' = [hands EXCEPT ![t] = Append(queue, item[t])]
    /\ queue' = <<>>
    /\ item' = [item EXCEPT ![t] = None]
    /\ pc' = [pc EXCEPT ![t] = "spill"]
    /\ UNCHANGED <<size, enqueueVars, seq, wake, producerVars>>

-----------------------------------------------------------------------------
(* The disk buffer. *)

(* Mutant: nothing is dropped. *)
ExcessNever(items) == {}

(* What PushSeq drops, oldest first, until the rest fits. *)
Excess(items) ==
    {x \in items : Used({y \in items : y.seq >= x.seq}) > MaxBytes}

(* What has been dropped at the moments of that. *)
PartlyDropped(items) == {{y \in Excess(items) : y.seq < x.seq} : x \in items}

(* PushSeq and its outcomes: too large, written, not written, written and an old file not removed. *)
PushSeq(x) ==
    \/ /\ size[x.id] > MaxBytes
       /\ hist' = Dropped(Acked(hist, x.id), {x.id})
       /\ UNCHANGED <<index, files, faults>>
    \/ /\ size[x.id] <= MaxBytes
       /\ LET all  == index \cup {x}
              over == Excess(all)
          IN  \/ /\ index' = all \ over
                 /\ files' = (files \cup {x}) \ over
                 /\ hist' = [Dropped(Acked(hist, x.id), Ids(over)) EXCEPT !.over = FALSE]
                 /\ UNCHANGED faults
              \/ /\ Fails("write")
                 /\ hist' = Dropped(Acked(hist, x.id), {x.id})
                 /\ UNCHANGED <<index, files>>
              \/ /\ Fails("drop")
                 /\ \E part \in PartlyDropped(all) \ {over} :
                      /\ index' = all \ part
                      /\ files' = (files \cup {x}) \ part
                      /\ hist' = [Dropped(Acked(hist, x.id), Ids(part)) EXCEPT !.over = TRUE]

(* spill: the next payload in the thread's hands is written and acknowledged. *)
Spill(t) ==
    /\ hands[t] # <<>>
    /\ PushSeq(Head(hands[t]))
    /\ ack(Head(hands[t]).id)
    /\ hands' = [hands EXCEPT ![t] = Tail(@)]
    /\ UNCHANGED <<size, life, seq, queue, pc, item, peeked, flight, wake, stops, received>>

Spilled(t) ==
    /\ t \in Producer
    /\ pc[t] = "spill"
    /\ hands[t] = <<>>
    /\ pc' = [pc EXCEPT ![t] = IF life = "closing" THEN "close" ELSE Done(t)]
    /\ wake' = TRUE
    /\ UNCHANGED <<size, enqueueVars, seq, queue, item, hands, producerVars>>

-----------------------------------------------------------------------------
(* The exporter goroutine. *)

exportVars == <<life, seq, item, producerVars, stops>>

Goto(label) == pc' = [pc EXCEPT !["export"] = label]

(* run: draining and nothing left in memory. *)
Drained ==
    /\ pc["export"] = "top"
    /\ Draining /\ queue = <<>>
    /\ Goto("stopped")
    /\ UNCHANGED <<size, exportVars, queue, bufferVars, hands, peeked, flight, wake, faults, received, hist>>

(* step: Peek; an entry that cannot be read is forgotten. *)
Peek ==
    /\ pc["export"] = "top"
    /\ ~(Draining /\ queue = <<>>)
    /\ \/ /\ peeked' = IF index = {} THEN None ELSE Oldest(index)
          /\ Goto("pick")
          /\ UNCHANGED <<index, faults, hist>>
       \/ /\ index # {}
          /\ Fails("read")
          /\ index' = index \ {Oldest(index)}
          /\ hist' = Dropped(hist, {Oldest(index).id})
          /\ UNCHANGED <<pc, peeked>>
    /\ UNCHANGED <<size, exportVars, queue, files, hands, flight, wake, received>>

(* step: the older one of the queue's head and the peeked entry. *)
MemoryFirst == queue # <<>> /\ (peeked = None \/ Head(queue).seq < peeked.seq)

(* Mutant: a payload is acknowledged when it leaves the queue. *)
PickMemoryAcks ==
    /\ pc["export"] = "pick"
    /\ MemoryFirst
    /\ flight' = [what |-> Head(queue), memory |-> TRUE]
    /\ queue' = Tail(queue)
    /\ peeked' = None
    /\ ack(Head(queue).id)
    /\ hist' = Acked(hist, Head(queue).id)
    /\ Goto("send")
    /\ UNCHANGED <<size, life, seq, item, stops, bufferVars, hands, wake, faults, received>>

PickMemory ==
    /\ pc["export"] = "pick"
    /\ MemoryFirst
    /\ flight' = [what |-> Head(queue), memory |-> TRUE]
    /\ queue' = Tail(queue)
    /\ peeked' = None
    /\ Goto("send")
    /\ UNCHANGED <<size, exportVars, bufferVars, hands, wake, faults, received, hist>>

PickDisk ==
    /\ pc["export"] = "pick"
    /\ ~MemoryFirst
    /\ peeked # None
    /\ flight' = [what |-> peeked, memory |-> FALSE]
    /\ peeked' = None
    /\ Goto("send")
    /\ UNCHANGED <<size, exportVars, queue, bufferVars, hands, wake, faults, received, hist>>

PickNothing ==
    /\ pc["export"] = "pick"
    /\ queue = <<>> /\ peeked = None
    /\ Goto(IF Cancelled THEN "stopped" ELSE "wait")
    /\ UNCHANGED <<size, exportVars, queue, bufferVars, hands, peeked, flight, wake, faults, received, hist>>

Sent == [received EXCEPT ![flight.what.id] = @ + 1]

(* A request is taken by the ingest and its answer lost; Send tries again or fails. *)
AnswerLost ==
    /\ pc["export"] = "send"
    /\ Fails("lost")
    /\ received' = Sent
    /\ UNCHANGED <<size, exportVars, queue, bufferVars, pc, hands, peeked, flight, wake, hist>>

(* Mutant: nothing is removed. *)
RemoveNothing(x, n) == faults' = n /\ UNCHANGED bufferVars

(* Remove, whose failure is only logged. *)
Remove(x, n) ==
    /\ index' = index \ {x}
    /\ \/ files' = files \ {x} /\ faults' = n
       \/ x \in files /\ Possible("remove", n) /\ faults' = n + 1 /\ UNCHANGED files

(* The payload in flight is done with, n faults so far: it is acknowledged or removed. *)
Settle(h, n) ==
    /\ IF flight.memory
       THEN /\ ack(flight.what.id)
            /\ hist' = Acked(h, flight.what.id)
            /\ faults' = n
            /\ UNCHANGED bufferVars
       ELSE Remove(flight.what, n) /\ hist' = h /\ UNCHANGED producerVars
    /\ flight' = NoFlight
    /\ Goto(IF Cancelled THEN "stopped" ELSE "top")

(* The ingest takes the payload. *)
Accept ==
    /\ pc["export"] = "send"
    /\ received' = Sent
    /\ Settle(hist, faults)
    /\ UNCHANGED <<size, life, seq, item, stops, queue, hands, peeked, wake>>

(* The ingest refuses the payload for good; a cancelled send is kept instead. *)
Rejected ==
    /\ pc["export"] = "send"
    /\ ~Cancelled
    /\ Possible("reject", faults)
    /\ Settle(Dropped(hist, {flight.what.id}), faults + 1)
    /\ UNCHANGED <<size, life, seq, item, stops, queue, hands, peeked, wake, received>>

(* Every attempt failed, or the send was cancelled: what was in memory goes to disk, the queue after it. *)
SendFails ==
    /\ pc["export"] = "send"
    /\ hands' = [hands EXCEPT !["export"] = IF flight.memory THEN <<flight.what>> ELSE <<>>]
    /\ Goto(IF flight.memory THEN "spill" ELSE "failed")
    /\ flight' = NoFlight
    /\ UNCHANGED <<size, exportVars, queue, bufferVars, peeked, wake, faults, received, hist>>

SpillRest ==
    /\ pc["export"] = "spill"
    /\ hands["export"] = <<>>
    /\ hands' = [hands EXCEPT !["export"] = queue]
    /\ queue' = <<>>
    /\ Goto("failed")
    /\ UNCHANGED <<size, exportVars, bufferVars, peeked, flight, wake, faults, received, hist>>

(* run: a failed step ends a draining exporter, else it waits for the retry delay. *)
Failed ==
    /\ pc["export"] = "failed"
    /\ hands["export"] = <<>>
    /\ Goto(IF Draining THEN "stopped" ELSE "delay")
    /\ UNCHANGED <<size, exportVars, queue, bufferVars, hands, peeked, flight, wake, faults, received, hist>>

(* run: the delay is over, or the shutdown cuts it short. *)
Retry ==
    /\ pc["export"] = "delay"
    /\ Goto(IF Cancelled THEN "stopped" ELSE "top")
    /\ UNCHANGED <<size, exportVars, queue, bufferVars, hands, peeked, flight, wake, faults, received, hist>>

(* run: nothing to do until a notification or the shutdown. *)
Wake ==
    /\ pc["export"] = "wait"
    /\ \/ wake /\ wake' = FALSE /\ Goto("top")
       \/ Draining /\ Goto(IF Cancelled THEN "stopped" ELSE "top") /\ UNCHANGED wake
    /\ UNCHANGED <<size, exportVars, queue, bufferVars, hands, peeked, flight, faults, received, hist>>

-----------------------------------------------------------------------------
(* The process. *)

lifeVars == <<seq, queue, bufferVars, item, peeked, flight, wake, faults, received, hist>>

(* Agent.Run: the context is cancelled. *)
Stop ==
    /\ life = "up"
    /\ stops < MaxStops
    /\ life' = "stopping" /\ stops' = stops + 1
    /\ UNCHANGED <<size, lifeVars, pc, hands, producerVars>>

(* Both producers have ended: the exporter drains the queue. *)
Drain ==
    /\ life = "stopping"
    /\ \A t \in Producer : pc[t] = "idle"
    /\ life' = "draining"
    /\ UNCHANGED <<size, lifeVars, pc, hands, producerVars, stops>>

(* The time for that is over. *)
CancelExport ==
    /\ life = "draining"
    /\ pc["export"] # "stopped"
    /\ life' = "cancelled"
    /\ UNCHANGED <<size, lifeVars, pc, hands, producerVars, stops>>

(* Mutant: what is still in memory is forgotten. *)
CloseForgets ==
    /\ life \in {"draining", "cancelled"}
    /\ pc["export"] = "stopped"
    /\ life' = "closing"
    /\ queue' = <<>>
    /\ pc' = [pc EXCEPT !["main"] = "spill"]
    /\ UNCHANGED <<size, seq, bufferVars, item, hands, peeked, flight, wake, faults, received, hist, producerVars, stops>>

(* What is still in memory is written. *)
Close ==
    /\ life \in {"draining", "cancelled"}
    /\ pc["export"] = "stopped"
    /\ life' = "closing"
    /\ hands' = [hands EXCEPT !["main"] = queue]
    /\ queue' = <<>>
    /\ pc' = [pc EXCEPT !["main"] = "spill"]
    /\ UNCHANGED <<size, seq, bufferVars, item, peeked, flight, wake, faults, received, hist, producerVars, stops>>

(* The process is gone. *)
Ended ==
    /\ life' = "down"
    /\ queue' = <<>> /\ index' = {}
    /\ pc' = [t \in Thread |-> IF t = "export" THEN "stopped" ELSE "idle"]
    /\ item' = [t \in Producer |-> None]
    /\ hands' = [t \in Thread |-> <<>>]
    /\ peeked' = None /\ flight' = NoFlight /\ wake' = FALSE

(***************************************************************************)
(* The last save of the offsets, and the end.  When nothing changed since  *)
(* the last attempt SaveState may return at once, although that attempt    *)
(* failed (only an agent younger than keepSavedFor writes all the same).   *)
(***************************************************************************)
Exit ==
    /\ life = "closing"
    /\ pc["main"] = "close"
    /\ Ended
    /\ WriteState \/ (~dirty /\ UNCHANGED <<saved, faults>>)
    /\ tried' = committed
    /\ UNCHANGED <<size, seq, files, reads, committed, collected, stops, received, hist>>

(* The process dies; perhaps a file was just written and older ones were making room for it. *)
Crash ==
    /\ life # "down"
    /\ Ended
    /\ \/ /\ Fails("crash")
          /\ hist' = [hist EXCEPT !.crashed = TRUE]
          /\ UNCHANGED files
       \/ /\ Fails("torn")
          /\ \E t \in Thread :
                /\ hands[t] # <<>>
                /\ size[Head(hands[t]).id] <= MaxBytes
                /\ \E part \in PartlyDropped(index \cup {Head(hands[t])}) :
                     /\ files' = (files \cup {Head(hands[t])}) \ part
                     /\ hist' = [Dropped(hist, Ids(part)) EXCEPT !.crashed = TRUE]
    /\ UNCHANGED <<size, seq, producerVars, stops, received>>

(* Open indexes the files; the log manager resumes from its saved offset. *)
Start ==
    /\ life = "down"
    /\ life' = "up"
    /\ Goto("top")
    /\ index' = files
    /\ seq' = IF files = {} THEN 0 ELSE Max({x.seq : x \in files})
    /\ reads' = saved /\ committed' = saved /\ tried' = saved
    /\ hist' = [hist EXCEPT !.over = Used(files) > MaxBytes]
    /\ UNCHANGED <<size, queue, files, item, hands, peeked, flight, wake, saved, collected, worldVars>>

Next ==
    \/ Collect \/ Tick \/ Emit \/ EndTick \/ SaveState
    \/ \E t \in Producer : Append1(t) \/ QueueFull(t) \/ TakeQueue(t) \/ Spilled(t)
    \/ \E t \in Thread : Spill(t)
    \/ Drained \/ Peek \/ PickMemory \/ PickDisk \/ PickNothing
    \/ AnswerLost \/ Accept \/ Rejected \/ SendFails \/ SpillRest \/ Failed \/ Retry \/ Wake
    \/ Stop \/ Drain \/ CancelExport \/ Close \/ Exit \/ Crash \/ Start

Spec == Init /\ [][Next]_vars

-----------------------------------------------------------------------------
(* Properties. *)

Settled(i) == received[i] > 0 \/ i \in Ids(files) \/ i \in hist.dropped

(***************************************************************************)
(* The callback of EnqueueAck runs only when the payload is no longer at   *)
(* risk: from then on it is received, in a file, or dropped for good,      *)
(* whatever crashes, failed writes and full buffers follow.                *)
(***************************************************************************)
AckedSafe == \A i \in hist.acked : Settled(i)

(***************************************************************************)
(* A shutdown without a crash loses nothing: once the agent is down, every *)
(* batch it read and every payload it collected is received, in a file or  *)
(* dropped.                                                                *)
(***************************************************************************)
ShutdownKeeps ==
    life = "down" /\ ~hist.crashed =>
        \A i \in 1..reads \cup {Batches + k : k \in 1..collected} : Settled(i)

(***************************************************************************)
(* The ingest gets a payload once, and once more for every fault at most:  *)
(* a crash, a lost answer, a file of the buffer that could not be removed, *)
(* or offsets that could not be saved.  A failed save of the log manager   *)
(* is only logged, and it also keeps a later clean shutdown from saving.   *)
(***************************************************************************)
DuplicatesExcused == \A i \in Payload : received[i] <= 1 + faults

(***************************************************************************)
(* The buffer stays within its limit, except after a crash or a failed     *)
(* removal between writing a file and dropping older ones.                 *)
(***************************************************************************)
BufferBounded == Used(index) <= MaxBytes \/ hist.over

(* The payload is somewhere in the memory of the running agent. *)
InMemory(i) ==
    \/ \E k \in DOMAIN queue : queue[k].id = i
    \/ \E t \in Thread : \E k \in DOMAIN hands[t] : hands[t][k].id = i
    \/ \E t \in Producer : item[t].id = i
    \/ flight.what.id = i

(***************************************************************************)
(* Delivery of logs is at least once: a batch before the saved offset is   *)
(* received, in a file, dropped, or still on its way.                      *)
(***************************************************************************)
LogsAtLeastOnce == \A i \in 1..saved : Settled(i) \/ InMemory(i)

-----------------------------------------------------------------------------
(***************************************************************************)
(* Goroutines run, the retry timer fires, the service manager restarts the *)
(* agent, and the ingest takes a payload that is sent again and again.     *)
(***************************************************************************)
Fairness ==
    /\ WF_vars(EndTick) /\ WF_vars(Start)
    /\ \A t \in Producer : WF_vars(Append1(t) \/ QueueFull(t) \/ TakeQueue(t) \/ Spilled(t) \/ Spill(t))
    /\ WF_vars(Drained \/ Peek \/ PickMemory \/ PickDisk \/ PickNothing \/ SendFails \/ Spill("export")
               \/ SpillRest \/ Failed \/ Retry \/ Wake)
    /\ SF_vars(Accept)
    /\ WF_vars(Drain) /\ WF_vars(Close) /\ WF_vars(Exit)

FairSpec == Spec /\ Fairness

(***************************************************************************)
(* No wake-up is lost and no payload is stuck: in the end the queue and    *)
(* the buffer are empty and nothing is on its way.                         *)
(***************************************************************************)
EventuallyDrained ==
    <>[](/\ queue = <<>> /\ index = {} /\ flight = NoFlight
         /\ \A t \in Thread : hands[t] = <<>>)
=============================================================================
