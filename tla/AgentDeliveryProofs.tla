------------------------ MODULE AgentDeliveryProofs ------------------------
(***************************************************************************)
(* Proofs about AgentDelivery, for every number of batches, every size of  *)
(* the queue and of the buffer, and any number of faults.                  *)
(*                                                                         *)
(* The argument looks at the copies of a payload.  A copy is the pair of   *)
(* its number and its sequence number; it is held by one place of memory   *)
(* (the queue or a thread) or lies on disk.  Every action adds one copy,   *)
(* moves copies, writes or removes one, or forgets memory; these are the   *)
(* effects below, and each part of the invariant is shown per effect.      *)
(***************************************************************************)
EXTENDS AgentDelivery, FiniteSetTheorems, WellFoundedInduction, TLAPS

-----------------------------------------------------------------------------
(* Where the copies are. *)

Place == {"queue"} \cup Thread

Sending == IF flight.memory = TRUE THEN {flight.what} ELSE {}

Hold(p) ==
    IF p = "queue" THEN Range(queue)
    ELSE IF p = "export" THEN Range(hands[p]) \cup Sending
    ELSE Range(hands[p]) \cup ({item[p]} \ {None})

Held(i) == \E p \in Place : \E x \in Hold(p) : x.id = i

Disk == files \cup ({peeked} \ {None}) \cup (({flight.what} \ {None}) \ Sending)

Copies == {x \in Item : (\E p \in Place : x \in Hold(p)) \/ x \in Disk}

CopiesOf(i) == {x \in Copies : x.id = i}

(* The last attempt to save the offsets failed, and there is no reason for the next one. *)
Stale == tried = committed /\ saved # committed

(* How often the log manager or a collector may still produce the payload without a further fault. *)
Due(i) ==
    IF i \notin Log THEN (IF i > Batches + collected THEN 1 ELSE 0)
    ELSE IF life = "down" THEN (IF i > saved THEN 1 ELSE 0)
    ELSE (IF i > reads THEN 1 ELSE 0) + (IF Stale /\ i > saved THEN 1 ELSE 0)

-----------------------------------------------------------------------------
(* The inductive invariant. *)

Label == {"idle", "tick", "enqueue", "full", "spill", "close", "top", "pick", "send", "failed",
          "delay", "wait", "stopped"}

(* The control point of a thread determines what is in its hands, that of the process which threads run. *)
Shape ==
    /\ pc \in [Thread -> Label]
    /\ \A t \in Producer :
          /\ pc[t] \in {"enqueue", "full"} => item[t] \in Item
          /\ pc[t] \notin {"enqueue", "full"} => item[t] = None
    /\ \A t \in Thread : pc[t] # "spill" /\ ~(t = "export" /\ pc[t] = "failed") => hands[t] = <<>>
    /\ pc["export"] = "send" => flight.what \in Item
    /\ pc["export"] # "send" => flight = NoFlight
    /\ pc["export"] # "pick" => peeked = None
    /\ life \in {"draining", "cancelled", "closing", "down"} => pc["logs"] = "idle"
    /\ life \in {"draining", "cancelled", "down"} => pc["main"] = "idle"
    /\ life = "closing" => pc["main"] \in {"spill", "close"}
    /\ pc["main"] = "close" => life = "closing"
    /\ life \in {"closing", "down"} => queue = <<>> /\ pc["export"] = "stopped"
    /\ index \subseteq files

(* Sequence numbers and payload numbers in use have been given out. *)
Numbered ==
    /\ \A x \in Copies : x.seq <= seq
    /\ \A p \in Place : \A x \in Hold(p) : x.id \in Log => x.id <= reads

(* A copy is in one place, once. *)
Apart ==
    /\ \A p, q \in Place : p # q => Hold(p) \cap Hold(q) = {}
    /\ \A p \in Place : Hold(p) \cap Disk = {}

NoRepeats ==
    /\ IsInjective(queue)
    /\ \A t \in Thread : IsInjective(hands[t])

(* The batch that was read last is acknowledged, or held. *)
LastHeld == life # "down" => committed = reads \/ Held(reads)

(* As long as nothing crashed, what was produced is settled or held. *)
Kept ==
    hist.crashed = FALSE =>
        \A i \in 1..reads \cup {Batches + k : k \in 1..collected} : Settled(i) \/ Held(i)

(* What was received of a payload, its copies and its further productions are at most one more than the faults. *)
Counted ==
    /\ IsFiniteSet(Copies)
    /\ \A i \in Payload :
          Cardinality(CopiesOf(i)) + received[i] + Due(i) <= 1 + faults

IInv ==
    /\ TypeOK /\ Shape /\ Numbered /\ Apart /\ NoRepeats
    /\ AckedSafe /\ LastHeld /\ Kept /\ Counted

-----------------------------------------------------------------------------
(* Sequences. *)

(* The contents of the empty sequence, of a longer one, of a shorter one. *)
LEMMA RangeEmpty == Range(<<>>) = {} /\ IsInjective(<<>>)
  BY DEF Range, IsInjective

LEMMA RangeSub ==
  ASSUME NEW s \in Seq(Item)
  PROVE  Range(s) \subseteq Item
  BY DEF Range

LEMMA RangeAppend ==
  ASSUME NEW s \in Seq(Item), NEW x \in Item
  PROVE  /\ Append(s, x) \in Seq(Item)
         /\ Range(Append(s, x)) = Range(s) \cup {x}
         /\ IsInjective(s) /\ x \notin Range(s) => IsInjective(Append(s, x))
<1> DEFINE a == Append(s, x)
<1>1. a \in Seq(Item) /\ Len(a) = Len(s) + 1 /\ a[Len(s) + 1] = x /\ \A k \in 1..Len(s) : a[k] = s[k]
  OBVIOUS
<1>2. DOMAIN a = 1..(Len(s) + 1) /\ DOMAIN s = 1..Len(s) /\ Len(s) \in Nat
  BY <1>1
<1>3. Range(a) = Range(s) \cup {x}
  BY <1>1, <1>2 DEF Range
<1>4. ASSUME IsInjective(s), x \notin Range(s)
      PROVE  IsInjective(a)
  BY <1>1, <1>2, <1>4 DEF Range, IsInjective
<1> QED
  BY <1>1, <1>3, <1>4

LEMMA RangeTail ==
  ASSUME NEW s \in Seq(Item), s # <<>>
  PROVE  /\ Head(s) \in Range(s) /\ Head(s) \in Item /\ Tail(s) \in Seq(Item)
         /\ Len(Tail(s)) < Len(s)
         /\ IsInjective(s) => Range(Tail(s)) = Range(s) \ {Head(s)} /\ IsInjective(Tail(s))
<1> DEFINE b == Tail(s)
<1>1. /\ b \in Seq(Item) /\ Len(b) = Len(s) - 1 /\ Len(s) \in Nat /\ Len(s) > 0
      /\ DOMAIN b = 1..(Len(s) - 1) /\ DOMAIN s = 1..Len(s)
      /\ \A k \in 1..(Len(s) - 1) : b[k] = s[k + 1]
      /\ Head(s) = s[1] /\ Head(s) \in Item
  OBVIOUS
<1>2. Head(s) \in Range(s)
  BY <1>1 DEF Range
<1>3. ASSUME IsInjective(s)
      PROVE  Range(b) = Range(s) \ {Head(s)} /\ IsInjective(b)
  <2>1. IsInjective(b)
    BY <1>1, <1>3 DEF IsInjective
  <2>2. ASSUME NEW y \in Range(b) PROVE y \in Range(s) \ {Head(s)}
    <3>1. PICK k \in DOMAIN b : b[k] = y
      BY <2>2 DEF Range
    <3>2. k + 1 \in DOMAIN s /\ k + 1 # 1 /\ 1 \in DOMAIN s /\ s[k + 1] = y
      BY <3>1, <1>1
    <3> QED
      BY <3>2, <1>1, <1>3 DEF Range, IsInjective
  <2>3. ASSUME NEW y \in Range(s), y # Head(s) PROVE y \in Range(b)
    <3>1. PICK k \in DOMAIN s : s[k] = y
      BY <2>3 DEF Range
    <3>2. k - 1 \in DOMAIN b /\ b[k - 1] = y
      BY <3>1, <2>3, <1>1
    <3> QED
      BY <3>2 DEF Range
  <2> QED
    BY <2>1, <2>2, <2>3
<1> QED
  BY <1>1, <1>2, <1>3

LEMMA RangeOne ==
  ASSUME NEW x \in Item
  PROVE  <<x>> \in Seq(Item) /\ Range(<<x>>) = {x} /\ IsInjective(<<x>>)
  BY DEF Range, IsInjective

(* The larger of two numbers. *)
LEMMA MaxOfTwo ==
  ASSUME NEW a \in Nat, NEW b \in Nat
  PROVE  Max({a, b}) = IF a >= b THEN a ELSE b
<1>1. CASE a >= b
  BY <1>1 DEF Max
<1>2. CASE ~(a >= b)
  BY <1>2 DEF Max
<1> QED
  BY <1>1, <1>2

(* A bounded set of numbers has a largest one. *)
LEMMA MaxExists ==
  ASSUME NEW S, S \subseteq Nat, S # {}, NEW b \in Nat, \A y \in S : y <= b
  PROVE  Max(S) \in S /\ \A y \in S : y <= Max(S)
<1> DEFINE T == {n \in Nat : \A y \in S : y <= n}
<1>1. T \subseteq Nat /\ T # {}
  OBVIOUS
<1> HIDE DEF T
<1>2. PICK m \in T : \A y \in T : ~ (<<y, m>> \in OpToRel(<, Nat))
  BY <1>1, NatLessThanWellFounded, WFMin
<1>3. m \in Nat /\ \A y \in S : y <= m
  BY <1>2 DEF T
<1>4. ASSUME m \notin S PROVE FALSE
  <2>0. PICK z \in S : z \in Nat /\ z <= m /\ z # m
    BY <1>3, <1>4
  <2>1. m # 0
    BY <1>3, <2>0
  <2>2. m - 1 \in Nat /\ \A y \in S : y <= m - 1
    BY <1>3, <1>4, <2>1
  <2>3. m - 1 \in T
    BY <2>2 DEF T
  <2>4. <<m - 1, m>> \in OpToRel(<, Nat)
    BY <1>3, <2>2 DEF OpToRel
  <2> QED
    BY <1>2, <2>3, <2>4
<1>5. \E x \in S : \A y \in S : x >= y
  BY <1>3, <1>4
<1>6. Max(S) \in S /\ \A y \in S : Max(S) >= y
  BY <1>5 DEF Max
<1> QED
  BY <1>6

-----------------------------------------------------------------------------
(* Type correctness and shape. *)

(* What the buffer drops was in it. *)
LEMMA ExcessInside == \A S : Excess(S) \subseteq S /\ \A part \in PartlyDropped(S) : part \subseteq S
  BY DEF Excess, PartlyDropped

(* An acknowledgement moves the committed offset up to a batch that was read. *)
LEMMA AckTyped ==
  ASSUME committed \in Nat, NEW i, i \in Log => i \in Nat, ack(i)
  PROVE  /\ committed' \in Nat /\ committed <= committed'
         /\ i \in Log => i <= committed'
         /\ committed' = committed \/ (i \in Log /\ committed' = i)
         /\ UNCHANGED <<reads, tried, saved, collected>>
<1>1. CASE i \in Log
  BY <1>1, MaxOfTwo DEF ack
<1>2. CASE i \notin Log
  BY <1>2 DEF ack
<1> QED
  BY <1>1, <1>2

(* The payload that a producer reserves. *)
LEMMA Reserved ==
  ASSUME TypeOK, Collect \/ Emit
  PROVE  /\ Collect => [id |-> Batches + collected + 1, seq |-> seq + 1] \in Item
         /\ Emit => [id |-> reads + 1, seq |-> seq + 1] \in Item
  BY DeliveryAssumption, SMTT(30) DEF TypeOK, Collect, Emit, Item, Payload

(* What the history is after an acknowledgement and after a loss. *)
LEMMA HistFields ==
  ASSUME NEW h \in Hist, NEW i \in Payload, NEW S \in SUBSET Payload
  PROVE  /\ Acked(h, i) \in Hist /\ Acked(h, i).acked = h.acked \cup {i}
         /\ Acked(h, i).dropped = h.dropped /\ Acked(h, i).crashed = h.crashed
         /\ Dropped(h, S) \in Hist /\ Dropped(h, S).dropped = h.dropped \cup S
         /\ Dropped(h, S).acked = h.acked /\ Dropped(h, S).crashed = h.crashed
  BY DEF Acked, Dropped, Hist

LEMMA HistOver ==
  ASSUME NEW h \in Hist, NEW b \in BOOLEAN
  PROVE  LET g == [h EXCEPT !.over = b]
         IN  g \in Hist /\ g.acked = h.acked /\ g.dropped = h.dropped /\ g.crashed = h.crashed
  BY DEF Hist

(* What the history is after a payload was acknowledged and some were lost. *)
LEMMA HistPushed ==
  ASSUME hist \in Hist, NEW i \in Payload, NEW S \in SUBSET Payload
  PROVE  LET h == Dropped(Acked(hist, i), S)
         IN  /\ h \in Hist /\ h.acked = hist.acked \cup {i} /\ h.dropped = hist.dropped \cup S
             /\ h.crashed = hist.crashed
<1> DEFINE a == Acked(hist, i)
<1>1. a \in Hist /\ a.acked = hist.acked \cup {i} /\ a.dropped = hist.dropped /\ a.crashed = hist.crashed
  BY HistFields
<1> HIDE DEF a
<1>2. /\ Dropped(a, S) \in Hist /\ Dropped(a, S).dropped = a.dropped \cup S
      /\ Dropped(a, S).acked = a.acked /\ Dropped(a, S).crashed = a.crashed
  BY <1>1, HistFields
<1> QED
  BY <1>1, <1>2 DEF a

LEMMA ShapeStep ==
  ASSUME TypeOK, Shape, Next
  PROVE  Shape'
<1> USE DEF Thread, Producer, bufferVars, producerVars, worldVars, enqueueVars, exportVars, lifeVars
<1>1. CASE Collect
  BY <1>1, Reserved DEF Shape, TypeOK, Collect, Reserve, Label
<1>2. CASE Tick
  BY <1>2 DEF Shape, TypeOK, Tick, Label
<1>3. CASE Emit
  BY <1>3, Reserved DEF Shape, TypeOK, Emit, Reserve, Label
<1>4. CASE EndTick
  BY <1>4 DEF Shape, TypeOK, EndTick, Label
<1>5. CASE SaveState
  BY <1>5 DEF Shape, TypeOK, SaveState, WriteState, Label
<1>6. ASSUME NEW t \in Producer, Append1(t) PROVE Shape'
  BY <1>6 DEF Shape, TypeOK, Append1, Done, Label
<1>7. ASSUME NEW t \in Producer, QueueFull(t) PROVE Shape'
  BY <1>7 DEF Shape, TypeOK, QueueFull, Label
<1>8. ASSUME NEW t \in Producer, TakeQueue(t) PROVE Shape'
  BY <1>8 DEF Shape, TypeOK, TakeQueue, Label
<1>9. ASSUME NEW t \in Producer, Spilled(t) PROVE Shape'
  BY <1>9 DEF Shape, TypeOK, Spilled, Done, Label
<1>10. ASSUME NEW t \in Thread, Spill(t) PROVE Shape'
  <2>1. hands[t] # <<>> /\ hands' = [hands EXCEPT ![t] = Tail(@)] /\ hands \in [Thread -> Seq(Item)]
    BY <1>10 DEF Spill, TypeOK
  <2>2. UNCHANGED <<life, queue, pc, item, peeked, flight>>
    BY <1>10 DEF Spill
  <2>3. \A u \in Thread : pc'[u] # "spill" /\ ~(u = "export" /\ pc'[u] = "failed") => hands'[u] = <<>>
    BY <2>1, <2>2 DEF Shape
  <2>4. index' \subseteq files'
    BY <1>10 DEF Shape, Spill, PushSeq
  <2> QED
    BY <2>2, <2>3, <2>4 DEF Shape
<1>11. CASE Drained
  BY <1>11 DEF Shape, TypeOK, Drained, Goto, Label
<1>12. CASE Peek
  <2>1. /\ UNCHANGED <<life, queue, item, hands, flight, files>> /\ index' \subseteq index
        /\ peeked' = peeked \/ pc'["export"] = "pick"
        /\ pc' = pc \/ pc' = [pc EXCEPT !["export"] = "pick"]
        /\ pc["export"] = "top" /\ life \notin {"closing", "down"}
    BY <1>12 DEF Shape, Peek, Goto
  <2> QED
    BY <2>1 DEF Shape, Label
<1>13. CASE PickMemory
  BY <1>13, RangeTail DEF Shape, TypeOK, PickMemory, Goto, Label, MemoryFirst
<1>14. CASE PickDisk
  BY <1>14 DEF Shape, TypeOK, PickDisk, Goto, Label
<1>15. CASE PickNothing
  BY <1>15 DEF Shape, TypeOK, PickNothing, Goto, Label
<1>16. CASE AnswerLost
  BY <1>16 DEF Shape, TypeOK, AnswerLost, Fails, Possible, Sent, Label
<1>17. CASE Accept
  BY <1>17 DEF Shape, TypeOK, Accept, Settle, Sent, Remove, Possible, ack, Acked, Goto, NoFlight, Label
<1>18. CASE Rejected
  BY <1>18 DEF Shape, TypeOK, Rejected, Settle, Remove, Possible, ack, Acked, Dropped, Goto, NoFlight, Label
<1>19. CASE SendFails
  BY <1>19 DEF Shape, TypeOK, SendFails, Goto, NoFlight, Label
<1>20. CASE SpillRest
  BY <1>20 DEF Shape, TypeOK, SpillRest, Goto, Label
<1>21. CASE Failed
  BY <1>21 DEF Shape, TypeOK, Failed, Goto, Label
<1>22. CASE Retry
  BY <1>22 DEF Shape, TypeOK, Retry, Goto, Label
<1>23. CASE Wake
  BY <1>23 DEF Shape, TypeOK, Wake, Goto, Label
<1>24. CASE Stop
  BY <1>24 DEF Shape, TypeOK, Stop, Label
<1>25. CASE Drain
  BY <1>25 DEF Shape, TypeOK, Drain, Label
<1>26. CASE CancelExport
  BY <1>26 DEF Shape, TypeOK, CancelExport, Label
<1>27. CASE Close
  BY <1>27 DEF Shape, TypeOK, Close, Label
<1>28. CASE Exit
  BY <1>28 DEF Shape, TypeOK, Exit, Ended, NoFlight, Label
<1>29. CASE Crash
  BY <1>29 DEF Shape, TypeOK, Crash, Ended, NoFlight, Fails, Possible, Dropped, Label
<1>30. CASE Start
  BY <1>30 DEF Shape, TypeOK, Start, Goto, Label
<1> QED
  BY <1>1, <1>2, <1>3, <1>4, <1>5, <1>6, <1>7, <1>8, <1>9, <1>10, <1>11, <1>12, <1>13, <1>14, <1>15, <1>16,
     <1>17, <1>18, <1>19, <1>20, <1>21, <1>22, <1>23, <1>24, <1>25, <1>26, <1>27, <1>28, <1>29, <1>30 DEF Next

(* The oldest of some payloads is one of them. *)
LEMMA OldestInside ==
  ASSUME NEW S \in SUBSET Item, S # {}
  PROVE  Oldest(S) \in S
<1> DEFINE T == {x.seq : x \in S}
<1>1. T \subseteq Nat /\ T # {}
  BY DEF Item
<1>2. PICK m \in T : \A y \in T : ~ (<<y, m>> \in OpToRel(<, Nat))
  BY <1>1, NatLessThanWellFounded, WFMin
<1>3. m \in Nat /\ \A y \in T : y \in Nat /\ ~(y < m)
  BY <1>1, <1>2 DEF OpToRel
<1>4. PICK x \in S : x.seq = m
  OBVIOUS
<1>5. \A y \in S : y.seq \in T
  OBVIOUS
<1> HIDE DEF T
<1>6. ASSUME NEW y \in S PROVE x.seq <= y.seq
  <2>1. y.seq \in T
    BY <1>5
  <2>2. y.seq \in Nat /\ ~(y.seq < m)
    BY <1>3, <2>1
  <2> QED
    BY <1>3, <1>4, <2>2
<1> QED
  BY <1>6 DEF Oldest

LEMMA NoFlightTyped == NoFlight \in [what : Item \cup {None}, memory : BOOLEAN]
  BY DEF NoFlight

(* Nothing is left in the memory of a process that ended. *)
LEMMA EndedTyped ==
  ASSUME Ended
  PROVE  /\ life' = "down" /\ queue' = <<>> /\ index' = {}
         /\ queue' \in Seq(Item) /\ Len(queue') <= MaxItems
         /\ pc'["main"] = "idle" /\ pc'["logs"] = "idle" /\ pc'["export"] = "stopped"
         /\ item' \in [Producer -> Item \cup {None}] /\ hands' \in [Thread -> Seq(Item)]
         /\ \A t \in Thread : hands'[t] = <<>>
         /\ \A t \in Producer : item'[t] = None
         /\ peeked' = None /\ flight' = NoFlight /\ wake' \in BOOLEAN
<1>1. queue' = <<>> /\ wake' \in BOOLEAN /\ peeked' = None /\ flight' = NoFlight /\ life' = "down" /\ index' = {}
  BY DEF Ended
<1>2. queue' \in Seq(Item) /\ Len(queue') <= MaxItems
  BY <1>1, DeliveryAssumption
<1>3. /\ pc'["main"] = "idle" /\ pc'["logs"] = "idle" /\ pc'["export"] = "stopped"
      /\ item' \in [Producer -> Item \cup {None}] /\ hands' \in [Thread -> Seq(Item)]
      /\ \A t \in Thread : hands'[t] = <<>>
      /\ \A t \in Producer : item'[t] = None
  BY DEF Ended, Thread, Producer
<1> QED
  BY <1>1, <1>2, <1>3

(* What a write to the buffer may leave. *)
LEMMA PushTyped ==
  ASSUME TypeOK, NEW x \in Item, PushSeq(x)
  PROVE  /\ index' \subseteq Item /\ files' \subseteq Item /\ faults' \in 0..MaxFaults
         /\ hist' \in Hist
         /\ faults <= faults'
         /\ files' \subseteq files \cup {x}
         /\ \A y \in files \cup {x} : y \in files' \/ y.id \in hist'.dropped
         /\ hist.dropped \subseteq hist'.dropped
         /\ hist'.acked = hist.acked \cup {x.id} /\ hist'.crashed = hist.crashed
<1> DEFINE all == index \cup {x}
<1>0. x.id \in Payload /\ {x.id} \in SUBSET Payload /\ all \subseteq Item /\ faults \in Nat /\ MaxFaults \in Nat
  BY DeliveryAssumption DEF TypeOK, Item
<1>1. \A S \in SUBSET all : Ids(S) \in SUBSET Payload /\ \A y \in S : y.id \in Ids(S)
  BY <1>0 DEF Ids, Item
<1>2. \A part \in PartlyDropped(all) \cup {Excess(all)} : part \subseteq all
  BY ExcessInside
<1>3. CASE UNCHANGED <<index, files>> /\ hist' = Dropped(Acked(hist, x.id), {x.id}) /\ (UNCHANGED faults \/ Fails("write"))
  <2>1. /\ hist' \in Hist
        /\ hist'.acked = hist.acked \cup {x.id} /\ hist'.dropped = hist.dropped \cup {x.id}
        /\ hist'.crashed = hist.crashed
    BY <1>0, <1>3, HistPushed DEF TypeOK
  <2>2. faults' \in 0..MaxFaults /\ faults <= faults' /\ index' \subseteq Item /\ files' \subseteq Item /\ files' = files
    BY <1>0, <1>3 DEF TypeOK, Fails, Possible
  <2> QED
    BY <2>1, <2>2
<1>4. ASSUME NEW part \in PartlyDropped(all) \cup {Excess(all)}, NEW b \in BOOLEAN,
             index' = all \ part, files' = (files \cup {x}) \ part,
             hist' = [Dropped(Acked(hist, x.id), Ids(part)) EXCEPT !.over = b],
             UNCHANGED faults \/ Fails("drop")
      PROVE  /\ index' \subseteq Item /\ files' \subseteq Item /\ faults' \in 0..MaxFaults
             /\ hist' \in Hist
             /\ faults <= faults'
             /\ files' \subseteq files \cup {x}
             /\ \A y \in files \cup {x} : y \in files' \/ y.id \in hist'.dropped
             /\ hist.dropped \subseteq hist'.dropped
             /\ hist'.acked = hist.acked \cup {x.id} /\ hist'.crashed = hist.crashed
  <2>1. part \subseteq all /\ Ids(part) \in SUBSET Payload /\ \A y \in part : y.id \in Ids(part)
    BY <1>1, <1>2, <1>4
  <2>2. /\ hist' \in Hist
        /\ hist'.acked = hist.acked \cup {x.id} /\ hist'.dropped = hist.dropped \cup Ids(part)
        /\ hist'.crashed = hist.crashed
    <3> DEFINE h == Dropped(Acked(hist, x.id), Ids(part))
    <3>1. /\ h \in Hist /\ h.acked = hist.acked \cup {x.id} /\ h.dropped = hist.dropped \cup Ids(part)
          /\ h.crashed = hist.crashed
      BY <1>0, <2>1, HistPushed DEF TypeOK
    <3> HIDE DEF h
    <3> QED
      BY <1>4, <3>1, HistOver DEF h
  <2>3. faults' \in 0..MaxFaults /\ faults <= faults'
    BY <1>0, <1>4 DEF TypeOK, Fails, Possible
  <2>4. index' \subseteq Item /\ files' \subseteq Item
    BY <1>0, <1>4 DEF TypeOK
  <2> QED
    BY <1>4, <2>1, <2>2, <2>3, <2>4
<1> HIDE DEF all
<1>5. CASE size[x.id] > MaxBytes
  <2>1. size[x.id] \in Nat /\ MaxBytes \in Nat /\ ~(size[x.id] <= MaxBytes)
    BY <1>0, <1>5, DeliveryAssumption DEF TypeOK
  <2>2. hist' = Dropped(Acked(hist, x.id), {x.id}) /\ UNCHANGED <<index, files, faults>>
    BY <2>1 DEF PushSeq
  <2> QED
    BY <1>3, <2>2
<1>6. CASE size[x.id] <= MaxBytes
  <2>0. size[x.id] \in Nat /\ MaxBytes \in Nat /\ ~(size[x.id] > MaxBytes)
    BY <1>6, <1>0, DeliveryAssumption DEF TypeOK
  <2>1. \/ /\ index' = all \ Excess(all)
           /\ files' = (files \cup {x}) \ Excess(all)
           /\ hist' = [Dropped(Acked(hist, x.id), Ids(Excess(all))) EXCEPT !.over = FALSE]
           /\ UNCHANGED faults
        \/ /\ Fails("write")
           /\ hist' = Dropped(Acked(hist, x.id), {x.id})
           /\ UNCHANGED <<index, files>>
        \/ /\ Fails("drop")
           /\ \E part \in PartlyDropped(all) \ {Excess(all)} :
                /\ index' = all \ part
                /\ files' = (files \cup {x}) \ part
                /\ hist' = [Dropped(Acked(hist, x.id), Ids(part)) EXCEPT !.over = TRUE]
    BY <2>0 DEF PushSeq, all
  <2> QED
    BY <2>1, <1>3, <1>4
<1> QED
  BY <1>5, <1>6, <1>0, DeliveryAssumption DEF PushSeq

(* The end of a request, taken or refused. *)
LEMMA SettleTyped ==
  ASSUME TypeOK, Shape, Numbered, Accept \/ Rejected
  PROVE  /\ index' \subseteq Item /\ files' \subseteq Item /\ faults' \in 0..MaxFaults /\ faults <= faults'
         /\ hist' \in Hist
         /\ committed' \in 0..reads' /\ saved' \in 0..tried' /\ tried' \in 0..committed' /\ reads' = reads /\ collected' = collected
         /\ committed <= committed'
<1> DEFINE x == flight.what
<1>1. x \in Item /\ x.id \in Payload /\ {x.id} \in SUBSET Payload /\ MaxFaults \in Nat /\ faults \in 0..MaxFaults
  BY DeliveryAssumption DEF Shape, Accept, Rejected, Item, TypeOK
<1>2. PICK h, n : /\ Settle(h, n)
                  /\ \/ h = hist /\ n = faults
                     \/ h = Dropped(hist, {x.id}) /\ n = faults + 1 /\ Possible("reject", faults)
  <2>1. CASE Accept
    <3>1. Settle(hist, faults)
      BY <2>1 DEF Accept
    <3> QED
      BY <3>1
  <2>2. CASE Rejected
    <3>1. Settle(Dropped(hist, {x.id}), faults + 1) /\ Possible("reject", faults)
      BY <2>2 DEF Rejected
    <3> QED
      BY <3>1
  <2> QED
    BY <2>1, <2>2
<1>3. h \in Hist /\ n \in 0..MaxFaults /\ faults <= n
  <2>1. /\ Dropped(hist, {x.id}) \in Hist
        /\ hist \in Hist
    BY <1>1 DEF TypeOK, Dropped, Hist
  <2> QED
    BY <1>1, <1>2, <2>1 DEF Possible
<1>4. CASE flight.memory = TRUE
  <2>1. x \in Hold("export") /\ (x.id \in Log => x.id <= reads)
    BY <1>4 DEF Hold, Sending, Numbered, Place, Thread
  <2>2. ack(x.id) /\ hist' = Acked(h, x.id) /\ faults' = n /\ UNCHANGED <<index, files>>
    BY <1>2, <1>4 DEF Settle, bufferVars
  <2>3. hist' \in Hist
    BY <1>1, <1>3, <2>2 DEF Acked, Hist
  <2>4. /\ committed' \in 0..reads' /\ saved' \in 0..tried' /\ tried' \in 0..committed' /\ reads' = reads /\ collected' = collected
        /\ committed <= committed'
    BY <1>1, <2>1, <2>2, AckTyped DEF TypeOK, Payload
  <2> QED
    BY <1>3, <2>2, <2>3, <2>4 DEF TypeOK
<1>5. CASE flight.memory = FALSE
  <2>1. Remove(x, n) /\ hist' = h /\ UNCHANGED producerVars
    BY <1>2, <1>5 DEF Settle
  <2> QED
    BY <1>1, <1>3, <2>1 DEF Remove, Possible, producerVars, TypeOK
<1> QED
  BY <1>4, <1>5 DEF TypeOK

(* A crash leaves the files, or all but some that were making room for one more. *)
LEMMA CrashTyped ==
  ASSUME TypeOK, Crash
  PROVE  /\ files' \subseteq Item
         /\ hist' \in Hist
         /\ hist'.crashed = TRUE /\ hist'.acked = hist.acked
         /\ hist.dropped \subseteq hist'.dropped
         /\ \A y \in files : y \in files' \/ y.id \in hist'.dropped
         /\ files' = files \/ \E t \in Thread : hands[t] # <<>> /\ files' \subseteq files \cup {Head(hands[t])}
<1>0. hist \in Hist /\ files \subseteq Item /\ index \subseteq Item
  BY DEF TypeOK
<1>1. CASE hist' = [hist EXCEPT !.crashed = TRUE] /\ UNCHANGED files
  BY <1>0, <1>1 DEF Hist
<1>2. ASSUME NEW t \in Thread, hands[t] # <<>>,
             NEW part \in PartlyDropped(index \cup {Head(hands[t])}),
             files' = (files \cup {Head(hands[t])}) \ part,
             hist' = [Dropped(hist, Ids(part)) EXCEPT !.crashed = TRUE]
      PROVE  /\ files' \subseteq Item /\ hist' \in Hist
             /\ hist'.crashed = TRUE /\ hist'.acked = hist.acked
             /\ hist.dropped \subseteq hist'.dropped
             /\ \A y \in files : y \in files' \/ y.id \in hist'.dropped
             /\ \E u \in Thread : hands[u] # <<>> /\ files' \subseteq files \cup {Head(hands[u])}
  <2>1. Head(hands[t]) \in Item
    BY <1>2, RangeTail DEF TypeOK
  <2>2. part \subseteq Item
    BY <1>0, <1>2, <2>1, ExcessInside
  <2>3. Ids(part) \in SUBSET Payload /\ \A y \in part : y.id \in Ids(part)
    BY <2>2 DEF Ids, Item
  <2> DEFINE d == Dropped(hist, Ids(part))
  <2>4. d \in Hist /\ d.acked = hist.acked /\ d.dropped = hist.dropped \cup Ids(part)
    BY <1>0, <2>3 DEF Dropped, Hist
  <2> HIDE DEF d
  <2>5. hist' \in Hist /\ hist'.crashed = TRUE /\ hist'.acked = hist.acked /\ hist'.dropped = hist.dropped \cup Ids(part)
    BY <1>2, <2>4 DEF d, Hist
  <2> QED
    BY <1>0, <1>2, <2>1, <2>3, <2>5
<1> QED
  BY <1>1, <1>2 DEF Crash

(* The numbering goes on above the files. *)
LEMMA StartSeq ==
  ASSUME TypeOK, Numbered, Start
  PROVE  seq' \in Nat /\ \A x \in files : x.seq <= seq'
<1> DEFINE S == {x.seq : x \in files}
<1>1. S \subseteq Nat /\ seq \in Nat /\ \A y \in S : y <= seq
  <2>1. files \subseteq Item /\ seq \in Nat /\ \A x \in files : x.seq <= seq
    <3>1. files \subseteq Copies
      BY DEF Copies, Disk, TypeOK
    <3>2. \A x \in Copies : x.seq <= seq
      BY DEF Numbered
    <3> QED
      BY <3>1, <3>2 DEF TypeOK
  <2> QED
    BY <2>1 DEF Item
<1>2. CASE files = {}
  BY <1>2 DEF Start
<1>3. CASE files # {}
  <2>1. S # {} /\ seq' = Max(S)
    BY <1>3 DEF Start
  <2>2. Max(S) \in S /\ \A y \in S : y <= Max(S)
    BY <1>1, <2>1, MaxExists
  <2> QED
    BY <1>1, <2>1, <2>2
<1> QED
  BY <1>2, <1>3

LEMMA TypeStep ==
  ASSUME TypeOK, Shape, Numbered, Next
  PROVE  TypeOK'
<1> USE DEF Thread, Producer, bufferVars, producerVars, worldVars, enqueueVars, exportVars, lifeVars
<1>1. CASE Collect
  BY <1>1, Reserved, DeliveryAssumption DEF TypeOK, Collect, Reserve
<1>2. CASE Tick
  BY <1>2, DeliveryAssumption DEF TypeOK, Shape, Tick, NoFlight
<1>3. CASE Emit
  BY <1>3, Reserved, DeliveryAssumption DEF TypeOK, Emit, Reserve
<1>4. CASE EndTick
  BY <1>4, DeliveryAssumption DEF TypeOK, Shape, EndTick, NoFlight
<1>5. CASE SaveState
  <2>1. saved' \in 0..tried' /\ tried' \in 0..committed' /\ faults' \in 0..MaxFaults
    BY <1>5, DeliveryAssumption DEF SaveState, WriteState, Fails, Possible, TypeOK
  <2>2. /\ UNCHANGED <<size, life, seq, queue, index, files, pc, item, hands, peeked, flight, wake>>
        /\ UNCHANGED <<reads, committed, collected, stops, received, hist>>
    BY <1>5 DEF SaveState
  <2> QED
    BY <2>1, <2>2 DEF TypeOK
<1>6. ASSUME NEW t \in Producer, Append1(t) PROVE TypeOK'
  <2>1. item[t] \in Item
    BY <1>6 DEF Shape, Append1
  <2>2. Append(queue, item[t]) \in Seq(Item) /\ Len(Append(queue, item[t])) = Len(queue) + 1 /\ Len(queue) \in Nat
    BY <2>1, RangeAppend DEF TypeOK
  <2> QED
    BY <1>6, <2>2, DeliveryAssumption DEF TypeOK, Append1, Room, Done
<1>7. ASSUME NEW t \in Producer, QueueFull(t) PROVE TypeOK'
  BY <1>7, DeliveryAssumption DEF TypeOK, Shape, QueueFull, NoFlight
<1>8. ASSUME NEW t \in Producer, TakeQueue(t) PROVE TypeOK'
  <2>1. item[t] \in Item
    BY <1>8 DEF Shape, TakeQueue
  <2>2. Append(queue, item[t]) \in Seq(Item)
    BY <2>1, RangeAppend DEF TypeOK
  <2> QED
    BY <1>8, <2>2, DeliveryAssumption DEF TypeOK, TakeQueue
<1>9. ASSUME NEW t \in Producer, Spilled(t) PROVE TypeOK'
  BY <1>9, DeliveryAssumption DEF TypeOK, Shape, Spilled, Done, NoFlight
<1>10. ASSUME NEW t \in Thread, Spill(t) PROVE TypeOK'
  <2> DEFINE x == Head(hands[t])
  <2>1. hands[t] \in Seq(Item) /\ hands[t] # <<>> /\ t \in Place /\ hands[t] \in Seq(Item)
    BY <1>10 DEF TypeOK, Spill, Place
  <2>2. x \in Item /\ x \in Range(hands[t]) /\ Tail(hands[t]) \in Seq(Item)
    BY <2>1, RangeTail
  <2>3. x.id \in Payload /\ x \in Hold(t) /\ (x.id \in Log => x.id <= reads)
    BY <2>1, <2>2 DEF Hold, Numbered, Item
  <2> HIDE DEF x
  <2>4. /\ index' \subseteq Item /\ files' \subseteq Item /\ faults' \in 0..MaxFaults
        /\ hist' \in Hist
    BY <1>10, <2>2, <2>3, PushTyped DEF Spill, x
  <2>5. committed' \in 0..reads' /\ saved' \in 0..tried' /\ tried' \in 0..committed' /\ reads' = reads /\ collected' = collected
       
    BY <1>10, <2>3, AckTyped, SMTT(30) DEF Spill, x, TypeOK, Payload
  <2>6. hands' \in [Thread -> Seq(Item)]
    BY <1>10, <2>2 DEF Spill, x, TypeOK
  <2> QED
    BY <1>10, <2>4, <2>5, <2>6 DEF TypeOK, Spill
<1>11. CASE Drained
  BY <1>11, DeliveryAssumption DEF TypeOK, Shape, Drained, Goto, NoFlight
<1>12. CASE Peek
  <2>1. index # {} => Oldest(index) \in Item
    BY OldestInside DEF TypeOK
  <2>2. index # {} => {Oldest(index).id} \in SUBSET Payload
    BY <2>1 DEF Item
  <2>3. hist' \in Hist
    <3>1. hist' = hist \/ (index # {} /\ hist' = Dropped(hist, {Oldest(index).id}))
      BY <1>12 DEF Peek
    <3>2. hist \in Hist
      BY DEF TypeOK
    <3> QED
      BY <2>2, <3>1, <3>2 DEF Dropped, Hist
  <2>4. index' \subseteq Item /\ peeked' \in Item \cup {None} /\ faults' \in 0..MaxFaults
    BY <1>12, <2>1, DeliveryAssumption DEF TypeOK, Peek, Fails, Possible
  <2>5. /\ pc'["main"] = pc["main"] /\ pc'["logs"] = pc["logs"] /\ pc'["export"] \in {"top", "pick"}
    BY <1>12 DEF Shape, Peek, Goto, Label
  <2> QED
    BY <1>12, <2>3, <2>4, <2>5 DEF TypeOK, Peek, exportVars, producerVars
<1>13. CASE PickMemory
  <2>1. Head(queue) \in Item /\ Tail(queue) \in Seq(Item) /\ Len(Tail(queue)) < Len(queue) /\ Len(queue) \in Nat
    BY <1>13, RangeTail DEF TypeOK, PickMemory, MemoryFirst
  <2> QED
    BY <1>13, <2>1, DeliveryAssumption DEF TypeOK, PickMemory, Goto
<1>14. CASE PickDisk
  BY <1>14, DeliveryAssumption DEF TypeOK, Shape, PickDisk, Goto, NoFlight
<1>15. CASE PickNothing
  BY <1>15, DeliveryAssumption DEF TypeOK, Shape, PickNothing, Goto, NoFlight
<1>16. CASE AnswerLost
  <2>1. flight.what.id \in Payload
    BY <1>16 DEF Shape, AnswerLost, Item
  <2>2. received' \in [Payload -> Nat]
    BY <1>16, <2>1 DEF TypeOK, AnswerLost, Sent
  <2> QED
    BY <1>16, <2>2, DeliveryAssumption DEF TypeOK, AnswerLost, Fails, Possible
<1>17. CASE Accept
  <2>1. /\ index' \subseteq Item /\ files' \subseteq Item /\ faults' \in 0..MaxFaults
        /\ hist' \in Hist
        /\ committed' \in 0..reads' /\ saved' \in 0..tried' /\ tried' \in 0..committed' /\ reads' = reads /\ collected' = collected
    BY <1>17, SettleTyped
  <2>0. flight.what.id \in Payload
    BY <1>17 DEF Shape, Accept, Item
  <2>2. received' \in [Payload -> Nat]
    BY <1>17, <2>0 DEF TypeOK, Accept, Sent
  <2>3. flight' = NoFlight /\ pc' \in [Thread -> Label] /\ pc'["main"] = pc["main"] /\ pc'["logs"] = pc["logs"]
        /\ pc'["export"] \in {"top", "stopped"}
    BY <1>17 DEF Shape, Accept, Settle, Goto, Label
  <2> QED
    BY <1>17, <2>1, <2>2, <2>3 DEF TypeOK, NoFlight, Accept
<1>18. CASE Rejected
  <2>1. /\ index' \subseteq Item /\ files' \subseteq Item /\ faults' \in 0..MaxFaults
        /\ hist' \in Hist
        /\ committed' \in 0..reads' /\ saved' \in 0..tried' /\ tried' \in 0..committed' /\ reads' = reads /\ collected' = collected
    BY <1>18, SettleTyped
  <2>0. flight.what.id \in Payload
    BY <1>18 DEF Shape, Rejected, Item
  <2>2. received' \in [Payload -> Nat]
    BY <1>18, <2>0 DEF TypeOK, Rejected, Sent
  <2>3. flight' = NoFlight /\ pc' \in [Thread -> Label] /\ pc'["main"] = pc["main"] /\ pc'["logs"] = pc["logs"]
        /\ pc'["export"] \in {"top", "stopped"}
    BY <1>18 DEF Shape, Rejected, Settle, Goto, Label
  <2> QED
    BY <1>18, <2>1, <2>2, <2>3 DEF TypeOK, NoFlight, Rejected
<1>19. CASE SendFails
  BY <1>19, DeliveryAssumption DEF TypeOK, Shape, SendFails, Goto, NoFlight
<1>20. CASE SpillRest
  BY <1>20, DeliveryAssumption DEF TypeOK, Shape, SpillRest, Goto, NoFlight
<1>21. CASE Failed
  BY <1>21, DeliveryAssumption DEF TypeOK, Shape, Failed, Goto, NoFlight
<1>22. CASE Retry
  BY <1>22, DeliveryAssumption DEF TypeOK, Shape, Retry, Goto, NoFlight
<1>23. CASE Wake
  BY <1>23, DeliveryAssumption DEF TypeOK, Shape, Wake, Goto, NoFlight
<1>24. CASE Stop
  BY <1>24, DeliveryAssumption DEF TypeOK, Shape, Stop, NoFlight
<1>25. CASE Drain
  BY <1>25, DeliveryAssumption DEF TypeOK, Shape, Drain, NoFlight
<1>26. CASE CancelExport
  BY <1>26, DeliveryAssumption DEF TypeOK, Shape, CancelExport, NoFlight
<1>27. CASE Close
  BY <1>27, DeliveryAssumption DEF TypeOK, Shape, Close, NoFlight
<1>28. CASE Exit
  <2>1. /\ Ended /\ tried' = committed /\ UNCHANGED <<size, seq, files, reads, committed, collected, stops, received, hist>>
        /\ saved' = committed \/ saved' = saved
        /\ faults' = faults \/ Fails("save")
    BY <1>28 DEF Exit, WriteState, dirty
  <2>2. saved' \in 0..tried' /\ tried' \in 0..committed' /\ committed' \in 0..reads' /\ reads' \in 0..Batches /\ seq' \in Nat
    BY <2>1, DeliveryAssumption DEF TypeOK
  <2>3. flight' \in [what : Item \cup {None}, memory : BOOLEAN]
    BY <2>1, EndedTyped, NoFlightTyped
  <2>4. faults' \in 0..MaxFaults
    BY <2>1, DeliveryAssumption DEF Fails, Possible, TypeOK
  <2> QED
    BY <2>1, <2>2, <2>3, <2>4, EndedTyped DEF TypeOK
<1>29. CASE Crash
  <2>1. files' \subseteq Item /\ hist' \in Hist
    BY <1>29, CrashTyped
  <2> QED
    <3>1. Ended /\ UNCHANGED <<size, seq, reads, committed, tried, saved, collected, stops, received>>
      BY <1>29 DEF Crash, producerVars
    <3>2. Fails("crash") \/ Fails("torn")
      BY <1>29 DEF Crash
    <3>3. faults' \in 0..MaxFaults
      BY <3>2, DeliveryAssumption DEF Fails, Possible, TypeOK
    <3>4. flight' \in [what : Item \cup {None}, memory : BOOLEAN]
      BY <3>1, EndedTyped, NoFlightTyped
    <3> QED
      BY <2>1, <3>1, <3>3, <3>4, EndedTyped DEF TypeOK
<1>30. CASE Start
  <2>1. seq' \in Nat
    BY <1>30, StartSeq
  <2>2. hist' \in Hist
    <3> DEFINE b == Used(files) > MaxBytes
    <3>1. b \in BOOLEAN /\ hist \in Hist
      BY DEF TypeOK
    <3>2. hist' = [hist EXCEPT !.over = b]
      BY <1>30 DEF Start
    <3> HIDE DEF b
    <3> QED
      BY <3>1, <3>2 DEF Hist
  <2>3. pc'["main"] = pc["main"] /\ pc'["logs"] = pc["logs"] /\ pc'["export"] = "top"
    BY <1>30 DEF Shape, Start, Goto, Label
  <2> QED
    <3>1. /\ life' = "up" /\ index' = files /\ reads' = saved /\ committed' = saved /\ tried' = saved
          /\ UNCHANGED <<size, queue, files, item, hands, peeked, flight, wake, saved, collected, stops, faults, received>>
      BY <1>30 DEF Start, worldVars
    <3> QED
      BY <2>1, <2>2, <2>3, <3>1, DeliveryAssumption DEF TypeOK
<1> QED
  BY <1>1, <1>2, <1>3, <1>4, <1>5, <1>6, <1>7, <1>8, <1>9, <1>10, <1>11, <1>12, <1>13, <1>14, <1>15, <1>16,
     <1>17, <1>18, <1>19, <1>20, <1>21, <1>22, <1>23, <1>24, <1>25, <1>26, <1>27, <1>28, <1>29, <1>30 DEF Next

-----------------------------------------------------------------------------
(* The effects of the actions on the copies. *)

(* Copies stay where they are; the exporter may let go of one on disk. *)
Rests ==
    /\ \A p \in Place : Hold(p)' = Hold(p)
    /\ Disk' \subseteq Disk /\ files' = files
    /\ received' = received /\ faults <= faults' /\ faults' \in Nat
    /\ hist'.acked = hist.acked /\ hist.dropped \subseteq hist'.dropped /\ hist'.crashed = hist.crashed
    /\ UNCHANGED <<seq, reads, committed, collected>>
    /\ UNCHANGED <<tried, saved>> \/ saved' = committed \/ (saved' = saved /\ faults' = faults + 1)
    /\ life # "down" /\ life' # "down"

(* A thread gets a new payload x. *)
Reserves(t, x) ==
    /\ t \in Place /\ x \in Item /\ x.seq = seq + 1 /\ seq' = seq + 1
    /\ Hold(t)' = Hold(t) \cup {x} /\ \A p \in Place \ {t} : Hold(p)' = Hold(p)
    /\ Disk' = Disk /\ UNCHANGED <<files, received, hist, faults, committed, tried, saved>>
    /\ \/ x.id \in Log /\ x.id = reads + 1 /\ reads' = reads + 1 /\ collected' = collected
       \/ x.id \notin Log /\ x.id = Batches + collected + 1 /\ collected' = collected + 1 /\ reads' = reads
    /\ life # "down" /\ life' # "down"

(* The copies in X go from p to q. *)
Moves(p, q, X) ==
    /\ p \in Place /\ q \in Place /\ p # q /\ X \subseteq Hold(p)
    /\ Hold(p)' = Hold(p) \ X /\ Hold(q)' = Hold(q) \cup X
    /\ \A r \in Place \ {p, q} : Hold(r)' = Hold(r)
    /\ Disk' \subseteq Disk /\ UNCHANGED <<files, received, hist, faults, committed, tried, saved, seq, reads, collected>>
    /\ life # "down" /\ life' # "down"

(* The copy x of p is acknowledged. *)
Acks(p, x) ==
    /\ p \in Place /\ x \in Hold(p)
    /\ Hold(p)' = Hold(p) \ {x} /\ \A r \in Place \ {p} : Hold(r)' = Hold(r)
    /\ hist'.acked = hist.acked \cup {x.id}
    /\ committed' \in Nat /\ committed <= committed' /\ (x.id \in Log => x.id <= committed')
    /\ committed' <= reads
    /\ UNCHANGED <<tried, saved>>

(* Files are lost only with a record of it. *)
FilesKept == \A y \in files : y \in files' \/ y.id \in hist'.dropped

(* A thread writes x to the buffer. *)
Writes(t, x) ==
    /\ Acks(t, x)
    /\ Disk' \subseteq Disk \cup {x} /\ FilesKept
    /\ x \in files' \/ x.id \in hist'.dropped
    /\ hist.dropped \subseteq hist'.dropped /\ hist'.crashed = hist.crashed
    /\ received' = received /\ faults <= faults' /\ faults' \in Nat
    /\ UNCHANGED <<seq, reads, collected>>
    /\ life # "down" /\ life' # "down"

(* The ingest takes x: its answer is lost, it was in memory, or on disk. *)
Received(x) == received' = [received EXCEPT ![x.id] = @ + 1]

Repeats(x) ==
    /\ x \in Item /\ Received(x)
    /\ \A p \in Place : Hold(p)' = Hold(p)
    /\ Disk' = Disk /\ faults' = faults + 1
    /\ UNCHANGED <<files, hist, seq, reads, committed, tried, saved, collected>>
    /\ life # "down" /\ life' # "down"

Answered(x) ==
    /\ x \in Item
    /\ Received(x) \/ (received' = received /\ x.id \in hist'.dropped)
    /\ hist.dropped \subseteq hist'.dropped /\ hist'.crashed = hist.crashed
    /\ faults <= faults' /\ faults' \in Nat
    /\ UNCHANGED <<seq, reads, collected>>
    /\ life # "down" /\ life' # "down"

SettlesMemory(x) ==
    /\ Answered(x) /\ Acks("export", x)
    /\ Disk' = Disk /\ files' = files

SettlesDisk(x) ==
    /\ Answered(x)
    /\ x \in Disk /\ Disk' \subseteq Disk
    /\ files' \subseteq files /\ \A y \in files : y # x => y \in files'
    /\ x \notin Disk' \/ faults < faults'
    /\ \A p \in Place : Hold(p)' = Hold(p)
    /\ hist'.acked = hist.acked /\ UNCHANGED <<committed, tried, saved>>

(* The agent ends after a shutdown, or crashes, or starts. *)
Exits ==
    /\ \A p \in Place : Hold(p) = {} /\ Hold(p)' = {}
    /\ Disk' \subseteq Disk
    /\ UNCHANGED <<files, received, hist, committed, seq, reads, collected>>
    /\ \/ saved' = committed /\ faults' = faults
       \/ saved' = saved /\ faults' = faults + 1
       \/ saved' = saved /\ tried = committed /\ faults' = faults
    /\ life # "down" /\ life' = "down"

Crashes ==
    /\ \A p \in Place : Hold(p)' = {}
    /\ Disk' \subseteq Copies /\ FilesKept
    /\ hist'.acked = hist.acked /\ hist.dropped \subseteq hist'.dropped /\ hist'.crashed = TRUE
    /\ faults' = faults + 1
    /\ UNCHANGED <<received, committed, seq, reads, saved, collected>>
    /\ life # "down" /\ life' = "down"

Starts ==
    /\ \A p \in Place : Hold(p) = {} /\ Hold(p)' = {}
    /\ Disk' = files /\ Disk = files
    /\ seq' \in Nat /\ \A x \in files : x.seq <= seq'
    /\ reads' = saved /\ committed' = saved
    /\ hist'.acked = hist.acked /\ hist'.dropped = hist.dropped /\ hist'.crashed = hist.crashed
    /\ UNCHANGED <<files, received, faults, saved, collected>>
    /\ life = "down" /\ life' # "down"

Effect ==
    \/ Rests
    \/ \E t \in Producer : \E x \in Item : Reserves(t, x)
    \/ \E p, q \in Place : \E X \in SUBSET Item : Moves(p, q, X)
    \/ \E t \in Thread : \E x \in Item : Writes(t, x)
    \/ \E x \in Item : Repeats(x) \/ SettlesMemory(x) \/ SettlesDisk(x)
    \/ Exits \/ Crashes \/ Starts

(* Every copy is a payload with a sequence number. *)
LEMMA HoldTyped ==
  ASSUME TypeOK, Shape
  PROVE  (\A p \in Place : Hold(p) \subseteq Item) /\ Disk \subseteq Item
<1>1. Range(queue) \subseteq Item /\ \A t \in Thread : Range(hands[t]) \subseteq Item
  BY RangeSub DEF TypeOK
<1>2. \A t \in Producer : {item[t]} \ {None} \subseteq Item
  BY DEF TypeOK
<1>3. Sending \subseteq Item
  <2>1. flight = NoFlight => flight.memory = FALSE
    BY DEF NoFlight
  <2> QED
    BY <2>1 DEF Sending, Shape
<1>4. \A p \in Place : Hold(p) \subseteq Item
  BY <1>1, <1>2, <1>3 DEF Hold, Place, Thread, Producer
<1>5. Disk \subseteq Item
  BY DEF Disk, TypeOK
<1> QED
  BY <1>4, <1>5

(* The copies are what is held and what is on disk. *)
LEMMA CopiesAll ==
  ASSUME TypeOK, Shape
  PROVE  \A x : x \in Copies <=> (\E p \in Place : x \in Hold(p)) \/ x \in Disk
  BY HoldTyped DEF Copies

LEMMA Unmoved ==
  ASSUME UNCHANGED <<queue, hands, item, flight>>
  PROVE  \A p \in Place : Hold(p)' = Hold(p)
  BY DEF Hold, Sending

LEMMA NotSending == ASSUME flight = NoFlight PROVE Sending = {} /\ {flight.what} \ {None} = {}
  BY DEF NoFlight, Sending

(* Steps that change no copy. *)
LEMMA QuietRests ==
  ASSUME TypeOK, Shape,
         \/ Tick \/ EndTick \/ (\E t \in Producer : QueueFull(t) \/ Spilled(t))
         \/ Drained \/ PickNothing \/ Failed \/ Retry \/ Wake \/ Stop \/ Drain \/ CancelExport
  PROVE  Rests
<1>1. /\ UNCHANGED <<queue, hands, item, flight, files, peeked, received, faults, hist, seq, reads, committed, tried, saved, collected>>
      /\ life # "down" /\ life' # "down"
  <2>1. CASE Tick \/ EndTick
    BY <2>1 DEF Tick, EndTick, enqueueVars, bufferVars, worldVars, producerVars, Shape
  <2>2. ASSUME NEW t \in Producer, QueueFull(t) \/ Spilled(t)
        PROVE  /\ UNCHANGED <<queue, hands, item, flight, files, peeked, received, faults, hist, seq, reads, committed, tried, saved, collected>>
               /\ life # "down" /\ life' # "down"
    BY <2>2 DEF QueueFull, Spilled, enqueueVars, bufferVars, worldVars, producerVars, Shape, Producer
  <2>3. CASE Drained \/ PickNothing \/ Failed \/ Retry \/ Wake
    BY <2>3 DEF Drained, PickNothing, Failed, Retry, Wake, exportVars, bufferVars, producerVars, Shape
  <2>4. CASE Stop \/ Drain \/ CancelExport
    BY <2>4 DEF Stop, Drain, CancelExport, lifeVars, bufferVars, producerVars
  <2> QED
    BY <2>1, <2>2, <2>3, <2>4
<1>2. \A p \in Place : Hold(p)' = Hold(p)
  BY <1>1, Unmoved
<1>3. Disk' = Disk
  BY <1>1 DEF Disk, Sending
<1> QED
  BY <1>1, <1>2, <1>3 DEF Rests, TypeOK

LEMMA SaveRests ==
  ASSUME TypeOK, Shape, SaveState
  PROVE  Rests
<1>1. /\ UNCHANGED <<queue, hands, item, flight, files, peeked, received, hist, seq, reads, committed, collected, life>>
      /\ life # "down"
      /\ (saved' = committed /\ faults' = faults) \/ (saved' = saved /\ faults' = faults + 1)
  BY DEF SaveState, WriteState, Fails, bufferVars
<1>2. \A p \in Place : Hold(p)' = Hold(p)
  BY <1>1, Unmoved
<1>3. Disk' = Disk
  BY <1>1 DEF Disk, Sending
<1> QED
  BY <1>1, <1>2, <1>3 DEF Rests, TypeOK

LEMMA PeekRests ==
  ASSUME TypeOK, Shape, Peek
  PROVE  Rests
<1>1. /\ UNCHANGED <<queue, hands, item, flight, files, received, seq, reads, committed, tried, saved, collected, life>>
      /\ flight = NoFlight /\ peeked = None /\ life # "down"
  BY DEF Peek, exportVars, producerVars, Shape
<1>2. \A p \in Place : Hold(p)' = Hold(p)
  BY <1>1, Unmoved
<1>3. peeked' = None \/ peeked' \in files
  BY <1>1, OldestInside DEF Peek, TypeOK, Shape
<1>4. Disk' \subseteq Disk
  BY <1>1, <1>3 DEF Disk, Sending
<1>5. hist'.acked = hist.acked /\ hist.dropped \subseteq hist'.dropped /\ hist'.crashed = hist.crashed
  <2>1. hist' = hist \/ (index # {} /\ hist' = Dropped(hist, {Oldest(index).id}))
    BY DEF Peek
  <2>2. hist \in Hist
    BY DEF TypeOK
  <2> QED
    BY <2>1, <2>2 DEF Dropped, Hist
<1>6. faults <= faults' /\ faults' \in Nat
  <2>1. faults' = faults \/ faults' = faults + 1
    BY DEF Peek, Fails
  <2> QED
    BY <2>1 DEF TypeOK
<1> QED
  BY <1>1, <1>2, <1>4, <1>5, <1>6 DEF Rests

LEMMA PickDiskRests ==
  ASSUME TypeOK, Shape, PickDisk
  PROVE  Rests
<1>1. /\ UNCHANGED <<queue, hands, item, files, received, faults, hist, seq, reads, committed, tried, saved, collected, life>>
      /\ flight = NoFlight /\ life # "down"
      /\ flight' = [what |-> peeked, memory |-> FALSE] /\ peeked' = None
  BY DEF PickDisk, exportVars, producerVars, bufferVars, Shape
<1>2. Sending = {} /\ {flight.what} \ {None} = {} /\ Sending' = {} /\ flight'.what = peeked
  BY <1>1, NotSending DEF Sending
<1>3. \A p \in Place : Hold(p)' = Hold(p)
  BY <1>1, <1>2 DEF Hold
<1>4. Disk' = Disk
  BY <1>1, <1>2 DEF Disk
<1> QED
  BY <1>1, <1>3, <1>4 DEF Rests, TypeOK

LEMMA SendFailsRests ==
  ASSUME TypeOK, Shape, SendFails
  PROVE  Rests
<1>1. /\ UNCHANGED <<queue, item, files, received, faults, hist, seq, reads, committed, tried, saved, collected, life, peeked>>
      /\ hands["export"] = <<>> /\ life # "down" /\ flight' = NoFlight /\ flight.what \in Item
      /\ hands' = [hands EXCEPT !["export"] = IF flight.memory THEN <<flight.what>> ELSE <<>>]
  BY DEF SendFails, exportVars, producerVars, bufferVars, Shape, Thread
<1>2. Sending' = {} /\ {flight'.what} \ {None} = {}
  BY <1>1 DEF NoFlight, Sending
<1>3. Range(hands'["export"]) = Sending
  <2>1. flight.memory \in BOOLEAN /\ hands \in [Thread -> Seq(Item)]
    BY DEF TypeOK
  <2>2. CASE flight.memory = TRUE
    BY <1>1, <2>1, <2>2, RangeOne DEF Sending, Thread
  <2>3. CASE flight.memory = FALSE
    BY <1>1, <2>1, <2>3, RangeEmpty DEF Sending, Thread
  <2> QED
    BY <2>1, <2>2, <2>3
<1>4. Hold("export")' = Hold("export")
  BY <1>1, <1>2, <1>3, RangeEmpty DEF Hold
<1>5. \A p \in Place \ {"export"} : Hold(p)' = Hold(p)
  BY <1>1 DEF Hold, Place, Thread, TypeOK
<1>6. Disk' \subseteq Disk
  BY <1>1, <1>2 DEF Disk
<1> QED
  BY <1>1, <1>4, <1>5, <1>6 DEF Rests, TypeOK, Place, Thread

(* Steps that produce a payload. *)
LEMMA CollectReserves ==
  ASSUME TypeOK, Shape, Collect
  PROVE  \E t \in Producer : \E x \in Item : Reserves(t, x)
<1> DEFINE x == [id |-> Batches + collected + 1, seq |-> seq + 1]
<1>1. x \in Item /\ x.seq = seq + 1 /\ x.id = Batches + collected + 1 /\ x # None
  BY Reserved DEF None, TypeOK
<1>2. /\ item' = [item EXCEPT !["main"] = x] /\ item["main"] = None
      /\ UNCHANGED <<queue, hands, files, received, faults, hist, reads, committed, tried, saved, life, peeked, flight>>
      /\ seq' = seq + 1 /\ collected' = collected + 1 /\ life = "up"
  BY DEF Collect, Reserve, Shape, enqueueVars, bufferVars, worldVars, Producer
<1> HIDE DEF x
<1>3. Hold("main")' = Hold("main") \cup {x} /\ \A p \in Place \ {"main"} : Hold(p)' = Hold(p)
  BY <1>1, <1>2 DEF Hold, Place, Thread, Producer, TypeOK, Sending
<1>4. Disk' = Disk
  BY <1>2 DEF Disk, Sending
<1>5. x.id \notin Log
  BY <1>1, DeliveryAssumption DEF Log, TypeOK
<1>6. Reserves("main", x)
  BY <1>1, <1>2, <1>3, <1>4, <1>5 DEF Reserves, Place, Thread
<1> QED
  BY <1>1, <1>6 DEF Producer

LEMMA EmitReserves ==
  ASSUME TypeOK, Shape, Emit
  PROVE  \E t \in Producer : \E x \in Item : Reserves(t, x)
<1> DEFINE x == [id |-> reads + 1, seq |-> seq + 1]
<1>1. x \in Item /\ x.seq = seq + 1 /\ x.id = reads + 1 /\ x # None
  BY Reserved DEF None, TypeOK
<1>2. /\ item' = [item EXCEPT !["logs"] = x] /\ item["logs"] = None
      /\ UNCHANGED <<queue, hands, files, received, faults, hist, collected, committed, tried, saved, life, peeked, flight>>
      /\ seq' = seq + 1 /\ reads' = reads + 1 /\ life # "down"
  BY DEF Emit, Reserve, Shape, enqueueVars, bufferVars, worldVars, Producer
<1> HIDE DEF x
<1>3. Hold("logs")' = Hold("logs") \cup {x} /\ \A p \in Place \ {"logs"} : Hold(p)' = Hold(p)
  BY <1>1, <1>2 DEF Hold, Place, Thread, Producer, TypeOK, Sending
<1>4. Disk' = Disk
  BY <1>2 DEF Disk, Sending
<1>5. x.id \in Log
  BY <1>1, DeliveryAssumption DEF Log, TypeOK, Emit
<1>6. Reserves("logs", x)
  BY <1>1, <1>2, <1>3, <1>4, <1>5 DEF Reserves, Place, Thread
<1> QED
  BY <1>1, <1>6 DEF Producer

(* Steps that move copies. *)
LEMMA AppendMoves ==
  ASSUME TypeOK, Shape, NEW t \in Producer, Append1(t)
  PROVE  \E p, q \in Place : \E X \in SUBSET Item : Moves(p, q, X)
<1> DEFINE x == item[t]
<1>1. /\ x \in Item /\ hands[t] = <<>> /\ queue' = Append(queue, x) /\ item' = [item EXCEPT ![t] = None]
      /\ UNCHANGED <<hands, files, received, faults, hist, reads, committed, tried, saved, collected, seq, life, peeked, flight>>
      /\ life # "down"
  BY DEF Append1, Shape, enqueueVars, bufferVars, worldVars, producerVars, Producer, Thread
<1>2. x # None
  BY <1>1 DEF Item, None
<1> HIDE DEF x
<1>3. t \in Place /\ t # "queue" /\ t # "export" /\ t \in Thread /\ "queue" \in Place
  BY DEF Producer, Place, Thread
<1>4. Hold("queue")' = Hold("queue") \cup {x}
  BY <1>1, RangeAppend DEF Hold, TypeOK
<1>5. Hold(t) = {x}
  BY <1>1, <1>2, <1>3, RangeEmpty DEF Hold, x
<1>6. Hold(t)' = {}
  BY <1>1, <1>3, RangeEmpty DEF Hold, TypeOK
<1>7. \A r \in Place \ {t, "queue"} : Hold(r)' = Hold(r)
  BY <1>1 DEF Hold, TypeOK, Sending, Place, Producer, Thread
<1>8. Disk' = Disk
  BY <1>1 DEF Disk, Sending
<1>9. Moves(t, "queue", {x})
  BY <1>1, <1>3, <1>4, <1>5, <1>6, <1>7, <1>8 DEF Moves
<1> QED
  BY <1>1, <1>3, <1>9

LEMMA TakeQueueMoves ==
  ASSUME TypeOK, Shape, NEW t \in Producer, TakeQueue(t)
  PROVE  \E p, q \in Place : \E X \in SUBSET Item : Moves(p, q, X)
<1> DEFINE x == item[t]
<1>1. /\ x \in Item /\ hands[t] = <<>> /\ item' = [item EXCEPT ![t] = None]
      /\ hands' = [hands EXCEPT ![t] = Append(queue, x)] /\ queue' = <<>>
      /\ UNCHANGED <<files, received, faults, hist, reads, committed, tried, saved, collected, seq, life, peeked, flight>>
      /\ life # "down"
  BY DEF TakeQueue, Shape, enqueueVars, bufferVars, worldVars, producerVars, Producer, Thread
<1>2. x # None
  BY <1>1 DEF Item, None
<1> HIDE DEF x
<1>3. t \in Place /\ t # "queue" /\ t # "export" /\ t \in Thread /\ "queue" \in Place
  BY DEF Producer, Place, Thread
<1>4. Hold("queue")' = {} /\ Hold("queue") = Range(queue)
  BY <1>1, RangeEmpty DEF Hold
<1>5. Hold(t) = {x}
  BY <1>1, <1>2, <1>3, RangeEmpty DEF Hold, x
<1>6. Hold(t)' = Range(queue) \cup {x}
  <2>1. hands'[t] = Append(queue, x) /\ item'[t] = None
    BY <1>1, <1>3 DEF TypeOK
  <2> QED
    BY <1>1, <1>3, <2>1, RangeAppend DEF Hold, TypeOK
<1>7. \A r \in Place \ {t, "queue"} : Hold(r)' = Hold(r)
  BY <1>1 DEF Hold, TypeOK, Sending, Place, Producer, Thread
<1>8. Disk' = Disk
  BY <1>1 DEF Disk, Sending
<1>9. Moves("queue", t, Range(queue)) /\ Range(queue) \in SUBSET Item
  BY <1>1, <1>3, <1>4, <1>5, <1>6, <1>7, <1>8, RangeSub DEF Moves, TypeOK
<1> QED
  BY <1>3, <1>9

LEMMA PickMemoryMoves ==
  ASSUME TypeOK, Shape, NoRepeats, PickMemory
  PROVE  \E p, q \in Place : \E X \in SUBSET Item : Moves(p, q, X)
<1> DEFINE x == Head(queue)
<1>1. /\ queue # <<>> /\ flight' = [what |-> x, memory |-> TRUE] /\ queue' = Tail(queue) /\ peeked' = None
      /\ UNCHANGED <<hands, item, files, received, faults, hist, reads, committed, tried, saved, collected, seq, life>>
      /\ life # "down" /\ flight = NoFlight /\ hands["export"] = <<>>
  BY DEF PickMemory, MemoryFirst, Shape, exportVars, bufferVars, producerVars, Thread
<1>2. x \in Item /\ x \in Range(queue) /\ Range(queue') = Range(queue) \ {x}
  BY <1>1, RangeTail DEF TypeOK, NoRepeats
<1> HIDE DEF x
<1>3. Sending = {} /\ {flight.what} \ {None} = {} /\ Sending' = {x} /\ flight'.what = x
  BY <1>1, NotSending DEF Sending
<1>4. Hold("queue") = Range(queue) /\ Hold("queue")' = Range(queue) \ {x}
  BY <1>2 DEF Hold
<1>5. Hold("export") = {} /\ Hold("export")' = {x}
  BY <1>1, <1>3, RangeEmpty DEF Hold
<1>6. \A r \in Place \ {"export", "queue"} : Hold(r)' = Hold(r)
  BY <1>1 DEF Hold
<1>7. Disk' \subseteq Disk
  BY <1>1, <1>3 DEF Disk
<1>8. Moves("queue", "export", {x})
  BY <1>1, <1>2, <1>4, <1>5, <1>6, <1>7 DEF Moves, Place, Thread
<1> QED
  BY <1>2, <1>8 DEF Place, Thread

LEMMA SpillRestMoves ==
  ASSUME TypeOK, Shape, SpillRest
  PROVE  \E p, q \in Place : \E X \in SUBSET Item : Moves(p, q, X)
<1>1. /\ hands["export"] = <<>> /\ hands' = [hands EXCEPT !["export"] = queue] /\ queue' = <<>>
      /\ UNCHANGED <<item, files, received, faults, hist, reads, committed, tried, saved, collected, seq, life, peeked, flight>>
      /\ life # "down" /\ flight = NoFlight
  BY DEF SpillRest, Shape, exportVars, bufferVars, producerVars
<1>2. Sending = {} /\ Sending' = {}
  BY <1>1, NotSending DEF Sending
<1>3. Hold("queue") = Range(queue) /\ Hold("queue")' = {}
  BY <1>1, RangeEmpty DEF Hold
<1>4. Hold("export") = {} /\ Hold("export")' = Range(queue)
  BY <1>1, <1>2, RangeEmpty DEF Hold, TypeOK, Thread
<1>5. \A r \in Place \ {"export", "queue"} : Hold(r)' = Hold(r)
  BY <1>1 DEF Hold, TypeOK, Place, Thread
<1>6. Disk' = Disk
  BY <1>1 DEF Disk, Sending
<1>7. Moves("queue", "export", Range(queue)) /\ Range(queue) \in SUBSET Item
  BY <1>1, <1>3, <1>4, <1>5, <1>6, RangeSub DEF Moves, Place, Thread, TypeOK
<1> QED
  BY <1>7 DEF Place, Thread

LEMMA CloseMoves ==
  ASSUME TypeOK, Shape, Close
  PROVE  \E p, q \in Place : \E X \in SUBSET Item : Moves(p, q, X)
<1>1. /\ hands["main"] = <<>> /\ hands' = [hands EXCEPT !["main"] = queue] /\ queue' = <<>>
      /\ UNCHANGED <<item, files, received, faults, hist, reads, committed, tried, saved, collected, seq, peeked, flight>>
      /\ life # "down" /\ life' # "down" /\ item["main"] = None
  BY DEF Close, Shape, bufferVars, producerVars, Thread, Producer
<1>2. Hold("queue") = Range(queue) /\ Hold("queue")' = {}
  BY <1>1, RangeEmpty DEF Hold
<1>3. Hold("main") = {} /\ Hold("main")' = Range(queue)
  BY <1>1, RangeEmpty DEF Hold, TypeOK, Thread
<1>4. \A r \in Place \ {"main", "queue"} : Hold(r)' = Hold(r)
  BY <1>1 DEF Hold, TypeOK, Place, Thread, Sending
<1>5. Disk' = Disk
  BY <1>1 DEF Disk, Sending
<1>6. Moves("queue", "main", Range(queue)) /\ Range(queue) \in SUBSET Item
  BY <1>1, <1>2, <1>3, <1>4, <1>5, RangeSub DEF Moves, Place, Thread, TypeOK
<1> QED
  BY <1>6 DEF Place, Thread

(* A step of spill. *)
LEMMA SpillWrites ==
  ASSUME TypeOK, Shape, Numbered, NoRepeats, NEW t \in Thread, Spill(t)
  PROVE  \E x \in Item : Writes(t, x)
<1> DEFINE x == Head(hands[t])
<1>1. /\ hands[t] # <<>> /\ PushSeq(x) /\ ack(x.id)
      /\ hands' = [hands EXCEPT ![t] = Tail(hands[t])]
      /\ UNCHANGED <<queue, received, seq, life, item, peeked, flight>>
  BY DEF Spill
<1>2. /\ x \in Item /\ x \in Range(hands[t]) /\ Tail(hands[t]) \in Seq(Item)
      /\ Range(Tail(hands[t])) = Range(hands[t]) \ {x}
  BY <1>1, RangeTail DEF TypeOK, NoRepeats
<1> HIDE DEF x
<1>3. t \in Place /\ t # "queue"
  BY DEF Place, Thread
<1>4. /\ (t \in Producer => item[t] = None) /\ (t = "export" => Sending = {} /\ {flight.what} \ {None} = {})
      /\ life # "down"
  BY <1>1, NotSending DEF Shape, Producer, Thread
<1>5. Hold(t) = Range(hands[t])
  BY <1>3, <1>4 DEF Hold, Producer, Thread
<1>6. hands'[t] = Tail(hands[t])
  BY <1>1 DEF TypeOK
<1>7. Hold(t)' = Range(Tail(hands[t]))
  <2>1. CASE t = "export"
    BY <1>1, <1>4, <1>6, <2>1 DEF Hold, Sending
  <2>2. CASE t \in Producer
    BY <1>1, <1>4, <1>6, <2>2 DEF Hold, Producer
  <2> QED
    BY <2>1, <2>2 DEF Producer, Thread
<1>8. \A r \in Place \ {t} : Hold(r)' = Hold(r)
  BY <1>1 DEF Hold, TypeOK, Place, Thread, Sending
<1>9. /\ faults' \in 0..MaxFaults /\ faults <= faults' /\ files' \subseteq files \cup {x}
      /\ \A y \in files \cup {x} : y \in files' \/ y.id \in hist'.dropped
      /\ hist.dropped \subseteq hist'.dropped
      /\ hist'.acked = hist.acked \cup {x.id} /\ hist'.crashed = hist.crashed
  BY <1>1, <1>2, PushTyped
<1>10. Disk' \subseteq Disk \cup {x}
  BY <1>1, <1>9 DEF Disk, Sending
<1>11. x.id \in Nat /\ (x.id \in Log => x.id <= reads)
  BY <1>2, <1>3, <1>5 DEF Numbered, Item, Payload
<1>12. /\ committed' \in Nat /\ committed <= committed' /\ (x.id \in Log => x.id <= committed')
       /\ committed' <= reads /\ UNCHANGED <<reads, collected>>
       /\ UNCHANGED <<tried, saved>>
  BY <1>1, <1>11, AckTyped DEF TypeOK
<1>13. Acks(t, x)
  BY <1>2, <1>3, <1>5, <1>7, <1>8, <1>9, <1>12 DEF Acks
<1>14. Writes(t, x)
  BY <1>1, <1>4, <1>9, <1>10, <1>12, <1>13 DEF Writes, FilesKept
<1> QED
  BY <1>2, <1>14

(* The answers to a request. *)
LEMMA LostRepeats ==
  ASSUME TypeOK, Shape, AnswerLost
  PROVE  \E x \in Item : Repeats(x)
<1>1. /\ UNCHANGED <<queue, hands, item, flight, files, peeked, hist, seq, reads, committed, tried, saved, collected, life>>
      /\ life # "down" /\ flight.what \in Item /\ faults' = faults + 1 /\ received' = Sent
  BY DEF AnswerLost, Fails, exportVars, bufferVars, producerVars, Shape
<1>2. \A p \in Place : Hold(p)' = Hold(p)
  BY <1>1, Unmoved
<1>3. Disk' = Disk
  BY <1>1 DEF Disk, Sending
<1>4. Repeats(flight.what)
  BY <1>1, <1>2, <1>3 DEF Repeats, Received, Sent
<1> QED
  BY <1>1, <1>4

LEMMA AnswerSettles ==
  ASSUME TypeOK, Shape, Numbered, Accept \/ Rejected
  PROVE  \E x \in Item : SettlesMemory(x) \/ SettlesDisk(x)
<1> DEFINE x == flight.what
<1>0. /\ x \in Item /\ x.id \in Payload /\ hands["export"] = <<>> /\ life # "down" /\ peeked = None
      /\ UNCHANGED <<life, seq, item, queue, hands, peeked>> /\ hist \in Hist /\ x # None
  <2>1. /\ x \in Item /\ hands["export"] = <<>> /\ life # "down" /\ peeked = None
        /\ UNCHANGED <<life, seq, item, queue, hands, peeked>>
    BY DEF Shape, Accept, Rejected, Thread
  <2>2. x.id \in Payload /\ x # None
    BY <2>1, DeliveryAssumption DEF Item, None, Payload
  <2> QED
    BY <2>1, <2>2 DEF TypeOK
<1>1. PICK h, n : /\ Settle(h, n) /\ h \in Hist /\ n \in Nat /\ faults <= n
                  /\ h.acked = hist.acked /\ hist.dropped \subseteq h.dropped /\ h.crashed = hist.crashed
                  /\ Received(x) \/ (received' = received /\ x.id \in h.dropped)
  <2>1. CASE Accept
    <3>1. Settle(hist, faults) /\ Received(x) /\ faults \in Nat
      BY <2>1 DEF Accept, Received, Sent, TypeOK
    <3> QED
      BY <1>0, <3>1
  <2>2. CASE Rejected
    <3> DEFINE h1 == Dropped(hist, {x.id})
    <3>1. Settle(h1, faults + 1) /\ received' = received /\ faults \in Nat
      BY <2>2 DEF Rejected, TypeOK
    <3>2. h1 \in Hist /\ h1.acked = hist.acked /\ h1.dropped = hist.dropped \cup {x.id} /\ h1.crashed = hist.crashed
      BY <1>0 DEF Dropped, Hist
    <3> HIDE DEF h1
    <3> QED
      BY <3>1, <3>2
  <2> QED
    BY <2>1, <2>2
<1>2. flight' = NoFlight /\ Sending' = {} /\ {flight'.what} \ {None} = {}
  BY <1>1 DEF Settle, NoFlight, Sending
<1>3. /\ UNCHANGED <<reads, collected>> /\ committed' \in Nat /\ committed <= committed' /\ committed' <= reads
      /\ faults' \in Nat /\ faults <= faults' /\ files' \subseteq Item
  <2>1. /\ faults' \in 0..MaxFaults /\ faults <= faults' /\ files' \subseteq Item
        /\ committed' \in 0..reads' /\ reads' = reads /\ collected' = collected
        /\ committed <= committed'
    BY SettleTyped
  <2> QED
    BY <2>1 DEF TypeOK
<1>4. \A p \in Place \ {"export"} : Hold(p)' = Hold(p)
  BY <1>0 DEF Hold
<1>5. Hold("export") = Sending /\ Hold("export")' = {}
  BY <1>0, <1>2, RangeEmpty DEF Hold
<1>6. CASE flight.memory = TRUE
  <2>1. ack(x.id) /\ hist' = Acked(h, x.id) /\ UNCHANGED <<index, files>>
    BY <1>1, <1>6 DEF Settle, bufferVars
  <2>2. /\ hist'.acked = hist.acked \cup {x.id} /\ hist'.dropped = h.dropped /\ hist'.crashed = hist.crashed
    BY <1>0, <1>1, <2>1, HistFields
  <2>3. Sending = {x}
    BY <1>6 DEF Sending
  <2>4. /\ x.id \in Log => x.id <= committed'
        /\ UNCHANGED <<tried, saved>>
    BY <1>0, <2>1, AckTyped DEF TypeOK, Payload
  <2>5. Disk' = Disk
    BY <1>0, <1>2, <2>1, <2>3 DEF Disk
  <2>6. Acks("export", x)
    BY <1>3, <1>4, <1>5, <2>2, <2>3, <2>4 DEF Acks, Place, Thread
  <2>7. Answered(x)
    BY <1>0, <1>1, <1>3, <2>2 DEF Answered
  <2> QED
    BY <1>0, <2>1, <2>5, <2>6, <2>7 DEF SettlesMemory
<1>7. CASE flight.memory = FALSE
  <2>1. Remove(x, n) /\ hist' = h /\ UNCHANGED producerVars
    BY <1>1, <1>7 DEF Settle
  <2>2. Sending = {}
    BY <1>7 DEF Sending
  <2>3. x \in Disk
    BY <1>0, <2>2 DEF Disk
  <2>4. files' = files \ {x} \/ (files' = files /\ faults' = n + 1)
    BY <2>1 DEF Remove
  <2>5. Disk' = files' /\ Disk' \subseteq Disk
    BY <1>0, <1>2, <2>4 DEF Disk
  <2>6. \A p \in Place : Hold(p)' = Hold(p)
    BY <1>4, <1>5, <2>2
  <2>7. UNCHANGED <<committed, tried, saved>>
    BY <2>1 DEF producerVars
  <2>8. x \notin Disk' \/ faults < faults'
    BY <1>1, <2>4, <2>5 DEF TypeOK
  <2>9. Answered(x)
    BY <1>0, <1>1, <1>3, <2>1 DEF Answered
  <2>10. SettlesDisk(x)
    BY <1>1, <2>1, <2>3, <2>4, <2>5, <2>6, <2>7, <2>8, <2>9 DEF SettlesDisk
  <2> QED
    BY <1>0, <2>10
<1> QED
  BY <1>6, <1>7 DEF TypeOK

(* The end of the process. *)
LEMMA EndedEmpty ==
  ASSUME Ended
  PROVE  /\ \A p \in Place : Hold(p)' = {}
         /\ Disk' = files'
<1>1. /\ queue' = <<>> /\ \A t \in Thread : hands'[t] = <<>>
      /\ \A t \in Producer : item'[t] = None
      /\ peeked' = None /\ flight' = NoFlight
  BY EndedTyped
<1>2. Sending' = {} /\ {flight'.what} \ {None} = {}
  BY <1>1 DEF NoFlight, Sending
<1> QED
  BY <1>1, <1>2, RangeEmpty DEF Hold, Disk, Place, Thread, Producer

LEMMA ExitExits ==
  ASSUME TypeOK, Shape, Exit
  PROVE  Exits
<1>1. /\ life = "closing" /\ pc["main"] = "close" /\ Ended
      /\ UNCHANGED <<seq, files, reads, committed, collected, received, hist>>
      /\ \/ saved' = committed /\ faults' = faults
         \/ saved' = saved /\ faults' = faults + 1
         \/ saved' = saved /\ tried = committed /\ faults' = faults
  BY DEF Exit, WriteState, dirty, Fails
<1>2. (\A p \in Place : Hold(p)' = {}) /\ Disk' = files' /\ life' = "down"
  BY <1>1, EndedEmpty, EndedTyped
<1>3. /\ queue = <<>> /\ pc["export"] = "stopped" /\ pc["logs"] = "idle" /\ pc["main"] = "close"
  BY <1>1 DEF Shape
<1>4. /\ \A t \in Thread : hands[t] = <<>>
      /\ \A t \in Producer : item[t] = None
      /\ flight = NoFlight
  BY <1>3 DEF Shape, Thread, Producer
<1>5. \A p \in Place : Hold(p) = {}
  BY <1>3, <1>4, NotSending, RangeEmpty DEF Hold, Place, Thread, Producer
<1>6. files \subseteq Disk
  BY DEF Disk
<1> QED
  BY <1>1, <1>2, <1>5, <1>6 DEF Exits

LEMMA CrashCrashes ==
  ASSUME TypeOK, Shape, Crash
  PROVE  Crashes
<1>1. life # "down" /\ Ended /\ UNCHANGED <<size, seq, reads, committed, saved, collected, stops, received>>
  BY DEF Crash, producerVars
<1>2. (\A p \in Place : Hold(p)' = {}) /\ Disk' = files' /\ life' = "down"
  BY <1>1, EndedEmpty, EndedTyped
<1>3. /\ hist'.crashed = TRUE /\ hist'.acked = hist.acked /\ hist.dropped \subseteq hist'.dropped
      /\ \A y \in files : y \in files' \/ y.id \in hist'.dropped
      /\ files' = files \/ \E t \in Thread : hands[t] # <<>> /\ files' \subseteq files \cup {Head(hands[t])}
  BY CrashTyped
<1>4. faults' = faults + 1
  BY DEF Crash, Fails
<1>5. files \subseteq Copies
  BY DEF Copies, Disk, TypeOK
<1>6. ASSUME NEW t \in Thread, hands[t] # <<>> PROVE Head(hands[t]) \in Copies
  <2>1. Head(hands[t]) \in Range(hands[t]) /\ Head(hands[t]) \in Item
    BY <1>6, RangeTail DEF TypeOK
  <2>2. t \in Place /\ Head(hands[t]) \in Hold(t)
    BY <2>1 DEF Hold, Place, Thread
  <2> QED
    BY <2>1, <2>2 DEF Copies
<1>7. files' \subseteq Copies
  BY <1>3, <1>5, <1>6
<1> QED
  BY <1>1, <1>2, <1>3, <1>4, <1>7 DEF Crashes, FilesKept

LEMMA StartStarts ==
  ASSUME TypeOK, Shape, Numbered, Start
  PROVE  Starts
<1>1. /\ life = "down" /\ life' = "up" /\ reads' = saved /\ committed' = saved
      /\ UNCHANGED <<queue, files, item, hands, peeked, flight, saved, collected, faults, received>>
  BY DEF Start, worldVars
<1>2. /\ queue = <<>> /\ pc["export"] = "stopped" /\ pc["logs"] = "idle" /\ pc["main"] = "idle"
  BY <1>1 DEF Shape
<1>3. /\ \A t \in Thread : hands[t] = <<>>
      /\ \A t \in Producer : item[t] = None
      /\ flight = NoFlight /\ peeked = None
  BY <1>2 DEF Shape, Thread, Producer
<1>4. Sending = {} /\ {flight.what} \ {None} = {}
  BY <1>3, NotSending
<1>5. \A p \in Place : Hold(p) = {} /\ Hold(p)' = Hold(p)
  BY <1>1, <1>2, <1>3, <1>4, RangeEmpty, Unmoved DEF Hold, Place, Thread, Producer
<1>6. Disk = files /\ Disk' = Disk
  BY <1>1, <1>3, <1>4 DEF Disk, Sending
<1>7. seq' \in Nat /\ \A x \in files : x.seq <= seq'
  BY StartSeq
<1>8. hist'.acked = hist.acked /\ hist'.dropped = hist.dropped /\ hist'.crashed = hist.crashed
  <2> DEFINE b == Used(files) > MaxBytes
  <2>1. b \in BOOLEAN /\ hist \in Hist
    BY DEF TypeOK
  <2>2. hist' = [hist EXCEPT !.over = b]
    BY DEF Start
  <2> HIDE DEF b
  <2> QED
    BY <2>1, <2>2, HistOver
<1> QED
  BY <1>1, <1>5, <1>6, <1>7, <1>8 DEF Starts

(* Every step has one of the effects. *)
LEMMA StepEffect ==
  ASSUME TypeOK, Shape, Numbered, NoRepeats, Next
  PROVE  Effect
<1>1. CASE \/ Tick \/ EndTick \/ (\E t \in Producer : QueueFull(t) \/ Spilled(t))
           \/ Drained \/ PickNothing \/ Failed \/ Retry \/ Wake \/ Stop \/ Drain \/ CancelExport
  BY <1>1, QuietRests DEF Effect
<1>2. CASE SaveState \/ Peek \/ PickDisk \/ SendFails
  BY <1>2, SaveRests, PeekRests, PickDiskRests, SendFailsRests DEF Effect
<1>3. CASE Collect \/ Emit
  BY <1>3, CollectReserves, EmitReserves DEF Effect
<1>4. CASE (\E t \in Producer : Append1(t) \/ TakeQueue(t)) \/ PickMemory \/ SpillRest \/ Close
  BY <1>4, AppendMoves, TakeQueueMoves, PickMemoryMoves, SpillRestMoves, CloseMoves DEF Effect
<1>5. CASE \E t \in Thread : Spill(t)
  BY <1>5, SpillWrites DEF Effect
<1>6. CASE AnswerLost \/ Accept \/ Rejected
  BY <1>6, LostRepeats, AnswerSettles DEF Effect
<1>7. CASE Exit \/ Crash \/ Start
  BY <1>7, ExitExits, CrashCrashes, StartStarts DEF Effect
<1> QED
  BY <1>1, <1>2, <1>3, <1>4, <1>5, <1>6, <1>7 DEF Next

-----------------------------------------------------------------------------
(* The parts of the invariant, effect by effect. *)

(* Only a producer makes a copy. *)
LEMMA CopiesShrink ==
  ASSUME TypeOK, Shape,
         \/ Rests \/ (\E p, q \in Place : \E X \in SUBSET Item : Moves(p, q, X))
         \/ (\E t \in Thread : \E x \in Item : Writes(t, x))
         \/ (\E x \in Item : Repeats(x) \/ SettlesMemory(x) \/ SettlesDisk(x))
         \/ Exits \/ Crashes \/ Starts
  PROVE  Copies' \subseteq Copies
<1> SUFFICES ASSUME NEW y \in Copies' PROVE y \in Copies
  OBVIOUS
<1>1. y \in Item /\ ((\E p \in Place : y \in Hold(p)') \/ y \in Disk')
  BY DEF Copies
<1>2. (\E p \in Place : y \in Hold(p)) \/ y \in Disk => y \in Copies
  BY <1>1 DEF Copies
<1>3. CASE Rests \/ \E x \in Item : Repeats(x)
  BY <1>1, <1>2, <1>3 DEF Rests, Repeats
<1>4. ASSUME NEW p \in Place, NEW q \in Place, NEW X, Moves(p, q, X) PROVE y \in Copies
  BY <1>1, <1>2, <1>4 DEF Moves
<1>5. ASSUME NEW t \in Thread, NEW x, Writes(t, x) PROVE y \in Copies
  BY <1>1, <1>2, <1>5 DEF Writes, Acks
<1>6. ASSUME NEW x \in Item, SettlesMemory(x) \/ SettlesDisk(x) PROVE y \in Copies
  BY <1>1, <1>2, <1>6 DEF SettlesMemory, SettlesDisk, Acks
<1>7. CASE Exits \/ Crashes \/ Starts
  BY <1>1, <1>2, <1>7 DEF Exits, Crashes, Starts
<1> QED
  BY <1>3, <1>4, <1>5, <1>6, <1>7

LEMMA CopiesGrow ==
  ASSUME TypeOK, Shape, NEW t \in Producer, NEW x \in Item, Reserves(t, x)
  PROVE  Copies' = Copies \cup {x}
<1>1. \A y : (\E p \in Place : y \in Hold(p)') <=> (y = x \/ \E p \in Place : y \in Hold(p))
  BY DEF Reserves
<1> QED
  BY <1>1 DEF Copies, Reserves

LEMMA NumberedStep ==
  ASSUME TypeOK, Shape, Numbered, Effect, seq' \in Nat, reads' \in Nat
  PROVE  Numbered'
<1>0. /\ seq \in Nat /\ reads \in Nat /\ \A x \in Copies : x.seq <= seq
      /\ \A x \in Copies : x.seq \in Nat
  BY DEF TypeOK, Numbered, Copies, Item
<1>0a. \A p \in Place : \A x \in Hold(p) : x.id \in Log => x.id <= reads
  BY DEF Numbered
<1>0b. \A p \in Place : \A x \in Hold(p) : x.id \in Nat
  BY HoldTyped DEF Item, Payload
<1>1. ASSUME NEW t \in Producer, NEW x \in Item, Reserves(t, x)
      PROVE  Numbered'
  <2>1. \A y \in Copies' : y.seq <= seq'
    BY <1>0, <1>1, CopiesGrow DEF Reserves
  <2>2. ASSUME NEW p \in Place, NEW y \in Hold(p)', y.id \in Log PROVE y.id <= reads'
    <3>1. CASE y = x
      BY <1>0, <1>1, <2>2, <3>1, DeliveryAssumption DEF Reserves
    <3>2. CASE y # x
      BY <1>0, <1>0a, <1>0b, <1>1, <2>2, <3>2 DEF Reserves
    <3> QED
      BY <3>1, <3>2
  <2> QED
    BY <2>1, <2>2 DEF Numbered
<1>2. CASE Starts
  BY <1>2 DEF Starts, Numbered, Copies
<1>3. CASE \/ Rests \/ (\E p, q \in Place : \E X \in SUBSET Item : Moves(p, q, X))
           \/ (\E t \in Thread : \E x \in Item : Writes(t, x))
           \/ (\E x \in Item : Repeats(x) \/ SettlesMemory(x) \/ SettlesDisk(x))
           \/ Exits \/ Crashes
  <2>1. seq' = seq /\ reads' = reads
    BY <1>3 DEF Rests, Moves, Writes, Repeats, SettlesMemory, SettlesDisk, Answered, Exits, Crashes
  <2>2. \A y \in Copies' : y.seq <= seq'
    BY <1>0, <1>3, <2>1, CopiesShrink
  <2>3. \A p \in Place : \A y \in Hold(p)' : \E q \in Place : y \in Hold(q)
    BY <1>3 DEF Rests, Moves, Writes, Acks, Repeats, SettlesMemory, SettlesDisk, Exits, Crashes
  <2>4. \A p \in Place : \A y \in Hold(p)' : y.id \in Log => y.id <= reads'
    BY <1>0a, <2>1, <2>3
  <2> QED
    BY <2>2, <2>4 DEF Numbered
<1> QED
  BY <1>1, <1>2, <1>3 DEF Effect

LEMMA ApartStep ==
  ASSUME TypeOK, Shape, Numbered, Apart, Effect
  PROVE  Apart'
<1>0. /\ \A p, q \in Place : p # q => Hold(p) \cap Hold(q) = {}
      /\ \A p \in Place : Hold(p) \cap Disk = {}
  BY DEF Apart
<1>1. CASE Rests \/ Exits \/ Crashes \/ Starts
  BY <1>0, <1>1 DEF Rests, Exits, Crashes, Starts, Apart
<1>2. ASSUME NEW t \in Producer, NEW x \in Item, Reserves(t, x) PROVE Apart'
  <2>1. x \notin Copies
    BY <1>2 DEF Reserves, Numbered, TypeOK, Item
  <2>2. x \notin Disk /\ \A p \in Place : x \notin Hold(p)
    BY <2>1 DEF Copies
  <2> QED
    BY <1>0, <1>2, <2>2 DEF Reserves, Apart
<1>3. ASSUME NEW p \in Place, NEW q \in Place, NEW X, Moves(p, q, X) PROVE Apart'
  BY <1>0, <1>3 DEF Moves, Apart
<1>4. ASSUME NEW t \in Thread, NEW x \in Item, Writes(t, x) PROVE Apart'
  BY <1>0, <1>4 DEF Writes, Acks, Apart
<1>5. ASSUME NEW x \in Item, Repeats(x) \/ SettlesMemory(x) \/ SettlesDisk(x) PROVE Apart'
  BY <1>0, <1>5 DEF Repeats, SettlesMemory, SettlesDisk, Acks, Apart
<1> QED
  BY <1>1, <1>2, <1>3, <1>4, <1>5 DEF Effect

(* A payload that is received, in a file or dropped stays so. *)
LEMMA SettledStays ==
  ASSUME TypeOK, Effect, NEW i \in Payload, Settled(i)
  PROVE  Settled(i)'
<1>0. /\ received \in [Payload -> Nat]
      /\ received[i] > 0 \/ (\E y \in files : y.id = i) \/ i \in hist.dropped
  BY DEF TypeOK, Settled, Ids
<1>1. (received'[i] > 0 \/ (\E y \in files' : y.id = i) \/ i \in hist'.dropped) => Settled(i)'
  BY DEF Settled, Ids
<1>2. CASE Rests \/ Exits \/ Crashes \/ Starts
  BY <1>0, <1>1, <1>2 DEF Rests, Exits, Crashes, Starts, FilesKept
<1>3. ASSUME NEW t, NEW x, Reserves(t, x) PROVE Settled(i)'
  BY <1>0, <1>1, <1>3 DEF Reserves
<1>4. ASSUME NEW p, NEW q, NEW X, Moves(p, q, X) PROVE Settled(i)'
  BY <1>0, <1>1, <1>4 DEF Moves
<1>5. ASSUME NEW t, NEW x, Writes(t, x) PROVE Settled(i)'
  BY <1>0, <1>1, <1>5 DEF Writes, FilesKept
<1>6. ASSUME NEW x \in Item, Received(x) 
      PROVE  (received[i] > 0 => received'[i] > 0) /\ received'[x.id] > 0
  BY <1>0, <1>6 DEF Received, Item
<1>7. ASSUME NEW x \in Item, Repeats(x) \/ SettlesMemory(x) PROVE Settled(i)'
  BY <1>0, <1>1, <1>6, <1>7 DEF Repeats, SettlesMemory, Answered
<1>8. ASSUME NEW x \in Item, SettlesDisk(x) PROVE Settled(i)'
  BY <1>0, <1>1, <1>6, <1>8 DEF SettlesDisk, Answered
<1> QED
  BY <1>2, <1>3, <1>4, <1>5, <1>7, <1>8 DEF Effect

(* What is acknowledged is settled. *)
LEMMA AckSettles ==
  ASSUME TypeOK, NEW x \in Item, (\E t \in Thread : Writes(t, x)) \/ SettlesMemory(x)
  PROVE  Settled(x.id)'
<1>1. (received'[x.id] > 0 \/ (\E y \in files' : y.id = x.id) \/ x.id \in hist'.dropped) => Settled(x.id)'
  BY DEF Settled, Ids
<1>2. CASE \E t \in Thread : Writes(t, x)
  BY <1>1, <1>2 DEF Writes
<1>3. CASE SettlesMemory(x)
  <2>1. Received(x) => received'[x.id] > 0
    BY DEF Received, TypeOK, Item
  <2> QED
    BY <1>1, <1>3, <2>1 DEF SettlesMemory, Answered
<1> QED
  BY <1>2, <1>3

LEMMA AckedSafeStep ==
  ASSUME TypeOK, AckedSafe, Effect
  PROVE  AckedSafe'
<1>0. \A i \in hist.acked : i \in Payload /\ Settled(i)
  BY DEF AckedSafe, TypeOK, Hist
<1>1. \A i \in hist.acked : Settled(i)'
  BY <1>0, SettledStays
<1>2. \A i \in hist'.acked : i \in hist.acked \/ Settled(i)'
  <2>1. ASSUME NEW x \in Item, (\E t \in Thread : Writes(t, x)) \/ SettlesMemory(x)
        PROVE  \A i \in hist'.acked : i \in hist.acked \/ Settled(i)'
    BY <2>1, AckSettles DEF Writes, SettlesMemory, Acks
  <2>2. CASE \/ Rests \/ (\E t \in Producer : \E x \in Item : Reserves(t, x))
             \/ (\E p, q \in Place : \E X \in SUBSET Item : Moves(p, q, X))
             \/ (\E x \in Item : Repeats(x) \/ SettlesDisk(x))
             \/ Exits \/ Crashes \/ Starts
    BY <2>2 DEF Rests, Reserves, Moves, Repeats, SettlesDisk, Exits, Crashes, Starts
  <2> QED
    BY <2>1, <2>2 DEF Effect
<1> QED
  BY <1>1, <1>2 DEF AckedSafe

(* As long as nothing crashes, a payload leaves memory only when it is settled. *)
LEMMA HeldStays ==
  ASSUME TypeOK, Effect, ~Crashes, NEW i \in Payload, Held(i)
  PROVE  Held(i)' \/ Settled(i)'
<1>00. PICK p \in Place : \E x \in Hold(p) : x.id = i
  BY DEF Held
<1>0. PICK y \in Hold(p) : y.id = i
  BY <1>00
<1>1. \A q \in Place : y \in Hold(q)' => Held(i)'
  BY <1>0 DEF Held
<1>2. CASE Rests \/ Exits \/ Starts
  BY <1>0, <1>1, <1>2 DEF Rests, Exits, Starts
<1>3. ASSUME NEW t \in Producer, NEW x, Reserves(t, x) PROVE Held(i)'
  BY <1>0, <1>1, <1>3 DEF Reserves
<1>4. ASSUME NEW r, NEW q, NEW X, Moves(r, q, X) PROVE Held(i)'
  BY <1>0, <1>1, <1>4 DEF Moves
<1>5. ASSUME NEW x \in Item, (\E t \in Thread : Writes(t, x)) \/ SettlesMemory(x) PROVE Held(i)' \/ Settled(i)'
  <2>1. CASE y = x
    BY <1>0, <1>5, <2>1, AckSettles
  <2>2. CASE y # x
    BY <1>0, <1>1, <1>5, <2>2 DEF Writes, SettlesMemory, Acks
  <2> QED
    BY <2>1, <2>2
<1>6. ASSUME NEW x \in Item, Repeats(x) \/ SettlesDisk(x) PROVE Held(i)'
  BY <1>0, <1>1, <1>6 DEF Repeats, SettlesDisk
<1> QED
  BY <1>2, <1>3, <1>4, <1>5, <1>6 DEF Effect

LEMMA KeptStep ==
  ASSUME TypeOK, Kept, Effect
  PROVE  Kept'
<1> DEFINE P(r, c) == 1..r \cup {Batches + k : k \in 1..c}
<1> SUFFICES ASSUME hist'.crashed = FALSE, NEW i \in P(reads', collected') PROVE Settled(i)' \/ Held(i)'
  BY DEF Kept
<1>1. ~Crashes
  BY DEF Crashes
<1>2. hist.crashed = FALSE
  <2>1. hist'.crashed = hist.crashed
    BY <1>1 DEF Effect, Rests, Reserves, Moves, Writes, Repeats, SettlesMemory, SettlesDisk, Answered,
       Exits, Starts
  <2> QED
    BY <2>1
<1>3. reads \in 0..Batches /\ collected \in 0..Metrics /\ saved \in 0..reads
  BY DeliveryAssumption DEF TypeOK
<1>4. ASSUME NEW j \in P(reads, collected) PROVE Settled(j)' \/ Held(j)'
  <2>1. Settled(j) \/ Held(j)
    BY <1>2, <1>4 DEF Kept
  <2>2. j \in Payload
    BY <1>3, <1>4, DeliveryAssumption DEF Payload
  <2> QED
    BY <1>1, <2>1, <2>2, SettledStays, HeldStays
<1>5. ASSUME NEW t \in Producer, NEW x \in Item, Reserves(t, x) PROVE Settled(i)' \/ Held(i)'
  <2>1. CASE i = x.id
    BY <1>5, <2>1 DEF Reserves, Held
  <2>2. CASE i # x.id
    <3>1. i \in P(reads, collected)
      BY <1>3, <1>5, <2>2, DeliveryAssumption DEF Reserves
    <3> QED
      BY <1>4, <3>1
  <2> QED
    BY <2>1, <2>2
<1>6. CASE Starts
  <2>1. reads' = saved /\ collected' = collected
    BY <1>6 DEF Starts
  <2>2. i \in P(reads, collected)
    BY <1>3, <2>1, DeliveryAssumption
  <2> QED
    BY <1>4, <2>2
<1>7. CASE \/ Rests \/ (\E p, q \in Place : \E X \in SUBSET Item : Moves(p, q, X))
           \/ (\E t \in Thread : \E x \in Item : Writes(t, x))
           \/ (\E x \in Item : Repeats(x) \/ SettlesMemory(x) \/ SettlesDisk(x))
           \/ Exits
  <2>1. reads' = reads /\ collected' = collected
    BY <1>7 DEF Rests, Moves, Writes, Repeats, SettlesMemory, SettlesDisk, Answered, Exits
  <2> QED
    BY <1>4, <2>1
<1> QED
  BY <1>1, <1>5, <1>6, <1>7 DEF Effect

LEMMA LastHeldStep ==
  ASSUME TypeOK, Shape, Numbered, LastHeld, Effect
  PROVE  LastHeld'
<1> SUFFICES ASSUME life' # "down" PROVE committed' = reads' \/ Held(reads)'
  BY DEF LastHeld
<1>0. reads \in Nat /\ committed \in Nat /\ committed <= reads /\ Batches \in Nat /\ reads <= Batches
  BY DeliveryAssumption DEF TypeOK
<1>1. ASSUME NEW t \in Producer, NEW x \in Item, Reserves(t, x) PROVE committed' = reads' \/ Held(reads)'
  <2>1. CASE x.id \in Log
    <3>1. reads' = x.id
      BY <1>0, <1>1, <2>1, DeliveryAssumption DEF Reserves, Log, TypeOK
    <3> QED
      BY <1>1, <3>1 DEF Reserves, Held
  <2>2. CASE x.id \notin Log
    <3>1. reads' = reads /\ committed' = committed /\ life # "down"
      BY <1>1, <2>2 DEF Reserves
    <3>2. Held(reads) => Held(reads)'
      <4>1. \A p \in Place : Hold(p) \subseteq Hold(p)'
        BY <1>1 DEF Reserves
      <4> QED
        BY <3>1, <4>1 DEF Held
    <3> QED
      BY <3>1, <3>2 DEF LastHeld
  <2> QED
    BY <2>1, <2>2
<1>2. CASE Starts
  BY <1>2 DEF Starts
<1>3. ASSUME NEW x \in Item, (\E t \in Thread : Writes(t, x)) \/ SettlesMemory(x)
      PROVE  committed' = reads' \/ Held(reads)'
  <2>1. PICK p \in Place : Acks(p, x)
    BY <1>3 DEF Writes, SettlesMemory, Place, Thread
  <2>2. reads' = reads /\ life # "down"
    BY <1>3 DEF Writes, SettlesMemory, Answered
  <2>3. committed' \in Nat /\ committed <= committed' /\ committed' <= reads /\ (x.id \in Log => x.id <= committed')
    BY <2>1 DEF Acks
  <2>4. CASE committed = reads
    BY <1>0, <2>2, <2>3, <2>4
  <2>5. CASE committed # reads
    <3>0. PICK q \in Place : \E z \in Hold(q) : z.id = reads
      BY <2>2, <2>5 DEF LastHeld, Held
    <3>1. PICK y \in Hold(q) : y.id = reads
      BY <3>0
    <3>2. CASE y = x
      <4>1. reads \in Log
        <5>1. y.id \in Payload
          BY <3>1, HoldTyped DEF Item
        <5> QED
          BY <1>0, <3>1, <5>1 DEF Log, Payload
      <4> QED
        BY <1>0, <2>2, <2>3, <3>1, <3>2, <4>1
    <3>3. CASE y # x
      <4>1. y \in Hold(q)'
        BY <2>1, <3>1, <3>3 DEF Acks
      <4> QED
        BY <2>2, <3>1, <4>1 DEF Held
    <3> QED
      BY <3>2, <3>3
  <2> QED
    BY <2>4, <2>5
<1>4. CASE \/ Rests \/ (\E p, q \in Place : \E X \in SUBSET Item : Moves(p, q, X))
           \/ (\E x \in Item : Repeats(x) \/ SettlesDisk(x))
  <2>1. reads' = reads /\ committed' = committed /\ life # "down"
    BY <1>4 DEF Rests, Moves, Repeats, SettlesDisk, Answered
  <2>2. \A p \in Place : \A y \in Hold(p) : \E q \in Place : y \in Hold(q)'
    BY <1>4 DEF Rests, Moves, Repeats, SettlesDisk
  <2>3. Held(reads) => Held(reads)'
    BY <2>1, <2>2 DEF Held
  <2> QED
    BY <2>1, <2>3 DEF LastHeld
<1>5. ~Exits /\ ~Crashes
  BY DEF Exits, Crashes
<1> QED
  BY <1>1, <1>2, <1>3, <1>4, <1>5 DEF Effect

(* What may be produced grows only in a crash, and with offsets that are not saved. *)
LEMMA DueTyped ==
  ASSUME TypeOK, NEW i \in Payload
  PROVE  Due(i) \in Nat
  BY DEF Due

LEMMA DueStays ==
  ASSUME TypeOK, NEW i \in Payload,
         \/ (\E t \in Producer : \E x \in Item : Reserves(t, x))
         \/ (\E p, q \in Place : \E X \in SUBSET Item : Moves(p, q, X))
         \/ (\E t \in Thread : \E x \in Item : Writes(t, x))
         \/ (\E x \in Item : Repeats(x) \/ SettlesMemory(x) \/ SettlesDisk(x))
         \/ Starts
  PROVE  Due(i)' <= Due(i)
<1>0. /\ reads \in 0..Batches /\ collected \in 0..Metrics /\ committed \in 0..reads
      /\ saved \in 0..tried /\ tried \in 0..committed
      /\ i \in Nat /\ Batches \in Nat
  BY DeliveryAssumption DEF TypeOK, Payload
<1>2. ASSUME NEW t \in Producer, NEW x \in Item, Reserves(t, x) PROVE Due(i)' <= Due(i)
  BY <1>0, <1>2 DEF Due, Stale, Reserves
<1>3. CASE (\E p, q \in Place : \E X \in SUBSET Item : Moves(p, q, X)) \/ (\E x \in Item : Repeats(x) \/ SettlesDisk(x))
  <2>1. UNCHANGED <<reads, collected, committed, tried, saved>> /\ life # "down" /\ life' # "down"
    BY <1>3 DEF Moves, Repeats, SettlesDisk, Answered
  <2>2. Due(i)' = Due(i)
    BY <2>1 DEF Due, Stale
  <2> QED
    BY <2>2, DueTyped
<1>4. CASE (\E t \in Thread : \E x \in Item : Writes(t, x)) \/ (\E x \in Item : SettlesMemory(x))
  <2>1. /\ UNCHANGED <<reads, collected, saved>> /\ life # "down" /\ life' # "down"
        /\ tried' = tried /\ committed' \in Nat /\ committed <= committed'
    BY <1>4 DEF Writes, SettlesMemory, Answered, Acks
  <2> QED
    BY <1>0, <2>1 DEF Due, Stale
<1>5. CASE Starts
  BY <1>0, <1>5 DEF Starts, Due, Stale
<1> QED
  BY <1>2, <1>3, <1>4, <1>5

LEMMA DueGrows ==
  ASSUME TypeOK, LastHeld, NEW i \in Payload, Rests \/ Exits
  PROVE  Due(i)' <= Due(i) \/ (Due(i)' <= Due(i) + 1 /\ faults' = faults + 1)
<1>0. /\ reads \in 0..Batches /\ collected \in 0..Metrics /\ committed \in 0..reads
      /\ saved \in 0..tried /\ tried \in 0..committed
      /\ i \in Nat /\ Batches \in Nat
  BY DeliveryAssumption DEF TypeOK, Payload
<1>1. CASE Rests
  BY <1>0, <1>1 DEF Rests, Due, Stale
<1>2. CASE Exits
  <2>1. ~Held(reads)
    BY <1>2 DEF Exits, Held
  <2>2. committed = reads
    BY <1>2, <2>1 DEF Exits, LastHeld
  <2> QED
    BY <1>0, <1>2, <2>2 DEF Exits, Due, Stale
<1> QED
  BY <1>1, <1>2

(* A copy that is settled is gone. *)
LEMMA CopyGone ==
  ASSUME TypeOK, Shape, Apart, NEW x \in Item,
         SettlesMemory(x) \/ (SettlesDisk(x) /\ faults' <= faults)
  PROVE  x \in Copies /\ x \notin Copies'
<1>0. /\ \A p, q \in Place : p # q => Hold(p) \cap Hold(q) = {}
      /\ \A p \in Place : Hold(p) \cap Disk = {}
  BY DEF Apart
<1>1. CASE SettlesMemory(x)
  <2>1. "export" \in Place /\ x \in Hold("export") /\ x \notin Hold("export")'
    BY <1>1 DEF SettlesMemory, Acks
  <2>2. \A p \in Place : x \notin Hold(p)'
    BY <1>0, <1>1, <2>1 DEF SettlesMemory, Acks
  <2>3. x \notin Disk'
    BY <1>0, <1>1, <2>1 DEF SettlesMemory
  <2> QED
    BY <2>1, <2>2, <2>3 DEF Copies
<1>2. CASE SettlesDisk(x) /\ faults' <= faults
  <2>1. x \in Disk /\ x \notin Disk'
    BY <1>2 DEF SettlesDisk, Answered, TypeOK
  <2>2. \A p \in Place : x \notin Hold(p)'
    BY <1>0, <1>2, <2>1 DEF SettlesDisk
  <2> QED
    BY <2>1, <2>2 DEF Copies
<1> QED
  BY <1>1, <1>2

LEMMA CountedStep ==
  ASSUME TypeOK, Shape, Numbered, Apart, LastHeld, Counted, Effect
  PROVE  Counted'
<1> DEFINE u(i) == Due(i)
           v(i) == Due(i)'
           C(i) == CopiesOf(i)
           D(i) == CopiesOf(i)'
<1>1. IsFiniteSet(Copies)
  BY DEF Counted
<1>2. IsFiniteSet(Copies')
  <2>1. ASSUME NEW t \in Producer, NEW x \in Item, Reserves(t, x) PROVE IsFiniteSet(Copies')
    BY <1>1, <2>1, CopiesGrow, FS_AddElement
  <2>2. CASE Copies' \subseteq Copies
    BY <1>1, <2>2, FS_Subset
  <2> QED
    BY <2>1, <2>2, CopiesShrink DEF Effect
<1> SUFFICES ASSUME NEW i \in Payload
             PROVE  Cardinality(D(i)) + received'[i] + v(i) <= 1 + faults'
  BY <1>2 DEF Counted
<1>3. /\ IsFiniteSet(C(i)) /\ IsFiniteSet(D(i)) /\ Cardinality(C(i)) \in Nat /\ Cardinality(D(i)) \in Nat
  <2>1. C(i) \subseteq Copies /\ D(i) \subseteq Copies'
    BY DEF CopiesOf
  <2>2. IsFiniteSet(C(i)) /\ IsFiniteSet(D(i))
    BY <1>1, <1>2, <2>1, FS_Subset
  <2> QED
    BY <2>2, FS_CardinalityType
<1>4. Cardinality(C(i)) + received[i] + u(i) <= 1 + faults
  BY DEF Counted
<1>5. received[i] \in Nat /\ faults \in Nat
  BY DEF TypeOK
<1>6. u(i) \in Nat /\ v(i) \in Nat
  <2>1. Due(i)' \in Nat
    BY DEF Due
  <2> QED
    BY <2>1, DueTyped
<1>8. Copies' \subseteq Copies => Cardinality(D(i)) <= Cardinality(C(i))
  <2>1. ASSUME Copies' \subseteq Copies PROVE D(i) \in SUBSET C(i)
    BY <2>1 DEF CopiesOf
  <2> QED
    BY <1>3, <2>1, FS_Subset
<1>9. ASSUME NEW x \in Item, x.id = i, x \in Copies, x \notin Copies', Copies' \subseteq Copies
      PROVE  Cardinality(D(i)) + 1 <= Cardinality(C(i))
  <2>1. x \in C(i) /\ x \notin D(i) /\ D(i) \subseteq C(i)
    BY <1>9 DEF CopiesOf
  <2>2. IsFiniteSet(D(i) \cup {x}) /\ Cardinality(D(i) \cup {x}) = Cardinality(D(i)) + 1
    BY <1>3, <2>1, FS_AddElement
  <2>3. D(i) \cup {x} \in SUBSET C(i)
    BY <2>1
  <2> HIDE DEF C, D
  <2> QED
    BY <1>3, <2>2, <2>3, FS_Subset
<1>10. ASSUME NEW x \in Item, Received(x)
       PROVE  received'[i] = IF x.id = i THEN received[i] + 1 ELSE received[i]
  BY <1>10 DEF Received, TypeOK
<1> HIDE DEF u, v, C, D
<1>11. ASSUME NEW t \in Producer, NEW x \in Item, Reserves(t, x)
       PROVE  Cardinality(D(i)) + received'[i] + v(i) <= 1 + faults'
  <2>1. received' = received /\ faults' = faults /\ v(i) <= u(i)
    BY <1>11, DueStays DEF Reserves, u, v
  <2>2. Copies' = Copies \cup {x}
    BY <1>11, CopiesGrow
  <2>3. CASE x.id # i
    <3>1. D(i) = C(i)
      BY <2>2, <2>3 DEF C, D, CopiesOf
    <3> QED
      BY <1>3, <1>4, <1>5, <1>6, <2>1, <3>1
  <2>4. CASE x.id = i
    <3>1. D(i) = C(i) \cup {x}
      BY <2>2, <2>4 DEF C, D, CopiesOf
    <3>2. Cardinality(D(i)) <= Cardinality(C(i)) + 1
      BY <1>3, <3>1, FS_AddElement
    <3>3. v(i) + 1 = u(i)
      BY <1>11, <2>4, DeliveryAssumption DEF Reserves, Due, Stale, TypeOK, u, v
    <3> QED
      BY <1>3, <1>4, <1>5, <1>6, <2>1, <3>2, <3>3
  <2> QED
    BY <2>3, <2>4
<1>12. CASE \/ Rests \/ (\E p, q \in Place : \E X \in SUBSET Item : Moves(p, q, X))
            \/ (\E t \in Thread : \E x \in Item : Writes(t, x)) \/ Exits \/ Starts
  <2>1. received' = received /\ faults <= faults' /\ faults' \in Nat
    BY <1>5, <1>12 DEF Rests, Moves, Writes, Exits, Starts
  <2>3. v(i) <= u(i) \/ (v(i) <= u(i) + 1 /\ faults' = faults + 1)
    BY <1>12, DueStays, DueGrows DEF u, v
  <2>2. Cardinality(D(i)) <= Cardinality(C(i))
    BY <1>8, <1>12, CopiesShrink
  <2> QED
    BY <1>3, <1>4, <1>5, <1>6, <2>1, <2>2, <2>3
<1>13. CASE Crashes
  <2>1. received' = received /\ faults' = faults + 1
    BY <1>13 DEF Crashes
  <2>2. Cardinality(D(i)) <= Cardinality(C(i))
    BY <1>8, <1>13, CopiesShrink
  <2>3. v(i) <= u(i) + 1
    BY <1>13, DeliveryAssumption DEF Crashes, Due, TypeOK, u, v
  <2> QED
    BY <1>3, <1>4, <1>5, <1>6, <2>1, <2>2, <2>3
<1>14. ASSUME NEW x \in Item, Repeats(x)
       PROVE  Cardinality(D(i)) + received'[i] + v(i) <= 1 + faults'
  <2>1. Received(x) /\ faults' = faults + 1 /\ v(i) <= u(i)
    BY <1>14, DueStays DEF Repeats, u, v
  <2>2. Cardinality(D(i)) <= Cardinality(C(i))
    BY <1>8, <1>14, CopiesShrink
  <2>3. received'[i] \in Nat /\ received'[i] <= received[i] + 1
    BY <1>5, <1>10, <2>1
  <2> QED
    BY <1>3, <1>4, <1>5, <1>6, <2>1, <2>2, <2>3
<1>15. ASSUME NEW x \in Item, SettlesMemory(x) \/ SettlesDisk(x)
       PROVE  Cardinality(D(i)) + received'[i] + v(i) <= 1 + faults'
  <2>1. /\ Received(x) \/ received' = received
        /\ faults <= faults' /\ faults' \in Nat
        /\ v(i) <= u(i)
    BY <1>15, DueStays DEF SettlesMemory, SettlesDisk, Answered, u, v
  <2>2. Copies' \subseteq Copies
    BY <1>15, CopiesShrink
  <2>3. Cardinality(D(i)) <= Cardinality(C(i))
    BY <1>8, <2>2
  <2>4. /\ received'[i] \in Nat /\ received'[i] <= received[i] + 1
        /\ x.id # i => received'[i] = received[i]
    BY <1>5, <1>10, <2>1
  <2>5. CASE x.id # i \/ faults < faults'
    BY <1>3, <1>4, <1>5, <1>6, <2>1, <2>3, <2>4, <2>5
  <2>6. CASE x.id = i /\ faults' <= faults
    <3>1. x \in Copies /\ x \notin Copies'
      BY <1>15, <2>6, CopyGone
    <3>2. Cardinality(D(i)) + 1 <= Cardinality(C(i))
      BY <1>9, <2>2, <2>6, <3>1
    <3> QED
      BY <1>3, <1>4, <1>5, <1>6, <2>1, <2>4, <3>2
  <2> QED
    BY <1>5, <2>1, <2>5, <2>6
<1> QED
  BY <1>11, <1>12, <1>13, <1>14, <1>15 DEF Effect

(* The queue and the hands of the threads hold a copy once. *)
LEMMA NoRepeatsStep ==
  ASSUME TypeOK, Shape, Apart, NoRepeats, Next
  PROVE  NoRepeats'
<1>0. /\ IsInjective(queue) /\ queue \in Seq(Item)
      /\ \A t \in Thread : IsInjective(hands[t]) /\ hands[t] \in Seq(Item)
      /\ hands \in [Thread -> Seq(Item)] /\ "queue" \in Place
  BY DEF NoRepeats, TypeOK, Place
<1>1. ASSUME NEW t \in Producer PROVE pc[t] \in {"enqueue", "full"} => item[t] \in Item /\ item[t] \notin Range(queue)
  <2>1. t \in Place /\ t # "queue" /\ t # "export"
    BY DEF Place, Producer, Thread
  <2>2. pc[t] \in {"enqueue", "full"} => item[t] \in Item /\ item[t] # None
    BY DeliveryAssumption DEF Shape, Item, None, Payload
  <2>3. pc[t] \in {"enqueue", "full"} => item[t] \in Hold(t)
    BY <2>1, <2>2 DEF Hold
  <2>4. Hold("queue") = Range(queue) /\ Hold(t) \cap Hold("queue") = {}
    BY <1>0, <2>1 DEF Hold, Apart
  <2> QED
    BY <2>2, <2>3, <2>4
<1>2. ASSUME NEW t \in Producer, Append1(t) PROVE NoRepeats'
  <2>1. queue' = Append(queue, item[t]) /\ hands' = hands /\ pc[t] = "enqueue"
    BY <1>2 DEF Append1
  <2>2. IsInjective(queue')
    BY <1>0, <1>1, <2>1, RangeAppend
  <2> QED
    BY <1>0, <2>1, <2>2 DEF NoRepeats
<1>3. ASSUME NEW t \in Producer, TakeQueue(t) PROVE NoRepeats'
  <2>1. queue' = <<>> /\ hands' = [hands EXCEPT ![t] = Append(queue, item[t])] /\ pc[t] = "full"
    BY <1>3 DEF TakeQueue
  <2>2. IsInjective(Append(queue, item[t]))
    BY <1>0, <1>1, <2>1, RangeAppend
  <2> QED
    BY <1>0, <2>1, <2>2, RangeEmpty DEF NoRepeats, Producer, Thread
<1>4. ASSUME NEW t \in Thread, Spill(t) PROVE NoRepeats'
  <2>1. queue' = queue /\ hands' = [hands EXCEPT ![t] = Tail(hands[t])] /\ hands[t] # <<>>
    BY <1>4 DEF Spill
  <2>2. IsInjective(Tail(hands[t]))
    BY <1>0, <2>1, RangeTail
  <2> QED
    BY <1>0, <2>1, <2>2 DEF NoRepeats
<1>5. CASE PickMemory
  <2>1. queue' = Tail(queue) /\ hands' = hands /\ queue # <<>>
    BY <1>5 DEF PickMemory, MemoryFirst
  <2>2. IsInjective(Tail(queue))
    BY <1>0, <2>1, RangeTail
  <2> QED
    BY <1>0, <2>1, <2>2 DEF NoRepeats
<1>6. CASE SendFails
  <2>1. /\ queue' = queue /\ flight.what \in Item /\ flight.memory \in BOOLEAN
        /\ hands' = [hands EXCEPT !["export"] = IF flight.memory THEN <<flight.what>> ELSE <<>>]
    BY <1>6 DEF SendFails, Shape, TypeOK
  <2>2. IsInjective(<<flight.what>>) /\ IsInjective(<<>>)
    BY <2>1, RangeOne, RangeEmpty
  <2> QED
    BY <1>0, <2>1, <2>2 DEF NoRepeats, Thread
<1>7. CASE SpillRest \/ Close
  <2>1. PICK u \in Thread : queue' = <<>> /\ hands' = [hands EXCEPT ![u] = queue]
    BY <1>7 DEF SpillRest, Close, Thread
  <2> QED
    BY <1>0, <2>1, RangeEmpty DEF NoRepeats
<1>8. CASE Exit \/ Crash
  <2>1. Ended
    BY <1>8 DEF Exit, Crash
  <2> QED
    BY <2>1, EndedTyped, RangeEmpty DEF NoRepeats
<1>9. CASE UNCHANGED <<queue, hands>>
  BY <1>9 DEF NoRepeats
<1>10. CASE \/ Collect \/ Tick \/ Emit \/ EndTick \/ SaveState \/ (\E t \in Producer : QueueFull(t) \/ Spilled(t))
            \/ Drained \/ Peek \/ PickDisk \/ PickNothing \/ AnswerLost \/ Accept \/ Rejected
            \/ Failed \/ Retry \/ Wake \/ Stop \/ Drain \/ CancelExport \/ Start
  BY <1>9, <1>10 DEF Collect, Tick, Emit, EndTick, SaveState, QueueFull, Spilled, Drained, Peek, PickDisk,
     PickNothing, AnswerLost, Accept, Rejected, Failed, Retry, Wake, Stop, Drain, CancelExport, Start, lifeVars
<1> QED
  BY <1>2, <1>3, <1>4, <1>5, <1>6, <1>7, <1>8, <1>10 DEF Next

-----------------------------------------------------------------------------
(* The theorems. *)

(* It holds initially, and every step keeps it. *)
LEMMA InitIInv == Init => IInv
<1> SUFFICES ASSUME Init PROVE IInv
  OBVIOUS
<1>1. TypeOK
  <2>1. hist \in Hist
    BY DEF Init, Hist
  <2>2. flight \in [what : Item \cup {None}, memory : BOOLEAN]
    BY NoFlightTyped DEF Init
  <2>3. wake \in BOOLEAN
    BY DEF Init
  <2>4. queue \in Seq(Item) /\ Len(queue) <= MaxItems
    BY DeliveryAssumption DEF Init
  <2>5. /\ pc["main"] = "idle" /\ pc["logs"] = "idle" /\ pc["export"] = "top"
        /\ item \in [Producer -> Item \cup {None}] /\ hands \in [Thread -> Seq(Item)]
    BY DEF Init, Thread, Producer
  <2>6. received \in [Payload -> Nat]
    BY DEF Init
  <2>7. /\ seq \in Nat /\ saved \in 0..tried /\ tried \in 0..committed /\ committed \in 0..reads /\ reads \in 0..Batches
        /\ collected \in 0..Metrics /\ stops \in 0..MaxStops /\ faults \in 0..MaxFaults
    BY DeliveryAssumption DEF Init
  <2>8. size \in Sizes /\ life = "up" /\ index = {} /\ files = {} /\ peeked = None
    BY DEF Init
  <2> QED
    BY <2>1, <2>2, <2>3, <2>4, <2>5, <2>6, <2>7, <2>8 DEF TypeOK
<1>2. Shape
  BY DEF Init, Shape, Label, Thread, Producer
<1>3. \A p \in Place : Hold(p) = {}
  <2>1. flight = NoFlight /\ queue = <<>> /\ (\A t \in Thread : hands[t] = <<>>) /\ \A t \in Producer : item[t] = None
    BY DEF Init, Thread, Producer
  <2> QED
    BY <2>1, NotSending, RangeEmpty DEF Hold, Place, Thread, Producer
<1>4. Disk = {}
  <2>1. flight = NoFlight /\ peeked = None /\ files = {}
    BY DEF Init
  <2> QED
    BY <2>1, NotSending DEF Disk
<1>5. Copies = {}
  BY <1>3, <1>4 DEF Copies
<1>6. Numbered /\ Apart
  BY <1>3, <1>4, <1>5 DEF Numbered, Apart
<1>7. NoRepeats
  BY RangeEmpty DEF Init, NoRepeats
<1>8. AckedSafe /\ LastHeld
  BY DEF Init, AckedSafe, LastHeld
<1>9. Kept
  BY DEF Init, Kept
<1>10. Counted
  <2>1. \A i \in Payload : CopiesOf(i) = {} /\ received[i] = 0
    BY <1>5 DEF CopiesOf, Init
  <2>2. faults = 0
    BY DEF Init
  <2>3. \A i \in Payload : Due(i) \in {0, 1}
    BY DEF Init, Due, Stale
  <2> QED
    BY <1>5, <2>1, <2>2, <2>3, FS_EmptySet DEF Counted
<1> QED
  BY <1>1, <1>2, <1>6, <1>7, <1>8, <1>9, <1>10 DEF IInv

LEMMA NextIInv == IInv /\ [Next]_vars => IInv'
<1> SUFFICES ASSUME IInv, [Next]_vars PROVE IInv'
  OBVIOUS
<1>0. TypeOK /\ Shape /\ Numbered /\ Apart /\ NoRepeats /\ AckedSafe /\ LastHeld /\ Kept /\ Counted
  BY DEF IInv
<1>1. CASE Next
  <2>1. TypeOK' /\ Shape'
    BY <1>0, <1>1, TypeStep, ShapeStep
  <2>2. Effect
    BY <1>0, <1>1, StepEffect
  <2>3. seq' \in Nat /\ reads' \in Nat
    BY <2>1 DEF TypeOK
  <2>4. Numbered'
    BY <1>0, <2>2, <2>3, NumberedStep
  <2>5. Apart' /\ NoRepeats'
    BY <1>0, <1>1, <2>2, ApartStep, NoRepeatsStep
  <2>6. AckedSafe' /\ LastHeld' /\ Kept' /\ Counted'
    BY <1>0, <2>2, AckedSafeStep, LastHeldStep, KeptStep, CountedStep
  <2> QED
    BY <2>1, <2>4, <2>5, <2>6 DEF IInv
<1>2. CASE UNCHANGED vars
  <2> USE <1>2 DEF vars, bufferVars, producerVars, worldVars
  <2>1. TypeOK' /\ Shape' /\ NoRepeats'
    BY <1>0 DEF TypeOK, Shape, NoRepeats
  <2>2. \A p \in Place : Hold(p)' = Hold(p)
    BY Unmoved
  <2>3. Disk' = Disk
    BY DEF Disk, Sending
  <2>4. Copies' = Copies
    BY <2>2, <2>3 DEF Copies
  <2>5. Numbered' /\ Apart'
    BY <1>0, <2>2, <2>3, <2>4 DEF Numbered, Apart
  <2>6. \A i : Settled(i)' = Settled(i) /\ Held(i)' = Held(i)
    BY <2>2 DEF Settled, Ids, Held
  <2>7. AckedSafe' /\ LastHeld' /\ Kept'
    BY <1>0, <2>6 DEF AckedSafe, LastHeld, Kept
  <2>8. \A i : Due(i)' = Due(i) /\ CopiesOf(i)' = CopiesOf(i)
    BY <2>4 DEF Due, Stale, CopiesOf
  <2>9. Counted'
    BY <1>0, <2>4, <2>8 DEF Counted
  <2> QED
    BY <2>1, <2>5, <2>7, <2>9 DEF IInv
<1> QED
  BY <1>1, <1>2

(* The inductive invariant holds in every reachable state. *)
THEOREM Invariance == Spec => []IInv
  BY InitIInv, NextIInv, PTL DEF Spec

(* The invariant gives the properties that the runs check. *)
LEMMA IInvImplies == IInv => TypeOK /\ AckedSafe /\ ShutdownKeeps /\ DuplicatesExcused
<1> SUFFICES ASSUME IInv PROVE TypeOK /\ AckedSafe /\ ShutdownKeeps /\ DuplicatesExcused
  OBVIOUS
<1>1. TypeOK /\ Shape /\ AckedSafe /\ Kept /\ Counted
  BY DEF IInv
<1>2. ASSUME life = "down", ~hist.crashed,
             NEW i \in 1..reads \cup {Batches + k : k \in 1..collected}
      PROVE  Settled(i)
  <2>1. queue = <<>> /\ pc["export"] = "stopped" /\ pc["logs"] = "idle" /\ pc["main"] = "idle"
    BY <1>1, <1>2 DEF Shape
  <2>2. flight = NoFlight /\ (\A t \in Thread : hands[t] = <<>>) /\ \A t \in Producer : item[t] = None
    BY <1>1, <2>1 DEF Shape, Thread, Producer
  <2>3. \A p \in Place : Hold(p) = {}
    BY <2>1, <2>2, NotSending, RangeEmpty DEF Hold, Place, Thread, Producer
  <2>4. ~Held(i)
    BY <2>3 DEF Held
  <2>5. hist.crashed = FALSE
    BY <1>1, <1>2 DEF TypeOK, Hist
  <2> QED
    BY <1>1, <1>2, <2>4, <2>5 DEF Kept
<1>3. ASSUME NEW i \in Payload PROVE received[i] <= 1 + faults
  <2>1. IsFiniteSet(CopiesOf(i))
    <3>1. CopiesOf(i) \subseteq Copies /\ IsFiniteSet(Copies)
      BY <1>1 DEF CopiesOf, Counted
    <3> QED
      BY <3>1, FS_Subset
  <2>2. Cardinality(CopiesOf(i)) \in Nat
    BY <2>1, FS_CardinalityType
  <2>3. Cardinality(CopiesOf(i)) + received[i] + Due(i) <= 1 + faults
    BY <1>1 DEF Counted
  <2>4. received[i] \in Nat /\ faults \in Nat /\ Due(i) \in Nat
    BY <1>1, DueTyped DEF TypeOK
  <2> QED
    BY <2>2, <2>3, <2>4
<1> QED
  BY <1>1, <1>2, <1>3 DEF ShutdownKeeps, DuplicatesExcused

(***************************************************************************)
(* Every variable keeps its type; in particular the committed offset never *)
(* passes what was read, the saved one never passes the committed one, and *)
(* the queue stays within its limit.                                       *)
(***************************************************************************)
THEOREM TypeCorrect == Spec => []TypeOK
  BY Invariance, IInvImplies, PTL

(***************************************************************************)
(* An acknowledged payload is never at risk again: it is received, in a    *)
(* file, or dropped for good.                                              *)
(***************************************************************************)
THEOREM AckedStaysSafe == Spec => []AckedSafe
  BY Invariance, IInvImplies, PTL

(***************************************************************************)
(* A shutdown without a crash loses nothing that was read or collected,    *)
(* also when the time for draining is over and the memory is written out.  *)
(***************************************************************************)
THEOREM ShutdownLosesNothing == Spec => []ShutdownKeeps
  BY Invariance, IInvImplies, PTL

(***************************************************************************)
(* The ingest gets a payload at most once more often than there were       *)
(* faults: at-least-once delivery repeats nothing on its own.              *)
(***************************************************************************)
THEOREM OneMorePerFault == Spec => []DuplicatesExcused
  BY Invariance, IInvImplies, PTL
-----------------------------------------------------------------------------
(* Sums over finite sets, as the community modules define them. *)

(* A set of numbers with 0 and the successors of its members has all of them. *)
LEMMA SetInduction ==
  ASSUME NEW S, 0 \in S, \A n \in Nat : n \in S => n + 1 \in S
  PROVE  Nat \subseteq S
<1> SUFFICES ASSUME Nat \ S # {} PROVE FALSE
  OBVIOUS
<1>1. PICK x \in Nat \ S : \A y \in Nat \ S : ~(<<y, x>> \in OpToRel(<, Nat))
  <2>1. Nat \ S \subseteq Nat
    OBVIOUS
  <2> HIDE DEF OpToRel
  <2>2. QED
    BY <2>1, WFMin, NatLessThanWellFounded, Zenon
<1>2. x # 0 /\ x - 1 \in Nat
  OBVIOUS
<1>3. <<x - 1, x>> \in OpToRel(<, Nat)
  BY <1>2 DEF OpToRel
<1>4. x - 1 \in S
  BY <1>1, <1>2, <1>3
<1>5. (x - 1) + 1 \in S
  BY <1>2, <1>4
<1>6. QED
  BY <1>5

Chosen(T) == CHOOSE x \in T : TRUE

(* g is the sum of f over every subset of S. *)
Sums(g, f, S) ==
    g = [T \in SUBSET S |-> IF T = {} THEN 0 ELSE f[Chosen(T)] + g[T \ {Chosen(T)}]]

LEMMA SumIs ==
  ASSUME NEW f, NEW S
  PROVE  SumFunctionOnSet(f, S) = (CHOOSE g : Sums(g, f, S))[S]
BY DEF SumFunctionOnSet, FoldFunctionOnSet, MapThenFoldSet, Sums, Chosen

LEMMA RemoveChosen ==
  ASSUME NEW T, IsFiniteSet(T), T # {}
  PROVE  /\ Chosen(T) \in T /\ T \ {Chosen(T)} \subseteq T /\ IsFiniteSet(T \ {Chosen(T)})
         /\ Cardinality(T) \in Nat /\ Cardinality(T \ {Chosen(T)}) = Cardinality(T) - 1
BY FS_RemoveElement, FS_CardinalityType DEF Chosen

LEMMA SumsExist ==
  ASSUME NEW f, NEW S, IsFiniteSet(S)
  PROVE  \E g : Sums(g, f, S)
<1> DEFINE Body(g, T) == IF T = {} THEN 0 ELSE f[Chosen(T)] + g[T \ {Chosen(T)}]
           Ok(n) == \E g : \A T \in SUBSET S : Cardinality(T) <= n => g[T] = Body(g, T)
           N == {n \in Nat : Ok(n)}
<1>0. \A T \in SUBSET S : IsFiniteSet(T) /\ Cardinality(T) \in Nat
  BY FS_Subset, FS_CardinalityType
<1>1. 0 \in N
  <2> DEFINE g == [T \in SUBSET S |-> 0]
  <2>1. ASSUME NEW T \in SUBSET S, Cardinality(T) <= 0 PROVE T = {}
    BY <1>0, <2>1, FS_EmptySet
  <2>2. \A T \in SUBSET S : Cardinality(T) <= 0 => g[T] = Body(g, T)
    BY <2>1
  <2> QED
    BY <2>2
<1>2. ASSUME NEW n \in Nat, n \in N PROVE n + 1 \in N
  <2>1. PICK g : \A T \in SUBSET S : Cardinality(T) <= n => g[T] = Body(g, T)
    BY <1>2
  <2> DEFINE h == [T \in SUBSET S |-> IF Cardinality(T) <= n THEN g[T] ELSE Body(g, T)]
  <2>2. ASSUME NEW T \in SUBSET S, Cardinality(T) <= n + 1 PROVE h[T] = Body(h, T)
    <3>1. CASE T = {}
      BY <2>1, <3>1
    <3>2. CASE T # {}
      <4> DEFINE R == T \ {Chosen(T)}
      <4>1. R \in SUBSET S /\ Cardinality(T) \in Nat /\ Cardinality(R) = Cardinality(T) - 1
        BY <1>0, <3>2, RemoveChosen
      <4>2. Cardinality(R) <= n
        BY <2>2, <4>1
      <4>3. h[R] = g[R]
        BY <4>1, <4>2
      <4>4. h[T] = Body(g, T)
        BY <2>1
      <4>5. Body(h, T) = f[Chosen(T)] + h[R] /\ Body(g, T) = f[Chosen(T)] + g[R]
        BY <3>2
      <4> QED
        BY <4>3, <4>4, <4>5
    <3> QED
      BY <3>1, <3>2
  <2>3. \A T \in SUBSET S : Cardinality(T) <= n + 1 => h[T] = Body(h, T)
    BY <2>2
  <2> HIDE DEF h, Body
  <2> QED
    BY <2>3
<1> HIDE DEF N
<1>3. Nat \subseteq N
  BY <1>1, <1>2, SetInduction
<1>4. Ok(Cardinality(S))
  BY <1>0, <1>3 DEF N
<1>5. PICK g : \A T \in SUBSET S : Cardinality(T) <= Cardinality(S) => g[T] = Body(g, T)
  BY <1>4
<1>6. \A T \in SUBSET S : Cardinality(T) <= Cardinality(S)
  BY FS_Subset
<1> DEFINE h == [T \in SUBSET S |-> g[T]]
<1>7. \A T \in SUBSET S : Body(h, T) = Body(g, T)
  BY DEF Chosen
<1>8. h = [T \in SUBSET S |-> Body(h, T)]
  BY <1>5, <1>6, <1>7
<1> QED
  BY <1>8 DEF Sums

LEMMA SumsEqual ==
  ASSUME NEW f, NEW g, NEW S, NEW R, NEW h, IsFiniteSet(S), Sums(g, f, S), R \subseteq S, Sums(h, f, R)
  PROVE  \A T \in SUBSET R : g[T] = h[T]
<1> DEFINE N == {n \in Nat : \A T \in SUBSET R : Cardinality(T) = n => g[T] = h[T]}
<1>0. \A T \in SUBSET R : T \in SUBSET S /\ IsFiniteSet(T) /\ Cardinality(T) \in Nat
  BY FS_Subset, FS_CardinalityType
<1>1. 0 \in N
  <2>1. ASSUME NEW T \in SUBSET R, Cardinality(T) = 0 PROVE T = {}
    BY <1>0, <2>1, FS_EmptySet
  <2> QED
    BY <2>1, <1>0 DEF Sums
<1>2. ASSUME NEW n \in Nat, n \in N PROVE n + 1 \in N
  <2>1. ASSUME NEW T \in SUBSET R, Cardinality(T) = n + 1 PROVE g[T] = h[T]
    <3>1. T # {}
      BY <2>1, FS_EmptySet
    <3> DEFINE Q == T \ {Chosen(T)}
    <3>2. Q \in SUBSET R /\ Cardinality(Q) = n
      BY <1>0, <2>1, <3>1, RemoveChosen
    <3>3. g[Q] = h[Q]
      BY <1>2, <3>2
    <3>4. g[T] = f[Chosen(T)] + g[Q] /\ h[T] = f[Chosen(T)] + h[Q]
      BY <1>0, <3>1 DEF Sums
    <3> QED
      BY <3>3, <3>4
  <2> QED
    BY <2>1
<1> HIDE DEF N
<1>3. Nat \subseteq N
  BY <1>1, <1>2, SetInduction
<1> QED
  BY <1>0, <1>3 DEF N

(* A family with the empty set and, with a subset of S, that subset and one more member, has S. *)
LEMMA SubsetInduction ==
  ASSUME NEW S, IsFiniteSet(S), NEW F, {} \in F,
         \A T \in SUBSET S, x \in S : T \in F /\ x \notin T => T \cup {x} \in F
  PROVE  S \in F
<1> DEFINE N == {n \in Nat : \A T \in SUBSET S : Cardinality(T) = n => T \in F}
<1>0. \A T \in SUBSET S : IsFiniteSet(T) /\ Cardinality(T) \in Nat
  BY FS_Subset, FS_CardinalityType
<1>1. 0 \in N
  BY <1>0, FS_EmptySet
<1>2. ASSUME NEW n \in Nat, n \in N PROVE n + 1 \in N
  <2>1. ASSUME NEW T \in SUBSET S, Cardinality(T) = n + 1 PROVE T \in F
    <3>1. T # {}
      <4>1. Cardinality({}) = 0
        BY FS_EmptySet
      <4> QED
        BY <2>1, <4>1
    <3> DEFINE x == Chosen(T)
               Q == T \ {x}
    <3>2. x \in T /\ Q \in SUBSET S /\ Cardinality(Q) = n
      BY <1>0, <2>1, <3>1, RemoveChosen
    <3>3. Q \in F /\ x \in S /\ x \notin Q /\ Q \cup {x} = T
      BY <1>2, <3>2
    <3> HIDE DEF x, Q
    <3> QED
      BY <3>2, <3>3
  <2> QED
    BY <2>1
<1> HIDE DEF N
<1>3. Nat \subseteq N
  BY <1>1, <1>2, SetInduction
<1> QED
  BY <1>0, <1>3 DEF N

LEMMA SumTable ==
  ASSUME NEW f, NEW S, IsFiniteSet(S)
  PROVE  \E g : Sums(g, f, S) /\ \A T \in SUBSET S : SumFunctionOnSet(f, T) = g[T]
<1>1. PICK g : Sums(g, f, S)
  BY SumsExist
<1>2. ASSUME NEW T \in SUBSET S PROVE SumFunctionOnSet(f, T) = g[T]
  <2> DEFINE h == CHOOSE k : Sums(k, f, T)
  <2>1. Sums(h, f, T)
    BY FS_Subset, SumsExist
  <2>2. SumFunctionOnSet(f, T) = h[T]
    BY SumIs
  <2> HIDE DEF h
  <2> QED
    BY <1>1, <2>1, <2>2, SumsEqual
<1> QED
  BY <1>1, <1>2

LEMMA SumEmpty ==
  ASSUME NEW f
  PROVE  SumFunctionOnSet(f, {}) = 0
<1>1. IsFiniteSet({})
  BY FS_EmptySet
<1>2. PICK g : Sums(g, f, {}) /\ \A T \in SUBSET {} : SumFunctionOnSet(f, T) = g[T]
  BY <1>1, SumTable
<1> QED
  BY <1>2 DEF Sums

LEMMA SumChosen ==
  ASSUME NEW f, NEW S, IsFiniteSet(S), S # {}
  PROVE  SumFunctionOnSet(f, S) = f[Chosen(S)] + SumFunctionOnSet(f, S \ {Chosen(S)})
<1>1. PICK g : Sums(g, f, S) /\ \A T \in SUBSET S : SumFunctionOnSet(f, T) = g[T]
  BY SumTable
<1>2. S \ {Chosen(S)} \in SUBSET S
  OBVIOUS
<1>3. g[S] = f[Chosen(S)] + g[S \ {Chosen(S)}]
  BY <1>1 DEF Sums
<1> QED
  BY <1>1, <1>2, <1>3

(* Any member may be taken first. *)
LEMMA SumInts ==
  ASSUME NEW f, NEW S, IsFiniteSet(S), \A x \in S : f[x] \in Int
  PROVE  /\ SumFunctionOnSet(f, S) \in Int
         /\ \A y \in S : SumFunctionOnSet(f, S) = f[y] + SumFunctionOnSet(f, S \ {y})
<1> DEFINE s(T) == SumFunctionOnSet(f, T)
           Ok(T) == s(T) \in Int /\ \A y \in T : s(T) = f[y] + s(T \ {y})
           N == {n \in Nat : \A T \in SUBSET S : Cardinality(T) <= n => Ok(T)}
<1>0. \A T \in SUBSET S : IsFiniteSet(T) /\ Cardinality(T) \in Nat
  BY FS_Subset, FS_CardinalityType
<1>1. 0 \in N
  <2>1. ASSUME NEW T \in SUBSET S, Cardinality(T) <= 0 PROVE T = {}
    BY <1>0, <2>1, FS_EmptySet
  <2>2. Ok({})
    BY SumEmpty
  <2> HIDE DEF Ok
  <2> QED
    BY <2>1, <2>2
<1>2. ASSUME NEW n \in Nat, n \in N PROVE n + 1 \in N
  <2>1. ASSUME NEW T \in SUBSET S, Cardinality(T) = n + 1 PROVE Ok(T)
    <3>1. T # {}
      BY <2>1, FS_EmptySet
    <3>2. PICK x : x = Chosen(T)
      OBVIOUS
    <3>3. x \in T /\ T \ {x} \in SUBSET S /\ Cardinality(T \ {x}) = n
      BY <1>0, <2>1, <3>1, <3>2, RemoveChosen
    <3>4. s(T) = f[x] + s(T \ {x})
      BY <1>0, <3>1, <3>2, SumChosen
    <3>5. Ok(T \ {x})
      <4> HIDE DEF Ok
      <4>1. Cardinality(T \ {x}) <= n
        BY <3>3
      <4> QED
        BY <1>2, <3>3, <4>1
    <3>6. s(T) \in Int
      BY <3>3, <3>4, <3>5
    <3>7. ASSUME NEW y \in T PROVE s(T) = f[y] + s(T \ {y})
      <4>1. CASE y = x
        BY <3>4, <4>1
      <4>2. CASE y # x
        <5>1. Cardinality(T \ {y}) = n /\ T \ {y} \in SUBSET S
          BY <1>0, <2>1, FS_RemoveElement
        <5>2. Ok(T \ {y})
          <6> HIDE DEF Ok
          <6>1. Cardinality(T \ {y}) <= n
            BY <5>1
          <6> QED
            BY <1>2, <5>1, <6>1
        <5>3. s(T \ {x}) = f[y] + s((T \ {x}) \ {y})
          BY <3>5, <4>2
        <5>4. s(T \ {y}) = f[x] + s((T \ {y}) \ {x})
          BY <3>3, <4>2, <5>2
        <5>5. PICK W : W = (T \ {x}) \ {y} /\ W = (T \ {y}) \ {x} /\ W \in SUBSET S
          BY <3>3
        <5>6. Cardinality(W) <= n
          BY <1>0, <3>3, <5>5, FS_Subset
        <5>7. s(T \ {x}) \in Int /\ s(T \ {y}) \in Int /\ f[x] \in Int /\ f[y] \in Int
          BY <3>3, <3>5, <5>2
        <5>8. s(W) \in Int
          <6>1. Ok(W)
            <7> HIDE DEF Ok
            <7> QED
              BY <1>2, <5>5, <5>6
          <6> QED
            BY <6>1
        <5> HIDE DEF s
        <5>9. s(T \ {x}) = f[y] + s(W) /\ s(T \ {y}) = f[x] + s(W)
          BY <5>3, <5>4, <5>5
        <5> QED
          BY <3>4, <5>7, <5>8, <5>9
      <4> QED
        BY <4>1, <4>2
    <3> HIDE DEF s
    <3> QED
      BY <3>6, <3>7
  <2>2. ASSUME NEW T \in SUBSET S, Cardinality(T) <= n + 1 PROVE Ok(T)
    <3> HIDE DEF Ok
    <3>1. Cardinality(T) <= n \/ Cardinality(T) = n + 1
      BY <1>0, <2>2
    <3> QED
      BY <1>2, <2>1, <3>1
  <2> HIDE DEF Ok
  <2> QED
    BY <2>2
<1> HIDE DEF N
<1>3. Nat \subseteq N
  BY <1>1, <1>2, SetInduction
<1>4. S \in SUBSET S /\ Cardinality(S) \in N
  BY <1>0, <1>3
<1>5. Ok(S)
  BY <1>4 DEF N
<1> QED
  BY <1>5

LEMMA SumMore ==
  ASSUME NEW f, NEW T, IsFiniteSet(T), NEW x, x \notin T, \A y \in T \cup {x} : f[y] \in Int
  PROVE  /\ SumFunctionOnSet(f, T) \in Int /\ SumFunctionOnSet(f, T \cup {x}) \in Int
         /\ SumFunctionOnSet(f, T \cup {x}) = f[x] + SumFunctionOnSet(f, T)
<1>1. IsFiniteSet(T \cup {x}) /\ (T \cup {x}) \ {x} = T
  BY FS_AddElement
<1> QED
  BY <1>1, SumInts

LEMMA SumSame ==
  ASSUME NEW f, NEW h, NEW S, IsFiniteSet(S), \A x \in S : f[x] \in Int /\ h[x] = f[x]
  PROVE  SumFunctionOnSet(h, S) = SumFunctionOnSet(f, S)
<1> DEFINE F == {T \in SUBSET S : SumFunctionOnSet(h, T) = SumFunctionOnSet(f, T)}
<1>1. {} \in F
  BY SumEmpty
<1>2. ASSUME NEW T \in SUBSET S, NEW x \in S, T \in F, x \notin T PROVE T \cup {x} \in F
  <2>1. IsFiniteSet(T)
    BY FS_Subset
  <2>2. \A y \in T \cup {x} : f[y] \in Int /\ h[y] \in Int
    OBVIOUS
  <2>3. /\ SumFunctionOnSet(f, T \cup {x}) = f[x] + SumFunctionOnSet(f, T)
        /\ SumFunctionOnSet(h, T \cup {x}) = h[x] + SumFunctionOnSet(h, T)
    BY <1>2, <2>1, <2>2, SumMore
  <2> QED
    BY <1>2, <2>3
<1> HIDE DEF F
<1>3. S \in F
  BY <1>1, <1>2, SubsetInduction
<1> QED
  BY <1>3 DEF F

(* A part of a finite set has no larger sum. *)
LEMMA SumSub ==
  ASSUME NEW f, NEW S, IsFiniteSet(S), \A x \in S : f[x] \in Nat, NEW R \in SUBSET S
  PROVE  SumFunctionOnSet(f, R) <= SumFunctionOnSet(f, S) /\ SumFunctionOnSet(f, S) \in Int
<1> DEFINE F == {T \in SUBSET (S \ R) : SumFunctionOnSet(f, R) <= SumFunctionOnSet(f, R \cup T)}
<1>0. IsFiniteSet(R) /\ IsFiniteSet(S \ R) /\ SumFunctionOnSet(f, R) \in Int
  <2>1. IsFiniteSet(R) /\ IsFiniteSet(S \ R)
    BY FS_Subset
  <2> QED
    BY <2>1, SumInts
<1>1. {} \in F
  <2>1. R \cup {} = R
    OBVIOUS
  <2> QED
    BY <1>0, <2>1
<1>2. ASSUME NEW T \in SUBSET (S \ R), NEW x \in S \ R, T \in F, x \notin T PROVE T \cup {x} \in F
  <2> DEFINE Q == R \cup T
  <2>1. IsFiniteSet(Q) /\ x \notin Q /\ R \cup (T \cup {x}) = Q \cup {x}
    <3>1. Q \in SUBSET S
      OBVIOUS
    <3>2. IsFiniteSet(Q)
      BY <3>1, FS_Subset
    <3> QED
      BY <1>2, <3>2
  <2>2. (\A y \in Q \cup {x} : f[y] \in Int) /\ f[x] \in Nat
    OBVIOUS
  <2>3. SumFunctionOnSet(f, R) <= SumFunctionOnSet(f, Q)
    BY <1>2
  <2> HIDE DEF Q
  <2>4. SumFunctionOnSet(f, Q \cup {x}) = f[x] + SumFunctionOnSet(f, Q) /\ SumFunctionOnSet(f, Q) \in Int
    BY <2>1, <2>2, SumMore
  <2>5. SumFunctionOnSet(f, R) <= SumFunctionOnSet(f, Q \cup {x})
    BY <1>0, <2>2, <2>3, <2>4
  <2> QED
    BY <2>1, <2>5
<1> HIDE DEF F
<1>3. S \ R \in F
  BY <1>0, <1>1, <1>2, SubsetInduction
<1>4. R \cup (S \ R) = S
  OBVIOUS
<1>5. SumFunctionOnSet(f, S) \in Int
  BY SumInts
<1> QED
  BY <1>3, <1>4, <1>5 DEF F

-----------------------------------------------------------------------------
(* The size of the buffer. *)

(* What payloads take is a number, and fewer payloads do not take more. *)
LEMMA UsedIs ==
  ASSUME size \in Sizes, NEW S \in SUBSET Item, IsFiniteSet(S)
  PROVE  Used(S) \in Int /\ Used({}) = 0 /\ \A T \in SUBSET S : Used(T) <= Used(S)
<1> DEFINE G == [x \in Item |-> size[x.id]]
           H(T) == [x \in T |-> size[x.id]]
<1>1. \A x \in Item : G[x] = size[x.id] /\ G[x] \in Nat
  <2>1. size \in [Payload -> Nat \ {0}]
    BY DeliveryAssumption
  <2>2. \A x \in Item : x.id \in Payload
    BY DEF Item
  <2> QED
    BY <2>1, <2>2
<1>2. ASSUME NEW T \in SUBSET S PROVE Used(T) = SumFunctionOnSet(G, T)
  <2>1. IsFiniteSet(T)
    BY FS_Subset
  <2>2. DOMAIN H(T) = T /\ \A x \in T : G[x] \in Int /\ H(T)[x] = G[x]
    BY <1>1
  <2>3. Used(T) = SumFunctionOnSet(H(T), T)
    BY DEF Used, SumFunction
  <2> HIDE DEF G, H
  <2>4. SumFunctionOnSet(H(T), T) = SumFunctionOnSet(G, T)
    BY <2>1, <2>2, SumSame
  <2> QED
    BY <2>3, <2>4
<1> HIDE DEF G
<1>3. \A T \in SUBSET S : SumFunctionOnSet(G, T) <= SumFunctionOnSet(G, S) /\ SumFunctionOnSet(G, S) \in Int
  <2>1. \A x \in S : G[x] \in Nat
    BY <1>1
  <2> QED
    BY <2>1, SumSub
<1>4. Used({}) = 0
  BY <1>2, SumEmpty
<1> QED
  BY <1>2, <1>3, <1>4

(* What PushSeq keeps fits into the buffer. *)
LEMMA KeptFits ==
  ASSUME size \in Sizes, NEW S \in SUBSET Item, IsFiniteSet(S)
  PROVE  Used(S \ Excess(S)) <= MaxBytes
<1> DEFINE U == S \ Excess(S)
           From(x) == {y \in S : y.seq >= x.seq}
<1>0. MaxBytes \in Nat /\ \A x \in Item : x.seq \in Nat
  BY DeliveryAssumption DEF Item
<1>1. ASSUME NEW x \in S PROVE Used(From(x)) \in Int /\ \A y \in From(x) : Used(From(y)) <= Used(From(x))
  <2>1. From(x) \in SUBSET Item /\ IsFiniteSet(From(x))
    BY FS_Subset
  <2>2. \A y \in From(x) : From(y) \in SUBSET From(x)
    BY <1>0
  <2> HIDE DEF From
  <2> QED
    BY <2>1, <2>2, UsedIs
<1>2. \A x \in S : x \in U <=> Used(From(x)) <= MaxBytes
  <2> TAKE x \in S
  <2>1. x \in Excess(S) <=> Used(From(x)) > MaxBytes
    BY DEF Excess
  <2>2. Used(From(x)) \in Int
    BY <1>1
  <2> HIDE DEF From
  <2> QED
    BY <1>0, <2>1, <2>2
<1>3. CASE U = {}
  <2>1. Used({}) = 0
    BY UsedIs
  <2> HIDE DEF U
  <2>2. Used(U) <= MaxBytes
    BY <1>0, <1>3, <2>1
  <2> QED
    BY <2>2 DEF U
<1>4. CASE U # {}
  <2> DEFINE M == {x.seq : x \in U}
  <2>1. M \subseteq Nat /\ M # {}
    BY <1>0, <1>4
  <2>2. PICK k \in M : \A l \in M : ~(<<l, k>> \in OpToRel(<, Nat))
    <3> HIDE DEF M, OpToRel
    <3> QED
      BY <2>1, WFMin, NatLessThanWellFounded, Zenon
  <2>3. \A l \in M : k <= l
    <3> TAKE l \in M
    <3>1. ~(l < k)
      BY <2>1, <2>2 DEF OpToRel
    <3> HIDE DEF M
    <3> QED
      BY <2>1, <3>1
  <2>4. PICK x \in U : x.seq = k
    OBVIOUS
  <2>5. x \in S /\ \A y \in U : y \in From(x)
    BY <1>0, <2>3, <2>4
  <2>6. ASSUME NEW y \in From(x) PROVE y \in U
    <3>1. y \in S
      OBVIOUS
    <3>2. Used(From(y)) <= Used(From(x)) /\ Used(From(x)) \in Int /\ Used(From(y)) \in Int
      BY <1>1, <2>5, <3>1
    <3>3. Used(From(x)) <= MaxBytes
      BY <1>2, <2>5
    <3> HIDE DEF From, U
    <3>4. Used(From(y)) <= MaxBytes
      BY <1>0, <3>2, <3>3
    <3> QED
      BY <1>2, <3>1, <3>4
  <2>7. U = From(x)
    <3> HIDE DEF From, U
    <3> QED
      BY <2>5, <2>6
  <2>8. Used(U) <= MaxBytes
    <3>1. Used(From(x)) <= MaxBytes
      BY <1>2, <2>5
    <3> HIDE DEF From, U
    <3> QED
      BY <2>7, <3>1
  <2> QED
    BY <2>8
<1> QED
  BY <1>3, <1>4

(* The files of the buffer are finitely many payloads, and the index names some of them. *)
LEMMA BufferFinite ==
  ASSUME IInv
  PROVE  /\ size \in Sizes /\ hist \in Hist /\ index \subseteq files /\ files \subseteq Item
         /\ IsFiniteSet(files) /\ IsFiniteSet(index)
<1>1. size \in Sizes /\ hist \in Hist /\ files \subseteq Item /\ index \subseteq files /\ IsFiniteSet(Copies)
  BY DEF IInv, TypeOK, Shape, Counted
<1>2. files \subseteq Copies
  BY <1>1 DEF Copies, Disk
<1>3. IsFiniteSet(files) /\ IsFiniteSet(index)
  BY <1>1, <1>2, FS_Subset
<1> QED
  BY <1>1, <1>3

(* The buffer shrinks, or stays. *)
LEMMA ShrinksBounded ==
  ASSUME IInv, BufferBounded, size' = size, index' \subseteq index, hist'.over = hist.over
  PROVE  BufferBounded'
<1>1. index \in SUBSET Item /\ IsFiniteSet(index) /\ size \in Sizes /\ MaxBytes \in Nat /\ index' \in SUBSET index
  BY BufferFinite, DeliveryAssumption
<1>2. Used(index) \in Int /\ Used(index') <= Used(index)
  BY <1>1, UsedIs
<1>3. IsFiniteSet(index') /\ index' \in SUBSET Item
  BY <1>1, FS_Subset
<1>4. Used(index') \in Int
  BY <1>1, <1>3, UsedIs
<1>5. Used(index)' = Used(index')
  BY DEF Used
<1>6. Used(index') <= MaxBytes \/ hist'.over
  BY <1>1, <1>2, <1>4 DEF BufferBounded
<1> QED
  BY <1>5, <1>6 DEF BufferBounded

(* None of the notes of an acknowledgement or a loss is about the limit. *)
LEMMA OverKept ==
  ASSUME NEW h \in Hist, NEW i, NEW S
  PROVE  Acked(h, i).over = h.over /\ Dropped(h, S).over = h.over /\ Dropped(Acked(h, i), S).over = h.over
  BY DEF Acked, Dropped, Hist

(* A write ends within the limit, changes nothing, or is noted. *)
LEMMA PushBounded ==
  ASSUME IInv, BufferBounded, size' = size, NEW x \in Item, PushSeq(x)
  PROVE  BufferBounded'
<1> DEFINE all == index \cup {x}
           h(S) == Dropped(Acked(hist, x.id), S)
<1>0. hist \in Hist /\ size \in Sizes /\ all \in SUBSET Item /\ IsFiniteSet(all)
  BY BufferFinite, FS_AddElement
<1>1. CASE UNCHANGED index /\ hist' = h({x.id})
  <2>1. hist'.over = hist.over
    BY <1>0, <1>1, OverKept
  <2> QED
    BY <1>1, <2>1, ShrinksBounded
<1>2. CASE index' = all \ Excess(all)
  <2>1. Used(all \ Excess(all)) <= MaxBytes
    <3> HIDE DEF all
    <3> QED
      BY <1>0, KeptFits
  <2>2. Used(index)' = Used(index')
    BY DEF Used
  <2> HIDE DEF all
  <2> QED
    BY <1>2, <2>1, <2>2 DEF BufferBounded
<1>3. ASSUME NEW part, hist' = [h(Ids(part)) EXCEPT !.over = TRUE] PROVE BufferBounded'
  <2>1. hist'.over = TRUE
    BY <1>0, <1>3 DEF Hist, Acked, Dropped
  <2> QED
    BY <2>1 DEF BufferBounded
<1> QED
  BY <1>1, <1>2, <1>3 DEF PushSeq

LEMMA StartBounded ==
  ASSUME IInv, Start
  PROVE  BufferBounded'
<1>1. size' = size /\ index' = files /\ hist' = [hist EXCEPT !.over = Used(files) > MaxBytes]
  BY DEF Start
<1>2. hist \in Hist /\ size \in Sizes /\ files \in SUBSET Item /\ IsFiniteSet(files) /\ MaxBytes \in Nat
  BY BufferFinite, DeliveryAssumption
<1>3. Used(files) \in Int
  BY <1>2, UsedIs
<1>4. Used(index)' = Used(files)
  BY <1>1 DEF Used
<1>5. CASE Used(files) <= MaxBytes
  BY <1>4, <1>5 DEF BufferBounded
<1>6. CASE Used(files) > MaxBytes
  <2>1. hist'.over = (Used(files) > MaxBytes)
    BY <1>1, <1>2 DEF Hist
  <2> QED
    BY <1>6, <2>1 DEF BufferBounded
<1> QED
  BY <1>2, <1>3, <1>5, <1>6

(* The index after an answer. *)
LEMMA SettleBounded ==
  ASSUME IInv, BufferBounded, Accept \/ Rejected
  PROVE  BufferBounded'
<1>1. hist \in Hist
  BY BufferFinite
<1>2. size' = size
  BY DEF Accept, Rejected
<1>3. PICK h, n : Settle(h, n) /\ (h = hist \/ h = Dropped(hist, {flight.what.id}))
  BY DEF Accept, Rejected
<1>4. index' \subseteq index
  BY <1>3 DEF Settle, Remove, bufferVars
<1>5. hist' = h \/ hist' = Acked(h, flight.what.id)
  BY <1>3 DEF Settle
<1>6. hist'.over = hist.over
  BY <1>1, <1>3, <1>5 DEF Acked, Dropped, Hist
<1> QED
  BY <1>2, <1>4, <1>6, ShrinksBounded

LEMMA NextBounded ==
  ASSUME IInv, BufferBounded, [Next]_vars
  PROVE  BufferBounded'
<1>0. hist \in Hist /\ TypeOK /\ Shape
  BY BufferFinite DEF IInv
<1>1. CASE UNCHANGED <<size, index, hist>>
  BY <1>1, ShrinksBounded
<1>2. CASE \E t \in Thread : Spill(t)
  <2>1. PICK t \in Thread : Spill(t)
    BY <1>2
  <2>2. hands[t] \in Seq(Item) /\ hands[t] # <<>> /\ PushSeq(Head(hands[t])) /\ size' = size
    BY <1>0, <2>1 DEF Spill, TypeOK
  <2>3. Head(hands[t]) \in Item
    BY <2>2
  <2> QED
    BY <2>2, <2>3, PushBounded
<1>3. CASE Peek
  <2>1. size' = size /\ index' \subseteq index
    BY <1>3 DEF Peek
  <2>2. hist'.over = hist.over
    BY <1>0, <1>3, OverKept DEF Peek
  <2> QED
    BY <2>1, <2>2, ShrinksBounded
<1>4. CASE Accept \/ Rejected
  BY <1>4, SettleBounded
<1>5. CASE Exit
  <2>1. size' = size /\ index' \subseteq index /\ hist' = hist
    BY <1>5 DEF Exit, Ended
  <2> QED
    BY <2>1, ShrinksBounded
<1>6. CASE Crash
  <2>1. size' = size /\ index' = {}
    BY <1>6 DEF Crash, Ended
  <2>2. size \in Sizes /\ MaxBytes \in Nat
    BY BufferFinite, DeliveryAssumption
  <2>3. Used(index)' = Used({})
    BY <2>1 DEF Used
  <2>4. Used({}) = 0
    BY <2>2, FS_EmptySet, UsedIs
  <2>5. Used({}) <= MaxBytes
    BY <2>2, <2>4
  <2> QED
    BY <2>3, <2>5 DEF BufferBounded
<1>7. CASE Start
  BY <1>7, StartBounded
<1>8. CASE Next /\ ~(\/ \E t \in Thread : Spill(t)
                     \/ Peek \/ Accept \/ Rejected \/ Exit \/ Crash \/ Start)
  <2>1. CASE Collect \/ Tick \/ Emit \/ EndTick \/ SaveState
    BY <1>1, <2>1 DEF Collect, Tick, Emit, EndTick, SaveState, enqueueVars, bufferVars
  <2>2. ASSUME NEW t \in Producer, Append1(t) \/ QueueFull(t) \/ TakeQueue(t) \/ Spilled(t)
        PROVE  BufferBounded'
    BY <1>1, <2>2 DEF Append1, QueueFull, TakeQueue, Spilled, enqueueVars, bufferVars
  <2>3. CASE Drained \/ PickMemory \/ PickDisk \/ PickNothing \/ AnswerLost \/ SendFails \/ SpillRest
             \/ Failed \/ Retry \/ Wake
    BY <1>1, <2>3 DEF Drained, PickMemory, PickDisk, PickNothing, AnswerLost, SendFails, SpillRest,
       Failed, Retry, Wake, bufferVars
  <2>4. CASE Stop \/ Drain \/ CancelExport \/ Close
    BY <1>1, <2>4 DEF Stop, Drain, CancelExport, Close, lifeVars, bufferVars
  <2> QED
    BY <1>8, <2>1, <2>2, <2>3, <2>4 DEF Next
<1>9. CASE UNCHANGED vars
  BY <1>1, <1>9 DEF vars, bufferVars
<1> QED
  BY <1>2, <1>3, <1>4, <1>5, <1>6, <1>7, <1>8, <1>9

(***************************************************************************)
(* The disk buffer keeps within its limit for every set of sizes: what     *)
(* PushSeq leaves fits, however large the payload it makes room for, and   *)
(* only a crash or a failed removal in between leaves more.                *)
(***************************************************************************)
THEOREM BufferStaysBounded == Spec => []BufferBounded
<1>1. Init => IInv /\ BufferBounded
  <2> SUFFICES ASSUME Init PROVE BufferBounded
    BY InitIInv
  <2>1. IInv /\ index = {}
    BY InitIInv DEF Init
  <2>2. size \in Sizes /\ MaxBytes \in Nat
    BY <2>1, BufferFinite, DeliveryAssumption
  <2>3. Used({}) = 0
    BY <2>2, FS_EmptySet, UsedIs
  <2>4. Used({}) <= MaxBytes
    BY <2>2, <2>3
  <2> QED
    BY <2>1, <2>4 DEF BufferBounded
<1>2. IInv /\ BufferBounded /\ [Next]_vars => IInv' /\ BufferBounded'
  BY NextIInv, NextBounded
<1> QED
  BY <1>1, <1>2, PTL DEF Spec
=============================================================================
