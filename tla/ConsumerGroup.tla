---------------------------- MODULE ConsumerGroup ----------------------------
(***************************************************************************)
(* The Kafka consumer group as internal/queue sets it up and the consumers *)
(* of openlog use it: no auto-commit, rebalances blocked between a poll    *)
(* and AllowRebalance, reading from the committed offset on assignment     *)
(* (from the start when there is none).  The brokers and the franz-go      *)
(* client are external code; what is here is what src/ relies on.          *)
(*                                                                         *)
(* Offsets count from 0, as in Kafka: the record at offset o of partition  *)
(* p is log[p][o + 1].                                                     *)
(***************************************************************************)
EXTENDS Integers, Sequences, FiniteSets

CONSTANTS
    Member,      \* the processes of the group
    Partition,   \* the partitions they share
    Record,      \* what a producer may write
    NoMember,    \* the owner of an unassigned partition
    MaxLog       \* bound: records written to one partition

ASSUME GroupAssumption ==
    /\ IsFiniteSet(Partition)
    /\ NoMember \notin Member
    /\ MaxLog \in Nat

VARIABLES
    log,         \* [Partition -> Seq(Record)]
    committed,   \* [Partition -> Nat]: the offset the group resumes from
    owner,       \* [Partition -> Member \cup {NoMember}]: the broker's view
    pos,         \* [Member -> [Partition -> Nat]]: next offset the client hands over,
                 \* 0 for a partition the member does not fetch
    lost,        \* partitions a member was fenced from and does not know of yet
    gone         \* PartitionEvents.gone: partitions reported as revoked or lost

groupVars == <<log, committed, owner, pos, lost, gone>>

GroupTypeOK ==
    /\ log \in [Partition -> Seq(Record)]
    /\ committed \in [Partition -> Nat]
    /\ owner \in [Partition -> Member \cup {NoMember}]
    /\ pos \in [Member -> [Partition -> Nat]]
    /\ lost \in [Member -> SUBSET Partition]
    /\ gone \in [Member -> SUBSET Partition]

-----------------------------------------------------------------------------
Rec(p, o) == log[p][o + 1]

End(p) == Len(log[p])

Owned(m) == {p \in Partition : owner[p] = m}

(***************************************************************************)
(* The partitions a member's client fetches: a member that was fenced goes *)
(* on fetching until it learns of it, because fetches are not fenced.      *)
(***************************************************************************)
Fetching(m) == Owned(m) \cup lost[m]

GroupInit ==
    /\ log = [p \in Partition |-> <<>>]
    /\ committed = [p \in Partition |-> 0]
    /\ owner = [p \in Partition |-> NoMember]
    /\ pos = [m \in Member |-> [p \in Partition |-> 0]]
    /\ lost = [m \in Member |-> {}]
    /\ gone = [m \in Member |-> {}]

(* A producer's record reaches the partition. *)
Produce(p) ==
    /\ End(p) < MaxLog
    /\ \E r \in Record : log' = [log EXCEPT ![p] = Append(@, r)]
    /\ UNCHANGED <<committed, owner, pos, lost, gone>>

(* The coordinator gives p to m; m's client resumes at the committed offset. *)
Assign(m, p) ==
    /\ owner[p] = NoMember
    /\ lost[m] = {}
    /\ owner' = [owner EXCEPT ![p] = m]
    /\ pos' = [pos EXCEPT ![m][p] = committed[p]]
    /\ UNCHANGED <<log, committed, lost, gone>>

(* The coordinator takes p from m with m's agreement: OnPartitionsRevoked. *)
Revoke(m, p) ==
    /\ owner[p] = m
    /\ owner' = [owner EXCEPT ![p] = NoMember]
    /\ pos' = [pos EXCEPT ![m][p] = 0]
    /\ gone' = [gone EXCEPT ![m] = @ \cup {p}]
    /\ UNCHANGED <<log, committed, lost>>

(* m's session expires: the broker fences it, m does not know. *)
Expel(m) ==
    /\ Owned(m) # {}
    /\ owner' = [p \in Partition |-> IF owner[p] = m THEN NoMember ELSE owner[p]]
    /\ lost' = [lost EXCEPT ![m] = Owned(m)]
    /\ UNCHANGED <<log, committed, pos, gone>>

(* m learns that it was fenced: OnPartitionsLost. *)
Notice(m) ==
    /\ lost[m] # {}
    /\ gone' = [gone EXCEPT ![m] = @ \cup lost[m]]
    /\ lost' = [lost EXCEPT ![m] = {}]
    /\ pos' = [pos EXCEPT ![m] = [p \in Partition |-> 0]]
    /\ UNCHANGED <<log, committed, owner>>

(* m leaves the group, or its process is dead and its session over. *)
Leave(m) ==
    /\ owner' = [p \in Partition |-> IF owner[p] = m THEN NoMember ELSE owner[p]]
    /\ lost' = [lost EXCEPT ![m] = {}]
    /\ gone' = [gone EXCEPT ![m] = {}]
    /\ pos' = [pos EXCEPT ![m] = [p \in Partition |-> 0]]
    /\ UNCHANGED <<log, committed>>
=============================================================================
