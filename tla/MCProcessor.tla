----------------------------- MODULE MCProcessor -----------------------------
(***************************************************************************)
(* Instances of Processor for TLC.                                         *)
(***************************************************************************)
EXTENDS Processor, TLC, FiniteSetsExt

CONSTANTS m1, m2, p1, p2

TwoTables == <<"logs", "hosts">>
OneTable == <<"logs">>

(* Two windows, one size, different tables. *)
WindowRecords ==
    {[win |-> 1, size |-> 1, tables |-> {"logs", "hosts"}],
     [win |-> 2, size |-> 1, tables |-> {"hosts"}]}

(* A later window comes with a larger record: window, byte and memory cuts meet. *)
SizedRecords ==
    {[win |-> 1, size |-> 1, tables |-> {"logs"}],
     [win |-> 2, size |-> 2, tables |-> {"logs"}]}

NoFaults == [f \in Fault |-> 0]

(* An insert or a commit that fails, before or after a hand-over by crash or expulsion, or both. *)
FailoverBudgets ==
    {[f \in Fault |-> IF f \in pair THEN 1 ELSE 0] :
        pair \in kSubset(2, {"crash", "expel", "insert", "commit"}) \ {{"crash", "expel"}}}

(* What one process meets while its buffer is full. *)
MemoryBudgets == {[NoFaults EXCEPT !["cancel"] = 1, !["revoke"] = 1, !["commit"] = 1]}

PartitionSymmetry == Permutations({p1, p2})
=============================================================================
