------------------------------ MODULE RecordPipe ------------------------------
(***************************************************************************)
(* What every consumer of a Kafka topic in openlog promises                *)
(* (docs/contracts/kafka.md, "At-least-once"), whatever it does with a     *)
(* record: records are appended to partitions, handled in any order and    *)
(* any number of times, and acknowledged only up to an offset below which  *)
(* everything has been handled.  An acknowledgement is never taken back.   *)
(*                                                                         *)
(* Processor and TailSampling are shown to implement it.                   *)
(***************************************************************************)
EXTENDS Integers

CONSTANT Partition

VARIABLES
    end,       \* [Partition -> Nat]: records appended
    handled,   \* [Partition -> SUBSET Nat]: offsets of the records handled
    acked      \* [Partition -> Nat]: the offset the next reader starts from

vars == <<end, handled, acked>>

Init ==
    /\ end = [p \in Partition |-> 0]
    /\ handled = [p \in Partition |-> {}]
    /\ acked = [p \in Partition |-> 0]

(* Records arrive, are handled and are acknowledged, on any partitions at once. *)
Deliver ==
    /\ end' \in [Partition -> Nat]
    /\ handled' \in [Partition -> SUBSET Nat]
    /\ acked' \in [Partition -> Nat]
    /\ \A p \in Partition :
         /\ end[p] <= end'[p]
         /\ handled[p] \subseteq handled'[p]
         /\ handled'[p] \subseteq 0..(end'[p] - 1)
         /\ acked[p] <= acked'[p]
         /\ 0..(acked'[p] - 1) \subseteq handled'[p]

Spec == Init /\ [][Deliver]_vars
=============================================================================
