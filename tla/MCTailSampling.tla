--------------------------- MODULE MCTailSampling ---------------------------
(***************************************************************************)
(* Instances of TailSampling for TLC.                                      *)
(***************************************************************************)
EXTENDS TailSampling, TLC

CONSTANTS m1, m2, p1, p2, t1, t2

(***************************************************************************)
(* The first record has two traces where one may be buffered, and deciding *)
(* both overflows the cache; the second one exceeds the bytes, and after   *)
(* the first one, perhaps of the other partition, it fills up its trace.   *)
(***************************************************************************)
SampledRecords == {<<t1, t2>>, <<t2, t2>>}

Symmetry == Permutations(Member) \cup Permutations(Partition)
=============================================================================
