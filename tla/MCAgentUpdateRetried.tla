------------------------- MODULE MCAgentUpdateRetried -------------------------
(***************************************************************************)
(* The same agent with a memory of every instruction that was ever rolled  *)
(* back; the backend may send an earlier instruction again.                *)
(***************************************************************************)
EXTENDS MCAgentUpdate

VARIABLE refusedEver   \* instructions rolled back at any time

EverInit == Init /\ refusedEver = {}

EverNext == Next /\ refusedEver' = refusedEver \cup hist'.refused

EverSpec == EverInit /\ [][EverNext]_<<vars, refusedEver>>

(***************************************************************************)
(* "A rolled-back version is never retried automatically": a target that   *)
(* was rolled back is not staged again.  skipLocked compares with the last *)
(* instruction only, so a later instruction makes the agent forget it.     *)
(***************************************************************************)
NeverRetried == proc.h = "stage" => \A ins \in refusedEver : ins.target # proc.ins.target
=============================================================================
