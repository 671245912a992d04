---------------------------- MODULE MCAgentUpdate ----------------------------
(***************************************************************************)
(* Instances of AgentUpdate for TLC.                                       *)
(***************************************************************************)
EXTENDS AgentUpdate

(* A rollout of a good release, one of a broken release, and the way back. *)
Rollouts == {[action |-> "upgrade", target |-> 2, rollout |-> 1],
             [action |-> "upgrade", target |-> 3, rollout |-> 2],
             [action |-> "rollback", target |-> 1, rollout |-> 3]}
=============================================================================
