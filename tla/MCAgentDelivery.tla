--------------------------- MODULE MCAgentDelivery ---------------------------
(***************************************************************************)
(* Instances of AgentDelivery for TLC.                                     *)
(***************************************************************************)
EXTENDS AgentDelivery

(* Two payloads fit into the buffer, or one of them is too large for it. *)
SmallOrLarge == {<<1, 1, 2>>, <<1, 3, 2>>}
=============================================================================
