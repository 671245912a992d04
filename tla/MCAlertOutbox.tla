---------------------------- MODULE MCAlertOutbox ----------------------------
(***************************************************************************)
(* Instances of AlertOutbox for TLC.                                       *)
(***************************************************************************)
EXTENDS AlertOutbox, TLC

CONSTANTS a, b

=============================================================================
