------------------------------ MODULE MCEventBus ------------------------------
(***************************************************************************)
(* Two clients for model checking EventBus.                                *)
(***************************************************************************)
EXTENDS EventBus, TLC

CONSTANTS c1, c2
=============================================================================
