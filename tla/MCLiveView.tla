------------------------------ MODULE MCLiveView ------------------------------
(***************************************************************************)
(* Values for model checking LiveView: the one tab.                        *)
(***************************************************************************)
EXTENDS LiveView

CONSTANT tab
=============================================================================
