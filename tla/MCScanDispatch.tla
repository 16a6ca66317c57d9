---------------------------- MODULE MCScanDispatch ----------------------------
(***************************************************************************)
(* Values for model checking ScanDispatch: a private network written with  *)
(* and without host bits, and a public one.                                *)
(***************************************************************************)
EXTENDS ScanDispatch, TLC

CONSTANTS lan, lanHost, wan, junk, lanNet, wanNet

MCParsed ==
  LET denotes == (lan :> lanNet) @@ (lanHost :> lanNet) @@ (wan :> wanNet)
                 @@ (junk :> NotACidr)
  IN  [c \in Cidr |-> denotes[c]]
=============================================================================
