--------------------------- MODULE MCCorrelation ---------------------------
(***************************************************************************)
(* Values for model checking Correlation, and what the scanners feed it:   *)
(* a small network.                                                        *)
(***************************************************************************)
EXTENDS ScanFacts, TLC

CONSTANTS server, cli,     \* processes
          macA, macB,      \* MAC addresses
          ip1, ip2,        \* addresses
          ssh, web         \* ports

(* Nothing tells two addresses, two MACs, two ports or two processes apart *)
(* but what the scans see of them.                                         *)
Alike == Permutations(Mac) \cup Permutations(Ip) \cup Permutations(Port)
           \cup Permutations(Process)
=============================================================================
