------------------------------ MODULE MCCommands ------------------------------
(***************************************************************************)
(* Values for model checking Commands: sixteen addresses.  The lower half  *)
(* is private, two addresses of it are denied as loopback is.              *)
(***************************************************************************)
EXTENDS Commands, TLC

CONSTANTS p1, p2

Cidr(addr, size) == [addr |-> addr, size |-> size]

MCPrivateBlocks == {[first |-> 0, size |-> 8]}
MCBuiltIn == [deny |-> <<Cidr(4, 2)>>, public |-> FALSE, max |-> 8, hops |-> 1]

(* A network, the same with host bits, one that has the denied addresses   *)
(* inside, a public one.                                                   *)
MCTarget == {Cidr(0, 2), Cidr(1, 2), Cidr(0, 8), Cidr(8, 4)}

(* Two private networks, none.                                             *)
MCPlug == {Cidr(1, 2), Cidr(3, 2), NotACidr}

(* Public scans allowed; a network of ours denied, an entry with host bits *)
(* after it, and another bind.                                             *)
MCSetting ==
  {[policy |-> [MCBuiltIn EXCEPT !.public = TRUE], loopback |-> TRUE],
   [policy |-> [MCBuiltIn EXCEPT !.deny = <<Cidr(2, 2), Cidr(3, 2)>>],
    loopback |-> FALSE]}

Alike == Permutations(Process)
=============================================================================
