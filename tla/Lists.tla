-------------------------------- MODULE Lists --------------------------------
(***************************************************************************)
(* How LiveView and ScanFacts put positions into a list.                   *)
(***************************************************************************)
EXTENDS Naturals, FiniteSets

(* The numbers of a finite set in ascending order: there is one such list. *)
InOrder(S) == {es \in [1..Cardinality(S) -> S] :
                 \A i, j \in DOMAIN es : i < j => es[i] < es[j]}
=============================================================================
