------------------------------ MODULE ScanLedger ------------------------------
(***************************************************************************)
(* What the dispatcher promises to whoever asks for scans: at most one     *)
(* scan per (mode, targets) is active, a request that meets an active scan *)
(* is recorded as skipped, an active scan is closed once, as ok or error,  *)
(* and only the loss of the process leaves scans open for good.            *)
(***************************************************************************)
EXTENDS Naturals, Sequences

CONSTANTS
  Keys,     \* (mode, targets) pairs
  MaxRows   \* bound: rows of the ledger

VARIABLES
  rows,     \* the ledger: key and status of every scan, oldest first
  active    \* positions of the scans being worked on

vars == <<rows, active>>

Init ==
  /\ rows = <<>>
  /\ active = {}

Busy(key) == \E i \in active : rows[i].key = key

Open(key) ==
  /\ ~Busy(key)
  /\ rows' = Append(rows, [key |-> key, status |-> "running"])
  /\ active' = active \cup {Len(rows) + 1}

Refuse(key) ==
  /\ Busy(key)
  /\ rows' = Append(rows, [key |-> key, status |-> "skipped"])
  /\ UNCHANGED active

Close(i) ==
  /\ i \in active
  /\ \E outcome \in {"ok", "error"} :
       rows' = [rows EXCEPT ![i].status = outcome]
  /\ active' = active \ {i}

Lose ==
  /\ active' = {}
  /\ UNCHANGED rows

Next ==
  \/ \E key \in Keys : Open(key) \/ Refuse(key)
  \/ \E i \in active : Close(i)
  \/ Lose

(* An active scan does not stay active: it is closed or lost.              *)
Fairness == \A i \in 1..MaxRows : WF_vars(i \in active /\ (Close(i) \/ Lose))

SafetySpec == Init /\ [][Next]_vars
Spec       == SafetySpec /\ Fairness
=============================================================================
