------------------------------ MODULE EventWindow ------------------------------
(***************************************************************************)
(* What the event bus promises to a subscriber, without its queues: the    *)
(* events published after the subscription, in order, except that one who  *)
(* falls more than Size events behind is moved on to the newest Size.      *)
(***************************************************************************)
EXTENDS Integers

CONSTANTS
  Client,   \* subscribers
  Size      \* how far behind a subscriber may fall

VARIABLES
  sent,     \* number of events published so far; event n is the n-th
  joined,   \* clients that are subscribed
  taken     \* taken[c]: the last event c took; at first, the last one before

vars == <<sent, joined, taken>>

Init ==
  /\ sent = 0
  /\ joined = {}
  /\ taken = [c \in Client |-> 0]

Publish ==
  /\ sent' = sent + 1
  /\ UNCHANGED <<joined, taken>>

Join(c) ==
  /\ c \notin joined
  /\ joined' = joined \cup {c}
  /\ taken' = [taken EXCEPT ![c] = sent]
  /\ UNCHANGED sent

Leave(c) ==
  /\ c \in joined
  /\ joined' = joined \ {c}
  /\ UNCHANGED <<sent, taken>>

(* The oldest event that is neither taken nor out of the window.           *)
NextFor(c) == IF sent - taken[c] > Size THEN sent - Size + 1 ELSE taken[c] + 1

Take(c) ==
  /\ c \in joined
  /\ taken[c] < sent
  /\ taken' = [taken EXCEPT ![c] = NextFor(c)]
  /\ UNCHANGED <<sent, joined>>

Next ==
  \/ Publish
  \/ \E c \in Client : Join(c) \/ Leave(c) \/ Take(c)

Spec == Init /\ [][Next]_vars
=============================================================================
