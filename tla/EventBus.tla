------------------------------- MODULE EventBus -------------------------------
(***************************************************************************)
(* AsyncBus and the GET /stream handler: one bounded queue per subscriber, *)
(* a publisher that never blocks, and the generator that takes events out  *)
(* of its queue and sends them to its client.                              *)
(*                                                                         *)
(* publish() never suspends, so it serves every queue in one step.  The    *)
(* generator suspends in queue.get and at each yield.  A get that times    *)
(* out after 30 s sends a ping and changes nothing here.                   *)
(*                                                                         *)
(* An operator whose name starts with Faulty is the one after it with a    *)
(* bug planted; no action uses it.  It shows that a property would notice. *)
(***************************************************************************)
EXTENDS Integers, Sequences

CONSTANTS
  Client,     \* one connection to /stream at a time each
  QueueSize,  \* the bus's queue_size
  MaxEvents   \* bound: events published

ASSUME BusAssumption ==
  /\ QueueSize \in Nat \ {0}
  /\ MaxEvents \in Nat

VARIABLES
  sent,         \* number of events published so far; event n is the n-th
  subscribers,  \* the clients whose queue is in _subscribers
  queue,        \* queue[c]: the events waiting for c, oldest first
  handler,      \* handler[c]: where the handler of c's request is
  connected,    \* the clients at the other end of whose connection is someone
  taken,        \* taken[c]: last event got from the queue of c, or the last
                \* one published before c subscribed
  received      \* received[c]: events yielded to c on this connection

vars == <<sent, subscribers, queue, handler, connected, taken, received>>

HandlerState == {"none",     \* no request
                 "opened",   \* subscribed, the generator has not started
                 "waiting",  \* in queue.get
                 "holding"}  \* got an event, suspended in its yield

TypeOK ==
  /\ sent \in Nat
  /\ subscribers \in SUBSET Client
  /\ queue \in [Client -> Seq(Nat)]
  /\ handler \in [Client -> HandlerState]
  /\ connected \in SUBSET Client
  /\ taken \in [Client -> Nat]
  /\ received \in [Client -> Seq(Nat)]
  /\ \A c \in Client : Len(queue[c]) <= QueueSize

Init ==
  /\ sent = 0
  /\ subscribers = {}
  /\ queue = [c \in Client |-> <<>>]
  /\ handler = [c \in Client |-> "none"]
  /\ connected = {}
  /\ taken = [c \in Client |-> 0]
  /\ received = [c \in Client |-> <<>>]

-----------------------------------------------------------------------------
FaultyUnbounded(q, event) == Append(q, event)
FaultyDropNewest(q, event) == IF Len(q) < QueueSize THEN Append(q, event) ELSE q
FaultyLifo(q, event) == <<event>> \o (IF Len(q) < QueueSize THEN q ELSE Tail(q))
FaultyEvictEarly(q, event) ==
  Append(IF Len(q) < QueueSize - 1 THEN q ELSE Tail(q), event)

(* put_nowait; if the queue is full, get_nowait first: the oldest goes.    *)
Put(q, event) ==
  Append(IF Len(q) < QueueSize THEN q ELSE Tail(q), event)

Publish ==
  /\ sent < MaxEvents
  /\ sent' = sent + 1
  /\ queue' = [c \in Client |->
                 IF c \in subscribers THEN Put(queue[c], sent + 1) ELSE queue[c]]
  /\ UNCHANGED <<subscribers, handler, connected, taken, received>>

(* The handler subscribes before the response starts.                      *)
Connect(c) ==
  /\ handler[c] = "none"
  /\ handler' = [handler EXCEPT ![c] = "opened"]
  /\ connected' = connected \cup {c}
  /\ subscribers' = subscribers \cup {c}
  /\ queue' = [queue EXCEPT ![c] = <<>>]
  /\ taken' = [taken EXCEPT ![c] = sent]
  /\ received' = [received EXCEPT ![c] = <<>>]
  /\ UNCHANGED sent

(* The generator sends its first comment and waits for an event.           *)
Begin(c) ==
  /\ handler[c] = "opened"
  /\ handler' = [handler EXCEPT ![c] = "waiting"]
  /\ UNCHANGED <<sent, subscribers, queue, connected, taken, received>>

Get(c) ==
  /\ handler[c] = "waiting"
  /\ queue[c] # <<>>
  /\ handler' = [handler EXCEPT ![c] = "holding"]
  /\ queue' = [queue EXCEPT ![c] = Tail(@)]
  /\ taken' = [taken EXCEPT ![c] = Head(queue[c])]
  /\ UNCHANGED <<sent, subscribers, connected, received>>

Yield(c) ==
  /\ handler[c] = "holding"
  /\ c \in connected
  /\ handler' = [handler EXCEPT ![c] = "waiting"]
  /\ received' = [received EXCEPT ![c] = Append(@, taken[c])]
  /\ UNCHANGED <<sent, subscribers, queue, connected, taken>>

Disconnect(c) ==
  /\ c \in connected
  /\ connected' = connected \ {c}
  /\ UNCHANGED <<sent, subscribers, queue, handler, taken, received>>

FaultyClose(c) ==                     \* unsubscribe is not called
  /\ handler[c] \in {"waiting", "holding"}
  /\ c \notin connected
  /\ handler' = [handler EXCEPT ![c] = "none"]
  /\ UNCHANGED <<sent, subscribers, queue, connected, taken, received>>

(* is_disconnected, or the response cancelled wherever it is suspended:    *)
(* the finally clause unsubscribes; an event in hand is lost.              *)
Close(c) ==
  /\ handler[c] \in {"waiting", "holding"}
  /\ c \notin connected
  /\ handler' = [handler EXCEPT ![c] = "none"]
  /\ subscribers' = subscribers \ {c}
  /\ UNCHANGED <<sent, queue, connected, taken, received>>

Next ==
  \/ Publish
  \/ \E c \in Client : \/ Connect(c) \/ Disconnect(c)
                       \/ Begin(c) \/ Get(c) \/ Yield(c) \/ Close(c)

(* The event loop runs the handlers that are ready.                        *)
Fairness ==
  \A c \in Client : /\ WF_vars(Begin(c)) /\ WF_vars(Get(c))
                    /\ WF_vars(Yield(c)) /\ WF_vars(Close(c))

Spec == Init /\ [][Next]_vars /\ Fairness

-----------------------------------------------------------------------------
(* Properties.                                                             *)

Lag(c)     == sent - taken[c]
Backlog(c) == IF Lag(c) < QueueSize THEN Lag(c) ELSE QueueSize

(* The events after the m-th, up to the n-th.                              *)
Events(m, n) == [i \in 1..(n - m) |-> m + i]

(* The queue of a subscriber holds exactly what it has not taken yet, in   *)
(* order, cut to the newest QueueSize events: nothing is duplicated,       *)
(* reordered, or dropped while there is room.                              *)
QueueIsNewest ==
  \A c \in subscribers :
    /\ taken[c] \in 0..sent
    /\ queue[c] = Events(sent - Backlog(c), sent)

(* A client sees the events of a connection in the order of publication,   *)
(* each at most once.                                                      *)
ReceivedInOrder ==
  \A c \in Client : \A i, j \in 1..Len(received[c]) :
    i < j => received[c][i] < received[c][j]

(* Only requests that are being served have a queue in the bus: the        *)
(* finally clause of the generator covers every way out of it.             *)
OnlyLiveSubscribers == subscribers = {c \in Client : handler[c] # "none"}

(* A subscriber skips events only when it had fallen more than QueueSize   *)
(* behind the publisher.                                                   *)
SkipsOnlyWhenOverrun ==
  [][\A c \in subscribers :
       taken'[c] > taken[c] + 1 => Lag(c) > QueueSize]_vars

(* An open stream gets to, or past, every event published while it is      *)
(* open, however fast the publisher is.                                    *)
StreamCatchesUp ==
  \A c \in Client, n \in 1..MaxEvents :
    (handler[c] # "none" /\ sent = n) ~> (taken[c] >= n \/ handler[c] = "none")

(* The queues implement the window of EventWindow.                         *)
Window == INSTANCE EventWindow WITH Size <- QueueSize, joined <- subscribers

ImplementsWindow == Window!Spec
=============================================================================
