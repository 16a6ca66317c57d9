---------------------------- MODULE EventBusProofs ----------------------------
(***************************************************************************)
(* Theorems about EventBus, for every set of clients and every queue size. *)
(***************************************************************************)
EXTENDS EventBus, SequenceTheorems, TLAPS

(* What a client has received lies behind what its handler has taken.      *)
ReceivedBehind ==
  \A c \in Client : \A i \in 1..Len(received[c]) :
    /\ received[c][i] <= taken[c]
    /\ handler[c] = "holding" => received[c][i] < taken[c]

Inv ==
  /\ TypeOK
  /\ QueueIsNewest
  /\ OnlyLiveSubscribers
  /\ ReceivedBehind
  /\ ReceivedInOrder

-----------------------------------------------------------------------------
(* Runs of consecutive events as sequences.                                *)
LEMMA EventsType ==
  ASSUME NEW m \in Nat, NEW n \in Nat, m <= n
  PROVE  /\ Events(m, n) \in Seq(Nat)
         /\ Len(Events(m, n)) = n - m
         /\ \A i \in 1..(n - m) : Events(m, n)[i] = m + i
<1>1. n - m \in Nat /\ \A i \in 1..(n - m) : m + i \in Nat
  OBVIOUS
<1>2. QED
  BY <1>1, IsASeq DEF Events

LEMMA EventsAppend ==
  ASSUME NEW m \in Nat, NEW n \in Nat, m <= n
  PROVE  Append(Events(m, n), n + 1) = Events(m, n + 1)
<1> DEFINE s == Append(Events(m, n), n + 1)
           t == Events(m, n + 1)
<1>1. /\ Events(m, n) \in Seq(Nat)
      /\ Len(Events(m, n)) = n - m
      /\ \A i \in 1..(n - m) : Events(m, n)[i] = m + i
  BY EventsType
<1>2. /\ t \in Seq(Nat)
      /\ Len(t) = n + 1 - m
      /\ \A i \in 1..(n + 1 - m) : t[i] = m + i
  BY EventsType
<1>3. /\ s \in Seq(Nat)
      /\ Len(s) = n - m + 1
      /\ \A i \in 1..(n - m) : s[i] = m + i
      /\ s[n - m + 1] = n + 1
  BY <1>1, AppendProperties
<1> HIDE DEF s, t
<1>4. Len(s) = Len(t) /\ \A i \in 1..Len(s) : s[i] = t[i]
  <2>1. Len(s) = Len(t)
    BY <1>2, <1>3
  <2>2. ASSUME NEW i \in 1..(n - m + 1)
        PROVE  s[i] = t[i]
    <3>1. CASE i \in 1..(n - m)
      BY <1>2, <1>3, <3>1
    <3>2. CASE i = n - m + 1
      BY <1>2, <1>3, <3>2
    <3>3. QED
      BY <3>1, <3>2
  <2>3. QED
    BY <1>3, <2>1, <2>2
<1>5. s = t
  BY <1>2, <1>3, <1>4, SeqEqual
<1>6. QED
  BY <1>5 DEF s, t

LEMMA EventsTail ==
  ASSUME NEW m \in Nat, NEW n \in Nat, m < n
  PROVE  /\ Events(m, n) # <<>>
         /\ Head(Events(m, n)) = m + 1
         /\ Tail(Events(m, n)) = Events(m + 1, n)
<1> DEFINE s == Events(m, n)
           t == Events(m + 1, n)
<1>1. /\ s \in Seq(Nat)
      /\ Len(s) = n - m
      /\ \A i \in 1..(n - m) : s[i] = m + i
  BY EventsType
<1>2. /\ t \in Seq(Nat)
      /\ Len(t) = n - m - 1
      /\ \A i \in 1..(n - m - 1) : t[i] = m + 1 + i
  BY EventsType
<1>3. s # <<>>
  BY <1>1
<1>4. /\ Head(s) = s[1]
      /\ Tail(s) \in Seq(Nat)
      /\ Len(Tail(s)) = n - m - 1
      /\ \A i \in 1..(n - m - 1) : Tail(s)[i] = s[i + 1]
  BY <1>1, <1>3, HeadTailProperties
<1>5. \A i \in 1..Len(Tail(s)) : Tail(s)[i] = t[i]
  BY <1>1, <1>2, <1>4
<1>6. Tail(s) = t
  BY <1>2, <1>4, <1>5, SeqEqual
<1>7. QED
  BY <1>1, <1>3, <1>4, <1>6

(* How many events wait for a subscriber, and where they start.            *)
LEMMA BacklogBounds ==
  ASSUME TypeOK, NEW c \in Client, taken[c] \in 0..sent
  PROVE  /\ Backlog(c) \in 0..QueueSize
         /\ sent - Backlog(c) \in Nat
         /\ taken[c] <= sent - Backlog(c)
         /\ Len(Events(sent - Backlog(c), sent)) = Backlog(c)
<1>1. /\ Backlog(c) \in 0..QueueSize
      /\ sent - Backlog(c) \in Nat
      /\ sent - Backlog(c) <= sent
      /\ taken[c] <= sent - Backlog(c)
  BY BusAssumption DEF TypeOK, Backlog, Lag
<1>2. Len(Events(sent - Backlog(c), sent)) = sent - (sent - Backlog(c))
  BY <1>1, EventsType DEF TypeOK
<1>3. QED
  BY <1>1, <1>2 DEF TypeOK

-----------------------------------------------------------------------------
LEMMA PublishKeeps ==
  ASSUME Inv, Publish
  PROVE  Inv'
<1>1. TypeOK /\ sent' = sent + 1
  BY DEF Inv, Publish
<1>2. ASSUME NEW c \in subscribers
      PROVE  /\ taken'[c] \in 0..sent'
             /\ queue'[c] = Events(sent' - Backlog(c)', sent')
  <2>1. c \in Client /\ taken[c] \in 0..sent /\ sent \in Nat
    BY <1>1 DEF Inv, QueueIsNewest, TypeOK
  <2>2. taken' = taken /\ queue'[c] = Put(queue[c], sent + 1)
    BY <2>1 DEF Publish
  <2> DEFINE m == sent - Backlog(c)
  <2>3. queue[c] = Events(m, sent)
    BY DEF Inv, QueueIsNewest
  <2>4. Backlog(c) \in 0..QueueSize /\ m \in Nat /\ Len(queue[c]) = Backlog(c)
    BY <1>1, <2>1, <2>3, BacklogBounds
  <2>5. m <= sent /\ sent - m = Backlog(c)
    BY <2>1, <2>4
  <2>6. QueueSize \in Nat \ {0}
    BY BusAssumption
  <2>7. CASE Backlog(c) < QueueSize
    <3>1. Backlog(c)' = Backlog(c) + 1
      BY <1>1, <2>1, <2>2, <2>6, <2>7 DEF Backlog, Lag
    <3>2. queue'[c] = Append(Events(m, sent), sent + 1)
      BY <2>2, <2>3, <2>4, <2>7 DEF Put
    <3>3. sent' - Backlog(c)' = m
      BY <1>1, <2>1, <2>4, <3>1
    <3> HIDE DEF m
    <3>4. queue'[c] = Events(m, sent + 1)
      BY <2>1, <2>4, <2>5, <3>2, EventsAppend
    <3>5. QED
      BY <1>1, <2>1, <2>2, <3>4, <3>3
  <2>8. CASE Backlog(c) = QueueSize
    <3>1. Backlog(c)' = QueueSize
      BY <1>1, <2>1, <2>2, <2>6, <2>8 DEF Backlog, Lag
    <3>2. queue'[c] = Append(Tail(Events(m, sent)), sent + 1)
      BY <2>2, <2>3, <2>4, <2>6, <2>8 DEF Put
    <3>3. sent' - Backlog(c)' = m + 1
      BY <1>1, <2>1, <2>4, <2>6, <2>8, <3>1
    <3> HIDE DEF m
    <3>4. m < sent /\ m + 1 \in Nat /\ m + 1 <= sent
      BY <2>1, <2>4, <2>6, <2>8, <2>5
    <3>5. Tail(Events(m, sent)) = Events(m + 1, sent)
      BY <2>1, <2>4, <3>4, EventsTail
    <3>6. Append(Events(m + 1, sent), sent + 1) = Events(m + 1, sent + 1)
      BY <2>1, <3>4, EventsAppend
    <3>7. queue'[c] = Events(m + 1, sent + 1)
      BY <3>2, <3>5, <3>6
    <3>8. QED
      BY <1>1, <2>1, <2>2, <3>7, <3>3
  <2>9. QED
    BY <2>4, <2>6, <2>7, <2>8
<1>3. QueueIsNewest'
  BY <1>2 DEF QueueIsNewest, Publish
<1>4. TypeOK'
  <2>1. ASSUME NEW c \in Client
        PROVE  /\ Put(queue[c], sent + 1) \in Seq(Nat)
               /\ Len(Put(queue[c], sent + 1)) <= QueueSize
    <3>1. /\ queue[c] \in Seq(Nat) /\ sent + 1 \in Nat
          /\ Len(queue[c]) <= QueueSize /\ QueueSize \in Nat \ {0}
      BY <1>1, BusAssumption DEF TypeOK
    <3>2. CASE Len(queue[c]) < QueueSize
      BY <3>1, <3>2, AppendProperties DEF Put
    <3>3. CASE ~(Len(queue[c]) < QueueSize)
      <4>1. queue[c] # <<>>
        BY <3>1, <3>3
      <4>2. Tail(queue[c]) \in Seq(Nat) /\ Len(Tail(queue[c])) = Len(queue[c]) - 1
        BY <3>1, <4>1, HeadTailProperties
      <4>3. QED
        BY <3>1, <3>3, <4>2, AppendProperties DEF Put
    <3>4. QED
      BY <3>2, <3>3
  <2>2. /\ queue' \in [Client -> Seq(Nat)]
        /\ \A c \in Client : Len(queue'[c]) <= QueueSize
    BY <1>1, <2>1 DEF TypeOK, Publish
  <2>3. QED
    BY <1>1, <2>2 DEF TypeOK, Publish
<1>5. OnlyLiveSubscribers' /\ ReceivedBehind' /\ ReceivedInOrder'
  BY DEF Inv, Publish, OnlyLiveSubscribers, ReceivedBehind, ReceivedInOrder
<1>6. QED
  BY <1>3, <1>4, <1>5 DEF Inv

LEMMA ConnectKeeps ==
  ASSUME Inv, NEW c \in Client, Connect(c)
  PROVE  Inv'
<1>1. TypeOK'
  <2>1. \A d \in Client : Len(queue'[d]) <= QueueSize
    BY BusAssumption DEF Inv, TypeOK, Connect
  <2>2. QED
    BY <2>1 DEF Inv, TypeOK, Connect, HandlerState
<1>2. QueueIsNewest'
  <2>1. ASSUME NEW d \in subscribers', d # c
        PROVE  /\ taken'[d] \in 0..sent'
               /\ queue'[d] = Events(sent' - Backlog(d)', sent')
    BY <2>1 DEF Inv, TypeOK, QueueIsNewest, Connect, Backlog, Lag
  <2>2. taken'[c] = sent /\ sent' = sent /\ sent \in Nat /\ queue'[c] = <<>>
    BY DEF Inv, TypeOK, Connect
  <2>3. Backlog(c)' = 0
    BY <2>2, BusAssumption DEF Backlog, Lag
  <2>4. Events(sent, sent) = <<>>
    BY <2>2 DEF Events
  <2>5. QED
    BY <2>1, <2>2, <2>3, <2>4 DEF QueueIsNewest
<1>3. OnlyLiveSubscribers'
  BY DEF Inv, TypeOK, OnlyLiveSubscribers, Connect
<1>4. ReceivedBehind' /\ ReceivedInOrder'
  BY DEF Inv, TypeOK, ReceivedBehind, ReceivedInOrder, Connect
<1>5. QED
  BY <1>1, <1>2, <1>3, <1>4 DEF Inv

(* A get takes the oldest event of the backlog.                            *)
LEMMA GetTakes ==
  ASSUME Inv, NEW c \in Client, Get(c)
  PROVE  /\ c \in subscribers
         /\ Backlog(c) > 0
         /\ taken'[c] = sent - Backlog(c) + 1
         /\ taken[c] < taken'[c]
         /\ queue'[c] = Events(sent - Backlog(c) + 1, sent)
<1>1. TypeOK /\ c \in subscribers
  BY DEF Inv, OnlyLiveSubscribers, Get
<1>2. taken[c] \in 0..sent /\ queue[c] = Events(sent - Backlog(c), sent)
  BY <1>1 DEF Inv, QueueIsNewest
<1>3. /\ Backlog(c) \in 0..QueueSize /\ sent - Backlog(c) \in Nat
      /\ taken[c] <= sent - Backlog(c) /\ Len(queue[c]) = Backlog(c)
  BY <1>1, <1>2, BacklogBounds
<1>4. Backlog(c) > 0
  <2>1. queue[c] \in Seq(Nat) /\ queue[c] # <<>>
    BY <1>1 DEF TypeOK, Get
  <2>2. QED
    BY <1>3, <2>1
<1>5. sent \in Nat /\ QueueSize \in Nat
  BY <1>1, BusAssumption DEF TypeOK
<1> DEFINE m == sent - Backlog(c)
<1>6. /\ Head(queue[c]) = m + 1
      /\ Tail(queue[c]) = Events(m + 1, sent)
  <2>1. m \in Nat /\ m < sent /\ queue[c] = Events(m, sent)
    BY <1>2, <1>3, <1>4, <1>5
  <2> HIDE DEF m
  <2>2. QED
    BY <1>5, <2>1, EventsTail
<1>7. taken'[c] = Head(queue[c]) /\ queue'[c] = Tail(queue[c])
  BY <1>1 DEF Get, TypeOK
<1>8. QED
  BY <1>1, <1>2, <1>3, <1>4, <1>5, <1>6, <1>7

LEMMA GetKeeps ==
  ASSUME Inv, NEW c \in Client, Get(c)
  PROVE  Inv'
<1>1. /\ c \in subscribers /\ Backlog(c) > 0
      /\ taken'[c] = sent - Backlog(c) + 1 /\ taken[c] < taken'[c]
      /\ queue'[c] = Events(sent - Backlog(c) + 1, sent)
  BY GetTakes
<1>2. /\ sent \in Nat /\ QueueSize \in Nat \ {0} /\ taken[c] \in 0..sent
      /\ Backlog(c) \in 0..QueueSize /\ sent - Backlog(c) \in Nat
      /\ taken[c] <= sent - Backlog(c)
  <2>1. TypeOK /\ taken[c] \in 0..sent
    BY <1>1 DEF Inv, QueueIsNewest
  <2>2. QED
    BY <2>1, BacklogBounds, BusAssumption DEF TypeOK
<1>3. Backlog(c)' = Backlog(c) - 1 /\ sent' = sent
  BY <1>1, <1>2 DEF Backlog, Lag, Get
<1>4. QueueIsNewest'
  <2>1. ASSUME NEW d \in subscribers', d # c
        PROVE  /\ taken'[d] \in 0..sent'
               /\ queue'[d] = Events(sent' - Backlog(d)', sent')
    BY <2>1 DEF Inv, TypeOK, QueueIsNewest, Get, Backlog, Lag
  <2>2. taken'[c] \in 0..sent'
    BY <1>1, <1>2, <1>3
  <2>3. sent' - Backlog(c)' = sent - Backlog(c) + 1
    BY <1>2, <1>3
  <2>4. QED
    BY <1>1, <1>3, <2>1, <2>2, <2>3 DEF QueueIsNewest
<1>5. TypeOK'
  <2> DEFINE m == sent - Backlog(c) + 1
  <2>1. m \in Nat /\ m <= sent /\ taken'[c] \in Nat /\ queue'[c] = Events(m, sent)
    BY <1>1, <1>2
  <2>2. queue'[c] \in Seq(Nat) /\ Len(queue'[c]) = sent - m
    <3> HIDE DEF m
    <3>1. QED
      BY <1>2, <2>1, EventsType
  <2>3. \A d \in Client : Len(queue'[d]) <= QueueSize
    <3>1. Len(queue'[c]) <= QueueSize
      BY <1>1, <1>2, <2>2
    <3>2. QED
      BY <3>1 DEF Inv, TypeOK, Get
  <2>4. QED
    BY <2>1, <2>2, <2>3 DEF Inv, TypeOK, Get, HandlerState
<1>6. OnlyLiveSubscribers'
  BY DEF Inv, TypeOK, OnlyLiveSubscribers, Get
<1>7. ReceivedBehind'
  <2>1. ASSUME NEW d \in Client, NEW i \in 1..Len(received[d])
        PROVE  /\ received[d][i] <= taken'[d]
               /\ handler'[d] = "holding" => received[d][i] < taken'[d]
    <3>1. received[d][i] \in Nat /\ taken[d] \in Nat /\ received[d][i] <= taken[d]
      BY DEF Inv, TypeOK, ReceivedBehind
    <3>2. CASE d = c
      BY <1>1, <1>2, <3>1, <3>2
    <3>3. CASE d # c
      BY <3>3 DEF Inv, TypeOK, ReceivedBehind, Get
    <3>4. QED
      BY <3>2, <3>3
  <2>2. QED
    BY <2>1 DEF ReceivedBehind, Get
<1>8. ReceivedInOrder'
  BY DEF Inv, ReceivedInOrder, Get
<1>9. QED
  BY <1>4, <1>5, <1>6, <1>7, <1>8 DEF Inv

LEMMA YieldKeeps ==
  ASSUME Inv, NEW c \in Client, Yield(c)
  PROVE  Inv'
<1>1. TypeOK'
  BY DEF Inv, TypeOK, Yield, HandlerState
<1>2. QueueIsNewest' /\ OnlyLiveSubscribers'
  BY DEF Inv, TypeOK, QueueIsNewest, OnlyLiveSubscribers, Yield, Backlog, Lag
<1>3. /\ received[c] \in Seq(Nat) /\ taken[c] \in Nat
      /\ received'[c] = Append(received[c], taken[c])
      /\ \A i \in 1..Len(received[c]) : received[c][i] < taken[c]
      /\ \A d \in Client \ {c} : received'[d] = received[d]
      /\ UNCHANGED taken /\ handler'[c] = "waiting"
      /\ \A d \in Client \ {c} : handler'[d] = handler[d]
  BY DEF Inv, TypeOK, Yield, ReceivedBehind
<1>4. /\ Len(received'[c]) = Len(received[c]) + 1 /\ Len(received[c]) \in Nat
      /\ \A i \in 1..Len(received[c]) : received'[c][i] = received[c][i]
      /\ received'[c][Len(received[c]) + 1] = taken[c]
  BY <1>3, AppendProperties
<1>5. ReceivedBehind'
  <2>1. \A i \in 1..Len(received'[c]) : received'[c][i] <= taken'[c]
    BY <1>3, <1>4
  <2>2. QED
    BY <1>3, <2>1 DEF Inv, ReceivedBehind
<1>6. ReceivedInOrder'
  <2>1. ASSUME NEW i \in 1..Len(received'[c]), NEW j \in 1..Len(received'[c]), i < j
        PROVE  received'[c][i] < received'[c][j]
    <3>1. i \in 1..Len(received[c])
      BY <1>4, <2>1
    <3>2. CASE j = Len(received[c]) + 1
      BY <1>3, <1>4, <3>1, <3>2
    <3>3. CASE j \in 1..Len(received[c])
      BY <1>4, <2>1, <3>1, <3>3 DEF Inv, ReceivedInOrder
    <3>4. QED
      BY <1>4, <2>1, <3>2, <3>3
  <2>2. QED
    BY <1>3, <2>1 DEF Inv, ReceivedInOrder
<1>7. QED
  BY <1>1, <1>2, <1>5, <1>6 DEF Inv

LEMMA RestKeeps ==
  ASSUME Inv, NEW c \in Client, Begin(c) \/ Disconnect(c) \/ Close(c)
  PROVE  Inv'
<1>1. TypeOK'
  BY DEF Inv, TypeOK, Begin, Disconnect, Close, HandlerState
<1>2. QueueIsNewest'
  BY DEF Inv, QueueIsNewest, Begin, Disconnect, Close, Backlog, Lag
<1>3. OnlyLiveSubscribers'
  BY DEF Inv, TypeOK, OnlyLiveSubscribers, Begin, Disconnect, Close
<1>4. ReceivedBehind'
  BY DEF Inv, TypeOK, ReceivedBehind, Begin, Disconnect, Close
<1>5. ReceivedInOrder'
  BY DEF Inv, ReceivedInOrder, Begin, Disconnect, Close
<1>6. QED
  BY <1>1, <1>2, <1>3, <1>4, <1>5 DEF Inv

THEOREM BusInvariant == Spec => []Inv
<1>1. Init => Inv
  BY BusAssumption DEF Init, Inv, TypeOK, HandlerState, QueueIsNewest, OnlyLiveSubscribers,
         ReceivedBehind, ReceivedInOrder
<1>2. Inv /\ [Next]_vars => Inv'
  <2> SUFFICES ASSUME Inv, [Next]_vars PROVE Inv'
    OBVIOUS
  <2>1. CASE UNCHANGED vars
    BY <2>1 DEF vars, Inv, TypeOK, QueueIsNewest, OnlyLiveSubscribers,
                ReceivedBehind, ReceivedInOrder, Backlog, Lag
  <2>2. QED
    BY <2>1, PublishKeeps, ConnectKeeps, GetKeeps, YieldKeeps, RestKeeps DEF Next
<1>3. QED
  BY <1>1, <1>2, PTL DEF Spec

(* The types of the bus, of its queues and of its handlers.                *)
THEOREM BusTypeCorrect == Spec => []TypeOK
<1>1. Inv => TypeOK
  BY DEF Inv
<1>2. QED
  BY <1>1, BusInvariant, PTL

(* A queue holds exactly the newest QueueSize events not yet taken.        *)
THEOREM QueueIsNewestHolds == Spec => []QueueIsNewest
<1>1. Inv => QueueIsNewest
  BY DEF Inv
<1>2. QED
  BY <1>1, BusInvariant, PTL

(* A client never sees an event twice or out of order on one connection.   *)
THEOREM ReceivedInOrderHolds == Spec => []ReceivedInOrder
<1>1. Inv => ReceivedInOrder
  BY DEF Inv
<1>2. QED
  BY <1>1, BusInvariant, PTL

(* No queue outlives the request that subscribed it.                       *)
THEOREM OnlyLiveSubscribersHolds == Spec => []OnlyLiveSubscribers
<1>1. Inv => OnlyLiveSubscribers
  BY DEF Inv
<1>2. QED
  BY <1>1, BusInvariant, PTL

(* Events are skipped only by a subscriber that is overrun.                *)
THEOREM SkipsHolds == Spec => SkipsOnlyWhenOverrun
<1> DEFINE Skips == \A c \in subscribers : taken'[c] > taken[c] + 1 => Lag(c) > QueueSize
<1>1. ASSUME Inv, [Next]_vars
      PROVE  Skips
  <2>1. SUFFICES ASSUME NEW c \in subscribers, taken'[c] > taken[c] + 1
                 PROVE  Lag(c) > QueueSize
    OBVIOUS
  <2>2. /\ c \in Client /\ handler[c] # "none" /\ taken[c] \in 0..sent
        /\ sent \in Nat /\ QueueSize \in Nat
    BY <1>1, BusAssumption
       DEF Inv, TypeOK, OnlyLiveSubscribers, QueueIsNewest
  <2>3. CASE Get(c)
    <3>1. taken'[c] = sent - Backlog(c) + 1
      BY <1>1, <2>2, <2>3, GetTakes
    <3>2. QED
      BY <2>1, <2>2, <3>1 DEF Backlog, Lag
  <2>4. CASE ~Get(c)
    <3>1. taken'[c] = taken[c]
      BY <1>1, <2>2, <2>4 DEF Inv, TypeOK, Next, vars, Publish, Connect,
                              Disconnect, Begin, Get, Yield, Close
    <3>2. QED
      BY <2>1, <2>2, <3>1
  <2>5. QED
    BY <2>3, <2>4
<1>2. Inv /\ [Next]_vars => [Skips]_vars
  BY <1>1
<1>3. QED
  BY <1>2, BusInvariant, PTL DEF Spec, SkipsOnlyWhenOverrun

(* The bus implements the window: a subscriber is served the events after  *)
(* its subscription in order, moved on only when it leaves the window.     *)
THEOREM WindowImplemented == Spec => ImplementsWindow
<1>1. Init => Window!Init
  BY DEF Init, Window!Init
<1>2. ASSUME Inv, [Next]_vars
      PROVE  [Window!Next]_(Window!vars)
  <2>1. CASE Publish
    BY <2>1 DEF Publish, Window!Next, Window!Publish
  <2>2. ASSUME NEW c \in Client, Connect(c)
        PROVE  Window!Next
    BY <1>2, <2>2 DEF Inv, OnlyLiveSubscribers, Connect, Window!Next, Window!Join
  <2>3. ASSUME NEW c \in Client, Get(c)
        PROVE  Window!Next
    <3>1. /\ c \in subscribers /\ Backlog(c) > 0
          /\ taken'[c] = sent - Backlog(c) + 1
      BY <1>2, <2>3, GetTakes
    <3>2. sent \in Nat /\ QueueSize \in Nat /\ taken[c] \in 0..sent
      BY <1>2, <3>1, BusAssumption DEF Inv, TypeOK, QueueIsNewest
    <3>3. taken'[c] = Window!NextFor(c) /\ taken[c] < sent
      BY <3>1, <3>2 DEF Backlog, Lag, Window!NextFor
    <3>4. taken' = [taken EXCEPT ![c] = Window!NextFor(c)]
      BY <1>2, <2>3, <3>3 DEF Get, Inv, TypeOK
    <3>5. QED
      BY <2>3, <3>1, <3>3, <3>4 DEF Get, Window!Next, Window!Take
  <2>4. ASSUME NEW c \in Client, Close(c)
        PROVE  Window!Next
    BY <1>2, <2>4 DEF Inv, OnlyLiveSubscribers, Close, Window!Next, Window!Leave
  <2>5. ASSUME NEW c \in Client, Disconnect(c) \/ Begin(c) \/ Yield(c)
        PROVE  UNCHANGED Window!vars
    BY <2>5 DEF Disconnect, Begin, Yield, Window!vars
  <2>6. CASE UNCHANGED vars
    BY <2>6 DEF vars, Window!vars
  <2>7. QED
    BY <1>2, <2>1, <2>2, <2>3, <2>4, <2>5, <2>6 DEF Next
<1>3. QED
  BY <1>1, <1>2, BusInvariant, PTL DEF Spec, ImplementsWindow, Window!Spec
=============================================================================
