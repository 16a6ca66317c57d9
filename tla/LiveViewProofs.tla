--------------------------- MODULE LiveViewProofs ---------------------------
(***************************************************************************)
(* What a browser tab shows, for every size of its queue, every limit of a *)
(* catch-up and any number of hosts, changes, requests and faults.         *)
(*                                                                         *)
(* Base says that messages, tables and requests belong together.  Three    *)
(* more invariants say of the map, the detail pane and the timeline that   *)
(* what is missing there is still to come:                                 *)
(*   - MapFresh: the map has what was announced of a host, or the event    *)
(*     that announces it is one that correlate has yet to publish or the   *)
(*     queue still holds, or the line of requests mends it;                *)
(*   - DetailFresh: the same of the pane and the host that is selected;    *)
(*   - AllSince: an event since the first message is shown or on the way.  *)
(* Mended is the part that takes thought.  The answers in a line are       *)
(* handled one after the other and each overwrites what is shown, so one   *)
(* that will bring the row as it was announced is of use only if no answer *)
(* behind it brings an older one.  It speaks of a line of any length, so a *)
(* request is handled, read or added by the same lemmas everywhere.        *)
(*                                                                         *)
(* reduceEvent is applied to a list of events with FlattenSeq, which is    *)
(* recursive: what it yields is shown in ListFacts.                        *)
(***************************************************************************)
EXTENDS LiveView, ListFacts

(* A copy, and a line of requests that may overwrite it: in the end it is  *)
(* good if it is good now or a request of Cover will make it so, and all   *)
(* that are handled from then on, which are in Harmless, leave it so.      *)
Mended(copy, Good, line, Cover, Harmless) ==
  \E k \in 0..Len(line) :
    /\ IF k = 0 THEN copy \in Good ELSE line[k] \in Cover
    /\ \A j \in 1..Len(line) : j >= k => line[j] \in Harmless

LEMMA MendedGrows ==
  ASSUME NEW copy, NEW Good, NEW Cover, NEW Harmless, NEW X,
         NEW line \in Seq(X), NEW more \in Seq(X), Range(more) \subseteq Harmless,
         \/ Mended(copy, Good, line, Cover, Harmless)
         \/ Range(more) \cap Cover # {}
  PROVE  Mended(copy, Good, line \o more, Cover, Harmless)
<1> DEFINE all == line \o more
<1>1. /\ Len(line) \in Nat /\ Len(more) \in Nat
      /\ DOMAIN line = 1..Len(line) /\ DOMAIN more = 1..Len(more)
  BY LenProperties
<1>2. /\ Len(all) = Len(line) + Len(more)
      /\ \A i \in 1..Len(line) + Len(more) :
           all[i] = IF i <= Len(line) THEN line[i] ELSE more[i - Len(line)]
  BY ConcatProperties
<1> HIDE DEF all
<1>3. \A i \in 1..Len(line) : i \in 1..Len(all) /\ all[i] = line[i]
  BY <1>1, <1>2
<1>4. \A i \in 1..Len(all) : i > Len(line) => all[i] \in Harmless
  <2>1. SUFFICES ASSUME NEW i \in 1..Len(all), i > Len(line)
                 PROVE  all[i] \in Harmless
    OBVIOUS
  <2>2. i - Len(line) \in 1..Len(more) /\ all[i] = more[i - Len(line)]
    BY <1>1, <1>2, <2>1
  <2>3. QED
    BY <1>1, <2>2 DEF Range
<1>5. CASE Mended(copy, Good, line, Cover, Harmless)
  <2>1. PICK k \in 0..Len(line) :
          /\ IF k = 0 THEN copy \in Good ELSE line[k] \in Cover
          /\ \A j \in 1..Len(line) : j >= k => line[j] \in Harmless
    BY <1>5 DEF Mended
  <2>2. k \in 0..Len(all)
    BY <1>1, <1>2
  <2>3. IF k = 0 THEN copy \in Good ELSE all[k] \in Cover
    BY <1>1, <1>3, <2>1
  <2>4. ASSUME NEW j \in 1..Len(all), j >= k
        PROVE  all[j] \in Harmless
    <3>1. CASE j <= Len(line)
      BY <1>1, <1>3, <2>1, <2>4, <3>1
    <3>2. CASE ~(j <= Len(line))
      BY <1>1, <1>4, <3>2
    <3>3. QED
      BY <3>1, <3>2
  <2>5. QED
    BY <2>2, <2>3, <2>4 DEF Mended, all
<1>6. CASE Range(more) \cap Cover # {}
  <2>1. PICK i \in 1..Len(more) : more[i] \in Cover
    BY <1>1, <1>6 DEF Range
  <2> DEFINE k == Len(line) + i
  <2>2. k \in 0..Len(all) /\ k # 0 /\ k > Len(line) /\ k \in 1..Len(line) + Len(more)
    BY <1>1, <1>2
  <2>3. all[k] = more[i]
    <3>1. ~(k <= Len(line)) /\ k - Len(line) = i
      BY <1>1
    <3>2. QED
      BY <1>2, <2>2, <3>1
  <2> HIDE DEF k
  <2>4. ASSUME NEW j \in 1..Len(all), j >= k
        PROVE  all[j] \in Harmless
    BY <1>1, <1>2, <1>4, <2>2, <2>4
  <2>5. QED
    BY <2>1, <2>2, <2>3, <2>4 DEF Mended, all
<1>7. QED
  BY <1>5, <1>6

LEMMA MendedHandled ==
  ASSUME NEW copy, NEW Good, NEW new, NEW Cover, NEW Harmless, NEW X,
         NEW line \in Seq(X), line # <<>>,
         Mended(copy, Good, line, Cover, Harmless),
         Head(line) \in Harmless /\ (copy \in Good \/ Head(line) \in Cover)
           => new \in Good
  PROVE  Mended(new, Good, Tail(line), Cover, Harmless)
<1>1. /\ Len(Tail(line)) = Len(line) - 1 /\ Len(line) \in Nat \ {0}
      /\ \A i \in 1..Len(Tail(line)) : Tail(line)[i] = line[i + 1]
      /\ Head(line) = line[1]
  BY HeadTailProperties, LenProperties, EmptySeq
<1>2. PICK k \in 0..Len(line) :
          /\ IF k = 0 THEN copy \in Good ELSE line[k] \in Cover
          /\ \A j \in 1..Len(line) : j >= k => line[j] \in Harmless
  BY DEF Mended
<1> DEFINE t == Tail(line)
<1> HIDE DEF t
<1>3. \A i \in 1..Len(t) : i + 1 \in 1..Len(line) /\ t[i] = line[i + 1]
  BY <1>1 DEF t
<1>4. CASE k <= 1
  <2>1. 1 \in 1..Len(line)
    BY <1>1
  <2>2. Head(line) \in Harmless /\ (copy \in Good \/ Head(line) \in Cover)
    <3>1. k = 0 \/ k = 1
      BY <1>1, <1>4
    <3>2. QED
      BY <1>1, <1>2, <2>1, <3>1
  <2>3. new \in Good
    BY <2>2
  <2>4. \A j \in 1..Len(t) : t[j] \in Harmless
    <3>1. \A j \in 1..Len(t) : j + 1 >= k
      BY <1>1, <1>4 DEF t
    <3>2. QED
      BY <1>2, <1>3, <3>1
  <2>5. 0 \in 0..Len(t)
    BY <1>1 DEF t
  <2>6. QED
    BY <2>3, <2>4, <2>5 DEF Mended, t
<1>5. CASE ~(k <= 1)
  <2>1. k - 1 \in 0..Len(t) /\ k - 1 # 0 /\ (k - 1) + 1 = k /\ k - 1 \in 1..Len(t)
    BY <1>1, <1>5 DEF t
  <2>2. t[k - 1] \in Cover
    BY <1>2, <1>3, <1>5, <2>1
  <2>3. ASSUME NEW j \in 1..Len(t), j >= k - 1
        PROVE  t[j] \in Harmless
    <3>1. j + 1 >= k
      BY <1>1, <2>3 DEF t
    <3>2. QED
      BY <1>2, <1>3, <3>1
  <2>4. QED
    BY <2>1, <2>2, <2>3 DEF Mended, t
<1>6. QED
  BY <1>4, <1>5

LEMMA MendedRead ==
  ASSUME NEW copy, NEW Good, NEW Cover, NEW Harmless, NEW X,
         NEW line \in Seq(X), line # <<>>, NEW r \in X,
         Mended(copy, Good, line, Cover, Harmless),
         Head(line) \in Cover => r \in Cover,
         Head(line) \in Harmless => r \in Harmless
  PROVE  Mended(copy, Good, <<r>> \o Tail(line), Cover, Harmless)
<1>1. /\ Tail(line) \in Seq(X) /\ Len(Tail(line)) = Len(line) - 1
      /\ Len(line) \in Nat \ {0} /\ Head(line) = line[1]
      /\ \A i \in 1..Len(Tail(line)) : Tail(line)[i] = line[i + 1]
  BY HeadTailProperties, LenProperties, EmptySeq
<1> DEFINE t == Tail(line)
           s == <<r>> \o t
<1> HIDE DEF t
<1>2. <<r>> \in Seq(X) /\ Len(<<r>>) = 1 /\ <<r>>[1] = r /\ t \in Seq(X)
  BY <1>1 DEF t
<1>3. /\ Len(s) = 1 + Len(t)
      /\ \A i \in 1..1 + Len(t) : s[i] = IF i <= 1 THEN <<r>>[i] ELSE t[i - 1]
  BY <1>2, ConcatProperties
<1> HIDE DEF s
<1>4. Len(s) = Len(line) /\ s[1] = r
  BY <1>1, <1>2, <1>3 DEF t
<1>5. ASSUME NEW i \in 1..Len(line), i # 1
      PROVE  s[i] = line[i]
  <2>1. i - 1 \in 1..Len(t) /\ (i - 1) + 1 = i /\ ~(i <= 1) /\ i \in 1..1 + Len(t)
    BY <1>1, <1>5 DEF t
  <2>2. s[i] = t[i - 1]
    BY <1>3, <2>1
  <2>3. t[i - 1] = line[(i - 1) + 1]
    BY <1>1, <2>1 DEF t
  <2>4. QED
    BY <2>1, <2>2, <2>3
<1>6. PICK k \in 0..Len(line) :
          /\ IF k = 0 THEN copy \in Good ELSE line[k] \in Cover
          /\ \A j \in 1..Len(line) : j >= k => line[j] \in Harmless
  BY DEF Mended
<1>7. \A j \in 1..Len(line) : j >= k => s[j] \in Harmless
  BY <1>1, <1>4, <1>5, <1>6
<1>8. IF k = 0 THEN copy \in Good ELSE s[k] \in Cover
  BY <1>1, <1>4, <1>5, <1>6
<1>9. QED
  BY <1>4, <1>7, <1>8 DEF Mended, s, t

LEMMA MendedStays ==
  ASSUME NEW copy, NEW line, NEW Good, NEW Cover, NEW Harmless,
         NEW Good2, NEW Cover2, NEW Harmless2,
         Good \subseteq Good2, Cover \subseteq Cover2, Harmless \subseteq Harmless2,
         Mended(copy, Good, line, Cover, Harmless)
  PROVE  Mended(copy, Good2, line, Cover2, Harmless2)
<1>1. PICK k \in 0..Len(line) :
          /\ IF k = 0 THEN copy \in Good ELSE line[k] \in Cover
          /\ \A j \in 1..Len(line) : j >= k => line[j] \in Harmless
  BY DEF Mended
<1>2. IF k = 0 THEN copy \in Good2 ELSE line[k] \in Cover2
  BY <1>1
<1>3. \A j \in 1..Len(line) : j >= k => line[j] \in Harmless2
  BY <1>1
<1>4. QED
  BY <1>2, <1>3 DEF Mended

-----------------------------------------------------------------------------
(* The inductive invariant: what the properties rest on.                   *)

(* A request as it is sent, and as it may be while it is on its way.       *)
Fresh == {r \in Request : /\ r.stage = "sent"
                          /\ r.events = {}
                          /\ r.view = Empty
                          /\ r.kind \in Detail => r.host \in Host}
Possible == {r \in Request :
               /\ r.kind \in Detail => r.host \in Host
               /\ r.stage \in {"row", "ports", "ips"} => r.kind \in Detail
               /\ r.events \subseteq DOMAIN event
               /\ \A h \in Host : r.view[h].row # 0 => host[h].row # 0}

Published == [ts : 1..clock, event : {0} \cup DOMAIN event]

(* What waits in the queue of the tab, and the events of it.               *)
Waiting == taken[Tab] + 1..sent
Queued  == {msg[i].event : i \in Waiting} \ {0}

MessagesOK ==
  /\ msg \in Seq(Published)
  /\ \A i, j \in 1..sent : i <= j => msg[i].ts <= msg[j].ts
  /\ \A i \in 1..sent : msg[i].event # 0 => event[msg[i].event].ts = msg[i].ts
  /\ sse = "open" => \A i \in Waiting : cursor <= msg[i].ts

(* Everything that has a row was announced by an event, or will be.        *)
TablesOK ==
  /\ \A h \in Host : /\ host[h].row = 0 => host[h] = NoHost
                     /\ host[h].row # 0 => told[h].row # 0
                     /\ told[h].row <= host[h].row /\ told[h].ports <= host[h].ports
  /\ job.pc = "idle" => job.news = <<>>
  /\ \A i \in DOMAIN job.news : /\ job.news[i].ts = Stamp
                                /\ host[job.news[i].host].row # 0
  /\ \A e \in DOMAIN event : /\ host[event[e].host].row # 0
                             /\ event[e].ts <= Stamp
                             /\ event[e].ts = Stamp => job.pc # "idle"

PageOK ==
  /\ request \in Seq(Possible)
  /\ \A h \in Host : map[h].row # 0 => host[h].row # 0
  /\ selected # 0 => host[selected].row # 0
  /\ sse \in {"new", "dead"} => selected = 0 /\ cursor = 0
  /\ since # 0 => cursor # 0

Base == TypeOK /\ MessagesOK /\ TablesOK /\ PageOK

(* A request has been answered with what was announced last of a host.     *)
Agrees(r, h) == /\ r.view[h].row >= told[h].row
                /\ r.stage \in {"ports", "ips", "read"} =>
                     r.view[h].ports >= told[h].ports

(* The map.  A host is about to be announced as changed; or its place in   *)
(* the map is mended by the requests that are under way.                   *)
Covers(h) == {r \in Request : \/ r.kind \in {"catchup", "new"}
                              \/ r.kind = "merge" /\ told[h].row # 0
                              \/ r.kind = "ip" /\ r.host = h}
Spares(h) == {r \in Request : \/ r.stage = "sent"
                              \/ r.kind \notin Listing \cup {"ip"}
                              \/ r.kind = "ip" /\ r.host # h
                              \/ Agrees(r, h)}
Changing(h) ==
  \/ \E i \in DOMAIN job.news : job.news[i].host = h
  \/ \E e \in DOMAIN event :
       event[e].host = h /\ (event[e].ts = Stamp \/ e \in Queued)
GoodHost(h) == {copy \in [row : Nat, ports : Nat] : NoOlder(copy, h)}
Repaired(h) == Mended(map[h], GoodHost(h), request, Covers(h), Spares(h))

MapFresh == (sse = "open" /\ ~stale) => \A h \in Host : Changing(h) \/ Repaired(h)

(* An event that the page will be told of: its scan is about to publish    *)
(* it, it is queued, or a catch-up will ask for it or has asked for it.    *)
OnTheWay(e) ==
  \/ event[e].ts = Stamp
  \/ sse = "open" /\ e \in Queued
  \/ /\ cursor # 0 /\ event[e].ts >= cursor
     /\ sse = "closed" \/ \E r \in Range(request) : r.kind = "catchup"
  \/ \E r \in Range(request) :
       /\ r.kind = "catchup_events" /\ event[e].ts >= r.from
       /\ r.stage = "read" => e \in r.events

(* The detail pane, in the same way.                                       *)
GoodPane == {pane \in Pane : /\ pane.host = selected
                             /\ NoOlder(pane, selected)
                             /\ pane.ips >= told[selected].row
                             /\ Tells(pane.events, selected)}
AgreesDetail(r) ==
  /\ Agrees(r, selected)
  /\ r.stage \in {"ips", "read"} => r.ips >= told[selected].row
  /\ r.stage = "read" => Tells(r.events, selected)
CoversDetail == {r \in Request : r.kind \in Detail /\ r.host = selected}
SparesDetail == {r \in Request : \/ r.kind \notin Detail
                                 \/ r.kind = "ip" /\ r.host # selected
                                 \/ /\ r.host = selected
                                    /\ r.stage = "sent" \/ AgreesDetail(r)}
Coming ==
  \/ \E i \in DOMAIN job.news :
       job.news[i].host = selected /\ job.news[i].kind # "host.new"
  \/ \E e \in DOMAIN event :
       event[e].host = selected /\ event[e].kind # "host.new" /\ OnTheWay(e)
Watched == selected # 0 /\ ~blind /\ (sse = "closed" => cursor # 0)
Redrawn == Mended(detail, GoodPane, request, CoversDetail, SparesDetail)

DetailFresh == Watched => Coming \/ Redrawn

-----------------------------------------------------------------------------
(* Requests.                                                               *)
LEMMA FreshIsPossible == Fresh \subseteq Possible /\ Possible \subseteq Request
  BY DEF Fresh, Possible, Empty, NoHost

LEMMA AskIsFresh ==
  ASSUME NEW kind \in Kind, NEW h \in 0..MaxHosts, kind \in Detail => h \in Host
  PROVE  /\ Ask(kind, h) \in Fresh
         /\ Ask(kind, h).kind = kind /\ Ask(kind, h).host = h
<1>1. Empty \in [Host -> [row : Nat, ports : Nat]]
  BY DEF Empty, NoHost
<1>2. Ask(kind, h) \in Request
  BY <1>1 DEF Ask, Request, Stage
<1>3. QED
  BY <1>2 DEF Ask, Fresh

LEMMA CatchUpEventsIsFresh ==
  ASSUME NEW ts \in Nat
  PROVE  LET r == [Ask("catchup_events", 0) EXCEPT !.from = ts]
         IN  r \in Fresh /\ r.kind = "catchup_events" /\ r.from = ts /\ r.stage = "sent"
<1>1. Empty \in [Host -> [row : Nat, ports : Nat]] /\ 0 \in 0..MaxHosts
  BY LiveViewAssumption DEF Empty, NoHost
<1> DEFINE r == [Ask("catchup_events", 0) EXCEPT !.from = ts]
<1>2. r = [kind |-> "catchup_events", host |-> 0, stage |-> "sent", view |-> Empty,
           ips |-> 0, events |-> {}, from |-> ts]
  BY DEF Ask
<1>3. r \in Request
  BY <1>1, <1>2 DEF Request, Kind, Stage
<1>4. QED
  BY <1>2, <1>3 DEF Fresh, Detail

(* The requests that an event leads to, as a set.                          *)
AsksFor(e) ==
  LET h == event[e].host IN
  {r \in {Ask("new", h)}   : event[e].kind = "host.new"} \cup
  {r \in {Ask("ip", h)}    : event[e].kind = "ip.changed"} \cup
  {r \in {Ask("port", h)}  : event[e].kind = "port" /\ selected = h} \cup
  {r \in {Ask("merge", h)} : event[e].kind = "port"}

LEMMA AsksAreFor ==
  ASSUME TypeOK, NEW e \in DOMAIN event
  PROVE  Asks(e) \in Seq(Fresh) /\ Range(Asks(e)) = AsksFor(e)
<1> DEFINE h == event[e].host
<1>1. event[e] \in Event
  BY LenProperties DEF TypeOK
<1>2. h \in Host /\ h \in 0..MaxHosts /\ event[e].kind \in {"host.new", "ip.changed", "port"}
  BY <1>1, LiveViewAssumption DEF Event, Host
<1> HIDE DEF h
<1>3. \A kind \in {"new", "ip", "port", "merge"} : Ask(kind, h) \in Fresh
  BY <1>2, AskIsFresh DEF Kind
<1>4. \A r \in Fresh : <<r>> \in Seq(Fresh) /\ Range(<<r>>) = {r}
  BY DEF Range
<1>5. <<>> \in Seq(Fresh) /\ Range(<<>>) = {}
  BY DEF Range
<1>6. CASE event[e].kind = "host.new"
  <2>1. Asks(e) = <<Ask("new", h)>>
    BY <1>6 DEF Asks, h
  <2>2. AsksFor(e) = {Ask("new", h)}
    BY <1>6 DEF AsksFor, h
  <2>3. QED
    BY <1>3, <1>4, <2>1, <2>2
<1>7. CASE event[e].kind = "ip.changed"
  <2>1. Asks(e) = <<Ask("ip", h)>>
    BY <1>7 DEF Asks, h
  <2>2. AsksFor(e) = {Ask("ip", h)}
    BY <1>7 DEF AsksFor, h
  <2>3. QED
    BY <1>3, <1>4, <2>1, <2>2
<1>8. CASE event[e].kind = "port"
  <2> DEFINE first == IF selected = h THEN <<Ask("port", h)>> ELSE <<>>
             last  == <<Ask("merge", h)>>
  <2>1. Asks(e) = first \o last
    BY <1>8 DEF Asks, h
  <2>2. first \in Seq(Fresh) /\ Range(first) = {r \in {Ask("port", h)} : selected = h}
    BY <1>3, <1>4, <1>5
  <2>3. last \in Seq(Fresh) /\ Range(last) = {Ask("merge", h)}
    BY <1>3, <1>4
  <2>4. AsksFor(e) = {r \in {Ask("port", h)} : selected = h} \cup {Ask("merge", h)}
    BY <1>8 DEF AsksFor, h
  <2> HIDE DEF first, last
  <2>5. first \o last \in Seq(Fresh) /\ Range(first \o last) = Range(first) \cup Range(last)
    BY <2>2, <2>3, ConcatProperties, RangeConcatenation
  <2>6. QED
    BY <2>1, <2>2, <2>3, <2>4, <2>5
<1>9. QED
  BY <1>2, <1>6, <1>7, <1>8

LEMMA AllAsksAreFor ==
  ASSUME TypeOK, NEW S \in SUBSET DOMAIN event, NEW es \in InOrder(S)
  PROVE  /\ AllAsks(es) \in Seq(Fresh)
         /\ \A r : r \in Range(AllAsks(es)) <=> \E e \in S : r \in AsksFor(e)
<1>1. DOMAIN event = 1..Len(event) /\ Len(event) \in Nat
  BY LenProperties DEF TypeOK
<1>2. es \in Seq(S) /\ DOMAIN es = 1..Len(es) /\ Range(es) = S /\ Len(es) \in Nat
  BY <1>1, InOrderListsAll, LenProperties
<1>3. \A k \in DOMAIN es : es[k] \in S
  BY <1>2 DEF Range
<1> DEFINE parts == [k \in DOMAIN es |-> Asks(es[k])]
<1>4. parts \in Seq(Seq(Fresh)) /\ DOMAIN parts = DOMAIN es
  <2>1. \A k \in DOMAIN es : Asks(es[k]) \in Seq(Fresh)
    BY <1>3, AsksAreFor
  <2>2. parts \in [1..Len(es) -> Seq(Fresh)]
    BY <1>2, <2>1
  <2>3. QED
    BY <1>2, <2>2, SeqDef
<1>5. \A k \in DOMAIN es : Range(parts[k]) = AsksFor(es[k])
  BY <1>3, AsksAreFor
<1>6. /\ AllAsks(es) \in Seq(Fresh)
      /\ \A r : r \in Range(AllAsks(es)) <=> \E k \in DOMAIN parts : r \in Range(parts[k])
  <2>1. AllAsks(es) = FlattenSeq(parts)
    BY DEF AllAsks
  <2> HIDE DEF parts
  <2>2. QED
    BY <1>4, <2>1, FlattenHasAll
<1> HIDE DEF parts
<1>7. \A r : (\E k \in DOMAIN parts : r \in Range(parts[k])) <=> \E e \in S : r \in AsksFor(e)
  <2>1. ASSUME NEW r, NEW k \in DOMAIN parts, r \in Range(parts[k])
        PROVE  \E e \in S : r \in AsksFor(e)
    BY <1>3, <1>4, <1>5, <2>1
  <2>2. ASSUME NEW r, NEW e \in S, r \in AsksFor(e)
        PROVE  \E k \in DOMAIN parts : r \in Range(parts[k])
    <3>1. PICK k \in DOMAIN es : es[k] = e
      BY <1>2 DEF Range
    <3>2. QED
      BY <1>4, <1>5, <2>2, <3>1
  <2>3. QED
    BY <2>1, <2>2
<1>8. QED
  BY <1>6, <1>7

-----------------------------------------------------------------------------
(* Base is inductive.                                                      *)

LEMMA InitBase ==
  ASSUME Init
  PROVE  Base
<1>1. Host \subseteq Nat /\ Empty \in [Host -> [row : Nat, ports : Nat]]
  BY DEF Host, Empty, NoHost
<1>2. TypeOK
  <2>1. <<>> \in Seq(Event) /\ <<>> \in Seq(Message) /\ <<>> \in Seq(Request) /\ Len(<<>>) = 0
    BY EmptySeq
  <2>2. joined = {} /\ sent = 0 /\ taken = [c \in {Tab} |-> 0]
    BY DEF Init, Window!Init
  <2>3. job \in [pc : {"idle", "write", "insert"}, news : Seq(Event)]
    BY <2>1 DEF Init, NoJob
  <2>4. detail \in Pane /\ selected \in 0..MaxHosts
    BY LiveViewAssumption DEF Init, NoDetail, Pane
  <2>5. <<drops, faults, selects>> \in (0..MaxDrops) \X (0..MaxFaults) \X (0..MaxSelects)
        /\ notices \in 0..MaxNotices
    BY LiveViewAssumption DEF Init
  <2>6. taken \in [{Tab} -> 0..sent] /\ (joined = {Tab} <=> sse = "open")
    BY <2>2 DEF Init
  <2>7. QED
    BY <1>1, <2>1, <2>2, <2>3, <2>4, <2>5, <2>6 DEF Init, TypeOK
<1>3. MessagesOK
  <2>1. Waiting = 1..0 /\ 1..sent = 1..0
    BY DEF Init, Window!Init, Waiting
  <2>2. 1..0 = {}
    OBVIOUS
  <2>3. QED
    BY <2>1, <2>2, EmptySeq DEF Init, MessagesOK
<1>4. TablesOK
  BY DEF Init, TablesOK, Empty, NoHost, NoJob
<1>5. PageOK
  BY EmptySeq DEF Init, PageOK, Empty, NoHost
<1>6. QED
  BY <1>2, <1>3, <1>4, <1>5 DEF Base

(* A step of the page or of a GET handler, as far as Base is concerned.    *)
PageStep ==
  /\ UNCHANGED <<db, server, bus, sse, cursor, drops, since>>
  /\ request' \in Seq(Possible)
  /\ map' \in [Host -> [row : Nat, ports : Nat]]
  /\ \A h \in Host : map'[h].row # 0 => host[h].row # 0
  /\ detail' \in Pane
  /\ selected' \in 0..MaxHosts
  /\ selected' # 0 => host[selected'].row # 0
  /\ sse \in {"new", "dead"} => selected' = 0
  /\ shown' \subseteq DOMAIN event
  /\ faults' \in 0..MaxFaults
  /\ selects' \in 0..MaxSelects
  /\ <<lost, stale, blind>>' \in BOOLEAN \X BOOLEAN \X BOOLEAN

LEMMA PageStepBase ==
  ASSUME Base, PageStep
  PROVE  Base'
<1> USE DEF Base, PageStep, db, server, bus
<1>1. request' \in Seq(Request)
  BY FreshIsPossible, SeqMonotonic
<1>2. TypeOK'
  BY <1>1 DEF TypeOK
<1>3. MessagesOK'
  BY DEF MessagesOK, Published, Waiting
<1>4. TablesOK'
  BY DEF TablesOK, Stamp
<1>5. PageOK'
  <2>1. Possible' = Possible
    BY DEF Possible
  <2>2. QED
    BY <2>1 DEF PageOK
<1>6. QED
  BY <1>2, <1>3, <1>4, <1>5

(* What the page has keeps making sense while the tables grow.             *)
LEMMA PageStaysOK ==
  ASSUME Base, UNCHANGED <<page, sse, since>>,
         \A h \in Host : host[h].row # 0 => host'[h].row # 0,
         DOMAIN event \subseteq DOMAIN event'
  PROVE  PageOK'
<1>1. Possible \subseteq Possible'
  BY DEF Possible
<1>2. request \in Seq(Possible')
  BY <1>1, SeqMonotonic DEF Base, PageOK
<1>3. QED
  BY <1>2 DEF Base, PageOK, page, TypeOK, Host

(* What is published at the end of a scan, or about one.                   *)
LEMMA PublishesKeepsMessages ==
  ASSUME Base, NEW ts \in Nat, ts > clock, clock' = ts,
         NEW ms \in Seq([ts : clock + 1..ts, event : {0} \cup DOMAIN event]),
         \A k, l \in 1..Len(ms) : k <= l => ms[k].ts <= ms[l].ts,
         \A k \in 1..Len(ms) : ms[k].event # 0 => event[ms[k].event].ts = ms[k].ts,
         Publishes(ms), UNCHANGED <<event, sse, cursor>>
  PROVE  /\ MessagesOK'
         /\ msg' \in Seq(Message) /\ sent' = Len(msg')
         /\ taken' \in [{Tab} -> 0..sent']
         /\ Queued' = Queued \cup ({ms[k].event : k \in 1..Len(ms)} \ {0})
         /\ \A i \in Waiting' : (i \in Waiting /\ msg'[i] = msg[i]) \/ msg'[i].ts \in clock + 1..clock'
<1> DEFINE M == [ts : clock + 1..ts, event : {0} \cup DOMAIN event]
<1> USE DEF Base
<1>1. clock \in Nat /\ cursor \in 0..clock /\ taken[Tab] \in 0..sent /\ sent = Len(msg)
  BY DEF TypeOK
<1>2. Published \subseteq Published' /\ M \subseteq Published'
  BY <1>1 DEF Published
<1>3. msg \in Seq(Published') /\ ms \in Seq(Published')
  BY <1>2, SeqMonotonic DEF MessagesOK
<1>4. DOMAIN event \subseteq Nat
  <2>1. event \in Seq(Event)
    BY DEF TypeOK
  <2>2. DOMAIN event = 1..Len(event) /\ Len(event) \in Nat
    BY <2>1, LenProperties
  <2>3. QED
    BY <2>2
<1>5. Published' \subseteq Message
  BY <1>1, <1>4 DEF Published, Message
<1>6. Len(ms) \in Nat /\ sent \in Nat /\ \A k \in 1..Len(ms) : ms[k] \in M
  <2>1. ms \in Seq(M)
    OBVIOUS
  <2> HIDE DEF M
  <2>2. Len(ms) \in Nat /\ Len(msg) \in Nat
    BY <1>3, LenProperties
  <2>3. \A k \in 1..Len(ms) : ms[k] \in M
    BY <2>1, ElementOfSeq
  <2>4. QED
    BY <1>1, <2>2, <2>3
<1>7. /\ msg' \in Seq(Published') /\ Len(msg') = sent + Len(ms)
      /\ \A i \in 1..sent + Len(ms) : msg'[i] = IF i <= sent THEN msg[i] ELSE ms[i - sent]
  BY <1>1, <1>3, ConcatProperties DEF Publishes
<1>8. sent' = Len(msg') /\ sent' = sent + Len(ms) /\ taken' = taken
  BY <1>7 DEF Publishes
<1>9. msg' \in Seq(Message)
  BY <1>5, <1>7, SeqMonotonic
<1>10. taken' \in [{Tab} -> 0..sent']
  BY <1>1, <1>6, <1>8 DEF TypeOK
<1>11. \A i \in 1..sent : msg[i] \in Published
  BY <1>1, LenProperties DEF MessagesOK
<1>12. \A i \in 1..sent : i \in 1..sent' /\ msg'[i] = msg[i] /\ msg'[i].ts <= clock
  BY <1>1, <1>6, <1>7, <1>8, <1>11 DEF Published
<1>13. \A i \in 1..sent' : i > sent => /\ i - sent \in 1..Len(ms) /\ msg'[i] = ms[i - sent]
                                     /\ msg'[i].ts \in clock + 1..ts
  <2>1. SUFFICES ASSUME NEW i \in 1..sent', i > sent
                 PROVE  /\ i - sent \in 1..Len(ms) /\ msg'[i] = ms[i - sent]
                        /\ msg'[i].ts \in clock + 1..ts
    OBVIOUS
  <2>2. i - sent \in 1..Len(ms) /\ ~(i <= sent)
    BY <1>6, <1>8, <2>1
  <2>3. msg'[i] = ms[i - sent]
    BY <1>7, <1>8, <2>2
  <2>4. QED
    BY <1>6, <2>2, <2>3
<1>14. MessagesOK'
  <2>1. ASSUME NEW i \in 1..sent', NEW j \in 1..sent', i <= j
        PROVE  msg'[i].ts <= msg'[j].ts
    <3>1. CASE j <= sent
      <4>1. i \in 1..sent /\ j \in 1..sent
        BY <1>6, <1>8, <2>1, <3>1
      <4>2. QED
        BY <1>12, <2>1, <4>1 DEF MessagesOK
    <3>2. CASE ~(j <= sent) /\ i <= sent
      <4>1. i \in 1..sent /\ j > sent
        BY <1>6, <1>8, <2>1, <3>2
      <4>2. msg'[i].ts <= clock /\ msg'[j].ts \in clock + 1..ts /\ msg'[i].ts \in Nat
        <5>1. msg'[i].ts \in Nat
          BY <1>11, <1>12, <4>1 DEF Published
        <5>2. QED
          BY <1>12, <1>13, <4>1, <5>1
      <4>3. QED
        BY <1>1, <4>2
    <3>3. CASE ~(j <= sent) /\ ~(i <= sent)
      <4>1. i > sent /\ j > sent /\ i - sent <= j - sent
        BY <1>6, <1>8, <2>1, <3>3
      <4>2. /\ i - sent \in 1..Len(ms) /\ msg'[i] = ms[i - sent]
            /\ j - sent \in 1..Len(ms) /\ msg'[j] = ms[j - sent]
        BY <1>13, <4>1
      <4>3. QED
        BY <4>1, <4>2
    <3>4. QED
      BY <3>1, <3>2, <3>3
  <2>2. ASSUME NEW i \in 1..sent', msg'[i].event # 0
        PROVE  event'[msg'[i].event].ts = msg'[i].ts
    <3>1. CASE i <= sent
      BY <1>6, <1>8, <1>12, <2>2, <3>1 DEF MessagesOK
    <3>2. CASE ~(i <= sent)
      <4>1. i > sent
        BY <1>6, <1>8, <3>2
      <4>2. QED
        BY <1>13, <2>2, <4>1
    <3>3. QED
      BY <3>1, <3>2
  <2>3. ASSUME sse' = "open", NEW i \in Waiting'
        PROVE  cursor' <= msg'[i].ts
    <3>1. i \in 1..sent' /\ i > taken[Tab]
      BY <1>1, <1>6, <1>8, <2>3 DEF Waiting
    <3>2. CASE i <= sent
      <4>1. i \in Waiting /\ i \in 1..sent
        BY <1>1, <1>6, <1>8, <3>1, <3>2 DEF Waiting
      <4>2. QED
        BY <1>12, <2>3, <4>1 DEF MessagesOK
    <3>3. CASE ~(i <= sent)
      <4>1. i > sent
        BY <1>6, <1>8, <3>1, <3>3
      <4>2. QED
        BY <1>1, <1>13, <3>1, <4>1
    <3>4. QED
      BY <3>2, <3>3
  <2>4. QED
    BY <1>7, <2>1, <2>2, <2>3 DEF MessagesOK
<1>15. /\ Queued' = Queued \cup ({ms[k].event : k \in 1..Len(ms)} \ {0})
       /\ \A i \in Waiting' : (i \in Waiting /\ msg'[i] = msg[i]) \/ msg'[i].ts \in clock + 1..clock'
  <2>1. Waiting \subseteq 1..sent /\ Waiting \subseteq Waiting'
    BY <1>1, <1>6, <1>8 DEF Waiting
  <2>2. ASSUME NEW i \in Waiting'
        PROVE  \/ i \in Waiting /\ msg'[i] = msg[i]
               \/ /\ i - sent \in 1..Len(ms) /\ msg'[i] = ms[i - sent]
                  /\ msg'[i].ts \in clock + 1..clock'
    <3>1. i \in 1..sent'
      BY <1>1, <1>6, <1>8, <2>2 DEF Waiting
    <3>2. CASE i <= sent
      BY <1>1, <1>6, <1>8, <1>12, <2>2, <3>1, <3>2 DEF Waiting
    <3>3. CASE ~(i <= sent)
      <4>1. i > sent
        BY <1>6, <1>8, <3>1, <3>3
      <4>2. msg'[i].ts \in clock + 1..clock'
        BY <1>13, <3>1, <4>1
      <4>3. QED
        BY <1>13, <3>1, <4>1, <4>2
    <3>4. QED
      BY <3>2, <3>3
  <2>3. ASSUME NEW k \in 1..Len(ms)
        PROVE  sent + k \in Waiting' /\ msg'[sent + k] = ms[k]
    <3>1. sent + k \in 1..sent' /\ sent + k > sent /\ (sent + k) - sent = k
      BY <1>6, <1>8
    <3>2. sent + k \in Waiting'
      BY <1>1, <1>6, <1>8, <3>1 DEF Waiting
    <3>3. QED
      BY <1>13, <3>1, <3>2
  <2>4. \A i \in Waiting : i \in Waiting' /\ msg'[i] = msg[i]
    BY <1>12, <2>1
  <2>5. Queued' \subseteq Queued \cup ({ms[k].event : k \in 1..Len(ms)} \ {0})
    <3>1. SUFFICES ASSUME NEW i \in Waiting', msg'[i].event # 0
                   PROVE  msg'[i].event \in Queued \cup {ms[k].event : k \in 1..Len(ms)}
      BY DEF Queued
    <3>2. QED
      BY <2>2, <3>1 DEF Queued
  <2>6. Queued \subseteq Queued'
    BY <2>4 DEF Queued
  <2>7. {ms[k].event : k \in 1..Len(ms)} \ {0} \subseteq Queued'
    BY <2>3 DEF Queued
  <2>8. QED
    BY <2>2, <2>5, <2>6, <2>7
<1>16. QED
  BY <1>8, <1>9, <1>10, <1>14, <1>15

LEMMA WaitingIsPublished ==
  ASSUME Base
  PROVE  /\ sent \in Nat /\ taken[Tab] \in 0..sent
         /\ Waiting \subseteq 1..sent
         /\ \A i \in 1..sent : msg[i] \in Published
         /\ Queued \subseteq DOMAIN event
<1>1. msg \in Seq(Published) /\ sent = Len(msg) /\ taken[Tab] \in 0..sent
  BY DEF Base, TypeOK, MessagesOK
<1>2. sent \in Nat /\ \A i \in 1..sent : msg[i] \in Published
  BY <1>1, LenProperties
<1>3. Waiting \subseteq 1..sent
  BY <1>1, <1>2 DEF Waiting
<1>4. Queued \subseteq DOMAIN event
  BY <1>2, <1>3 DEF Queued, Published
<1>5. QED
  BY <1>1, <1>2, <1>3, <1>4

LEMMA AnnounceBase ==
  ASSUME Base, Announce
  PROVE  /\ Base' /\ UNCHANGED <<event, taken>>
         /\ Queued' = Queued /\ clock' = Stamp
         /\ \A i \in Waiting' : (i \in Waiting /\ msg'[i] = msg[i]) \/ msg'[i].ts \in clock + 1..clock'
<1> USE DEF Base, Announce, page, db, budget, history
<1> DEFINE ms == <<Notice(clock')>>
<1>1. clock \in Nat /\ clock' = clock + 1
  BY DEF TypeOK
<1>2. /\ ms \in Seq([ts : clock + 1..clock', event : {0} \cup DOMAIN event])
      /\ Len(ms) = 1 /\ ms[1] = Notice(clock')
  BY <1>1 DEF Notice
<1>3. /\ \A k \in 1..Len(ms) : ms[k].event = 0
      /\ \A k, l \in 1..Len(ms) : ms[k].ts <= ms[l].ts
  BY <1>1, <1>2 DEF Notice
<1> HIDE DEF ms
<1>4. clock' \in Nat /\ clock' > clock
  BY <1>1
<1>5. Publishes(ms)
  BY DEF ms
<1>6. /\ MessagesOK'
      /\ msg' \in Seq(Message) /\ sent' = Len(msg')
      /\ taken' \in [{Tab} -> 0..sent']
      /\ Queued' = Queued \cup ({ms[k].event : k \in 1..Len(ms)} \ {0})
      /\ \A i \in Waiting' : (i \in Waiting /\ msg'[i] = msg[i]) \/ msg'[i].ts \in clock + 1..clock'
  BY <1>2, <1>3, <1>4, <1>5, PublishesKeepsMessages
<1>7. Queued' = Queued /\ UNCHANGED <<event, taken>>
  BY <1>3, <1>5, <1>6 DEF Publishes
<1>8. notices' \in 0..MaxNotices
  BY LiveViewAssumption DEF TypeOK
<1>9. TypeOK'
  <2>1. UNCHANGED <<host, told, event, job, joined, sse, page, drops, faults, selects, history>>
    BY DEF Publishes
  <2> HIDE DEF Announce
  <2>2. cursor \in 0..clock' /\ since \in 0..clock'
    BY <1>1 DEF TypeOK
  <2>3. QED
    BY <1>4, <1>6, <1>8, <2>1, <2>2 DEF TypeOK
<1>10. TablesOK'
  <2>1. \A e \in DOMAIN event : event[e].ts <= Stamp /\ event[e].ts # Stamp /\ event[e].ts \in Nat
    <3>1. \A e \in DOMAIN event : event[e] \in Event
      BY LenProperties DEF TypeOK
    <3>2. QED
      BY <3>1 DEF TablesOK, Event
  <2>2. job.news = <<>>
    BY DEF TablesOK
  <2>3. Stamp' = Stamp + 1 /\ Stamp \in Nat
    BY <1>1 DEF Stamp
  <2>4. \A e \in DOMAIN event : event[e].ts <= Stamp' /\ event[e].ts # Stamp'
    BY <2>1, <2>3
  <2>5. DOMAIN job'.news = {}
    BY <2>2
  <2> HIDE DEF Announce
  <2>6. UNCHANGED <<host, told, event, job>>
    BY DEF Announce
  <2>7. QED
    BY <2>4, <2>5, <2>6 DEF TablesOK
<1>11. PageOK'
  BY PageStaysOK
<1>12. QED
  BY <1>1, <1>6, <1>7, <1>9, <1>10, <1>11 DEF Stamp

(* The ways in which correlate changes a host: it will be announced, or    *)
(* it will not.                                                            *)
Altered(h) ==
  /\ Writes
  /\ h \in Host
  /\ host' \in [Host -> [row : Nat, ports : Nat]]
  /\ host'[h].row # 0
  /\ host'[h].row >= host[h].row /\ host'[h].ports >= host[h].ports
  /\ \A g \in Host : g # h => host'[g] = host[g]

Wrote(h, kind) ==
  /\ Altered(h)
  /\ kind \in {"host.new", "ip.changed", "port"}
  /\ Announced(h, kind)

Rewrote(h) ==
  /\ Altered(h)
  /\ host[h].row # 0
  /\ Unannounced

LEMMA WriteRowWrote ==
  ASSUME Base, NEW h \in Host, WriteRow(h)
  PROVE  \/ \E kind : Wrote(h, kind) /\ (host[h].row # 0 => kind = "ip.changed")
         \/ Rewrote(h)
<1> DEFINE kind == IF host[h].row = 0 THEN "host.new" ELSE "ip.changed"
<1>1. host[h] \in [row : Nat, ports : Nat] /\ host \in [Host -> [row : Nat, ports : Nat]]
  BY DEF Base, TypeOK
<1> DEFINE new == [host[h] EXCEPT !.row = @ + 1]
<1>2. /\ new \in [row : Nat, ports : Nat] /\ new.row # 0
      /\ new.row >= host[h].row /\ new.ports >= host[h].ports
  BY <1>1
<1>3. host' = [host EXCEPT ![h] = new]
  BY DEF WriteRow
<1> HIDE DEF new
<1>4. Altered(h)
  BY <1>1, <1>2, <1>3 DEF WriteRow, Altered
<1>5. Announced(h, kind) \/ (host[h].row # 0 /\ Unannounced)
  BY DEF WriteRow
<1>6. CASE Announced(h, kind)
  BY <1>4, <1>6 DEF Wrote
<1>7. CASE host[h].row # 0 /\ Unannounced
  BY <1>4, <1>7 DEF Rewrote
<1>8. QED
  BY <1>5, <1>6, <1>7

LEMMA WritePortWrote ==
  ASSUME Base, NEW h \in Host, WritePort(h)
  PROVE  Wrote(h, "port") \/ Rewrote(h)
<1>1. host[h] \in [row : Nat, ports : Nat] /\ host \in [Host -> [row : Nat, ports : Nat]]
  BY DEF Base, TypeOK
<1> DEFINE new == [host[h] EXCEPT !.ports = @ + 1]
<1>2. /\ new \in [row : Nat, ports : Nat] /\ new.row # 0
      /\ new.row >= host[h].row /\ new.ports >= host[h].ports
  BY <1>1 DEF WritePort
<1>3. host' = [host EXCEPT ![h] = new]
  BY DEF WritePort
<1> HIDE DEF new
<1>4. Altered(h)
  BY <1>1, <1>2, <1>3 DEF WritePort, Altered
<1>5. host[h].row # 0 /\ (Announced(h, "port") \/ Unannounced)
  BY DEF WritePort
<1>6. QED
  BY <1>4, <1>5 DEF Wrote, Rewrote

LEMMA WroteNews ==
  ASSUME Base, NEW h, NEW kind, Wrote(h, kind)
  PROVE  /\ job'.news \in Seq(Event) /\ job'.pc = "write"
         /\ DOMAIN job.news \subseteq DOMAIN job'.news
         /\ \A i \in DOMAIN job.news : job'.news[i] = job.news[i]
         /\ Len(job'.news) \in DOMAIN job'.news
         /\ job'.news[Len(job'.news)] = [ts |-> Stamp, host |-> h, kind |-> kind]
         /\ \A i \in DOMAIN job'.news : i \in DOMAIN job.news \/ i = Len(job'.news)
<1> DEFINE new == [ts |-> Stamp, host |-> h, kind |-> kind]
           old == job.news
<1>1. new \in Event /\ old \in Seq(Event)
  BY DEF Wrote, Altered, Event, Base, TypeOK, Stamp
<1>2. job'.news = Append(old, new) /\ job'.pc = "write"
  BY DEF Wrote, Announced
<1> HIDE DEF new, old
<1>3. /\ Append(old, new) \in Seq(Event)
      /\ Len(Append(old, new)) = Len(old) + 1
      /\ \A i \in 1..Len(old) : Append(old, new)[i] = old[i]
      /\ Append(old, new)[Len(old) + 1] = new
  BY <1>1, AppendProperties
<1>4. DOMAIN old = 1..Len(old) /\ Len(old) \in Nat
      /\ DOMAIN Append(old, new) = 1..Len(Append(old, new))
  BY <1>1, <1>3, LenProperties
<1>5. QED
  BY <1>2, <1>3, <1>4 DEF new, old

(* The tables after it, if each host is as it was or will be announced.    *)
LEMMA AlteredBase ==
  ASSUME Base, NEW h, Altered(h),
         job' \in [pc : {"write"}, news : Seq(Event)],
         \A i \in DOMAIN job'.news :
           job'.news[i].ts = Stamp /\ job'.news[i].host \in Host
             /\ host'[job'.news[i].host].row # 0,
         told' \in [Host -> [row : Nat, ports : Nat]],
         \A g \in Host : \/ told'[g] = host'[g]
                         \/ told'[g] = told[g] /\ (host'[g].row # 0 => host[g].row # 0)
  PROVE  Base' /\ UNCHANGED <<event, msg, taken, clock>> /\ Queued' = Queued
<1> USE DEF Base
<1>1. UNCHANGED <<event, notices, clock, bus, sse, page, budget, history>>
  BY DEF Altered, Writes
<1>2. \A g \in Host : host[g].row # 0 => host'[g].row # 0
  BY DEF Altered
<1>3. TypeOK'
  <2>1. job' \in [pc : {"idle", "write", "insert"}, news : Seq(Event)]
    OBVIOUS
  <2>2. host' \in [Host -> [row : Nat, ports : Nat]]
    BY DEF Altered
  <2>3. QED
    BY <1>1, <2>1, <2>2 DEF TypeOK, bus, page, budget, history
<1>4. MessagesOK'
  BY <1>1 DEF MessagesOK, bus, page, Published, Waiting
<1>5. TablesOK'
  <2>1. \A g \in Host : host'[g].row = 0 => host'[g] = NoHost
    BY DEF Altered, TablesOK
  <2>2. job'.pc = "write" /\ Stamp' = Stamp
    BY <1>1 DEF Stamp
  <2>3. ASSUME NEW g \in Host
        PROVE  /\ host'[g].row # 0 => told'[g].row # 0
               /\ told'[g].row <= host'[g].row /\ told'[g].ports <= host'[g].ports
    <3>1. /\ host[g] \in [row : Nat, ports : Nat] /\ host'[g] \in [row : Nat, ports : Nat]
          /\ told[g] \in [row : Nat, ports : Nat]
      BY DEF TypeOK, Altered
    <3>0. host[g].row <= host'[g].row /\ host[g].ports <= host'[g].ports
      <4>1. CASE g = h
        BY <3>1, <4>1 DEF Altered
      <4>2. CASE g # h
        <5>1. host'[g] = host[g]
          BY <4>2 DEF Altered
        <5>2. QED
          BY <3>1, <5>1
      <4>3. QED
        BY <4>1, <4>2
    <3>2. CASE told'[g] = host'[g]
      BY <3>1, <3>2
    <3>3. CASE told'[g] = told[g] /\ (host'[g].row # 0 => host[g].row # 0)
      BY <3>0, <3>1, <3>3 DEF TablesOK
    <3>4. QED
      BY <3>2, <3>3
  <2>4. ASSUME NEW e \in DOMAIN event
        PROVE  host'[event[e].host].row # 0 /\ event[e].ts <= Stamp
    <3>1. event[e] \in Event
      BY LenProperties DEF TypeOK
    <3>2. QED
      BY <1>2, <3>1 DEF TablesOK, Event
  <2>5. QED
    BY <1>1, <2>1, <2>2, <2>3, <2>4 DEF TablesOK
<1>6. PageOK'
  BY <1>1, <1>2, PageStaysOK DEF history
<1>7. QED
  BY <1>1, <1>3, <1>4, <1>5, <1>6 DEF bus, Queued, Waiting

LEMMA WroteBase ==
  ASSUME Base, NEW h, NEW kind, Wrote(h, kind)
  PROVE  Base' /\ UNCHANGED <<event, msg, taken, clock>> /\ Queued' = Queued
<1> USE DEF Base
<1>1. \A g \in Host : host[g].row # 0 => host'[g].row # 0
  BY DEF Wrote, Altered
<1>2. job' \in [pc : {"write"}, news : Seq(Event)]
  <2>1. job' = [pc |-> "write", news |-> job'.news]
    BY DEF Wrote, Announced
  <2>2. QED
    BY <2>1, WroteNews
<1>3. ASSUME NEW i \in DOMAIN job'.news
      PROVE  /\ job'.news[i].ts = Stamp /\ job'.news[i].host \in Host
             /\ host'[job'.news[i].host].row # 0
  <2>1. CASE i \in DOMAIN job.news
    <3>1. job'.news[i] = job.news[i]
      BY <2>1, WroteNews
    <3>2. job.news[i] \in Event
      <4>1. job.news \in Seq(Event)
        BY DEF TypeOK
      <4>2. QED
        BY <2>1, <4>1, LenProperties
    <3>3. QED
      BY <1>1, <2>1, <3>1, <3>2 DEF TablesOK, Event
  <2>2. CASE i = Len(job'.news)
    <3>1. job'.news[i] = [ts |-> Stamp, host |-> h, kind |-> kind]
      BY <2>2, WroteNews
    <3>2. QED
      BY <3>1 DEF Wrote, Altered
  <2>3. QED
    BY <1>3, <2>1, <2>2, WroteNews
<1>4. /\ h \in Host /\ told' = [told EXCEPT ![h] = host'[h]]
      /\ told \in [Host -> [row : Nat, ports : Nat]]
      /\ host' \in [Host -> [row : Nat, ports : Nat]]
      /\ \A g \in Host : g # h => host'[g] = host[g]
  BY DEF Wrote, Altered, Announced, TypeOK
<1>5. /\ told' \in [Host -> [row : Nat, ports : Nat]]
      /\ \A g \in Host : \/ told'[g] = host'[g]
                         \/ told'[g] = told[g] /\ (host'[g].row # 0 => host[g].row # 0)
  BY <1>4
<1>6. Altered(h)
  BY DEF Wrote
<1>7. QED
  BY <1>2, <1>3, <1>5, <1>6, AlteredBase

LEMMA RewroteBase ==
  ASSUME Base, NEW h, Rewrote(h)
  PROVE  /\ Base' /\ UNCHANGED <<told, event, msg, taken, clock>> /\ Queued' = Queued
         /\ job'.news = job.news /\ job'.pc = "write"
<1> USE DEF Base
<1>1. /\ job \in [pc : {"idle", "write", "insert"}, news : Seq(Event)]
      /\ job' = [job EXCEPT !.pc = "write"] /\ told' = told
  BY DEF Rewrote, Unannounced, TypeOK
<1>2. job'.news = job.news /\ job'.pc = "write" /\ job' \in [pc : {"write"}, news : Seq(Event)]
  BY <1>1
<1>3. \A g \in Host : host[g].row # 0 <=> host'[g].row # 0
  BY DEF Rewrote, Altered
<1>4. ASSUME NEW i \in DOMAIN job'.news
      PROVE  /\ job'.news[i].ts = Stamp /\ job'.news[i].host \in Host
             /\ host'[job'.news[i].host].row # 0
  <2>1. job.news \in Seq(Event) /\ i \in DOMAIN job.news
    BY <1>2 DEF TypeOK
  <2>2. job.news[i] \in Event
    BY <2>1, LenProperties
  <2>3. QED
    BY <1>2, <1>3, <2>1, <2>2 DEF TablesOK, Event
<1>5. told' \in [Host -> [row : Nat, ports : Nat]]
  BY <1>1 DEF TypeOK
<1>6. Altered(h)
  BY DEF Rewrote
<1>7. QED
  BY <1>1, <1>2, <1>3, <1>4, <1>5, <1>6, AlteredBase

LEMMA InsertEventBase ==
  ASSUME Base, InsertEvent
  PROVE  /\ Base' /\ UNCHANGED <<host, told, clock, bus, sse, page, history>>
         /\ Len(event') = Len(event) + 1 /\ DOMAIN event = 1..Len(event)
         /\ DOMAIN event' = DOMAIN event \cup {Len(event')}
         /\ \A e \in DOMAIN event : event'[e] = event[e]
         /\ event'[Len(event')] = Head(job.news)
         /\ event'[Len(event')].ts = Stamp
         /\ job.news[1] = Head(job.news)
         /\ \A i \in DOMAIN job.news :
              i = 1 \/ (i - 1 \in DOMAIN job'.news /\ job'.news[i - 1] = job.news[i])
         /\ Queued' = Queued
<1> USE DEF Base
<1>1. UNCHANGED <<host, told, notices, clock, bus, sse, page, budget, history>>
  BY DEF InsertEvent
<1>2. job.news \in Seq(Event) /\ event \in Seq(Event) /\ job.news # <<>>
  BY DEF TypeOK, InsertEvent
<1>3. /\ Head(job.news) \in Event /\ Tail(job.news) \in Seq(Event)
      /\ Len(Tail(job.news)) = Len(job.news) - 1
      /\ \A i \in 1..Len(Tail(job.news)) : Tail(job.news)[i] = job.news[i + 1]
      /\ Head(job.news) = job.news[1]
      /\ Len(job.news) \in Nat \ {0} /\ DOMAIN job.news = 1..Len(job.news)
      /\ DOMAIN Tail(job.news) = 1..Len(Tail(job.news))
  BY <1>2, HeadTailProperties, LenProperties, EmptySeq
<1> DEFINE new == Head(job.news)
<1>4. /\ event' \in Seq(Event) /\ Len(event') = Len(event) + 1
      /\ \A e \in 1..Len(event) : event'[e] = event[e]
      /\ event'[Len(event) + 1] = new
      /\ DOMAIN event = 1..Len(event) /\ Len(event) \in Nat
      /\ DOMAIN event' = 1..Len(event')
  <2>1. event' = Append(event, new)
    BY DEF InsertEvent
  <2> HIDE DEF new
  <2>2. new \in Event
    BY <1>3 DEF new
  <2>3. QED
    BY <1>2, <2>1, <2>2, AppendProperties, LenProperties
<1>5. DOMAIN event' = DOMAIN event \cup {Len(event')}
  BY <1>4
<1>6. job'.news = Tail(job.news) /\ job'.pc = "insert"
      /\ job' = [pc |-> "insert", news |-> Tail(job.news)]
  BY DEF InsertEvent
<1>7. 1 \in DOMAIN job.news
  BY <1>3
<1>8. new.ts = Stamp /\ host[new.host].row # 0
  BY <1>3, <1>7 DEF TablesOK
<1> HIDE DEF new
<1>9. \A i \in DOMAIN job.news :
              i = 1 \/ (i - 1 \in DOMAIN job'.news /\ job'.news[i - 1] = job.news[i])
  <2>1. SUFFICES ASSUME NEW i \in 1..Len(job.news), i # 1
                 PROVE  i - 1 \in DOMAIN Tail(job.news) /\ Tail(job.news)[i - 1] = job.news[i]
    BY <1>3, <1>6
  <2>2. i - 1 \in 1..Len(Tail(job.news)) /\ (i - 1) + 1 = i
    BY <1>3, <2>1
  <2>3. QED
    BY <1>3, <2>2
<1>10. TypeOK'
  <2>1. job' \in [pc : {"idle", "write", "insert"}, news : Seq(Event)]
    BY <1>3, <1>6
  <2>2. shown' \subseteq DOMAIN event'
    BY <1>1, <1>5 DEF TypeOK, page
  <2>3. QED
    BY <1>1, <1>4, <2>1, <2>2 DEF TypeOK, bus, page, budget, history
<1>12. MessagesOK'
  <2>1. Published \subseteq Published' /\ Waiting' = Waiting
    BY <1>1, <1>5 DEF Published, bus, Waiting
  <2>2. msg' \in Seq(Published')
    BY <1>1, <2>1, SeqMonotonic DEF bus, MessagesOK
  <2>3. \A i \in 1..sent : msg[i].event # 0 => event'[msg[i].event].ts = msg[i].ts
    BY <1>4, WaitingIsPublished DEF MessagesOK, Published
  <2>4. UNCHANGED <<msg, sent, sse, cursor>>
    BY <1>1 DEF bus, page
  <2>5. QED
    BY <2>1, <2>2, <2>3, <2>4 DEF MessagesOK
<1>13. TablesOK'
  <2>1. Stamp' = Stamp /\ job'.pc # "idle"
    BY <1>1, <1>6 DEF Stamp
  <2>2. \A i \in DOMAIN job'.news : i + 1 \in DOMAIN job.news /\ job'.news[i] = job.news[i + 1]
    BY <1>3, <1>6
  <2>3. ASSUME NEW e \in DOMAIN event'
        PROVE  host[event'[e].host].row # 0 /\ event'[e].ts <= Stamp
    <3>1. CASE e \in DOMAIN event
      BY <1>4, <3>1 DEF TablesOK
    <3>2. CASE e = Len(event')
      <4>1. event'[e] = new
        BY <1>4, <3>2
      <4>2. QED
        BY <1>8, <4>1 DEF Stamp, TypeOK
    <3>3. QED
      BY <1>5, <2>3, <3>1, <3>2
  <2>4. QED
    BY <1>1, <2>1, <2>2, <2>3 DEF TablesOK
<1>14. PageOK'
  BY <1>1, <1>5, PageStaysOK DEF history
<1>15. QED
  BY <1>1, <1>3, <1>4, <1>5, <1>8, <1>9, <1>10, <1>12, <1>13, <1>14
     DEF new, bus, Queued, Waiting

(* The end of a scan queues all its events for the tab, even if a          *)
(* statement after correlate raises.                                       *)
Own == {e \in DOMAIN event : event[e].ts = Stamp}

Ends ==
  /\ job.news = <<>>
  /\ job' = NoJob
  /\ clock' \in {Stamp, Stamp + 1}
  /\ \E first \in MyEvents, last \in {<<>>, <<Notice(clock')>>} : Publishes(first \o last)
  /\ UNCHANGED <<db, notices, sse, page, drops, selects, history>>
  /\ faults' \in 0..MaxFaults

LEMMA EndJobEnds ==
  ASSUME Base, EndJob
  PROVE  Ends
<1>1. /\ job.news = <<>> /\ job' = NoJob /\ clock' = Stamp
      /\ \E first \in MyEvents : Publishes(first \o <<Notice(Stamp)>>)
      /\ UNCHANGED <<db, notices, sse, page, budget, history>>
  BY DEF EndJob
<1>2. UNCHANGED <<drops, selects>> /\ faults' \in 0..MaxFaults
  BY <1>1 DEF Base, TypeOK, budget
<1>3. QED
  BY <1>1, <1>2 DEF Ends

LEMMA CloseRaisesEnds ==
  ASSUME Base, CloseRaises
  PROVE  Ends
<1>1. /\ job.news = <<>> /\ job' = NoJob /\ clock' = Stamp + 1
      /\ \E first \in MyEvents, last \in {<<>>, <<Notice(clock')>>} : Publishes(first \o last)
      /\ UNCHANGED <<db, notices, sse, page, drops, selects, history>>
  BY DEF CloseRaises, Fails, Excuse, history
<1>2. faults' = faults + 1 /\ faults < MaxFaults
  BY DEF CloseRaises, Fails
<1>3. faults \in 0..MaxFaults /\ MaxFaults \in Nat
  BY LiveViewAssumption DEF Base, TypeOK
<1>4. faults' \in 0..MaxFaults
  BY <1>2, <1>3
<1>5. QED
  BY <1>1, <1>4 DEF Ends

LEMMA EndsPublishes ==
  ASSUME Base, Ends
  PROVE  /\ MessagesOK'
         /\ msg' \in Seq(Message) /\ sent' = Len(msg')
         /\ taken' \in [{Tab} -> 0..sent']
         /\ Queued' = Queued \cup Own
         /\ UNCHANGED <<joined, taken>>
         /\ \A i \in Waiting' : (i \in Waiting /\ msg'[i] = msg[i]) \/ msg'[i].ts \in clock + 1..clock'
<1> DEFINE M == [ts : clock + 1..clock', event : {0} \cup DOMAIN event]
<1>1. /\ clock \in Nat /\ Stamp = clock + 1 /\ Stamp \in Nat
      /\ clock' \in Nat /\ clock' >= Stamp /\ clock' > clock
  BY DEF Base, TypeOK, Stamp, Ends
<1>2. DOMAIN event = 1..Len(event) /\ Len(event) \in Nat /\ Own \subseteq DOMAIN event
  BY LenProperties DEF Base, TypeOK, Own
<1>3. PICK mine \in InOrder(Own), last \in {<<>>, <<Notice(clock')>>} :
        Publishes([k \in DOMAIN mine |-> [ts |-> Stamp, event |-> mine[k]]] \o last)
  BY DEF Ends, MyEvents, Own
<1>4. mine \in Seq(Own) /\ DOMAIN mine = 1..Len(mine) /\ Range(mine) = Own /\ Len(mine) \in Nat
  BY <1>2, <1>3, InOrderListsAll, LenProperties
<1> DEFINE first == [k \in DOMAIN mine |-> [ts |-> Stamp, event |-> mine[k]]]
           ms    == first \o last
<1>5. \A k \in DOMAIN mine : mine[k] \in Own
  BY <1>4 DEF Range
<1>6. first \in Seq(M) /\ Len(first) = Len(mine)
  <2>1. first \in [1..Len(mine) -> M]
    BY <1>1, <1>2, <1>4, <1>5
  <2>2. first \in Seq(M)
    BY <1>4, <2>1, SeqDef
  <2>3. DOMAIN first = 1..Len(mine)
    BY <1>4
  <2> HIDE DEF first, M
  <2>4. DOMAIN first = 1..Len(first) /\ Len(first) \in Nat
    BY <2>2, LenProperties
  <2>5. QED
    BY <1>4, <2>2, <2>3, <2>4
<1>7. /\ last \in Seq(M) /\ Len(last) \in Nat
      /\ \A k \in 1..Len(last) : last[k] = Notice(clock')
  <2>1. CASE last = <<>>
    BY <2>1
  <2>2. CASE last = <<Notice(clock')>>
    <3>1. Notice(clock') \in M
      BY <1>1 DEF Notice
    <3>2. last \in Seq(M) /\ Len(last) = 1 /\ last[1] = Notice(clock')
      BY <2>2, <3>1
    <3>3. QED
      BY <3>2
  <2>3. QED
    BY <1>3, <2>1, <2>2
<1>8. \A k \in 1..Len(mine) : first[k].event = mine[k] /\ first[k].ts = Stamp
  BY <1>4
<1> HIDE DEF first, M
<1>9. /\ ms \in Seq(M) /\ Len(ms) = Len(mine) + Len(last)
      /\ \A k \in 1..Len(mine) + Len(last) :
           ms[k] = IF k <= Len(mine) THEN first[k] ELSE last[k - Len(mine)]
  <2>1. /\ ms \in Seq(M) /\ Len(ms) = Len(first) + Len(last)
        /\ \A k \in 1..Len(first) + Len(last) :
             ms[k] = IF k <= Len(first) THEN first[k] ELSE last[k - Len(first)]
    BY <1>6, <1>7, ConcatProperties
  <2> HIDE DEF ms
  <2>2. QED
    BY <1>6, <1>7, <2>1
<1> HIDE DEF ms
<1>10. \A k \in 1..Len(mine) : k \in 1..Len(ms) /\ ms[k].event = mine[k] /\ ms[k].ts = Stamp
  <2>1. \A k \in 1..Len(mine) : k \in 1..Len(mine) + Len(last) /\ k <= Len(mine)
    BY <1>4, <1>7
  <2>2. \A k \in 1..Len(mine) : ms[k] = first[k]
    BY <1>9, <2>1
  <2>3. QED
    BY <1>8, <1>9, <2>1, <2>2
<1>11. ASSUME NEW k \in 1..Len(ms), ~(k <= Len(mine))
       PROVE  ms[k].event = 0 /\ ms[k].ts = clock'
  <2>1. k - Len(mine) \in 1..Len(last) /\ k \in 1..Len(mine) + Len(last)
    BY <1>4, <1>7, <1>9, <1>11
  <2>2. ms[k] = last[k - Len(mine)]
    BY <1>9, <1>11, <2>1
  <2>3. QED
    BY <1>7, <2>1, <2>2 DEF Notice
<1>12. \A k \in 1..Len(ms) : k <= Len(mine) => k \in 1..Len(mine)
  BY <1>4, <1>9
<1>13. {ms[k].event : k \in 1..Len(ms)} \ {0} = Own
  <2>1. ASSUME NEW k \in 1..Len(ms), ms[k].event # 0
        PROVE  ms[k].event \in Own
    BY <1>4, <1>5, <1>10, <1>11, <1>12, <2>1
  <2>2. ASSUME NEW e \in Own
        PROVE  e # 0 /\ \E k \in 1..Len(ms) : ms[k].event = e
    <3>1. PICK k \in 1..Len(mine) : mine[k] = e
      BY <1>4 DEF Range
    <3>2. e # 0
      BY <1>2, <2>2
    <3>3. QED
      BY <1>10, <3>1, <3>2
  <2>3. QED
    BY <2>1, <2>2
<1>14. \A k \in 1..Len(ms) : ms[k].event # 0 => event[ms[k].event].ts = ms[k].ts
  <2>1. SUFFICES ASSUME NEW k \in 1..Len(ms), ms[k].event # 0
                 PROVE  event[ms[k].event].ts = ms[k].ts
    OBVIOUS
  <2>2. ms[k].event \in Own
    BY <1>13, <2>1
  <2>3. ms[k].ts = Stamp
    BY <1>10, <1>11, <1>12, <2>1
  <2>4. QED
    BY <2>2, <2>3 DEF Own
<1>15. \A k, l \in 1..Len(ms) : k <= l => ms[k].ts <= ms[l].ts
  <2>1. SUFFICES ASSUME NEW k \in 1..Len(ms), NEW l \in 1..Len(ms), k <= l
                 PROVE  ms[k].ts <= ms[l].ts
    OBVIOUS
  <2>2. CASE l <= Len(mine)
    <3>1. k \in 1..Len(mine) /\ l \in 1..Len(mine)
      BY <1>4, <1>12, <2>1, <2>2
    <3>2. QED
      BY <1>1, <1>10, <3>1
  <2>3. CASE ~(l <= Len(mine))
    BY <1>1, <1>10, <1>11, <1>12, <2>3
  <2>4. QED
    BY <2>2, <2>3
<1>16. Publishes(ms) /\ UNCHANGED <<event, sse, cursor>>
  BY <1>3 DEF ms, first, Ends, db, page
<1>17. ms \in Seq([ts : clock + 1..clock', event : {0} \cup DOMAIN event])
  BY <1>9 DEF M
<1>18. /\ MessagesOK'
       /\ msg' \in Seq(Message) /\ sent' = Len(msg')
       /\ taken' \in [{Tab} -> 0..sent']
       /\ Queued' = Queued \cup ({ms[k].event : k \in 1..Len(ms)} \ {0})
       /\ \A i \in Waiting' : (i \in Waiting /\ msg'[i] = msg[i]) \/ msg'[i].ts \in clock + 1..clock'
  BY <1>1, <1>14, <1>15, <1>16, <1>17, PublishesKeepsMessages
<1>19. QED
  BY <1>13, <1>16, <1>18 DEF Publishes

LEMMA EndsBase ==
  ASSUME Base, Ends
  PROVE  /\ Base' /\ Queued' = Queued \cup Own
         /\ UNCHANGED <<host, told, event, taken, sse, page, history>>
         /\ job.news = <<>> /\ job' = NoJob /\ clock' > clock
         /\ \A i \in Waiting' : (i \in Waiting /\ msg'[i] = msg[i]) \/ msg'[i].ts \in clock + 1..clock'
<1> USE DEF Base
<1>1. /\ UNCHANGED <<host, told, event, notices, sse, page, drops, selects, history>>
      /\ faults' \in 0..MaxFaults
  BY DEF Ends, db
<1>2. job.news = <<>> /\ job' = NoJob /\ clock' \in {Stamp, Stamp + 1}
  BY DEF Ends
<1>3. /\ clock \in Nat /\ Stamp = clock + 1 /\ Stamp \in Nat
      /\ clock' \in Nat /\ clock' > clock /\ Stamp' \in Nat /\ Stamp' > Stamp
  <2>1. clock \in Nat /\ Stamp = clock + 1 /\ Stamp' = clock' + 1
    BY DEF TypeOK, Stamp
  <2>2. clock' = clock + 1 \/ clock' = clock + 2
    BY <1>2, <2>1
  <2> HIDE DEF Base
  <2>3. QED
    BY <2>1, <2>2
<1>4. TypeOK'
  <2>1. cursor \in 0..clock' /\ since \in 0..clock' /\ clock' \in Nat
    BY <1>2, <1>3 DEF TypeOK
  <2>2. job' \in [pc : {"idle", "write", "insert"}, news : Seq(Event)]
    BY <1>2, EmptySeq DEF NoJob
  <2>3. QED
    BY <1>1, <2>1, <2>2, EndsPublishes DEF TypeOK, page, history
<1>5. TablesOK'
  <2>1. \A e \in DOMAIN event : event[e].ts <= Stamp' /\ event[e].ts # Stamp'
    <3>1. \A e \in DOMAIN event : event[e] \in Event
      BY LenProperties DEF TypeOK
    <3>2. \A e \in DOMAIN event : event[e].ts \in Nat /\ event[e].ts <= Stamp
      BY <3>1 DEF TablesOK, Event
    <3>3. QED
      BY <1>3, <3>2
  <2>2. DOMAIN job'.news = {}
    BY <1>2 DEF NoJob
  <2>3. job'.news = <<>>
    BY <1>2 DEF NoJob
  <2>4. QED
    BY <1>1, <2>1, <2>2, <2>3 DEF TablesOK
<1>6. PageOK'
  BY <1>1, PageStaysOK DEF history
<1>7. QED
  BY <1>1, <1>2, <1>3, <1>4, <1>5, <1>6, EndsPublishes

LEMMA JobRaisesBase ==
  ASSUME Base, JobRaises
  PROVE  Base'
<1> USE DEF Base
<1>1. clock \in Nat /\ Stamp = clock + 1 /\ clock' = clock + 2
  BY DEF JobRaises, Fails, TypeOK, Stamp
<1> DEFINE M == [ts : clock + 1..clock', event : {0} \cup DOMAIN event]
<1>0. PICK ms \in {<<>>, <<Notice(clock')>>} : Publishes(ms)
  BY DEF JobRaises, Fails, Excuse
<1>2. ms \in Seq(M) /\ \A k \in 1..Len(ms) : ms[k] = Notice(clock')
  <2>1. CASE ms = <<>>
    BY <2>1
  <2>2. CASE ms = <<Notice(clock')>>
    <3>1. Notice(clock') \in M
      BY <1>1 DEF Notice
    <3>2. ms \in Seq(M) /\ Len(ms) = 1 /\ ms[1] = Notice(clock')
      BY <2>2, <3>1
    <3>3. QED
      BY <3>2
  <2>3. QED
    BY <1>0, <2>1, <2>2
<1>3. /\ \A k \in 1..Len(ms) : ms[k].event = 0
      /\ \A k, l \in 1..Len(ms) : ms[k].ts <= ms[l].ts
  BY <1>1, <1>2 DEF Notice
<1>4. clock' \in Nat /\ clock' > clock
  BY <1>1
<1>5. Publishes(ms) /\ UNCHANGED <<host, told, event, notices, sse, page, drops, selects, since>>
      /\ job' = NoJob /\ lost' = TRUE /\ stale' = TRUE /\ blind' = TRUE
      /\ faults < MaxFaults /\ faults' = faults + 1
  BY <1>0 DEF JobRaises, Fails, db
<1>6. /\ MessagesOK'
      /\ msg' \in Seq(Message) /\ sent' = Len(msg')
      /\ taken' \in [{Tab} -> 0..sent']
  BY <1>2, <1>3, <1>4, <1>5, PublishesKeepsMessages DEF page
<1>7. TypeOK'
  <2>1. cursor \in 0..clock' /\ since \in 0..clock'
    BY <1>1 DEF TypeOK
  <2>2. job' \in [pc : {"idle", "write", "insert"}, news : Seq(Event)]
    BY <1>5, EmptySeq DEF NoJob
  <2>3. faults' \in 0..MaxFaults
    <3>1. faults \in 0..MaxFaults /\ MaxFaults \in Nat
      BY LiveViewAssumption DEF TypeOK
    <3>2. QED
      BY <1>5, <3>1
  <2>4. joined' = joined
    BY <1>5 DEF Publishes
  <2>5. QED
    BY <1>4, <1>5, <1>6, <2>1, <2>2, <2>3, <2>4 DEF TypeOK, page
<1>8. TablesOK'
  <2>1. Stamp' = Stamp + 2 /\ Stamp \in Nat
    BY <1>1 DEF Stamp
  <2>2. \A e \in DOMAIN event : event[e].ts <= Stamp' /\ event[e].ts # Stamp'
    <3>1. \A e \in DOMAIN event : event[e] \in Event
      BY LenProperties DEF TypeOK
    <3>2. \A e \in DOMAIN event : event[e].ts \in Nat /\ event[e].ts <= Stamp
      BY <3>1 DEF TablesOK, Event
    <3>3. QED
      BY <2>1, <3>2
  <2>3. DOMAIN job'.news = {} /\ job'.news = <<>>
    BY <1>5 DEF NoJob
  <2>4. QED
    BY <1>5, <2>2, <2>3 DEF TablesOK
<1>9. PageOK'
  BY <1>5, PageStaysOK
<1>10. QED
  BY <1>6, <1>7, <1>8, <1>9

(* The oldest request and the others.                                      *)
LEMMA OldestRequest ==
  ASSUME Base, request # <<>>
  PROVE  /\ Now \in Possible /\ Now \in Request /\ Rest \in Seq(Possible)
         /\ Range(request) = {Now} \cup Range(Rest)
         /\ Range(request) \subseteq Possible
<1>1. request \in Seq(Possible)
  BY DEF Base, PageOK
<1>2. Now \in Possible /\ Rest \in Seq(Possible)
  BY <1>1, HeadTailProperties DEF Now, Rest
<1>3. Range(request) = {Now} \cup Range(Rest)
  BY <1>1, RangeOfTail DEF Now, Rest
<1>4. QED
  BY <1>1, <1>2, <1>3, FreshIsPossible, RangeOfSeq

(* A request that a GET handler is reading the tables for.                 *)
Read(r) ==
  /\ request # <<>>
  /\ r \in Possible
  /\ r.kind = Now.kind /\ r.host = Now.host /\ r.from = Now.from
  /\ Reads(r)
  /\ lost' \in BOOLEAN /\ blind' \in BOOLEAN

LEMMA ReadHostsRead ==
  ASSUME Base, request # <<>>, ReadHosts
  PROVE  \E r : /\ Read(r) /\ UNCHANGED <<lost, blind>>
                /\ Now.kind \in Listing /\ Now.stage = "sent"
                /\ r.view = host /\ r.stage = "read"
<1> DEFINE r == [Now EXCEPT !.stage = "read", !.view = Summaries]
<1>1. Now \in Possible /\ Now \in Request /\ host \in [Host -> [row : Nat, ports : Nat]]
  BY OldestRequest DEF Base, TypeOK
<1>2. /\ r \in Request /\ r.stage = "read" /\ r.view = host /\ r.events = Now.events
      /\ r.kind = Now.kind /\ r.host = Now.host /\ r.from = Now.from
  BY <1>1 DEF Request, Stage, Summaries
<1>3. Now.kind \in Listing /\ Now.stage = "sent" /\ Reads(r) /\ UNCHANGED <<lost, blind>>
  BY DEF ReadHosts
<1> HIDE DEF r
<1>4. r \in Possible
  BY <1>1, <1>2, <1>3 DEF Possible
<1>5. lost' \in BOOLEAN /\ blind' \in BOOLEAN
  BY <1>3 DEF Base, TypeOK
<1>6. QED
  BY <1>2, <1>3, <1>4, <1>5 DEF Read

LEMMA ReadRowRead ==
  ASSUME Base, request # <<>>, ReadRow
  PROVE  \E r : /\ Read(r) /\ UNCHANGED <<lost, blind>>
                /\ Now.kind \in Detail /\ Now.host \in Host /\ Now.stage = "sent"
                /\ r.view[Now.host].row = host[Now.host].row /\ r.stage = "row"
<1> DEFINE h == Now.host
           v == [Now.view EXCEPT ![h].row = RowOf(h)]
           r == [Now EXCEPT !.stage = "row", !.view = v]
<1>1. Now \in Possible /\ Now \in Request /\ host \in [Host -> [row : Nat, ports : Nat]]
  BY OldestRequest DEF Base, TypeOK
<1>2. Now.kind \in Detail /\ Now.stage = "sent" /\ UNCHANGED <<lost, blind>>
      /\ Reads([Now EXCEPT !.stage = "row", !.view[Now.host].row = RowOf(Now.host)])
  BY DEF ReadRow, ReadDetail
<1>3. h \in Host
  BY <1>1, <1>2 DEF Possible
<1>4. [Now EXCEPT !.stage = "row", !.view[Now.host].row = RowOf(Now.host)] = r
  OBVIOUS
<1>5. Reads(r)
  BY <1>2, <1>4
<1>6. /\ v \in [Host -> [row : Nat, ports : Nat]] /\ v[h].row = host[h].row
      /\ \A g \in Host : g # h => v[g] = Now.view[g]
  <2>1. Now.view \in [Host -> [row : Nat, ports : Nat]]
    BY <1>1 DEF Request
  <2>2. [Now.view[h] EXCEPT !.row = RowOf(h)] \in [row : Nat, ports : Nat]
        /\ [Now.view[h] EXCEPT !.row = RowOf(h)].row = host[h].row
    BY <1>1, <1>3, <2>1 DEF RowOf
  <2> DEFINE c == [Now.view[h] EXCEPT !.row = RowOf(h)]
  <2>3. v = [Now.view EXCEPT ![h] = c]
    OBVIOUS
  <2> HIDE DEF c
  <2>4. c \in [row : Nat, ports : Nat] /\ c.row = host[h].row
    BY <2>2 DEF c
  <2> HIDE DEF v, h
  <2>5. QED
    BY <1>3, <2>1, <2>3, <2>4
<1> HIDE DEF v
<1>7. /\ r \in Request /\ r.stage = "row" /\ r.view = v /\ r.events = Now.events
      /\ r.kind = Now.kind /\ r.host = Now.host /\ r.from = Now.from
  BY <1>1, <1>6 DEF Request, Stage
<1> HIDE DEF r
<1>8. r \in Possible
  BY <1>1, <1>2, <1>3, <1>6, <1>7 DEF Possible
<1>9. lost' \in BOOLEAN /\ blind' \in BOOLEAN
  BY <1>2 DEF Base, TypeOK
<1>10. QED
  BY <1>2, <1>3, <1>5, <1>6, <1>7, <1>8, <1>9 DEF Read

LEMMA ReadPortsRead ==
  ASSUME Base, request # <<>>, ReadPorts
  PROVE  \E r : /\ Read(r) /\ UNCHANGED <<lost, blind>>
                /\ Now.kind \in Detail /\ Now.host \in Host /\ Now.stage = "row"
                /\ r.view[Now.host].row = Now.view[Now.host].row
                /\ r.view[Now.host].ports = host[Now.host].ports /\ r.stage = "ports"
<1> DEFINE h == Now.host
           v == [Now.view EXCEPT ![h].ports = PortsOf(h)]
           r == [Now EXCEPT !.stage = "ports", !.view = v]
<1>1. Now \in Possible /\ Now \in Request /\ host \in [Host -> [row : Nat, ports : Nat]]
  BY OldestRequest DEF Base, TypeOK
<1>2. Now.stage = "row" /\ UNCHANGED <<lost, blind>>
      /\ Reads([Now EXCEPT !.stage = "ports", !.view[Now.host].ports = PortsOf(Now.host)])
  BY DEF ReadPorts, ReadDetail
<1>3. Now.kind \in Detail /\ h \in Host
  BY <1>1, <1>2 DEF Possible
<1>4. [Now EXCEPT !.stage = "ports", !.view[Now.host].ports = PortsOf(Now.host)] = r
  OBVIOUS
<1>5. Reads(r)
  BY <1>2, <1>4
<1>6. /\ v \in [Host -> [row : Nat, ports : Nat]] /\ v[h].row = Now.view[h].row
      /\ v[h].ports = host[h].ports
      /\ \A g \in Host : g # h => v[g] = Now.view[g]
  <2>1. Now.view \in [Host -> [row : Nat, ports : Nat]]
    BY <1>1 DEF Request
  <2> DEFINE c == [Now.view[h] EXCEPT !.ports = PortsOf(h)]
  <2>2. c \in [row : Nat, ports : Nat] /\ c.row = Now.view[h].row /\ c.ports = host[h].ports
    BY <1>1, <1>3, <2>1 DEF PortsOf
  <2>3. v = [Now.view EXCEPT ![h] = c]
    OBVIOUS
  <2> HIDE DEF c
  <2> HIDE DEF v, h
  <2>5. QED
    BY <1>3, <2>1, <2>2, <2>3
<1> HIDE DEF v
<1>7. /\ r \in Request /\ r.stage = "ports" /\ r.view = v /\ r.events = Now.events
      /\ r.kind = Now.kind /\ r.host = Now.host /\ r.from = Now.from
  BY <1>1, <1>6 DEF Request, Stage
<1> HIDE DEF r
<1>8. r \in Possible
  BY <1>1, <1>3, <1>6, <1>7 DEF Possible
<1>9. lost' \in BOOLEAN /\ blind' \in BOOLEAN
  BY <1>2 DEF Base, TypeOK
<1>10. QED
  BY <1>2, <1>3, <1>5, <1>6, <1>7, <1>8, <1>9 DEF Read

LEMMA ReadIpsRead ==
  ASSUME Base, request # <<>>, ReadIps
  PROVE  \E r : /\ Read(r) /\ UNCHANGED <<lost, blind>>
                /\ Now.kind \in Detail /\ Now.host \in Host /\ Now.stage = "ports"
                /\ r.view = Now.view /\ r.ips = host[Now.host].row /\ r.stage = "ips"
<1> DEFINE r == [Now EXCEPT !.stage = "ips", !.ips = IpsOf(Now.host)]
<1>1. Now \in Possible /\ Now \in Request /\ host \in [Host -> [row : Nat, ports : Nat]]
  BY OldestRequest DEF Base, TypeOK
<1>2. /\ Now.kind \in Detail /\ Now.stage = "ports" /\ UNCHANGED <<lost, blind>>
      /\ Reads(r)
  BY DEF ReadIps, ReadDetail
<1>3. Now.host \in Host
  BY <1>1, <1>2 DEF Possible
<1>4. IpsOf(Now.host) = host[Now.host].row /\ IpsOf(Now.host) \in Nat
  BY <1>1, <1>3 DEF IpsOf
<1>5. /\ r \in Request /\ r.stage = "ips" /\ r.view = Now.view /\ r.events = Now.events
      /\ r.kind = Now.kind /\ r.host = Now.host /\ r.from = Now.from
      /\ r.ips = host[Now.host].row
  BY <1>1, <1>4 DEF Request, Stage
<1> HIDE DEF r
<1>6. r \in Possible
  BY <1>1, <1>2, <1>5 DEF Possible
<1>7. lost' \in BOOLEAN /\ blind' \in BOOLEAN
  BY <1>2 DEF Base, TypeOK
<1>8. QED
  BY <1>2, <1>3, <1>5, <1>6, <1>7 DEF Read

(* LIMIT drops an event only for as many that are not older.               *)
LEMMA NewestTells ==
  ASSUME TypeOK, NEW h, NEW es \in Newest(EventsOf(h), Recent)
  PROVE  Tells(es, h) /\ es \subseteq DOMAIN event
<1>1. DOMAIN event = 1..Len(event) /\ Len(event) \in Nat
  BY LenProperties DEF TypeOK
<1>2. EventsOf(h) \subseteq DOMAIN event /\ es \subseteq EventsOf(h)
  BY DEF EventsOf, Newest
<1>3. IsFiniteSet(EventsOf(h))
  <2>1. IsFiniteSet(1..Len(event))
    BY <1>1, FS_Interval
  <2>2. QED
    BY <1>1, <1>2, <2>1, FS_Subset
<1>4. Cardinality(EventsOf(h)) \in Nat
  BY <1>3, FS_CardinalityType
<1>5. Recent \in Nat
  BY LiveViewAssumption
<1>6. ASSUME NEW e \in EventsOf(h), e \notin es
      PROVE  Cardinality({f \in EventsOf(h) \ {e} : event[f].ts >= event[e].ts}) >= Recent
  <2> DEFINE newer == {f \in EventsOf(h) \ {e} : event[f].ts >= event[e].ts}
  <2>1. es \subseteq newer /\ newer \subseteq EventsOf(h)
    <3>1. \A f \in es : event[e].ts <= event[f].ts
      BY <1>6 DEF Newest
    <3>2. \A f \in DOMAIN event : event[f].ts \in Nat
      <4>1. \A f \in DOMAIN event : event[f] \in Event
        BY LenProperties DEF TypeOK
      <4>2. QED
        BY <4>1 DEF Event
    <3>3. QED
      BY <1>2, <1>6, <3>1, <3>2
  <2> HIDE DEF newer
  <2>2. Cardinality(es) # Cardinality(EventsOf(h))
    BY <1>2, <1>3, <1>6, FS_Subset
  <2>3. Cardinality(es) = Recent
    BY <2>2 DEF Newest
  <2>4. IsFiniteSet(newer)
    BY <1>3, <2>1, FS_Subset
  <2>5. Cardinality(newer) \in Nat /\ Cardinality(es) <= Cardinality(newer)
    BY <2>1, <2>4, FS_Subset, FS_CardinalityType
  <2>6. Cardinality(newer) >= Recent
    BY <1>5, <2>3, <2>5
  <2>7. QED
    BY <2>6 DEF newer
<1>7. QED
  BY <1>2, <1>6 DEF Tells

LEMMA ReadRecentRead ==
  ASSUME Base, request # <<>>, ReadRecent
  PROVE  \E r : /\ Read(r) /\ UNCHANGED <<lost, blind>>
                /\ Now.kind \in Detail /\ Now.host \in Host /\ Now.stage = "ips"
                /\ r.view = Now.view /\ r.ips = Now.ips /\ r.stage = "read"
                /\ Tells(r.events, Now.host)
<1>1. Now \in Possible /\ Now \in Request
  BY OldestRequest
<1>2. PICK es \in Newest(EventsOf(Now.host), Recent) :
        ReadDetail("ips", [Now EXCEPT !.stage = "read", !.events = es])
  BY DEF ReadRecent
<1> DEFINE r == [Now EXCEPT !.stage = "read", !.events = es]
<1>3. /\ Now.kind \in Detail /\ Now.stage = "ips" /\ UNCHANGED <<lost, blind>>
      /\ Reads(r)
  BY <1>2 DEF ReadDetail
<1>4. Tells(es, Now.host) /\ es \subseteq DOMAIN event
  BY NewestTells DEF Base
<1>5. DOMAIN event = 1..Len(event) /\ Len(event) \in Nat
  BY LenProperties DEF Base, TypeOK
<1>6. es \in SUBSET Nat
  BY <1>4, <1>5
<1>7. /\ r \in Request /\ r.stage = "read" /\ r.view = Now.view /\ r.events = es
      /\ r.kind = Now.kind /\ r.host = Now.host /\ r.from = Now.from /\ r.ips = Now.ips
  BY <1>1, <1>6 DEF Request, Stage
<1> HIDE DEF r
<1>8. r \in Possible /\ Now.host \in Host
  BY <1>1, <1>3, <1>4, <1>7 DEF Possible
<1>9. lost' \in BOOLEAN /\ blind' \in BOOLEAN
  BY <1>3 DEF Base, TypeOK
<1>10. QED
  BY <1>3, <1>4, <1>7, <1>8, <1>9 DEF Read

LEMMA ReadEventsRead ==
  ASSUME Base, request # <<>>, ReadEvents
  PROVE  \E r : /\ Read(r) /\ (lost => lost') /\ (blind => blind')
                /\ Now.kind = "catchup_events" /\ Now.stage = "sent" /\ r.stage = "read"
                /\ ~(lost' /\ blind') => r.events = NotOlder(Now.from)
<1> DEFINE found == NotOlder(Now.from)
           cut   == Cardinality(found) > Limit
<1>1. Now \in Possible /\ Now \in Request
  BY OldestRequest
<1>2. PICK answer \in Newest(found, Limit) :
        Reads([Now EXCEPT !.stage = "read", !.events = answer])
  BY DEF ReadEvents
<1>3. /\ Now.kind = "catchup_events" /\ Now.stage = "sent"
      /\ lost' = (lost \/ cut) /\ blind' = (blind \/ cut)
  BY DEF ReadEvents
<1> DEFINE r == [Now EXCEPT !.stage = "read", !.events = answer]
<1>4. answer \subseteq found /\ found \subseteq DOMAIN event
  BY <1>2 DEF Newest, NotOlder
<1>5. DOMAIN event = 1..Len(event) /\ Len(event) \in Nat
  BY LenProperties DEF Base, TypeOK
<1>6. /\ r \in Request /\ r.stage = "read" /\ r.events = answer /\ r.view = Now.view
      /\ r.kind = Now.kind /\ r.host = Now.host /\ r.from = Now.from
  <2>1. answer \in SUBSET Nat
    BY <1>4, <1>5
  <2> HIDE DEF found
  <2>2. QED
    BY <1>1, <2>1 DEF Request, Stage
<1>7. ~cut => answer = found
  <2>1. IsFiniteSet(found) /\ Cardinality(found) \in Nat
    <3> HIDE DEF found
    <3>1. IsFiniteSet(1..Len(event))
      BY <1>5, FS_Interval
    <3>2. IsFiniteSet(found)
      BY <1>4, <1>5, <3>1, FS_Subset
    <3>3. QED
      BY <3>2, FS_CardinalityType
  <2>2. ~cut => Cardinality(answer) = Cardinality(found)
    BY <1>2, <2>1, LiveViewAssumption DEF Newest
  <2> HIDE DEF found, cut
  <2>3. QED
    BY <1>4, <2>1, <2>2, FS_Subset
<1> HIDE DEF r, cut
<1>8. r \in Possible
  BY <1>1, <1>3, <1>4, <1>6 DEF Possible, Detail
<1>9. lost' \in BOOLEAN /\ blind' \in BOOLEAN
  BY <1>3
<1>10. Reads(r)
  BY <1>2 DEF r
<1>11. QED
  BY <1>3, <1>6, <1>7, <1>8, <1>9, <1>10 DEF Read

LEMMA AnswerReads ==
  ASSUME Base, Answer
  PROVE  \E r : Read(r) /\ (lost => lost') /\ (blind => blind')
<1>1. request # <<>>
  BY DEF Answer
<1>2. CASE ReadHosts
  BY <1>1, <1>2, ReadHostsRead
<1>3. CASE ReadRow
  BY <1>1, <1>3, ReadRowRead
<1>4. CASE ReadPorts
  BY <1>1, <1>4, ReadPortsRead
<1>5. CASE ReadIps
  BY <1>1, <1>5, ReadIpsRead
<1>6. CASE ReadRecent
  BY <1>1, <1>6, ReadRecentRead
<1>7. CASE ReadEvents
  BY <1>1, <1>7, ReadEventsRead
<1>8. QED
  BY <1>2, <1>3, <1>4, <1>5, <1>6, <1>7 DEF Answer

LEMMA ReadBase ==
  ASSUME Base, NEW r, Read(r)
  PROVE  Base'
<1>1. request' \in Seq(Possible)
  <2>1. request' = <<r>> \o Rest /\ <<r>> \in Seq(Possible) /\ Rest \in Seq(Possible)
    BY OldestRequest DEF Read, Reads
  <2>2. QED
    BY <2>1, ConcatProperties
<1>2. PageStep
  BY <1>1 DEF Base, TypeOK, PageOK, PageStep, Read, Reads, server, bus, budget
<1>3. QED
  BY <1>2, PageStepBase

(* A line of requests that grows at its end stays well formed.             *)
LEMMA FreshJoinTheLine ==
  ASSUME Base, NEW line \in Seq(Possible), NEW more \in Seq(Fresh)
  PROVE  /\ line \o more \in Seq(Possible) /\ more \in Seq(Possible)
         /\ Range(line \o more) = Range(line) \cup Range(more)
         /\ Range(more) \subseteq Fresh
<1>1. more \in Seq(Possible)
  BY FreshIsPossible, SeqMonotonic
<1>2. QED
  BY <1>1, ConcatProperties, RangeConcatenation, RangeOfSeq

(* An answer of GET /hosts replaces the map, or is merged into it.         *)
HostsHandled(more) ==
  /\ request # <<>> /\ Now.stage = "read" /\ Now.kind \in Listing
  /\ UNCHANGED <<db, server, bus, sse, selected, cursor, budget, history, detail, shown>>
  /\ more \in Seq(Fresh) /\ request' = Rest \o more
  /\ (Now.kind = "catchup" /\ cursor # 0)
       => \E r \in Range(more) :
            r.kind = "catchup_events" /\ r.from = cursor /\ r.stage = "sent"
  /\ Range(more) \cap {r \in Request : r.kind # "catchup_events"} = {}
  /\ map' \in [Host -> [row : Nat, ports : Nat]]
  /\ \A h \in Host : map'[h] = IF Now.kind = "merge" /\ Now.view[h].row = 0
                               THEN map[h] ELSE Now.view[h]

LEMMA HandleHostsHandles ==
  ASSUME Base, Handle, HandleHosts
  PROVE  \E more : HostsHandled(more)
<1>1. /\ request # <<>> /\ Now.stage = "read" /\ Now.kind \in Listing
      /\ UNCHANGED <<db, server, bus, sse, selected, cursor, budget, history, detail, shown>>
  BY DEF Handle, HandleHosts
<1>2. Now \in Request /\ Rest \in Seq(Possible)
  BY <1>1, OldestRequest
<1> DEFINE ask == [Ask("catchup_events", 0) EXCEPT !.from = cursor]
<1>3. ask \in Fresh /\ ask.kind = "catchup_events" /\ ask.from = cursor /\ ask.stage = "sent"
  <2>1. cursor \in Nat
    BY DEF Base, TypeOK
  <2>2. QED
    BY <2>1, CatchUpEventsIsFresh
<1> HIDE DEF ask
<1>4. /\ map' \in [Host -> [row : Nat, ports : Nat]]
      /\ \A h \in Host : map'[h] = IF Now.kind = "merge" /\ Now.view[h].row = 0
                                   THEN map[h] ELSE Now.view[h]
  <2>1. Now.view \in [Host -> [row : Nat, ports : Nat]]
        /\ map \in [Host -> [row : Nat, ports : Nat]]
    BY <1>2 DEF Request, Base, TypeOK
  <2>2. CASE Now.kind = "merge"
    <3>1. map' = [h \in Host |-> IF Now.view[h].row = 0 THEN map[h] ELSE Now.view[h]]
      BY <2>2 DEF HandleHosts, Merged
    <3>2. QED
      BY <2>1, <2>2, <3>1
  <2>3. CASE Now.kind # "merge"
    <3>1. map' = Now.view
      BY <2>3 DEF HandleHosts
    <3>2. QED
      BY <2>1, <2>3, <3>1
  <2>4. QED
    BY <2>2, <2>3
<1>5. CASE Now.kind = "catchup" /\ cursor # 0
  <2>1. request' = Append(Rest, ask)
    BY <1>5 DEF HandleHosts, ask
  <2>2. Append(Rest, ask) = Rest \o <<ask>>
    BY <1>2, <1>3, FreshIsPossible, AppendIsConcat
  <2>3. <<ask>> \in Seq(Fresh) /\ Range(<<ask>>) = {ask}
    BY <1>3 DEF Range
  <2>4. HostsHandled(<<ask>>)
    BY <1>1, <1>3, <1>4, <2>1, <2>2, <2>3 DEF HostsHandled
  <2>5. QED
    BY <2>4
<1>6. CASE ~(Now.kind = "catchup" /\ cursor # 0)
  <2>1. request' = Rest
    BY <1>6 DEF HandleHosts
  <2>2. Rest \o <<>> = Rest /\ <<>> \in Seq(Fresh) /\ Range(<<>>) = {}
    BY <1>2, ConcatEmptySeq, EmptySeq DEF Range
  <2>3. HostsHandled(<<>>)
    BY <1>1, <1>4, <1>6, <2>1, <2>2 DEF HostsHandled
  <2>4. QED
    BY <2>3
<1>7. QED
  BY <1>5, <1>6

(* An answer of GET /events is reduced like so many messages.              *)
EventsHandled(more) ==
  /\ request # <<>> /\ Now.stage = "read" /\ Now.kind = "catchup_events"
  /\ UNCHANGED <<db, server, bus, sse, selected, cursor, budget, history, map, detail>>
  /\ shown' = shown \cup Now.events
  /\ more \in Seq(Fresh) /\ request' = Rest \o more
  /\ \A r : r \in Range(more) <=> \E e \in Now.events : r \in AsksFor(e)

LEMMA HandleEventsHandles ==
  ASSUME Base, Handle, HandleEvents
  PROVE  \E more : EventsHandled(more)
<1>1. PICK es \in InOrder(Now.events) : request' = Rest \o AllAsks(es)
  BY DEF HandleEvents
<1>2. request # <<>>
  BY DEF Handle
<1>3. Now.events \in SUBSET DOMAIN event
  BY <1>2, OldestRequest DEF Possible
<1>4. /\ AllAsks(es) \in Seq(Fresh)
      /\ \A r : r \in Range(AllAsks(es)) <=> \E e \in Now.events : r \in AsksFor(e)
  BY <1>3, AllAsksAreFor DEF Base
<1>5. EventsHandled(AllAsks(es))
  BY <1>1, <1>4 DEF EventsHandled, Handle, HandleEvents
<1>6. QED
  BY <1>5

(* An answer of GET /hosts/{id} goes into the pane, or the map.            *)
DetailHandled ==
  /\ request # <<>> /\ Now.stage = "read" /\ Now.kind \in Detail /\ Now.host \in Host
  /\ UNCHANGED <<db, server, bus, sse, selected, cursor, budget, history, shown>>
  /\ request' = Rest
  /\ map' \in [Host -> [row : Nat, ports : Nat]]
  /\ \A h \in Host : map'[h] = IF Now.kind = "ip" /\ h = Now.host
                               THEN Now.view[h] ELSE map[h]
  /\ detail' = IF Now.kind # "ip" \/ selected = Now.host THEN DetailOf(Now) ELSE detail
  /\ detail' \in Pane

LEMMA HandleDetailHandles ==
  ASSUME Base, Handle, HandleDetail
  PROVE  DetailHandled
<1>1. /\ request # <<>> /\ Now.stage = "read" /\ Now.kind \in Detail
      /\ UNCHANGED <<db, server, bus, sse, selected, cursor, budget, history, shown>>
      /\ request' = Rest
      /\ detail' = IF Now.kind # "ip" \/ selected = Now.host THEN DetailOf(Now) ELSE detail
  BY DEF Handle, HandleDetail
<1>2. Now \in Request /\ Now.host \in Host
  BY <1>1, OldestRequest DEF Possible
<1>3. Now.view \in [Host -> [row : Nat, ports : Nat]]
      /\ map \in [Host -> [row : Nat, ports : Nat]]
      /\ Now.host \in 0..MaxHosts
  BY <1>2 DEF Request, Base, TypeOK
<1>4. /\ map' \in [Host -> [row : Nat, ports : Nat]]
      /\ \A h \in Host : map'[h] = IF Now.kind = "ip" /\ h = Now.host
                                   THEN Now.view[h] ELSE map[h]
  <2>1. CASE Now.kind = "ip"
    <3>1. map' = [map EXCEPT ![Now.host] = Now.view[Now.host]]
      BY <2>1 DEF HandleDetail
    <3>2. QED
      BY <1>2, <1>3, <2>1, <3>1
  <2>2. CASE Now.kind # "ip"
    BY <1>3, <2>2 DEF HandleDetail
  <2>3. QED
    BY <2>1, <2>2
<1>5. detail' \in Pane
  <2>1. DetailOf(Now) \in Pane
    BY <1>2, <1>3 DEF DetailOf, Request, Pane
  <2>2. QED
    BY <1>1, <2>1 DEF Base, TypeOK
<1>6. QED
  BY <1>1, <1>2, <1>4, <1>5 DEF DetailHandled

LEMMA HandleBase ==
  ASSUME Base, Handle
  PROVE  Base'
<1> USE DEF Base
<1>1. CASE HandleHosts
  <2>1. PICK more : HostsHandled(more)
    BY <1>1, HandleHostsHandles
  <2>2. Rest \in Seq(Possible) /\ Now \in Possible
    BY <2>1, OldestRequest DEF HostsHandled
  <2>3. request' \in Seq(Possible)
    BY <2>1, <2>2, FreshJoinTheLine DEF HostsHandled
  <2>4. \A h \in Host : map'[h].row # 0 => host[h].row # 0
    BY <2>1, <2>2 DEF HostsHandled, Possible, PageOK
  <2>5. PageStep
    BY <2>1, <2>3, <2>4 DEF HostsHandled, PageStep, budget, history, TypeOK, PageOK
  <2>6. QED
    BY <2>5, PageStepBase
<1>2. CASE HandleEvents
  <2>1. PICK more : EventsHandled(more)
    BY <1>2, HandleEventsHandles
  <2>2. Rest \in Seq(Possible) /\ Now \in Possible
    BY <2>1, OldestRequest DEF EventsHandled
  <2>3. request' \in Seq(Possible)
    BY <2>1, <2>2, FreshJoinTheLine DEF EventsHandled
  <2>4. shown' \subseteq DOMAIN event
    BY <2>1, <2>2 DEF EventsHandled, Possible, TypeOK
  <2>5. PageStep
    BY <2>1, <2>3, <2>4 DEF EventsHandled, PageStep, budget, history, TypeOK, PageOK
  <2>6. QED
    BY <2>5, PageStepBase
<1>3. CASE HandleDetail
  <2>1. DetailHandled
    BY <1>3, HandleDetailHandles
  <2>2. Rest \in Seq(Possible) /\ Now \in Possible
    BY <2>1, OldestRequest DEF DetailHandled
  <2>3. \A h \in Host : map'[h].row # 0 => host[h].row # 0
    BY <2>1, <2>2 DEF DetailHandled, Possible, PageOK
  <2>4. PageStep
    BY <2>1, <2>2, <2>3 DEF DetailHandled, PageStep, budget, history, TypeOK, PageOK
  <2>5. QED
    BY <2>4, PageStepBase
<1>4. QED
  BY <1>1, <1>2, <1>3 DEF Handle

LEMMA OvertakenBase ==
  ASSUME Base, Overtaken
  PROVE  Base' /\ Range(request') = Range(request)
<1> USE DEF Base
<1>1. request \in Seq(Possible) /\ Len(request) > 1 /\ request # <<>>
  BY EmptySeq DEF Overtaken, PageOK
<1> DEFINE a == Head(request)
           b == Head(Rest)
           t == Tail(Rest)
           two == <<b, a>>
<1>2. Len(request) \in Nat /\ a = request[1] /\ a \in Possible
      /\ Rest \in Seq(Possible) /\ Len(Rest) = Len(request) - 1
      /\ Range(request) = {a} \cup Range(Rest)
      /\ \A i \in 1..Len(Rest) : Rest[i] = request[i + 1]
  BY <1>1, LenProperties, HeadTailProperties, OldestRequest DEF Rest, Now
<1>3. Rest # <<>> /\ 1 \in 1..Len(Rest) /\ 1 + 1 = 2
  BY <1>1, <1>2, EmptySeq
<1>4. b = request[2] /\ b \in Possible /\ t \in Seq(Possible)
      /\ Range(Rest) = {b} \cup Range(t)
  BY <1>2, <1>3, HeadTailProperties, RangeOfTail
<1>5. request' = two \o t
  BY <1>2, <1>4 DEF Overtaken
<1>6. two \in Seq(Possible) /\ Range(two) = {a, b}
  BY <1>2, <1>4 DEF Range
<1> HIDE DEF a, b, t, two, Base
<1>7. request' \in Seq(Possible) /\ Range(request') = {a, b} \cup Range(t)
  BY <1>4, <1>5, <1>6, ConcatProperties, RangeConcatenation
<1>8. faults' \in 0..MaxFaults
  <2>1. faults \in 0..MaxFaults /\ MaxFaults \in Nat
    BY LiveViewAssumption DEF Base, TypeOK
  <2>2. QED
    BY <2>1 DEF Overtaken
<1>9. PageStep
  BY <1>7, <1>8 DEF Overtaken, PageStep, Base, TypeOK, PageOK
<1>10. QED
  BY <1>2, <1>4, <1>7, <1>9, PageStepBase

LEMMA RequestFailsBase ==
  ASSUME Base, RequestFails
  PROVE  Base'
<1> USE DEF Base
<1>1. Rest \in Seq(Possible) /\ request' = Rest
  BY OldestRequest DEF RequestFails
<1>2. faults' \in 0..MaxFaults
  <2>1. faults \in 0..MaxFaults /\ MaxFaults \in Nat
    BY LiveViewAssumption DEF TypeOK
  <2>2. QED
    BY <2>1 DEF RequestFails
<1>3. PageStep
  BY <1>1, <1>2 DEF RequestFails, PageStep, TypeOK, PageOK
<1>4. QED
  BY <1>3, PageStepBase

LEMMA BootBase ==
  ASSUME Base, Boot \/ BootFails
  PROVE  Base' /\ UNCHANGED <<db, server, bus, detail, selected, cursor, request, history>>
<1> USE DEF Base
<1>1. UNCHANGED <<db, server, bus, detail, selected, cursor, request, history, drops, selects>>
  BY DEF Boot, BootFails, page, budget
<1>2. shown' \subseteq DOMAIN event
  BY DEF Boot, BootFails, Newest, TypeOK, page
<1>3. map' \in [Host -> [row : Nat, ports : Nat]]
      /\ \A h \in Host : map'[h].row # 0 => host[h].row # 0
  BY DEF Boot, BootFails, Summaries, TypeOK, PageOK, page
<1>4. faults' \in 0..MaxFaults
  <2>1. faults \in 0..MaxFaults /\ MaxFaults \in Nat
    BY LiveViewAssumption DEF TypeOK
  <2>2. QED
    BY <2>1 DEF Boot, BootFails, budget
<1>5. sse = "new" /\ sse' \in {"closed", "dead"}
  BY DEF Boot, BootFails
<1>6. TypeOK'
  BY <1>1, <1>2, <1>3, <1>4, <1>5 DEF TypeOK, db, server, bus, history
<1>7. MessagesOK'
  BY <1>1, <1>5 DEF MessagesOK, db, server, bus, Published, Waiting
<1>8. TablesOK'
  BY <1>1 DEF TablesOK, db, server, Stamp
<1>9. PageOK'
  <2>1. Possible' = Possible
    BY <1>1 DEF Possible, db
  <2>2. QED
    BY <1>1, <1>3, <1>5, <2>1 DEF PageOK, db, history
<1>10. QED
  BY <1>1, <1>6, <1>7, <1>8, <1>9

(* The page asks for something more.                                       *)
Asked(more) == more \in Seq(Fresh) /\ request' = request \o more

LEMMA ConnectBase ==
  ASSUME Base, Connect
  PROVE  /\ Base'
         /\ Asked(<<Ask("catchup", 0)>>)
         /\ Range(<<Ask("catchup", 0)>>) = {Ask("catchup", 0)}
         /\ Ask("catchup", 0) \in Fresh /\ Ask("catchup", 0).kind = "catchup"
         /\ job.pc = "idle" /\ sse = "closed" /\ sse' = "open" /\ Waiting' = {}
         /\ UNCHANGED <<db, server, msg, map, detail, selected, shown, cursor, since, lost>>
         /\ blind' = (blind \/ (cursor = 0 /\ selected # 0))
<1> USE DEF Base
<1> DEFINE ask == Ask("catchup", 0)
<1>1. ask \in Fresh /\ ask.kind = "catchup"
  <2>1. 0 \in 0..MaxHosts /\ "catchup" \in Kind /\ "catchup" \notin Detail
    BY LiveViewAssumption DEF Kind, Detail
  <2>2. QED
    BY <2>1, AskIsFresh
<1>2. request' = Append(request, ask) /\ request \in Seq(Possible)
  BY DEF Connect, CatchUp, PageOK
<1> HIDE DEF ask
<1>3. Append(request, ask) = request \o <<ask>>
  BY <1>1, <1>2, FreshIsPossible, AppendIsConcat
<1>4. Asked(<<ask>>) /\ Range(<<ask>>) = {ask}
  <2>1. <<ask>> \in Seq(Fresh)
    BY <1>1
  <2>2. QED
    BY <1>2, <1>3, <2>1 DEF Asked, Range
<1>5. request' \in Seq(Possible)
  BY <1>2, <1>4, FreshJoinTheLine DEF Asked
<1>6. UNCHANGED <<db, server, msg, sent, map, detail, selected, shown, cursor, budget, since, lost>>
  BY DEF Connect, Window!Join
<1>7. /\ sse = "closed" /\ sse' = "open" /\ joined' = {Tab} /\ job.pc = "idle"
      /\ taken' \in [{Tab} -> 0..sent] /\ taken'[Tab] = sent
      /\ stale' = FALSE /\ blind' \in BOOLEAN
      /\ blind' = (blind \/ (cursor = 0 /\ selected # 0))
  BY LenProperties DEF Connect, Window!Join, TypeOK
<1>8. Waiting' = {}
  <2>1. sent \in Nat
    BY WaitingIsPublished
  <2>2. Waiting' = sent + 1..sent
    BY <1>6, <1>7 DEF Waiting
  <2>3. QED
    BY <2>1, <2>2
<1>9. TypeOK'
  <2>1. request' \in Seq(Request)
    BY <1>5, FreshIsPossible, SeqMonotonic
  <2>2. QED
    BY <1>6, <1>7, <2>1 DEF TypeOK, db, server, budget
<1>10. MessagesOK'
  BY <1>6, <1>8 DEF MessagesOK, db, server, Published
<1>11. TablesOK'
  BY <1>6 DEF TablesOK, db, server, Stamp
<1>12. PageOK'
  <2>1. Possible' = Possible
    BY <1>6 DEF Possible, db
  <2>2. QED
    BY <1>5, <1>6, <1>7, <2>1 DEF PageOK, db
<1>13. QED
  BY <1>1, <1>4, <1>6, <1>7, <1>8, <1>9, <1>10, <1>11, <1>12 DEF ask

LEMMA DropBase ==
  ASSUME Base, Drop
  PROVE  /\ Base' /\ sse = "open" /\ sse' = "closed" /\ Queued' = Queued
         /\ UNCHANGED <<db, server, msg, page, since, lost, stale, blind>>
<1> USE DEF Base
<1>1. UNCHANGED <<db, server, msg, sent, taken, page, faults, selects, since, lost, stale, blind>>
  BY DEF Drop, Window!Leave
<1>2. sse = "open" /\ sse' = "closed" /\ Tab \notin joined' /\ joined' \subseteq joined
  BY DEF Drop, ErrorState, Window!Leave
<1>3. drops' \in 0..MaxDrops
  <2>1. drops \in 0..MaxDrops /\ MaxDrops \in Nat
    BY LiveViewAssumption DEF TypeOK
  <2>2. QED
    BY <2>1 DEF Drop
<1>4. TypeOK'
  BY <1>1, <1>2, <1>3 DEF TypeOK, db, server, page
<1>5. MessagesOK'
  BY <1>1, <1>2 DEF MessagesOK, db, server, page, Published, Waiting
<1>6. TablesOK'
  BY <1>1 DEF TablesOK, db, server, Stamp
<1>7. PageOK'
  <2>1. Possible' = Possible
    BY <1>1 DEF Possible, db
  <2>2. QED
    BY <1>1, <1>2, <2>1 DEF PageOK, db, page
<1>8. QED
  BY <1>1, <1>2, <1>4, <1>5, <1>6, <1>7 DEF Queued, Waiting

LEMMA SelectBase ==
  ASSUME Base, NEW h \in 0..MaxHosts, Select(h)
  PROVE  /\ Base'
         /\ UNCHANGED <<db, server, bus, sse, map, shown, cursor, since, lost, stale>>
         /\ selected' = h
         /\ \E more : /\ Asked(more)
                      /\ h # 0 => Range(more) = {Ask("select", h)}
                                  /\ Ask("select", h).kind = "select"
                                  /\ Ask("select", h).host = h
                      /\ Range(more) \cap (UNION {Covers(g) : g \in Host}) = {}
<1> USE DEF Base
<1>1. UNCHANGED <<db, server, bus, sse, map, shown, cursor, drops, faults, since, lost, stale>>
      /\ selected' = h /\ blind' = FALSE /\ sse \in {"closed", "open"}
      /\ h \in {0} \cup {g \in Host : map[g].row # 0}
  BY DEF Select
<1>2. h # 0 => h \in Host /\ host[h].row # 0
  BY <1>1 DEF PageOK
<1>3. \E more : /\ Asked(more)
                /\ h # 0 => Range(more) = {Ask("select", h)}
                            /\ Ask("select", h).kind = "select"
                            /\ Ask("select", h).host = h
                /\ Range(more) \cap (UNION {Covers(g) : g \in Host}) = {}
  <2>1. CASE h = 0
    <3>1. request' = request
      BY <2>1 DEF Select
    <3>2. request \o <<>> = request /\ <<>> \in Seq(Fresh) /\ Range(<<>>) = {}
      BY ConcatEmptySeq, EmptySeq DEF PageOK, Range
    <3>3. QED
      BY <2>1, <3>1, <3>2 DEF Asked
  <2>2. CASE h # 0
    <3> DEFINE ask == Ask("select", h)
    <3>1. ask \in Fresh /\ ask.kind = "select" /\ ask.host = h
      BY <1>2, <2>2, AskIsFresh DEF Kind
    <3>2. request' = Append(request, ask) /\ request \in Seq(Possible)
      BY <2>2 DEF Select, PageOK
    <3> HIDE DEF ask
    <3>3. Append(request, ask) = request \o <<ask>>
      BY <3>1, <3>2, FreshIsPossible, AppendIsConcat
    <3>4. <<ask>> \in Seq(Fresh) /\ Range(<<ask>>) = {ask}
      BY <3>1 DEF Range
    <3>5. \A g \in Host : ask \notin Covers(g)
      BY <3>1 DEF Covers
    <3>6. Asked(<<ask>>)
      BY <3>2, <3>3, <3>4 DEF Asked
    <3>7. QED
      BY <3>1, <3>4, <3>5, <3>6 DEF ask
  <2>3. QED
    BY <2>1, <2>2
<1>4. request' \in Seq(Possible)
  BY <1>3, FreshJoinTheLine DEF Asked, PageOK
<1>5. selects' \in 0..MaxSelects
  <2>1. selects \in 0..MaxSelects /\ MaxSelects \in Nat
    BY LiveViewAssumption DEF TypeOK
  <2>2. QED
    BY <2>1 DEF Select
<1>6. detail' \in Pane
  BY LiveViewAssumption DEF Select, TypeOK, NoDetail, Pane
<1>7. PageStep
  BY <1>1, <1>2, <1>4, <1>5, <1>6 DEF PageStep, TypeOK, PageOK
<1>8. QED
  BY <1>1, <1>3, <1>7, PageStepBase

(* A message arrives: the one after the last, or the oldest that is left.  *)
Delivered(n, more) ==
  /\ sse = "open" /\ n \in Waiting
  /\ UNCHANGED <<db, server, msg, sent, joined, sse, map, detail, selected, budget>>
  /\ taken' \in [{Tab} -> 0..sent] /\ taken'[Tab] = n
  /\ cursor' = msg[n].ts
  /\ since' = IF since = 0 THEN msg[n].ts ELSE since
  /\ shown' = shown \cup ({msg[n].event} \ {0})
  /\ Asked(more)
  /\ Range(more) = {r \in AsksFor(msg[n].event) : msg[n].event # 0}
  /\ lost' \in BOOLEAN /\ stale' \in BOOLEAN /\ blind' \in BOOLEAN
  /\ ~lost' \/ ~blind' => /\ n = taken[Tab] + 1
                          /\ \/ cursor \in {0, msg[n].ts}
                             \/ \A r \in Range(request) : r.kind # "catchup"
  /\ lost => lost'
  /\ blind => blind'
  /\ ~stale' => ~stale /\ n = taken[Tab] + 1

LEMMA DeliverDelivers ==
  ASSUME Base, Deliver
  PROVE  \E n, more : Delivered(n, more)
<1> USE DEF Base
<1> DEFINE n == Window!NextFor(Tab)
           m == msg[n]
           more == IF m.event = 0 THEN <<>> ELSE Asks(m.event)
           skips == n # taken[Tab] + 1
           jumps == /\ cursor \notin {0, m.ts}
                    /\ \E i \in DOMAIN request : request[i].kind = "catchup"
<1>1. sent \in Nat /\ taken[Tab] \in 0..sent /\ taken[Tab] < sent
  BY WaitingIsPublished DEF Deliver, Window!Take
<1>2. n \in Waiting /\ n \in 0..sent
  <2>1. Size \in Nat \ {0}
    BY LiveViewAssumption
  <2>2. n = IF sent - taken[Tab] > Size THEN sent - Size + 1 ELSE taken[Tab] + 1
    BY DEF Window!NextFor
  <2> HIDE DEF n
  <2>3. QED
    BY <1>1, <2>1, <2>2 DEF Waiting
<1>3. /\ UNCHANGED <<db, server, msg, sent, joined, sse, map, detail, selected, budget>>
      /\ sse = "open" /\ taken' = [taken EXCEPT ![Tab] = n]
  BY DEF Deliver, Window!Take
<1>4. /\ cursor' = m.ts
      /\ since' = IF since = 0 THEN m.ts ELSE since
      /\ shown' = shown \cup ({m.event} \ {0})
      /\ request' = request \o more
      /\ lost' = (lost \/ skips \/ jumps)
      /\ blind' = (blind \/ skips \/ jumps)
      /\ stale' = (stale \/ skips)
  BY DEF Deliver
<1> HIDE DEF n
<1>5. taken' \in [{Tab} -> 0..sent] /\ taken'[Tab] = n
  BY <1>2, <1>3 DEF TypeOK
<1>6. m \in Published
  BY <1>2, WaitingIsPublished
<1>7. more \in Seq(Fresh) /\ Range(more) = {r \in AsksFor(m.event) : m.event # 0}
  <2>1. CASE m.event = 0
    <3>1. more = <<>> /\ {r \in AsksFor(m.event) : m.event # 0} = {}
      BY <2>1
    <3>2. <<>> \in Seq(Fresh) /\ Range(<<>>) = {}
      BY EmptySeq DEF Range
    <3>3. QED
      BY <3>1, <3>2
  <2>2. CASE m.event # 0
    <3>1. m.event \in DOMAIN event /\ more = Asks(m.event)
      BY <1>6, <2>2 DEF Published
    <3>2. {r \in AsksFor(m.event) : m.event # 0} = AsksFor(m.event)
      BY <2>2
    <3> HIDE DEF m, more
    <3>3. QED
      BY <3>1, <3>2, AsksAreFor
  <2>3. QED
    BY <2>1, <2>2
<1>8. Asked(more)
  BY <1>4, <1>7 DEF Asked
<1>9. ~jumps => \/ cursor \in {0, m.ts}
                \/ \A r \in Range(request) : r.kind # "catchup"
  BY DEF Range
<1> HIDE DEF more, jumps
<1>10. Delivered(n, more)
  BY <1>2, <1>3, <1>4, <1>5, <1>7, <1>8, <1>9 DEF Delivered
<1>11. QED
  BY <1>10

LEMMA DeliveredBase ==
  ASSUME Base, NEW n, NEW more, Delivered(n, more)
  PROVE  /\ Base' /\ Waiting' \subseteq Waiting /\ Queued' \subseteq Queued
         /\ n = taken[Tab] + 1 => Queued \subseteq Queued' \cup {msg[n].event}
         /\ msg[n] \in Published /\ msg[n].ts \in Nat \ {0}
         /\ msg[n].event # 0 => /\ msg[n].event \in DOMAIN event
                                /\ event[msg[n].event].ts = msg[n].ts
<1> USE DEF Base
<1>1. sent \in Nat /\ taken[Tab] \in 0..sent /\ Waiting = taken[Tab] + 1..sent
      /\ Waiting' = n + 1..sent /\ n \in 1..sent /\ n > taken[Tab]
  BY WaitingIsPublished DEF Delivered, Waiting
<1>2. Waiting' \subseteq Waiting /\ \A i \in Waiting' : i > n
  BY <1>1
<1>3. n = taken[Tab] + 1 => \A i \in Waiting : i \in Waiting' \/ i = n
  BY <1>1
<1>4. clock \in Nat /\ msg[n] \in Published /\ msg' = msg
  BY <1>1, WaitingIsPublished DEF TypeOK, Delivered
<1>5. msg[n].ts \in 1..clock /\ msg[n].event \in {0} \cup DOMAIN event
  BY <1>4 DEF Published
<1>6. Queued' \subseteq Queued
  BY <1>2, <1>4 DEF Queued
<1>7. n = taken[Tab] + 1 => Queued \subseteq Queued' \cup {msg[n].event}
  BY <1>3, <1>4 DEF Queued
<1>8. UNCHANGED <<db, server, msg, sent, joined, sse, map, detail, selected, budget>>
  BY DEF Delivered
<1>9. request' \in Seq(Possible)
  BY FreshJoinTheLine DEF Delivered, Asked, PageOK
<1>10. cursor' \in 0..clock /\ since' \in 0..clock /\ cursor' # 0
  <2>1. cursor' = msg[n].ts /\ since' = (IF since = 0 THEN msg[n].ts ELSE since)
    BY DEF Delivered
  <2>2. since \in 0..clock
    BY DEF TypeOK
  <2> HIDE DEF Base
  <2>3. QED
    BY <1>4, <1>5, <2>1, <2>2
<1>11. TypeOK'
  <2>1. request' \in Seq(Request)
    BY <1>9, FreshIsPossible, SeqMonotonic
  <2>2. shown' \subseteq DOMAIN event
    BY <1>5 DEF Delivered, TypeOK
  <2>3. taken' \in [{Tab} -> 0..sent] /\ <<lost, stale, blind>>' \in BOOLEAN \X BOOLEAN \X BOOLEAN
    BY DEF Delivered
  <2>4. QED
    BY <1>8, <1>10, <2>1, <2>2, <2>3 DEF TypeOK, db, server, budget
<1>12. MessagesOK'
  <2>1. Published' = Published
    BY <1>8 DEF Published, db, server
  <2>2. \A i \in Waiting' : cursor' <= msg[i].ts
    <3>1. SUFFICES ASSUME NEW i \in Waiting'
                   PROVE  msg[n].ts <= msg[i].ts
      BY DEF Delivered
    <3>2. i \in 1..sent /\ n <= i
      BY <1>1
    <3>3. QED
      BY <1>1, <3>2 DEF MessagesOK
  <2>3. QED
    BY <1>8, <2>1, <2>2 DEF MessagesOK, db
<1>13. TablesOK'
  BY <1>8 DEF TablesOK, db, server, Stamp
<1>14. PageOK'
  <2>1. Possible' = Possible
    BY <1>8 DEF Possible, db
  <2>2. sse' = "open"
    BY DEF Delivered
  <2>3. QED
    BY <1>8, <1>9, <1>10, <2>1, <2>2 DEF PageOK, db
<1>15. msg[n].event # 0 => event[msg[n].event].ts = msg[n].ts
  BY <1>1 DEF MessagesOK
<1>16. QED
  BY <1>2, <1>4, <1>5, <1>6, <1>7, <1>11, <1>12, <1>13, <1>14, <1>15

LEMMA StutterBase ==
  ASSUME Base, UNCHANGED vars
  PROVE  Base'
<1> USE DEF Base, vars, db, server, bus, page, budget, history
<1>1. TypeOK'
  BY DEF TypeOK
<1>2. MessagesOK'
  BY DEF MessagesOK, Published, Waiting
<1>3. TablesOK'
  BY DEF TablesOK, Stamp
<1>4. PageOK'
  BY DEF PageOK, Possible
<1>5. QED
  BY <1>1, <1>2, <1>3, <1>4

LEMMA BaseIsInductive ==
  ASSUME Base, [Next]_vars
  PROVE  Base'
<1>1. CASE Announce
  BY <1>1, AnnounceBase
<1>2. CASE JobRaises
  BY <1>2, JobRaisesBase
<1>3. CASE InsertEvent
  BY <1>3, InsertEventBase
<1>4. CASE EndJob \/ CloseRaises
  BY <1>4, EndJobEnds, CloseRaisesEnds, EndsBase
<1>5. ASSUME NEW h \in Host, WriteRow(h) \/ WritePort(h)
      PROVE  Base'
  <2>1. (\E kind : Wrote(h, kind)) \/ Rewrote(h)
    BY <1>5, WriteRowWrote, WritePortWrote
  <2>2. QED
    BY <2>1, WroteBase, RewroteBase
<1>6. CASE Boot \/ BootFails
  BY <1>6, BootBase
<1>7. CASE Connect
  BY <1>7, ConnectBase
<1>8. CASE Drop
  BY <1>8, DropBase
<1>9. CASE Deliver
  BY <1>9, DeliverDelivers, DeliveredBase
<1>10. CASE Answer
  <2>1. \E r : Read(r)
    BY <1>10, AnswerReads
  <2>2. QED
    BY <2>1, ReadBase
<1>11. CASE Handle
  BY <1>11, HandleBase
<1>12. CASE Overtaken
  BY <1>12, OvertakenBase
<1>13. CASE RequestFails
  BY <1>13, RequestFailsBase
<1>14. ASSUME NEW h \in 0..MaxHosts, Select(h)
       PROVE  Base'
  BY <1>14, SelectBase
<1>15. CASE UNCHANGED vars
  BY <1>15, StutterBase
<1>16. QED
  BY <1>1, <1>2, <1>3, <1>4, <1>5, <1>6, <1>7, <1>8, <1>9, <1>10, <1>11, <1>12,
     <1>13, <1>14, <1>15 DEF Next

(* Every field of the state has its type.                                  *)
THEOREM TypeCorrect == Spec => []TypeOK
<1>1. Init => Base
  BY InitBase
<1>2. Base /\ [Next]_vars => Base'
  BY BaseIsInductive
<1>3. Base => TypeOK
  BY DEF Base
<1>4. QED
  BY <1>1, <1>2, <1>3, PTL DEF Spec

-----------------------------------------------------------------------------
(* MapFresh is inductive.                                                  *)

(* What is new in the line does the map no harm.                           *)
LEMMA FreshSpares ==
  ASSUME NEW h
  PROVE  Fresh \subseteq Spares(h)
  BY DEF Fresh, Spares

LEMMA RepairedGrows ==
  ASSUME Base, NEW h \in Host, NEW more, Asked(more), map'[h] = map[h], told'[h] = told[h],
         Repaired(h) \/ Range(more) \cap Covers(h) # {}
  PROVE  Repaired(h)'
<1>1. request \in Seq(Possible) /\ more \in Seq(Fresh) /\ request' = request \o more
  BY DEF Base, PageOK, Asked
<1>2. more \in Seq(Possible) /\ Range(more) \subseteq Spares(h)
  BY <1>1, FreshJoinTheLine, FreshSpares
<1>3. Covers(h)' = Covers(h) /\ Spares(h)' = Spares(h) /\ GoodHost(h)' = GoodHost(h)
  BY DEF Covers, Spares, Agrees, GoodHost, NoOlder
<1>4. Mended(map[h], GoodHost(h), request \o more, Covers(h), Spares(h))
  BY <1>1, <1>2, MendedGrows DEF Repaired
<1>5. QED
  BY <1>1, <1>3, <1>4 DEF Repaired

LEMMA RepairedStays ==
  ASSUME NEW h, Repaired(h), map' = map, told'[h] = told[h], request' = request
  PROVE  Repaired(h)'
<1>1. Covers(h)' = Covers(h) /\ Spares(h)' = Spares(h) /\ GoodHost(h)' = GoodHost(h)
  BY DEF Covers, Spares, Agrees, GoodHost, NoOlder
<1>2. QED
  BY <1>1 DEF Repaired

LEMMA RepairedRead ==
  ASSUME Base, NEW h \in Host, Repaired(h), NEW r, Read(r), Now \in Spares(h) => r \in Spares(h)
  PROVE  Repaired(h)'
<1>1. request \in Seq(Possible) /\ request # <<>> /\ r \in Possible /\ r \in Request
      /\ request' = <<r>> \o Tail(request) /\ map' = map /\ told' = told
  BY FreshIsPossible DEF Base, PageOK, Read, Reads, Rest, db
<1>2. Head(request) \in Covers(h) => r \in Covers(h)
  BY <1>1 DEF Read, Covers, Now
<1>3. Covers(h)' = Covers(h) /\ Spares(h)' = Spares(h) /\ GoodHost(h)' = GoodHost(h)
  BY <1>1 DEF Covers, Spares, Agrees, GoodHost, NoOlder
<1>4. Mended(map[h], GoodHost(h), <<r>> \o Tail(request), Covers(h), Spares(h))
  BY <1>1, <1>2, MendedRead DEF Repaired, Now
<1>5. QED
  BY <1>1, <1>3, <1>4 DEF Repaired

LEMMA RepairedHandled ==
  ASSUME Base, NEW h \in Host, Repaired(h), request # <<>>, told' = told,
         NEW more \in Seq(Fresh), request' = Rest \o more,
         Now \in Spares(h) /\ (map[h] \in GoodHost(h) \/ Now \in Covers(h))
           => map'[h] \in GoodHost(h)
  PROVE  Repaired(h)'
<1>1. request \in Seq(Possible) /\ Rest \in Seq(Possible)
  BY OldestRequest DEF Base, PageOK
<1>2. Mended(map'[h], GoodHost(h), Rest, Covers(h), Spares(h))
  BY <1>1, MendedHandled DEF Repaired, Now, Rest
<1>3. more \in Seq(Possible) /\ Range(more) \subseteq Spares(h)
  BY <1>1, FreshJoinTheLine, FreshSpares
<1>4. Mended(map'[h], GoodHost(h), Rest \o more, Covers(h), Spares(h))
  BY <1>1, <1>2, <1>3, MendedGrows
<1>5. Covers(h)' = Covers(h) /\ Spares(h)' = Spares(h) /\ GoodHost(h)' = GoodHost(h)
  BY DEF Covers, Spares, Agrees, GoodHost, NoOlder
<1>6. QED
  BY <1>4, <1>5 DEF Repaired

LEMMA ChangingStays ==
  ASSUME NEW h, Changing(h), UNCHANGED <<event, job, clock>>, Queued \subseteq Queued'
  PROVE  Changing(h)'
  BY DEF Changing, Stamp

(* What is announced of a host is no newer than its row.                   *)
LEMMA TableIsNoOlder ==
  ASSUME Base, NEW h \in Host
  PROVE  /\ NoOlder(host[h], h)
         /\ host[h] \in [row : Nat, ports : Nat] /\ told[h] \in [row : Nat, ports : Nat]
<1>1. host[h] \in [row : Nat, ports : Nat] /\ told[h] \in [row : Nat, ports : Nat]
  BY DEF Base, TypeOK
<1>2. told[h].row <= host[h].row /\ told[h].ports <= host[h].ports
  BY DEF Base, TablesOK
<1>3. QED
  BY <1>1, <1>2 DEF NoOlder

(* An answer that has what was announced, and one row of it.               *)
LEMMA AgreeingRow ==
  ASSUME Base, request # <<>>, Now.stage = "read", NEW h \in Host, Agrees(Now, h)
  PROVE  Now.view[h] \in GoodHost(h)
<1>1. Now.view[h] \in [row : Nat, ports : Nat]
  BY OldestRequest DEF Request
<1>2. Now.view[h].row >= told[h].row /\ Now.view[h].ports >= told[h].ports
  BY DEF Agrees
<1>3. QED
  BY <1>1, <1>2 DEF GoodHost, NoOlder

(* The server changes the tables: the host is announced, or the change is  *)
(* none that is announced.                                                 *)
LEMMA ServerMapFresh ==
  ASSUME Base, MapFresh,
         Announce \/ JobRaises \/ InsertEvent \/ EndJob \/ CloseRaises
           \/ \E h \in Host : WriteRow(h) \/ WritePort(h)
  PROVE  MapFresh'
<1> SUFFICES ASSUME sse' = "open", ~stale', NEW h \in Host
             PROVE  Changing(h)' \/ Repaired(h)'
  BY DEF MapFresh, Host
<1>1. CASE Announce
  <2>1. UNCHANGED <<event, map, told, request, job, sse, stale>> /\ Queued' = Queued
    BY <1>1, AnnounceBase DEF Announce, db, page, history
  <2>2. Changing(h) => Changing(h)'
    <3>1. \A e \in DOMAIN event : event[e].ts # Stamp
      BY <1>1 DEF Announce, Base, TablesOK
    <3>2. QED
      BY <2>1, <3>1 DEF Changing
  <2>3. QED
    BY <2>1, <2>2, RepairedStays DEF MapFresh
<1>2. CASE JobRaises
  BY <1>2 DEF JobRaises
<1>3. CASE InsertEvent
  <2>1. UNCHANGED <<told, clock, map, request, sse, stale>> /\ Queued' = Queued
    BY <1>3, InsertEventBase DEF page, history
  <2>2. ASSUME Changing(h)
        PROVE  Changing(h)'
    <3>1. ASSUME NEW i \in DOMAIN job.news, job.news[i].host = h
          PROVE  Changing(h)'
      <4>1. CASE i = 1
        <5> DEFINE e == Len(event')
        <5>1. e \in DOMAIN event' /\ event'[e] = job.news[1] /\ event'[e].ts = Stamp /\ Stamp' = Stamp
          BY <1>3, <2>1, InsertEventBase DEF Stamp
        <5> HIDE DEF e
        <5>2. QED
          BY <3>1, <4>1, <5>1 DEF Changing
      <4>2. CASE i # 1
        <5>1. i - 1 \in DOMAIN job'.news /\ job'.news[i - 1] = job.news[i]
          BY <1>3, <3>1, <4>2, InsertEventBase
        <5>2. QED
          BY <3>1, <5>1 DEF Changing
      <4>3. QED
        BY <4>1, <4>2
    <3>2. ASSUME NEW e \in DOMAIN event, event[e].host = h, event[e].ts = Stamp \/ e \in Queued
          PROVE  Changing(h)'
      <4>1. e \in DOMAIN event' /\ event'[e] = event[e] /\ Stamp' = Stamp
        BY <1>3, <2>1, InsertEventBase DEF Stamp
      <4>2. QED
        BY <2>1, <3>2, <4>1 DEF Changing
    <3>3. QED
      BY <2>2, <3>1, <3>2 DEF Changing
  <2>3. QED
    BY <2>1, <2>2, RepairedStays DEF MapFresh
<1>4. CASE EndJob \/ CloseRaises
  <2>1. UNCHANGED <<told, event, map, request, sse, stale>> /\ Queued' = Queued \cup Own
        /\ job.news = <<>>
    BY <1>4, EndJobEnds, CloseRaisesEnds, EndsBase DEF page, history
  <2>2. Changing(h) => Changing(h)'
    <3>1. DOMAIN job.news = {}
      BY <2>1
    <3>2. \A e \in DOMAIN event : event[e].ts = Stamp => e \in Queued'
      BY <2>1 DEF Own
    <3>3. QED
      BY <2>1, <3>1, <3>2 DEF Changing
  <2>3. QED
    BY <2>1, <2>2, RepairedStays DEF MapFresh
<1>5. ASSUME NEW g \in Host, WriteRow(g) \/ WritePort(g)
      PROVE  Changing(h)' \/ Repaired(h)'
  <2>1. CASE Rewrote(g)
    <3>1. /\ UNCHANGED <<told, event, clock, map, request, sse, stale>> /\ Queued' = Queued
          /\ job'.news = job.news
      BY <2>1, RewroteBase DEF Rewrote, Altered, Writes, page, history
    <3>2. Changing(h) => Changing(h)'
      BY <3>1 DEF Changing, Stamp
    <3>3. QED
      BY <3>1, <3>2, RepairedStays DEF MapFresh
  <2> SUFFICES ASSUME NEW kind, Wrote(g, kind)
               PROVE  Changing(h)' \/ Repaired(h)'
    BY <1>5, <2>1, WriteRowWrote, WritePortWrote
  <2>2. UNCHANGED <<event, clock, map, request, sse, stale>> /\ Queued' = Queued
    BY WroteBase DEF Wrote, Altered, Writes, page, history
  <2>3. CASE h = g
    <3> DEFINE last == Len(job'.news)
    <3>1. last \in DOMAIN job'.news /\ job'.news[last] = [ts |-> Stamp, host |-> g, kind |-> kind]
      BY WroteNews
    <3> HIDE DEF last
    <3>2. job'.news[last].host = h
      BY <2>3, <3>1
    <3>3. QED
      BY <3>1, <3>2 DEF Changing
  <2>4. CASE h # g
    <3>1. told'[h] = told[h]
      BY <2>4 DEF Wrote, Altered, Announced, Base, TypeOK
    <3>2. Changing(h) => Changing(h)'
      <4>1. \A i \in DOMAIN job.news : i \in DOMAIN job'.news /\ job'.news[i] = job.news[i]
        BY WroteNews
      <4>2. QED
        BY <2>2, <4>1 DEF Changing, Stamp
    <3>3. QED
      BY <2>2, <3>1, <3>2, RepairedStays DEF MapFresh
  <2>5. QED
    BY <2>3, <2>4
<1>6. QED
  BY <1>1, <1>2, <1>3, <1>4, <1>5

(* A GET handler reads: what it brings is what the table says now.         *)
LEMMA ReadSpares ==
  ASSUME Base, NEW h \in Host, Answer
  PROVE  \E r : Read(r) /\ (Now \in Spares(h) => r \in Spares(h))
<1>1. request # <<>> /\ Now \in Request
  BY OldestRequest DEF Answer
<1>2. CASE ReadHosts
  <2>1. PICK r : /\ Read(r) /\ Now.kind \in Listing
                 /\ r.view = host /\ r.stage = "read"
    BY <1>1, <1>2, ReadHostsRead
  <2>2. r \in Request
    BY <2>1, FreshIsPossible DEF Read
  <2>3. r \in Spares(h)
    BY <2>1, <2>2, TableIsNoOlder DEF Spares, Agrees, NoOlder
  <2>4. QED
    BY <2>1, <2>3
<1>3. CASE ReadRow
  <2>1. PICK r : /\ Read(r) /\ Now.kind \in Detail /\ Now.host \in Host
                 /\ r.view[Now.host].row = host[Now.host].row /\ r.stage = "row"
    BY <1>1, <1>3, ReadRowRead
  <2>2. r \in Request /\ r.kind = Now.kind /\ r.host = Now.host
    BY <2>1, FreshIsPossible DEF Read
  <2>3. r \in Spares(h)
    BY <2>1, <2>2, TableIsNoOlder DEF Spares, Agrees, NoOlder, Detail, Listing
  <2>4. QED
    BY <2>1, <2>3
<1>4. CASE ReadPorts
  <2>1. PICK r : /\ Read(r) /\ Now.kind \in Detail /\ Now.host \in Host
                 /\ Now.stage = "row"
                 /\ r.view[Now.host].row = Now.view[Now.host].row
                 /\ r.view[Now.host].ports = host[Now.host].ports /\ r.stage = "ports"
    BY <1>1, <1>4, ReadPortsRead
  <2>2. r \in Request /\ r.kind = Now.kind /\ r.host = Now.host
    BY <2>1, FreshIsPossible DEF Read
  <2>3. ASSUME Now \in Spares(h)
        PROVE  r \in Spares(h)
    BY <2>1, <2>2, <2>3, TableIsNoOlder DEF Spares, Agrees, NoOlder, Detail, Listing
  <2>4. QED
    BY <2>1, <2>3
<1>5. CASE ReadEvents
  <2>1. PICK r : Read(r) /\ Now.kind = "catchup_events"
    BY <1>1, <1>5, ReadEventsRead
  <2>2. r \in Request /\ r.kind = Now.kind
    BY <2>1, FreshIsPossible DEF Read
  <2>3. r \in Spares(h)
    BY <2>1, <2>2 DEF Spares, Listing
  <2>4. QED
    BY <2>1, <2>3
<1>6. CASE ReadIps
  <2>1. PICK r : /\ Read(r) /\ Now.kind \in Detail /\ Now.stage = "ports"
                 /\ r.view = Now.view /\ r.stage = "ips"
    BY <1>1, <1>6, ReadIpsRead
  <2>2. r \in Request /\ r.kind = Now.kind /\ r.host = Now.host
    BY <2>1, FreshIsPossible DEF Read
  <2>3. ASSUME Now \in Spares(h)
        PROVE  r \in Spares(h)
    BY <2>1, <2>2, <2>3 DEF Spares, Agrees, Detail, Listing
  <2>4. QED
    BY <2>1, <2>3
<1>7. CASE ReadRecent
  <2>1. PICK r : /\ Read(r) /\ Now.kind \in Detail /\ Now.stage = "ips"
                 /\ r.view = Now.view /\ r.stage = "read"
    BY <1>1, <1>7, ReadRecentRead
  <2>2. r \in Request /\ r.kind = Now.kind /\ r.host = Now.host
    BY <2>1, FreshIsPossible DEF Read
  <2>3. ASSUME Now \in Spares(h)
        PROVE  r \in Spares(h)
    BY <2>1, <2>2, <2>3 DEF Spares, Agrees, Detail, Listing
  <2>4. QED
    BY <2>1, <2>3
<1>8. QED
  BY <1>2, <1>3, <1>4, <1>5, <1>6, <1>7 DEF Answer

(* The page handles an answer: its rows are no older than what was         *)
(* announced, or were never going to last.                                 *)
LEMMA HandleMapFresh ==
  ASSUME Base, Handle, NEW h \in Host, Repaired(h)
  PROVE  Repaired(h)'
<1>1. CASE HandleHosts
  <2>1. PICK more : HostsHandled(more)
    BY <1>1, HandleHostsHandles
  <2>2. ASSUME Now \in Spares(h), map[h] \in GoodHost(h) \/ Now \in Covers(h)
        PROVE  map'[h] \in GoodHost(h)
    <3>1. Agrees(Now, h)
      BY <2>1, <2>2 DEF HostsHandled, Spares, Listing
    <3>2. Now.view[h] \in GoodHost(h)
      BY <2>1, <3>1, AgreeingRow DEF HostsHandled
    <3>3. map'[h] = IF Now.kind = "merge" /\ Now.view[h].row = 0
                    THEN map[h] ELSE Now.view[h]
      BY <2>1 DEF HostsHandled
    <3>4. (Now.kind = "merge" /\ Now.view[h].row = 0) => map[h] \in GoodHost(h)
      BY <2>2, <3>2, TableIsNoOlder DEF Covers, GoodHost, NoOlder
    <3>5. QED
      BY <3>2, <3>3, <3>4
  <2>3. QED
    BY <2>1, <2>2, RepairedHandled DEF HostsHandled, db
<1>2. CASE HandleEvents
  <2>1. PICK more : EventsHandled(more)
    BY <1>2, HandleEventsHandles
  <2>2. Now \notin Covers(h)
    BY <2>1 DEF EventsHandled, Covers
  <2>3. QED
    BY <2>1, <2>2, RepairedHandled DEF EventsHandled, db
<1>3. CASE HandleDetail
  <2>1. DetailHandled
    BY <1>3, HandleDetailHandles
  <2>2. ASSUME Now \in Spares(h), map[h] \in GoodHost(h) \/ Now \in Covers(h)
        PROVE  map'[h] \in GoodHost(h)
    <3>1. map'[h] = IF Now.kind = "ip" /\ h = Now.host THEN Now.view[h] ELSE map[h]
      BY <2>1 DEF DetailHandled
    <3>2. CASE Now.kind = "ip" /\ h = Now.host
      <4>1. Agrees(Now, h)
        BY <2>1, <2>2, <3>2 DEF DetailHandled, Spares
      <4>2. QED
        BY <2>1, <3>1, <3>2, <4>1, AgreeingRow DEF DetailHandled
    <3>3. CASE ~(Now.kind = "ip" /\ h = Now.host)
      <4>1. Now \notin Covers(h)
        BY <2>1, <3>3 DEF DetailHandled, Covers, Detail
      <4>2. QED
        BY <2>2, <3>1, <3>3, <4>1
    <3>4. QED
      BY <3>2, <3>3
  <2>3. Rest \in Seq(Possible) /\ Rest = Rest \o <<>> /\ <<>> \in Seq(Fresh)
    BY <2>1, OldestRequest, ConcatEmptySeq, EmptySeq DEF DetailHandled
  <2>4. request' = Rest \o <<>> /\ told' = told /\ request # <<>>
    BY <2>1, <2>3 DEF DetailHandled, db
  <2>5. QED
    BY <2>2, <2>3, <2>4, RepairedHandled
<1>4. QED
  BY <1>1, <1>2, <1>3 DEF Handle

(* A host of which an event arrives is asked for.                          *)
LEMMA DeliverMapFresh ==
  ASSUME Base, NEW n, NEW more, Delivered(n, more), n = taken[Tab] + 1,
         NEW h \in Host, Changing(h) \/ Repaired(h)
  PROVE  Changing(h)' \/ Repaired(h)'
<1> DEFINE e == msg[n].event
<1>1. UNCHANGED <<event, job, clock, map, told>> /\ Asked(more)
      /\ Range(more) = {r \in AsksFor(e) : e # 0}
  BY DEF Delivered, db, server
<1>2. Queued \subseteq Queued' \cup {e} /\ (e # 0 => e \in DOMAIN event)
  BY DeliveredBase
<1> HIDE DEF e
<1>3. CASE Repaired(h)
  BY <1>1, <1>3, RepairedGrows
<1>4. CASE Changing(h) /\ ~(e # 0 /\ event[e].host = h)
  <2>1. \A f \in DOMAIN event : event[f].host = h /\ f \in Queued => f \in Queued'
    BY <1>2, <1>4 DEF Queued
  <2>2. QED
    BY <1>1, <1>4, <2>1 DEF Changing, Stamp
<1>5. CASE e # 0 /\ event[e].host = h
  <2>1. event[e] \in Event /\ h \in 0..MaxHosts /\ told[h].row # 0
    <3>1. event \in Seq(Event) /\ e \in DOMAIN event
      BY <1>2, <1>5 DEF Base, TypeOK
    <3>2. event[e] \in Event
      BY <3>1, LenProperties
    <3>3. QED
      BY <1>5, <3>1, <3>2, LiveViewAssumption DEF Host, Base, TablesOK
  <2>2. Range(more) = AsksFor(e)
    BY <1>1, <1>5
  <2>3. \A kind \in {"new", "ip", "merge"} : Ask(kind, h) \in Covers(h)
    <3>1. \A kind \in {"new", "ip", "merge"} :
            Ask(kind, h) \in Request /\ Ask(kind, h).kind = kind /\ Ask(kind, h).host = h
      BY <2>1, AskIsFresh, FreshIsPossible DEF Kind
    <3>2. QED
      BY <2>1, <3>1 DEF Covers
  <2>4. \E kind \in {"new", "ip", "merge"} : Ask(kind, h) \in AsksFor(e)
    BY <1>5, <2>1 DEF AsksFor, Event
  <2>5. QED
    BY <1>1, <2>2, <2>3, <2>4, RepairedGrows
<1>6. QED
  BY <1>3, <1>4, <1>5

LEMMA PageMapFresh ==
  ASSUME Base, MapFresh,
         \/ Boot \/ BootFails \/ Connect \/ Drop \/ Deliver
         \/ Answer \/ Handle \/ Overtaken \/ RequestFails
         \/ \E h \in 0..MaxHosts : Select(h)
         \/ UNCHANGED vars
  PROVE  MapFresh'
<1> SUFFICES ASSUME sse' = "open", ~stale', NEW h \in Host
             PROVE  Changing(h)' \/ Repaired(h)'
  BY DEF MapFresh, Host
<1>1. CASE Boot \/ BootFails \/ Drop
  BY <1>1, DropBase DEF Boot, BootFails
<1>2. CASE Connect
  <2>1. Ask("catchup", 0) \in Covers(h)
    BY <1>2, ConnectBase, FreshIsPossible DEF Covers
  <2>2. Range(<<Ask("catchup", 0)>>) \cap Covers(h) # {}
    BY <1>2, <2>1, ConnectBase
  <2>3. UNCHANGED <<map, told>> /\ Asked(<<Ask("catchup", 0)>>)
    BY <1>2, ConnectBase DEF db
  <2>4. QED
    BY <2>2, <2>3, RepairedGrows
<1>3. CASE Deliver
  <2>1. PICK n, more : Delivered(n, more)
    BY <1>3, DeliverDelivers
  <2>2. n = taken[Tab] + 1 /\ ~stale /\ sse = "open"
    BY <2>1 DEF Delivered
  <2>3. QED
    BY <2>1, <2>2, DeliverMapFresh DEF MapFresh
<1>4. CASE Answer
  <2>1. PICK r : Read(r) /\ (Now \in Spares(h) => r \in Spares(h))
    BY <1>4, ReadSpares
  <2>2. UNCHANGED <<event, job, clock, msg, sent, taken, sse, stale>>
    BY <2>1 DEF Read, Reads, db, server, bus
  <2>3. Queued' = Queued
    BY <2>2 DEF Queued, Waiting
  <2>4. QED
    BY <2>1, <2>2, <2>3, RepairedRead, ChangingStays DEF MapFresh
<1>5. CASE Handle
  <2>1. UNCHANGED <<event, job, clock, msg, sent, taken, sse, stale>>
    BY <1>5 DEF Handle, db, server, bus, history
  <2>2. Queued' = Queued
    BY <2>1 DEF Queued, Waiting
  <2>3. QED
    BY <1>5, <2>1, <2>2, HandleMapFresh, ChangingStays DEF MapFresh
<1>6. CASE Overtaken \/ RequestFails
  BY <1>6 DEF Overtaken, RequestFails
<1>7. ASSUME NEW g \in 0..MaxHosts, Select(g)
      PROVE  Changing(h)' \/ Repaired(h)'
  <2>1. UNCHANGED <<told, event, job, clock, msg, sent, taken, sse, stale, map>>
    BY <1>7, SelectBase DEF db, server, bus
  <2>2. Queued' = Queued
    BY <2>1 DEF Queued, Waiting
  <2>3. PICK more : Asked(more)
    BY <1>7, SelectBase
  <2>4. QED
    BY <2>1, <2>2, <2>3, RepairedGrows, ChangingStays DEF MapFresh
<1>8. CASE UNCHANGED vars
  <2>1. UNCHANGED <<told, event, job, clock, msg, sent, taken, sse, stale, map, request>>
    BY <1>8 DEF vars, db, server, bus, page, history
  <2>2. Queued' = Queued
    BY <2>1 DEF Queued, Waiting
  <2>3. QED
    BY <2>1, <2>2, RepairedStays, ChangingStays DEF MapFresh
<1>9. QED
  BY <1>1, <1>2, <1>3, <1>4, <1>5, <1>6, <1>7, <1>8

(* When nothing is under way, the map shows what was announced.            *)
LEMMA MapFreshShowsHosts ==
  ASSUME Base, MapFresh
  PROVE  HostsAreFresh
<1> SUFFICES ASSUME Settled, ~stale
             PROVE  \A h \in Host : NoOlder(map[h], h)
  BY DEF HostsAreFresh
<1>1. job.pc = "idle" /\ request = <<>> /\ sse = "open" /\ taken[Tab] = sent
  BY DEF Settled, CaughtUp
<1>2. Queued = {}
  <2>1. Waiting = {}
    BY <1>1, WaitingIsPublished DEF Waiting
  <2>2. QED
    BY <2>1 DEF Queued
<1>3. ASSUME NEW h \in Host
      PROVE  NoOlder(map[h], h)
  <2>1. ~Changing(h)
    BY <1>1, <1>2 DEF Changing, Base, TablesOK
  <2>2. Repaired(h)
    BY <1>1, <2>1 DEF MapFresh
  <2>3. Len(request) = 0
    BY <1>1, EmptySeq
  <2>4. QED
    BY <2>2, <2>3 DEF Repaired, Mended, GoodHost
<1>4. QED
  BY <1>3

(* HostsAreFresh: after any number of broken connections, and reads in the *)
(* middle of a scan, the map that the page shows has every change of the   *)
(* host table that was announced by an event, as soon as nothing is under  *)
(* way.  Excepted is what stale records since the last onopen: an answer   *)
(* was overtaken or failed, the queue overflowed, a scan raised before it  *)
(* published.  A name or vendor that is rewritten without an event may be  *)
(* older on the map.                                                       *)
THEOREM MapShowsHostTable == Spec => []HostsAreFresh
<1>1. Init => Base /\ MapFresh
  BY InitBase DEF Init, MapFresh
<1>2. Base /\ MapFresh /\ [Next]_vars => (Base /\ MapFresh)'
  BY BaseIsInductive, ServerMapFresh, PageMapFresh DEF Next
<1>3. Base /\ MapFresh => HostsAreFresh
  BY MapFreshShowsHosts
<1>4. QED
  BY <1>1, <1>2, <1>3, PTL DEF Spec

-----------------------------------------------------------------------------
(* An event that is on the way stays so until the page is told of it.      *)

LEMMA QuietStep ==
  ASSUME NEW e, OnTheWay(e), event'[e] = event[e], UNCHANGED <<clock, sse, cursor>>,
         Queued \subseteq Queued', Range(request) \subseteq Range(request')
  PROVE  OnTheWay(e)'
  BY DEF OnTheWay, Stamp

(* The stream is up, or it will be and the catch-up will ask for events.   *)
Listening == sse \in {"closed", "open"} /\ (sse = "closed" => cursor # 0)

LEMMA ServerKeepsOnTheWay ==
  ASSUME Base, Listening, NEW e \in DOMAIN event, OnTheWay(e),
         Announce \/ InsertEvent \/ EndJob \/ CloseRaises
           \/ \E h \in Host : WriteRow(h) \/ WritePort(h)
  PROVE  OnTheWay(e)'
<1>1. CASE Announce
  <2>1. UNCHANGED <<event, sse, cursor, request>> /\ Queued' = Queued
    BY <1>1, AnnounceBase DEF Announce, page
  <2>2. event[e].ts # Stamp
    BY <1>1 DEF Announce, Base, TablesOK
  <2>3. QED
    BY <2>1, <2>2 DEF OnTheWay
<1>2. CASE InsertEvent
  <2>1. event'[e] = event[e] /\ UNCHANGED <<clock, sse, cursor, request>> /\ Queued' = Queued
    BY <1>2, InsertEventBase DEF page
  <2>2. QED
    BY <2>1, QuietStep
<1>3. CASE EndJob \/ CloseRaises
  <2>1. UNCHANGED <<event, sse, cursor, request>> /\ Queued' = Queued \cup Own
    BY <1>3, EndJobEnds, CloseRaisesEnds, EndsBase DEF page
  <2>2. CASE event[e].ts = Stamp
    <3>1. e \in Queued'
      BY <2>1, <2>2 DEF Own
    <3>2. event[e].ts >= cursor
      <4>1. cursor \in 0..clock /\ clock \in Nat /\ Stamp = clock + 1
        BY DEF Base, TypeOK, Stamp
      <4>2. QED
        BY <2>2, <4>1
    <3>3. QED
      BY <2>1, <3>1, <3>2 DEF OnTheWay, Listening
  <2>3. CASE event[e].ts # Stamp
    BY <2>1, <2>3 DEF OnTheWay
  <2>4. QED
    BY <2>2, <2>3
<1>4. ASSUME NEW g \in Host, WriteRow(g) \/ WritePort(g)
      PROVE  OnTheWay(e)'
  <2>1. (\E kind : Wrote(g, kind)) \/ Rewrote(g)
    BY <1>4, WriteRowWrote, WritePortWrote
  <2>2. UNCHANGED <<event, clock, sse, cursor, request>> /\ Queued' = Queued
    BY <2>1, WroteBase, RewroteBase DEF Wrote, Rewrote, Altered, Writes, page
  <2>3. QED
    BY <2>2, QuietStep
<1>5. QED
  BY <1>1, <1>2, <1>3, <1>4

LEMMA StreamKeepsOnTheWay ==
  ASSUME Base, NEW e \in DOMAIN event, OnTheWay(e),
         Boot \/ BootFails \/ Connect \/ (Drop /\ cursor # 0)
  PROVE  OnTheWay(e)'
<1>1. CASE Boot \/ BootFails
  <2>1. UNCHANGED <<event, clock, cursor, request>> /\ sse = "new"
    BY <1>1, BootBase DEF Boot, BootFails, db, server
  <2>2. cursor = 0
    BY <2>1 DEF Base, PageOK
  <2>3. QED
    BY <2>1, <2>2 DEF OnTheWay, Stamp
<1>2. CASE Connect
  <2>1. UNCHANGED <<event, clock, cursor>> /\ sse = "closed" /\ sse' = "open"
    BY <1>2, ConnectBase DEF db, server
  <2> DEFINE ask == Ask("catchup", 0)
  <2>2. Asked(<<ask>>) /\ Range(<<ask>>) = {ask} /\ ask.kind = "catchup"
    BY <1>2, ConnectBase
  <2>3. Range(request') = Range(request) \cup Range(<<ask>>)
    BY <2>2, FreshJoinTheLine DEF Asked, Base, PageOK
  <2> HIDE DEF ask
  <2>4. ask \in Range(request') /\ Range(request) \subseteq Range(request')
    BY <2>2, <2>3
  <2>5. QED
    BY <2>1, <2>2, <2>4 DEF OnTheWay, Stamp
<1>3. CASE Drop /\ cursor # 0
  <2>1. UNCHANGED <<event, clock, cursor, request>> /\ sse = "open" /\ sse' = "closed"
    BY <1>3, DropBase DEF db, server, page
  <2>2. e \in Queued => event[e].ts >= cursor
    <3>1. SUFFICES ASSUME NEW i \in Waiting, msg[i].event = e, e # 0
                   PROVE  event[e].ts >= cursor
      BY DEF Queued
    <3>2. i \in 1..sent /\ msg[i] \in Published
      BY <3>1, WaitingIsPublished
    <3>3. cursor <= msg[i].ts /\ event[e].ts = msg[i].ts
      BY <2>1, <3>1, <3>2 DEF Base, MessagesOK
    <3>4. cursor \in Nat /\ msg[i].ts \in Nat
      <4>1. msg[i].ts \in 1..clock /\ cursor \in 0..clock
        BY <3>2 DEF Base, TypeOK, Published
      <4>2. QED
        BY <4>1
    <3>5. QED
      BY <3>3, <3>4
  <2>3. QED
    BY <1>3, <2>1, <2>2 DEF OnTheWay, Stamp
<1>4. QED
  BY <1>1, <1>2, <1>3

LEMMA DeliverKeepsOnTheWay ==
  ASSUME Base, NEW n, NEW more, Delivered(n, more), ~lost' \/ ~blind',
         NEW e \in DOMAIN event, OnTheWay(e), e # msg[n].event
  PROVE  OnTheWay(e)'
<1>1. UNCHANGED <<event, clock, sse>> /\ sse = "open" /\ cursor' = msg[n].ts
  BY DEF Delivered, db, server
<1>2. e \in Queued => e \in Queued'
  BY DeliveredBase DEF Delivered
<1>3. Range(request) \subseteq Range(request')
  BY FreshJoinTheLine DEF Delivered, Asked, Base, PageOK
<1>4. (cursor # 0 /\ \E r \in Range(request) : r.kind = "catchup") => cursor' = cursor
  BY <1>1 DEF Delivered
<1>5. QED
  BY <1>1, <1>2, <1>3, <1>4 DEF OnTheWay, Stamp

LEMMA AnswerKeepsOnTheWay ==
  ASSUME Base, Answer, ~lost' \/ ~blind', NEW e \in DOMAIN event, OnTheWay(e)
  PROVE  OnTheWay(e)'
<1>1. request # <<>>
  BY DEF Answer
<1>2. \E r : /\ Read(r)
             /\ Now.kind = "catchup_events" /\ event[e].ts >= Now.from => e \in r.events
  <2>1. CASE ReadEvents
    <3>1. PICK r : Read(r) /\ (~(lost' /\ blind') => r.events = NotOlder(Now.from))
      BY <1>1, <2>1, ReadEventsRead
    <3>2. event[e].ts >= Now.from => e \in r.events
      BY <3>1 DEF NotOlder
    <3>3. QED
      BY <3>1, <3>2
  <2>2. CASE ReadHosts
    BY <1>1, <2>2, ReadHostsRead DEF Listing
  <2>3. CASE ReadRow
    BY <1>1, <2>3, ReadRowRead DEF Detail
  <2>4. CASE ReadPorts
    BY <1>1, <2>4, ReadPortsRead DEF Detail
  <2>5. CASE ReadIps
    BY <1>1, <2>5, ReadIpsRead DEF Detail
  <2>6. CASE ReadRecent
    BY <1>1, <2>6, ReadRecentRead DEF Detail
  <2>7. QED
    BY <2>1, <2>2, <2>3, <2>4, <2>5, <2>6 DEF Answer
<1>3. PICK r : /\ Read(r)
               /\ Now.kind = "catchup_events" /\ event[e].ts >= Now.from => e \in r.events
  BY <1>2
<1>4. r.kind = Now.kind /\ r.from = Now.from
      /\ UNCHANGED <<event, clock, msg, sent, taken, sse, cursor>>
  BY <1>3 DEF Read, Reads, db, server, bus
<1>5. Queued' = Queued
  BY <1>4 DEF Queued, Waiting
<1>6. Range(request) = {Now} \cup Range(Rest) /\ Range(request') = {r} \cup Range(Rest)
  <2>1. request' = <<r>> \o Rest /\ <<r>> \in Seq(Possible) /\ Rest \in Seq(Possible)
    BY <1>3, OldestRequest DEF Read, Reads
  <2>2. Range(request') = Range(<<r>>) \cup Range(Rest)
    BY <2>1, RangeConcatenation
  <2>3. Range(<<r>>) = {r}
    BY DEF Range
  <2>4. QED
    BY <1>1, <2>2, <2>3, OldestRequest
<1>7. (\E x \in Range(request) : x.kind = "catchup")
        => \E x \in Range(request') : x.kind = "catchup"
  BY <1>4, <1>6
<1>8. (\E x \in Range(request) : /\ x.kind = "catchup_events" /\ event[e].ts >= x.from
                                 /\ x.stage = "read" => e \in x.events)
        => (\E x \in Range(request') : /\ x.kind = "catchup_events" /\ event[e].ts >= x.from
                                       /\ x.stage = "read" => e \in x.events)
  BY <1>3, <1>4, <1>6
<1>9. QED
  BY <1>4, <1>5, <1>7, <1>8 DEF OnTheWay, Stamp

LEMMA HandleKeepsOnTheWay ==
  ASSUME Base, Handle, NEW e \in DOMAIN event, OnTheWay(e),
         HandleEvents => e \notin Now.events
  PROVE  OnTheWay(e)'
<1>1. request # <<>> /\ Now.stage = "read" /\ Rest \in Seq(Possible)
      /\ Range(request) = {Now} \cup Range(Rest)
      /\ UNCHANGED <<event, clock, msg, sent, taken, sse, cursor>>
  BY OldestRequest DEF Handle, db, server, bus
<1>2. Queued' = Queued
  BY <1>1 DEF Queued, Waiting
<1>3. CASE HandleHosts
  <2>1. PICK more : HostsHandled(more)
    BY <1>3, HandleHostsHandles
  <2>2. Range(request') = Range(Rest) \cup Range(more)
    BY <1>1, <2>1, FreshJoinTheLine DEF HostsHandled
  <2>3. Now.kind # "catchup_events"
    BY <2>1 DEF HostsHandled, Listing
  <2>4. CASE Now.kind = "catchup" /\ cursor # 0 /\ event[e].ts >= cursor
    <3>1. \E r \in Range(request') :
            r.kind = "catchup_events" /\ event[e].ts >= r.from /\ r.stage = "sent"
      BY <2>1, <2>2, <2>4 DEF HostsHandled
    <3>2. QED
      BY <1>1, <3>1 DEF OnTheWay
  <2>5. CASE ~(Now.kind = "catchup" /\ cursor # 0 /\ event[e].ts >= cursor)
    BY <1>1, <1>2, <2>2, <2>3, <2>5 DEF OnTheWay, Stamp
  <2>6. QED
    BY <2>4, <2>5
<1>4. CASE HandleEvents
  <2>1. PICK more : EventsHandled(more)
    BY <1>4, HandleEventsHandles
  <2>2. Range(request') = Range(Rest) \cup Range(more)
    BY <1>1, <2>1, FreshJoinTheLine DEF EventsHandled
  <2>3. Now.kind = "catchup_events"
    BY <2>1 DEF EventsHandled
  <2>4. QED
    BY <1>1, <1>2, <1>4, <2>2, <2>3 DEF OnTheWay, Stamp
<1>5. CASE HandleDetail
  <2>1. DetailHandled
    BY <1>5, HandleDetailHandles
  <2>2. request' = Rest /\ Now.kind \notin {"catchup", "catchup_events"}
    BY <2>1 DEF DetailHandled, Detail
  <2>3. QED
    BY <1>1, <1>2, <2>2 DEF OnTheWay, Stamp
<1>6. QED
  BY <1>3, <1>4, <1>5 DEF Handle

LEMMA FaultKeepsOnTheWay ==
  ASSUME Base, Overtaken \/ (RequestFails /\ ~lost') \/ (\E h \in 0..MaxHosts : Select(h))
                 \/ UNCHANGED vars,
         NEW e \in DOMAIN event, OnTheWay(e)
  PROVE  OnTheWay(e)'
<1>1. UNCHANGED <<event, clock, msg, sent, taken, sse, cursor>>
  BY DEF Overtaken, RequestFails, Select, vars, db, server, bus, page
<1>2. Queued' = Queued
  BY <1>1 DEF Queued, Waiting
<1>3. CASE Overtaken
  BY <1>1, <1>2, <1>3, OvertakenBase, QuietStep
<1>4. CASE RequestFails /\ ~lost'
  <2>1. request' = Rest /\ Now.kind \notin {"catchup", "catchup_events"} /\ request # <<>>
    BY <1>4 DEF RequestFails
  <2>2. Range(request) = {Now} \cup Range(request')
    BY <2>1, OldestRequest
  <2>3. QED
    BY <1>1, <1>2, <2>1, <2>2 DEF OnTheWay, Stamp
<1>5. ASSUME NEW h \in 0..MaxHosts, Select(h)
      PROVE  OnTheWay(e)'
  <2>1. PICK more : Asked(more)
    BY <1>5, SelectBase
  <2>2. Range(request) \subseteq Range(request')
    BY <2>1, FreshJoinTheLine DEF Asked, Base, PageOK
  <2>3. QED
    BY <1>1, <1>2, <2>2, QuietStep
<1>6. CASE UNCHANGED vars
  <2>1. request' = request
    BY <1>6 DEF vars, page
  <2>2. QED
    BY <1>1, <1>2, <2>1, QuietStep
<1>7. QED
  BY <1>3, <1>4, <1>5, <1>6

-----------------------------------------------------------------------------
(* The timeline: FirstMessage holds until a message has arrived, AllSince  *)
(* from then on.                                                           *)

(* What one step may do to the history, the timeline and the event table.  *)
LEMMA StepsOfTheTimeline ==
  ASSUME Base, [Next]_vars
  PROVE  /\ lost => lost'
         /\ shown \subseteq shown' \/ cursor = 0
         /\ since' = since \/ Deliver
         /\ DOMAIN event \subseteq DOMAIN event'
         /\ \A e \in DOMAIN event : event'[e] = event[e]
         /\ \A e \in DOMAIN event' \ DOMAIN event :
              InsertEvent /\ event'[e].ts = Stamp /\ Stamp' = Stamp
<1>1. CASE Announce \/ JobRaises \/ EndJob \/ CloseRaises
  BY <1>1 DEF Announce, JobRaises, EndJob, CloseRaises, Fails, db, page, history
<1>2. CASE InsertEvent
  BY <1>2, InsertEventBase DEF page, history, Stamp
<1>3. ASSUME NEW h \in Host, WriteRow(h) \/ WritePort(h)
      PROVE  UNCHANGED <<event, shown, since, lost>>
  BY <1>3 DEF WriteRow, WritePort, Writes, page, history
<1>4. CASE Boot \/ BootFails
  <2>1. cursor = 0
    BY <1>4 DEF Boot, BootFails, Base, PageOK
  <2>2. QED
    BY <1>4, <2>1, BootBase DEF db, history
<1>5. CASE Connect
  BY <1>5 DEF Connect, db
<1>6. CASE Drop
  BY <1>6 DEF Drop, db, page
<1>7. CASE Deliver
  <2>1. PICK n, more : Delivered(n, more)
    BY <1>7, DeliverDelivers
  <2>2. QED
    BY <1>7, <2>1 DEF Delivered, db
<1>8. CASE Answer
  <2>1. \E r : Read(r) /\ (lost => lost')
    BY <1>8, AnswerReads
  <2>2. QED
    BY <2>1 DEF Read, Reads, db
<1>9. CASE Handle
  <2>1. UNCHANGED <<event, since, lost>>
    BY <1>9 DEF Handle, db, history
  <2>2. shown \subseteq shown'
    BY <1>9 DEF Handle, HandleHosts, HandleEvents, HandleDetail
  <2>3. QED
    BY <2>1, <2>2
<1>10. CASE Overtaken
  BY <1>10 DEF Overtaken, db
<1>11. CASE RequestFails
  BY <1>11 DEF RequestFails, db
<1>12. ASSUME NEW h \in 0..MaxHosts, Select(h)
       PROVE  UNCHANGED <<event, shown, since, lost>>
  BY <1>12 DEF Select, db
<1>13. CASE UNCHANGED vars
  BY <1>13 DEF vars, db, page, history
<1>14. QED
  BY <1>1, <1>2, <1>3, <1>4, <1>5, <1>6, <1>7, <1>8, <1>9, <1>10, <1>11, <1>12,
     <1>13 DEF Next

LEMMA OnTheWayOrShown ==
  ASSUME Base, [Next]_vars, ~lost', cursor # 0, NEW e \in DOMAIN event, OnTheWay(e)
  PROVE  OnTheWay(e)' \/ e \in shown'
<1>1. Listening
  BY DEF Listening, Base, PageOK, TypeOK
<1>2. CASE Announce \/ InsertEvent \/ EndJob \/ CloseRaises
  BY <1>1, <1>2, ServerKeepsOnTheWay
<1>3. ASSUME NEW h \in Host, WriteRow(h) \/ WritePort(h)
      PROVE  OnTheWay(e)'
  BY <1>1, <1>3, ServerKeepsOnTheWay
<1>4. CASE Boot \/ BootFails \/ Connect \/ Drop
  BY <1>4, StreamKeepsOnTheWay
<1>5. CASE Deliver
  <2>1. PICK n, more : Delivered(n, more)
    BY <1>5, DeliverDelivers
  <2>2. CASE e = msg[n].event
    <3>1. e # 0
      BY LenProperties DEF Base, TypeOK
    <3>2. QED
      BY <2>1, <2>2, <3>1 DEF Delivered
  <2>3. CASE e # msg[n].event
    BY <2>1, <2>3, DeliverKeepsOnTheWay
  <2>4. QED
    BY <2>2, <2>3
<1>6. CASE Answer
  BY <1>6, AnswerKeepsOnTheWay
<1>7. CASE Handle
  <2>1. CASE HandleEvents /\ e \in Now.events
    BY <2>1 DEF HandleEvents
  <2>2. CASE ~(HandleEvents /\ e \in Now.events)
    BY <1>7, <2>2, HandleKeepsOnTheWay
  <2>3. QED
    BY <2>1, <2>2
<1>8. CASE Overtaken \/ RequestFails \/ UNCHANGED vars
  BY <1>8, FaultKeepsOnTheWay
<1>9. ASSUME NEW h \in 0..MaxHosts, Select(h)
      PROVE  OnTheWay(e)'
  BY <1>9, FaultKeepsOnTheWay
<1>10. CASE JobRaises
  BY <1>10 DEF JobRaises
<1>11. QED
  BY <1>2, <1>3, <1>4, <1>5, <1>6, <1>7, <1>8, <1>9, <1>10 DEF Next

(* The first message that arrives: all that is not older is queued too, or *)
(* will be published.                                                      *)
FirstMessage ==
  (~lost /\ since = 0 /\ sse = "open")
    => \A e \in DOMAIN event, i \in Waiting :
         event[e].ts >= msg[i].ts => event[e].ts = Stamp \/ e \in Queued

LEMMA ServerFirstMessage ==
  ASSUME Base, FirstMessage, ~lost', since = 0, sse' = "open",
         Announce \/ InsertEvent \/ EndJob \/ CloseRaises
           \/ \E h \in Host : WriteRow(h) \/ WritePort(h),
         NEW e \in DOMAIN event', NEW i \in Waiting', event'[e].ts >= msg'[i].ts
  PROVE  event'[e].ts = Stamp' \/ e \in Queued'
<1>1. CASE Announce \/ EndJob \/ CloseRaises
  <2> DEFINE over == EndJob \/ CloseRaises
  <2>0. over => Ends
    BY EndJobEnds, CloseRaisesEnds
  <2> HIDE DEF over
  <2>5. Announce \/ over
    BY <1>1 DEF over
  <2>1. UNCHANGED <<event, sse, lost>> /\ Queued \subseteq Queued'
    BY <2>0, <2>5, AnnounceBase, EndsBase DEF Announce, page, history
  <2>2. clock \in Nat /\ Stamp = clock + 1 /\ event[e].ts \in Nat
    <3>1. event \in Seq(Event) /\ e \in DOMAIN event /\ clock \in Nat
      BY <2>1 DEF Base, TypeOK
    <3>2. event[e] \in Event
      BY <3>1, LenProperties
    <3>3. QED
      BY <3>1, <3>2 DEF Event, Stamp
  <2>3. CASE event[e].ts = Stamp
    <3>1. over
      BY <2>5, <2>1, <2>3 DEF Announce, Base, TablesOK
    <3>2. e \in Queued'
      BY <2>0, <2>1, <2>3, <3>1, EndsBase DEF Own
    <3>3. QED
      BY <3>2
  <2>4. CASE event[e].ts # Stamp
    <3>1. event[e].ts <= clock
      BY <2>1, <2>2, <2>4 DEF Base, TablesOK
    <3>2. ~(msg'[i].ts \in clock + 1..clock')
      BY <2>1, <2>2, <3>1
    <3>3. i \in Waiting /\ msg'[i] = msg[i]
      BY <2>0, <2>5, <3>2, AnnounceBase, EndsBase
    <3>4. QED
      BY <2>1, <2>4, <3>3 DEF FirstMessage
  <2>6. QED
    BY <2>3, <2>4
<1>2. CASE InsertEvent
  <2>1. UNCHANGED <<msg, sent, taken, sse, lost>> /\ Queued' = Queued /\ Waiting' = Waiting
    BY <1>2, InsertEventBase DEF bus, history, Waiting
  <2>2. CASE e \in DOMAIN event
    <3>1. event'[e] = event[e] /\ Stamp' = Stamp
      BY <1>2, <2>2, InsertEventBase DEF Stamp
    <3>2. QED
      BY <2>1, <2>2, <3>1 DEF FirstMessage
  <2>3. CASE e \notin DOMAIN event
    BY <1>2, <2>3, StepsOfTheTimeline DEF Next
  <2>4. QED
    BY <2>2, <2>3
<1>3. ASSUME NEW h \in Host, WriteRow(h) \/ WritePort(h)
      PROVE  event'[e].ts = Stamp' \/ e \in Queued'
  <2>1. (\E kind : Wrote(h, kind)) \/ Rewrote(h)
    BY <1>3, WriteRowWrote, WritePortWrote
  <2>2. UNCHANGED <<event, clock, msg, sent, taken, sse, lost>> /\ Queued' = Queued
    BY <2>1, WroteBase, RewroteBase DEF Wrote, Rewrote, Altered, Writes, bus, history
  <2>3. QED
    BY <2>2 DEF FirstMessage, Waiting, Stamp
<1>4. QED
  BY <1>1, <1>2, <1>3

LEMMA FirstMessageStays ==
  ASSUME Base, FirstMessage, [Next]_vars
  PROVE  FirstMessage'
<1> SUFFICES ASSUME ~lost', since' = 0, sse' = "open",
                    NEW e \in DOMAIN event', NEW i \in Waiting', event'[e].ts >= msg'[i].ts
             PROVE  event'[e].ts = Stamp' \/ e \in Queued'
  BY DEF FirstMessage
<1>1. CASE Announce \/ InsertEvent \/ EndJob \/ CloseRaises
  <2>1. since = 0
    BY <1>1 DEF Announce, InsertEvent, EndJob, CloseRaises, Fails, history
  <2>2. QED
    BY <1>1, <2>1, ServerFirstMessage
<1>2. ASSUME NEW h \in Host, WriteRow(h) \/ WritePort(h)
      PROVE  event'[e].ts = Stamp' \/ e \in Queued'
  <2>1. since = 0
    BY <1>2 DEF WriteRow, WritePort, Writes, history
  <2>2. QED
    BY <1>2, <2>1, ServerFirstMessage
<1>3. CASE JobRaises
  BY <1>3 DEF JobRaises
<1>4. CASE Boot \/ BootFails \/ Drop
  BY <1>4, DropBase DEF Boot, BootFails
<1>5. CASE Connect
  BY <1>5, ConnectBase
<1>6. CASE Deliver
  <2>1. PICK n, more : Delivered(n, more)
    BY <1>6, DeliverDelivers
  <2>2. since' # 0
    <3>1. msg[n].ts \in Nat \ {0}
      BY <2>1, DeliveredBase
    <3>2. QED
      BY <2>1, <3>1 DEF Delivered
  <2>3. QED
    BY <2>2
<1>7. ASSUME UNCHANGED <<event, clock, msg, sent, taken, sse, since>>, lost => lost'
      PROVE  event'[e].ts = Stamp' \/ e \in Queued'
  BY <1>7 DEF FirstMessage, Queued, Waiting, Stamp
<1>8. CASE Answer
  <2>1. \E r : Read(r)
    BY <1>8, AnswerReads
  <2>2. QED
    BY <1>7, <2>1, StepsOfTheTimeline DEF Read, Reads, db, server, bus
<1>9. CASE Handle \/ Overtaken \/ RequestFails \/ UNCHANGED vars
  <2>1. UNCHANGED <<event, clock, msg, sent, taken, sse, since>>
    BY <1>9 DEF Handle, Overtaken, RequestFails, vars, db, server, bus, history
  <2>2. QED
    BY <1>7, <2>1, StepsOfTheTimeline
<1>10. ASSUME NEW h \in 0..MaxHosts, Select(h)
       PROVE  event'[e].ts = Stamp' \/ e \in Queued'
  BY <1>7, <1>10 DEF Select, db, server, bus
<1>11. QED
  BY <1>1, <1>2, <1>3, <1>4, <1>5, <1>6, <1>8, <1>9, <1>10 DEF Next

(* Everything since the first message is shown, or on the way.             *)
AllSince ==
  (~lost /\ since # 0)
    => \A e \in DOMAIN event : event[e].ts >= since => e \in shown \/ OnTheWay(e)

LEMMA AllSinceStays ==
  ASSUME Base, FirstMessage, AllSince, [Next]_vars
  PROVE  AllSince'
<1> SUFFICES ASSUME ~lost', since' # 0, NEW e \in DOMAIN event', event'[e].ts >= since'
             PROVE  e \in shown' \/ OnTheWay(e)'
  BY DEF AllSince
<1>1. CASE e \notin DOMAIN event
  <2>1. event'[e].ts = Stamp'
    BY <1>1, StepsOfTheTimeline
  <2>2. QED
    BY <2>1 DEF OnTheWay
<1>2. CASE e \in DOMAIN event /\ since # 0 /\ since' = since
  <2>1. ~lost /\ event'[e] = event[e] /\ cursor # 0 /\ shown \subseteq shown'
    BY <1>2, StepsOfTheTimeline DEF Base, PageOK
  <2>2. e \in shown \/ OnTheWay(e)
    BY <1>2, <2>1 DEF AllSince
  <2>3. QED
    BY <1>2, <2>1, <2>2, OnTheWayOrShown
<1>3. CASE e \in DOMAIN event /\ ~(since # 0 /\ since' = since)
  <2>1. Deliver
    BY <1>3, StepsOfTheTimeline
  <2>2. PICK n, more : Delivered(n, more)
    BY <2>1, DeliverDelivers
  <2>3. UNCHANGED <<event, clock>> /\ since = 0 /\ since' = msg[n].ts /\ sse = "open"
        /\ sse' = "open" /\ ~lost /\ n \in Waiting
    BY <1>3, <2>2 DEF Delivered, db, server
  <2>4. event[e].ts = Stamp \/ e \in Queued
    BY <1>3, <2>3 DEF FirstMessage
  <2>5. CASE e = msg[n].event
    <3>1. e # 0
      <4>1. event \in Seq(Event) /\ e \in DOMAIN event
        BY <1>3 DEF Base, TypeOK
      <4>2. QED
        BY <4>1, LenProperties
    <3>2. QED
      BY <2>2, <2>5, <3>1 DEF Delivered
  <2>6. CASE e # msg[n].event
    BY <1>3, <2>2, <2>3, <2>4, <2>6, DeliverKeepsOnTheWay DEF OnTheWay
  <2>7. QED
    BY <2>5, <2>6
<1>4. QED
  BY <1>1, <1>2, <1>3

(* CatchUpLosesNothing: whatever the connection did, the timeline has had  *)
(* every event since the first message that the tab received, as soon as   *)
(* the stream is up and the catch-up is through.                           *)
THEOREM TimelineIsComplete == Spec => []CatchUpLosesNothing
<1>1. Init => Base /\ FirstMessage /\ AllSince
  BY InitBase DEF Init, FirstMessage, AllSince
<1>2. Base /\ FirstMessage /\ AllSince /\ [Next]_vars => (Base /\ FirstMessage /\ AllSince)'
  BY BaseIsInductive, FirstMessageStays, AllSinceStays
<1>3. Base /\ FirstMessage /\ AllSince => CatchUpLosesNothing
  <2> SUFFICES ASSUME Base, AllSince, CaughtUp, ~lost, since # 0,
                      \A i \in DOMAIN request :
                        request[i].kind \notin {"catchup", "catchup_events"},
                      NEW e \in DOMAIN event, event[e].ts >= since
               PROVE  e \in shown
    BY DEF CatchUpLosesNothing
  <2>1. job.pc = "idle" /\ sse = "open" /\ taken[Tab] = sent
    BY DEF CaughtUp
  <2>2. e \notin Queued
    <3>1. Waiting = {}
      BY <2>1, WaitingIsPublished DEF Waiting
    <3>2. QED
      BY <3>1 DEF Queued
  <2>3. event[e].ts # Stamp
    BY <2>1 DEF Base, TablesOK
  <2>4. \A r \in Range(request) : r.kind \notin {"catchup", "catchup_events"}
    BY DEF Range
  <2>5. ~OnTheWay(e)
    BY <2>1, <2>2, <2>3, <2>4 DEF OnTheWay
  <2>6. QED
    BY <2>5 DEF AllSince
<1>4. QED
  BY <1>1, <1>2, <1>3, PTL DEF Spec

-----------------------------------------------------------------------------
(* DetailFresh is inductive.                                               *)

(* What tells of the selected host goes on to do so.                       *)
KeepsTelling == \A es : Tells(es, selected) => Tells(es, selected)'

LEMMA QuietTells ==
  ASSUME UNCHANGED <<event, selected>>
  PROVE  KeepsTelling
<1>1. EventsOf(selected)' = EventsOf(selected)
  BY DEF EventsOf
<1>2. ASSUME NEW es, Tells(es, selected)
      PROVE  Tells(es, selected)'
  <2>1. SUFFICES ASSUME NEW e \in EventsOf(selected),
                        event[e].kind # "host.new", e \notin es
                 PROVE  Cardinality({f \in EventsOf(selected) \ {e} :
                                       event'[f].ts >= event'[e].ts}) >= Recent
    BY <1>1 DEF Tells
  <2>2. {f \in EventsOf(selected) \ {e} : event'[f].ts >= event'[e].ts}
          = {f \in EventsOf(selected) \ {e} : event[f].ts >= event[e].ts}
    OBVIOUS
  <2>3. QED
    BY <1>2, <2>1, <2>2 DEF Tells
<1>3. QED
  BY <1>2 DEF KeepsTelling

LEMMA InsertTells ==
  ASSUME Base, InsertEvent, selected' = selected,
         \/ event'[Len(event')].host # selected
         \/ event'[Len(event')].kind = "host.new"
  PROVE  KeepsTelling
<1> DEFINE new == Len(event')
<1>1. /\ DOMAIN event = 1..Len(event) /\ Len(event) \in Nat
      /\ DOMAIN event' = DOMAIN event \cup {new}
      /\ \A e \in DOMAIN event : event'[e] = event[e]
  BY InsertEventBase, LenProperties DEF Base, TypeOK
<1> HIDE DEF new
<1>2. EventsOf(selected) \subseteq EventsOf(selected)'
      /\ EventsOf(selected)' \subseteq DOMAIN event'
      /\ EventsOf(selected) \subseteq DOMAIN event
  BY <1>1 DEF EventsOf
<1>3. IsFiniteSet(EventsOf(selected)')
  <2>1. DOMAIN event' \subseteq 1..Len(event) + 1
    <3>1. new = Len(event) + 1
      BY InsertEventBase DEF new
    <3>2. QED
      BY <1>1, <3>1
  <2>2. IsFiniteSet(1..Len(event) + 1)
    BY <1>1, FS_Interval
  <2>3. QED
    BY <1>2, <2>1, <2>2, FS_Subset
<1>4. ASSUME NEW es, Tells(es, selected)
      PROVE  Tells(es, selected)'
  <2>1. SUFFICES ASSUME NEW e \in EventsOf(selected)',
                        event'[e].kind # "host.new", e \notin es
                 PROVE  Cardinality({f \in EventsOf(selected)' \ {e} :
                                       event'[f].ts >= event'[e].ts}) >= Recent
    BY DEF Tells
  <2>2. e \in DOMAIN event' /\ event'[e].host = selected
    BY <2>1 DEF EventsOf
  <2>3. e \in DOMAIN event /\ event'[e] = event[e] /\ e \in EventsOf(selected)
    <3>1. e # new
      BY <2>1, <2>2 DEF new
    <3>2. e \in DOMAIN event
      BY <1>1, <2>2, <3>1
    <3>3. QED
      BY <1>1, <2>2, <3>2 DEF EventsOf
  <2> DEFINE old   == {f \in EventsOf(selected) \ {e} : event[f].ts >= event[e].ts}
             newer == {f \in EventsOf(selected)' \ {e} : event'[f].ts >= event'[e].ts}
  <2>4. Cardinality(old) >= Recent
    BY <1>4, <2>1, <2>3 DEF Tells
  <2>5. old \subseteq newer /\ newer \subseteq EventsOf(selected)'
    BY <1>1, <1>2, <2>3
  <2> HIDE DEF old, newer
  <2>6. IsFiniteSet(newer)
    BY <1>3, <2>5, FS_Subset
  <2>7. IsFiniteSet(old) /\ Cardinality(old) <= Cardinality(newer)
    BY <2>5, <2>6, FS_Subset
  <2>8. Cardinality(old) \in Nat /\ Cardinality(newer) \in Nat /\ Recent \in Nat
    BY <2>6, <2>7, FS_CardinalityType, LiveViewAssumption
  <2>9. Cardinality(newer) >= Recent
    BY <2>4, <2>7, <2>8
  <2>10. QED
    BY <2>9 DEF newer
<1>5. QED
  BY <1>4 DEF KeepsTelling

LEMMA PaneSetsStay ==
  ASSUME selected' = selected, told'[selected] = told[selected], KeepsTelling
  PROVE  /\ GoodPane \subseteq GoodPane'
         /\ CoversDetail \subseteq CoversDetail' /\ SparesDetail \subseteq SparesDetail'
<1>1. GoodPane \subseteq GoodPane'
  BY DEF GoodPane, NoOlder, KeepsTelling
<1>2. CoversDetail \subseteq CoversDetail'
  BY DEF CoversDetail
<1>3. \A r : AgreesDetail(r) => AgreesDetail(r)'
  BY DEF AgreesDetail, Agrees, KeepsTelling
<1>4. SparesDetail \subseteq SparesDetail'
  BY <1>3 DEF SparesDetail
<1>5. QED
  BY <1>1, <1>2, <1>4

LEMMA RedrawnStays ==
  ASSUME Redrawn, UNCHANGED <<detail, request, selected>>,
         told'[selected] = told[selected], KeepsTelling
  PROVE  Redrawn'
<1>1. Mended(detail, GoodPane', request, CoversDetail', SparesDetail')
  BY PaneSetsStay, MendedStays DEF Redrawn
<1>2. QED
  BY <1>1 DEF Redrawn

LEMMA RedrawnGrows ==
  ASSUME Base, NEW more, Asked(more), UNCHANGED <<detail, told, event, selected>>,
         Range(more) \subseteq SparesDetail,
         Redrawn \/ Range(more) \cap CoversDetail # {}
  PROVE  Redrawn'
<1>1. request \in Seq(Possible) /\ more \in Seq(Possible) /\ request' = request \o more
  BY FreshJoinTheLine DEF Base, PageOK, Asked
<1>2. Mended(detail, GoodPane, request \o more, CoversDetail, SparesDetail)
  BY <1>1, MendedGrows DEF Redrawn
<1>3. Mended(detail, GoodPane', request \o more, CoversDetail', SparesDetail')
  BY <1>2, QuietTells, PaneSetsStay, MendedStays
<1>4. QED
  BY <1>1, <1>3 DEF Redrawn

LEMMA RedrawnRead ==
  ASSUME Base, Redrawn, NEW r, Read(r), Now \in SparesDetail => r \in SparesDetail
  PROVE  Redrawn'
<1>1. request \in Seq(Possible) /\ request # <<>> /\ r \in Possible /\ r \in Request
      /\ request' = <<r>> \o Tail(request) /\ UNCHANGED <<detail, told, event, selected>>
  BY FreshIsPossible DEF Base, PageOK, Read, Reads, Rest, db
<1>2. Head(request) \in CoversDetail => r \in CoversDetail
  BY <1>1 DEF Read, CoversDetail, Now
<1>3. Mended(detail, GoodPane, <<r>> \o Tail(request), CoversDetail, SparesDetail)
  BY <1>1, <1>2, MendedRead DEF Redrawn, Now
<1>4. Mended(detail, GoodPane', <<r>> \o Tail(request), CoversDetail', SparesDetail')
  BY <1>1, <1>3, QuietTells, PaneSetsStay, MendedStays
<1>5. QED
  BY <1>1, <1>4 DEF Redrawn

LEMMA RedrawnHandled ==
  ASSUME Base, request # <<>>, UNCHANGED <<told, event, selected>>,
         NEW more \in Seq(Fresh), request' = Rest \o more, Range(more) \subseteq SparesDetail,
         \/ /\ Redrawn
            /\ Now \in SparesDetail /\ (detail \in GoodPane \/ Now \in CoversDetail)
                 => detail' \in GoodPane
         \/ Range(more) \cap CoversDetail # {}
  PROVE  Redrawn'
<1>1. request \in Seq(Possible) /\ Rest \in Seq(Possible) /\ more \in Seq(Possible)
  BY OldestRequest, FreshJoinTheLine DEF Base, PageOK
<1>2. \/ Mended(detail', GoodPane, Rest, CoversDetail, SparesDetail)
      \/ Range(more) \cap CoversDetail # {}
  BY <1>1, MendedHandled DEF Redrawn, Now, Rest
<1>3. Mended(detail', GoodPane, Rest \o more, CoversDetail, SparesDetail)
  BY <1>1, <1>2, MendedGrows
<1>4. Mended(detail', GoodPane', Rest \o more, CoversDetail', SparesDetail')
  BY <1>3, QuietTells, PaneSetsStay, MendedStays
<1>5. QED
  BY <1>4 DEF Redrawn

(* An event that concerns the pane.                                        *)
Concerns(e) == event[e].host = selected /\ event[e].kind # "host.new"

LEMMA AsksForSpare ==
  ASSUME Base, selected # 0, NEW e \in DOMAIN event
  PROVE  /\ AsksFor(e) \subseteq SparesDetail
         /\ Concerns(e) => AsksFor(e) \cap CoversDetail # {}
<1> DEFINE h == event[e].host
<1>1. event[e] \in Event
  <2>1. event \in Seq(Event) /\ e \in DOMAIN event
    BY DEF Base, TypeOK
  <2>2. QED
    BY <2>1, LenProperties
<1>2. h \in Host /\ h \in 0..MaxHosts /\ event[e].kind \in {"host.new", "ip.changed", "port"}
  BY <1>1, LiveViewAssumption DEF Event, Host
<1> HIDE DEF h
<1>3. \A kind \in {"new", "ip", "port", "merge"} :
        /\ Ask(kind, h) \in Fresh /\ Ask(kind, h) \in Request
        /\ Ask(kind, h).kind = kind /\ Ask(kind, h).host = h
        /\ Ask(kind, h).stage = "sent"
  <2>1. \A kind \in {"new", "ip", "port", "merge"} :
          Ask(kind, h) \in Fresh /\ Ask(kind, h).kind = kind /\ Ask(kind, h).host = h
    BY <1>2, AskIsFresh DEF Kind
  <2>2. QED
    BY <2>1, FreshIsPossible DEF Fresh
<1>4. Ask("new", h) \in SparesDetail /\ Ask("merge", h) \in SparesDetail
      /\ Ask("ip", h) \in SparesDetail
      /\ (h = selected => Ask("port", h) \in SparesDetail)
  BY <1>3 DEF SparesDetail, Detail
<1>5. h = selected => Ask("port", h) \in CoversDetail /\ Ask("ip", h) \in CoversDetail
  BY <1>3 DEF CoversDetail, Detail
<1>6. AsksFor(e) \subseteq SparesDetail
  BY <1>4 DEF AsksFor, h
<1>7. Concerns(e) => AsksFor(e) \cap CoversDetail # {}
  <2>1. SUFFICES ASSUME Concerns(e)
                 PROVE  AsksFor(e) \cap CoversDetail # {}
    OBVIOUS
  <2>2. Ask("port", h) \in AsksFor(e) \/ Ask("ip", h) \in AsksFor(e)
    BY <1>2, <2>1 DEF Concerns, AsksFor, h
  <2>3. QED
    BY <1>5, <2>1, <2>2 DEF Concerns, h
<1>8. QED
  BY <1>6, <1>7

(* Coming, with the event named.                                           *)
LEMMA ComingEvent ==
  ASSUME NEW e \in DOMAIN event', Concerns(e)', OnTheWay(e)'
  PROVE  Coming'
  BY DEF Coming, Concerns

LEMMA SelectedIsHost ==
  ASSUME Base, Watched
  PROVE  selected \in Host /\ host[selected].row # 0 /\ Listening
  BY LiveViewAssumption DEF Base, TypeOK, PageOK, Watched, Host, Listening

LEMMA ServerDetailFresh ==
  ASSUME Base, DetailFresh,
         Announce \/ JobRaises \/ InsertEvent \/ EndJob \/ CloseRaises
           \/ \E h \in Host : WriteRow(h) \/ WritePort(h)
  PROVE  DetailFresh'
<1> SUFFICES ASSUME Watched'
             PROVE  Coming' \/ Redrawn'
  BY DEF DetailFresh
<1>1. CASE JobRaises
  BY <1>1 DEF JobRaises, Watched
<1>2. ASSUME ~JobRaises
      PROVE  UNCHANGED <<selected, blind, sse, cursor, detail, request>> /\ Watched
  <2>1. UNCHANGED <<selected, blind, sse, cursor, detail, request>>
    BY <1>2 DEF Announce, InsertEvent, EndJob, CloseRaises, Fails, WriteRow, WritePort, Writes,
                page, history
  <2>2. QED
    BY <2>1 DEF Watched
<1>3. ASSUME ~JobRaises, NEW e \in DOMAIN event, Concerns(e), OnTheWay(e)
      PROVE  Coming'
  <2>1. OnTheWay(e)'
    BY <1>2, <1>3, SelectedIsHost, ServerKeepsOnTheWay
  <2>2. e \in DOMAIN event' /\ event'[e] = event[e]
    BY StepsOfTheTimeline DEF Next
  <2>3. Concerns(e)'
    BY <1>2, <1>3, <2>2 DEF Concerns
  <2>4. QED
    BY <2>1, <2>2, <2>3, ComingEvent
<1>4. ASSUME NEW i \in DOMAIN job.news,
             job.news[i].host = selected /\ job.news[i].kind # "host.new",
             ~JobRaises
      PROVE  Coming'
  <2>1. CASE Announce \/ EndJob \/ CloseRaises
    <3>1. DOMAIN job.news = {}
      BY <2>1 DEF Announce, EndJob, CloseRaises, Base, TablesOK
    <3>2. QED
      BY <1>4, <3>1
  <2>2. CASE InsertEvent
    <3>1. CASE i = 1
      <4>1. PICK e \in DOMAIN event' :
              event'[e] = job.news[1] /\ event'[e].ts = Stamp /\ Stamp' = Stamp
        BY <2>2, InsertEventBase DEF Stamp
      <4>2. Concerns(e)' /\ OnTheWay(e)'
        BY <1>2, <1>4, <3>1, <4>1 DEF Concerns, OnTheWay
      <4>3. QED
        BY <4>1, <4>2, ComingEvent
    <3>2. CASE i # 1
      <4>1. i - 1 \in DOMAIN job'.news /\ job'.news[i - 1] = job.news[i]
        BY <1>4, <2>2, <3>2, InsertEventBase
      <4>2. QED
        BY <1>2, <1>4, <4>1 DEF Coming
    <3>3. QED
      BY <3>1, <3>2
  <2>3. ASSUME NEW h \in Host, WriteRow(h) \/ WritePort(h)
        PROVE  Coming'
    <3>1. i \in DOMAIN job'.news /\ job'.news[i] = job.news[i]
      BY <1>4, <2>3, WriteRowWrote, WritePortWrote, WroteNews, RewroteBase
    <3>2. QED
      BY <1>2, <1>4, <3>1 DEF Coming
  <2>4. QED
    BY <1>4, <2>1, <2>2, <2>3
<1>5. Coming /\ ~JobRaises => Coming'
  BY <1>3, <1>4 DEF Coming, Concerns
<1>6. CASE Announce \/ EndJob \/ CloseRaises
  <2>1. UNCHANGED <<told, event>>
    BY <1>6 DEF Announce, EndJob, CloseRaises, Fails, db
  <2>2. ASSUME ~JobRaises
        PROVE  Coming' \/ Redrawn'
    BY <1>2, <1>5, <2>1, <2>2, QuietTells, RedrawnStays DEF DetailFresh
  <2>3. QED
    BY <1>1, <2>2
<1>7. CASE InsertEvent /\ ~JobRaises
  <2>1. PICK e \in DOMAIN event' :
          /\ e = Len(event') /\ event'[e].ts = Stamp /\ Stamp' = Stamp /\ told' = told
    BY <1>7, InsertEventBase DEF Stamp
  <2>2. CASE event'[e].host = selected /\ event'[e].kind # "host.new"
    <3>1. Concerns(e)' /\ OnTheWay(e)'
      BY <1>2, <1>7, <2>1, <2>2 DEF Concerns, OnTheWay
    <3>2. QED
      BY <2>1, <3>1, ComingEvent
  <2>3. CASE ~(event'[e].host = selected /\ event'[e].kind # "host.new")
    <3>1. KeepsTelling
      BY <1>2, <1>7, <2>1, <2>3, InsertTells
    <3>2. QED
      BY <1>2, <1>5, <1>7, <2>1, <3>1, RedrawnStays DEF DetailFresh
  <2>4. QED
    BY <2>2, <2>3
<1>8. ASSUME NEW h \in Host, WriteRow(h) \/ WritePort(h)
      PROVE  Coming' \/ Redrawn'
  <2>0. CASE Rewrote(h) /\ ~JobRaises
    <3>1. UNCHANGED <<told, event>>
      BY <2>0, RewroteBase
    <3>2. QED
      BY <1>2, <1>5, <2>0, <3>1, QuietTells, RedrawnStays DEF DetailFresh
  <2> SUFFICES ASSUME NEW kind, Wrote(h, kind), host[h].row # 0 => kind # "host.new"
               PROVE  Coming' \/ Redrawn'
    BY <1>1, <1>8, <2>0, WriteRowWrote, WritePortWrote
  <2>2. CASE h = selected /\ ~JobRaises
    <3> DEFINE last == Len(job'.news)
    <3>1. last \in DOMAIN job'.news /\ job'.news[last] = [ts |-> Stamp, host |-> h, kind |-> kind]
      BY WroteNews
    <3> HIDE DEF last
    <3>2. kind # "host.new"
      BY <1>2, <2>2, SelectedIsHost
    <3>3. job'.news[last].host = selected' /\ job'.news[last].kind # "host.new"
      BY <1>2, <2>2, <3>1, <3>2
    <3>4. QED
      BY <3>1, <3>3 DEF Coming
  <2>3. CASE h # selected /\ ~JobRaises
    <3>1. told'[selected] = told[selected] /\ event' = event
      BY <1>2, <2>3, SelectedIsHost, WroteBase DEF Wrote, Altered, Announced, Base, TypeOK
    <3>2. QED
      BY <1>2, <1>5, <2>3, <3>1, QuietTells, RedrawnStays DEF DetailFresh
  <2>4. QED
    BY <1>1, <2>2, <2>3
<1>9. QED
  BY <1>1, <1>6, <1>7, <1>8

LEMMA AnswerSparesDetail ==
  ASSUME Base, Answer, selected # 0
  PROVE  \E r : Read(r) /\ (Now \in SparesDetail => r \in SparesDetail)
<1>1. request # <<>> /\ Now \in Request
  BY OldestRequest DEF Answer
<1>0. selected \in Host
  BY LiveViewAssumption DEF Base, TypeOK, Host
<1>2. CASE ReadHosts
  <2>1. PICK r : Read(r) /\ Now.kind \in Listing
    BY <1>1, <1>2, ReadHostsRead
  <2>2. r \in SparesDetail
    BY <2>1, FreshIsPossible DEF Read, SparesDetail, Listing, Detail
  <2>3. QED
    BY <2>1, <2>2
<1>3. CASE ReadRow
  <2>1. PICK r : /\ Read(r) /\ Now.kind \in Detail /\ Now.host \in Host
                 /\ r.view[Now.host].row = host[Now.host].row /\ r.stage = "row"
    BY <1>1, <1>3, ReadRowRead
  <2>2. r \in Request /\ r.kind = Now.kind /\ r.host = Now.host
    BY <2>1, FreshIsPossible DEF Read
  <2>3. QED
    BY <1>0, <2>1, <2>2, TableIsNoOlder DEF SparesDetail, AgreesDetail, Agrees, NoOlder
<1>4. CASE ReadPorts
  <2>1. PICK r : /\ Read(r) /\ Now.kind \in Detail /\ Now.host \in Host
                 /\ Now.stage = "row"
                 /\ r.view[Now.host].row = Now.view[Now.host].row
                 /\ r.view[Now.host].ports = host[Now.host].ports /\ r.stage = "ports"
    BY <1>1, <1>4, ReadPortsRead
  <2>2. r \in Request /\ r.kind = Now.kind /\ r.host = Now.host
    BY <2>1, FreshIsPossible DEF Read
  <2>3. QED
    BY <1>0, <2>1, <2>2, TableIsNoOlder DEF SparesDetail, AgreesDetail, Agrees, NoOlder
<1>5. CASE ReadEvents
  <2>1. PICK r : Read(r) /\ Now.kind = "catchup_events"
    BY <1>1, <1>5, ReadEventsRead
  <2>2. r \in SparesDetail
    BY <2>1, FreshIsPossible DEF Read, SparesDetail, Detail
  <2>3. QED
    BY <2>1, <2>2
<1>6. CASE ReadIps
  <2>1. PICK r : /\ Read(r) /\ Now.kind \in Detail /\ Now.host \in Host
                 /\ Now.stage = "ports" /\ r.view = Now.view
                 /\ r.ips = host[Now.host].row /\ r.stage = "ips"
    BY <1>1, <1>6, ReadIpsRead
  <2>2. r \in Request /\ r.kind = Now.kind /\ r.host = Now.host
    BY <2>1, FreshIsPossible DEF Read
  <2>3. QED
    BY <1>0, <2>1, <2>2, TableIsNoOlder DEF SparesDetail, AgreesDetail, Agrees, NoOlder
<1>7. CASE ReadRecent
  <2>1. PICK r : /\ Read(r) /\ Now.kind \in Detail /\ Now.host \in Host
                 /\ Now.stage = "ips" /\ r.view = Now.view /\ r.ips = Now.ips
                 /\ r.stage = "read" /\ Tells(r.events, Now.host)
    BY <1>1, <1>7, ReadRecentRead
  <2>2. r \in Request /\ r.kind = Now.kind /\ r.host = Now.host
    BY <2>1, FreshIsPossible DEF Read
  <2>3. QED
    BY <2>1, <2>2 DEF SparesDetail, AgreesDetail, Agrees
<1>8. QED
  BY <1>2, <1>3, <1>4, <1>5, <1>6, <1>7 DEF Answer

(* What is handled in the pane, once it may be handled at all.             *)
LEMMA HandleDetailFresh ==
  ASSUME Base, Handle, Watched, Coming \/ Redrawn
  PROVE  Coming' \/ Redrawn'
<1>1. UNCHANGED <<told, event, job, clock, sse, cursor, selected>> /\ request # <<>>
      /\ Rest \in Seq(Possible)
  BY OldestRequest DEF Handle, db, server
<1>2. (\E i \in DOMAIN job.news : job.news[i].host = selected /\ job.news[i].kind # "host.new")
        => Coming'
  BY <1>1 DEF Coming
<1>3. ASSUME NEW e \in DOMAIN event, Concerns(e), OnTheWay(e),
             HandleEvents => e \notin Now.events
      PROVE  Coming'
  <2>1. OnTheWay(e)' /\ Concerns(e)' /\ e \in DOMAIN event'
    BY <1>1, <1>3, HandleKeepsOnTheWay DEF Concerns
  <2>2. QED
    BY <2>1, ComingEvent
<1>4. CASE HandleHosts
  <2>1. PICK more : HostsHandled(more)
    BY <1>4, HandleHostsHandles
  <2>2. ~HandleEvents
    BY <2>1 DEF HostsHandled, HandleEvents, Listing
  <2>3. Range(more) \subseteq SparesDetail
    <3>1. Range(more) \subseteq Fresh /\ Fresh \subseteq Request
      BY <1>1, <2>1, FreshJoinTheLine, FreshIsPossible DEF HostsHandled
    <3>2. \A r \in Range(more) : r \in Request /\ r.kind = "catchup_events"
      BY <2>1, <3>1 DEF HostsHandled
    <3>3. QED
      BY <3>2 DEF SparesDetail, Detail
  <2>4. Now \notin CoversDetail /\ detail' = detail /\ more \in Seq(Fresh) /\ request' = Rest \o more
    BY <2>1 DEF HostsHandled, CoversDetail, Listing, Detail
  <2>5. CASE Coming
    BY <1>2, <1>3, <2>2, <2>5 DEF Coming, Concerns
  <2>6. CASE Redrawn
    BY <1>1, <2>3, <2>4, <2>6, RedrawnHandled
  <2>7. QED
    BY <2>5, <2>6
<1>5. CASE HandleEvents
  <2>1. PICK more : EventsHandled(more)
    BY <1>5, HandleEventsHandles
  <2>2. /\ more \in Seq(Fresh) /\ request' = Rest \o more /\ detail' = detail
        /\ \A r : r \in Range(more) <=> \E e \in Now.events : r \in AsksFor(e)
    BY <2>1 DEF EventsHandled
  <2>3. Now.events \subseteq DOMAIN event
    BY <1>1, OldestRequest DEF Possible
  <2>4. Range(more) \subseteq SparesDetail
    BY <2>2, <2>3, AsksForSpare DEF Watched
  <2>5. Now \notin CoversDetail
    BY <2>1 DEF EventsHandled, CoversDetail, Detail
  <2>6. ASSUME NEW e \in DOMAIN event, Concerns(e), e \in Now.events
        PROVE  Redrawn'
    <3>1. AsksFor(e) \cap CoversDetail # {}
      BY <2>6, AsksForSpare DEF Watched
    <3>2. Range(more) \cap CoversDetail # {}
      BY <2>2, <2>6, <3>1
    <3>3. QED
      BY <1>1, <2>2, <2>4, <3>2, RedrawnHandled
  <2>7. CASE Redrawn
    BY <1>1, <2>2, <2>4, <2>5, <2>7, RedrawnHandled
  <2>8. CASE Coming
    BY <1>2, <1>3, <2>6, <2>8 DEF Coming, Concerns
  <2>9. QED
    BY <2>7, <2>8
<1>6. CASE HandleDetail
  <2>1. DetailHandled
    BY <1>6, HandleDetailHandles
  <2>2. ~HandleEvents
    BY <2>1 DEF DetailHandled, HandleEvents, Detail
  <2>3. CASE Coming
    BY <1>2, <1>3, <2>2, <2>3 DEF Coming, Concerns
  <2>4. CASE Redrawn
    <3>1. ASSUME Now \in SparesDetail, detail \in GoodPane \/ Now \in CoversDetail
          PROVE  detail' \in GoodPane
      <4>1. /\ detail' = IF Now.kind # "ip" \/ selected = Now.host THEN DetailOf(Now) ELSE detail
            /\ Now.kind \in Detail /\ Now.stage = "read" /\ Now.host \in Host
            /\ detail' \in Pane
        BY <2>1 DEF DetailHandled
      <4>2. CASE Now.host = selected
        <5>1. AgreesDetail(Now)
          BY <3>1, <4>1, <4>2 DEF SparesDetail
        <5>2. Now.view[selected] \in GoodHost(selected)
          BY <1>1, <4>1, <4>2, <5>1, AgreeingRow DEF AgreesDetail
        <5>3. /\ detail'.host = selected /\ detail'.row = Now.view[selected].row
              /\ detail'.ports = Now.view[selected].ports
              /\ detail'.ips = Now.ips /\ detail'.events = Now.events
          BY <4>1, <4>2 DEF DetailOf
        <5>4. NoOlder(detail', selected)
          BY <5>2, <5>3 DEF GoodHost, NoOlder
        <5>5. detail'.ips >= told[selected].row /\ Tells(detail'.events, selected)
          BY <4>1, <5>1, <5>3 DEF AgreesDetail
        <5>6. QED
          BY <4>1, <5>3, <5>4, <5>5 DEF GoodPane
      <4>3. CASE Now.host # selected
        <5>1. Now.kind = "ip" /\ Now \notin CoversDetail
          BY <3>1, <4>1, <4>3 DEF SparesDetail, CoversDetail
        <5>2. QED
          BY <3>1, <4>1, <4>3, <5>1
      <4>4. QED
        BY <4>2, <4>3
    <3>2. Rest = Rest \o <<>> /\ <<>> \in Seq(Fresh) /\ Range(<<>>) = {}
      BY <1>1, ConcatEmptySeq, EmptySeq DEF Range
    <3>3. request' = Rest \o <<>>
      BY <2>1, <3>2 DEF DetailHandled
    <3>4. QED
      BY <1>1, <2>4, <3>1, <3>2, <3>3, RedrawnHandled
  <2>5. QED
    BY <2>3, <2>4
<1>7. QED
  BY <1>4, <1>5, <1>6 DEF Handle

LEMMA DeliverDetailFresh ==
  ASSUME Base, NEW n, NEW more, Delivered(n, more), ~blind', Watched, Coming \/ Redrawn
  PROVE  Coming' \/ Redrawn'
<1> DEFINE e == msg[n].event
<1>1. UNCHANGED <<told, event, job, clock, selected, detail>> /\ Asked(more)
      /\ Range(more) = {r \in AsksFor(e) : e # 0} /\ n = taken[Tab] + 1
  BY DEF Delivered, db, server
<1>2. e # 0 => e \in DOMAIN event
  BY DeliveredBase
<1> HIDE DEF e
<1>3. Range(more) \subseteq SparesDetail
  BY <1>1, <1>2, AsksForSpare DEF Watched
<1>4. CASE Redrawn
  BY <1>1, <1>3, <1>4, RedrawnGrows
<1>5. CASE e # 0 /\ Concerns(e)
  <2>1. AsksFor(e) \cap CoversDetail # {}
    BY <1>2, <1>5, AsksForSpare DEF Watched
  <2>2. Range(more) \cap CoversDetail # {}
    BY <1>1, <1>5, <2>1
  <2>3. QED
    BY <1>1, <1>3, <2>2, RedrawnGrows
<1>6. ASSUME NEW f \in DOMAIN event, Concerns(f), OnTheWay(f), f # e
      PROVE  Coming'
  <2>1. OnTheWay(f)'
    BY <1>6, DeliverKeepsOnTheWay DEF e
  <2>2. f \in DOMAIN event' /\ Concerns(f)'
    BY <1>1, <1>6 DEF Concerns
  <2>3. QED
    BY <2>1, <2>2, ComingEvent
<1>7. ASSUME NEW f \in DOMAIN event, Concerns(f), f = e
      PROVE  Coming' \/ Redrawn'
  <2>1. f # 0
    <3>1. event \in Seq(Event) /\ f \in DOMAIN event
      BY DEF Base, TypeOK
    <3>2. QED
      BY <3>1, LenProperties
  <2>2. e # 0 /\ Concerns(e)
    BY <1>7, <2>1 DEF Concerns
  <2>3. QED
    BY <1>5, <2>2
<1>8. (\E i \in DOMAIN job.news : job.news[i].host = selected /\ job.news[i].kind # "host.new")
        => Coming'
  BY <1>1 DEF Coming
<1>9. CASE Coming
  BY <1>6, <1>7, <1>8, <1>9 DEF Coming, Concerns
<1>10. QED
  BY <1>4, <1>9

LEMMA PageDetailFresh ==
  ASSUME Base, DetailFresh,
         \/ Boot \/ BootFails \/ Connect \/ Drop \/ Deliver
         \/ Answer \/ Handle \/ Overtaken \/ RequestFails
         \/ \E h \in 0..MaxHosts : Select(h)
         \/ UNCHANGED vars
  PROVE  DetailFresh'
<1> SUFFICES ASSUME Watched'
             PROVE  Coming' \/ Redrawn'
  BY DEF DetailFresh
<1>1. CASE Boot \/ BootFails
  <2>1. selected' = 0
    BY <1>1, BootBase DEF Boot, BootFails, Base, PageOK
  <2>2. QED
    BY <2>1 DEF Watched
<1>2. ASSUME UNCHANGED <<event, job, selected>>,
             \A e \in DOMAIN event : OnTheWay(e) => OnTheWay(e)',
             Coming
      PROVE  Coming'
  BY <1>2 DEF Coming
<1>3. CASE Connect
  <2> DEFINE ask == Ask("catchup", 0)
  <2>1. UNCHANGED <<told, event, job, selected, detail>> /\ Asked(<<ask>>)
        /\ Range(<<ask>>) = {ask} /\ ask \in Fresh /\ ask.kind = "catchup"
    BY <1>3, ConnectBase DEF db, server
  <2>2. Watched
    BY <1>3, ConnectBase DEF Watched
  <2> HIDE DEF ask
  <2>3. Range(<<ask>>) \subseteq SparesDetail
    BY <2>1, FreshIsPossible DEF SparesDetail, Detail
  <2>4. \A e \in DOMAIN event : OnTheWay(e) => OnTheWay(e)'
    BY <1>3, StreamKeepsOnTheWay
  <2>5. QED
    BY <1>2, <2>1, <2>2, <2>3, <2>4, RedrawnGrows DEF DetailFresh
<1>4. CASE Drop
  <2>1. UNCHANGED <<told, event, job, selected, detail, request, cursor, blind>>
        /\ sse' = "closed" /\ sse = "open"
    BY <1>4, DropBase DEF db, server, page
  <2>2. Watched /\ cursor # 0
    BY <2>1 DEF Watched
  <2>3. \A e \in DOMAIN event : OnTheWay(e) => OnTheWay(e)'
    BY <1>4, <2>2, StreamKeepsOnTheWay
  <2>4. QED
    BY <1>2, <2>1, <2>2, <2>3, QuietTells, RedrawnStays DEF DetailFresh
<1>5. CASE Deliver
  <2>1. PICK n, more : Delivered(n, more)
    BY <1>5, DeliverDelivers
  <2>2. Watched /\ ~blind'
    BY <2>1 DEF Delivered, Watched
  <2>3. QED
    BY <2>1, <2>2, DeliverDetailFresh DEF DetailFresh
<1>6. CASE Answer
  <2>1. UNCHANGED <<told, event, job, selected, sse, cursor>> /\ (blind => blind')
    <3>1. \E r : Read(r) /\ (blind => blind')
      BY <1>6, AnswerReads
    <3>2. QED
      BY <3>1 DEF Read, Reads, db, server
  <2>2. Watched /\ ~blind' /\ selected # 0
    BY <2>1 DEF Watched
  <2>3. PICK r : Read(r) /\ (Now \in SparesDetail => r \in SparesDetail)
    BY <1>6, <2>2, AnswerSparesDetail
  <2>4. \A e \in DOMAIN event : OnTheWay(e) => OnTheWay(e)'
    BY <1>6, <2>2, AnswerKeepsOnTheWay
  <2>5. QED
    BY <1>2, <2>1, <2>2, <2>3, <2>4, RedrawnRead DEF DetailFresh
<1>7. CASE Handle
  <2>1. Watched
    BY <1>7 DEF Handle, Watched, history
  <2>2. QED
    BY <1>7, <2>1, HandleDetailFresh DEF DetailFresh
<1>8. CASE Overtaken \/ RequestFails
  BY <1>8 DEF Overtaken, RequestFails, Watched
<1>9. ASSUME NEW h \in 0..MaxHosts, Select(h)
      PROVE  Coming' \/ Redrawn'
  <2>1. selected' = h /\ h # 0
    BY <1>9, SelectBase DEF Watched
  <2>2. PICK more : Asked(more) /\ Range(more) = {Ask("select", h)}
                    /\ Ask("select", h).kind = "select" /\ Ask("select", h).host = h
    BY <1>9, <2>1, SelectBase
  <2> DEFINE ask == Ask("select", h)
  <2> HIDE DEF ask
  <2>3. /\ request \in Seq(Possible) /\ more \in Seq(Possible) /\ request' = request \o more
        /\ ask \in Fresh /\ ask \in Request
    BY <2>2, FreshJoinTheLine, FreshIsPossible DEF Asked, Base, PageOK, ask
  <2>4. ask \in SparesDetail' /\ ask \in CoversDetail'
    BY <2>1, <2>2, <2>3 DEF SparesDetail, CoversDetail, Detail, Fresh, ask
  <2>5. Range(more) \subseteq SparesDetail' /\ Range(more) \cap CoversDetail' # {}
    BY <2>2, <2>4 DEF ask
  <2>6. Mended(detail', GoodPane', request \o more, CoversDetail', SparesDetail')
    BY <2>3, <2>5, MendedGrows
  <2>7. QED
    BY <2>3, <2>6 DEF Redrawn
<1>10. CASE UNCHANGED vars
  <2>1. UNCHANGED <<told, event, job, selected, detail, request, sse, cursor, blind>>
    BY <1>10 DEF vars, db, server, page, history
  <2>2. Watched
    BY <2>1 DEF Watched
  <2>3. \A e \in DOMAIN event : OnTheWay(e) => OnTheWay(e)'
    BY <1>10, FaultKeepsOnTheWay
  <2>4. QED
    BY <1>2, <2>1, <2>2, <2>3, QuietTells, RedrawnStays DEF DetailFresh
<1>11. QED
  BY <1>1, <1>3, <1>4, <1>5, <1>6, <1>7, <1>8, <1>9, <1>10

(* DetailIsFresh: whatever was read before and after a change, the detail  *)
(* pane shows the host that is selected with every change of it that was   *)
(* announced and the events that announce them, once nothing is under way. *)
(* Excepted is what blind records since the last click: an answer was      *)
(* overtaken, cut off or failed, the queue overflowed, the cursor jumped,  *)
(* a scan raised before it published, or no message had come when the      *)
(* stream was opened again.                                                *)
THEOREM DetailShowsSelectedHost == Spec => []DetailIsFresh
<1>1. Init => Base /\ DetailFresh
  BY InitBase DEF Init, DetailFresh, Watched
<1>2. Base /\ DetailFresh /\ [Next]_vars => (Base /\ DetailFresh)'
  BY BaseIsInductive, ServerDetailFresh, PageDetailFresh DEF Next
<1>3. Base /\ DetailFresh => DetailIsFresh
  <2> SUFFICES ASSUME Base, DetailFresh, Settled, ~blind, selected # 0
               PROVE  detail \in GoodPane
    BY DEF DetailIsFresh, GoodPane
  <2>1. job.pc = "idle" /\ sse = "open" /\ taken[Tab] = sent /\ request = <<>>
    BY DEF Settled, CaughtUp
  <2>2. Queued = {}
    <3>1. Waiting = {}
      BY <2>1, WaitingIsPublished DEF Waiting
    <3>2. QED
      BY <3>1 DEF Queued
  <2>3. DOMAIN job.news = {} /\ \A e \in DOMAIN event : event[e].ts # Stamp
    BY <2>1 DEF Base, TablesOK
  <2>4. Range(request) = {}
    BY <2>1 DEF Range
  <2>5. ~Coming
    BY <2>1, <2>2, <2>3, <2>4 DEF Coming, OnTheWay
  <2>6. Len(request) = 0
    BY <2>1, EmptySeq
  <2>7. Redrawn
    BY <2>1, <2>5 DEF DetailFresh, Watched
  <2>8. QED
    BY <2>6, <2>7 DEF Redrawn, Mended
<1>4. QED
  BY <1>1, <1>2, <1>3, PTL DEF Spec
=============================================================================
