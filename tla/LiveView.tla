------------------------------- MODULE LiveView -------------------------------
(***************************************************************************)
(* One open browser tab on a server: scans write the tables and publish    *)
(* events, GET /stream carries them to the page, and the page of app.js    *)
(* reduces them and fetches hosts, host details and missed events.         *)
(*                                                                         *)
(* The event loop of the server runs the end of a scan (correlate and what *)
(* is published after it) without suspending, so the stream stands still   *)
(* meanwhile; the GET handlers run in worker threads and may read between  *)
(* any two of its statements.  The connection with its queue on the server *)
(* is a subscriber of the event bus: EventWindow says what it is promised. *)
(*                                                                         *)
(* The content of a row is a number that counts its changes, and so is a   *)
(* time stamp: 0 is no row and no time.  Not every change is announced by  *)
(* an event: told is what the tables said of a host when one was the last  *)
(* time.  Every answer is read from the tables at some time after it was   *)
(* asked for, and handled at some time after that, in the order of the     *)
(* requests unless one is overtaken.  Other processes do not write.        *)
(*                                                                         *)
(* An operator whose name starts with Faulty is the one after it with a    *)
(* bug planted; no action uses it.  It shows that a property would notice. *)
(***************************************************************************)
EXTENDS Naturals, FiniteSetsExt, SequencesExt, Lists

CONSTANTS
  Tab,         \* the one subscriber
  Size,        \* length of its queue
  Limit,       \* limit of a catch-up request
  Recent,      \* limit of the events in a host's detail
  MaxHosts,    \* bound: rows of the host table
  MaxNotices,  \* bound: scan.* messages that are not the end of a scan
  MaxChanges,  \* bound: those and the changes that scans find, together
  MaxRequests, \* bound: requests under way when a message or a click comes
  MaxDrops,    \* bound: connections that break
  MaxFaults,   \* bound: requests that fail, answers that overtake an older
               \* one, scans in which a statement raises
  MaxSelects   \* bound: clicks on a host or on the background

ASSUME LiveViewAssumption ==
  /\ Size \in Nat \ {0}
  /\ Limit \in Nat \ {0}
  /\ Recent \in Nat \ {0}
  /\ MaxHosts \in Nat
  /\ MaxNotices \in Nat
  /\ MaxChanges \in Nat
  /\ MaxRequests \in Nat
  /\ MaxDrops \in Nat
  /\ MaxFaults \in Nat
  /\ MaxSelects \in Nat

VARIABLES
  host,      \* the host table: [row, ports] of each id
  told,      \* history: the same, when a change of it was last announced
  event,     \* the event table
  notices,   \* scan.* messages so far
  clock,     \* time stamps taken so far
  job,       \* the end of a scan that is being executed
  msg,       \* what was published, in order
  sent, joined, taken,   \* the bus: see EventWindow
  sse,       \* the page: "new", "dead"; then its stream: "closed"
             \* (a timer is armed), "open"
  map,       \* State.hosts
  detail,    \* State.hostDetail
  selected,  \* State.selectedHostId, or 0
  shown,     \* events of the table that the timeline has had
  cursor,    \* State.lastEventTs, or 0
  request,   \* requests that are not handled yet, the oldest first
  drops, faults, selects,   \* faults and clicks so far
  since,     \* history: the first time stamp that the tab received
  lost,      \* history: an event may be lost to the timeline
  stale,     \* history: since the last onopen the map may have missed a change
  blind      \* history: since the last click the detail may have missed one

Window == INSTANCE EventWindow WITH Client <- {Tab}

db      == <<host, told, event>>
server  == <<notices, clock, job>>
bus     == <<msg, sent, joined, taken>>
page    == <<map, detail, selected, shown, cursor, request>>
budget  == <<drops, faults, selects>>
history == <<since, lost, stale, blind>>
vars    == <<db, server, bus, sse, page, budget, history>>

Host   == 1..MaxHosts
NoHost == [row |-> 0, ports |-> 0]
Empty  == [h \in Host |-> NoHost]

Event   == [ts : Nat, host : Host, kind : {"host.new", "ip.changed", "port"}]
Message == [ts : Nat, event : Nat]      \* event 0: one of the scan.* kinds

(* What a request is for.  The answer of a detail is read in four steps.   *)
Kind    == {"catchup", "catchup_events", "new", "merge", "ip", "port", "select"}
Listing == {"catchup", "new", "merge"}
Detail  == {"ip", "port", "select"}
Stage   == {"sent", "row", "ports", "ips", "read"}
Request == [kind : Kind, host : 0..MaxHosts, stage : Stage,
            view : [Host -> [row : Nat, ports : Nat]], ips : Nat,
            events : SUBSET Nat, from : Nat]

Ask(kind, h) == [kind |-> kind, host |-> h, stage |-> "sent", view |-> Empty,
                 ips |-> 0, events |-> {}, from |-> 0]

Pane     == [host : 0..MaxHosts, row : Nat, ports : Nat, ips : Nat,
             events : SUBSET Nat]
NoDetail == [host |-> 0, row |-> 0, ports |-> 0, ips |-> 0, events |-> {}]
NoJob    == [pc |-> "idle", news |-> <<>>]

TypeOK ==
  /\ host \in [Host -> [row : Nat, ports : Nat]]
  /\ told \in [Host -> [row : Nat, ports : Nat]]
  /\ event \in Seq(Event)
  /\ notices \in 0..MaxNotices
  /\ clock \in Nat
  /\ job \in [pc : {"idle", "write", "insert"}, news : Seq(Event)]
  /\ msg \in Seq(Message)
  /\ sent = Len(msg)
  /\ joined \subseteq {Tab}
  /\ taken \in [{Tab} -> 0..sent]
  /\ sse \in {"new", "dead", "closed", "open"}
  /\ joined = {Tab} <=> sse = "open"
  /\ map \in [Host -> [row : Nat, ports : Nat]]
  /\ detail \in Pane
  /\ selected \in 0..MaxHosts
  /\ shown \subseteq DOMAIN event
  /\ cursor \in 0..clock
  /\ request \in Seq(Request)
  /\ <<drops, faults, selects>>
       \in (0..MaxDrops) \X (0..MaxFaults) \X (0..MaxSelects)
  /\ since \in 0..clock
  /\ <<lost, stale, blind>> \in BOOLEAN \X BOOLEAN \X BOOLEAN

Init ==
  /\ host = Empty
  /\ told = Empty
  /\ event = <<>>
  /\ notices = 0
  /\ clock = 0
  /\ job = NoJob
  /\ msg = <<>>
  /\ Window!Init
  /\ sse = "new"
  /\ map = Empty
  /\ detail = NoDetail
  /\ selected = 0
  /\ shown = {}
  /\ cursor = 0
  /\ request = <<>>
  /\ drops = 0 /\ faults = 0 /\ selects = 0
  /\ since = 0
  /\ lost = FALSE /\ stale = FALSE /\ blind = FALSE

-----------------------------------------------------------------------------
(* The server.                                                             *)

(* publish, once for each message.                                         *)
Publishes(ms) ==
  /\ msg' = msg \o ms
  /\ sent' = sent + Len(ms)
  /\ UNCHANGED <<joined, taken>>

Changes == MapThenSumSet(LAMBDA h : host[h].row + host[h].ports, Host)

Notice(ts) == [ts |-> ts, event |-> 0]

(* A scan starts, is skipped or fails before it has written anything:      *)
(* scan.* messages are published, but are no rows of the event table.      *)
Announce ==
  /\ job.pc = "idle"
  /\ notices < MaxNotices
  /\ Changes + notices < MaxChanges
  /\ notices' = notices + 1
  /\ clock' = clock + 1
  /\ Publishes(<<Notice(clock')>>)
  /\ UNCHANGED <<db, job, sse, page, budget, history>>

(* correlate: one time stamp for all that it writes.                       *)
Stamp == clock + 1

Writes ==
  /\ job.pc \in {"idle", "write"}
  /\ Changes + notices < MaxChanges
  /\ UNCHANGED <<event, notices, clock, bus, sse, page, budget, history>>

(* What was written of a host will be announced, or not.                   *)
Announced(h, kind) ==
  /\ job' = [pc |-> "write",
             news |-> Append(job.news, [ts |-> Stamp, host |-> h, kind |-> kind])]
  /\ told' = [told EXCEPT ![h] = host'[h]]

Unannounced ==
  /\ job' = [job EXCEPT !.pc = "write"]
  /\ UNCHANGED told

(* A host row is written, and its address in host_ip; ids are given in     *)
(* order.  Of a row that is there only another address is announced: the   *)
(* name, vendor, MAC, system and last_seen are rewritten by every scan.    *)
WriteRow(h) ==
  /\ Writes
  /\ \A g \in Host : g < h => host[g].row # 0
  /\ host' = [host EXCEPT ![h].row = @ + 1]
  /\ \/ Announced(h, IF host[h].row = 0 THEN "host.new" ELSE "ip.changed")
     \/ host[h].row # 0 /\ Unannounced

(* A port of a host is opened or closed; or one that is open is written    *)
(* again, with its service and version.                                    *)
WritePort(h) ==
  /\ Writes
  /\ host[h].row # 0
  /\ host' = [host EXCEPT ![h].ports = @ + 1]
  /\ \/ Announced(h, "port")
     \/ host[h].ports # 0 /\ Unannounced

(* The events are inserted when all hosts are written.                     *)
InsertEvent ==
  /\ job.news # <<>>
  /\ event' = Append(event, Head(job.news))
  /\ job' = [pc |-> "insert", news |-> Tail(job.news)]
  /\ UNCHANGED <<host, told, notices, clock, bus, sse, page, budget, history>>

(* The events of the scan, in the order in which they were inserted.       *)
MyEvents ==
  {[k \in DOMAIN mine |-> [ts |-> Stamp, event |-> mine[k]]] :
     mine \in InOrder({e \in DOMAIN event : event[e].ts = Stamp})}

(* They are published, then scan.ok.                                       *)
EndJob ==
  /\ job.pc # "idle"
  /\ job.news = <<>>
  /\ job' = NoJob
  /\ clock' = Stamp
  /\ \E ms \in MyEvents : Publishes(ms \o <<Notice(Stamp)>>)
  /\ UNCHANGED <<db, notices, sse, page, budget, history>>

(* The except clause: scan.error has a time stamp of its own, and is not   *)
(* published if the row cannot be closed either.                           *)
Excuse == {<<Notice(Stamp + 1)>>, <<>>}

Fails ==
  /\ job.pc # "idle"
  /\ faults < MaxFaults
  /\ faults' = faults + 1
  /\ job' = NoJob
  /\ clock' = Stamp + 1
  /\ UNCHANGED <<db, notices, sse, page, drops, selects, since>>

(* A statement of correlate raises: what it wrote stays, its events are    *)
(* never published.                                                        *)
JobRaises ==
  /\ Fails
  /\ \E ms \in Excuse : Publishes(ms)
  /\ lost' = TRUE /\ stale' = TRUE /\ blind' = TRUE

(* A statement after correlate raises: its events have been published.     *)
CloseRaises ==
  /\ Fails
  /\ job.news = <<>>
  /\ \E mine \in MyEvents, ms \in Excuse : Publishes(mine \o ms)
  /\ UNCHANGED <<lost, stale, blind>>

-----------------------------------------------------------------------------
(* The GET handlers, in a worker thread.                                   *)
Now  == Head(request)
Rest == Tail(request)

Reads(r) ==
  /\ request' = <<r>> \o Rest
  /\ UNCHANGED <<db, server, bus, sse, map, detail, selected, shown, cursor, budget,
                 since, stale>>

(* list_host_summaries, get_host, list_ports, list_host_ips (which is     *)
(* written with the row), list_recent_events; no edge is ever written.     *)
Summaries   == host
RowOf(h)    == host[h].row
PortsOf(h)  == host[h].ports
IpsOf(h)    == host[h].row
EventsOf(h) == {e \in DOMAIN event : event[e].host = h}

(* GET /hosts: one statement.                                              *)
ReadHosts ==
  /\ Now.kind \in Listing
  /\ Now.stage = "sent"
  /\ Reads([Now EXCEPT !.stage = "read", !.view = Summaries])
  /\ UNCHANGED <<lost, blind>>

(* The newest n of a set of events: ORDER BY ts DESC LIMIT n.              *)
Newest(S, n) ==
  {T \in SUBSET S :
     /\ Cardinality(T) = (IF Cardinality(S) < n THEN Cardinality(S) ELSE n)
     /\ \A e \in T, f \in S \ T : event[f].ts <= event[e].ts}

(* GET /hosts/{id}: the row, the open ports, the history, the events.      *)
ReadDetail(stage, answer) ==
  /\ Now.kind \in Detail
  /\ Now.stage = stage
  /\ Reads(answer)
  /\ UNCHANGED <<lost, blind>>

ReadRow ==
  ReadDetail("sent", [Now EXCEPT !.stage = "row",
                                 !.view[Now.host].row = RowOf(Now.host)])

ReadPorts ==
  ReadDetail("row", [Now EXCEPT !.stage = "ports",
                                !.view[Now.host].ports = PortsOf(Now.host)])

ReadIps ==
  ReadDetail("ports", [Now EXCEPT !.stage = "ips", !.ips = IpsOf(Now.host)])

ReadRecent ==
  \E es \in Newest(EventsOf(Now.host), Recent) :
    ReadDetail("ips", [Now EXCEPT !.stage = "read", !.events = es])

(* GET /events: the newest of those that are not older than since.         *)
FaultyNotOlder(ts) == {e \in DOMAIN event : event[e].ts > ts}
NotOlder(ts) == {e \in DOMAIN event : event[e].ts >= ts}

ReadEvents ==
  /\ Now.kind = "catchup_events"
  /\ Now.stage = "sent"
  /\ LET found == NotOlder(Now.from)
         cut   == Cardinality(found) > Limit
     IN  /\ \E answer \in Newest(found, Limit) :
              Reads([Now EXCEPT !.stage = "read", !.events = answer])
         /\ lost' = (lost \/ cut)
         /\ blind' = (blind \/ cut)

-----------------------------------------------------------------------------
(* reduceEvent: which requests an event of the table leads to.             *)
FaultyAsks(e) ==          \* a port event refreshes only the map
  LET h == event[e].host IN
  CASE event[e].kind = "host.new"   -> <<Ask("new", h)>>
    [] event[e].kind = "ip.changed" -> <<Ask("ip", h)>>
    [] event[e].kind = "port"       -> <<Ask("merge", h)>>

Asks(e) ==
  LET h == event[e].host IN
  CASE event[e].kind = "host.new"   -> <<Ask("new", h)>>
    [] event[e].kind = "ip.changed" -> <<Ask("ip", h)>>
    [] event[e].kind = "port" ->
         (IF selected = h THEN <<Ask("port", h)>> ELSE <<>>) \o <<Ask("merge", h)>>

AllAsks(es) ==     \* for several events
  FlattenSeq([k \in DOMAIN es |-> Asks(es[k])])

(* bootstrap: the hosts and the newest events.  The page does nothing else *)
(* before it has both, and nothing ever if a request fails.                *)
Boot ==
  /\ sse = "new"
  /\ map' = Summaries
  /\ shown' \in Newest(DOMAIN event, Limit)
  /\ sse' = "closed"                     \* and connectSse is called
  /\ UNCHANGED <<db, server, bus, detail, selected, cursor, request, budget,
                 history>>

BootFails ==
  /\ sse = "new"
  /\ faults < MaxFaults
  /\ faults' = faults + 1
  /\ sse' = "dead"
  /\ UNCHANGED <<db, server, bus, page, drops, selects, history>>

(* connectSse, at once or when the timer fires: the server subscribes the  *)
(* tab before onopen, which catches up with hosts and then with events.    *)
FaultyCatchUp ==          \* only with events
  IF cursor = 0 THEN request
  ELSE Append(request, [Ask("catchup_events", 0) EXCEPT !.from = cursor])
CatchUp == Append(request, Ask("catchup", 0))

Connect ==
  /\ sse = "closed"
  /\ job.pc = "idle"
  /\ Window!Join(Tab)
  /\ sse' = "open"
  /\ request' = CatchUp
  /\ stale' = FALSE
  /\ blind' = (blind \/ (cursor = 0 /\ selected # 0))
  /\ UNCHANGED <<db, server, msg, map, detail, selected, shown, cursor,
                 budget, since, lost>>

FaultyErrorState == "dead"        \* no timer is armed
ErrorState == "closed"

FaultyDrop ==             \* the server keeps the subscriber
  /\ sse = "open"
  /\ drops < MaxDrops
  /\ drops' = drops + 1
  /\ sse' = ErrorState
  /\ UNCHANGED <<db, server, bus, page, faults, selects, history>>

(* onerror: the page closes the source and arms a timer.                   *)
Drop ==
  /\ sse = "open"
  /\ drops < MaxDrops
  /\ drops' = drops + 1
  /\ sse' = ErrorState
  /\ Window!Leave(Tab)
  /\ UNCHANGED <<db, server, msg, page, faults, selects, since, lost, stale,
                 blind>>

(* onmessage.                                                              *)
Deliver ==
  /\ sse = "open"
  /\ Len(request) < MaxRequests
  /\ Window!Take(Tab)
  /\ LET m     == msg[Window!NextFor(Tab)]
         skips == Window!NextFor(Tab) # taken[Tab] + 1
         \* The catch-up has not looked at the cursor yet.
         jumps == /\ cursor \notin {0, m.ts}
                  /\ \E i \in DOMAIN request : request[i].kind = "catchup"
     IN  /\ cursor' = m.ts
         /\ since' = IF since = 0 THEN m.ts ELSE since
         /\ shown' = shown \cup ({m.event} \ {0})
         /\ request' = request \o (IF m.event = 0 THEN <<>> ELSE Asks(m.event))
         /\ lost' = (lost \/ skips \/ jumps)
         /\ blind' = (blind \/ skips \/ jumps)
         /\ stale' = (stale \/ skips)
  /\ UNCHANGED <<db, server, msg, sse, map, detail, selected, budget>>

-----------------------------------------------------------------------------
(* What the page does with an answer.                                      *)
Merged(view) == [h \in Host |-> IF view[h].row = 0 THEN map[h] ELSE view[h]]

DetailOf(r) == [host |-> r.host, row |-> r.view[r.host].row,
                ports |-> r.view[r.host].ports, ips |-> r.ips, events |-> r.events]

HandleHosts ==
  /\ Now.kind \in Listing
  /\ map' = IF Now.kind = "merge" THEN Merged(Now.view) ELSE Now.view
  /\ request' = IF Now.kind = "catchup" /\ cursor # 0
                THEN Append(Rest, [Ask("catchup_events", 0) EXCEPT !.from = cursor])
                ELSE Rest
  /\ UNCHANGED <<detail, shown>>

HandleEvents ==
  /\ Now.kind = "catchup_events"
  /\ shown' = shown \cup Now.events
  /\ \E es \in InOrder(Now.events) : request' = Rest \o AllAsks(es)
  /\ UNCHANGED <<map, detail>>

HandleDetail ==
  /\ Now.kind \in Detail
  /\ map' = IF Now.kind = "ip" THEN [map EXCEPT ![Now.host] = Now.view[Now.host]]
            ELSE map
  /\ detail' = IF Now.kind # "ip" \/ selected = Now.host THEN DetailOf(Now) ELSE detail
  /\ request' = Rest
  /\ UNCHANGED shown

Handle ==
  /\ request # <<>>
  /\ Now.stage = "read"
  /\ HandleHosts \/ HandleEvents \/ HandleDetail
  /\ UNCHANGED <<db, server, bus, sse, selected, cursor, budget, history>>

(* The oldest request, answered or not, is overtaken by the next one.      *)
Overtaken ==
  /\ Len(request) > 1
  /\ faults < MaxFaults
  /\ faults' = faults + 1
  /\ request' = <<request[2], request[1]>> \o Tail(Rest)
  /\ stale' = TRUE
  /\ blind' = TRUE
  /\ UNCHANGED <<db, server, bus, sse, map, detail, selected, shown, cursor, drops,
                 selects, since, lost>>

(* A request fails; when it does makes no difference.                      *)
RequestFails ==
  /\ request # <<>>
  /\ Now.stage = "sent"
  /\ faults < MaxFaults
  /\ faults' = faults + 1
  /\ request' = Rest
  /\ lost' = (lost \/ Now.kind \in {"catchup", "catchup_events"})
  /\ stale' = TRUE
  /\ blind' = TRUE
  /\ UNCHANGED <<db, server, bus, sse, map, detail, selected, shown, cursor, drops,
                 selects, since>>

(* A click on a host of the graph, or on the background: 0.                *)
Select(h) ==
  /\ sse \in {"closed", "open"}
  /\ selects < MaxSelects
  /\ Len(request) < MaxRequests
  /\ selects' = selects + 1
  /\ h # selected
  /\ h \in {0} \cup {g \in Host : map[g].row # 0}
  /\ selected' = h
  /\ detail' = IF h = 0 THEN NoDetail ELSE detail
  /\ request' = IF h = 0 THEN request ELSE Append(request, Ask("select", h))
  /\ blind' = FALSE
  /\ UNCHANGED <<db, server, bus, sse, map, shown, cursor, drops, faults,
                 since, lost, stale>>

-----------------------------------------------------------------------------
Answer ==
  /\ request # <<>>
  /\ \/ ReadHosts \/ ReadEvents
     \/ ReadRow \/ ReadPorts \/ ReadIps \/ ReadRecent

Next ==
  \/ Announce \/ InsertEvent \/ EndJob \/ JobRaises \/ CloseRaises
  \/ \E h \in Host : WriteRow(h) \/ WritePort(h)
  \/ Boot \/ BootFails \/ Connect \/ Drop \/ Deliver
  \/ Answer \/ Handle \/ Overtaken \/ RequestFails
  \/ \E h \in 0..MaxHosts : Select(h)

(* A correlate that is under way goes on; the timer fires and the server   *)
(* accepts, what is queued and what is asked for arrives, in whatever      *)
(* order.  Connections break and requests fail only so many times.         *)
Fairness ==
  /\ WF_vars(InsertEvent \/ EndJob)
  /\ WF_vars(Boot \/ Connect \/ Deliver \/ Answer \/ Handle)

Spec == Init /\ [][Next]_vars /\ Fairness

-----------------------------------------------------------------------------
(* Properties.                                                             *)

CaughtUp == sse = "open" /\ taken[Tab] = sent /\ job.pc = "idle"
Settled  == CaughtUp /\ request = <<>>

(* What is known of a host is no older than the last change of it that was *)
(* announced.  The address and the open ports do not change without that.  *)
NoOlder(copy, h) == copy.row >= told[h].row /\ copy.ports >= told[h].ports

(* A list of events has those of a host, but for its host.new and for what *)
(* does not fit.                                                           *)
Tells(es, h) ==
  \A e \in EventsOf(h) :
    \/ event[e].kind = "host.new" \/ e \in es
    \/ Cardinality({f \in EventsOf(h) \ {e} : event[f].ts >= event[e].ts}) >= Recent

(* The catch-up path makes lost events recoverable: once the stream is     *)
(* open again and the catch-up is through, the timeline has had every      *)
(* event of the table since the first message the tab received, those of a *)
(* scan whose events came only partly included.  What may be lost for      *)
(* good: a message overwrote lastEventTs before the catch-up looked at it, *)
(* more events than Limit or than the queue holds, a failed request, a     *)
(* scan that raised before it had published its events.                    *)
CatchUpLosesNothing ==
  (/\ CaughtUp
   /\ ~lost
   /\ since # 0
   /\ \A i \in DOMAIN request : request[i].kind \notin {"catchup", "catchup_events"})
  => {e \in DOMAIN event : event[e].ts >= since} \subseteq shown

(* When nothing is under way, the map has every announced change of the    *)
(* host table, however often the connection broke and whatever was read    *)
(* between the statements of a scan: unless, since the last onopen, an     *)
(* answer was overtaken or failed, messages were dropped or a scan ended   *)
(* in the middle of its writes.  What no event tells of may be older.      *)
HostsAreFresh == (Settled /\ ~stale) => \A h \in Host : NoOlder(map[h], h)

(* When nothing is under way, the detail pane shows the host that is       *)
(* selected, with every announced change of its row, ports and addresses   *)
(* and the events that announced them, although its parts were read one    *)
(* after the other while a scan wrote.  What may be missed since the last  *)
(* click, is blind: an answer was overtaken, cut off or failed, messages   *)
(* were dropped or the cursor jumped, a scan ended in the middle of its    *)
(* writes, or the stream was opened again before a first message had come. *)
DetailIsFresh ==
  (Settled /\ ~blind /\ selected # 0) =>
    /\ detail.host = selected
    /\ NoOlder(detail, selected)
    /\ detail.ips >= told[selected].row
    /\ Tells(detail.events, selected)

(* In the end the stream is open and nothing is outstanding, whatever      *)
(* happened on the way, unless the page could not be set up: only that     *)
(* leaves it dead, never a stream that broke.  The map then has every      *)
(* announced change, or since the last onopen it was stale: see            *)
(* HostsAreFresh.                                                          *)
EventuallyCurrent ==
  <>[](IF sse = "dead" THEN drops = 0
       ELSE Settled /\ (stale \/ \A h \in Host : NoOlder(map[h], h)))
=============================================================================
