----------------------------- MODULE Correlation -----------------------------
(***************************************************************************)
(* correlate(): how the facts of one finished scan become host rows, open  *)
(* ports, snapshots and change events, statement by statement.             *)
(*                                                                         *)
(* The connection is in autocommit mode: only upsert_host runs in a        *)
(* transaction, every other statement commits by itself, and the events    *)
(* are inserted after the last host.  The server runs correlate without    *)
(* suspending, so its own calls do not overlap; `netmap scan` is another   *)
(* process on the same database file and may run at any time.              *)
(*                                                                         *)
(* A host row is one record with its host_ip addresses, its open ports (a  *)
(* port row that is not open is as good as none to this code) and its last *)
(* snapshot.  Names, vendors, systems and time stamps are left out.        *)
(*                                                                         *)
(* An operator whose name starts with Faulty is the one after it with a    *)
(* bug planted; no action uses it.  It shows that a property would notice. *)
(***************************************************************************)
EXTENDS Naturals, Sequences, FiniteSets

CONSTANTS
  Process,       \* processes that correlate: the server, a `netmap scan`
  Mac,           \* MAC addresses, as the scanners spell them
  Ip,            \* addresses
  Port,          \* (protocol, number) pairs
  NoMac,         \* the MAC of a host that was seen without one
  Observations,  \* sets of addresses that observed_subnets may cover
  MaxGroups,     \* bound: hosts of one scan
  MaxPortFacts,  \* bound: port facts of one host in one scan
  MaxScans,      \* bound: calls of correlate
  MaxFaults      \* bound: calls that are cut short

ASSUME CorrelationAssumption ==
  /\ NoMac \notin Mac
  /\ Observations \subseteq SUBSET Ip
  /\ MaxGroups \in Nat
  /\ MaxPortFacts \in Nat
  /\ MaxScans \in Nat
  /\ MaxFaults \in Nat

VARIABLES
  host,    \* the host table; the id of a row is its position
  event,   \* the event table
  call,    \* call[p]: the call of correlate that p is in, if any
  scans,   \* calls so far
  faults   \* calls cut short so far

vars == <<host, event, call, scans, faults>>

(* The facts of one host: the nmap parser only reports open ports, and it  *)
(* reports them again for every target of the scan that covers the host.   *)
Group == [mac : Mac \cup {NoMac}, ip : Ip,
          ports : UNION {[1..n -> Port] : n \in 0..MaxPortFacts}]

(* by_key: one group per (mac, ip) pair, in the order of the first fact.   *)
Batch == {b \in UNION {[1..n -> Group] : n \in 0..MaxGroups} :
            \A i, j \in DOMAIN b :
              b[i].mac = b[j].mac /\ b[i].ip = b[j].ip => i = j}

HostNew(h, ip)          == [kind |-> "host.new", host |-> h, what |-> ip]
IpChanged(h, old, new)  == [kind |-> "ip.changed", host |-> h, what |-> new,
                            old |-> old]
PortOpened(h, port)     == [kind |-> "port.opened", host |-> h, what |-> port]
PortClosed(h, port)     == [kind |-> "port.closed", host |-> h, what |-> port]

NoSnapshot == [ip |-> NoMac, open |-> {}]
Snapshot   == {NoSnapshot} \cup [ip : Ip, open : SUBSET Port]
Event      == [kind : {"host.new"}, host : Nat, what : Ip]
              \cup [kind : {"ip.changed"}, host : Nat, what : Ip, old : Ip]
              \cup [kind : {"port.opened", "port.closed"}, host : Nat, what : Port]
Host       == [mac : Mac \cup {NoMac}, ip : Ip, ips : SUBSET Ip,
               open : SUBSET Port, snap : Snapshot]

(* The local variables of a call.                                          *)
Call == [pc       : {"idle", "match_mac", "match_ip", "upsert", "reread",
                     "report", "ports", "close", "snapshot", "events"},
         todo     : Seq(Group),             \* the current host first
         observed : SUBSET Ip,
         found    : SUBSET [id : Nat, ip : Ip],  \* existing, if not None
         updated  : SUBSET [id : Nat, ip : Ip],  \* once upsert_host returned
         was      : SUBSET Port,            \* existing_open
         ports    : Seq(Port),              \* port facts not applied yet
         stale    : SUBSET Port,            \* ports to close
         snap     : Snapshot,
         log      : Seq(Event)]             \* events not inserted yet

Idle == [pc |-> "idle", todo |-> <<>>, observed |-> {}, found |-> {},
         updated |-> {}, was |-> {}, ports |-> <<>>, stale |-> {},
         snap |-> NoSnapshot, log |-> <<>>]

TypeOK ==
  /\ host \in Seq(Host)
  /\ event \in Seq(Event)
  /\ call \in [Process -> Call]
  /\ scans \in 0..MaxScans
  /\ faults \in Nat
  /\ \A p \in Process : /\ call[p].found \subseteq [id : DOMAIN host, ip : Ip]
                        /\ call[p].updated \subseteq [id : DOMAIN host, ip : Ip]
  /\ \A i \in DOMAIN event : event[i].host \in DOMAIN host

Init ==
  /\ host = <<>>
  /\ event = <<>>
  /\ call = [p \in Process |-> Idle]
  /\ scans = 0
  /\ faults = 0

-----------------------------------------------------------------------------
(* The two lookups that decide which row a host is.                        *)
ByMac(mac) == {h \in DOMAIN host : mac # NoMac /\ host[h].mac = mac}
FaultyBareAt(ip) == {h \in DOMAIN host : host[h].ip = ip}   \* with a MAC, too
BareAt(ip) == {h \in DOMAIN host : host[h].mac = NoMac /\ host[h].ip = ip}

FaultyIdentify(mac, ip) == ByMac(mac)                       \* no fallback
Identify(mac, ip) == IF ByMac(mac) # {} THEN ByMac(mac) ELSE BareAt(ip)

At(p, pc) == call[p].pc = pc
Now(p)    == Head(call[p].todo)

(* Facts have been collected and grouped: correlate is called.             *)
Begin(p) ==
  /\ At(p, "idle")
  /\ scans < MaxScans
  /\ scans' = scans + 1
  /\ \E b \in Batch, observed \in Observations :
       call' = [call EXCEPT ![p] =
                  [Idle EXCEPT !.pc = IF b = <<>> THEN "events" ELSE "match_mac",
                               !.todo = b, !.observed = observed]]
  /\ UNCHANGED <<host, event, faults>>

(* _find_existing_host: by MAC, then by address.                           *)
MatchMac(p) ==
  /\ At(p, "match_mac")
  /\ \/ /\ ByMac(Now(p).mac) = {}
        /\ call' = [call EXCEPT ![p].pc = "match_ip"]
     \/ \E h \in ByMac(Now(p).mac) :
          call' = [call EXCEPT ![p].pc = "upsert",
                               ![p].found = {[id |-> h, ip |-> host[h].ip]}]
  /\ UNCHANGED <<host, event, scans, faults>>

MatchIp(p) ==
  /\ At(p, "match_ip")
  /\ \/ /\ BareAt(Now(p).ip) = {}
        /\ call' = [call EXCEPT ![p].pc = "upsert"]
     \/ \E h \in BareAt(Now(p).ip) :
          call' = [call EXCEPT ![p].pc = "upsert",
                               ![p].found = {[id |-> h, ip |-> host[h].ip]}]
  /\ UNCHANGED <<host, event, scans, faults>>

(* The transaction of upsert_host.  It looks the row up again.  If another *)
(* process has written meanwhile it is refused: that is Abandon.           *)
FaultyNewId == Len(host)                   \* read before the insertion
NewId == Len(host) + 1

NewRow(mac, ip) == [mac |-> mac, ip |-> ip, ips |-> {ip}, open |-> {},
                    snap |-> NoSnapshot]

FaultyInsertHost(p) ==                     \* trusts the earlier lookup
  /\ At(p, "upsert")
  /\ call[p].found = {}
  /\ host' = Append(host, NewRow(Now(p).mac, Now(p).ip))
  /\ call' = [call EXCEPT ![p].pc = "report",
                          ![p].updated = {[id |-> NewId, ip |-> Now(p).ip]}]
  /\ UNCHANGED <<event, scans, faults>>

InsertHost(p) ==
  /\ At(p, "upsert")
  /\ Identify(Now(p).mac, Now(p).ip) = {}
  /\ host' = Append(host, NewRow(Now(p).mac, Now(p).ip))
  /\ call' = [call EXCEPT ![p].pc = "report",
                          ![p].updated = {[id |-> NewId, ip |-> Now(p).ip]}]
  /\ UNCHANGED <<event, scans, faults>>

FaultyNewIp(row, mac, ip) ==               \* host_ip is not touched
  [row EXCEPT !.mac = IF mac = NoMac THEN @ ELSE mac, !.ip = ip]
FaultyKeepMac(row, mac, ip) ==             \* a bare row stays bare
  [row EXCEPT !.ip = ip, !.ips = @ \cup {ip}]
Refresh(row, mac, ip) ==
  [row EXCEPT !.mac = IF mac = NoMac THEN @ ELSE mac, !.ip = ip,
              !.ips = @ \cup {ip}]

UpdateHost(p) ==
  /\ At(p, "upsert")
  /\ \E h \in Identify(Now(p).mac, Now(p).ip) :
       host' = [host EXCEPT ![h] = Refresh(@, Now(p).mac, Now(p).ip)]
  /\ call' = [call EXCEPT ![p].pc = "reread"]
  /\ UNCHANGED <<event, scans, faults>>

(* After the commit upsert_host reads the row again, by MAC or by address. *)
Reread(p) == IF Now(p).mac # NoMac THEN ByMac(Now(p).mac) ELSE BareAt(Now(p).ip)

ReadBack(p) ==
  /\ At(p, "reread")
  /\ \/ \E h \in Reread(p) :
          call' = [call EXCEPT ![p].pc = "report",
                     ![p].updated = {[id |-> h, ip |-> host[h].ip]}]
     \/ /\ Reread(p) = {}             \* AssertionError
        /\ call' = [call EXCEPT ![p] = Idle]
  /\ UNCHANGED <<host, event, scans, faults>>

-----------------------------------------------------------------------------
(* The rest of the turn of one host; h is its id, ip its updated address.  *)
News(p, h, ip) ==
  IF call[p].found = {} THEN <<HostNew(h, ip)>>
  ELSE IF \E f \in call[p].found : f.ip # ip
       THEN <<IpChanged(h, (CHOOSE f \in call[p].found : TRUE).ip, ip)>>
       ELSE <<>>

(* The identity event, then the ports that were open before the scan.      *)
Report(p) ==
  /\ At(p, "report")
  /\ \E u \in call[p].updated :
       call' = [call EXCEPT ![p].pc = "ports",
                  ![p].log = @ \o News(p, u.id, u.ip),
                  ![p].was = host[u.id].open,
                  ![p].ports = Now(p).ports]
  /\ UNCHANGED <<host, event, scans, faults>>

UpsertPort(p) ==
  /\ At(p, "ports")
  /\ call[p].ports # <<>>
  /\ \E u \in call[p].updated : LET port == Head(call[p].ports) IN
       /\ host' = [host EXCEPT ![u.id].open = @ \cup {port}]
       /\ call' = [call EXCEPT ![p].ports = Tail(@),
                     ![p].log = IF port \in call[p].was THEN @
                                ELSE Append(@, PortOpened(u.id, port))]
  /\ UNCHANGED <<event, scans, faults>>

Seen(p) == {Now(p).ports[i] : i \in DOMAIN Now(p).ports}

(* Only where the scan probed for ports does their absence mean anything.  *)
FindStale(p) ==
  /\ At(p, "ports")
  /\ call[p].ports = <<>>
  /\ \E u \in call[p].updated :
       call' = [call EXCEPT ![p].pc = "close",
                  ![p].stale = IF u.ip \in call[p].observed
                               THEN host[u.id].open \ Seen(p) ELSE {}]
  /\ UNCHANGED <<host, event, scans, faults>>

FaultyClosePort(p) ==                      \* no event
  /\ At(p, "close")
  /\ \E u \in call[p].updated, port \in call[p].stale :
       /\ host' = [host EXCEPT ![u.id].open = @ \ {port}]
       /\ call' = [call EXCEPT ![p].stale = @ \ {port}]
  /\ UNCHANGED <<event, scans, faults>>

ClosePort(p) ==
  /\ At(p, "close")
  /\ \E u \in call[p].updated, port \in call[p].stale :
       /\ host' = [host EXCEPT ![u.id].open = @ \ {port}]
       /\ call' = [call EXCEPT ![p].stale = @ \ {port},
                     ![p].log = Append(@, PortClosed(u.id, port))]
  /\ UNCHANGED <<event, scans, faults>>

FaultyReadPorts(p) ==                      \* the ports before the scan
  /\ At(p, "close")
  /\ call[p].stale = {}
  /\ \E u \in call[p].updated :
       call' = [call EXCEPT ![p].pc = "snapshot",
                  ![p].snap = [ip |-> u.ip, open |-> call[p].was]]
  /\ UNCHANGED <<host, event, scans, faults>>

(* The ports that go into the snapshot, then the snapshot.                 *)
ReadPorts(p) ==
  /\ At(p, "close")
  /\ call[p].stale = {}
  /\ \E u \in call[p].updated :
       call' = [call EXCEPT ![p].pc = "snapshot",
                  ![p].snap = [ip |-> u.ip, open |-> host[u.id].open]]
  /\ UNCHANGED <<host, event, scans, faults>>

InsertSnapshot(p) ==
  /\ At(p, "snapshot")
  /\ \E u \in call[p].updated :
       host' = [host EXCEPT ![u.id].snap = call[p].snap]
  /\ LET rest == Tail(call[p].todo) IN
       call' = [call EXCEPT ![p] =
                  [Idle EXCEPT !.pc = IF rest = <<>> THEN "events" ELSE "match_mac",
                               !.todo = rest, !.observed = call[p].observed,
                               !.log = call[p].log]]
  /\ UNCHANGED <<event, scans, faults>>

InsertEvent(p) ==
  /\ At(p, "events")
  /\ call[p].log # <<>>
  /\ event' = Append(event, Head(call[p].log))
  /\ call' = [call EXCEPT ![p].log = Tail(@)]
  /\ UNCHANGED <<host, scans, faults>>

Return(p) ==
  /\ At(p, "events")
  /\ call[p].log = <<>>
  /\ call' = [call EXCEPT ![p] = Idle]
  /\ UNCHANGED <<host, event, scans, faults>>

(* A statement raises (a lock held by another process, a full disk), or    *)
(* the process is killed: what was only in memory, the events, is gone.    *)
Abandon(p) ==
  /\ ~At(p, "idle")
  /\ faults < MaxFaults
  /\ faults' = faults + 1
  /\ call' = [call EXCEPT ![p] = Idle]
  /\ UNCHANGED <<host, event, scans>>

Next ==
  \E p \in Process :
    \/ Begin(p) \/ MatchMac(p) \/ MatchIp(p) \/ InsertHost(p) \/ UpdateHost(p)
    \/ ReadBack(p) \/ Report(p) \/ UpsertPort(p) \/ FindStale(p)
    \/ ClosePort(p) \/ ReadPorts(p) \/ InsertSnapshot(p) \/ InsertEvent(p)
    \/ Return(p) \/ Abandon(p)

Spec == Init /\ [][Next]_vars

-----------------------------------------------------------------------------
(* Properties.                                                             *)

(* A MAC address names one row, whatever the processes do: the UPDATE that *)
(* gives a bare row its MAC can never trip over the unique index.          *)
OneRowPerMac ==
  \A g, h \in DOMAIN host :
    host[g].mac = host[h].mac /\ host[g].mac # NoMac => g = h

(* There is at most one row without a MAC at an address.  No index sees to *)
(* it, but _find_host_by_ip takes whichever row comes first.               *)
OneBareRowPerIp ==
  \A g, h \in DOMAIN host :
    (host[g].mac = NoMac /\ host[h].mac = NoMac /\ host[g].ip = host[h].ip)
      => g = h

(* host_ip is the address history: it holds the primary address of its     *)
(* host, the one of its last snapshot and every one an event speaks of.    *)
HistoryIsComplete ==
  /\ \A h \in DOMAIN host :
       /\ host[h].ip \in host[h].ips
       /\ host[h].snap # NoSnapshot => host[h].snap.ip \in host[h].ips
  /\ \A i \in DOMAIN event :
       event[i].kind \in {"host.new", "ip.changed"}
         => event[i].what \in host[event[i].host].ips

(* A row keeps its identity: it is never deleted, a MAC that is known is   *)
(* never lost or exchanged, a row without one stays at its address, and    *)
(* addresses are only added to the history.                                *)
IdentityIsStable ==
  [][\A h \in DOMAIN host :
       /\ h \in DOMAIN host'
       /\ host[h].mac # NoMac => host'[h].mac = host[h].mac
       /\ host[h].mac = NoMac => host'[h].ip = host[h].ip
       /\ host[h].ips \subseteq host'[h].ips]_vars

(* "assert result is not None": upsert_host finds the row it has written.  *)
RereadFinds == \A p \in Process : At(p, "reread") => Reread(p) # {}

Quiet == \A p \in Process : At(p, "idle")

(* The events of a host that are of the given kinds, and the last of them. *)
Told(h, kinds) ==
  {i \in DOMAIN event : event[i].host = h /\ event[i].kind \in kinds}
LastIs(S, P(_)) == \E i \in S : P(event[i]) /\ \A j \in S : j <= i

(* Between scans the event log tells the whole story of the tables: every  *)
(* host was announced once, its last address event names its address, and  *)
(* a port is open exactly if the last event about it says so.              *)
LogMatchesTables ==
  \A h \in DOMAIN host :
    /\ Cardinality(Told(h, {"host.new"})) = 1
    /\ LastIs(Told(h, {"host.new", "ip.changed"}),
              LAMBDA e : e.what = host[h].ip)
    /\ \A port \in Port :
         LET S == {i \in Told(h, {"port.opened", "port.closed"}) :
                     event[i].what = port}
         IN  port \in host[h].open <=> LastIs(S, LAMBDA e : e.kind = "port.opened")

LogTellsAll == (Quiet /\ faults = 0) => LogMatchesTables

(* Between scans the last snapshot of a host shows its open ports and its  *)
(* address as they are.                                                    *)
SnapshotIsCurrent ==
  (Quiet /\ faults = 0)
    => \A h \in DOMAIN host :
         host[h].snap = [ip |-> host[h].ip, open |-> host[h].open]

-----------------------------------------------------------------------------
(* What the documents say and the code does not do.                        *)

(* "If a MAC-less host with the same primary_ip already exists and h       *)
(* carries a MAC, the two records are merged": none of them is left.       *)
MergedOnMac ==
  [][\A p \in Process :
       (At(p, "upsert") /\ call'[p].pc \in {"reread", "report"}
          /\ Now(p).mac # NoMac)
         => \A h \in DOMAIN host' :
              ~(host'[h].mac = NoMac /\ host'[h].ip = Now(p).ip)]_vars

(* "scan progress is written transactionally per host; an interrupted scan *)
(* leaves the DB consistent": tables and event log agree, even then.       *)
InterruptedIsConsistent == Quiet => LogMatchesTables
=============================================================================
