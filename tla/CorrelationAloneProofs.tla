--------------------------- MODULE CorrelationAloneProofs ---------------------------
(***************************************************************************)
(* What holds of Correlation while one process correlates: upsert_host     *)
(* reads back the row it has written, and between the scans the last       *)
(* snapshot of every row is up to date and the event log tells the tables. *)
(* All three fail for two processes.                                       *)
(***************************************************************************)
EXTENDS CorrelationProofs, FiniteSetTheorems

(* What upsert_host has just written is what it reads back, as long as     *)
(* nobody else writes between the two.                                     *)
LEMMA RefreshedIsFound ==
  ASSUME Inv, NEW p \in Process, UpdateHost(p)
  PROVE  \E k \in Reread(p)' :
           /\ k \in Identify(Now(p).mac, Now(p).ip)
           /\ DOMAIN host' = DOMAIN host /\ host'[k].open = host[k].open
           /\ \A h \in DOMAIN host \ {k} : host'[h] = host[h]
<1> DEFINE mac == Now(p).mac
           ip  == Now(p).ip
<1>1. PICK k \in Identify(mac, ip) :
        /\ k \in DOMAIN host
        /\ host' = [host EXCEPT ![k] = Refresh(host[k], mac, ip)]
        /\ Refresh(host[k], mac, ip) \in Host
  BY UpdateHostKeeps
<1> DEFINE row == Refresh(host[k], mac, ip)
<1>2. host \in Seq(Host) /\ DOMAIN host = 1..Len(host) /\ host[k] \in Host
  BY <1>1, CallFields
<1>3. /\ row.mac = IF mac = NoMac THEN host[k].mac ELSE mac
      /\ row.ip = ip /\ row.open = host[k].open
  BY <1>2 DEF Refresh, Host
<1>4. k \in DOMAIN host' /\ host'[k] = row
  <2> HIDE DEF mac, ip
  <2>1. QED
    BY <1>1, <1>2
<1>5. mac = NoMac => host[k].mac = NoMac
  BY <1>1 DEF Identify, ByMac, BareAt
<1>6. Now(p)' = Now(p)
  <2>1. call' = [call EXCEPT ![p] = [call[p] EXCEPT !.pc = "reread"]]
    BY DEF UpdateHost
  <2>2. call \in [Process -> Call] /\ call[p] \in Call
    BY DEF Inv, TypeOK
  <2>3. call'[p].todo = call[p].todo
    BY <2>1, <2>2 DEF Call
  <2>4. QED
    BY <2>3 DEF Now
<1>7. Now(p)'.mac = mac /\ Now(p)'.ip = ip
  BY <1>6
<1>8. k \in Identify(Now(p).mac, Now(p).ip)
  BY <1>1
<1> HIDE DEF mac, ip, row
<1>9. Reread(p)' = IF Now(p)'.mac # NoMac
                   THEN {h \in DOMAIN host' : Now(p)'.mac # NoMac
                                              /\ host'[h].mac = Now(p)'.mac}
                   ELSE {h \in DOMAIN host' : host'[h].mac = NoMac
                                              /\ host'[h].ip = Now(p)'.ip}
  BY DEF Reread, ByMac, BareAt
<1>10. k \in Reread(p)'
  BY <1>3, <1>4, <1>5, <1>7, <1>9
<1>11. /\ DOMAIN host' = DOMAIN host /\ host'[k].open = host[k].open
       /\ \A h \in DOMAIN host \ {k} : host'[h] = host[h]
  BY <1>1, <1>2, <1>3, <1>4
<1>12. QED
  BY <1>8, <1>10, <1>11

(* Only the transaction leads to the read.                                 *)
LEMMA OthersDoNotReread ==
  ASSUME Inv, NEW p \in Process,
         \/ Begin(p) \/ MatchMac(p) \/ MatchIp(p) \/ InsertHost(p) \/ ReadBack(p)
         \/ Report(p) \/ UpsertPort(p) \/ FindStale(p) \/ ClosePort(p)
         \/ ReadPorts(p) \/ InsertSnapshot(p) \/ InsertEvent(p) \/ Return(p)
         \/ Abandon(p)
  PROVE  call'[p].pc # "reread"
<1>1. call \in [Process -> Call] /\ call[p] \in Call /\ Idle.pc = "idle"
  BY DEF Inv, TypeOK, Idle
<1>2. CASE Begin(p)
  BY <1>1, <1>2 DEF Begin, Idle
<1>3. CASE MatchMac(p) \/ MatchIp(p) \/ InsertHost(p)
  BY <1>1, <1>3 DEF MatchMac, MatchIp, InsertHost, Call
<1>4. CASE ReadBack(p)
  BY <1>1, <1>4 DEF ReadBack, Call
<1>5. CASE Report(p) \/ FindStale(p) \/ ReadPorts(p)
  <2>1. CASE Report(p)
    <3>1. PICK u \in call[p].updated :
            call' = [call EXCEPT ![p] =
                       [call[p] EXCEPT !.pc = "ports",
                          !.log = call[p].log \o News(p, u.id, u.ip),
                          !.was = host[u.id].open, !.ports = Now(p).ports]]
      BY <2>1 DEF Report
    <3> DEFINE log   == call[p].log \o News(p, u.id, u.ip)
               was   == host[u.id].open
               ports == Now(p).ports
               c     == [call[p] EXCEPT !.pc = "ports", !.log = log, !.was = was,
                                        !.ports = ports]
    <3>2. call' = [call EXCEPT ![p] = c]
      BY <3>1
    <3>3. c.pc = "ports"
      <4> HIDE DEF log, was, ports
      <4>1. QED
        BY <1>1 DEF Call
    <3> HIDE DEF c
    <3>4. QED
      BY <1>1, <3>2, <3>3
  <2>2. CASE FindStale(p)
    BY <1>1, <2>2 DEF FindStale, Call
  <2>3. CASE ReadPorts(p)
    BY <1>1, <2>3 DEF ReadPorts, Call
  <2>4. QED
    BY <1>5, <2>1, <2>2, <2>3
<1>6. CASE UpsertPort(p) \/ ClosePort(p) \/ InsertEvent(p)
  <2>1. CASE UpsertPort(p)
    <3>1. PICK u \in call[p].updated :
            call' = [call EXCEPT ![p].ports = Tail(@),
                       ![p].log = IF Head(call[p].ports) \in call[p].was THEN @
                                  ELSE Append(@, PortOpened(u.id, Head(call[p].ports)))]
      BY <2>1 DEF UpsertPort
    <3> DEFINE port  == Head(call[p].ports)
               ports == Tail(call[p].ports)
               log   == IF port \in call[p].was THEN call[p].log
                        ELSE Append(call[p].log, PortOpened(u.id, port))
               c     == [call[p] EXCEPT !.ports = ports, !.log = log]
    <3>2. call' = [call EXCEPT ![p] = c]
      BY <3>1
    <3>3. c.pc = "ports"
      <4> HIDE DEF ports, log
      <4>1. QED
        BY <1>1, <2>1 DEF UpsertPort, At, Call
    <3> HIDE DEF c
    <3>4. QED
      BY <1>1, <3>2, <3>3
  <2>2. CASE ClosePort(p)
    BY <1>1, <2>2 DEF ClosePort, At, Call
  <2>3. CASE InsertEvent(p)
    BY <1>1, <2>3 DEF InsertEvent, At, Call
  <2>4. QED
    BY <1>6, <2>1, <2>2, <2>3
<1>7. CASE InsertSnapshot(p)
  BY <1>1, <1>7 DEF InsertSnapshot, Idle
<1>8. CASE Return(p) \/ Abandon(p)
  BY <1>1, <1>8 DEF Return, Abandon
<1>9. QED
  BY <1>2, <1>3, <1>4, <1>5, <1>6, <1>7, <1>8

LEMMA NextRereads ==
  ASSUME \A p, q \in Process : p = q, Inv, RereadFinds, [Next]_vars
  PROVE  RereadFinds'
<1>1. CASE UNCHANGED vars
  BY <1>1 DEF vars, RereadFinds, At, Reread, ByMac, BareAt, Now
<1>2. CASE Next
  <2>1. SUFFICES ASSUME NEW q \in Process, call'[q].pc = "reread"
                 PROVE  Reread(q)' # {}
    BY DEF RereadFinds, At
  <2>2. UpdateHost(q)
    BY <1>2, <2>1, OthersDoNotReread DEF Next
  <2>3. PICK k \in Reread(q)' : TRUE
    BY <2>2, RefreshedIsFound
  <2>4. QED
    BY <2>3
<1>3. QED
  BY <1>1, <1>2

(* "assert result is not None" holds for every batch and every row while   *)
(* one process correlates, also after a call that was cut short.           *)
THEOREM RereadFindsAlone ==
  ASSUME \A p, q \in Process : p = q
  PROVE  Spec => []RereadFinds
<1>1. Init => Inv /\ RereadFinds
  <2>1. Idle.pc = "idle"
    BY DEF Idle
  <2>2. Init => RereadFinds
    BY <2>1 DEF Init, RereadFinds, At
  <2>3. QED
    BY <2>2, InitInv
<1>2. Inv /\ RereadFinds /\ [Next]_vars => (Inv /\ RereadFinds)'
  BY NextKeeps, NextRereads
<1>3. QED
  BY <1>1, <1>2, PTL DEF Spec

-----------------------------------------------------------------------------
(* A row that is behind its snapshot is the one a call works on.           *)
UpToDate(row) == row.snap = [ip |-> row.ip, open |-> row.open]

Turn == {"report", "ports", "close", "snapshot"}

Behind(p) == IF At(p, "reread") THEN Reread(p) ELSE {}

CallFresh(c, t, behind) ==
  /\ c.pc \notin Turn => c.updated = {}
  /\ \A u \in c.updated : u.ip = t[u.id].ip
  /\ c.pc = "snapshot"
       => \A u \in c.updated : c.snap = [ip |-> u.ip, open |-> t[u.id].open]
  /\ \A h \in DOMAIN t :
       UpToDate(t[h]) \/ (\E u \in c.updated : u.id = h) \/ h \in behind

Fresh(p) == faults = 0 => CallFresh(call[p], host, Behind(p))

(* The steps that do not write to a row.                                   *)
LEMMA QuietFields ==
  ASSUME Inv, NEW p \in Process
  PROVE  /\ Begin(p) \/ Return(p)
              => call'[p].updated = {} /\ call'[p].pc \notin Turn
         /\ MatchMac(p) \/ MatchIp(p) \/ InsertEvent(p)
              => call'[p].updated = call[p].updated /\ call'[p].pc \notin Turn
         /\ Report(p) \/ FindStale(p)
              => /\ call'[p].updated = call[p].updated
                 /\ call'[p].pc \in Turn \ {"snapshot"}
<1>1. /\ call \in [Process -> Call] /\ call[p] \in Call
      /\ Idle.pc = "idle" /\ Idle.updated = {}
  BY DEF Inv, TypeOK, Idle
<1>2. ASSUME Begin(p) \/ Return(p)
      PROVE  call'[p].updated = {} /\ call'[p].pc \notin Turn
  <2>1. CASE Begin(p)
    BY <1>1, <2>1 DEF Begin, Idle, Turn
  <2>2. CASE Return(p)
    BY <1>1, <2>2 DEF Return, Turn
  <2>3. QED
    BY <1>2, <2>1, <2>2
<1>3. ASSUME MatchMac(p) \/ MatchIp(p) \/ InsertEvent(p)
      PROVE  call'[p].updated = call[p].updated /\ call'[p].pc \notin Turn
  <2>1. CASE MatchMac(p)
    BY <1>1, <2>1 DEF MatchMac, Call, Turn
  <2>2. CASE MatchIp(p)
    BY <1>1, <2>2 DEF MatchIp, Call, Turn
  <2>3. CASE InsertEvent(p)
    BY <1>1, <2>3 DEF InsertEvent, At, Call, Turn
  <2>4. QED
    BY <1>3, <2>1, <2>2, <2>3
<1>4. ASSUME FindStale(p)
      PROVE  /\ call'[p].updated = call[p].updated
             /\ call'[p].pc \in Turn \ {"snapshot"}
  BY <1>1, <1>4 DEF FindStale, Call, Turn
<1>5. ASSUME Report(p)
      PROVE  /\ call'[p].updated = call[p].updated
             /\ call'[p].pc \in Turn \ {"snapshot"}
  <2>1. PICK u \in call[p].updated :
          call' = [call EXCEPT ![p] =
                     [call[p] EXCEPT !.pc = "ports",
                        !.log = call[p].log \o News(p, u.id, u.ip),
                        !.was = host[u.id].open, !.ports = Now(p).ports]]
    BY <1>5 DEF Report
  <2> DEFINE log   == call[p].log \o News(p, u.id, u.ip)
             was   == host[u.id].open
             ports == Now(p).ports
             c     == [call[p] EXCEPT !.pc = "ports", !.log = log, !.was = was,
                                      !.ports = ports]
  <2>2. call' = [call EXCEPT ![p] = c]
    BY <2>1
  <2>3. c.pc = "ports" /\ c.updated = call[p].updated
    <3> HIDE DEF log, was, ports
    <3>1. QED
      BY <1>1 DEF Call
  <2> HIDE DEF c
  <2>4. QED
    BY <1>1, <2>2, <2>3 DEF Turn
<1>6. QED
  BY <1>2, <1>3, <1>4, <1>5

LEMMA QuietStepFresh ==
  ASSUME Inv, NEW p \in Process, faults = 0, Fresh(p),
         \/ Begin(p) \/ MatchMac(p) \/ MatchIp(p) \/ Report(p) \/ FindStale(p)
         \/ InsertEvent(p) \/ Return(p)
  PROVE  Fresh(p)'
<1>1. UNCHANGED host /\ call[p].pc # "reread"
  BY DEF Begin, MatchMac, MatchIp, Report, FindStale, InsertEvent, Return, At
<1>2. Behind(p) = {} /\ Behind(p)' = {}
  BY <1>1, OthersDoNotReread DEF Behind, At
<1>3. call'[p].updated = call[p].updated
  <2>1. CASE Begin(p) \/ Return(p)
    <3>1. call[p].pc \notin Turn
      BY <2>1 DEF Begin, Return, At, Turn
    <3>2. QED
      BY <2>1, <3>1, QuietFields DEF Fresh, CallFresh
  <2>2. CASE ~(Begin(p) \/ Return(p))
    BY <2>2, QuietFields
  <2>3. QED
    BY <2>1, <2>2
<1>4. call'[p].pc \notin Turn => call'[p].updated = {}
  <2>1. CASE Report(p) \/ FindStale(p)
    BY <2>1, QuietFields DEF Turn
  <2>2. CASE Begin(p) \/ Return(p)
    BY <2>2, QuietFields
  <2>3. CASE MatchMac(p) \/ MatchIp(p) \/ InsertEvent(p)
    <3>1. call[p].pc \notin Turn
      BY <2>3 DEF MatchMac, MatchIp, InsertEvent, At, Turn
    <3>2. QED
      BY <1>3, <3>1 DEF Fresh, CallFresh
  <2>4. QED
    BY <2>1, <2>2, <2>3
<1>5. call'[p].pc # "snapshot"
  BY QuietFields DEF Turn
<1>6. CallFresh(call'[p], host', Behind(p)')
  BY <1>1, <1>2, <1>3, <1>4, <1>5 DEF Fresh, CallFresh
<1>7. QED
  BY <1>6 DEF Fresh

(* A new row is behind until its snapshot is written.                      *)
LEMMA InsertHostFresh ==
  ASSUME Inv, NEW p \in Process, faults = 0, Fresh(p), InsertHost(p)
  PROVE  Fresh(p)'
<1> DEFINE row == NewRow(Now(p).mac, Now(p).ip)
           u   == [id |-> NewId, ip |-> Now(p).ip]
           c   == [call[p] EXCEPT !.pc = "report", !.updated = {u}]
           n   == Len(host)
<1>1. /\ call \in [Process -> Call] /\ call[p] \in Call /\ call[p].pc = "upsert"
      /\ host \in Seq(Host) /\ n \in Nat /\ DOMAIN host = 1..n
      /\ host' = Append(host, row) /\ row \in Host
  BY CallFields, LenProperties, InsertHostKeeps DEF InsertHost, At, Inv, TypeOK
<1>2. row.ip = Now(p).ip /\ u.id = n + 1 /\ u.ip = Now(p).ip
  BY DEF NewRow, NewId
<1>3. call' = [call EXCEPT ![p] = c]
  BY DEF InsertHost
<1>4. c.updated = {u} /\ c.pc = "report"
  <2> HIDE DEF u
  <2>1. QED
    BY <1>1 DEF Call
<1> HIDE DEF row, u, c
<1>5. /\ DOMAIN host' = 1..n + 1
      /\ \A h \in 1..n : host'[h] = host[h]
      /\ host'[n + 1] = row
  BY <1>1, AppendProperties
<1>6. call'[p] = c /\ Behind(p) = {} /\ call[p].updated = {}
  BY <1>1, <1>3 DEF Behind, At, Turn, Fresh, CallFresh
<1>7. \A h \in DOMAIN host' : UpToDate(host'[h]) \/ h = n + 1
  <2>1. \A h \in DOMAIN host' : h \in DOMAIN host \/ h = n + 1
    BY <1>1, <1>5
  <2>2. \A h \in DOMAIN host : UpToDate(host[h])
    BY <1>6 DEF Fresh, CallFresh
  <2>3. QED
    BY <1>1, <1>5, <2>1, <2>2
<1>8. CallFresh(c, host', Behind(p)')
  BY <1>2, <1>4, <1>5, <1>7 DEF CallFresh, Turn
<1>9. QED
  BY <1>6, <1>8 DEF Fresh

(* A row that is refreshed is the one that is read back.                   *)
LEMMA UpdateHostFresh ==
  ASSUME Inv, NEW p \in Process, faults = 0, Fresh(p), UpdateHost(p)
  PROVE  Fresh(p)'
<1>1. PICK k \in Reread(p)' : /\ DOMAIN host' = DOMAIN host
                              /\ \A h \in DOMAIN host \ {k} : host'[h] = host[h]
  BY RefreshedIsFound
<1>2. /\ call \in [Process -> Call] /\ call[p] \in Call /\ call[p].pc = "upsert"
      /\ call' = [call EXCEPT ![p].pc = "reread"]
  BY DEF UpdateHost, At, Inv, TypeOK
<1>3. call'[p].pc = "reread" /\ call'[p].updated = call[p].updated
  BY <1>2 DEF Call
<1>4. Behind(p) = {} /\ call[p].updated = {} /\ k \in Behind(p)'
  BY <1>1, <1>2, <1>3 DEF Behind, At, Turn, Fresh, CallFresh
<1>5. \A h \in DOMAIN host : UpToDate(host[h])
  BY <1>4 DEF Fresh, CallFresh
<1>6. \A h \in DOMAIN host' : UpToDate(host'[h]) \/ h = k
  BY <1>1, <1>5
<1>7. CallFresh(call'[p], host', Behind(p)')
  BY <1>3, <1>4, <1>6 DEF CallFresh, Turn
<1>8. QED
  BY <1>7 DEF Fresh

(* It is the only one that fits: a MAC, or a bare address, has one row.    *)
LEMMA ReadBackFresh ==
  ASSUME Inv, Identities, RereadFinds, NEW p \in Process, faults = 0, Fresh(p),
         ReadBack(p)
  PROVE  Fresh(p)'
<1>1. /\ call \in [Process -> Call] /\ call[p] \in Call /\ call[p].pc = "reread"
      /\ Reread(p) # {} /\ UNCHANGED host
  BY DEF ReadBack, At, Inv, TypeOK, RereadFinds
<1>2. PICK h \in Reread(p) :
        call' = [call EXCEPT ![p].pc = "report",
                   ![p].updated = {[id |-> h, ip |-> host[h].ip]}]
  BY <1>1 DEF ReadBack
<1> DEFINE u == [id |-> h, ip |-> host[h].ip]
<1>3. call'[p].pc = "report" /\ call'[p].updated = {u}
  <2> HIDE DEF u
  <2>1. call' = [call EXCEPT ![p].pc = "report", ![p].updated = {u}]
    BY <1>2 DEF u
  <2>2. QED
    BY <1>1, <2>1 DEF Call
<1>4. u.id = h /\ u.ip = host[h].ip
  OBVIOUS
<1> HIDE DEF u
<1>5. Reread(p) = {h}
  BY <1>2 DEF Reread, ByMac, BareAt, Identities, OneRowPerMac, OneBareRowPerIp
<1>6. \A g \in DOMAIN host : UpToDate(host[g]) \/ g = h
  BY <1>1, <1>5 DEF Fresh, CallFresh, Behind, At, Turn
<1>7. CallFresh(call'[p], host', Behind(p)')
  BY <1>1, <1>3, <1>4, <1>6 DEF CallFresh, Turn
<1>8. QED
  BY <1>7 DEF Fresh

-----------------------------------------------------------------------------
(* Ports that are opened or closed are those of the row of the turn.       *)
LEMMA PortFields ==
  ASSUME Inv, NEW p \in Process, UpsertPort(p) \/ ClosePort(p)
  PROVE  /\ call[p].pc \in {"ports", "close"} /\ call'[p].pc = call[p].pc
         /\ call'[p].updated = call[p].updated
         /\ \E u \in call[p].updated : \E open :
              host' = [host EXCEPT ![u.id].open = open]
<1>1. /\ call \in [Process -> Call] /\ call[p] \in Call
      /\ call[p].pc \in {"ports", "close"}
  BY DEF UpsertPort, ClosePort, At, Inv, TypeOK
<1>2. CASE UpsertPort(p)
  <2> DEFINE port == Head(call[p].ports)
  <2>1. PICK u \in call[p].updated :
          /\ host' = [host EXCEPT ![u.id].open = @ \cup {port}]
          /\ call' = [call EXCEPT ![p].ports = Tail(@),
                        ![p].log = IF port \in call[p].was THEN @
                                   ELSE Append(@, PortOpened(u.id, port))]
    BY <1>2 DEF UpsertPort
  <2> DEFINE ports == Tail(call[p].ports)
             log   == IF port \in call[p].was THEN call[p].log
                      ELSE Append(call[p].log, PortOpened(u.id, port))
             open  == host[u.id].open \cup {port}
             c     == [call[p] EXCEPT !.ports = ports, !.log = log]
  <2>2. call' = [call EXCEPT ![p] = c] /\ host' = [host EXCEPT ![u.id].open = open]
    BY <2>1
  <2>3. c.pc = call[p].pc /\ c.updated = call[p].updated
    <3> HIDE DEF ports, log
    <3>1. QED
      BY <1>1 DEF Call
  <2> HIDE DEF c, open
  <2>4. QED
    BY <1>1, <2>2, <2>3
<1>3. CASE ClosePort(p)
  <2>1. PICK u \in call[p].updated, port \in call[p].stale :
          /\ host' = [host EXCEPT ![u.id].open = @ \ {port}]
          /\ call' = [call EXCEPT ![p].stale = call[p].stale \ {port},
                        ![p].log = Append(call[p].log, PortClosed(u.id, port))]
    BY <1>3 DEF ClosePort
  <2> DEFINE stale == call[p].stale \ {port}
             log   == Append(call[p].log, PortClosed(u.id, port))
             open  == host[u.id].open \ {port}
             c     == [call[p] EXCEPT !.stale = stale, !.log = log]
  <2>2. call' = [call EXCEPT ![p] = c] /\ host' = [host EXCEPT ![u.id].open = open]
    BY <2>1
  <2>3. c.pc = call[p].pc /\ c.updated = call[p].updated
    <3> HIDE DEF stale, log
    <3>1. QED
      BY <1>1 DEF Call
  <2> HIDE DEF c, open
  <2>4. QED
    BY <1>1, <2>2, <2>3
<1>4. QED
  BY <1>2, <1>3

LEMMA PortFresh ==
  ASSUME Inv, Known, NEW p \in Process, faults = 0, Fresh(p),
         UpsertPort(p) \/ ClosePort(p)
  PROVE  Fresh(p)'
<1>1. PICK u \in call[p].updated : \E open : host' = [host EXCEPT ![u.id].open = open]
  BY PortFields
<1>2. /\ call[p].pc \in {"ports", "close"} /\ call'[p].pc = call[p].pc
      /\ call'[p].updated = call[p].updated
      /\ \A v \in call[p].updated : u = v
  BY PortFields DEF Known, CallKnown, UpdatesKnown
<1>3. /\ u.id \in DOMAIN host /\ host[u.id] \in Host
      /\ host \in Seq(Host) /\ DOMAIN host = 1..Len(host)
  BY UpdatedRow, CallFields
<1>4. /\ DOMAIN host' = DOMAIN host /\ host'[u.id].ip = host[u.id].ip
      /\ \A h \in DOMAIN host \ {u.id} : host'[h] = host[h]
  BY <1>1, <1>3 DEF Host
<1>5. Behind(p) = {} /\ Behind(p)' = {}
  BY <1>2 DEF Behind, At
<1>6. CallFresh(call'[p], host', Behind(p)')
  BY <1>2, <1>4, <1>5 DEF Fresh, CallFresh, Turn
<1>7. QED
  BY <1>6 DEF Fresh

(* The ports that go into the snapshot are those of the row, and so is the *)
(* address.                                                                *)
LEMMA ReadPortsFresh ==
  ASSUME Inv, Known, NEW p \in Process, faults = 0, Fresh(p), ReadPorts(p)
  PROVE  Fresh(p)'
<1>1. /\ call \in [Process -> Call] /\ call[p] \in Call /\ call[p].pc = "close"
      /\ UNCHANGED host
  BY DEF ReadPorts, At, Inv, TypeOK
<1>2. PICK u \in call[p].updated :
        call' = [call EXCEPT ![p] =
                   [call[p] EXCEPT !.pc = "snapshot",
                      !.snap = [ip |-> u.ip, open |-> host[u.id].open]]]
  BY DEF ReadPorts
<1> DEFINE snap == [ip |-> u.ip, open |-> host[u.id].open]
           c    == [call[p] EXCEPT !.pc = "snapshot", !.snap = snap]
<1>3. call' = [call EXCEPT ![p] = c]
  BY <1>2
<1>4. c.pc = "snapshot" /\ c.updated = call[p].updated /\ c.snap = snap
  <2> HIDE DEF snap
  <2>1. QED
    BY <1>1 DEF Call
<1> HIDE DEF c
<1>5. call'[p] = c /\ \A v \in call[p].updated : u = v
  BY <1>1, <1>2, <1>3 DEF Known, CallKnown, UpdatesKnown
<1>6. Behind(p) = {} /\ Behind(p)' = {}
  BY <1>1, <1>4, <1>5 DEF Behind, At
<1>7. CallFresh(call'[p], host', Behind(p)')
  BY <1>1, <1>4, <1>5, <1>6 DEF Fresh, CallFresh, Turn
<1>8. QED
  BY <1>7 DEF Fresh

(* The snapshot brings the row of the turn up to date, the last one that   *)
(* was not.                                                                *)
LEMMA InsertSnapshotFresh ==
  ASSUME Inv, Known, NEW p \in Process, faults = 0, Fresh(p), InsertSnapshot(p)
  PROVE  Fresh(p)'
<1>1. /\ call \in [Process -> Call] /\ call[p] \in Call
      /\ call[p].pc = "snapshot"
  BY DEF InsertSnapshot, At, Inv, TypeOK
<1>2. PICK u \in call[p].updated :
        host' = [host EXCEPT ![u.id].snap = call[p].snap]
  BY DEF InsertSnapshot
<1>3. call'[p].updated = {} /\ call'[p].pc \in {"events", "match_mac"}
  BY <1>1 DEF InsertSnapshot, Idle
<1>4. /\ u.id \in DOMAIN host /\ host[u.id] \in Host
      /\ host \in Seq(Host) /\ DOMAIN host = 1..Len(host)
      /\ \A v \in call[p].updated : u = v
  BY <1>2, UpdatedRow, CallFields DEF Known, CallKnown, UpdatesKnown
<1>5. /\ u.ip = host[u.id].ip
      /\ call[p].snap = [ip |-> u.ip, open |-> host[u.id].open]
      /\ Behind(p) = {} /\ Behind(p)' = {}
  BY <1>1, <1>2, <1>3 DEF Fresh, CallFresh, Behind, At
<1>6. /\ DOMAIN host' = DOMAIN host
      /\ host'[u.id].ip = host[u.id].ip /\ host'[u.id].open = host[u.id].open
      /\ host'[u.id].snap = call[p].snap
      /\ \A h \in DOMAIN host \ {u.id} : host'[h] = host[h]
  BY <1>2, <1>4 DEF Host
<1>7. UpToDate(host'[u.id])
  BY <1>5, <1>6 DEF UpToDate
<1>8. \A h \in DOMAIN host \ {u.id} : UpToDate(host[h])
  BY <1>4, <1>5 DEF Fresh, CallFresh
<1>9. CallFresh(call'[p], host', Behind(p)')
  BY <1>3, <1>6, <1>7, <1>8 DEF CallFresh, Turn
<1>10. QED
  BY <1>9 DEF Fresh

-----------------------------------------------------------------------------
LEMMA FaultsStay ==
  ASSUME Inv, [Next]_vars, faults # 0
  PROVE  faults' # 0
<1>1. faults \in Nat /\ (faults' = faults \/ faults' = faults + 1)
  BY DEF Inv, TypeOK, Next, vars, Begin, MatchMac, MatchIp, InsertHost, UpdateHost,
         ReadBack, Report, UpsertPort, FindStale, ClosePort, ReadPorts,
         InsertSnapshot, InsertEvent, Return, Abandon
<1>2. QED
  BY <1>1

LEMMA NextFresh ==
  ASSUME NEW server, Process = {server}, Inv, Known, Identities, RereadFinds,
         Fresh(server), [Next]_vars
  PROVE  Fresh(server)'
<1>1. CASE UNCHANGED vars
  BY <1>1 DEF vars, Fresh, CallFresh, Behind, At, Reread, ByMac, BareAt, Now
<1>2. CASE faults # 0 \/ Abandon(server)
  <2>1. faults' # 0
    BY <1>2, FaultsStay DEF Abandon, Inv, TypeOK
  <2>2. QED
    BY <2>1 DEF Fresh
<1>3. CASE faults = 0 /\ Next /\ ~Abandon(server)
  BY <1>3, QuietStepFresh, InsertHostFresh, UpdateHostFresh, ReadBackFresh,
     PortFresh, ReadPortsFresh, InsertSnapshotFresh DEF Next
<1>4. QED
  BY <1>1, <1>2, <1>3

LEMMA InitAlone ==
  ASSUME NEW server, Process = {server}, Init
  PROVE  Inv /\ Known /\ Identities /\ RereadFinds /\ Fresh(server)
<1>1. Idle.pc = "idle" /\ Idle.updated = {} /\ DOMAIN host = {}
  BY DEF Idle, Init
<1>2. Identities
  BY <1>1 DEF Identities, OneRowPerMac, OneBareRowPerIp
<1>3. call[server] = Idle /\ \A p \in Process : call[p] = Idle
  BY DEF Init
<1>4. RereadFinds /\ Fresh(server)
  BY <1>1, <1>3 DEF RereadFinds, At, Fresh, CallFresh, Turn, Behind
<1>5. QED
  BY <1>2, <1>4, InitInv, InitKnown

(* One server that is never cut short leaves no host whose last snapshot   *)
(* differs from its row, whatever moved, opened and closed meanwhile.      *)
THEOREM SnapshotIsCurrentAlone ==
  ASSUME NEW server, Process = {server}
  PROVE  Spec => []SnapshotIsCurrent
<1> DEFINE All == Inv /\ Known /\ Identities /\ RereadFinds /\ Fresh(server)
<1>1. Init => All
  BY InitAlone
<1>2. All /\ [Next]_vars => All'
  <2>1. \A p, q \in Process : p = q
    OBVIOUS
  <2>2. QED
    BY <2>1, NextKeeps, NextKnown, IdentitiesKept, NextRereads, NextFresh
<1>3. All => SnapshotIsCurrent
  BY DEF SnapshotIsCurrent, Quiet, Fresh, CallFresh, UpToDate, Behind, At, Turn
<1>4. QED
  BY <1>1, <1>2, <1>3, PTL DEF Spec

-----------------------------------------------------------------------------
(* What a log tells of a row: the events that are inserted and those that  *)
(* wait are one log, which steps only add to.                              *)
IsNew(e, h)        == e.kind = "host.new" /\ e.host = h
IsAddress(e, h)    == e.kind \in {"host.new", "ip.changed"} /\ e.host = h
IsPort(e, h, port) == /\ e.kind \in {"port.opened", "port.closed"}
                      /\ e.host = h /\ e.what = port

AnnouncedOnce(log, h) ==
  \E i \in DOMAIN log :
    IsNew(log[i], h) /\ \A j \in DOMAIN log : IsNew(log[j], h) => j = i

LastAddressIs(log, h, ip) ==
  \E i \in DOMAIN log :
    /\ IsAddress(log[i], h) /\ log[i].what = ip
    /\ \A j \in DOMAIN log : IsAddress(log[j], h) => j <= i

LastOpened(log, h, port) ==
  \E i \in DOMAIN log :
    /\ IsPort(log[i], h, port) /\ log[i].kind = "port.opened"
    /\ \A j \in DOMAIN log : IsPort(log[j], h, port) => j <= i

Unheard(log, h)      == \A i \in DOMAIN log : log[i].host # h
HostTold(log, h, ip) == AnnouncedOnce(log, h) /\ LastAddressIs(log, h, ip)

LEMMA OneMore ==
  ASSUME NEW log \in Seq(Event), NEW e \in Event
  PROVE  /\ DOMAIN log \in SUBSET Nat
         /\ DOMAIN Append(log, e) = DOMAIN log \cup {Len(log) + 1}
         /\ \A i \in DOMAIN log : Append(log, e)[i] = log[i] /\ i < Len(log) + 1
         /\ Append(log, e)[Len(log) + 1] = e
         /\ Len(log) + 1 \in Nat /\ Len(log) + 1 \notin DOMAIN log
<1>1. Len(log) \in Nat /\ DOMAIN log = 1..Len(log)
  BY LenProperties
<1>2. /\ Append(log, e) \in Seq(Event) /\ Len(Append(log, e)) = Len(log) + 1
      /\ \A i \in 1..Len(log) : Append(log, e)[i] = log[i]
      /\ Append(log, e)[Len(log) + 1] = e
  BY AppendProperties
<1>3. DOMAIN Append(log, e) = 1..Len(log) + 1
  BY <1>2, LenProperties
<1>4. QED
  BY <1>1, <1>2, <1>3

(* An event that is not about a host, or not of the kind, changes nothing. *)
LEMMA SilentOnHost ==
  ASSUME NEW log \in Seq(Event), NEW e \in Event, NEW h, NEW ip,
         ~IsAddress(e, h), HostTold(log, h, ip)
  PROVE  HostTold(Append(log, e), h, ip)
<1> DEFINE more == Append(log, e)
           n    == Len(log) + 1
<1>1. /\ DOMAIN log \in SUBSET Nat /\ DOMAIN more = DOMAIN log \cup {n}
      /\ \A i \in DOMAIN log : more[i] = log[i] /\ i < n
      /\ more[n] = e /\ n \in Nat /\ n \notin DOMAIN log
  BY OneMore
<1> HIDE DEF more, n
<1>2. ~IsNew(e, h)
  BY DEF IsNew, IsAddress
<1>3. AnnouncedOnce(more, h)
  BY <1>1, <1>2 DEF HostTold, AnnouncedOnce
<1>4. LastAddressIs(more, h, ip)
  BY <1>1 DEF HostTold, LastAddressIs
<1>5. QED
  BY <1>3, <1>4 DEF HostTold, more

LEMMA SilentOnPort ==
  ASSUME NEW log \in Seq(Event), NEW e \in Event, NEW h, NEW port, ~IsPort(e, h, port)
  PROVE  LastOpened(Append(log, e), h, port) <=> LastOpened(log, h, port)
<1> DEFINE more == Append(log, e)
           n    == Len(log) + 1
<1>1. /\ DOMAIN log \in SUBSET Nat /\ DOMAIN more = DOMAIN log \cup {n}
      /\ \A i \in DOMAIN log : more[i] = log[i] /\ i < n
      /\ more[n] = e /\ n \in Nat /\ n \notin DOMAIN log
  BY OneMore
<1> HIDE DEF more, n
<1>2. LastOpened(more, h, port) <=> LastOpened(log, h, port)
  BY <1>1 DEF LastOpened
<1>3. QED
  BY <1>2 DEF more

(* The event that is added has the last word.                              *)
LEMMA FirstWord ==
  ASSUME NEW log \in Seq(Event), NEW e \in Event, NEW h, Unheard(log, h),
         IsNew(e, h)
  PROVE  HostTold(Append(log, e), h, e.what)
<1> DEFINE more == Append(log, e)
           n    == Len(log) + 1
<1>1. /\ DOMAIN log \in SUBSET Nat /\ DOMAIN more = DOMAIN log \cup {n}
      /\ \A i \in DOMAIN log : more[i] = log[i] /\ i < n
      /\ more[n] = e /\ n \in Nat /\ n \notin DOMAIN log
  BY OneMore
<1> HIDE DEF more, n
<1>2. AnnouncedOnce(more, h)
  BY <1>1 DEF AnnouncedOnce, Unheard, IsNew
<1>3. LastAddressIs(more, h, e.what)
  BY <1>1 DEF LastAddressIs, Unheard, IsNew, IsAddress
<1>4. QED
  BY <1>2, <1>3 DEF HostTold, more

LEMMA AddressWord ==
  ASSUME NEW log \in Seq(Event), NEW e \in Event, NEW h, NEW ip,
         AnnouncedOnce(log, h), ~IsNew(e, h), IsAddress(e, h), e.what = ip
  PROVE  HostTold(Append(log, e), h, ip)
<1> DEFINE more == Append(log, e)
           n    == Len(log) + 1
<1>1. /\ DOMAIN log \in SUBSET Nat /\ DOMAIN more = DOMAIN log \cup {n}
      /\ \A i \in DOMAIN log : more[i] = log[i] /\ i < n
      /\ more[n] = e /\ n \in Nat /\ n \notin DOMAIN log
  BY OneMore
<1> HIDE DEF more, n
<1>2. AnnouncedOnce(more, h)
  BY <1>1 DEF AnnouncedOnce
<1>3. LastAddressIs(more, h, ip)
  <2>1. \A j \in DOMAIN more : j <= n
    BY <1>1
  <2>2. QED
    BY <1>1, <2>1 DEF LastAddressIs
<1>4. QED
  BY <1>2, <1>3 DEF HostTold, more

LEMMA PortWord ==
  ASSUME NEW log \in Seq(Event), NEW e \in Event, NEW h, NEW port, IsPort(e, h, port)
  PROVE  LastOpened(Append(log, e), h, port) <=> e.kind = "port.opened"
<1> DEFINE more == Append(log, e)
           n    == Len(log) + 1
<1>1. /\ DOMAIN log \in SUBSET Nat /\ DOMAIN more = DOMAIN log \cup {n}
      /\ \A i \in DOMAIN log : more[i] = log[i] /\ i < n
      /\ more[n] = e /\ n \in Nat /\ n \notin DOMAIN log
  BY OneMore
<1> HIDE DEF more, n
<1>2. \A j \in DOMAIN more : j <= n /\ (n <= j => j = n)
  BY <1>1
<1>3. LastOpened(more, h, port) <=> e.kind = "port.opened"
  BY <1>1, <1>2 DEF LastOpened
<1>4. QED
  BY <1>3 DEF more

LEMMA OneLastAddress ==
  ASSUME NEW log \in Seq(Event), NEW h, NEW a, NEW b,
         LastAddressIs(log, h, a), LastAddressIs(log, h, b)
  PROVE  a = b
<1>1. \A i, j \in DOMAIN log : i \in Nat /\ (i <= j /\ j <= i => i = j)
  BY LenProperties
<1>2. QED
  BY <1>1 DEF LastAddressIs

LEMMA UnheardOpensNothing ==
  ASSUME NEW log, NEW h, NEW port, Unheard(log, h)
  PROVE  ~LastOpened(log, h, port)
  BY DEF Unheard, LastOpened, IsPort

-----------------------------------------------------------------------------
(* The events of the table and those of the call, the row that the log is  *)
(* behind with, and what the lookups of a call have found.                 *)
Log(p) == event \o call[p].log

Pending(p) == IF At(p, "report") THEN {u.id : u \in call[p].updated} ELSE Behind(p)

LookedUp(p) ==
  /\ call[p].pc \in {"idle", "match_mac", "match_ip"} => call[p].found = {}
  /\ At(p, "match_ip") => ByMac(Now(p).mac) = {}
  /\ At(p, "upsert") =>
       /\ call[p].found = {} => Identify(Now(p).mac, Now(p).ip) = {}
       /\ \A f \in call[p].found : /\ f.id \in Identify(Now(p).mac, Now(p).ip)
                                   /\ f.ip = host[f.id].ip
  /\ At(p, "reread") => call[p].found # {}

(* The row of the turn is told of under the address that it was found at,  *)
(* or not at all.                                                          *)
PendingTold(log, h, found) ==
  /\ found = {} => Unheard(log, h)
  /\ \A f \in found : HostTold(log, h, f.ip)

PortsTold(log, t) ==
  \A h \in DOMAIN t, port \in Port : port \in t[h].open <=> LastOpened(log, h, port)

Story(p) ==
  /\ PortsTold(Log(p), host)
  /\ \A h \in DOMAIN host \ Pending(p) : HostTold(Log(p), h, host[h].ip)
  /\ \A h \in Pending(p) : PendingTold(Log(p), h, call[p].found)
  /\ At(p, "ports") => \A u \in call[p].updated : call[p].was \subseteq host[u.id].open
  /\ At(p, "idle") => call[p].log = <<>>

TellsAll(p) == faults = 0 => LookedUp(p) /\ Story(p)

LEMMA LogType ==
  ASSUME Inv, NEW p \in Process
  PROVE  /\ Log(p) \in Seq(Event)
         /\ \A i \in DOMAIN Log(p) : Log(p)[i].host \in DOMAIN host
<1>1. /\ event \in Seq(Event) /\ call[p].log \in Seq(Event) /\ Len(host) \in Nat
      /\ DOMAIN host = 1..Len(host)
      /\ \A i \in DOMAIN event : event[i].host \in 1..Len(host)
      /\ \A i \in DOMAIN call[p].log : call[p].log[i].host \in 1..Len(host)
  BY CallFields, LenProperties DEF Refers, Call
<1>2. QED
  BY <1>1, LogGrows DEF Log

(* What a call logs comes last, and inserting it does not change the log.  *)
LEMMA LogAppended ==
  ASSUME Inv, NEW p \in Process, UNCHANGED event, NEW e \in Event,
         call'[p].log = Append(call[p].log, e)
  PROVE  Log(p)' = Append(Log(p), e)
<1>1. event \in Seq(Event) /\ call[p].log \in Seq(Event) /\ <<e>> \in Seq(Event)
  BY CallFields DEF Call
<1>2. /\ Append(call[p].log, e) = call[p].log \o <<e>>
      /\ Append(Log(p), e) = Log(p) \o <<e>>
  BY <1>1, LogType, AppendIsConcat
<1>3. (event \o call[p].log) \o <<e>> = event \o (call[p].log \o <<e>>)
  <2> DEFINE log == call[p].log
             one == <<e>>
  <2>1. event \in Seq(Event) /\ log \in Seq(Event) /\ one \in Seq(Event)
    BY <1>1
  <2> HIDE DEF log, one
  <2>2. (event \o log) \o one = event \o (log \o one)
    BY <2>1, ConcatAssociative
  <2>3. QED
    BY <2>2 DEF log, one
<1>4. QED
  BY <1>2, <1>3 DEF Log

LEMMA LogMoved ==
  ASSUME Inv, NEW p \in Process, InsertEvent(p)
  PROVE  Log(p)' = Log(p)
<1> DEFINE old == call[p].log
           e   == Head(old)
           log == Tail(old)
<1>1. old \in Seq(Event) /\ old # <<>> /\ event \in Seq(Event) /\ call[p] \in Call
  BY CallFields DEF InsertEvent, Call
<1>2. call'[p].log = log /\ event' = Append(event, e)
  <2>1. call' = [call EXCEPT ![p].log = log] /\ call \in [Process -> Call]
    BY DEF InsertEvent, Inv, TypeOK
  <2> HIDE DEF log
  <2>2. call'[p].log = log
    BY <2>1 DEF Call
  <2>3. QED
    BY <2>2 DEF InsertEvent
<1> HIDE DEF old
<1>3. e \in Event /\ log \in Seq(Event) /\ <<e>> \in Seq(Event)
  BY <1>1, HeadTailProperties
<1>4. old = <<e>> \o log
  <2>1. /\ Len(log) = Len(old) - 1 /\ Len(old) \in Nat /\ Len(old) > 0
        /\ \A i \in 1..Len(log) : log[i] = old[i + 1]
    BY <1>1, HeadTailProperties, LenProperties, EmptySeq
  <2>2. e = old[1]
    BY <1>1
  <2> HIDE DEF e, log
  <2>3. /\ <<e>> \o log \in Seq(Event) /\ Len(<<e>>) = 1 /\ <<e>>[1] = e
        /\ Len(<<e>> \o log) = 1 + Len(log)
        /\ \A i \in 1..1 + Len(log) :
             (<<e>> \o log)[i] = IF i <= 1 THEN <<e>>[i] ELSE log[i - 1]
    BY <1>3, ConcatProperties
  <2>4. \A i \in 1..Len(old) : old[i] = (<<e>> \o log)[i]
    <3>1. ASSUME NEW i \in 1..Len(old)
          PROVE  old[i] = (<<e>> \o log)[i]
      <4>1. CASE i = 1
        BY <2>1, <2>2, <2>3, <4>1
      <4>2. CASE i # 1
        <5>1. i - 1 \in 1..Len(log) /\ ~(i <= 1) /\ i \in 1..1 + Len(log)
          BY <2>1, <4>2
        <5>2. QED
          BY <2>1, <2>3, <5>1
      <4>3. QED
        BY <4>1, <4>2
    <3>2. QED
      BY <3>1
  <2>5. Len(old) = Len(<<e>> \o log)
    BY <2>1, <2>3
  <2>6. QED
    BY <1>1, <2>3, <2>4, <2>5, SeqEqual
<1>5. Append(event, e) \o log = event \o old
  <2> HIDE DEF e, log
  <2>1. Append(event, e) = event \o <<e>>
    BY <1>1, <1>3, AppendIsConcat
  <2>2. (event \o <<e>>) \o log = event \o (<<e>> \o log)
    BY <1>1, <1>3, ConcatAssociative
  <2>3. QED
    BY <1>4, <2>1, <2>2
<1>6. QED
  BY <1>2, <1>5 DEF Log, old

(* The other steps that report nothing.                                    *)
LEMMA LogKept ==
  ASSUME Inv, NEW p \in Process, At(p, "idle") => call[p].log = <<>>,
         \/ Begin(p) \/ MatchMac(p) \/ MatchIp(p) \/ InsertHost(p)
         \/ UpdateHost(p) \/ (ReadBack(p) /\ Reread(p) # {}) \/ FindStale(p)
         \/ ReadPorts(p) \/ InsertSnapshot(p) \/ Return(p)
  PROVE  call'[p].log = call[p].log /\ Log(p)' = Log(p)
<1>1. call \in [Process -> Call] /\ call[p] \in Call /\ Idle.log = <<>>
  BY DEF Inv, TypeOK, Idle
<1>2. UNCHANGED event
  BY DEF Begin, MatchMac, MatchIp, InsertHost, UpdateHost, ReadBack, FindStale,
         ReadPorts, InsertSnapshot, Return
<1>3. call'[p].log = call[p].log
  <2>1. CASE Begin(p)
    BY <1>1, <2>1 DEF Begin, Idle
  <2>2. CASE MatchMac(p)
    BY <1>1, <2>2 DEF MatchMac, Call
  <2>3. CASE MatchIp(p)
    BY <1>1, <2>3 DEF MatchIp, Call
  <2>4. CASE InsertHost(p)
    BY <1>1, <2>4 DEF InsertHost, Call
  <2>5. CASE UpdateHost(p)
    BY <1>1, <2>5 DEF UpdateHost, Call
  <2>6. CASE ReadBack(p) /\ Reread(p) # {}
    BY <1>1, <2>6 DEF ReadBack, Call
  <2>7. CASE FindStale(p)
    <3>1. PICK stale : call' = [call EXCEPT ![p].pc = "close", ![p].stale = stale]
      BY <2>7 DEF FindStale
    <3>2. QED
      BY <1>1, <3>1 DEF Call
  <2>8. CASE ReadPorts(p)
    <3>1. PICK snap : call' = [call EXCEPT ![p].pc = "snapshot", ![p].snap = snap]
      BY <2>8 DEF ReadPorts
    <3>2. QED
      BY <1>1, <3>1 DEF Call
  <2>9. CASE InsertSnapshot(p)
    BY <1>1, <2>9 DEF InsertSnapshot, Idle
  <2>10. CASE Return(p)
    BY <1>1, <2>10 DEF Return
  <2>11. QED
    BY <2>1, <2>2, <2>3, <2>4, <2>5, <2>6, <2>7, <2>8, <2>9, <2>10
<1>4. QED
  BY <1>2, <1>3 DEF Log

-----------------------------------------------------------------------------
(* Steps that change no address, no port and no event, outside of a turn.  *)
LEMMA StoryStays ==
  ASSUME NEW p \in Process, Story(p), Log(p)' = Log(p), DOMAIN host' = DOMAIN host,
         \A h \in DOMAIN host : /\ host'[h].ip = host[h].ip
                                /\ host'[h].open = host[h].open,
         Pending(p) = {}, Pending(p)' = {}, call'[p].pc # "ports",
         call'[p].pc = "idle" => call'[p].log = <<>>
  PROVE  Story(p)'
  BY DEF Story, PortsTold, At

LEMMA StartTells ==
  ASSUME Inv, NEW p \in Process, faults = 0, LookedUp(p), Story(p),
         Begin(p) \/ Return(p)
  PROVE  LookedUp(p)' /\ Story(p)'
<1>1. /\ call \in [Process -> Call] /\ call[p].pc \in {"idle", "events"}
      /\ At(p, "idle") => call[p].log = <<>>
      /\ UNCHANGED host
  BY DEF Begin, Return, At, Inv, TypeOK, Story
<1>2. call'[p].pc \in {"idle", "events", "match_mac"} /\ call'[p].found = {}
  <2>1. CASE Begin(p)
    <3>1. PICK b \in Batch, observed \in Observations :
            call' = [call EXCEPT ![p] =
                       [Idle EXCEPT !.pc = IF b = <<>> THEN "events" ELSE "match_mac",
                                    !.todo = b, !.observed = observed]]
      BY <2>1 DEF Begin
    <3>2. QED
      BY <1>1, <3>1 DEF Idle
  <2>2. CASE Return(p)
    BY <1>1, <2>2 DEF Return, Idle
  <2>3. QED
    BY <2>1, <2>2
<1>3. Log(p)' = Log(p) /\ (call'[p].pc = "idle" => call'[p].log = <<>>)
  <2>1. CASE Begin(p)
    BY <1>1, <2>1, LogKept DEF Begin
  <2>2. CASE Return(p)
    BY <1>1, <2>2, LogKept DEF Return
  <2>3. QED
    BY <2>1, <2>2
<1>4. Pending(p) = {} /\ Pending(p)' = {}
  BY <1>1, <1>2 DEF Pending, Behind, At
<1>5. Story(p)'
  BY <1>1, <1>2, <1>3, <1>4, StoryStays
<1>6. LookedUp(p)'
  BY <1>2 DEF LookedUp, At
<1>7. QED
  BY <1>5, <1>6

(* What the lookups find is what the transaction will find.                *)
LEMMA MatchTells ==
  ASSUME Inv, NEW p \in Process, faults = 0, LookedUp(p), Story(p),
         MatchMac(p) \/ MatchIp(p)
  PROVE  LookedUp(p)' /\ Story(p)'
<1>1. /\ call \in [Process -> Call] /\ call[p] \in Call
      /\ call[p].pc \in {"match_mac", "match_ip"} /\ call[p].found = {}
      /\ UNCHANGED host /\ Log(p)' = Log(p)
  <2>1. /\ call \in [Process -> Call] /\ call[p] \in Call /\ UNCHANGED host
        /\ call[p].pc \in {"match_mac", "match_ip"}
    BY DEF MatchMac, MatchIp, At, Inv, TypeOK
  <2>2. call[p].found = {}
    BY <2>1 DEF LookedUp
  <2>3. QED
    BY <2>1, <2>2, LogKept DEF At
<1> DEFINE S == Identify(Now(p).mac, Now(p).ip)
<1>2. \/ /\ call'[p].pc = "match_ip" /\ call'[p].found = {}
         /\ ByMac(Now(p).mac) = {}
      \/ /\ call'[p].pc = "upsert" /\ call'[p].found = {} /\ S = {}
      \/ /\ call'[p].pc = "upsert"
         /\ \E h \in S : call'[p].found = {[id |-> h, ip |-> host[h].ip]}
  <2>1. CASE MatchMac(p)
    <3>1. CASE /\ ByMac(Now(p).mac) = {}
               /\ call' = [call EXCEPT ![p].pc = "match_ip"]
      BY <1>1, <3>1 DEF Call
    <3>2. CASE \E h \in ByMac(Now(p).mac) :
                 call' = [call EXCEPT ![p].pc = "upsert",
                                      ![p].found = {[id |-> h, ip |-> host[h].ip]}]
      <4>1. PICK h \in ByMac(Now(p).mac) :
                 call' = [call EXCEPT ![p].pc = "upsert",
                                      ![p].found = {[id |-> h, ip |-> host[h].ip]}]
        BY <3>2
      <4>2. h \in S
        BY <4>1 DEF Identify
      <4>3. /\ call'[p].pc = "upsert"
            /\ call'[p].found = {[id |-> h, ip |-> host[h].ip]}
        BY <1>1, <4>1 DEF Call
      <4>4. QED
        BY <4>2, <4>3
    <3>3. QED
      BY <2>1, <3>1, <3>2 DEF MatchMac
  <2>2. CASE MatchIp(p)
    <3>1. ByMac(Now(p).mac) = {} /\ S = BareAt(Now(p).ip)
      BY <2>2 DEF LookedUp, MatchIp, Identify
    <3>2. CASE /\ BareAt(Now(p).ip) = {}
               /\ call' = [call EXCEPT ![p].pc = "upsert"]
      BY <1>1, <3>1, <3>2 DEF Call
    <3>3. CASE \E h \in BareAt(Now(p).ip) :
                 call' = [call EXCEPT ![p].pc = "upsert",
                                      ![p].found = {[id |-> h, ip |-> host[h].ip]}]
      <4>1. PICK h \in BareAt(Now(p).ip) :
                 call' = [call EXCEPT ![p].pc = "upsert",
                                      ![p].found = {[id |-> h, ip |-> host[h].ip]}]
        BY <3>3
      <4>2. /\ call'[p].pc = "upsert"
            /\ call'[p].found = {[id |-> h, ip |-> host[h].ip]}
        BY <1>1, <4>1 DEF Call
      <4>3. QED
        BY <3>1, <4>1, <4>2
    <3>4. QED
      BY <2>2, <3>2, <3>3 DEF MatchIp
  <2>3. QED
    BY <2>1, <2>2
<1>3. /\ Now(p)' = Now(p)
      /\ ByMac(Now(p).mac)' = ByMac(Now(p).mac)
      /\ Identify(Now(p).mac, Now(p).ip)' = S
  <2>1. call'[p].todo = call[p].todo
    BY <1>1 DEF MatchMac, MatchIp, Call
  <2>2. Now(p)' = Now(p)
    BY <2>1 DEF Now
  <2>3. QED
    BY <1>1, <2>2 DEF Identify, ByMac, BareAt
<1> HIDE DEF S
<1>4. LookedUp(p)'
  <2>1. CASE call'[p].found = {}
    BY <1>2, <1>3, <2>1 DEF LookedUp, At
  <2>2. CASE call'[p].found # {}
    <3>1. PICK h \in S : call'[p].found = {[id |-> h, ip |-> host[h].ip]}
      BY <1>2, <2>2
    <3>2. \A f \in call'[p].found : f.id \in S /\ f.ip = host'[f.id].ip
      BY <1>1, <3>1
    <3>3. QED
      BY <1>2, <1>3, <2>2, <3>2 DEF LookedUp, At
  <2>3. QED
    BY <2>1, <2>2
<1>5. Pending(p) = {} /\ Pending(p)' = {}
  BY <1>1, <1>2 DEF Pending, Behind, At
<1>6. Story(p)'
  BY <1>1, <1>2, <1>5, StoryStays
<1>7. QED
  BY <1>4, <1>6

(* A turn ends, a waiting event is inserted.                               *)
LEMMA AfterTurnTells ==
  ASSUME Inv, NEW p \in Process, faults = 0, LookedUp(p), Story(p),
         InsertSnapshot(p) \/ InsertEvent(p)
  PROVE  LookedUp(p)' /\ Story(p)'
<1>1. /\ call \in [Process -> Call] /\ call[p] \in Call
      /\ call[p].pc \in {"snapshot", "events"}
  BY DEF InsertSnapshot, InsertEvent, At, Inv, TypeOK
<1>2. Log(p)' = Log(p)
  BY <1>1, LogKept, LogMoved DEF At
<1>3. call'[p].pc \in {"events", "match_mac"}
      /\ (call'[p].pc = "match_mac" => call'[p].found = {})
  <2>1. CASE InsertSnapshot(p)
    BY <1>1, <2>1 DEF InsertSnapshot, Idle
  <2>2. CASE InsertEvent(p)
    BY <1>1, <2>2 DEF InsertEvent, At, Call
  <2>3. QED
    BY <2>1, <2>2
<1>4. /\ DOMAIN host' = DOMAIN host
      /\ \A h \in DOMAIN host : /\ host'[h].ip = host[h].ip
                                /\ host'[h].open = host[h].open
  <2>1. CASE InsertSnapshot(p)
    <3>1. PICK u \in call[p].updated : host' = [host EXCEPT ![u.id].snap = call[p].snap]
      BY <2>1 DEF InsertSnapshot
    <3>2. u.id \in DOMAIN host /\ host[u.id] \in Host
      BY UpdatedRow
    <3>3. QED
      BY <3>1, <3>2 DEF Host
  <2>2. CASE InsertEvent(p)
    BY <2>2 DEF InsertEvent
  <2>3. QED
    BY <2>1, <2>2
<1>5. Pending(p) = {} /\ Pending(p)' = {}
  BY <1>1, <1>3 DEF Pending, Behind, At
<1>6. Story(p)'
  BY <1>2, <1>3, <1>4, <1>5, StoryStays
<1>7. LookedUp(p)'
  BY <1>3 DEF LookedUp, At
<1>8. QED
  BY <1>6, <1>7

-----------------------------------------------------------------------------
(* The transaction: what it writes is told of later in the turn.           *)
LEMMA InsertHostTells ==
  ASSUME Inv, NEW p \in Process, faults = 0, LookedUp(p), Story(p), InsertHost(p)
  PROVE  LookedUp(p)' /\ Story(p)'
<1> DEFINE row == NewRow(Now(p).mac, Now(p).ip)
           u   == [id |-> NewId, ip |-> Now(p).ip]
           n   == Len(host)
<1>1. /\ call \in [Process -> Call] /\ call[p] \in Call /\ call[p].pc = "upsert"
      /\ host \in Seq(Host) /\ n \in Nat /\ DOMAIN host = 1..n
      /\ host' = Append(host, row) /\ row \in Host
  BY CallFields, LenProperties, InsertHostKeeps DEF InsertHost, At, Inv, TypeOK
<1>2. row.open = {} /\ u.id = n + 1
  BY DEF NewRow, NewId
<1>3. call[p].found = {}
  BY <1>1 DEF InsertHost, LookedUp, At
<1>4. /\ call'[p].pc = "report" /\ call'[p].updated = {u} /\ call'[p].found = {}
  <2> HIDE DEF u
  <2>1. call' = [call EXCEPT ![p].pc = "report", ![p].updated = {u}]
    BY DEF InsertHost, u
  <2>2. QED
    BY <1>1, <1>3, <2>1 DEF Call
<1> HIDE DEF row, u
<1>5. /\ DOMAIN host' = DOMAIN host \cup {n + 1} /\ n + 1 \notin DOMAIN host
      /\ \A h \in DOMAIN host : host'[h] = host[h]
      /\ host'[n + 1] = row
  BY <1>1, AppendProperties
<1>6. Log(p)' = Log(p) /\ Unheard(Log(p), n + 1)
  BY <1>1, <1>5, LogKept, LogType DEF At, Unheard
<1>7. Pending(p) = {} /\ Pending(p)' = {n + 1}
  BY <1>1, <1>2, <1>4 DEF Pending, Behind, At
<1>8. PortsTold(Log(p), host')
  BY <1>2, <1>5, <1>6, UnheardOpensNothing DEF Story, PortsTold
<1>9. \A h \in DOMAIN host' \ {n + 1} : HostTold(Log(p), h, host'[h].ip)
  BY <1>5, <1>7 DEF Story
<1>10. PendingTold(Log(p), n + 1, {})
  BY <1>6 DEF PendingTold
<1>11. Story(p)'
  <2>1. PortsTold(Log(p), host)'
    BY <1>6, <1>8 DEF PortsTold
  <2>2. QED
    BY <1>4, <1>6, <1>7, <1>9, <1>10, <2>1 DEF Story, At
<1>12. LookedUp(p)'
  BY <1>4 DEF LookedUp, At
<1>13. QED
  BY <1>11, <1>12

LEMMA UpdateHostTells ==
  ASSUME Inv, Identities, NEW p \in Process, faults = 0, LookedUp(p), Story(p),
         UpdateHost(p)
  PROVE  LookedUp(p)' /\ Story(p)'
<1>1. PICK k \in Reread(p)' :
        /\ k \in Identify(Now(p).mac, Now(p).ip)
        /\ DOMAIN host' = DOMAIN host /\ host'[k].open = host[k].open
        /\ \A h \in DOMAIN host \ {k} : host'[h] = host[h]
  BY RefreshedIsFound
<1>2. /\ call \in [Process -> Call] /\ call[p] \in Call /\ call[p].pc = "upsert"
      /\ call' = [call EXCEPT ![p].pc = "reread"]
  BY DEF UpdateHost, At, Inv, TypeOK
<1>3. call'[p].pc = "reread" /\ call'[p].found = call[p].found
  BY <1>2 DEF Call
<1>4. Identities'
  <2>1. [Next]_vars
    BY DEF Next
  <2>2. QED
    BY <2>1, IdentitiesKept
<1>5. Reread(p)' = {k}
  BY <1>1, <1>4 DEF Reread, ByMac, BareAt, Identities, OneRowPerMac, OneBareRowPerIp
<1>6. /\ k \in DOMAIN host
      /\ \A h \in Identify(Now(p).mac, Now(p).ip) : h = k
  BY <1>1 DEF Identify, ByMac, BareAt, Identities, OneRowPerMac, OneBareRowPerIp
<1>7. /\ call[p].found # {}
      /\ \A f \in call[p].found : f.ip = host[k].ip
  BY <1>1, <1>2, <1>6 DEF LookedUp, At
<1>8. Pending(p) = {} /\ Pending(p)' = {k}
  BY <1>2, <1>3, <1>5 DEF Pending, Behind, At
<1>9. Log(p)' = Log(p)
  BY <1>2, LogKept DEF At
<1>10. PendingTold(Log(p), k, call[p].found)
  BY <1>6, <1>7, <1>8 DEF Story, PendingTold
<1>11. PortsTold(Log(p), host)'
  BY <1>1, <1>9 DEF Story, PortsTold
<1>12. Story(p)'
  BY <1>1, <1>3, <1>8, <1>9, <1>10, <1>11 DEF Story, At
<1>13. LookedUp(p)'
  BY <1>3, <1>7 DEF LookedUp, At
<1>14. QED
  BY <1>12, <1>13

LEMMA ReadBackTells ==
  ASSUME Inv, Identities, RereadFinds, NEW p \in Process, faults = 0,
         LookedUp(p), Story(p), ReadBack(p)
  PROVE  LookedUp(p)' /\ Story(p)'
<1>1. /\ call \in [Process -> Call] /\ call[p] \in Call /\ call[p].pc = "reread"
      /\ Reread(p) # {} /\ UNCHANGED host
  BY DEF ReadBack, At, Inv, TypeOK, RereadFinds
<1>2. PICK h \in Reread(p) :
        call' = [call EXCEPT ![p].pc = "report",
                   ![p].updated = {[id |-> h, ip |-> host[h].ip]}]
  BY <1>1 DEF ReadBack
<1> DEFINE u == [id |-> h, ip |-> host[h].ip]
<1>3. /\ call'[p].pc = "report" /\ call'[p].updated = {u}
      /\ call'[p].found = call[p].found
  <2> HIDE DEF u
  <2>1. call' = [call EXCEPT ![p].pc = "report", ![p].updated = {u}]
    BY <1>2 DEF u
  <2>2. QED
    BY <1>1, <2>1 DEF Call
<1>4. u.id = h
  OBVIOUS
<1> HIDE DEF u
<1>5. Reread(p) = {h}
  BY <1>2 DEF Reread, ByMac, BareAt, Identities, OneRowPerMac, OneBareRowPerIp
<1>6. Pending(p) = {h} /\ Pending(p)' = {h}
  BY <1>1, <1>3, <1>4, <1>5 DEF Pending, Behind, At
<1>7. Log(p)' = Log(p)
  BY <1>1, LogKept DEF At
<1>8. PortsTold(Log(p), host)'
  BY <1>1, <1>7 DEF Story, PortsTold
<1>9. Story(p)'
  BY <1>1, <1>3, <1>6, <1>7, <1>8 DEF Story, At
<1>10. LookedUp(p)'
  BY <1>3 DEF LookedUp, At
<1>11. QED
  BY <1>9, <1>10

-----------------------------------------------------------------------------
(* The identity event, if any, is the last word on the address of the row. *)
LEMMA ReportTells ==
  ASSUME Inv, Known, NEW p \in Process, faults = 0, LookedUp(p), Story(p), Fresh(p),
         Report(p)
  PROVE  LookedUp(p)' /\ Story(p)'
<1>1. /\ call \in [Process -> Call] /\ call[p] \in Call /\ call[p].pc = "report"
      /\ UNCHANGED <<host, event>>
  BY DEF Report, At, Inv, TypeOK
<1>2. PICK u \in call[p].updated :
        call' = [call EXCEPT ![p] =
                   [call[p] EXCEPT !.pc = "ports",
                      !.log = call[p].log \o News(p, u.id, u.ip),
                      !.was = host[u.id].open, !.ports = Now(p).ports]]
  BY DEF Report
<1> DEFINE news  == News(p, u.id, u.ip)
           log   == call[p].log \o news
           was   == host[u.id].open
           ports == Now(p).ports
           c     == [call[p] EXCEPT !.pc = "ports", !.log = log, !.was = was,
                                    !.ports = ports]
<1>3. call' = [call EXCEPT ![p] = c]
  BY <1>2
<1>4. /\ c.pc = "ports" /\ c.log = log /\ c.was = was
      /\ c.updated = call[p].updated
  <2> HIDE DEF log, was, ports
  <2>1. QED
    BY <1>1 DEF Call
<1> HIDE DEF c, log, was
<1>5. /\ call'[p] = c /\ \A v \in call[p].updated : v = u
      /\ u.ip = host[u.id].ip /\ u.id \in DOMAIN host /\ u.id \in Nat /\ u.ip \in Ip
  <2>1. call'[p] = c
    BY <1>1, <1>3
  <2>2. /\ \A v \in call[p].updated : v = u
        /\ u.ip = host[u.id].ip
    BY <1>2 DEF Known, CallKnown, UpdatesKnown, Fresh, CallFresh
  <2>3. u.id \in 1..Len(host) /\ u.ip \in Ip /\ u.id \in DOMAIN host /\ Len(host) \in Nat
    BY <1>2, UpdatedRow, CallFields, LenProperties
  <2>4. QED
    BY <2>1, <2>2, <2>3
<1>6. Pending(p) = {u.id} /\ Pending(p)' = {}
  BY <1>1, <1>2, <1>4, <1>5 DEF Pending, Behind, At
<1>7. PendingTold(Log(p), u.id, call[p].found)
  BY <1>6 DEF Story
<1>8. PortsTold(Log(p), host) /\ \A h \in DOMAIN host \ {u.id} : HostTold(Log(p), h, host[h].ip)
  BY <1>6 DEF Story
<1>9. CASE news = <<>>
  <2>1. Log(p)' = Log(p)
    <3>1. call'[p].log = call[p].log
      BY <1>1, <1>4, <1>5, <1>9, ConcatEmptySeq DEF log, Call
    <3>2. QED
      BY <1>1, <3>1 DEF Log
  <2>2. HostTold(Log(p), u.id, u.ip)
    <3>1. call[p].found # {} /\ \A f \in call[p].found : f.ip = u.ip
      BY <1>9 DEF News
    <3>2. QED
      BY <1>7, <3>1 DEF PendingTold
  <2>3. \A h \in DOMAIN host : HostTold(Log(p), h, host[h].ip)
    BY <1>5, <1>8, <2>2
  <2>4. QED
    <3>1. PortsTold(Log(p), host)'
      BY <1>1, <1>8, <2>1 DEF PortsTold
    <3>2. Story(p)'
      BY <1>1, <1>4, <1>5, <1>6, <2>1, <2>3, <3>1 DEF Story, At, was
    <3>3. LookedUp(p)'
      BY <1>4, <1>5 DEF LookedUp, At
    <3>4. QED
      BY <3>2, <3>3
<1>10. ASSUME NEW e \in Event, news = <<e>>, HostTold(Append(Log(p), e), u.id, u.ip),
              e.kind \in {"host.new", "ip.changed"}, e.host = u.id
       PROVE  LookedUp(p)' /\ Story(p)'
  <2>1. Log(p)' = Append(Log(p), e)
    <3>1. call'[p].log = Append(call[p].log, e)
      BY <1>1, <1>4, <1>5, <1>10, AppendIsConcat DEF log, Call
    <3>2. QED
      BY <1>1, <3>1, LogAppended
  <2>2. Log(p) \in Seq(Event)
    BY LogType
  <2>3. \A h \in DOMAIN host : HostTold(Append(Log(p), e), h, host[h].ip)
    <3>1. ASSUME NEW h \in DOMAIN host, h # u.id
          PROVE  HostTold(Append(Log(p), e), h, host[h].ip)
      <4>1. HostTold(Log(p), h, host[h].ip)
        BY <1>8, <3>1
      <4>2. ~IsAddress(e, h)
        BY <1>10, <3>1 DEF IsAddress
      <4>3. QED
        BY <2>2, <4>1, <4>2, SilentOnHost
    <3>2. QED
      BY <1>5, <1>10, <3>1
  <2>4. PortsTold(Append(Log(p), e), host)
    <3>1. \A h, port : ~IsPort(e, h, port)
      BY <1>10 DEF IsPort
    <3>2. \A h, port : LastOpened(Append(Log(p), e), h, port) <=> LastOpened(Log(p), h, port)
      BY <2>2, <3>1, SilentOnPort
    <3>3. QED
      BY <1>8, <3>2 DEF PortsTold
  <2>5. PortsTold(Log(p), host)'
    BY <1>1, <2>1, <2>4 DEF PortsTold
  <2>6. Story(p)'
    BY <1>1, <1>4, <1>5, <1>6, <2>1, <2>3, <2>5 DEF Story, At, was
  <2>7. LookedUp(p)'
    BY <1>4, <1>5 DEF LookedUp, At
  <2>8. QED
    BY <2>6, <2>7
<1>11. CASE call[p].found = {}
  <2> DEFINE e == HostNew(u.id, u.ip)
  <2>1. e \in Event /\ IsNew(e, u.id) /\ e.what = u.ip
    BY <1>5 DEF HostNew, Event, IsNew
  <2>2. news = <<e>>
    BY <1>11 DEF News
  <2> HIDE DEF e, news
  <2>3. Unheard(Log(p), u.id) /\ Log(p) \in Seq(Event)
    BY <1>7, <1>11, LogType DEF PendingTold
  <2>4. HostTold(Append(Log(p), e), u.id, u.ip)
    BY <2>1, <2>3, FirstWord
  <2>5. QED
    BY <1>10, <2>1, <2>2, <2>4 DEF IsNew
<1>12. CASE \E f \in call[p].found : f.ip # u.ip
  <2> DEFINE g == CHOOSE f \in call[p].found : TRUE
             e == IpChanged(u.id, g.ip, u.ip)
  <2>1. g \in call[p].found
    BY <1>12
  <2>2. g.ip \in Ip
    BY <2>1, CallFields DEF Refers
  <2>3. news = <<e>>
    BY <1>12 DEF News
  <2> HIDE DEF g, news
  <2>4. /\ e \in Event /\ IsAddress(e, u.id) /\ ~IsNew(e, u.id) /\ e.what = u.ip
        /\ e.kind = "ip.changed" /\ e.host = u.id
    BY <1>5, <2>2 DEF IpChanged, Event, IsNew, IsAddress
  <2> HIDE DEF e
  <2>5. AnnouncedOnce(Log(p), u.id) /\ Log(p) \in Seq(Event)
    BY <1>7, <2>1, LogType DEF PendingTold, HostTold
  <2>6. HostTold(Append(Log(p), e), u.id, u.ip)
    BY <2>4, <2>5, AddressWord
  <2>7. QED
    BY <1>10, <2>3, <2>4, <2>6
<1>13. QED
  <2>1. (call[p].found # {} /\ ~\E f \in call[p].found : f.ip # u.ip) => news = <<>>
    BY DEF News
  <2>2. QED
    BY <1>9, <1>11, <1>12, <2>1

-----------------------------------------------------------------------------
(* A port that was not open before is announced when it is opened.         *)
OnePortChanges(h, port, opened) ==
  /\ DOMAIN host' = DOMAIN host
  /\ \A g \in DOMAIN host : host'[g].ip = host[g].ip
  /\ \A g \in DOMAIN host, q \in Port :
       q \in host'[g].open <=> (IF g = h /\ q = port THEN opened ELSE q \in host[g].open)

LEMMA PortStory ==
  ASSUME Inv, NEW p \in Process, Story(p), NEW e \in Event, NEW h \in DOMAIN host,
         NEW port \in Port, IsPort(e, h, port),
         Log(p)' = Append(Log(p), e), OnePortChanges(h, port, e.kind = "port.opened")
  PROVE  /\ PortsTold(Log(p), host)'
         /\ Pending(p) = {}
              => \A g \in DOMAIN host' : HostTold(Log(p)', g, host'[g].ip)
<1>1. Log(p) \in Seq(Event)
  BY LogType
<1> USE DEF OnePortChanges
<1> DEFINE more == Append(Log(p), e)
<1>2. ASSUME NEW g \in DOMAIN host, NEW q \in Port
      PROVE  q \in host'[g].open <=> LastOpened(more, g, q)
  <2>1. CASE g = h /\ q = port
    BY <1>1, <2>1, PortWord
  <2>2. CASE ~(g = h /\ q = port)
    <3>1. ~IsPort(e, g, q)
      BY <2>2 DEF IsPort
    <3>2. LastOpened(more, g, q) <=> LastOpened(Log(p), g, q)
      BY <1>1, <3>1, SilentOnPort
    <3>3. QED
      BY <2>2, <3>2 DEF Story, PortsTold
  <2>3. QED
    BY <2>1, <2>2
<1>3. ASSUME Pending(p) = {}, NEW g \in DOMAIN host
      PROVE  HostTold(more, g, host'[g].ip)
  <2>1. HostTold(Log(p), g, host[g].ip)
    BY <1>3 DEF Story
  <2>2. ~IsAddress(e, g)
    BY DEF IsPort, IsAddress
  <2>3. QED
    BY <1>1, <2>1, <2>2, SilentOnHost
<1>4. PortsTold(Log(p), host)'
  BY <1>2 DEF PortsTold
<1>5. QED
  BY <1>3, <1>4

LEMMA UpsertPortTells ==
  ASSUME Inv, Known, NEW p \in Process, faults = 0, LookedUp(p), Story(p),
         UpsertPort(p)
  PROVE  LookedUp(p)' /\ Story(p)'
<1> DEFINE port == Head(call[p].ports)
<1>1. /\ call \in [Process -> Call] /\ call[p] \in Call /\ call[p].pc = "ports"
      /\ UNCHANGED event
  BY DEF UpsertPort, At, Inv, TypeOK
<1>2. PICK u \in call[p].updated :
        /\ host' = [host EXCEPT ![u.id].open = @ \cup {port}]
        /\ call' = [call EXCEPT ![p].ports = Tail(@),
                      ![p].log = IF port \in call[p].was THEN @
                                 ELSE Append(@, PortOpened(u.id, port))]
  BY DEF UpsertPort
<1> DEFINE e     == PortOpened(u.id, port)
           ports == Tail(call[p].ports)
           log   == IF port \in call[p].was THEN call[p].log ELSE Append(call[p].log, e)
           c     == [call[p] EXCEPT !.ports = ports, !.log = log]
<1>3. call' = [call EXCEPT ![p] = c]
  BY <1>2
<1>4. /\ c.pc = "ports" /\ c.log = log /\ c.was = call[p].was
      /\ c.updated = call[p].updated
  <2> HIDE DEF log, ports
  <2>1. QED
    BY <1>1 DEF Call
<1> HIDE DEF c, log
<1>5. call'[p] = c /\ \A v \in call[p].updated : v = u
  BY <1>1, <1>2, <1>3 DEF Known, CallKnown, UpdatesKnown
<1>6. port \in Port
  <2>1. call[p].ports \in Seq(Port) /\ call[p].ports # <<>>
    BY <1>1 DEF UpsertPort, Call
  <2>2. QED
    BY <2>1, HeadTailProperties
<1> HIDE DEF port
<1>7. /\ u.id \in DOMAIN host /\ u.id \in Nat /\ host[u.id] \in Host
      /\ DOMAIN host' = DOMAIN host
      /\ host'[u.id].open = host[u.id].open \cup {port}
      /\ host'[u.id].ip = host[u.id].ip
      /\ \A h \in DOMAIN host \ {u.id} : host'[h] = host[h]
  <2>1. u.id \in 1..Len(host) /\ Len(host) \in Nat /\ u.id \in DOMAIN host
        /\ host[u.id] \in Host
    BY <1>2, UpdatedRow, CallFields, LenProperties
  <2>2. QED
    BY <1>2, <2>1 DEF Host
<1>8. call[p].was \subseteq host[u.id].open
  BY <1>1, <1>2 DEF Story, At
<1>9. Pending(p) = {} /\ Pending(p)' = {}
  BY <1>1, <1>4, <1>5 DEF Pending, Behind, At
<1>10. \A v \in call'[p].updated : call'[p].was \subseteq host'[v.id].open
  BY <1>4, <1>5, <1>7, <1>8
<1>11. LookedUp(p)'
  BY <1>4, <1>5 DEF LookedUp, At
<1>12. CASE port \in call[p].was
  <2>1. Log(p)' = Log(p)
    BY <1>1, <1>4, <1>5, <1>12 DEF Log, log
  <2>2. \A h \in DOMAIN host : host'[h].open = host[h].open /\ host'[h].ip = host[h].ip
    BY <1>7, <1>8, <1>12
  <2>3. PortsTold(Log(p), host)'
    BY <1>7, <2>1, <2>2 DEF Story, PortsTold
  <2>4. Story(p)'
    BY <1>4, <1>5, <1>7, <1>9, <1>10, <2>1, <2>2, <2>3 DEF Story, At
  <2>5. QED
    BY <1>11, <2>4
<1>13. CASE port \notin call[p].was
  <2>1. e \in Event /\ IsPort(e, u.id, port) /\ e.kind = "port.opened"
    BY <1>6, <1>7 DEF PortOpened, Event, IsPort
  <2> HIDE DEF e
  <2>2. Log(p)' = Append(Log(p), e)
    <3>1. call'[p].log = Append(call[p].log, e)
      BY <1>4, <1>5, <1>13 DEF log
    <3>2. QED
      BY <1>1, <2>1, <3>1, LogAppended
  <2>3. OnePortChanges(u.id, port, e.kind = "port.opened")
    BY <1>7, <2>1 DEF OnePortChanges
  <2>4. /\ PortsTold(Log(p), host)'
        /\ \A g \in DOMAIN host' : HostTold(Log(p)', g, host'[g].ip)
    BY <1>6, <1>7, <1>9, <2>1, <2>2, <2>3, PortStory
  <2>5. Story(p)'
    BY <1>4, <1>5, <1>9, <1>10, <2>4 DEF Story, At
  <2>6. QED
    BY <1>11, <2>5
<1>14. QED
  BY <1>12, <1>13

LEMMA ClosePortTells ==
  ASSUME Inv, NEW p \in Process, faults = 0, LookedUp(p), Story(p),
         ClosePort(p)
  PROVE  LookedUp(p)' /\ Story(p)'
<1>1. /\ call \in [Process -> Call] /\ call[p] \in Call /\ call[p].pc = "close"
      /\ UNCHANGED event
  BY DEF ClosePort, At, Inv, TypeOK
<1>2. PICK u \in call[p].updated, port \in call[p].stale :
        /\ host' = [host EXCEPT ![u.id].open = @ \ {port}]
        /\ call' = [call EXCEPT ![p].stale = call[p].stale \ {port},
                      ![p].log = Append(call[p].log, PortClosed(u.id, port))]
  BY DEF ClosePort
<1> DEFINE e     == PortClosed(u.id, port)
           stale == call[p].stale \ {port}
           log   == Append(call[p].log, e)
           c     == [call[p] EXCEPT !.stale = stale, !.log = log]
<1>3. call' = [call EXCEPT ![p] = c]
  BY <1>2
<1>4. c.pc = "close" /\ c.log = log
  <2> HIDE DEF log, stale
  <2>1. QED
    BY <1>1 DEF Call
<1> HIDE DEF c
<1>5. call'[p] = c /\ port \in Port
  BY <1>1, <1>2, <1>3 DEF Call
<1>6. /\ u.id \in DOMAIN host /\ u.id \in Nat /\ host[u.id] \in Host
      /\ DOMAIN host' = DOMAIN host
      /\ host'[u.id].open = host[u.id].open \ {port}
      /\ host'[u.id].ip = host[u.id].ip
      /\ \A h \in DOMAIN host \ {u.id} : host'[h] = host[h]
  <2>1. u.id \in 1..Len(host) /\ Len(host) \in Nat /\ u.id \in DOMAIN host
        /\ host[u.id] \in Host
    BY <1>2, UpdatedRow, CallFields, LenProperties
  <2>2. QED
    BY <1>2, <2>1 DEF Host
<1>7. Pending(p) = {} /\ Pending(p)' = {}
  BY <1>1, <1>4, <1>5 DEF Pending, Behind, At
<1>8. e \in Event /\ IsPort(e, u.id, port) /\ e.kind # "port.opened"
  BY <1>5, <1>6 DEF PortClosed, Event, IsPort
<1> HIDE DEF e
<1>9. Log(p)' = Append(Log(p), e)
  BY <1>1, <1>4, <1>5, <1>8, LogAppended
<1>10. OnePortChanges(u.id, port, e.kind = "port.opened")
  BY <1>6, <1>8 DEF OnePortChanges
<1>11. /\ PortsTold(Log(p), host)'
       /\ \A g \in DOMAIN host' : HostTold(Log(p)', g, host'[g].ip)
  BY <1>5, <1>6, <1>7, <1>8, <1>9, <1>10, PortStory
<1>12. Story(p)'
  BY <1>4, <1>5, <1>7, <1>11 DEF Story, At
<1>13. LookedUp(p)'
  BY <1>4, <1>5 DEF LookedUp, At
<1>14. QED
  BY <1>12, <1>13

LEMMA TurnReadsTells ==
  ASSUME Inv, NEW p \in Process, faults = 0, LookedUp(p), Story(p),
         FindStale(p) \/ ReadPorts(p)
  PROVE  LookedUp(p)' /\ Story(p)'
<1>1. /\ call \in [Process -> Call] /\ call[p] \in Call
      /\ call[p].pc \in {"ports", "close"} /\ UNCHANGED host
  BY DEF FindStale, ReadPorts, At, Inv, TypeOK
<1>2. call'[p].pc \in {"close", "snapshot"}
  <2>1. CASE FindStale(p)
    <3>1. PICK stale : call' = [call EXCEPT ![p].pc = "close", ![p].stale = stale]
      BY <2>1 DEF FindStale
    <3>2. QED
      BY <1>1, <3>1 DEF Call
  <2>2. CASE ReadPorts(p)
    <3>1. PICK snap : call' = [call EXCEPT ![p].pc = "snapshot", ![p].snap = snap]
      BY <2>2 DEF ReadPorts
    <3>2. QED
      BY <1>1, <3>1 DEF Call
  <2>3. QED
    BY <2>1, <2>2
<1>3. Pending(p) = {} /\ Pending(p)' = {}
  BY <1>1, <1>2 DEF Pending, Behind, At
<1>4. Log(p)' = Log(p)
  BY <1>1, LogKept DEF At
<1>5. Story(p)'
  BY <1>1, <1>2, <1>3, <1>4, StoryStays
<1>6. LookedUp(p)'
  BY <1>2 DEF LookedUp, At
<1>7. QED
  BY <1>5, <1>6

-----------------------------------------------------------------------------
LEMMA NextTells ==
  ASSUME NEW server, Process = {server}, Inv, Known, Identities, RereadFinds,
         Fresh(server), TellsAll(server), [Next]_vars
  PROVE  TellsAll(server)'
<1>1. CASE UNCHANGED vars
  <2>1. /\ Log(server)' = Log(server) /\ Pending(server)' = Pending(server)
        /\ Now(server)' = Now(server) /\ ByMac(Now(server).mac)' = ByMac(Now(server).mac)
        /\ Identify(Now(server).mac, Now(server).ip)'
             = Identify(Now(server).mac, Now(server).ip)
    BY <1>1 DEF vars, Log, Pending, Behind, At, Reread, Identify, ByMac, BareAt, Now
  <2>2. UNCHANGED <<host, call, faults>>
    BY <1>1 DEF vars
  <2>3. LookedUp(server) => LookedUp(server)'
    BY <2>1, <2>2 DEF LookedUp, At
  <2>4. Story(server) => Story(server)'
    BY <2>1, <2>2 DEF Story, PortsTold, At
  <2>5. QED
    BY <2>2, <2>3, <2>4 DEF TellsAll
<1>2. CASE faults # 0 \/ Abandon(server)
  <2>1. faults' # 0
    BY <1>2, FaultsStay DEF Abandon, Inv, TypeOK
  <2>2. QED
    BY <2>1 DEF TellsAll
<1>3. CASE faults = 0 /\ Next /\ ~Abandon(server)
  <2>1. LookedUp(server) /\ Story(server)
    BY <1>3 DEF TellsAll
  <2>2. LookedUp(server)' /\ Story(server)'
    BY <1>3, <2>1, StartTells, MatchTells, InsertHostTells, UpdateHostTells,
       ReadBackTells, ReportTells, UpsertPortTells, ClosePortTells, TurnReadsTells,
       AfterTurnTells DEF Next
  <2>3. QED
    BY <2>2 DEF TellsAll
<1>4. QED
  BY <1>1, <1>2, <1>3

(* The log that is told, in the words of the property.                     *)
LEMMA ToldMatches ==
  ASSUME NEW h \in DOMAIN host, event \in Seq(Event),
         HostTold(event, h, host[h].ip), PortsTold(event, host)
  PROVE  /\ Cardinality(Told(h, {"host.new"})) = 1
         /\ LastIs(Told(h, {"host.new", "ip.changed"}),
                   LAMBDA e : e.what = host[h].ip)
         /\ \A port \in Port :
              LET S == {i \in Told(h, {"port.opened", "port.closed"}) :
                          event[i].what = port}
              IN  port \in host[h].open <=> LastIs(S, LAMBDA e : e.kind = "port.opened")
<1>1. \E i \in DOMAIN event : Told(h, {"host.new"}) = {i}
  BY DEF HostTold, AnnouncedOnce, IsNew, Told
<1>2. Cardinality(Told(h, {"host.new"})) = 1
  BY <1>1, FS_Singleton
<1>3. LastIs(Told(h, {"host.new", "ip.changed"}), LAMBDA e : e.what = host[h].ip)
  BY DEF HostTold, LastAddressIs, IsAddress, Told, LastIs
<1>4. ASSUME NEW port \in Port
      PROVE  LET S == {i \in Told(h, {"port.opened", "port.closed"}) :
                         event[i].what = port}
             IN  port \in host[h].open <=> LastIs(S, LAMBDA e : e.kind = "port.opened")
  <2>1. port \in host[h].open <=> LastOpened(event, h, port)
    BY DEF PortsTold
  <2>2. QED
    BY <2>1 DEF LastOpened, IsPort, Told, LastIs
<1>5. QED
  BY <1>2, <1>3, <1>4

LEMMA InitTells ==
  ASSUME Init, NEW p \in Process
  PROVE  TellsAll(p)
<1>1. /\ call[p] = Idle /\ host = <<>> /\ DOMAIN host = {}
      /\ Idle.pc = "idle" /\ Idle.found = {} /\ Idle.log = <<>>
  BY DEF Init, Idle
<1>2. Pending(p) = {}
  BY <1>1 DEF Pending, Behind, At
<1>3. QED
  BY <1>1, <1>2 DEF TellsAll, LookedUp, Story, PortsTold, At

(* The events of one server that is never cut short tell all of its        *)
(* tables: who was announced, who moved where, which port opened or closed *)
(* last, for every order of batches and every row.                         *)
THEOREM LogTellsAllAlone ==
  ASSUME NEW server, Process = {server}
  PROVE  Spec => []LogTellsAll
<1> DEFINE AllInv == /\ Inv /\ Known /\ Identities /\ RereadFinds
                     /\ Fresh(server) /\ TellsAll(server)
<1>1. Init => AllInv
  BY InitAlone, InitTells
<1>2. AllInv /\ [Next]_vars => AllInv'
  <2>1. \A p, q \in Process : p = q
    OBVIOUS
  <2>2. QED
    BY <2>1, NextKeeps, NextKnown, IdentitiesKept, NextRereads, NextFresh, NextTells
<1>3. AllInv => LogTellsAll
  <2>1. SUFFICES ASSUME AllInv, Quiet, faults = 0, NEW h \in DOMAIN host
                 PROVE  /\ HostTold(event, h, host[h].ip)
                        /\ PortsTold(event, host) /\ event \in Seq(Event)
    BY ToldMatches DEF LogTellsAll, LogMatchesTables
  <2>2. call[server].pc = "idle" /\ call[server].log = <<>> /\ Story(server)
    BY <2>1 DEF Quiet, At, TellsAll, Story
  <2>3. event \in Seq(Event) /\ Log(server) = event /\ Pending(server) = {}
    BY <2>1, <2>2, ConcatEmptySeq, CallFields DEF Log, Pending, Behind, At
  <2>4. QED
    BY <2>2, <2>3 DEF Story
<1>4. QED
  BY <1>1, <1>2, <1>3, PTL DEF Spec
===============================================================================
