--------------------------- MODULE CorrelationProofs ---------------------------
(***************************************************************************)
(* Theorems about Correlation: what holds of the host table and of its     *)
(* address history whichever processes correlate, however their statements *)
(* interleave and wherever they are cut short.                             *)
(***************************************************************************)
EXTENDS Correlation, SequenceTheorems, TLAPS

Busy == {"match_mac", "match_ip", "upsert", "reread", "report", "ports",
         "close", "snapshot"}

(* A call that works on a host has one to work on.                         *)
HasHost == \A p \in Process : call[p].pc \in Busy => call[p].todo # <<>>

(* An event that waits for its insertion is about a row that exists.       *)
LogRefers ==
  \A p \in Process : \A i \in DOMAIN call[p].log :
    call[p].log[i].host \in DOMAIN host

Inv == TypeOK /\ HasHost /\ LogRefers

-----------------------------------------------------------------------------
LEMMA GroupPorts ==
  ASSUME NEW g \in Group
  PROVE  /\ g.mac \in Mac \cup {NoMac}
         /\ g.ip \in Ip
         /\ g.ports \in Seq(Port)
<1>1. PICK n \in 0..MaxPortFacts : g.ports \in [1..n -> Port]
  BY DEF Group
<1>2. n \in Nat
  BY <1>1, CorrelationAssumption
<1>3. g.ports \in Seq(Port)
  BY <1>1, <1>2, SeqDef
<1>4. QED
  BY <1>3 DEF Group

LEMMA BatchIsSeq ==
  ASSUME NEW b \in Batch
  PROVE  b \in Seq(Group)
<1>1. PICK n \in 0..MaxGroups : b \in [1..n -> Group]
  BY DEF Batch
<1>2. n \in Nat
  BY <1>1, CorrelationAssumption
<1>3. QED
  BY <1>1, <1>2, SeqDef

(* The host that a busy call works on, and what is left after it.          *)
LEMMA Current ==
  ASSUME Inv, NEW p \in Process, call[p].pc \in Busy
  PROVE  /\ Now(p).mac \in Mac \cup {NoMac}
         /\ Now(p).ip \in Ip
         /\ Now(p).ports \in Seq(Port)
         /\ Tail(call[p].todo) \in Seq(Group)
<1>1. call[p].todo \in Seq(Group) /\ call[p].todo # <<>>
  BY DEF Inv, TypeOK, HasHost, Call
<1>2. Head(call[p].todo) \in Group /\ Tail(call[p].todo) \in Seq(Group)
  BY <1>1, HeadTailProperties
<1>3. QED
  BY <1>2, GroupPorts DEF Now

LEMMA IdleType == Idle \in Call
<1>1. NoSnapshot \in Snapshot
  BY DEF Snapshot
<1>2. /\ <<>> \in Seq(Group) /\ <<>> \in Seq(Port) /\ <<>> \in Seq(Event)
  OBVIOUS
<1>3. QED
  BY <1>1, <1>2 DEF Idle, Call

(* The rows that a call refers to exist.                                   *)
Refers(c, n) == /\ c.found \subseteq [id : 1..n, ip : Ip]
                /\ c.updated \subseteq [id : 1..n, ip : Ip]
                /\ \A i \in DOMAIN c.log : c.log[i].host \in 1..n

(* What a step has to show: the host table only grows, and the call it     *)
(* moved on is well formed.                                                *)
LEMMA StepKeeps ==
  ASSUME Inv, NEW p \in Process, NEW c \in Call,
         c.pc \in Busy => c.todo # <<>>,
         call' = [call EXCEPT ![p] = c],
         host' \in Seq(Host), Len(host) <= Len(host'),
         Refers(c, Len(host')),
         event' \in Seq(Event),
         \A i \in DOMAIN event' : event'[i].host \in DOMAIN host',
         scans' \in 0..MaxScans, faults' \in Nat
  PROVE  Inv'
<1>1. /\ call' \in [Process -> Call]
      /\ call'[p] = c
      /\ \A q \in Process \ {p} : call'[q] = call[q]
  BY DEF Inv, TypeOK
<1>2. DOMAIN host \subseteq DOMAIN host' /\ DOMAIN host' = 1..Len(host')
  BY DEF Inv, TypeOK
<1>3. ASSUME NEW q \in Process
      PROVE  /\ call'[q].found \subseteq [id : DOMAIN host', ip : Ip]
             /\ call'[q].updated \subseteq [id : DOMAIN host', ip : Ip]
             /\ call'[q].pc \in Busy => call'[q].todo # <<>>
             /\ \A i \in DOMAIN call'[q].log : call'[q].log[i].host \in DOMAIN host'
  <2>1. CASE q = p
    BY <1>1, <1>2, <2>1 DEF Refers
  <2>2. CASE q # p
    <3>1. /\ call[q].found \subseteq [id : DOMAIN host, ip : Ip]
          /\ call[q].updated \subseteq [id : DOMAIN host, ip : Ip]
          /\ call[q].pc \in Busy => call[q].todo # <<>>
          /\ \A i \in DOMAIN call[q].log : call[q].log[i].host \in DOMAIN host
      BY DEF Inv, TypeOK, HasHost, LogRefers
    <3>2. [id : DOMAIN host, ip : Ip] \subseteq [id : DOMAIN host', ip : Ip]
      BY <1>2
    <3>3. QED
      BY <1>1, <2>2, <3>1, <3>2
  <2>3. QED
    BY <2>1, <2>2
<1>4. QED
  BY <1>1, <1>3 DEF Inv, TypeOK, HasHost, LogRefers

(* The call of a process, taken apart.                                     *)
LEMMA CallFields ==
  ASSUME Inv, NEW p \in Process
  PROVE  /\ call[p] \in Call
         /\ call[p].pc \in Busy => call[p].todo # <<>>
         /\ Refers(call[p], Len(host))
         /\ host \in Seq(Host) /\ event \in Seq(Event)
         /\ \A i \in DOMAIN event : event[i].host \in DOMAIN host
         /\ scans \in 0..MaxScans /\ faults \in Nat
         /\ DOMAIN host = 1..Len(host)
<1>1. host \in Seq(Host) /\ DOMAIN host = 1..Len(host)
  BY DEF Inv, TypeOK
<1>2. QED
  BY <1>1 DEF Inv, TypeOK, HasHost, LogRefers, Refers

(* Most steps only move a call on.                                         *)
LEMMA CallStepKeeps ==
  ASSUME Inv, NEW p \in Process, NEW c \in Call,
         c.pc \in Busy => c.todo # <<>>, Refers(c, Len(host)),
         call' = [call EXCEPT ![p] = c], UNCHANGED <<host, event, scans, faults>>
  PROVE  Inv'
<1>1. Len(host) \in Nat /\ Len(host') = Len(host) /\ Len(host) <= Len(host')
  BY CallFields, LenProperties
<1>2. /\ host' \in Seq(Host) /\ Refers(c, Len(host')) /\ event' \in Seq(Event)
      /\ scans' \in 0..MaxScans /\ faults' \in Nat
  BY <1>1, CallFields
<1>3. \A i \in DOMAIN event' : event'[i].host \in DOMAIN host'
  BY CallFields
<1>4. QED
  BY <1>1, <1>2, <1>3, StepKeeps

LEMMA BeginKeeps ==
  ASSUME Inv, NEW p \in Process, Begin(p)
  PROVE  Inv'
<1>1. PICK b \in Batch, observed \in Observations :
        call' = [call EXCEPT ![p] =
                   [Idle EXCEPT !.pc = IF b = <<>> THEN "events" ELSE "match_mac",
                                !.todo = b, !.observed = observed]]
  BY DEF Begin
<1> DEFINE c == [Idle EXCEPT !.pc = IF b = <<>> THEN "events" ELSE "match_mac",
                             !.todo = b, !.observed = observed]
<1>2. b \in Seq(Group) /\ observed \in SUBSET Ip
  BY BatchIsSeq, CorrelationAssumption
<1>3. c \in Call /\ (c.pc \in Busy => c.todo # <<>>) /\ Refers(c, Len(host))
  <2>1. c.found = {} /\ c.updated = {} /\ c.log = <<>>
    BY DEF Idle
  <2>2. DOMAIN c.log = {}
    BY <2>1
  <2>3. c \in Call /\ (c.pc \in Busy => c.todo # <<>>)
    BY <1>2, IdleType DEF Call, Idle, Busy
  <2> HIDE DEF c
  <2>4. QED
    BY <2>1, <2>2, <2>3 DEF Refers
<1>4. scans' \in 0..MaxScans
  <2>1. scans' = scans + 1 /\ scans < MaxScans
    BY DEF Begin
  <2>2. QED
    BY <2>1, CallFields, CorrelationAssumption
<1> HIDE DEF c
<1>5. call' = [call EXCEPT ![p] = c]
  BY <1>1 DEF c
<1>6. QED
  <2>1. UNCHANGED <<host, event, faults>>
    BY DEF Begin
  <2>2. /\ host' \in Seq(Host) /\ Len(host) <= Len(host')
        /\ Refers(c, Len(host')) /\ event' \in Seq(Event) /\ faults' \in Nat
    BY <1>3, <2>1, CallFields, LenProperties
  <2>3. \A i \in DOMAIN event' : event'[i].host \in DOMAIN host'
    BY <2>1, CallFields
  <2>4. QED
    BY <1>3, <1>4, <1>5, <2>2, <2>3, StepKeeps

LEMMA MatchKeeps ==
  ASSUME Inv, NEW p \in Process, MatchMac(p) \/ MatchIp(p)
  PROVE  Inv'
<1>1. /\ call[p].pc \in Busy /\ call[p] \in Call /\ call[p].todo # <<>>
      /\ Refers(call[p], Len(host)) /\ Len(host) \in Nat
      /\ host \in Seq(Host) /\ DOMAIN host = 1..Len(host)
  <2>1. call[p].pc \in Busy
    BY DEF MatchMac, MatchIp, At, Busy
  <2>2. QED
    BY <2>1, CallFields, LenProperties
<1>2. UNCHANGED <<host, event, scans, faults>>
  BY DEF MatchMac, MatchIp
<1>3. CASE \E pc \in {"match_ip", "upsert"} :
             call' = [call EXCEPT ![p] = [call[p] EXCEPT !.pc = pc]]
  <2>1. PICK pc \in {"match_ip", "upsert"} :
          call' = [call EXCEPT ![p] = [call[p] EXCEPT !.pc = pc]]
    BY <1>3
  <2> DEFINE c == [call[p] EXCEPT !.pc = pc]
  <2>2. c \in Call /\ c.todo = call[p].todo /\ Refers(c, Len(host))
    BY <1>1, <2>1 DEF Call, Refers
  <2>3. call' = [call EXCEPT ![p] = c]
    BY <2>1
  <2> HIDE DEF c
  <2>4. QED
    BY <1>1, <1>2, <2>2, <2>3, CallStepKeeps
<1>4. CASE \E h \in DOMAIN host :
             call' = [call EXCEPT ![p] =
                        [call[p] EXCEPT !.pc = "upsert",
                                        !.found = {[id |-> h, ip |-> host[h].ip]}]]
  <2>1. PICK h \in DOMAIN host :
          call' = [call EXCEPT ![p] =
                     [call[p] EXCEPT !.pc = "upsert",
                                     !.found = {[id |-> h, ip |-> host[h].ip]}]]
    BY <1>4
  <2> DEFINE u == [id |-> h, ip |-> host[h].ip]
             c == [call[p] EXCEPT !.pc = "upsert", !.found = {u}]
  <2>2. u \in [id : 1..Len(host), ip : Ip]
    <3>1. host[h] \in Host
      BY <1>1, <2>1
    <3>2. QED
      BY <1>1, <2>1, <3>1 DEF Host
  <2>3. c \in Call /\ c.todo = call[p].todo /\ Refers(c, Len(host))
    <3>1. u \in [id : Nat, ip : Ip]
      BY <1>1, <2>2
    <3> HIDE DEF u
    <3>2. QED
      BY <1>1, <2>2, <3>1 DEF Call, Refers
  <2>4. call' = [call EXCEPT ![p] = c]
    BY <2>1
  <2> HIDE DEF c
  <2>5. QED
    BY <1>1, <1>2, <2>3, <2>4, CallStepKeeps
<1>5. QED
  BY <1>3, <1>4 DEF MatchMac, MatchIp, ByMac, BareAt

LEMMA InsertHostKeeps ==
  ASSUME Inv, NEW p \in Process, InsertHost(p)
  PROVE  /\ Inv'
         /\ host' = Append(host, NewRow(Now(p).mac, Now(p).ip))
         /\ NewRow(Now(p).mac, Now(p).ip) \in Host
<1> DEFINE row == NewRow(Now(p).mac, Now(p).ip)
           u   == [id |-> NewId, ip |-> Now(p).ip]
           c   == [call[p] EXCEPT !.pc = "report", !.updated = {u}]
<1>1. /\ call[p].pc \in Busy /\ call[p] \in Call /\ call[p].todo # <<>>
      /\ Refers(call[p], Len(host)) /\ Len(host) \in Nat
      /\ host \in Seq(Host) /\ DOMAIN host = 1..Len(host)
  <2>1. call[p].pc \in Busy
    BY DEF InsertHost, At, Busy
  <2>2. QED
    BY <2>1, CallFields, LenProperties
<1>2. row \in Host
  BY <1>1, Current DEF NewRow, Host, Snapshot
<1>3. host' = Append(host, row)
  BY DEF InsertHost
<1>4. /\ host' \in Seq(Host) /\ Len(host') = Len(host) + 1
      /\ DOMAIN host' = 1..Len(host') /\ Len(host) \in 0..Len(host')
  BY <1>1, <1>2, <1>3, AppendProperties
<1>5. u \in [id : 1..Len(host'), ip : Ip]
  <2>1. Now(p).ip \in Ip
    BY <1>1, Current
  <2>2. QED
    BY <1>1, <1>4, <2>1 DEF NewId
<1>6. c \in Call /\ c.todo = call[p].todo /\ Refers(c, Len(host'))
  <2>1. u \in [id : Nat, ip : Ip]
    BY <1>4, <1>5
  <2>2. [id : 1..Len(host), ip : Ip] \subseteq [id : 1..Len(host'), ip : Ip]
    BY <1>4
  <2> HIDE DEF u
  <2>3. c \in Call /\ c.todo = call[p].todo
    BY <1>1, <2>1 DEF Call
  <2>4. /\ c.found = call[p].found /\ c.updated = {u} /\ c.log = call[p].log
    BY <1>1 DEF Call
  <2>5. \A i \in DOMAIN c.log : c.log[i].host \in 1..Len(host')
    BY <1>1, <1>4, <2>4 DEF Refers
  <2> HIDE DEF c
  <2>6. QED
    BY <1>1, <1>5, <2>2, <2>3, <2>4, <2>5 DEF Refers
<1>7. call' = [call EXCEPT ![p] = c] /\ UNCHANGED <<event, scans, faults>>
  BY DEF InsertHost
<1>8. Inv'
  <2> HIDE DEF c
  <2>1. \A i \in DOMAIN event' : event'[i].host \in DOMAIN host'
    BY <1>1, <1>4, <1>7, CallFields
  <2>2. QED
    <3>1. /\ Len(host) <= Len(host') /\ event' \in Seq(Event)
          /\ scans' \in 0..MaxScans /\ faults' \in Nat
      BY <1>4, <1>7, CallFields
    <3>2. QED
      BY <1>1, <1>4, <1>6, <1>7, <2>1, <3>1, StepKeeps
<1>9. QED
  BY <1>2, <1>3, <1>8

(* Rows keep their number when one of them is updated.                     *)
LEMMA SetRow ==
  ASSUME NEW rows \in Seq(Host), NEW k \in 1..Len(rows), NEW row \in Host,
         NEW t, t = [rows EXCEPT ![k] = row]
  PROVE  /\ t \in Seq(Host)
         /\ Len(t) = Len(rows)
         /\ DOMAIN t = DOMAIN rows
         /\ t[k] = row
         /\ \A j \in DOMAIN rows : j # k => t[j] = rows[j]
<1>1. rows \in [1..Len(rows) -> Host] /\ Len(rows) \in Nat
  BY LenProperties
<1>2. t \in [1..Len(rows) -> Host]
  BY <1>1
<1>3. t \in Seq(Host) /\ Len(t) = Len(rows)
  BY <1>1, <1>2, SeqDef, LenProperties
<1>4. QED
  BY <1>1, <1>3

(* A step that updates one row and moves the call on.                      *)
LEMMA RowStepKeeps ==
  ASSUME Inv, NEW p \in Process, NEW c \in Call,
         c.pc \in Busy => c.todo # <<>>, Refers(c, Len(host)),
         call' = [call EXCEPT ![p] = c],
         NEW k \in 1..Len(host), NEW row \in Host,
         host' = [host EXCEPT ![k] = row],
         UNCHANGED <<event, scans, faults>>
  PROVE  Inv'
<1>1. host \in Seq(Host) /\ Len(host) \in Nat
  BY CallFields, LenProperties
<1>2. host' \in Seq(Host) /\ Len(host') = Len(host) /\ DOMAIN host' = DOMAIN host
  BY <1>1, SetRow
<1>3. /\ Len(host) <= Len(host') /\ Refers(c, Len(host')) /\ event' \in Seq(Event)
      /\ scans' \in 0..MaxScans /\ faults' \in Nat
  BY <1>1, <1>2, CallFields
<1>4. \A i \in DOMAIN event' : event'[i].host \in DOMAIN host'
  BY <1>2, CallFields
<1>5. QED
  BY <1>2, <1>3, <1>4, StepKeeps

(* The row that a call has updated.                                        *)
LEMMA UpdatedRow ==
  ASSUME Inv, NEW p \in Process, NEW u \in call[p].updated
  PROVE  /\ u.id \in 1..Len(host) /\ u.id \in DOMAIN host
         /\ u.ip \in Ip
         /\ host[u.id] \in Host
<1>1. /\ u \in [id : 1..Len(host), ip : Ip] /\ host \in Seq(Host)
      /\ DOMAIN host = 1..Len(host)
  BY CallFields DEF Refers
<1>2. QED
  BY <1>1

LEMMA UpdateHostKeeps ==
  ASSUME Inv, NEW p \in Process, UpdateHost(p)
  PROVE  /\ Inv'
         /\ \E h \in Identify(Now(p).mac, Now(p).ip) :
              /\ h \in DOMAIN host
              /\ host' = [host EXCEPT ![h] = Refresh(host[h], Now(p).mac, Now(p).ip)]
              /\ Refresh(host[h], Now(p).mac, Now(p).ip) \in Host
<1>1. /\ call[p].pc \in Busy /\ call[p] \in Call /\ call[p].todo # <<>>
      /\ Refers(call[p], Len(host))
      /\ host \in Seq(Host) /\ DOMAIN host = 1..Len(host)
  <2>1. call[p].pc \in Busy
    BY DEF UpdateHost, At, Busy
  <2>2. QED
    BY <2>1, CallFields
<1>2. PICK h \in Identify(Now(p).mac, Now(p).ip) :
        host' = [host EXCEPT ![h] = Refresh(@, Now(p).mac, Now(p).ip)]
  BY DEF UpdateHost
<1>3. h \in DOMAIN host
  BY <1>2 DEF Identify, ByMac, BareAt
<1> DEFINE row == Refresh(host[h], Now(p).mac, Now(p).ip)
           c   == [call[p] EXCEPT !.pc = "reread"]
<1>4. row \in Host
  <2>1. host[h] \in Host
    BY <1>1, <1>3
  <2>2. Now(p).mac \in Mac \cup {NoMac} /\ Now(p).ip \in Ip
    BY <1>1, Current
  <2>3. QED
    BY <2>1, <2>2 DEF Refresh, Host
<1>5. host' = [host EXCEPT ![h] = row]
  BY <1>2
<1>6. c \in Call /\ c.todo = call[p].todo /\ Refers(c, Len(host))
  BY <1>1 DEF Call, Refers
<1>7. call' = [call EXCEPT ![p] = c] /\ UNCHANGED <<event, scans, faults>>
  BY DEF UpdateHost
<1>8. Inv'
  <2> HIDE DEF c, row
  <2>1. QED
    BY <1>1, <1>3, <1>4, <1>5, <1>6, <1>7, RowStepKeeps
<1>9. QED
  BY <1>2, <1>3, <1>4, <1>5, <1>8

LEMMA ReadBackKeeps ==
  ASSUME Inv, NEW p \in Process, ReadBack(p)
  PROVE  Inv'
<1>1. /\ call[p].pc \in Busy /\ call[p] \in Call /\ call[p].todo # <<>>
      /\ Refers(call[p], Len(host)) /\ Len(host) \in Nat
      /\ host \in Seq(Host) /\ DOMAIN host = 1..Len(host)
  <2>1. call[p].pc \in Busy
    BY DEF ReadBack, At, Busy
  <2>2. QED
    BY <2>1, CallFields, LenProperties
<1>2. UNCHANGED <<host, event, scans, faults>>
  BY DEF ReadBack
<1>3. CASE \E h \in DOMAIN host :
             call' = [call EXCEPT ![p] =
                        [call[p] EXCEPT !.pc = "report",
                                        !.updated = {[id |-> h, ip |-> host[h].ip]}]]
  <2>1. PICK h \in DOMAIN host :
          call' = [call EXCEPT ![p] =
                     [call[p] EXCEPT !.pc = "report",
                                     !.updated = {[id |-> h, ip |-> host[h].ip]}]]
    BY <1>3
  <2> DEFINE u == [id |-> h, ip |-> host[h].ip]
             c == [call[p] EXCEPT !.pc = "report", !.updated = {u}]
  <2>2. u \in [id : 1..Len(host), ip : Ip]
    <3>1. host[h] \in Host
      BY <1>1, <2>1
    <3>2. QED
      BY <1>1, <2>1, <3>1 DEF Host
  <2>3. c \in Call /\ c.todo = call[p].todo /\ Refers(c, Len(host))
    <3>1. u \in [id : Nat, ip : Ip]
      BY <1>1, <2>2
    <3> HIDE DEF u
    <3>2. QED
      BY <1>1, <2>2, <3>1 DEF Call, Refers
  <2>4. call' = [call EXCEPT ![p] = c]
    BY <2>1
  <2> HIDE DEF c
  <2>5. QED
    BY <1>1, <1>2, <2>3, <2>4, CallStepKeeps
<1>4. CASE call' = [call EXCEPT ![p] = Idle]
  <2>1. (Idle.pc \in Busy => Idle.todo # <<>>) /\ Refers(Idle, Len(host))
    BY DEF Idle, Busy, Refers
  <2>2. QED
    BY <1>2, <1>4, <2>1, IdleType, CallStepKeeps
<1>5. QED
  BY <1>3, <1>4 DEF ReadBack, Reread, ByMac, BareAt

(* Events put at the end of a call's log.                                  *)
LEMMA LogGrows ==
  ASSUME NEW n \in Nat, NEW log \in Seq(Event), NEW more \in Seq(Event),
         \A i \in DOMAIN log : log[i].host \in 1..n,
         \A i \in DOMAIN more : more[i].host \in 1..n
  PROVE  /\ log \o more \in Seq(Event)
         /\ \A i \in DOMAIN (log \o more) : (log \o more)[i].host \in 1..n
<1>1. /\ log \o more \in Seq(Event)
      /\ Len(log \o more) = Len(log) + Len(more)
      /\ \A i \in 1..Len(log) + Len(more) :
           (log \o more)[i] = IF i <= Len(log) THEN log[i] ELSE more[i - Len(log)]
  BY ConcatProperties
<1>2. /\ DOMAIN log = 1..Len(log) /\ DOMAIN more = 1..Len(more)
      /\ DOMAIN (log \o more) = 1..Len(log \o more)
      /\ Len(log) \in Nat /\ Len(more) \in Nat
  BY <1>1, LenProperties
<1>3. ASSUME NEW i \in 1..Len(log) + Len(more)
      PROVE  (log \o more)[i].host \in 1..n
  <2>1. CASE i <= Len(log)
    BY <1>1, <1>2, <2>1
  <2>2. CASE ~(i <= Len(log))
    <3>1. i - Len(log) \in DOMAIN more
      BY <1>2, <2>2
    <3>2. QED
      BY <1>1, <2>2, <3>1
  <2>3. QED
    BY <2>1, <2>2
<1>4. QED
  BY <1>1, <1>2, <1>3

LEMMA OneEvent ==
  ASSUME NEW n \in Nat, NEW e \in Event, e.host \in 1..n
  PROVE  /\ <<e>> \in Seq(Event)
         /\ \A i \in DOMAIN <<e>> : <<e>>[i].host \in 1..n
  OBVIOUS

LEMMA EventAppended ==
  ASSUME NEW n \in Nat, NEW log \in Seq(Event), NEW e \in Event,
         \A i \in DOMAIN log : log[i].host \in 1..n, e.host \in 1..n
  PROVE  /\ Append(log, e) \in Seq(Event)
         /\ \A i \in DOMAIN Append(log, e) : Append(log, e)[i].host \in 1..n
<1>1. Append(log, e) = log \o <<e>>
  OBVIOUS
<1>2. QED
  BY <1>1, OneEvent, LogGrows

LEMMA NewsType ==
  ASSUME Inv, NEW p \in Process, NEW u \in call[p].updated
  PROVE  /\ News(p, u.id, u.ip) \in Seq(Event)
         /\ \A i \in DOMAIN News(p, u.id, u.ip) :
              News(p, u.id, u.ip)[i].host \in 1..Len(host)
<1>1. /\ u.id \in 1..Len(host) /\ u.ip \in Ip /\ Len(host) \in Nat /\ u.id \in Nat
  BY UpdatedRow, CallFields, LenProperties
<1>2. CASE call[p].found = {}
  <2> DEFINE e == HostNew(u.id, u.ip)
  <2>1. e \in Event /\ e.host \in 1..Len(host)
    BY <1>1 DEF HostNew, Event
  <2>2. News(p, u.id, u.ip) = <<e>>
    BY <1>2 DEF News
  <2> HIDE DEF e
  <2>3. QED
    BY <1>1, <2>1, <2>2, OneEvent
<1>3. CASE call[p].found # {} /\ \E f \in call[p].found : f.ip # u.ip
  <2> DEFINE g == CHOOSE f \in call[p].found : TRUE
             e == IpChanged(u.id, g.ip, u.ip)
  <2>1. g \in call[p].found
    BY <1>3
  <2>2. g.ip \in Ip
    BY <2>1, CallFields DEF Refers
  <2> HIDE DEF g
  <2>3. e \in Event /\ e.host \in 1..Len(host)
    BY <1>1, <2>2 DEF IpChanged, Event
  <2>4. News(p, u.id, u.ip) = <<e>>
    BY <1>3 DEF News, g
  <2> HIDE DEF e
  <2>5. QED
    BY <1>1, <2>3, <2>4, OneEvent
<1>4. CASE call[p].found # {} /\ ~\E f \in call[p].found : f.ip # u.ip
  <2>1. News(p, u.id, u.ip) = <<>>
    BY <1>4 DEF News
  <2>2. QED
    BY <2>1
<1>5. QED
  BY <1>2, <1>3, <1>4

LEMMA ReportKeeps ==
  ASSUME Inv, NEW p \in Process, Report(p)
  PROVE  Inv'
<1>1. /\ call[p].pc \in Busy /\ call[p] \in Call /\ call[p].todo # <<>>
      /\ Refers(call[p], Len(host)) /\ Len(host) \in Nat
  <2>1. call[p].pc \in Busy
    BY DEF Report, At, Busy
  <2>2. QED
    BY <2>1, CallFields, LenProperties
<1>2. PICK u \in call[p].updated :
        call' = [call EXCEPT ![p] =
                   [call[p] EXCEPT !.pc = "ports",
                      !.log = call[p].log \o News(p, u.id, u.ip),
                      !.was = host[u.id].open, !.ports = Now(p).ports]]
  BY DEF Report
<1> DEFINE log == call[p].log \o News(p, u.id, u.ip)
           was == host[u.id].open
           prt == Now(p).ports
           c   == [call[p] EXCEPT !.pc = "ports", !.log = log, !.was = was,
                                  !.ports = prt]
<1>3. log \in Seq(Event) /\ \A i \in DOMAIN log : log[i].host \in 1..Len(host)
  <2>1. /\ call[p].log \in Seq(Event)
        /\ \A i \in DOMAIN call[p].log : call[p].log[i].host \in 1..Len(host)
    BY <1>1 DEF Call, Refers
  <2>2. QED
    BY <1>1, <1>2, <2>1, NewsType, LogGrows
<1>4. was \in SUBSET Port
  BY <1>2, UpdatedRow DEF Host
<1>5. prt \in Seq(Port)
  BY <1>1, Current
<1>6. call' = [call EXCEPT ![p] = c]
  BY <1>2
<1>7. c \in Call /\ c.todo = call[p].todo /\ Refers(c, Len(host))
  <2> HIDE DEF log, was, prt
  <2>1. c \in Call /\ c.todo = call[p].todo
    BY <1>1, <1>3, <1>4, <1>5 DEF Call
  <2>2. c.found = call[p].found /\ c.updated = call[p].updated /\ c.log = log
    BY <1>1 DEF Call
  <2> HIDE DEF c
  <2>3. QED
    BY <1>1, <1>3, <2>1, <2>2 DEF Refers
<1> HIDE DEF c
<1>8. UNCHANGED <<host, event, scans, faults>>
  BY DEF Report
<1>9. QED
  BY <1>1, <1>6, <1>7, <1>8, CallStepKeeps

(* What a step leaves alone that only touches ports or a snapshot.         *)
SameIdentity ==
  /\ DOMAIN host' = DOMAIN host
  /\ \A h \in DOMAIN host : /\ host'[h].mac = host[h].mac
                            /\ host'[h].ip = host[h].ip
                            /\ host'[h].ips = host[h].ips

LEMMA RowKeepsIdentity ==
  ASSUME Inv, NEW k \in 1..Len(host), NEW row \in Host,
         host' = [host EXCEPT ![k] = row],
         row.mac = host[k].mac, row.ip = host[k].ip, row.ips = host[k].ips
  PROVE  SameIdentity
<1>1. host \in Seq(Host)
  BY DEF Inv, TypeOK
<1>2. DOMAIN host' = DOMAIN host /\ host'[k] = row
      /\ \A j \in DOMAIN host : j # k => host'[j] = host[j]
  BY <1>1, SetRow
<1>3. QED
  BY <1>2 DEF SameIdentity

LEMMA UpsertPortKeeps ==
  ASSUME Inv, NEW p \in Process, UpsertPort(p)
  PROVE  Inv' /\ SameIdentity
<1>1. /\ call[p].pc \in Busy /\ call[p] \in Call /\ call[p].todo # <<>>
      /\ Refers(call[p], Len(host)) /\ Len(host) \in Nat
  <2>1. call[p].pc \in Busy
    BY DEF UpsertPort, At, Busy
  <2>2. QED
    BY <2>1, CallFields, LenProperties
<1> DEFINE port == Head(call[p].ports)
           rest == Tail(call[p].ports)
<1>2. PICK u \in call[p].updated :
        /\ host' = [host EXCEPT ![u.id].open = @ \cup {port}]
        /\ call' = [call EXCEPT ![p].ports = rest,
                      ![p].log = IF port \in call[p].was THEN call[p].log
                                 ELSE Append(call[p].log, PortOpened(u.id, port))]
  BY DEF UpsertPort
<1>3. port \in Port /\ rest \in Seq(Port)
  <2>1. call[p].ports \in Seq(Port) /\ call[p].ports # <<>>
    BY <1>1 DEF Call, UpsertPort
  <2>2. QED
    BY <2>1, HeadTailProperties
<1> DEFINE e   == PortOpened(u.id, port)
           log == IF port \in call[p].was THEN call[p].log ELSE Append(call[p].log, e)
           c   == [call[p] EXCEPT !.ports = rest, !.log = log]
           row == [host[u.id] EXCEPT !.open = @ \cup {port}]
<1>4. u.id \in 1..Len(host) /\ u.id \in Nat /\ host[u.id] \in Host
  BY <1>1, <1>2, UpdatedRow
<1>5. log \in Seq(Event) /\ \A i \in DOMAIN log : log[i].host \in 1..Len(host)
  <2>1. /\ call[p].log \in Seq(Event)
        /\ \A i \in DOMAIN call[p].log : call[p].log[i].host \in 1..Len(host)
    BY <1>1 DEF Call, Refers
  <2>2. e \in Event /\ e.host \in 1..Len(host)
    BY <1>3, <1>4 DEF PortOpened, Event
  <2> HIDE DEF e
  <2>3. QED
    BY <1>1, <2>1, <2>2, EventAppended
<1>6. call' = [call EXCEPT ![p] = c]
  BY <1>2
<1>7. /\ host' = [host EXCEPT ![u.id] = row] /\ row \in Host
      /\ row.mac = host[u.id].mac /\ row.ip = host[u.id].ip
      /\ row.ips = host[u.id].ips
  BY <1>2, <1>3, <1>4 DEF Host
<1>8. c \in Call /\ c.todo = call[p].todo /\ Refers(c, Len(host))
  <2> HIDE DEF log, rest
  <2>1. c \in Call /\ c.todo = call[p].todo
    BY <1>1, <1>3, <1>5 DEF Call
  <2>2. c.found = call[p].found /\ c.updated = call[p].updated /\ c.log = log
    BY <1>1 DEF Call
  <2> HIDE DEF c
  <2>3. QED
    BY <1>1, <1>5, <2>1, <2>2 DEF Refers
<1> HIDE DEF c, row
<1>9. UNCHANGED <<event, scans, faults>>
  BY DEF UpsertPort
<1>10. QED
  BY <1>1, <1>4, <1>6, <1>7, <1>8, <1>9, RowStepKeeps, RowKeepsIdentity

LEMMA FindStaleKeeps ==
  ASSUME Inv, NEW p \in Process, FindStale(p)
  PROVE  Inv'
<1>1. /\ call[p].pc \in Busy /\ call[p] \in Call /\ call[p].todo # <<>>
      /\ Refers(call[p], Len(host)) /\ Len(host) \in Nat
  <2>1. call[p].pc \in Busy
    BY DEF FindStale, At, Busy
  <2>2. QED
    BY <2>1, CallFields, LenProperties
<1>2. PICK u \in call[p].updated :
        call' = [call EXCEPT ![p] =
                   [call[p] EXCEPT !.pc = "close",
                      !.stale = IF u.ip \in call[p].observed
                                THEN host[u.id].open \ Seen(p) ELSE {}]]
  BY DEF FindStale
<1> DEFINE stale == IF u.ip \in call[p].observed
                    THEN host[u.id].open \ Seen(p) ELSE {}
           c     == [call[p] EXCEPT !.pc = "close", !.stale = stale]
<1>3. stale \in SUBSET Port
  BY <1>2, UpdatedRow DEF Host
<1>4. call' = [call EXCEPT ![p] = c]
  BY <1>2
<1>5. c \in Call /\ c.todo = call[p].todo /\ Refers(c, Len(host))
  <2> HIDE DEF stale
  <2>1. QED
    BY <1>1, <1>3 DEF Call, Refers
<1> HIDE DEF c
<1>6. UNCHANGED <<host, event, scans, faults>>
  BY DEF FindStale
<1>7. QED
  BY <1>1, <1>4, <1>5, <1>6, CallStepKeeps

LEMMA ClosePortKeeps ==
  ASSUME Inv, NEW p \in Process, ClosePort(p)
  PROVE  Inv' /\ SameIdentity
<1>1. /\ call[p].pc \in Busy /\ call[p] \in Call /\ call[p].todo # <<>>
      /\ Refers(call[p], Len(host)) /\ Len(host) \in Nat
  <2>1. call[p].pc \in Busy
    BY DEF ClosePort, At, Busy
  <2>2. QED
    BY <2>1, CallFields, LenProperties
<1>2. PICK u \in call[p].updated, port \in call[p].stale :
        /\ host' = [host EXCEPT ![u.id].open = @ \ {port}]
        /\ call' = [call EXCEPT ![p].stale = call[p].stale \ {port},
                      ![p].log = Append(call[p].log, PortClosed(u.id, port))]
  BY DEF ClosePort
<1> DEFINE e     == PortClosed(u.id, port)
           log   == Append(call[p].log, e)
           stale == call[p].stale \ {port}
           c     == [call[p] EXCEPT !.stale = stale, !.log = log]
           row   == [host[u.id] EXCEPT !.open = @ \ {port}]
<1>3. port \in Port /\ stale \in SUBSET Port
  BY <1>1, <1>2 DEF Call
<1>4. u.id \in 1..Len(host) /\ u.id \in Nat /\ host[u.id] \in Host
  BY <1>1, <1>2, UpdatedRow
<1>5. log \in Seq(Event) /\ \A i \in DOMAIN log : log[i].host \in 1..Len(host)
  <2>1. /\ call[p].log \in Seq(Event)
        /\ \A i \in DOMAIN call[p].log : call[p].log[i].host \in 1..Len(host)
    BY <1>1 DEF Call, Refers
  <2>2. e \in Event /\ e.host \in 1..Len(host)
    BY <1>3, <1>4 DEF PortClosed, Event
  <2> HIDE DEF e
  <2>3. QED
    BY <1>1, <2>1, <2>2, EventAppended
<1>6. call' = [call EXCEPT ![p] = c]
  BY <1>2
<1>7. /\ host' = [host EXCEPT ![u.id] = row] /\ row \in Host
      /\ row.mac = host[u.id].mac /\ row.ip = host[u.id].ip
      /\ row.ips = host[u.id].ips
  BY <1>2, <1>3, <1>4 DEF Host
<1>8. c \in Call /\ c.todo = call[p].todo /\ Refers(c, Len(host))
  <2> HIDE DEF log, stale
  <2>1. c \in Call /\ c.todo = call[p].todo
    BY <1>1, <1>3, <1>5 DEF Call
  <2>2. c.found = call[p].found /\ c.updated = call[p].updated /\ c.log = log
    BY <1>1 DEF Call
  <2> HIDE DEF c
  <2>3. QED
    BY <1>1, <1>5, <2>1, <2>2 DEF Refers
<1> HIDE DEF c, row
<1>9. UNCHANGED <<event, scans, faults>>
  BY DEF ClosePort
<1>10. QED
  BY <1>1, <1>4, <1>6, <1>7, <1>8, <1>9, RowStepKeeps, RowKeepsIdentity

LEMMA ReadPortsKeeps ==
  ASSUME Inv, NEW p \in Process, ReadPorts(p)
  PROVE  Inv'
<1>1. /\ call[p].pc \in Busy /\ call[p] \in Call /\ call[p].todo # <<>>
      /\ Refers(call[p], Len(host)) /\ Len(host) \in Nat
  <2>1. call[p].pc \in Busy
    BY DEF ReadPorts, At, Busy
  <2>2. QED
    BY <2>1, CallFields, LenProperties
<1>2. PICK u \in call[p].updated :
        call' = [call EXCEPT ![p] =
                   [call[p] EXCEPT !.pc = "snapshot",
                      !.snap = [ip |-> u.ip, open |-> host[u.id].open]]]
  BY DEF ReadPorts
<1> DEFINE snap == [ip |-> u.ip, open |-> host[u.id].open]
           c    == [call[p] EXCEPT !.pc = "snapshot", !.snap = snap]
<1>3. snap \in Snapshot
  <2>1. u.ip \in Ip /\ host[u.id].open \in SUBSET Port
    BY <1>2, UpdatedRow DEF Host
  <2>2. QED
    BY <2>1 DEF Snapshot
<1>4. call' = [call EXCEPT ![p] = c]
  BY <1>2
<1>5. c \in Call /\ c.todo = call[p].todo /\ Refers(c, Len(host))
  <2> HIDE DEF snap
  <2>1. QED
    BY <1>1, <1>3 DEF Call, Refers
<1> HIDE DEF c
<1>6. UNCHANGED <<host, event, scans, faults>>
  BY DEF ReadPorts
<1>7. QED
  BY <1>1, <1>4, <1>5, <1>6, CallStepKeeps

LEMMA InsertSnapshotKeeps ==
  ASSUME Inv, NEW p \in Process, InsertSnapshot(p)
  PROVE  Inv' /\ SameIdentity
<1>1. /\ call[p].pc \in Busy /\ call[p] \in Call /\ call[p].todo # <<>>
      /\ Refers(call[p], Len(host)) /\ Len(host) \in Nat
  <2>1. call[p].pc \in Busy
    BY DEF InsertSnapshot, At, Busy
  <2>2. QED
    BY <2>1, CallFields, LenProperties
<1>2. PICK u \in call[p].updated :
        host' = [host EXCEPT ![u.id].snap = call[p].snap]
  BY DEF InsertSnapshot
<1> DEFINE rest == Tail(call[p].todo)
           pc   == IF rest = <<>> THEN "events" ELSE "match_mac"
           c    == [Idle EXCEPT !.pc = pc, !.todo = rest,
                                !.observed = call[p].observed,
                                !.log = call[p].log]
           row  == [host[u.id] EXCEPT !.snap = call[p].snap]
<1>3. u.id \in 1..Len(host) /\ host[u.id] \in Host
  BY <1>2, UpdatedRow
<1>4. /\ host' = [host EXCEPT ![u.id] = row] /\ row \in Host
      /\ row.mac = host[u.id].mac /\ row.ip = host[u.id].ip
      /\ row.ips = host[u.id].ips
  BY <1>1, <1>2, <1>3 DEF Host, Call
<1>5. c \in Call /\ (c.pc \in Busy => c.todo # <<>>) /\ Refers(c, Len(host))
  <2>1. rest \in Seq(Group)
    BY <1>1, Current
  <2>2. call[p].observed \in SUBSET Ip /\ call[p].log \in Seq(Event)
    BY <1>1 DEF Call
  <2>3. /\ c.found = {} /\ c.updated = {} /\ c.log = call[p].log
        /\ c.pc = pc /\ c.todo = rest
    BY DEF Idle
  <2> HIDE DEF rest
  <2>4. c \in Call /\ (c.pc \in Busy => c.todo # <<>>)
    BY <2>1, <2>2, <2>3, IdleType DEF Call, Idle, Busy
  <2> HIDE DEF c
  <2>5. QED
    BY <1>1, <2>3, <2>4 DEF Refers
<1>6. call' = [call EXCEPT ![p] = c] /\ UNCHANGED <<event, scans, faults>>
  BY DEF InsertSnapshot
<1> HIDE DEF c, row
<1>7. QED
  BY <1>3, <1>4, <1>5, <1>6, RowStepKeeps, RowKeepsIdentity

LEMMA InsertEventKeeps ==
  ASSUME Inv, NEW p \in Process, InsertEvent(p)
  PROVE  Inv'
<1>1. /\ call[p] \in Call /\ call[p].pc = "events" /\ Refers(call[p], Len(host))
      /\ Len(host) \in Nat /\ DOMAIN host = 1..Len(host)
  BY CallFields, LenProperties DEF InsertEvent, At
<1> DEFINE e   == Head(call[p].log)
           log == Tail(call[p].log)
           c   == [call[p] EXCEPT !.log = log]
<1>2. /\ call[p].log \in Seq(Event) /\ call[p].log # <<>>
      /\ \A i \in DOMAIN call[p].log : call[p].log[i].host \in DOMAIN host
  BY <1>1 DEF InsertEvent, Call, Refers
<1>3. /\ e \in Event /\ e.host \in DOMAIN host
      /\ log \in Seq(Event) /\ \A i \in DOMAIN log : log[i].host \in 1..Len(host)
  <2>1. /\ Len(call[p].log) \in Nat /\ Len(call[p].log) > 0
        /\ DOMAIN call[p].log = 1..Len(call[p].log)
    BY <1>2, LenProperties
  <2>2. e = call[p].log[1] /\ 1 \in DOMAIN call[p].log
    BY <1>2, <2>1
  <2>3. /\ log \in Seq(Event) /\ Len(log) = Len(call[p].log) - 1
        /\ \A i \in 1..Len(log) : log[i] = call[p].log[i + 1]
    BY <1>2, HeadTailProperties
  <2>4. \A i \in DOMAIN log : i + 1 \in DOMAIN call[p].log /\ log[i] = call[p].log[i + 1]
    BY <2>1, <2>3, LenProperties
  <2>5. QED
    BY <1>1, <1>2, <2>2, <2>3, <2>4
<1>4. c \in Call /\ c.todo = call[p].todo /\ c.pc = "events" /\ Refers(c, Len(host))
  <2> HIDE DEF log
  <2>1. /\ c \in Call /\ c.todo = call[p].todo /\ c.pc = "events"
        /\ c.found = call[p].found /\ c.updated = call[p].updated /\ c.log = log
    BY <1>1, <1>3 DEF Call
  <2> HIDE DEF c
  <2>2. QED
    BY <1>1, <1>3, <2>1 DEF Refers
<1>5. /\ event' = Append(event, e) /\ call' = [call EXCEPT ![p] = c]
      /\ UNCHANGED <<host, scans, faults>>
  BY DEF InsertEvent
<1>6. event' \in Seq(Event) /\ \A i \in DOMAIN event' : event'[i].host \in DOMAIN host'
  <2>1. event \in Seq(Event) /\ \A i \in DOMAIN event : event[i].host \in DOMAIN host
    BY CallFields
  <2> HIDE DEF e
  <2>2. /\ event' \in Seq(Event) /\ Len(event') = Len(event) + 1
        /\ \A i \in 1..Len(event) : event'[i] = event[i]
        /\ event'[Len(event) + 1] = e
    BY <1>3, <1>5, <2>1, AppendProperties
  <2>3. /\ DOMAIN event' = 1..Len(event) + 1 /\ DOMAIN event = 1..Len(event)
        /\ Len(event) \in Nat
    BY <2>1, <2>2, LenProperties
  <2>4. QED
    BY <1>3, <1>5, <2>1, <2>2, <2>3
<1>7. QED
  <2> HIDE DEF c
  <2>1. /\ host' \in Seq(Host) /\ Len(host') = Len(host) /\ Len(host) <= Len(host')
        /\ Refers(c, Len(host')) /\ scans' \in 0..MaxScans /\ faults' \in Nat
    BY <1>1, <1>4, <1>5, CallFields
  <2>2. c.pc \in Busy => c.todo # <<>>
    BY <1>4 DEF Busy
  <2>3. QED
    BY <1>4, <1>5, <1>6, <2>1, <2>2, StepKeeps

LEMMA EndKeeps ==
  ASSUME Inv, NEW p \in Process, Return(p) \/ Abandon(p)
  PROVE  Inv'
<1>1. (Idle.pc \in Busy => Idle.todo # <<>>) /\ Refers(Idle, Len(host))
  BY DEF Idle, Busy, Refers
<1>2. /\ call' = [call EXCEPT ![p] = Idle]
      /\ UNCHANGED <<host, event, scans>> /\ faults' \in Nat
  BY CallFields DEF Return, Abandon
<1>3. /\ host' \in Seq(Host) /\ Len(host) <= Len(host') /\ Refers(Idle, Len(host'))
      /\ event' \in Seq(Event) /\ scans' \in 0..MaxScans
  BY <1>1, <1>2, CallFields, LenProperties
<1>4. \A i \in DOMAIN event' : event'[i].host \in DOMAIN host'
  BY <1>2, CallFields
<1>5. QED
  BY <1>1, <1>2, <1>3, <1>4, IdleType, StepKeeps

-----------------------------------------------------------------------------
(* A step gives the host table a row, refreshes one, or leaves every row   *)
(* its identity.                                                           *)
LEMMA NextKeeps ==
  ASSUME Inv, [Next]_vars
  PROVE  /\ Inv'
         /\ SameIdentity \/ \E p \in Process : InsertHost(p) \/ UpdateHost(p)
<1>1. CASE UNCHANGED vars
  BY <1>1 DEF vars, Inv, TypeOK, HasHost, LogRefers, SameIdentity
<1>2. ASSUME NEW p \in Process, InsertHost(p) \/ UpdateHost(p)
      PROVE  Inv' /\ \E q \in Process : InsertHost(q) \/ UpdateHost(q)
  BY <1>2, InsertHostKeeps, UpdateHostKeeps
<1>3. ASSUME NEW p \in Process,
             UpsertPort(p) \/ ClosePort(p) \/ InsertSnapshot(p)
      PROVE  Inv' /\ SameIdentity
  BY <1>3, UpsertPortKeeps, ClosePortKeeps, InsertSnapshotKeeps
<1>4. ASSUME NEW p \in Process,
             \/ Begin(p) \/ MatchMac(p) \/ MatchIp(p) \/ ReadBack(p) \/ Report(p)
             \/ FindStale(p) \/ ReadPorts(p) \/ InsertEvent(p) \/ Return(p)
             \/ Abandon(p)
      PROVE  Inv' /\ SameIdentity
  <2>1. Inv'
    BY <1>4, BeginKeeps, MatchKeeps, ReadBackKeeps, ReportKeeps, FindStaleKeeps,
       ReadPortsKeeps, InsertEventKeeps, EndKeeps
  <2>2. UNCHANGED host
    BY <1>4 DEF Begin, MatchMac, MatchIp, ReadBack, Report, FindStale, ReadPorts,
                InsertEvent, Return, Abandon
  <2>3. QED
    BY <2>1, <2>2 DEF SameIdentity
<1>5. QED
  BY <1>1, <1>2, <1>3, <1>4 DEF Next

LEMMA InitInv ==
  ASSUME Init
  PROVE  Inv
<1>1. /\ host \in Seq(Host) /\ event \in Seq(Event) /\ DOMAIN event = {}
      /\ \A p \in Process : call[p] = Idle
      /\ call \in [Process -> Call] /\ scans \in 0..MaxScans /\ faults \in Nat
  BY IdleType, CorrelationAssumption DEF Init
<1>2. Idle.found = {} /\ Idle.updated = {} /\ Idle.pc = "idle" /\ Idle.log = <<>>
  BY DEF Idle
<1>3. DOMAIN Idle.log = {}
  BY <1>2
<1>4. QED
  BY <1>1, <1>2, <1>3 DEF Inv, TypeOK, HasHost, LogRefers, Busy

(* Type correctness of correlate(): the rows that a call has found or      *)
(* written, and those the event table speaks of, exist in the host table.  *)
THEOREM TypeCorrect == Spec => []TypeOK
<1>1. Init => Inv
  BY InitInv
<1>2. Inv /\ [Next]_vars => Inv'
  BY NextKeeps
<1>3. Inv => TypeOK
  BY DEF Inv
<1>4. QED
  BY <1>1, <1>2, <1>3, PTL DEF Spec

-----------------------------------------------------------------------------
(* Which row a host is.                                                    *)
Identities == OneRowPerMac /\ OneBareRowPerIp

(* The transaction adds a row only for a host that no row stands for.      *)
LEMMA InsertKeepsIdentities ==
  ASSUME Inv, Identities, NEW p \in Process, InsertHost(p)
  PROVE  Identities' /\ \A h \in DOMAIN host : h \in DOMAIN host' /\ host'[h] = host[h]
<1> DEFINE mac == Now(p).mac
           ip  == Now(p).ip
           row == NewRow(mac, ip)
           n   == Len(host)
<1>1. /\ host \in Seq(Host) /\ n \in Nat /\ DOMAIN host = 1..n
      /\ host' = Append(host, row) /\ row \in Host
  BY CallFields, LenProperties, InsertHostKeeps
<1>2. /\ DOMAIN host' = 1..n + 1
      /\ \A h \in 1..n : host'[h] = host[h]
      /\ host'[n + 1] = row
  <2> HIDE DEF row
  <2>1. QED
    BY <1>1, AppendProperties
<1>3. /\ ByMac(mac) = {} /\ BareAt(ip) = {}
  BY DEF InsertHost, Identify
<1>4. row.mac = mac /\ row.ip = ip
  BY DEF NewRow
<1>5. \A h \in 1..n : /\ mac # NoMac => host[h].mac # mac
                      /\ ~(host[h].mac = NoMac /\ host[h].ip = ip)
  BY <1>1, <1>3 DEF ByMac, BareAt
<1> HIDE DEF mac, ip, row, n
<1>6. OneRowPerMac'
  <2>1. SUFFICES ASSUME NEW g \in 1..n + 1, NEW h \in 1..n + 1,
                        host'[g].mac = host'[h].mac, host'[g].mac # NoMac
                 PROVE  g = h
    BY <1>2 DEF OneRowPerMac
  <2>2. CASE g \in 1..n /\ h \in 1..n
    BY <1>1, <1>2, <2>1, <2>2 DEF Identities, OneRowPerMac
  <2>3. CASE g = n + 1 \/ h = n + 1
    BY <1>1, <1>2, <1>4, <1>5, <2>1, <2>3
  <2>4. QED
    BY <1>1, <2>2, <2>3
<1>7. OneBareRowPerIp'
  <2>1. SUFFICES ASSUME NEW g \in 1..n + 1, NEW h \in 1..n + 1,
                        host'[g].mac = NoMac, host'[h].mac = NoMac,
                        host'[g].ip = host'[h].ip
                 PROVE  g = h
    BY <1>2 DEF OneBareRowPerIp
  <2>2. CASE g \in 1..n /\ h \in 1..n
    BY <1>1, <1>2, <2>1, <2>2 DEF Identities, OneBareRowPerIp
  <2>3. CASE g = n + 1 \/ h = n + 1
    BY <1>1, <1>2, <1>4, <1>5, <2>1, <2>3
  <2>4. QED
    BY <1>1, <2>2, <2>3
<1>8. \A h \in DOMAIN host : h \in DOMAIN host' /\ host'[h] = host[h]
  BY <1>1, <1>2
<1>9. QED
  BY <1>6, <1>7, <1>8 DEF Identities

(* A row that is refreshed keeps its MAC, or its address, or gets a MAC    *)
(* that no row has.                                                        *)
LEMMA UpdateKeepsIdentities ==
  ASSUME Inv, Identities, NEW p \in Process, UpdateHost(p)
  PROVE  /\ Identities'
         /\ \A h \in DOMAIN host :
              /\ h \in DOMAIN host'
              /\ host[h].mac # NoMac => host'[h].mac = host[h].mac
              /\ host[h].mac = NoMac => host'[h].ip = host[h].ip
              /\ host[h].ips \subseteq host'[h].ips
<1> DEFINE mac == Now(p).mac
           ip  == Now(p).ip
<1>1. PICK k \in Identify(mac, ip) :
        /\ k \in DOMAIN host
        /\ host' = [host EXCEPT ![k] = Refresh(host[k], mac, ip)]
        /\ Refresh(host[k], mac, ip) \in Host
  BY UpdateHostKeeps
<1> DEFINE row == Refresh(host[k], mac, ip)
<1>2. host \in Seq(Host) /\ DOMAIN host = 1..Len(host) /\ host[k] \in Host
  BY <1>1, CallFields
<1>3. /\ row.mac = IF mac = NoMac THEN host[k].mac ELSE mac
      /\ row.ip = ip
      /\ row.ips = host[k].ips \cup {ip}
  BY <1>2 DEF Refresh, Host
<1>4. /\ DOMAIN host' = DOMAIN host /\ host'[k] = row
      /\ \A j \in DOMAIN host : j # k => host'[j] = host[j]
  <2>1. host' = [host EXCEPT ![k] = row] /\ row \in Host
    BY <1>1
  <2> HIDE DEF row
  <2>2. QED
    BY <1>1, <1>2, <2>1, SetRow
<1>5. \/ mac # NoMac /\ host[k].mac = mac
      \/ /\ host[k].mac = NoMac /\ host[k].ip = ip
         /\ \A h \in DOMAIN host : mac # NoMac => host[h].mac # mac
  BY <1>1 DEF Identify, ByMac, BareAt
<1> HIDE DEF mac, ip, row
<1>6. OneRowPerMac'
  BY <1>1, <1>3, <1>4, <1>5 DEF Identities, OneRowPerMac
<1>7. OneBareRowPerIp'
  BY <1>1, <1>3, <1>4, <1>5 DEF Identities, OneBareRowPerIp
<1>8. ASSUME NEW h \in DOMAIN host
      PROVE  /\ h \in DOMAIN host'
             /\ host[h].mac # NoMac => host'[h].mac = host[h].mac
             /\ host[h].mac = NoMac => host'[h].ip = host[h].ip
             /\ host[h].ips \subseteq host'[h].ips
  <2>1. CASE h = k
    BY <1>3, <1>4, <1>5, <2>1
  <2>2. CASE h # k
    BY <1>4, <2>2
  <2>3. QED
    BY <2>1, <2>2
<1>9. QED
  BY <1>6, <1>7, <1>8 DEF Identities

LEMMA IdentitiesKept ==
  ASSUME Inv, Identities, [Next]_vars
  PROVE  /\ Identities'
         /\ \A h \in DOMAIN host :
              /\ h \in DOMAIN host'
              /\ host[h].mac # NoMac => host'[h].mac = host[h].mac
              /\ host[h].mac = NoMac => host'[h].ip = host[h].ip
              /\ host[h].ips \subseteq host'[h].ips
<1>1. CASE SameIdentity
  <2>1. Identities'
    BY <1>1 DEF SameIdentity, Identities, OneRowPerMac, OneBareRowPerIp
  <2>2. QED
    BY <1>1, <2>1 DEF SameIdentity
<1>2. ASSUME NEW p \in Process, InsertHost(p)
      PROVE  /\ Identities'
             /\ \A h \in DOMAIN host : h \in DOMAIN host' /\ host'[h] = host[h]
  BY <1>2, InsertKeepsIdentities
<1>3. QED
  BY <1>1, <1>2, NextKeeps, UpdateKeepsIdentities

LEMMA IdentityInvariant == Spec => [](Inv /\ Identities)
<1>1. Init => Inv /\ Identities
  <2>1. Init => DOMAIN host = {}
    BY DEF Init
  <2>2. QED
    BY <2>1, InitInv DEF Identities, OneRowPerMac, OneBareRowPerIp
<1>2. Inv /\ Identities /\ [Next]_vars => (Inv /\ Identities)'
  BY NextKeeps, IdentitiesKept
<1>3. QED
  BY <1>1, <1>2, PTL DEF Spec

(* upsert_host never leaves two rows with one MAC address, although the    *)
(* lookup of correlate ran outside its transaction.                        *)
THEOREM OneRowPerMacHolds == Spec => []OneRowPerMac
<1>1. Inv /\ Identities => OneRowPerMac
  BY DEF Identities
<1>2. QED
  BY <1>1, IdentityInvariant, PTL

(* Nor does it leave two rows without a MAC at one address, which no index *)
(* of the schema forbids.                                                  *)
THEOREM OneBareRowPerIpHolds == Spec => []OneBareRowPerIp
<1>1. Inv /\ Identities => OneBareRowPerIp
  BY DEF Identities
<1>2. QED
  BY <1>1, IdentityInvariant, PTL

(* Whatever two processes find and write, a row never passes from one      *)
(* device to another.                                                      *)
THEOREM IdentityIsStableHolds == Spec => IdentityIsStable
<1>1. Inv /\ Identities /\ [Next]_vars
        => [\A h \in DOMAIN host :
              /\ h \in DOMAIN host'
              /\ host[h].mac # NoMac => host'[h].mac = host[h].mac
              /\ host[h].mac = NoMac => host'[h].ip = host[h].ip
              /\ host[h].ips \subseteq host'[h].ips]_vars
  BY IdentitiesKept
<1>2. QED
  BY <1>1, IdentityInvariant, PTL DEF Spec, IdentityIsStable

-----------------------------------------------------------------------------
(* The address history is complete.                                        *)

(* What is known of a table t: every address that a call, a waiting event  *)
(* or an inserted one speaks of is in the history of its row.  A call      *)
(* speaks of one row at most.                                              *)
UpdatesKnown(S, t) ==
  /\ \A u, v \in S : u = v
  /\ \A u \in S : u.ip \in t[u.id].ips

EventsKnown(log, t) ==
  \A i \in DOMAIN log :
    log[i].kind \in {"host.new", "ip.changed"} => log[i].what \in t[log[i].host].ips

CallKnown(c, t) ==
  /\ UpdatesKnown(c.updated, t)
  /\ EventsKnown(c.log, t)
  /\ c.pc = "snapshot" => \A u \in c.updated : c.snap.ip \in t[u.id].ips

RowsKnown(t) ==
  \A h \in DOMAIN t : /\ t[h].ip \in t[h].ips
                      /\ t[h].snap # NoSnapshot => t[h].snap.ip \in t[h].ips

Known ==
  /\ RowsKnown(host)
  /\ EventsKnown(event, host)
  /\ \A p \in Process : CallKnown(call[p], host)

(* Rows and their histories only grow.                                     *)
Grows == \A h \in DOMAIN host : h \in DOMAIN host' /\ host[h].ips \subseteq host'[h].ips

LEMMA CallStaysKnown ==
  ASSUME Inv, Grows, NEW p \in Process, CallKnown(call[p], host)
  PROVE  CallKnown(call[p], host')
<1>1. /\ \A u \in call[p].updated : u.id \in DOMAIN host
      /\ \A i \in DOMAIN call[p].log : call[p].log[i].host \in DOMAIN host
  BY DEF Inv, TypeOK, LogRefers
<1>2. QED
  BY <1>1 DEF CallKnown, UpdatesKnown, EventsKnown, Grows

LEMMA EventsStayKnown ==
  ASSUME Inv, Grows, EventsKnown(event, host)
  PROVE  EventsKnown(event, host')
<1>1. \A i \in DOMAIN event : event[i].host \in DOMAIN host
  BY DEF Inv, TypeOK
<1>2. QED
  BY <1>1 DEF EventsKnown, Grows

(* What a step must show of the call it moves on and of the rows.          *)
LEMMA StepKnown ==
  ASSUME Inv, Known, Grows, NEW p \in Process, NEW c,
         call' = [call EXCEPT ![p] = c],
         CallKnown(c, host'), RowsKnown(host'), EventsKnown(event', host')
  PROVE  Known'
<1>1. \A q \in Process : call'[q] = IF q = p THEN c ELSE call[q]
  BY DEF Inv, TypeOK
<1>2. \A q \in Process : CallKnown(call[q], host')
  BY CallStaysKnown DEF Known
<1>3. \A q \in Process : CallKnown(call'[q], host')
  BY <1>1, <1>2
<1>4. QED
  BY <1>3 DEF Known, CallKnown, UpdatesKnown, EventsKnown, RowsKnown

(* Steps that leave both tables alone.                                     *)
LEMMA CallMovesKnown ==
  ASSUME Inv, Known, NEW p \in Process, NEW c,
         call' = [call EXCEPT ![p] = c], UNCHANGED <<host, event>>,
         CallKnown(c, host)
  PROVE  Known'
<1>1. Grows
  BY DEF Grows
<1>2. CallKnown(c, host') /\ RowsKnown(host') /\ EventsKnown(event', host')
  BY DEF Known
<1>3. QED
  BY <1>1, <1>2, StepKnown, Zenon

LEMMA NothingToKnow ==
  ASSUME NEW c, NEW t, c.updated = {}, c.pc # "snapshot", EventsKnown(c.log, t)
  PROVE  CallKnown(c, t)
  BY DEF CallKnown, UpdatesKnown

LEMMA EmptyLogKnown == \A t : EventsKnown(<<>>, t)
  BY DEF EventsKnown

-----------------------------------------------------------------------------
LEMMA BeginKnown ==
  ASSUME Inv, Known, NEW p \in Process, Begin(p)
  PROVE  Known'
<1>1. PICK b \in Batch, observed \in Observations :
        call' = [call EXCEPT ![p] =
                   [Idle EXCEPT !.pc = IF b = <<>> THEN "events" ELSE "match_mac",
                                !.todo = b, !.observed = observed]]
  BY DEF Begin
<1> DEFINE c == [Idle EXCEPT !.pc = IF b = <<>> THEN "events" ELSE "match_mac",
                             !.todo = b, !.observed = observed]
<1>2. c.updated = {} /\ c.pc # "snapshot" /\ c.log = <<>>
  BY DEF Idle
<1>3. call' = [call EXCEPT ![p] = c] /\ UNCHANGED <<host, event>>
  BY <1>1 DEF Begin
<1> HIDE DEF c
<1>4. CallKnown(c, host)
  BY <1>2, EmptyLogKnown, NothingToKnow
<1>5. QED
  BY <1>3, <1>4, CallMovesKnown

(* Wherever a call ends, nothing is left of it.                            *)
LEMMA EndKnown ==
  ASSUME Inv, Known, NEW p \in Process, call' = [call EXCEPT ![p] = Idle],
         UNCHANGED <<host, event>>
  PROVE  Known'
<1>1. Idle.updated = {} /\ Idle.pc # "snapshot" /\ Idle.log = <<>>
  BY DEF Idle
<1>2. CallKnown(Idle, host)
  BY <1>1, EmptyLogKnown, NothingToKnow
<1>3. QED
  BY <1>2, CallMovesKnown

(* The lookups and the choice of stale ports.                              *)
LEMMA LookupKnown ==
  ASSUME Inv, Known, NEW p \in Process, MatchMac(p) \/ MatchIp(p) \/ FindStale(p)
  PROVE  Known'
<1>1. UNCHANGED <<host, event>> /\ call[p] \in Call /\ CallKnown(call[p], host)
  BY CallFields DEF MatchMac, MatchIp, FindStale, Known
<1>2. PICK c : /\ call' = [call EXCEPT ![p] = c]
               /\ c.updated = call[p].updated /\ c.log = call[p].log
               /\ c.pc # "snapshot"
  <2>1. CASE \E pc \in {"match_ip", "upsert"} :
               call' = [call EXCEPT ![p] = [call[p] EXCEPT !.pc = pc]]
    <3>1. PICK pc \in {"match_ip", "upsert"} :
            call' = [call EXCEPT ![p] = [call[p] EXCEPT !.pc = pc]]
      BY <2>1
    <3> DEFINE c == [call[p] EXCEPT !.pc = pc]
    <3>2. c.updated = call[p].updated /\ c.log = call[p].log /\ c.pc # "snapshot"
      BY <1>1, <3>1 DEF Call
    <3>3. call' = [call EXCEPT ![p] = c]
      BY <3>1
    <3> HIDE DEF c
    <3>4. QED
      BY <3>2, <3>3
  <2>2. CASE \E S : call' = [call EXCEPT ![p] = [call[p] EXCEPT !.pc = "upsert",
                                                                !.found = S]]
    <3>1. PICK S : call' = [call EXCEPT ![p] = [call[p] EXCEPT !.pc = "upsert",
                                                               !.found = S]]
      BY <2>2
    <3> DEFINE c == [call[p] EXCEPT !.pc = "upsert", !.found = S]
    <3>2. c.updated = call[p].updated /\ c.log = call[p].log /\ c.pc # "snapshot"
      BY <1>1 DEF Call
    <3>3. call' = [call EXCEPT ![p] = c]
      BY <3>1
    <3> HIDE DEF c
    <3>4. QED
      BY <3>2, <3>3
  <2>3. CASE \E S : call' = [call EXCEPT ![p] = [call[p] EXCEPT !.pc = "close",
                                                                !.stale = S]]
    <3>1. PICK S : call' = [call EXCEPT ![p] = [call[p] EXCEPT !.pc = "close",
                                                               !.stale = S]]
      BY <2>3
    <3> DEFINE c == [call[p] EXCEPT !.pc = "close", !.stale = S]
    <3>2. c.updated = call[p].updated /\ c.log = call[p].log /\ c.pc # "snapshot"
      BY <1>1 DEF Call
    <3>3. call' = [call EXCEPT ![p] = c]
      BY <3>1
    <3> HIDE DEF c
    <3>4. QED
      BY <3>2, <3>3
  <2>4. CASE MatchMac(p)
    BY <2>1, <2>2, <2>4 DEF MatchMac
  <2>5. CASE MatchIp(p)
    BY <2>1, <2>2, <2>5 DEF MatchIp
  <2>6. CASE FindStale(p)
    BY <2>3, <2>6 DEF FindStale
  <2>7. QED
    BY <2>4, <2>5, <2>6
<1>3. CallKnown(c, host)
  BY <1>1, <1>2 DEF CallKnown
<1>4. QED
  BY <1>1, <1>2, <1>3, CallMovesKnown

(* A row is found again, or the assertion fails.                           *)
LEMMA ReadBackKnown ==
  ASSUME Inv, Known, NEW p \in Process, ReadBack(p)
  PROVE  Known'
<1>1. UNCHANGED <<host, event>> /\ call[p] \in Call /\ CallKnown(call[p], host)
  BY CallFields DEF ReadBack, Known
<1>2. CASE call' = [call EXCEPT ![p] = Idle]
  BY <1>1, <1>2, EndKnown
<1>3. CASE \E h \in Reread(p) :
             call' = [call EXCEPT ![p] =
                        [call[p] EXCEPT !.pc = "report",
                                        !.updated = {[id |-> h, ip |-> host[h].ip]}]]
  <2>1. PICK h \in Reread(p) :
          call' = [call EXCEPT ![p] =
                     [call[p] EXCEPT !.pc = "report",
                                     !.updated = {[id |-> h, ip |-> host[h].ip]}]]
    BY <1>3
  <2> DEFINE u == [id |-> h, ip |-> host[h].ip]
             c == [call[p] EXCEPT !.pc = "report", !.updated = {u}]
  <2>2. c.updated = {u} /\ c.log = call[p].log /\ c.pc # "snapshot"
    BY <1>1 DEF Call
  <2>3. call' = [call EXCEPT ![p] = c]
    BY <2>1
  <2> HIDE DEF c
  <2>4. h \in DOMAIN host
    BY <2>1 DEF Reread, ByMac, BareAt
  <2>5. u.ip \in host[u.id].ips
    BY <2>4 DEF Known, RowsKnown
  <2> HIDE DEF u
  <2>6. CallKnown(c, host)
    BY <1>1, <2>2, <2>5 DEF CallKnown, UpdatesKnown
  <2>7. QED
    BY <1>1, <2>3, <2>6, CallMovesKnown
<1>4. QED
  BY <1>2, <1>3 DEF ReadBack

(* The ports of the snapshot go with the address that was read.            *)
LEMMA ReadPortsKnown ==
  ASSUME Inv, Known, NEW p \in Process, ReadPorts(p)
  PROVE  Known'
<1>1. UNCHANGED <<host, event>> /\ call[p] \in Call /\ CallKnown(call[p], host)
  BY CallFields DEF ReadPorts, Known
<1>2. PICK u \in call[p].updated :
        call' = [call EXCEPT ![p] =
                   [call[p] EXCEPT !.pc = "snapshot",
                      !.snap = [ip |-> u.ip, open |-> host[u.id].open]]]
  BY DEF ReadPorts
<1> DEFINE snap == [ip |-> u.ip, open |-> host[u.id].open]
           c    == [call[p] EXCEPT !.pc = "snapshot", !.snap = snap]
<1>3. c.updated = call[p].updated /\ c.log = call[p].log /\ c.snap = snap
  BY <1>1 DEF Call
<1>4. call' = [call EXCEPT ![p] = c] /\ snap.ip = u.ip
  BY <1>2
<1> HIDE DEF c, snap
<1>5. CallKnown(c, host)
  BY <1>1, <1>2, <1>3, <1>4 DEF CallKnown, UpdatesKnown
<1>6. QED
  BY <1>1, <1>4, <1>5, CallMovesKnown

-----------------------------------------------------------------------------
LEMMA LogGrowsKnown ==
  ASSUME NEW log \in Seq(Event), NEW more \in Seq(Event), NEW t,
         EventsKnown(log, t), EventsKnown(more, t)
  PROVE  EventsKnown(log \o more, t)
<1>1. /\ Len(log) \in Nat /\ Len(more) \in Nat
      /\ DOMAIN log = 1..Len(log) /\ DOMAIN more = 1..Len(more)
  BY LenProperties
<1>2. /\ log \o more \in Seq(Event) /\ Len(log \o more) = Len(log) + Len(more)
      /\ \A i \in 1..Len(log) + Len(more) :
           (log \o more)[i] = IF i <= Len(log) THEN log[i] ELSE more[i - Len(log)]
  BY ConcatProperties
<1>3. DOMAIN (log \o more) = 1..Len(log) + Len(more)
  BY <1>2, LenProperties
<1>4. \A i \in 1..Len(log) + Len(more) :
        i \in DOMAIN log \/ i - Len(log) \in DOMAIN more
  BY <1>1
<1>5. ASSUME NEW i \in DOMAIN (log \o more)
      PROVE  \/ \E j \in DOMAIN log : (log \o more)[i] = log[j]
             \/ \E j \in DOMAIN more : (log \o more)[i] = more[j]
  <2>1. CASE i <= Len(log)
    BY <1>1, <1>2, <1>3, <1>5, <2>1
  <2>2. CASE ~(i <= Len(log))
    BY <1>1, <1>2, <1>3, <1>5, <2>2
  <2>3. QED
    BY <2>1, <2>2
<1> DEFINE all == log \o more
<1>6. \A i \in DOMAIN all : \/ \E j \in DOMAIN log : all[i] = log[j]
                            \/ \E j \in DOMAIN more : all[i] = more[j]
  BY <1>5
<1> HIDE DEF all
<1>7. EventsKnown(all, t)
  BY <1>6 DEF EventsKnown
<1>8. QED
  BY <1>7 DEF all

LEMMA ReportKnown ==
  ASSUME Inv, Known, NEW p \in Process, Report(p)
  PROVE  Known'
<1>1. UNCHANGED <<host, event>> /\ call[p] \in Call /\ CallKnown(call[p], host)
      /\ call[p].pc \in Busy /\ Refers(call[p], Len(host))
  BY CallFields DEF Report, Known, Busy, At
<1>2. PICK u \in call[p].updated :
        call' = [call EXCEPT ![p] =
                   [call[p] EXCEPT !.pc = "ports",
                      !.log = call[p].log \o News(p, u.id, u.ip),
                      !.was = host[u.id].open, !.ports = Now(p).ports]]
  BY DEF Report
<1> DEFINE log == call[p].log \o News(p, u.id, u.ip)
           was == host[u.id].open
           prt == Now(p).ports
           c   == [call[p] EXCEPT !.pc = "ports", !.log = log, !.was = was,
                                  !.ports = prt]
<1>3. call' = [call EXCEPT ![p] = c]
  BY <1>2
<1>4. c.updated = call[p].updated /\ c.log = log /\ c.pc # "snapshot"
  <2> HIDE DEF log, was, prt
  <2>1. QED
    BY <1>1 DEF Call
<1>5. EventsKnown(News(p, u.id, u.ip), host)
  <2>1. u.ip \in host[u.id].ips
    BY <1>1, <1>2 DEF CallKnown, UpdatesKnown
  <2>2. ASSUME NEW e, e.host = u.id, e.what = u.ip
        PROVE  EventsKnown(<<e>>, host)
    BY <2>1, <2>2 DEF EventsKnown
  <2>3. \A old : EventsKnown(<<IpChanged(u.id, old, u.ip)>>, host)
                 /\ EventsKnown(<<HostNew(u.id, u.ip)>>, host)
    BY <2>2 DEF IpChanged, HostNew
  <2>4. \/ News(p, u.id, u.ip) = <<>>
        \/ News(p, u.id, u.ip) = <<HostNew(u.id, u.ip)>>
        \/ \E old : News(p, u.id, u.ip) = <<IpChanged(u.id, old, u.ip)>>
    BY DEF News
  <2>5. QED
    BY <2>3, <2>4, EmptyLogKnown
<1>6. EventsKnown(log, host)
  <2>1. call[p].log \in Seq(Event) /\ EventsKnown(call[p].log, host)
    BY <1>1 DEF Call, CallKnown
  <2>2. News(p, u.id, u.ip) \in Seq(Event)
    BY <1>1, <1>2, NewsType
  <2>3. QED
    BY <1>5, <2>1, <2>2, LogGrowsKnown
<1> HIDE DEF c, log
<1>7. CallKnown(c, host)
  BY <1>1, <1>4, <1>6 DEF CallKnown
<1>8. QED
  BY <1>1, <1>3, <1>7, CallMovesKnown

-----------------------------------------------------------------------------
(* The steps that write to a row.                                          *)
LEMMA RowChanged ==
  ASSUME Inv, Known, NEW k \in 1..Len(host), NEW row \in Host,
         host' = [host EXCEPT ![k] = row], host[k].ips \subseteq row.ips,
         row.ip \in row.ips, row.snap # NoSnapshot => row.snap.ip \in row.ips
  PROVE  Grows /\ RowsKnown(host')
<1>1. host \in Seq(Host)
  BY CallFields DEF Inv, TypeOK
<1>2. /\ DOMAIN host' = DOMAIN host /\ host'[k] = row
      /\ \A j \in DOMAIN host : j # k => host'[j] = host[j]
  BY <1>1, SetRow
<1>3. Grows
  <2>1. \A h \in DOMAIN host : h = k \/ host'[h] = host[h]
    BY <1>2
  <2>2. QED
    BY <1>2, <2>1 DEF Grows
<1>4. RowsKnown(host')
  BY <1>2 DEF Known, RowsKnown
<1>5. QED
  BY <1>3, <1>4

(* A port that is opened or closed.                                        *)
LEMMA PortKnown ==
  ASSUME Inv, Known, NEW p \in Process, NEW c, NEW u \in call[p].updated,
         NEW open \in SUBSET Port, NEW log, NEW e \in Event,
         e.kind \notin {"host.new", "ip.changed"},
         log = call[p].log \/ log = Append(call[p].log, e),
         c.updated = call[p].updated, c.log = log, c.pc # "snapshot",
         call' = [call EXCEPT ![p] = c],
         host' = [host EXCEPT ![u.id].open = open], UNCHANGED event
  PROVE  Known'
<1>1. /\ call[p] \in Call /\ CallKnown(call[p], host)
      /\ u.id \in 1..Len(host) /\ u.id \in DOMAIN host /\ host[u.id] \in Host
  BY CallFields, UpdatedRow DEF Known
<1> DEFINE row == [host[u.id] EXCEPT !.open = open]
<1>2. /\ host' = [host EXCEPT ![u.id] = row] /\ row \in Host
      /\ row.ip = host[u.id].ip /\ row.ips = host[u.id].ips
      /\ row.snap = host[u.id].snap
  BY <1>1 DEF Host
<1> HIDE DEF row
<1>3. Grows /\ RowsKnown(host')
  <2>1. /\ host[u.id].ip \in host[u.id].ips
        /\ host[u.id].snap # NoSnapshot => host[u.id].snap.ip \in host[u.id].ips
    BY <1>1 DEF Known, RowsKnown
  <2>2. /\ host[u.id].ips \subseteq row.ips /\ row.ip \in row.ips
        /\ row.snap # NoSnapshot => row.snap.ip \in row.ips
    BY <1>2, <2>1
  <2>3. QED
    BY <1>1, <1>2, <2>2, RowChanged
<1>4. CallKnown(call[p], host') /\ EventsKnown(event, host')
  BY <1>1, <1>3, CallStaysKnown, EventsStayKnown DEF Known
<1>5. EventsKnown(log, host')
  <2>1. EventsKnown(<<e>>, host')
    BY DEF EventsKnown
  <2>2. /\ call[p].log \in Seq(Event) /\ <<e>> \in Seq(Event)
        /\ Append(call[p].log, e) = call[p].log \o <<e>>
    <3>1. call[p].log \in Seq(Event)
      BY <1>1 DEF Call
    <3>2. QED
      BY <3>1
  <2>3. EventsKnown(call[p].log, host')
    BY <1>4 DEF CallKnown
  <2>4. EventsKnown(call[p].log \o <<e>>, host')
    BY <2>1, <2>2, <2>3, LogGrowsKnown
  <2>5. QED
    BY <2>2, <2>3, <2>4
<1>6. CallKnown(c, host')
  BY <1>4, <1>5 DEF CallKnown
<1>7. QED
  BY <1>3, <1>4, <1>6, StepKnown

LEMMA UpsertPortKnown ==
  ASSUME Inv, Known, NEW p \in Process, UpsertPort(p)
  PROVE  Known'
<1> DEFINE port == Head(call[p].ports)
           rest == Tail(call[p].ports)
<1>1. /\ call[p] \in Call /\ call[p].pc = "ports" /\ call[p].ports # <<>>
      /\ UNCHANGED event /\ Len(host) \in Nat
  BY CallFields, LenProperties DEF UpsertPort, At
<1>2. PICK u \in call[p].updated :
        /\ host' = [host EXCEPT ![u.id].open = @ \cup {port}]
        /\ call' = [call EXCEPT ![p].ports = rest,
                      ![p].log = IF port \in call[p].was THEN call[p].log
                                 ELSE Append(call[p].log, PortOpened(u.id, port))]
  BY DEF UpsertPort
<1>3. port \in Port
  <2>1. call[p].ports \in Seq(Port) /\ call[p].ports # <<>>
    BY <1>1 DEF Call
  <2>2. QED
    BY <2>1, HeadTailProperties
<1>4. u.id \in 1..Len(host) /\ u.id \in Nat /\ host[u.id] \in Host
  BY <1>1, <1>2, UpdatedRow
<1> DEFINE e    == PortOpened(u.id, port)
           log  == IF port \in call[p].was THEN call[p].log ELSE Append(call[p].log, e)
           c    == [call[p] EXCEPT !.ports = rest, !.log = log]
           open == host[u.id].open \cup {port}
<1>5. e \in Event /\ e.kind \notin {"host.new", "ip.changed"}
  BY <1>3, <1>4 DEF PortOpened, Event
<1>6. open \in SUBSET Port /\ host' = [host EXCEPT ![u.id].open = open]
  BY <1>2, <1>3, <1>4 DEF Host
<1>7. log = call[p].log \/ log = Append(call[p].log, e)
  OBVIOUS
<1>8. call' = [call EXCEPT ![p] = c]
  BY <1>2
<1>9. c.updated = call[p].updated /\ c.log = log /\ c.pc # "snapshot"
  <2> HIDE DEF log, rest
  <2>1. QED
    BY <1>1 DEF Call
<1> HIDE DEF c, log, e, open
<1>10. u \in call[p].updated /\ UNCHANGED event
  BY <1>1, <1>2
<1>11. QED
  BY <1>5, <1>6, <1>7, <1>8, <1>9, <1>10, PortKnown

LEMMA ClosePortKnown ==
  ASSUME Inv, Known, NEW p \in Process, ClosePort(p)
  PROVE  Known'
<1>1. /\ call[p] \in Call /\ call[p].pc = "close" /\ UNCHANGED event
      /\ Len(host) \in Nat
  BY CallFields, LenProperties DEF ClosePort, At
<1>2. PICK u \in call[p].updated, port \in call[p].stale :
        /\ host' = [host EXCEPT ![u.id].open = @ \ {port}]
        /\ call' = [call EXCEPT ![p].stale = call[p].stale \ {port},
                      ![p].log = Append(call[p].log, PortClosed(u.id, port))]
  BY DEF ClosePort
<1>3. port \in Port
  BY <1>1, <1>2 DEF Call
<1>4. u.id \in 1..Len(host) /\ u.id \in Nat /\ host[u.id] \in Host
  BY <1>1, <1>2, UpdatedRow
<1> DEFINE e     == PortClosed(u.id, port)
           log   == Append(call[p].log, e)
           stale == call[p].stale \ {port}
           c     == [call[p] EXCEPT !.stale = stale, !.log = log]
           open  == host[u.id].open \ {port}
<1>5. e \in Event /\ e.kind \notin {"host.new", "ip.changed"}
  BY <1>3, <1>4 DEF PortClosed, Event
<1>6. open \in SUBSET Port /\ host' = [host EXCEPT ![u.id].open = open]
  BY <1>2, <1>4 DEF Host
<1>7. log = call[p].log \/ log = Append(call[p].log, e)
  OBVIOUS
<1>8. call' = [call EXCEPT ![p] = c]
  BY <1>2
<1>9. c.updated = call[p].updated /\ c.log = log /\ c.pc # "snapshot"
  <2> HIDE DEF log, stale
  <2>1. QED
    BY <1>1 DEF Call
<1> HIDE DEF c, log, e, open
<1>10. u \in call[p].updated /\ UNCHANGED event
  BY <1>1, <1>2
<1>11. QED
  BY <1>5, <1>6, <1>7, <1>8, <1>9, <1>10, PortKnown

(* The address of a snapshot was read with the row that it is put in.      *)
LEMMA InsertSnapshotKnown ==
  ASSUME Inv, Known, NEW p \in Process, InsertSnapshot(p)
  PROVE  Known'
<1>1. /\ call[p] \in Call /\ call[p].pc = "snapshot" /\ UNCHANGED event
      /\ CallKnown(call[p], host)
  BY CallFields DEF InsertSnapshot, At, Known
<1>2. PICK u \in call[p].updated :
        host' = [host EXCEPT ![u.id].snap = call[p].snap]
  BY DEF InsertSnapshot
<1>3. u.id \in 1..Len(host) /\ u.id \in DOMAIN host /\ host[u.id] \in Host
  BY <1>2, UpdatedRow
<1> DEFINE rest == Tail(call[p].todo)
           c    == [Idle EXCEPT !.pc = IF rest = <<>> THEN "events" ELSE "match_mac",
                                !.todo = rest, !.observed = call[p].observed,
                                !.log = call[p].log]
           row  == [host[u.id] EXCEPT !.snap = call[p].snap]
<1>4. /\ host' = [host EXCEPT ![u.id] = row] /\ row \in Host
      /\ row.ip = host[u.id].ip /\ row.ips = host[u.id].ips
      /\ row.snap = call[p].snap
  BY <1>1, <1>2, <1>3 DEF Host, Call
<1>5. c.updated = {} /\ c.log = call[p].log /\ c.pc # "snapshot"
  BY DEF Idle
<1>6. call' = [call EXCEPT ![p] = c]
  BY DEF InsertSnapshot
<1> HIDE DEF c, row
<1>7. Grows /\ RowsKnown(host')
  <2>1. host[u.id].ip \in host[u.id].ips
    BY <1>3 DEF Known, RowsKnown
  <2>2. call[p].snap.ip \in host[u.id].ips
    BY <1>1, <1>2 DEF CallKnown
  <2>3. QED
    BY <1>3, <1>4, <2>1, <2>2, RowChanged
<1>8. CallKnown(call[p], host') /\ EventsKnown(event, host')
  BY <1>1, <1>7, CallStaysKnown, EventsStayKnown DEF Known
<1>9. CallKnown(c, host')
  <2>1. EventsKnown(c.log, host')
    BY <1>5, <1>8 DEF CallKnown
  <2>2. QED
    BY <1>5, <2>1, NothingToKnow
<1>10. QED
  BY <1>1, <1>6, <1>7, <1>8, <1>9, StepKnown

-----------------------------------------------------------------------------
(* A new row comes with its address in its history.                        *)
LEMMA InsertHostKnown ==
  ASSUME Inv, Known, NEW p \in Process, InsertHost(p)
  PROVE  Known'
<1> DEFINE row == NewRow(Now(p).mac, Now(p).ip)
           u   == [id |-> NewId, ip |-> Now(p).ip]
           c   == [call[p] EXCEPT !.pc = "report", !.updated = {u}]
           n   == Len(host)
<1>1. /\ call[p] \in Call /\ CallKnown(call[p], host) /\ UNCHANGED event
      /\ host \in Seq(Host) /\ n \in Nat /\ DOMAIN host = 1..n
      /\ host' = Append(host, row) /\ row \in Host
  BY CallFields, LenProperties, InsertHostKeeps DEF InsertHost, Known
<1>2. /\ row.ips = {Now(p).ip} /\ row.ip = Now(p).ip /\ row.snap = NoSnapshot
      /\ u.id = n + 1 /\ u.ip = Now(p).ip
  BY DEF NewRow, NewId
<1>3. call' = [call EXCEPT ![p] = c]
  BY DEF InsertHost
<1>4. c.updated = {u} /\ c.log = call[p].log /\ c.pc # "snapshot"
  <2> HIDE DEF u
  <2>1. QED
    BY <1>1 DEF Call
<1> HIDE DEF row, u, c
<1>5. /\ DOMAIN host' = 1..n + 1
      /\ \A h \in 1..n : host'[h] = host[h]
      /\ host'[n + 1] = row
  BY <1>1, AppendProperties
<1>6. Grows
  BY <1>1, <1>5 DEF Grows
<1>7. RowsKnown(host')
  <2>1. \A h \in DOMAIN host' : h \in DOMAIN host \/ h = n + 1
    BY <1>1, <1>5
  <2>2. QED
    BY <1>1, <1>2, <1>5, <2>1 DEF Known, RowsKnown
<1>8. CallKnown(call[p], host') /\ EventsKnown(event, host')
  BY <1>6, CallStaysKnown, EventsStayKnown DEF Known
<1>9. CallKnown(c, host')
  <2>1. u.ip \in host'[u.id].ips
    BY <1>2, <1>5
  <2>2. QED
    BY <1>4, <1>8, <2>1 DEF CallKnown, UpdatesKnown
<1>10. QED
  BY <1>1, <1>3, <1>6, <1>7, <1>8, <1>9, StepKnown

(* A row that moves keeps its old addresses in the history.                *)
LEMMA UpdateHostKnown ==
  ASSUME Inv, Known, NEW p \in Process, UpdateHost(p)
  PROVE  Known'
<1> DEFINE mac == Now(p).mac
           ip  == Now(p).ip
           c   == [call[p] EXCEPT !.pc = "reread"]
<1>1. PICK k \in Identify(mac, ip) :
        /\ k \in DOMAIN host
        /\ host' = [host EXCEPT ![k] = Refresh(host[k], mac, ip)]
        /\ Refresh(host[k], mac, ip) \in Host
  BY UpdateHostKeeps
<1> DEFINE row == Refresh(host[k], mac, ip)
<1>2. /\ call[p] \in Call /\ UNCHANGED event
      /\ call' = [call EXCEPT ![p] = c] /\ k \in 1..Len(host) /\ host[k] \in Host
      /\ host' = [host EXCEPT ![k] = row] /\ row \in Host
  <2>1. call' = [call EXCEPT ![p] = c] /\ UNCHANGED event
    BY DEF UpdateHost
  <2>2. host \in Seq(Host) /\ DOMAIN host = 1..Len(host) /\ call[p] \in Call
    BY CallFields
  <2> HIDE DEF c, mac, ip
  <2>3. QED
    BY <1>1, <2>1, <2>2
<1>3. c.updated = call[p].updated /\ c.log = call[p].log /\ c.pc # "snapshot"
  BY <1>2 DEF Call
<1>4. /\ row.ip = ip /\ row.ips = host[k].ips \cup {ip}
      /\ row.snap = host[k].snap
  BY <1>2 DEF Refresh, Host
<1> HIDE DEF mac, ip, row, c
<1>5. Grows /\ RowsKnown(host')
  <2>1. host[k].snap # NoSnapshot => host[k].snap.ip \in host[k].ips
    BY <1>1 DEF Known, RowsKnown
  <2>2. /\ host[k].ips \subseteq row.ips /\ row.ip \in row.ips
        /\ row.snap # NoSnapshot => row.snap.ip \in row.ips
    BY <1>4, <2>1
  <2>3. QED
    BY <1>2, <2>2, RowChanged
<1>6. CallKnown(call[p], host') /\ EventsKnown(event, host')
  BY <1>5, CallStaysKnown, EventsStayKnown DEF Known
<1>7. CallKnown(c, host')
  BY <1>3, <1>6 DEF CallKnown
<1>8. QED
  BY <1>2, <1>5, <1>6, <1>7, StepKnown

(* An event that is inserted was in the log of its call.                   *)
LEMMA InsertEventKnown ==
  ASSUME Inv, Known, NEW p \in Process, InsertEvent(p)
  PROVE  Known'
<1>1. /\ call[p] \in Call /\ call[p].pc = "events" /\ UNCHANGED host
      /\ CallKnown(call[p], host) /\ event \in Seq(Event)
  BY CallFields DEF InsertEvent, At, Known
<1> DEFINE old == call[p].log
           e   == Head(old)
           log == Tail(old)
           c   == [call[p] EXCEPT !.log = log]
<1>2. old \in Seq(Event) /\ old # <<>> /\ EventsKnown(old, host)
  BY <1>1 DEF InsertEvent, Call, CallKnown
<1>3. /\ call' = [call EXCEPT ![p] = c] /\ event' = Append(event, e)
  BY DEF InsertEvent
<1>4. c.updated = call[p].updated /\ c.log = log /\ c.pc # "snapshot"
  <2> HIDE DEF log
  <2>1. QED
    BY <1>1 DEF Call
<1> HIDE DEF old
<1>5. /\ e \in Event /\ 1 \in DOMAIN old /\ e = old[1]
      /\ \A i \in DOMAIN log : i + 1 \in DOMAIN old /\ log[i] = old[i + 1]
  <2>1. Len(old) \in Nat /\ Len(old) > 0 /\ DOMAIN old = 1..Len(old)
    BY <1>2, LenProperties
  <2>2. e = old[1] /\ 1 \in DOMAIN old
    BY <1>2, <2>1
  <2>3. /\ log \in Seq(Event) /\ Len(log) = Len(old) - 1
        /\ \A i \in 1..Len(log) : log[i] = old[i + 1]
    BY <1>2, HeadTailProperties
  <2>4. QED
    BY <1>2, <2>1, <2>2, <2>3, LenProperties
<1> HIDE DEF c, e, log
<1>6. EventsKnown(<<e>>, host) /\ EventsKnown(log, host)
  <2>1. EventsKnown(<<e>>, host)
    BY <1>2, <1>5 DEF EventsKnown
  <2>2. EventsKnown(log, host)
    BY <1>2, <1>5 DEF EventsKnown
  <2>3. QED
    BY <2>1, <2>2
<1>7. EventsKnown(event', host')
  <2>1. event' = event \o <<e>> /\ <<e>> \in Seq(Event)
    BY <1>1, <1>3, <1>5
  <2>2. EventsKnown(event, host)
    BY DEF Known
  <2>3. QED
    BY <1>1, <1>6, <2>1, <2>2, LogGrowsKnown
<1>8. Grows /\ RowsKnown(host')
  BY <1>1 DEF Grows, Known
<1>9. CallKnown(c, host')
  BY <1>1, <1>4, <1>6 DEF CallKnown
<1>10. QED
  BY <1>3, <1>7, <1>8, <1>9, StepKnown

-----------------------------------------------------------------------------
LEMMA NextKnown ==
  ASSUME Inv, Known, [Next]_vars
  PROVE  Known'
<1>1. CASE UNCHANGED vars
  BY <1>1 DEF vars, Known
<1>2. ASSUME NEW p \in Process, Return(p) \/ Abandon(p)
      PROVE  Known'
  BY <1>2, EndKnown DEF Return, Abandon
<1>3. QED
  BY <1>1, <1>2, BeginKnown, LookupKnown, InsertHostKnown, UpdateHostKnown,
     ReadBackKnown, ReportKnown, UpsertPortKnown, ClosePortKnown, ReadPortsKnown,
     InsertSnapshotKnown, InsertEventKnown DEF Next

LEMMA InitKnown ==
  ASSUME Init
  PROVE  Known
<1>1. Idle.updated = {} /\ Idle.pc # "snapshot" /\ Idle.log = <<>>
  BY DEF Idle
<1>2. \A p \in Process : CallKnown(call[p], host)
  BY <1>1, EmptyLogKnown, NothingToKnow DEF Init
<1>3. RowsKnown(host) /\ EventsKnown(event, host)
  BY EmptyLogKnown DEF Init, RowsKnown
<1>4. QED
  BY <1>2, <1>3 DEF Known

(* host_ip is the address history of a host, whatever interleaves and      *)
(* wherever a call is cut short: upsert_host writes it in the transaction  *)
(* that moves the row, so no snapshot and no event speaks of an address    *)
(* that it lacks.                                                          *)
THEOREM HistoryIsCompleteHolds == Spec => []HistoryIsComplete
<1>1. Init => Inv /\ Known
  BY InitInv, InitKnown
<1>2. Inv /\ Known /\ [Next]_vars => (Inv /\ Known)'
  BY NextKeeps, NextKnown
<1>3. Inv /\ Known => HistoryIsComplete
  BY DEF Known, RowsKnown, EventsKnown, HistoryIsComplete
<1>4. QED
  BY <1>1, <1>2, <1>3, PTL DEF Spec
=============================================================================
