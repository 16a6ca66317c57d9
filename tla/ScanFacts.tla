------------------------------ MODULE ScanFacts ------------------------------
(***************************************************************************)
(* From what nmap and ARP report to the groups that correlate works on:    *)
(* the two scanners run for one target after the other, their facts are    *)
(* collected in one list and grouped by (MAC, address).                    *)
(*                                                                         *)
(* Names, systems and device types are facts without content here: all     *)
(* that counts is that there is one.  A report may hold what nmap is not   *)
(* expected to print, such as a host without an address.                   *)
(*                                                                         *)
(* An operator whose name starts with Faulty is the one after it with a    *)
(* bug planted.  It shows that a property would notice.                    *)
(***************************************************************************)
EXTENDS Correlation, SequencesExt, Lists

CONSTANT MaxRounds     \* bound: targets of a scan, one reported host each

(* A port set is what one machine can have open.                           *)
ASSUME ScanFactsAssumption ==
  /\ IsFiniteSet(Port)
  /\ MaxRounds \in Nat

NoIp == NoMac          \* neither is an address

(* A host element of nmap's XML; open and other are its ports by state.    *)
Element == [up : BOOLEAN, mac : Mac \cup {NoMac}, ip : Ip \cup {NoIp},
            named : BOOLEAN, open : SUBSET Port]

(* An answer to an ARP request.                                            *)
Reply == [mac : Mac, ip : Ip]

(* What the two scanners get to see for one target.                        *)
Round == [report : UNION {[1..n -> Element] : n \in 0..1},
          replies : UNION {[1..n -> Reply] : n \in 0..1}]

Fact(kind, mac, ip, ports) == [kind |-> kind, mac |-> mac, ip |-> ip, ports |-> ports]
MacFact(mac, ip) == Fact("mac", mac, ip, {})

-----------------------------------------------------------------------------
(* parse_nmap_xml, for one host.                                           *)
FaultyShown(e) == e.ip # NoIp                \* hosts that are down, too
Shown(e) == e.up /\ e.ip # NoIp

Parsed(e) ==
  IF ~Shown(e) THEN <<>>
  ELSE (IF e.mac # NoMac THEN <<MacFact(e.mac, e.ip)>> ELSE <<>>)
       \o (IF e.named THEN <<Fact("name", e.mac, e.ip, {})>> ELSE <<>>)
       \o LET ports == SetToSeq(e.open) IN
          [i \in DOMAIN ports |-> Fact("port", e.mac, e.ip, {ports[i]})]

(* ArpScanner.scan                                                         *)
Answered(replies) == [i \in DOMAIN replies |-> MacFact(replies[i].mac, replies[i].ip)]

(* For every target, nmap and then ARP.                                    *)
Collected(rounds) ==
  FlattenSeq([i \in DOMAIN rounds |->
    FlattenSeq([j \in DOMAIN rounds[i].report |-> Parsed(rounds[i].report[j])])
    \o Answered(rounds[i].replies)])

(* _key_for, and by_key with the ports of each group.                      *)
KeyOf(f) == <<f.mac, f.ip>>

Listed(S) == CHOOSE is \in InOrder(S) : TRUE

Firsts(facts) ==
  Listed({i \in DOMAIN facts :
            \A j \in 1..(i - 1) : KeyOf(facts[j]) # KeyOf(facts[i])})

PortsOf(facts, key) ==
  LET mine == Listed({i \in DOMAIN facts :
                        KeyOf(facts[i]) = key /\ facts[i].kind = "port"})
  IN  [k \in DOMAIN mine |-> CHOOSE port \in facts[mine[k]].ports : TRUE]

Grouped(facts) ==
  LET firsts == Firsts(facts)
  IN  [k \in DOMAIN firsts |->
         LET f == facts[firsts[k]]
         IN  [mac |-> f.mac, ip |-> f.ip, ports |-> PortsOf(facts, KeyOf(f))]]

-----------------------------------------------------------------------------
(* Properties.                                                             *)

UpIn(rounds) ==
  {e \in UNION {Range(rounds[i].report) : i \in DOMAIN rounds} :
     e.up /\ e.ip # NoIp}

Heard(rounds) == UNION {Range(rounds[i].replies) : i \in DOMAIN rounds}

GroupedRightly(rounds) ==
  LET groups == Grouped(Collected(rounds))
      told   == {e \in UpIn(rounds) : e.mac # NoMac \/ e.named \/ e.open # {}}
  IN  /\ IsInjective([k \in DOMAIN groups |-> KeyOf(groups[k])])
      /\ {KeyOf(groups[k]) : k \in DOMAIN groups}
           = {KeyOf(e) : e \in told} \cup {KeyOf(r) : r \in Heard(rounds)}
      /\ \A k \in DOMAIN groups :
           Range(groups[k].ports)
             = UNION {e.open : e \in {d \in told : KeyOf(d) = KeyOf(groups[k])}}

ScansAreGrouped ==
  \A rounds \in UNION {[1..n -> Round] : n \in 0..MaxRounds} : GroupedRightly(rounds)

(* Whenever a call of correlate may begin, and whatever the scanners have  *)
(* reported for targets that may cover the same host: each pair of a MAC   *)
(* and an address is in one group; it is there if ARP was answered or nmap *)
(* saw the host up and learned a MAC, a name or an open port, and only     *)
(* then; its ports are those that nmap saw open at that pair.  A host that *)
(* is up and tells nothing else is not recorded, and one whose MAC is      *)
(* spelled in two ways, or seen by nmap without it, has two groups.        *)
GroupsAreWhatWasSeen ==
  \A p \in Process : At(p, "idle") => ScansAreGrouped
=============================================================================
