--------------------------- MODULE ScanFactsProofs ---------------------------
(***************************************************************************)
(* The groups that correlate works on are what the scanners have seen, for *)
(* any number of targets, hosts in a report, answers and ports.            *)
(***************************************************************************)
EXTENDS ScanFacts, ListFacts

FactSet == [kind : {"mac", "name", "port"}, mac : Mac \cup {NoMac},
            ip : Ip \cup {NoIp}, ports : SUBSET Port]

(* What a host element leads to, as a set of facts.                        *)
FactsOf(e) ==
  IF ~Shown(e) THEN {}
  ELSE {MacFact(m, e.ip) : m \in {e.mac} \ {NoMac}}
       \cup {Fact("name", e.mac, e.ip, {}) : n \in {e.named} \ {FALSE}}
       \cup {Fact("port", e.mac, e.ip, {port}) : port \in e.open}

(* A scan without the bounds of the run.                                   *)
AnyRound == [report : Seq(Element), replies : Seq(Reply)]

Reported(rounds) == UNION {Range(rounds[i].report) : i \in DOMAIN rounds}

LEMMA FactsAreFacts ==
  ASSUME NEW mac \in Mac \cup {NoMac}, NEW ip \in Ip \cup {NoIp},
         NEW ports \in SUBSET Port, NEW kind \in {"mac", "name", "port"}
  PROVE  Fact(kind, mac, ip, ports) \in FactSet
  BY DEF Fact, FactSet

(* A list of at most one fact.                                             *)
LEMMA PerhapsOne ==
  ASSUME NEW fact \in FactSet, NEW given \in BOOLEAN
  PROVE  LET list == IF given THEN <<fact>> ELSE <<>>
         IN  list \in Seq(FactSet) /\ Range(list) = {fact : g \in {given} \ {FALSE}}
<1>1. <<fact>> \in Seq(FactSet) /\ <<>> \in Seq(FactSet)
  OBVIOUS
<1>2. Range(<<fact>>) = {fact} /\ Range(<<>>) = {}
  BY DEF Range
<1>3. CASE given
  BY <1>1, <1>2, <1>3
<1>4. CASE ~given
  BY <1>1, <1>2, <1>4
<1>5. QED
  BY <1>3, <1>4

(* parse_nmap_xml reports these facts, and no others.                      *)
LEMMA ParsedTells ==
  ASSUME NEW e \in Element
  PROVE  Parsed(e) \in Seq(FactSet) /\ Range(Parsed(e)) = FactsOf(e)
<1>1. /\ e.mac \in Mac \cup {NoMac} /\ e.ip \in Ip \cup {NoIp}
      /\ e.named \in BOOLEAN /\ e.open \in SUBSET Port
  BY DEF Element
<1>2. CASE ~Shown(e)
  <2>1. Parsed(e) = <<>> /\ FactsOf(e) = {}
    BY <1>2 DEF Parsed, FactsOf
  <2>2. <<>> \in Seq(FactSet) /\ Range(<<>>) = {}
    BY DEF Range
  <2>3. QED
    BY <2>1, <2>2
<1>3. CASE Shown(e)
  <2> DEFINE macs  == IF e.mac # NoMac THEN <<MacFact(e.mac, e.ip)>> ELSE <<>>
             names == IF e.named THEN <<Fact("name", e.mac, e.ip, {})>> ELSE <<>>
             list  == SetToSeq(e.open)
             ports == [i \in DOMAIN list |-> Fact("port", e.mac, e.ip, {list[i]})]
  <2>1. /\ macs \in Seq(FactSet)
        /\ Range(macs) = {MacFact(m, e.ip) : m \in {e.mac} \ {NoMac}}
    <3>1. MacFact(e.mac, e.ip) \in FactSet
      BY <1>1, FactsAreFacts DEF MacFact
    <3> DEFINE fact == MacFact(e.mac, e.ip)
               given == e.mac # NoMac
    <3>2. {MacFact(m, e.ip) : m \in {e.mac} \ {NoMac}} = {fact : g \in {given} \ {FALSE}}
      OBVIOUS
    <3>3. fact \in FactSet /\ given \in BOOLEAN
      BY <3>1
    <3> HIDE DEF fact, given
    <3>4. LET l == IF given THEN <<fact>> ELSE <<>>
          IN  l \in Seq(FactSet) /\ Range(l) = {fact : g \in {given} \ {FALSE}}
      BY <3>3, PerhapsOne
    <3>5. macs = IF given THEN <<fact>> ELSE <<>>
      BY DEF fact, given
    <3>6. QED
      BY <3>2, <3>4, <3>5
  <2>2. /\ names \in Seq(FactSet)
        /\ Range(names) = {Fact("name", e.mac, e.ip, {}) : n \in {e.named} \ {FALSE}}
    <3>1. Fact("name", e.mac, e.ip, {}) \in FactSet
      BY <1>1, FactsAreFacts
    <3>2. QED
      BY <1>1, <3>1, PerhapsOne
  <2>3. /\ ports \in Seq(FactSet)
        /\ Range(ports) = {Fact("port", e.mac, e.ip, {port}) : port \in e.open}
    <3>1. IsFiniteSet(e.open)
      BY <1>1, ScanFactsAssumption, FS_Subset
    <3>2. list \in Seq(e.open) /\ Range(list) = e.open
      BY <3>1, SetToSeqListsAll
    <3> HIDE DEF list
    <3>3. Len(list) \in Nat /\ DOMAIN list = 1..Len(list)
      BY <3>2, LenProperties
    <3>4. \A i \in DOMAIN list : list[i] \in e.open
      BY <3>2 DEF Range
    <3>5. \A i \in DOMAIN list : Fact("port", e.mac, e.ip, {list[i]}) \in FactSet
      BY <1>1, <3>4, FactsAreFacts
    <3>6. ports \in Seq(FactSet)
      BY <3>3, <3>5, SeqDef
    <3>7. Range(ports) = {Fact("port", e.mac, e.ip, {list[i]}) : i \in DOMAIN list}
      BY DEF Range
    <3>8. e.open = {list[i] : i \in DOMAIN list}
      BY <3>2 DEF Range
    <3>9. {Fact("port", e.mac, e.ip, {list[i]}) : i \in DOMAIN list}
            = {Fact("port", e.mac, e.ip, {port}) : port \in e.open}
      <4> DEFINE F(port) == Fact("port", e.mac, e.ip, {port})
      <4> HIDE DEF F
      <4>1. {F(list[i]) : i \in DOMAIN list} = {F(port) : port \in e.open}
        BY <3>8
      <4>2. QED
        BY <4>1 DEF F
    <3>10. QED
      BY <3>6, <3>7, <3>9
  <2>4. Parsed(e) = (macs \o names) \o ports
    BY <1>3 DEF Parsed
  <2> HIDE DEF macs, names, ports
  <2>5. macs \in Seq(FactSet) /\ names \in Seq(FactSet) /\ ports \in Seq(FactSet)
    BY <2>1, <2>2, <2>3
  <2>6. /\ macs \o names \in Seq(FactSet)
        /\ Range(macs \o names) = Range(macs) \cup Range(names)
    BY <2>5, ConcatProperties, RangeConcatenation
  <2>7. /\ (macs \o names) \o ports \in Seq(FactSet)
        /\ Range((macs \o names) \o ports) = Range(macs \o names) \cup Range(ports)
    <3> DEFINE front == macs \o names
    <3>1. front \in Seq(FactSet) /\ ports \in Seq(FactSet)
      BY <2>5, <2>6
    <3> HIDE DEF front
    <3>2. front \o ports \in Seq(FactSet) /\ Range(front \o ports) = Range(front) \cup Range(ports)
      BY <3>1, ConcatProperties, RangeConcatenation
    <3>3. QED
      BY <3>2 DEF front
  <2>8. FactsOf(e) = Range(macs) \cup Range(names) \cup Range(ports)
    BY <1>3, <2>1, <2>2, <2>3 DEF FactsOf
  <2>9. QED
    BY <2>4, <2>6, <2>7, <2>8
<1>4. QED
  BY <1>2, <1>3
(* ArpScanner.scan reports a MAC fact for each reply.                      *)
LEMMA AnsweredTells ==
  ASSUME NEW replies \in Seq(Reply)
  PROVE  /\ Answered(replies) \in Seq(FactSet)
         /\ Range(Answered(replies)) = {MacFact(r.mac, r.ip) : r \in Range(replies)}
<1>1. Len(replies) \in Nat /\ DOMAIN replies = 1..Len(replies)
  BY LenProperties
<1>2. ASSUME NEW i \in DOMAIN replies
      PROVE  MacFact(replies[i].mac, replies[i].ip) \in FactSet
  <2>1. replies[i] \in Reply
    BY <1>1, LenProperties
  <2>2. QED
    BY <2>1, FactsAreFacts DEF Reply, MacFact
<1> DEFINE list == [i \in DOMAIN replies |-> MacFact(replies[i].mac, replies[i].ip)]
           F(r) == MacFact(r.mac, r.ip)
<1>3. list \in [1..Len(replies) -> FactSet]
  BY <1>1, <1>2
<1>4. list \in Seq(FactSet)
  BY <1>1, <1>3, SeqDef
<1>5. Range(list) = {F(replies[i]) : i \in DOMAIN replies}
  BY DEF Range
<1> HIDE DEF F
<1>6. {F(replies[i]) : i \in DOMAIN replies} = {F(r) : r \in Range(replies)}
  BY DEF Range
<1>7. QED
  BY <1>4, <1>5, <1>6 DEF Answered, F

(* The facts of a scan are what its reports and its replies lead to.       *)
LEMMA CollectedTells ==
  ASSUME NEW rounds \in Seq(AnyRound)
  PROVE  /\ Collected(rounds) \in Seq(FactSet)
         /\ \A f : f \in Range(Collected(rounds))
                     <=> \/ \E e \in Reported(rounds) : f \in FactsOf(e)
                         \/ \E r \in Heard(rounds) : f = MacFact(r.mac, r.ip)
<1> DEFINE Parts(i) == [j \in DOMAIN rounds[i].report |-> Parsed(rounds[i].report[j])]
           Part(i)  == FlattenSeq(Parts(i)) \o Answered(rounds[i].replies)
           parts    == [i \in DOMAIN rounds |-> Part(i)]
           Leads(i, f) == \/ \E e \in Range(rounds[i].report) : f \in FactsOf(e)
                          \/ \E r \in Range(rounds[i].replies) : f = MacFact(r.mac, r.ip)
<1>1. Len(rounds) \in Nat /\ DOMAIN rounds = 1..Len(rounds)
  BY LenProperties
<1>2. ASSUME NEW i \in DOMAIN rounds
      PROVE  /\ Part(i) \in Seq(FactSet)
             /\ \A f : f \in Range(Part(i)) <=> Leads(i, f)
  <2>1. rounds[i].report \in Seq(Element) /\ rounds[i].replies \in Seq(Reply)
    <3>1. rounds[i] \in AnyRound
      BY <1>1, LenProperties
    <3>2. QED
      BY <3>1 DEF AnyRound
  <2> DEFINE report == rounds[i].report
  <2>2. Len(report) \in Nat /\ DOMAIN report = 1..Len(report)
        /\ \A j \in DOMAIN report : report[j] \in Element
    BY <2>1, LenProperties
  <2>3. \A j \in DOMAIN report :
          Parsed(report[j]) \in Seq(FactSet) /\ Range(Parsed(report[j])) = FactsOf(report[j])
    BY <2>2, ParsedTells
  <2>4. Parts(i) \in Seq(Seq(FactSet)) /\ DOMAIN Parts(i) = DOMAIN report
    <3>1. Parts(i) \in [1..Len(report) -> Seq(FactSet)]
      BY <2>2, <2>3
    <3>2. QED
      BY <2>2, <3>1, SeqDef
  <2>5. \A j \in DOMAIN report : Range(Parts(i)[j]) = FactsOf(report[j])
    BY <2>3
  <2> HIDE DEF Parts, report
  <2>6. /\ FlattenSeq(Parts(i)) \in Seq(FactSet)
        /\ \A f : f \in Range(FlattenSeq(Parts(i)))
                    <=> \E j \in DOMAIN Parts(i) : f \in Range(Parts(i)[j])
    BY <2>4, FlattenHasAll
  <2>7. \A f : f \in Range(FlattenSeq(Parts(i)))
                <=> \E e \in Range(report) : f \in FactsOf(e)
    <3>1. \A f : (\E e \in Range(report) : f \in FactsOf(e))
                  <=> \E j \in DOMAIN report : f \in FactsOf(report[j])
      BY DEF Range
    <3>2. QED
      BY <2>4, <2>5, <2>6, <3>1
  <2> DEFINE answers == Answered(rounds[i].replies)
  <2>8. /\ answers \in Seq(FactSet)
        /\ Range(answers) = {MacFact(r.mac, r.ip) : r \in Range(rounds[i].replies)}
    BY <2>1, AnsweredTells
  <2> HIDE DEF answers
  <2>9. /\ FlattenSeq(Parts(i)) \o answers \in Seq(FactSet)
        /\ Range(FlattenSeq(Parts(i)) \o answers)
             = Range(FlattenSeq(Parts(i))) \cup Range(answers)
    BY <2>6, <2>8, ConcatProperties, RangeConcatenation
  <2>10. QED
    BY <2>7, <2>8, <2>9 DEF report, answers
<1>3. parts \in Seq(Seq(FactSet)) /\ DOMAIN parts = DOMAIN rounds
  <2> HIDE DEF Part
  <2>1. parts \in [1..Len(rounds) -> Seq(FactSet)]
    BY <1>1, <1>2
  <2>2. QED
    BY <1>1, <2>1, SeqDef
<1>4. Collected(rounds) = FlattenSeq(parts)
  BY DEF Collected
<1>5. \A i \in DOMAIN rounds : parts[i] = Part(i)
  OBVIOUS
<1> HIDE DEF Part, parts, Leads
<1>6. /\ FlattenSeq(parts) \in Seq(FactSet)
      /\ \A f : f \in Range(FlattenSeq(parts))
                  <=> \E i \in DOMAIN parts : f \in Range(parts[i])
  BY <1>3, FlattenHasAll
<1>7. \A f : f \in Range(FlattenSeq(parts))
              <=> \E i \in DOMAIN rounds : Leads(i, f)
  BY <1>2, <1>3, <1>5, <1>6
<1>8. \A f : (\E i \in DOMAIN rounds : Leads(i, f))
              <=> \/ \E e \in Reported(rounds) : f \in FactsOf(e)
                  \/ \E r \in Heard(rounds) : f = MacFact(r.mac, r.ip)
  BY DEF Reported, Heard, Leads
<1>9. QED
  BY <1>4, <1>6, <1>7, <1>8
-----------------------------------------------------------------------------
(* Positions are listed in order, each once.                               *)
LEMMA ListedListsAll ==
  ASSUME NEW n \in Nat, NEW S \in SUBSET (1..n)
  PROVE  /\ Range(Listed(S)) = S
         /\ \A k, l \in DOMAIN Listed(S) : k # l => Listed(S)[k] < Listed(S)[l]
                                                 \/ Listed(S)[l] < Listed(S)[k]
<1> DEFINE es == Listed(S)
<1>1. es \in InOrder(S)
  BY InOrderExists DEF Listed
<1> HIDE DEF es
<1>2. es \in Seq(S) /\ DOMAIN es = 1..Len(es) /\ Range(es) = S
  BY <1>1, InOrderListsAll
<1>3. \A i, j \in DOMAIN es : i < j => es[i] < es[j]
  BY <1>1 DEF InOrder
<1>4. \A k, l \in DOMAIN es : k # l => k < l \/ l < k
  <2>1. Len(es) \in Nat
    BY <1>2, LenProperties
  <2>2. QED
    BY <1>2, <2>1
<1>5. QED
  BY <1>2, <1>3, <1>4 DEF es

(* Each key occurs for a first time.                                       *)
First(facts) == {i \in DOMAIN facts :
                   \A j \in 1..(i - 1) : KeyOf(facts[j]) # KeyOf(facts[i])}

LEMMA EveryKeyHasAFirst ==
  ASSUME NEW facts \in Seq(FactSet), NEW i \in DOMAIN facts
  PROVE  \E j \in First(facts) : KeyOf(facts[j]) = KeyOf(facts[i])
<1>1. Len(facts) \in Nat /\ DOMAIN facts = 1..Len(facts)
  BY LenProperties
<1> DEFINE Same == {j \in DOMAIN facts : KeyOf(facts[j]) = KeyOf(facts[i])}
<1>2. Same \in SUBSET Nat /\ Same # {}
  BY <1>1
<1> HIDE DEF Same
<1>3. PICK j \in Same : \A l \in Same : j <= l
  BY <1>2, LeastNumber
<1>4. j \in DOMAIN facts /\ KeyOf(facts[j]) = KeyOf(facts[i])
  BY <1>3 DEF Same
<1>5. ASSUME NEW l \in 1..(j - 1)
      PROVE  KeyOf(facts[l]) # KeyOf(facts[j])
  <2>1. l \in DOMAIN facts /\ ~(j <= l)
    BY <1>1, <1>4
  <2>2. l \notin Same
    BY <1>3, <2>1
  <2>3. QED
    BY <1>4, <2>1, <2>2 DEF Same
<1>6. j \in First(facts)
  BY <1>4, <1>5 DEF First
<1>7. QED
  BY <1>4, <1>6

(* by_key: one group for each key, with the ports of its facts.            *)
LEMMA GroupsHaveAll ==
  ASSUME NEW facts \in Seq(FactSet)
  PROVE  /\ IsInjective([k \in DOMAIN Grouped(facts) |-> KeyOf(Grouped(facts)[k])])
         /\ {KeyOf(Grouped(facts)[k]) : k \in DOMAIN Grouped(facts)}
              = {KeyOf(f) : f \in Range(facts)}
         /\ \A k \in DOMAIN Grouped(facts) :
              Range(Grouped(facts)[k].ports)
                = {CHOOSE port \in f.ports : TRUE :
                     f \in {g \in Range(facts) : /\ KeyOf(g) = KeyOf(Grouped(facts)[k])
                                                /\ g.kind = "port"}}
<1> DEFINE groups == Grouped(facts)
           is     == Firsts(facts)
<1>1. Len(facts) \in Nat /\ DOMAIN facts = 1..Len(facts)
  BY LenProperties
<1>2. is = Listed(First(facts)) /\ First(facts) \in SUBSET (1..Len(facts))
  BY <1>1 DEF Firsts, First
<1>3. /\ Range(is) = First(facts)
      /\ \A k, l \in DOMAIN is : k # l => is[k] < is[l] \/ is[l] < is[k]
  BY <1>1, <1>2, ListedListsAll
<1>4. \A k \in DOMAIN is : is[k] \in First(facts) /\ is[k] \in DOMAIN facts
  BY <1>3 DEF Range, First
<1>5. /\ DOMAIN groups = DOMAIN is
      /\ \A k \in DOMAIN groups :
           /\ KeyOf(groups[k]) = KeyOf(facts[is[k]])
           /\ groups[k].ports = PortsOf(facts, KeyOf(groups[k]))
  BY DEF Grouped, KeyOf
<1> HIDE DEF groups, is
<1>6. ASSUME NEW k \in DOMAIN groups, NEW l \in DOMAIN groups,
             KeyOf(groups[k]) = KeyOf(groups[l])
      PROVE  k = l
  <2>1. ASSUME NEW a \in First(facts), NEW b \in First(facts), a < b
        PROVE  KeyOf(facts[a]) # KeyOf(facts[b])
    <3>1. a \in 1..(b - 1)
      BY <1>1, <2>1 DEF First
    <3>2. QED
      BY <3>1 DEF First
  <2>2. SUFFICES ASSUME k # l PROVE FALSE
    OBVIOUS
  <2>3. is[k] < is[l] \/ is[l] < is[k]
    BY <1>3, <1>5, <2>2
  <2>4. is[k] \in First(facts) /\ is[l] \in First(facts)
    BY <1>4, <1>5
  <2>5. KeyOf(facts[is[k]]) = KeyOf(facts[is[l]])
    BY <1>5, <1>6
  <2>6. QED
    BY <2>1, <2>3, <2>4, <2>5
<1>7. IsInjective([k \in DOMAIN groups |-> KeyOf(groups[k])])
  BY <1>6 DEF IsInjective
<1>8. ASSUME NEW key
      PROVE  (\E k \in DOMAIN groups : key = KeyOf(groups[k]))
               <=> \E f \in Range(facts) : key = KeyOf(f)
  <2>1. ASSUME NEW k \in DOMAIN groups, key = KeyOf(groups[k])
        PROVE  \E f \in Range(facts) : key = KeyOf(f)
    <3>1. is[k] \in DOMAIN facts /\ key = KeyOf(facts[is[k]])
      BY <1>4, <1>5, <2>1
    <3>2. facts[is[k]] \in Range(facts)
      BY <3>1 DEF Range
    <3>3. QED
      BY <3>1, <3>2
  <2>2. ASSUME NEW f \in Range(facts), key = KeyOf(f)
        PROVE  \E k \in DOMAIN groups : key = KeyOf(groups[k])
    <3>1. PICK i \in DOMAIN facts : f = facts[i]
      BY DEF Range
    <3>2. PICK j \in First(facts) : KeyOf(facts[j]) = KeyOf(facts[i])
      BY EveryKeyHasAFirst
    <3>3. PICK k \in DOMAIN is : is[k] = j
      BY <1>3 DEF Range
    <3>4. QED
      BY <1>5, <2>2, <3>1, <3>2, <3>3
  <2>3. QED
    BY <2>1, <2>2
<1>9. {KeyOf(groups[k]) : k \in DOMAIN groups} = {KeyOf(f) : f \in Range(facts)}
  BY <1>8
<1>10. ASSUME NEW key
       PROVE  Range(PortsOf(facts, key))
                = {CHOOSE port \in f.ports : TRUE :
                     f \in {g \in Range(facts) : KeyOf(g) = key /\ g.kind = "port"}}
  <2> DEFINE Mine == {i \in DOMAIN facts : KeyOf(facts[i]) = key /\ facts[i].kind = "port"}
             mine == Listed(Mine)
             Chosen(f) == CHOOSE port \in f.ports : TRUE
             About == {g \in Range(facts) : KeyOf(g) = key /\ g.kind = "port"}
  <2>1. Mine \in SUBSET (1..Len(facts))
    BY <1>1
  <2>2. About = {facts[i] : i \in Mine}
    BY DEF Range
  <2> HIDE DEF Mine, About
  <2>3. Range(mine) = Mine
    BY <1>1, <2>1, ListedListsAll
  <2>4. PortsOf(facts, key) = [k \in DOMAIN mine |-> Chosen(facts[mine[k]])]
    BY DEF PortsOf, Mine
  <2> HIDE DEF mine, Chosen
  <2>5. Range(PortsOf(facts, key)) = {Chosen(facts[mine[k]]) : k \in DOMAIN mine}
    BY <2>4 DEF Range
  <2>6. Mine = {mine[k] : k \in DOMAIN mine}
    BY <2>3 DEF Range
  <2>7. {Chosen(facts[mine[k]]) : k \in DOMAIN mine} = {Chosen(f) : f \in About}
    BY <2>2, <2>6
  <2>8. QED
    BY <2>5, <2>7 DEF Chosen, About
<1>11. QED
  BY <1>5, <1>7, <1>9, <1>10 DEF groups
-----------------------------------------------------------------------------
(* A host has facts if it is up and told something; all are under its key. *)
Tells(e) == e.mac # NoMac \/ e.named \/ e.open # {}

LEMMA FactsAreUnderTheKey ==
  ASSUME NEW e \in Element
  PROVE  /\ \A f \in FactsOf(e) : KeyOf(f) = KeyOf(e) /\ Shown(e) /\ Tells(e)
         /\ Shown(e) /\ Tells(e) => FactsOf(e) # {}
         /\ \A f : f \in FactsOf(e) /\ f.kind = "port"
                     <=> \E port \in e.open : /\ Shown(e)
                                              /\ f = Fact("port", e.mac, e.ip, {port})
<1> DEFINE macs  == {MacFact(m, e.ip) : m \in {e.mac} \ {NoMac}}
           names == {Fact("name", e.mac, e.ip, {}) : n \in {e.named} \ {FALSE}}
           ports == {Fact("port", e.mac, e.ip, {port}) : port \in e.open}
<1>1. e.named \in BOOLEAN
  BY DEF Element
<1>2. FactsOf(e) = IF ~Shown(e) THEN {} ELSE macs \cup names \cup ports
  BY DEF FactsOf
<1>3. \A f \in macs : KeyOf(f) = KeyOf(e) /\ f.kind = "mac" /\ e.mac # NoMac
  BY DEF MacFact, Fact, KeyOf
<1>4. \A f \in names : KeyOf(f) = KeyOf(e) /\ f.kind = "name" /\ e.named
  <2>1. names # {} => e.named
    BY <1>1
  <2>2. \A f \in names : KeyOf(f) = KeyOf(e) /\ f.kind = "name"
    <3> DEFINE name == Fact("name", e.mac, e.ip, {})
    <3>1. \A f \in names : f = name
      OBVIOUS
    <3>2. KeyOf(name) = KeyOf(e) /\ name.kind = "name"
      BY DEF Fact, KeyOf
    <3> HIDE DEF names, name
    <3>3. QED
      BY <3>1, <3>2
  <2>3. QED
    <3> HIDE DEF names
    <3>1. QED
      BY <2>1, <2>2
<1>5. \A f \in ports : KeyOf(f) = KeyOf(e) /\ f.kind = "port" /\ e.open # {}
  BY DEF Fact, KeyOf
<1>6. Tells(e) => macs \cup names \cup ports # {}
  BY <1>1 DEF Tells
<1>7. \A f : f \in ports <=> \E port \in e.open : f = Fact("port", e.mac, e.ip, {port})
  OBVIOUS
<1> HIDE DEF macs, names, ports
<1>8. \A f \in FactsOf(e) : KeyOf(f) = KeyOf(e) /\ Shown(e) /\ Tells(e)
  BY <1>2, <1>3, <1>4, <1>5 DEF Tells
<1>9. Shown(e) /\ Tells(e) => FactsOf(e) # {}
  BY <1>2, <1>6
<1>10. \A f : f \in FactsOf(e) /\ f.kind = "port" <=> Shown(e) /\ f \in ports
  <2>1. "mac" # "port" /\ "name" # "port"
    OBVIOUS
  <2>2. QED
    BY <1>2, <1>3, <1>4, <1>5, <2>1
<1>11. QED
  BY <1>7, <1>8, <1>9, <1>10

(* Whatever the two scanners report for the targets of a scan, each pair   *)
(* of a MAC and an address of which something was learned is in one group, *)
(* with all the ports that were seen open there, and nothing else is.      *)
THEOREM AnyScanIsGrouped ==
  ASSUME NEW rounds \in Seq(AnyRound)
  PROVE  GroupedRightly(rounds)
<1> DEFINE facts  == Collected(rounds)
           groups == Grouped(facts)
           told   == {e \in UpIn(rounds) : e.mac # NoMac \/ e.named \/ e.open # {}}
<1>1. /\ facts \in Seq(FactSet)
      /\ \A f : f \in Range(facts) <=> \/ \E e \in Reported(rounds) : f \in FactsOf(e)
                                       \/ \E r \in Heard(rounds) : f = MacFact(r.mac, r.ip)
  BY CollectedTells
<1>2. \A e : e \in told <=> e \in Reported(rounds) /\ Shown(e) /\ Tells(e)
  BY DEF UpIn, Reported, Shown, Tells
<1>3. \A e \in Reported(rounds) : e \in Element
  <2>1. ASSUME NEW i \in DOMAIN rounds, NEW e \in Range(rounds[i].report)
        PROVE  e \in Element
    <3>1. rounds[i] \in AnyRound
      BY LenProperties
    <3>2. rounds[i].report \in Seq(Element)
      BY <3>1 DEF AnyRound
    <3>3. QED
      BY <3>2, RangeOfSeq
  <2>2. QED
    BY <2>1 DEF Reported
<1> HIDE DEF facts, groups, told
<1>4. \A f \in Range(facts) :
        \/ \E e \in told : f \in FactsOf(e) /\ KeyOf(f) = KeyOf(e)
        \/ \E r \in Heard(rounds) : f = MacFact(r.mac, r.ip)
  BY <1>1, <1>2, <1>3, FactsAreUnderTheKey
<1>5. \A e \in told : \E f \in Range(facts) : KeyOf(f) = KeyOf(e)
  BY <1>1, <1>2, <1>3, FactsAreUnderTheKey
<1>6. \A r : KeyOf(MacFact(r.mac, r.ip)) = KeyOf(r) /\ MacFact(r.mac, r.ip).kind = "mac"
  BY DEF MacFact, Fact, KeyOf
<1>7. {KeyOf(f) : f \in Range(facts)}
        = {KeyOf(e) : e \in told} \cup {KeyOf(r) : r \in Heard(rounds)}
  <2>1. ASSUME NEW f \in Range(facts)
        PROVE  KeyOf(f) \in {KeyOf(e) : e \in told} \cup {KeyOf(r) : r \in Heard(rounds)}
    BY <1>4, <1>6
  <2>2. ASSUME NEW e \in told
        PROVE  KeyOf(e) \in {KeyOf(f) : f \in Range(facts)}
    BY <1>5
  <2>3. ASSUME NEW r \in Heard(rounds)
        PROVE  KeyOf(r) \in {KeyOf(f) : f \in Range(facts)}
    BY <1>1, <1>6
  <2>4. QED
    BY <2>1, <2>2, <2>3
<1>8. ASSUME NEW key
      PROVE  {CHOOSE port \in f.ports : TRUE :
                f \in {g \in Range(facts) : KeyOf(g) = key /\ g.kind = "port"}}
               = UNION {e.open : e \in {d \in told : KeyOf(d) = key}}
  <2> DEFINE Chosen(f) == CHOOSE port \in f.ports : TRUE
             About == {g \in Range(facts) : KeyOf(g) = key /\ g.kind = "port"}
             Open  == UNION {e.open : e \in {d \in told : KeyOf(d) = key}}
  <2>1. ASSUME NEW e, NEW port
        PROVE  Chosen(Fact("port", e.mac, e.ip, {port})) = port
    BY DEF Fact
  <2> HIDE DEF Chosen
  <2>2. ASSUME NEW f \in About
        PROVE  Chosen(f) \in Open
    <3>1. f \in Range(facts) /\ KeyOf(f) = key /\ f.kind = "port"
      OBVIOUS
    <3>2. PICK e \in told : f \in FactsOf(e) /\ KeyOf(f) = KeyOf(e)
      BY <1>4, <1>6, <3>1
    <3>3. PICK port \in e.open : f = Fact("port", e.mac, e.ip, {port})
      BY <1>2, <1>3, <3>1, <3>2, FactsAreUnderTheKey
    <3>4. QED
      BY <2>1, <3>1, <3>2, <3>3
  <2>3. ASSUME NEW e \in told, KeyOf(e) = key, NEW port \in e.open
        PROVE  \E f \in About : Chosen(f) = port
    <3> DEFINE f == Fact("port", e.mac, e.ip, {port})
    <3>1. f \in FactsOf(e) /\ f.kind = "port" /\ KeyOf(f) = key
      <4>1. e \in Element /\ Shown(e)
        BY <1>2, <1>3
      <4>2. f \in FactsOf(e) /\ f.kind = "port"
        BY <4>1, FactsAreUnderTheKey
      <4>3. KeyOf(f) = KeyOf(e)
        BY <4>1, <4>2, FactsAreUnderTheKey
      <4>4. QED
        BY <2>3, <4>2, <4>3
    <3>2. f \in Range(facts)
      BY <1>1, <1>2, <3>1
    <3>3. QED
      BY <2>1, <3>1, <3>2
  <2>4. QED
    <3>1. {Chosen(f) : f \in About} \subseteq Open
      BY <2>2
    <3>2. Open \subseteq {Chosen(f) : f \in About}
      BY <2>3
    <3>3. QED
      BY <3>1, <3>2 DEF Chosen
<1>9. /\ IsInjective([k \in DOMAIN groups |-> KeyOf(groups[k])])
      /\ {KeyOf(groups[k]) : k \in DOMAIN groups} = {KeyOf(f) : f \in Range(facts)}
      /\ \A k \in DOMAIN groups :
           Range(groups[k].ports)
             = {CHOOSE port \in f.ports : TRUE :
                  f \in {g \in Range(facts) : KeyOf(g) = KeyOf(groups[k])
                                              /\ g.kind = "port"}}
  BY <1>1, GroupsHaveAll DEF groups
<1>10. \A k \in DOMAIN groups :
         Range(groups[k].ports)
           = UNION {e.open : e \in {d \in told : KeyOf(d) = KeyOf(groups[k])}}
  BY <1>8, <1>9
<1>11. QED
  BY <1>7, <1>9, <1>10 DEF GroupedRightly, groups, facts, told

(* GroupsAreWhatWasSeen, for any bound on the number of targets.           *)
THEOREM GroupsAreWhatWasSeenHolds == Spec => []GroupsAreWhatWasSeen
<1>1. Round \subseteq AnyRound
  <2>1. ASSUME NEW X, NEW n \in 0..1, NEW s \in [1..n -> X]
        PROVE  s \in Seq(X)
    BY SeqDef
  <2>2. QED
    BY <2>1 DEF Round, AnyRound
<1>2. ASSUME NEW n \in 0..MaxRounds, NEW rounds \in [1..n -> Round]
      PROVE  GroupedRightly(rounds)
  <2>1. n \in Nat
    BY ScanFactsAssumption
  <2>2. rounds \in [1..n -> AnyRound]
    BY <1>1
  <2>3. rounds \in Seq(AnyRound)
    BY <2>1, <2>2, SeqDef
  <2>4. QED
    BY <2>3, AnyScanIsGrouped
<1>3. GroupsAreWhatWasSeen
  BY <1>2 DEF GroupsAreWhatWasSeen, ScansAreGrouped
<1>4. QED
  BY <1>3, PTL
=============================================================================
