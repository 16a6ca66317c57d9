-------------------------- MODULE ScanDispatchProofs --------------------------
(***************************************************************************)
(* Theorems about ScanDispatch, for every set of CIDRs and every value of  *)
(* the bounds.                                                             *)
(***************************************************************************)
EXTENDS ScanDispatch, FiniteSetTheorems, SequenceTheorems, TLAPS

(* The part of the type invariant that the three outcomes of maybe_run and *)
(* the end of a work task can disturb.                                     *)
TablesOK ==
  /\ inFlight \in SUBSET Key
  /\ work \in SUBSET (1..Len(scan))
  /\ scan \in Seq(Row)
  /\ published \in Seq(Seq(Kind))
  /\ Len(published) = Len(scan)
  /\ boot \in 0..Len(scan)
  /\ leaked \in SUBSET Key
  /\ stuck \in SUBSET (1..Len(scan))
  /\ faults \in 0..MaxFaults
  /\ faults = 0 => leaked = {}

DownIsClean == proc = "down" => work = {} /\ inFlight = {}

(* The inductive invariant: who owns a row and who owns a key.             *)
Registry ==
  /\ TablesOK
  /\ DownIsClean
  /\ WorkIsRegistered
  /\ OneTaskPerKey
  /\ KeysAreOwned
  /\ RunningIsOwned
  /\ RowsAreAnnounced

-----------------------------------------------------------------------------
(* The signature of a list of at most MaxTargets targets is a bag with at  *)
(* most that many copies of a network.                                     *)
LEMMA SignatureType ==
  ASSUME NEW targets,
         IsFiniteSet(DOMAIN targets),
         Cardinality(DOMAIN targets) <= MaxTargets
  PROVE  Signature(targets) \in [Net -> 0..MaxTargets]
<1>1. ASSUME NEW n \in Net
      PROVE  Cardinality({i \in DOMAIN targets : targets[i] = n}) \in 0..MaxTargets
  <2> DEFINE S == {i \in DOMAIN targets : targets[i] = n}
  <2>1. /\ IsFiniteSet(S)
        /\ Cardinality(S) <= Cardinality(DOMAIN targets)
    BY FS_Subset
  <2>2. Cardinality(S) \in Nat /\ Cardinality(DOMAIN targets) \in Nat
    BY <2>1, FS_CardinalityType
  <2>3. QED
    BY <2>1, <2>2, ConstantsAssumption
<1>2. QED
  BY <1>1 DEF Signature

(* What the loop scans is keyed by a signature of its safe subnets.        *)
LEMMA LoopKeyType ==
  ASSUME TypeOK, NEW mode \in Mode
  PROVE  LoopKey(mode) \in Key
<1>1. DOMAIN LoopTargets = Safe /\ Safe \subseteq Cidr
  BY DEF LoopTargets, Safe, Parseable, TypeOK
<1>2. IsFiniteSet(Safe) /\ Cardinality(Safe) <= Cardinality(Cidr)
  BY <1>1, FS_Subset, ConstantsAssumption
<1>3. Cardinality(Safe) \in Nat /\ Cardinality(Cidr) \in Nat
  BY <1>2, FS_CardinalityType, ConstantsAssumption
<1>4. Cardinality(Safe) <= MaxTargets
  BY <1>2, <1>3, ConstantsAssumption
<1>5. Signature(LoopTargets) \in [Net -> 0..MaxTargets]
  BY <1>1, <1>2, <1>4, SignatureType
<1>6. QED
  BY <1>5 DEF LoopKey, Key

(* So is what a client asks for, named in the body or not.                 *)
LEMMA PostKeyType ==
  ASSUME TypeOK, NEW mode \in PostModes, NEW req \in Request
  PROVE  PostKey(mode, req) \in Key
<1>1. PICK n \in 0..MaxRequest : req \in [1..n -> Cidr]
  BY DEF Request
<1>2. DOMAIN Nets(req) = DOMAIN Cidrs(req)
  BY DEF Nets
<1>3. IsFiniteSet(DOMAIN Cidrs(req)) /\ Cardinality(DOMAIN Cidrs(req)) <= MaxTargets
  <2>1. CASE req = <<>>
    <3>1. DOMAIN Cidrs(req) = enabled /\ enabled \subseteq Cidr
      BY <2>1 DEF Cidrs, TypeOK
    <3>2. IsFiniteSet(enabled) /\ Cardinality(enabled) <= Cardinality(Cidr)
      BY <3>1, FS_Subset, ConstantsAssumption
    <3>3. Cardinality(enabled) \in Nat /\ Cardinality(Cidr) \in Nat
      BY <3>2, FS_CardinalityType, ConstantsAssumption
    <3>4. QED
      BY <3>1, <3>2, <3>3, ConstantsAssumption
  <2>2. CASE req # <<>>
    <3>1. DOMAIN Cidrs(req) = 1..n
      BY <1>1, <2>2 DEF Cidrs
    <3>2. n \in Nat /\ n <= MaxTargets
      BY ConstantsAssumption
    <3>3. IsFiniteSet(1..n) /\ Cardinality(1..n) = n
      BY <3>2, FS_Interval
    <3>4. QED
      BY <3>1, <3>2, <3>3
  <2>3. QED
    BY <2>1, <2>2
<1>4. Signature(Nets(req)) \in [Net -> 0..MaxTargets]
  BY <1>2, <1>3, SignatureType
<1>5. mode \in Mode
  BY ConstantsAssumption DEF Mode
<1>6. QED
  BY <1>4, <1>5 DEF PostKey, Key

-----------------------------------------------------------------------------
(* Appending to a sequence of one element.                                 *)
LEMMA AppendToOne ==
  ASSUME NEW a, NEW b
  PROVE  Append(<<a>>, b) = <<a, b>>
<1> DEFINE S == {a, b}
<1>1. <<a>> \in Seq(S) /\ <<a, b>> \in Seq(S) /\ a \in S /\ b \in S
  OBVIOUS
<1>2. Len(<<a>>) = 1 /\ <<a>>[1] = a
  OBVIOUS
<1>3. /\ Append(<<a>>, b) \in Seq(S)
      /\ Len(Append(<<a>>, b)) = 2
      /\ Append(<<a>>, b)[1] = a
      /\ Append(<<a>>, b)[2] = b
  BY <1>1, <1>2, AppendProperties
<1>4. Len(<<a, b>>) = 2 /\ <<a, b>>[1] = a /\ <<a, b>>[2] = b
  OBVIOUS
<1>5. \A i \in 1..Len(Append(<<a>>, b)) : Append(<<a>>, b)[i] = <<a, b>>[i]
  BY <1>3, <1>4
<1>6. QED
  BY <1>1, <1>3, <1>4, <1>5, SeqEqual

(* A new row goes to the end of the table; nothing else changes in it.     *)
LEMMA OpenRowAppends ==
  ASSUME TablesOK, NEW key \in Key, NEW source \in Source,
         NEW status \in Status, NEW ended \in BOOLEAN, NEW kinds \in Seq(Kind),
         OpenRow(key, source, status, ended, kinds)
  PROVE  /\ scan' \in Seq(Row) /\ Len(scan') = Len(scan) + 1
         /\ published' \in Seq(Seq(Kind)) /\ Len(published') = Len(scan) + 1
         /\ \A j \in 1..Len(scan) :
              scan'[j] = scan[j] /\ published'[j] = published[j]
         /\ scan'[Len(scan) + 1] = [key |-> key, source |-> source,
                                    status |-> status, ended |-> ended]
         /\ published'[Len(scan) + 1] = kinds
<1>1. [key |-> key, source |-> source, status |-> status, ended |-> ended] \in Row
  BY DEF Row
<1>2. QED
  BY <1>1 DEF TablesOK, OpenRow

(* Closing a row changes that row only, and its key not at all.            *)
LEMMA CloseRowUpdates ==
  ASSUME TablesOK, NEW i \in 1..Len(scan), NEW status \in {"ok", "error"},
         NEW kind \in Kind, CloseRow(i, status, kind)
  PROVE  /\ scan' \in Seq(Row) /\ Len(scan') = Len(scan)
         /\ published' \in Seq(Seq(Kind)) /\ Len(published') = Len(scan)
         /\ \A j \in 1..Len(scan) : scan'[j].key = scan[j].key
         /\ \A j \in 1..Len(scan) \ {i} :
              scan'[j] = scan[j] /\ published'[j] = published[j]
         /\ scan'[i].status = status /\ scan'[i].ended = TRUE
         /\ published'[i] = Append(published[i], kind)
<1>1. scan[i] \in Row /\ published[i] \in Seq(Kind)
  BY DEF TablesOK
<1>2. /\ [scan[i] EXCEPT !.status = status, !.ended = TRUE] \in Row
      /\ Append(published[i], kind) \in Seq(Kind)
  <2>1. [scan[i] EXCEPT !.status = status, !.ended = TRUE] \in Row
    <3>1. status \in Status
      BY DEF Status
    <3>2. QED
      BY <1>1, <3>1 DEF Row
  <2>2. Append(published[i], kind) \in Seq(Kind)
    BY <1>1
  <2>3. QED
    BY <2>1, <2>2
<1>3. /\ scan' = [scan EXCEPT ![i] = [scan[i] EXCEPT !.status = status, !.ended = TRUE]]
      /\ published' = [published EXCEPT ![i] = Append(published[i], kind)]
  BY <1>1 DEF CloseRow, TablesOK, Row
<1>4. QED
  BY <1>1, <1>2, <1>3 DEF TablesOK, Row

(* The three outcomes of maybe_run and the end of a work task keep the     *)
(* registry.                                                               *)
LEMMA SkippedKeeps ==
  ASSUME Registry, NEW key \in Key, NEW source \in Source,
         Skipped(key, source), UNCHANGED <<proc, boot>>
  PROVE  Registry'
<1>1. TablesOK
  BY DEF Registry
<1>2. /\ scan' \in Seq(Row) /\ Len(scan') = Len(scan) + 1
      /\ published' \in Seq(Seq(Kind)) /\ Len(published') = Len(scan) + 1
      /\ \A j \in 1..Len(scan) :
           scan'[j] = scan[j] /\ published'[j] = published[j]
      /\ scan'[Len(scan) + 1] = [key |-> key, source |-> source,
                                 status |-> "skipped", ended |-> TRUE]
      /\ published'[Len(scan) + 1] = <<"scan.skipped">>
  <2>1. <<"scan.skipped">> \in Seq(Kind) /\ "skipped" \in Status /\ TRUE \in BOOLEAN
    BY DEF Kind, Status
  <2>2. OpenRow(key, source, "skipped", TRUE, <<"scan.skipped">>)
    BY DEF Skipped
  <2>3. QED
    BY <1>1, <2>1, <2>2, OpenRowAppends
<1>3. Len(scan) \in Nat
  BY <1>1 DEF TablesOK
<1>4. key \in inFlight /\ UNCHANGED <<inFlight, work, leaked, stuck, faults>>
  BY DEF Skipped, errors, damage
<1>5. TablesOK'
  BY <1>1, <1>2, <1>3, <1>4 DEF TablesOK
<1>6. DownIsClean'
  BY DEF DownIsClean, Registry, Skipped
<1>7. WorkIsRegistered'
  BY <1>1, <1>2, <1>3, <1>4 DEF WorkIsRegistered, Registry, TablesOK
<1>8. OneTaskPerKey'
  BY <1>1, <1>2, <1>3, <1>4 DEF OneTaskPerKey, WorkIsRegistered, Registry, TablesOK
<1>9. KeysAreOwned'
  <2>1. \A i \in work : scan'[i].key = scan[i].key
    BY <1>1, <1>2 DEF TablesOK
  <2>2. QED
    BY <1>4, <2>1 DEF KeysAreOwned, Registry
<1>10. RunningIsOwned'
  <2>1. SUFFICES ASSUME proc' # "down", NEW j \in (boot' + 1)..Len(scan'),
                        scan'[j].status = "running"
                 PROVE  j \in work' <=> j \notin stuck'
    BY DEF RunningIsOwned
  <2>2. /\ proc # "down" /\ boot' = boot /\ boot \in Nat
        /\ j = Len(scan) + 1 \/ j \in (boot + 1)..Len(scan)
        /\ j \in 1..(Len(scan) + 1)
        /\ Len(scan) + 1 \notin stuck /\ Len(scan) + 1 \notin 1..Len(scan)
    BY <1>1, <1>2, <1>3, <1>4, <2>1 DEF TablesOK
  <2>3. CASE j = Len(scan) + 1
    BY <1>2, <1>4, <2>1, <2>2, <2>3
  <2>4. CASE j \in (boot + 1)..Len(scan)
    <3>1. j \in 1..Len(scan)
      BY <1>3, <2>2, <2>4
    <3>2. j \in work <=> j \notin stuck
      BY <1>2, <2>1, <2>2, <2>4, <3>1 DEF RunningIsOwned, Registry
    <3>3. QED
      BY <1>4, <2>2, <3>1, <3>2
  <2>5. QED
    BY <2>2, <2>3, <2>4
<1>11. RowsAreAnnounced'
  <2>1. Announced(scan'[Len(scan) + 1], published'[Len(scan) + 1])
    BY <1>2 DEF Announced
  <2>2. \A j \in 1..Len(scan) : Announced(scan'[j], published'[j])
    BY <1>2 DEF RowsAreAnnounced, Registry
  <2>3. ASSUME NEW j \in 1..Len(scan')
        PROVE  Announced(scan'[j], published'[j])
    <3>1. j \in 1..Len(scan) \/ j = Len(scan) + 1
      BY <1>2, <1>3
    <3>2. QED
      BY <2>1, <2>2, <3>1
  <2>4. QED
    BY <2>3 DEF RowsAreAnnounced
<1>12. QED
  BY <1>5, <1>6, <1>7, <1>8, <1>9, <1>10, <1>11 DEF Registry

LEMMA StartedKeeps ==
  ASSUME Registry, NEW key \in Key, NEW source \in Source, proc # "down",
         Started(key, source), UNCHANGED <<proc, boot>>
  PROVE  Registry'
<1>1. TablesOK
  BY DEF Registry
<1>2. /\ scan' \in Seq(Row) /\ Len(scan') = Len(scan) + 1
      /\ published' \in Seq(Seq(Kind)) /\ Len(published') = Len(scan) + 1
      /\ \A j \in 1..Len(scan) :
           scan'[j] = scan[j] /\ published'[j] = published[j]
      /\ scan'[Len(scan) + 1] = [key |-> key, source |-> source,
                                 status |-> "running", ended |-> FALSE]
      /\ published'[Len(scan) + 1] = <<"scan.started">>
  <2>1. <<"scan.started">> \in Seq(Kind) /\ "running" \in Status /\ FALSE \in BOOLEAN
    BY DEF Kind, Status
  <2>2. OpenRow(key, source, "running", FALSE, <<"scan.started">>)
    BY DEF Started
  <2>3. QED
    BY <1>1, <2>1, <2>2, OpenRowAppends
<1>3. Len(scan) \in Nat
  BY <1>1 DEF TablesOK
<1>4. /\ key \notin inFlight /\ inFlight' = inFlight \cup {key}
      /\ work' = work \cup {Len(scan) + 1} /\ UNCHANGED <<leaked, stuck, faults>>
  BY DEF Started, errors, damage
<1>5. TablesOK'
  <2>1. inFlight' \in SUBSET Key
    BY <1>1, <1>4 DEF TablesOK
  <2>2. work' \in SUBSET (1..Len(scan'))
    <3>1. work \subseteq 1..Len(scan)
      BY <1>1 DEF TablesOK
    <3>2. 1..Len(scan) \subseteq 1..Len(scan') /\ Len(scan) + 1 \in 1..Len(scan')
      BY <1>2, <1>3
    <3>3. QED
      BY <1>4, <3>1, <3>2
  <2>3. boot' \in 0..Len(scan') /\ faults' \in 0..MaxFaults
    BY <1>1, <1>2, <1>3, <1>4 DEF TablesOK
  <2>4. leaked' \in SUBSET Key /\ (faults' = 0 => leaked' = {})
    BY <1>1, <1>4 DEF TablesOK
  <2>5. stuck' \in SUBSET (1..Len(scan'))
    BY <1>1, <1>2, <1>3, <1>4 DEF TablesOK
  <2>6. QED
    BY <1>2, <2>1, <2>2, <2>3, <2>4, <2>5 DEF TablesOK
<1>6. DownIsClean'
  BY DEF DownIsClean, Registry, Started
<1>7. WorkIsRegistered'
  BY <1>1, <1>2, <1>3, <1>4 DEF WorkIsRegistered, Registry, TablesOK
<1>8. OneTaskPerKey'
  <2>1. \A j \in work : scan'[j].key = scan[j].key /\ scan[j].key # key
    BY <1>1, <1>2, <1>4 DEF WorkIsRegistered, Registry, TablesOK
  <2>2. scan'[Len(scan) + 1].key = key
    BY <1>2
  <2>3. QED
    BY <1>4, <2>1, <2>2 DEF OneTaskPerKey, Registry
<1>9. KeysAreOwned'
  <2>1. leaked \subseteq inFlight /\ \A i \in work : scan'[i].key = scan[i].key
    BY <1>1, <1>2 DEF KeysAreOwned, Registry, TablesOK
  <2>2. scan'[Len(scan) + 1].key = key
    BY <1>2
  <2>3. ASSUME NEW k \in inFlight'
        PROVE  k \in leaked' <=> ~\E i \in work' : scan'[i].key = k
    <3>1. CASE k = key
      BY <1>4, <2>1, <2>2, <3>1
    <3>2. CASE k \in inFlight
      <4>1. k # key
        BY <1>4, <3>2
      <4>2. k \in leaked <=> ~\E i \in work : scan[i].key = k
        BY <3>2 DEF KeysAreOwned, Registry
      <4>3. QED
        BY <1>4, <2>1, <2>2, <4>1, <4>2
    <3>3. QED
      BY <1>4, <2>3, <3>1, <3>2
  <2>4. QED
    BY <1>4, <2>1, <2>3 DEF KeysAreOwned
<1>10. RunningIsOwned'
  <2>1. SUFFICES ASSUME proc' # "down", NEW j \in (boot' + 1)..Len(scan'),
                        scan'[j].status = "running"
                 PROVE  j \in work' <=> j \notin stuck'
    BY DEF RunningIsOwned
  <2>2. /\ proc # "down" /\ boot' = boot /\ boot \in Nat
        /\ j = Len(scan) + 1 \/ j \in (boot + 1)..Len(scan)
        /\ j \in 1..(Len(scan) + 1)
        /\ Len(scan) + 1 \notin stuck /\ Len(scan) + 1 \notin 1..Len(scan)
    BY <1>1, <1>2, <1>3, <1>4, <2>1 DEF TablesOK
  <2>3. CASE j = Len(scan) + 1
    BY <1>2, <1>4, <2>1, <2>2, <2>3
  <2>4. CASE j \in (boot + 1)..Len(scan)
    <3>1. j \in 1..Len(scan)
      BY <1>3, <2>2, <2>4
    <3>2. j \in work <=> j \notin stuck
      BY <1>2, <2>1, <2>2, <2>4, <3>1 DEF RunningIsOwned, Registry
    <3>3. QED
      BY <1>4, <2>2, <3>1, <3>2
  <2>5. QED
    BY <2>2, <2>3, <2>4
<1>11. RowsAreAnnounced'
  <2>1. Announced(scan'[Len(scan) + 1], published'[Len(scan) + 1])
    BY <1>2 DEF Announced
  <2>2. \A j \in 1..Len(scan) : Announced(scan'[j], published'[j])
    BY <1>2 DEF RowsAreAnnounced, Registry
  <2>3. ASSUME NEW j \in 1..Len(scan')
        PROVE  Announced(scan'[j], published'[j])
    <3>1. j \in 1..Len(scan) \/ j = Len(scan) + 1
      BY <1>2, <1>3
    <3>2. QED
      BY <2>1, <2>2, <3>1
  <2>4. QED
    BY <2>3 DEF RowsAreAnnounced
<1>12. QED
  BY <1>5, <1>6, <1>7, <1>8, <1>9, <1>10, <1>11 DEF Registry

LEMMA RaisedKeeps ==
  ASSUME Registry, NEW key \in Key, NEW source \in Source, proc # "down",
         Raised(key, source), UNCHANGED <<proc, boot>>
  PROVE  Registry'
<1>1. TablesOK
  BY DEF Registry
<1>2. /\ faults' \in 0..MaxFaults /\ faults' # 0 /\ UNCHANGED <<work, stuck>>
      /\ \/ UNCHANGED <<inFlight, leaked>>
         \/ /\ key \notin inFlight
            /\ inFlight' = inFlight \cup {key} /\ leaked' = leaked \cup {key}
  <2>1. faults' = faults + 1 /\ faults < MaxFaults
    BY DEF Raised, DbRaises
  <2>2. faults' \in 0..MaxFaults /\ faults' # 0
    BY <1>1, <2>1, ConstantsAssumption DEF TablesOK
  <2>3. QED
    BY <2>2 DEF Raised
<1>3. /\ scan' \in Seq(Row) /\ Len(scan') >= Len(scan)
      /\ published' \in Seq(Seq(Kind)) /\ Len(published') = Len(scan')
      /\ \A j \in 1..Len(scan) :
           scan'[j] = scan[j] /\ published'[j] = published[j]
      /\ \A j \in 1..Len(scan') : j \notin 1..Len(scan)
           => scan'[j].status # "running" /\ Announced(scan'[j], published'[j])
  <2>1. CASE UNCHANGED tables
    BY <1>1, <2>1 DEF tables, TablesOK
  <2>2. CASE OpenRow(key, source, "skipped", FALSE, <<>>)
    <3>1. <<>> \in Seq(Kind) /\ "skipped" \in Status /\ FALSE \in BOOLEAN
      BY DEF Status
    <3>2. /\ scan' \in Seq(Row) /\ Len(scan') = Len(scan) + 1
          /\ published' \in Seq(Seq(Kind)) /\ Len(published') = Len(scan) + 1
          /\ \A j \in 1..Len(scan) :
               scan'[j] = scan[j] /\ published'[j] = published[j]
          /\ scan'[Len(scan) + 1] = [key |-> key, source |-> source,
                                     status |-> "skipped", ended |-> FALSE]
          /\ published'[Len(scan) + 1] = <<>>
      BY <1>1, <2>2, <3>1, OpenRowAppends
    <3>3. /\ Announced(scan'[Len(scan) + 1], published'[Len(scan) + 1])
          /\ scan'[Len(scan) + 1].status # "running"
      BY <3>2 DEF Announced
    <3>4. Len(scan) \in Nat
      BY <1>1 DEF TablesOK
    <3>5. QED
      BY <3>2, <3>3, <3>4
  <2>3. QED
    BY <2>1, <2>2 DEF Raised
<1>4. Len(scan) \in Nat /\ Len(scan') \in Nat
  BY <1>1, <1>3 DEF TablesOK
<1>5. TablesOK'
  BY <1>1, <1>2, <1>3, <1>4 DEF TablesOK
<1>6. DownIsClean'
  BY DEF DownIsClean
<1>7. WorkIsRegistered'
  BY <1>1, <1>2, <1>3, <1>4 DEF WorkIsRegistered, Registry, TablesOK
<1>8. OneTaskPerKey'
  BY <1>1, <1>2, <1>3, <1>4 DEF OneTaskPerKey, Registry, TablesOK
<1>9. KeysAreOwned'
  <2>1. \A j \in work : scan'[j].key = scan[j].key /\ scan[j].key \in inFlight
    BY <1>1, <1>3 DEF WorkIsRegistered, Registry, TablesOK
  <2>2. QED
    BY <1>2, <2>1 DEF KeysAreOwned, Registry
<1>10. RunningIsOwned'
  <2>1. SUFFICES ASSUME proc' # "down", NEW j \in (boot' + 1)..Len(scan'),
                        scan'[j].status = "running"
                 PROVE  j \in work' <=> j \notin stuck'
    BY DEF RunningIsOwned
  <2>2. boot' = boot /\ boot \in Nat /\ j \in 1..Len(scan')
    BY <1>1, <1>4, <2>1 DEF TablesOK
  <2>3. j \in 1..Len(scan) /\ scan[j].status = "running"
    BY <1>3, <2>1, <2>2
  <2>4. j \in (boot + 1)..Len(scan)
    BY <1>4, <2>1, <2>2, <2>3
  <2>5. QED
    BY <1>2, <2>3, <2>4 DEF RunningIsOwned, Registry
<1>11. RowsAreAnnounced'
  BY <1>3 DEF RowsAreAnnounced, Registry
<1>12. QED
  BY <1>5, <1>6, <1>7, <1>8, <1>9, <1>10, <1>11 DEF Registry

LEMMA FinishKeeps ==
  ASSUME Registry, NEW i \in work, Finish(i)
  PROVE  Registry'
<1>1. TablesOK
  BY DEF Registry
<1>2. /\ i \in 1..Len(scan) /\ scan[i] \in Row /\ scan[i].status = "running"
      /\ published[i] \in Seq(Kind) /\ published[i] = <<"scan.started">>
  <2>1. i \in 1..Len(scan) /\ scan[i] \in Row /\ published[i] \in Seq(Kind)
    BY <1>1 DEF TablesOK
  <2>2. scan[i].status = "running"
    BY DEF Registry, WorkIsRegistered
  <2>3. QED
    BY <2>1, <2>2 DEF Registry, RowsAreAnnounced, Announced
<1>3. /\ work' = work \ {i} /\ inFlight' = inFlight \ {scan[i].key}
      /\ UNCHANGED <<proc, boot>>
  BY DEF Finish, LeaveFlight, tasks, history
<1>4. /\ scan' \in Seq(Row) /\ Len(scan') = Len(scan)
      /\ published' \in Seq(Seq(Kind)) /\ Len(published') = Len(scan)
      /\ \A j \in 1..Len(scan) : scan'[j].key = scan[j].key
      /\ \A j \in 1..Len(scan) \ {i} :
           scan'[j] = scan[j] /\ published'[j] = published[j]
      /\ Announced(scan'[i], published'[i])
      /\ leaked' = leaked
      /\ \/ UNCHANGED <<stuck, faults>> /\ scan'[i].status # "running"
         \/ faults' \in 0..MaxFaults /\ faults' # 0 /\ stuck' = stuck \cup {i}
  <2>1. CASE FinishOk(i)
    <3>1. /\ CloseRow(i, "ok", "scan.ok") /\ "scan.ok" \in Kind
          /\ UNCHANGED <<leaked, stuck, faults>>
      BY <2>1 DEF FinishOk, Kind, errors, damage
    <3>2. /\ scan' \in Seq(Row) /\ Len(scan') = Len(scan)
          /\ published' \in Seq(Seq(Kind)) /\ Len(published') = Len(scan)
          /\ \A j \in 1..Len(scan) : scan'[j].key = scan[j].key
          /\ \A j \in 1..Len(scan) \ {i} :
               scan'[j] = scan[j] /\ published'[j] = published[j]
          /\ scan'[i].status = "ok" /\ scan'[i].ended = TRUE
          /\ published'[i] = Append(published[i], "scan.ok")
      BY <1>1, <1>2, <3>1, CloseRowUpdates
    <3>3. published'[i] = <<"scan.started", "scan.ok">>
      BY <1>2, <3>2, AppendToOne
    <3>4. Announced(scan'[i], published'[i])
      BY <3>2, <3>3 DEF Announced
    <3>5. QED
      BY <3>1, <3>2, <3>4
  <2>2. CASE FinishError(i)
    <3>1. /\ CloseRow(i, "error", "scan.error") /\ "scan.error" \in Kind
          /\ UNCHANGED <<leaked, stuck, faults>>
      BY <2>2 DEF FinishError, Kind, errors, damage
    <3>2. /\ scan' \in Seq(Row) /\ Len(scan') = Len(scan)
          /\ published' \in Seq(Seq(Kind)) /\ Len(published') = Len(scan)
          /\ \A j \in 1..Len(scan) : scan'[j].key = scan[j].key
          /\ \A j \in 1..Len(scan) \ {i} :
               scan'[j] = scan[j] /\ published'[j] = published[j]
          /\ scan'[i].status = "error" /\ scan'[i].ended = TRUE
          /\ published'[i] = Append(published[i], "scan.error")
      BY <1>1, <1>2, <3>1, CloseRowUpdates
    <3>3. published'[i] = <<"scan.started", "scan.error">>
      BY <1>2, <3>2, AppendToOne
    <3>4. Announced(scan'[i], published'[i])
      BY <3>2, <3>3 DEF Announced
    <3>5. QED
      BY <3>1, <3>2, <3>4
  <2>3. CASE FinishStuck(i)
    <3>1. /\ UNCHANGED <<tables, leaked>> /\ stuck' = stuck \cup {i}
          /\ faults' \in 0..MaxFaults /\ faults' # 0
      BY <1>1, <2>3, ConstantsAssumption DEF FinishStuck, DbRaises, TablesOK
    <3>2. QED
      BY <1>1, <1>2, <3>1 DEF Announced, tables, TablesOK
  <2>4. QED
    BY <2>1, <2>2, <2>3 DEF Finish
<1>5. TablesOK'
  BY <1>1, <1>3, <1>4 DEF TablesOK
<1>6. DownIsClean'
  BY <1>3 DEF DownIsClean, Registry
<1>7. WorkIsRegistered'
  BY <1>1, <1>2, <1>3, <1>4 DEF WorkIsRegistered, OneTaskPerKey, Registry, TablesOK
<1>8. OneTaskPerKey'
  BY <1>1, <1>3, <1>4 DEF OneTaskPerKey, Registry, TablesOK
<1>9. KeysAreOwned'
  <2>1. /\ leaked \subseteq inFlight /\ scan[i].key \notin leaked
        /\ \A j \in work : scan'[j].key = scan[j].key
    BY <1>1, <1>4 DEF KeysAreOwned, WorkIsRegistered, Registry, TablesOK
  <2>2. ASSUME NEW k \in inFlight'
        PROVE  k \in leaked' <=> ~\E j \in work' : scan'[j].key = k
    <3>1. k \in inFlight /\ k # scan[i].key
      BY <1>3
    <3>2. k \in leaked <=> ~\E j \in work : scan[j].key = k
      BY <3>1 DEF KeysAreOwned, Registry
    <3>3. QED
      BY <1>3, <1>4, <2>1, <3>1, <3>2
  <2>3. QED
    BY <1>3, <1>4, <2>1, <2>2 DEF KeysAreOwned
<1>10. RunningIsOwned'
  <2>1. SUFFICES ASSUME proc' # "down", NEW j \in (boot' + 1)..Len(scan'),
                        scan'[j].status = "running"
                 PROVE  j \in work' <=> j \notin stuck'
    BY DEF RunningIsOwned
  <2>2. proc # "down" /\ j \in (boot + 1)..Len(scan) /\ j \in 1..Len(scan)
    BY <1>1, <1>3, <1>4, <2>1 DEF TablesOK
  <2>3. CASE j = i
    BY <1>3, <1>4, <2>1, <2>3
  <2>4. CASE j # i
    <3>1. j \in work <=> j \notin stuck
      BY <1>4, <2>1, <2>2, <2>4 DEF RunningIsOwned, Registry
    <3>2. QED
      BY <1>3, <1>4, <2>4, <3>1
  <2>5. QED
    BY <2>3, <2>4
<1>11. RowsAreAnnounced'
  BY <1>1, <1>3, <1>4 DEF RowsAreAnnounced, Registry
<1>12. QED
  BY <1>5, <1>6, <1>7, <1>8, <1>9, <1>10, <1>11 DEF Registry
-----------------------------------------------------------------------------
(* A step that touches neither the tables nor the registry keeps it; so    *)
(* does the loss of the process, and a start.                              *)
LEMMA StutterKeeps ==
  ASSUME Registry, UNCHANGED <<proc, boot, inFlight, work, tables, errors>>
  PROVE  Registry'
BY DEF Registry, TablesOK, DownIsClean, WorkIsRegistered, OneTaskPerKey,
       KeysAreOwned, RunningIsOwned, RowsAreAnnounced, tables, errors, damage

LEMMA FaultKeeps ==
  ASSUME Registry, UNCHANGED <<proc, boot, inFlight, work, tables, damage>>,
         faults' \in 0..MaxFaults, faults' # 0
  PROVE  Registry'
BY DEF Registry, TablesOK, DownIsClean, WorkIsRegistered, OneTaskPerKey,
       KeysAreOwned, RunningIsOwned, RowsAreAnnounced, tables, damage

LEMMA GoneKeeps ==
  ASSUME Registry, Gone
  PROVE  Registry'
BY DEF Gone, Registry, TablesOK, DownIsClean, WorkIsRegistered, OneTaskPerKey,
       KeysAreOwned, RunningIsOwned, RowsAreAnnounced, tables, history

LEMMA ShutdownKeeps ==
  ASSUME Registry, Shutdown
  PROVE  Registry'
BY DEF Shutdown, Registry, TablesOK, DownIsClean, WorkIsRegistered,
       OneTaskPerKey, KeysAreOwned, RunningIsOwned, RowsAreAnnounced, tables,
       history, errors, damage

LEMMA StartKeeps ==
  ASSUME Registry, Start
  PROVE  Registry'
<1>1. /\ proc = "down" /\ proc' = "up" /\ boot' = Len(scan)
      /\ UNCHANGED <<inFlight, work, tables, leaked, stuck, faults>>
  BY DEF Start, errors, damage
<1>2. work = {} /\ inFlight = {} /\ leaked = {}
  BY <1>1 DEF Registry, DownIsClean, KeysAreOwned
<1>3. TablesOK'
  BY <1>1 DEF Registry, TablesOK, tables
<1>4. DownIsClean' /\ WorkIsRegistered' /\ OneTaskPerKey' /\ KeysAreOwned'
  BY <1>1, <1>2 DEF DownIsClean, WorkIsRegistered, OneTaskPerKey, KeysAreOwned
<1>5. RunningIsOwned'
  <2>1. Len(scan) \in Nat /\ scan' = scan
    BY <1>1 DEF Registry, TablesOK, tables
  <2>2. (boot' + 1)..Len(scan') = {}
    BY <1>1, <2>1
  <2>3. QED
    BY <2>2 DEF RunningIsOwned
<1>6. RowsAreAnnounced'
  BY <1>1 DEF Registry, RowsAreAnnounced, tables
<1>7. QED
  BY <1>3, <1>4, <1>5, <1>6 DEF Registry

(* Every step keeps the registry.                                          *)
LEMMA NextKeepsRegistry ==
  ASSUME TypeOK, Registry, [Next]_vars
  PROVE  Registry'
<1>1. /\ LoopKey("discover") \in Key
      /\ LoopKey("default") \in Key
      /\ Source = {"loop.discover", "loop.default", "api.post_scan"}
  BY LoopKeyType DEF Mode, Source
<1>2. CASE TickIdle
  BY <1>2, StutterKeeps DEF TickIdle, history
<1>3. CASE TickScan
  BY <1>1, <1>3, SkippedKeeps, StartedKeeps DEF TickScan, Awake, history
<1>4. CASE TickCrash
  <2>1. UNCHANGED <<proc, boot>> /\ proc # "down"
    BY <1>4 DEF TickCrash, Awake, history
  <2>2. CASE DbRaises /\ UNCHANGED <<inFlight, work, tables, refused, damage>>
    <3>1. faults' \in 0..MaxFaults /\ faults' # 0
      BY <2>2, ConstantsAssumption DEF DbRaises, Registry, TablesOK
    <3>2. QED
      BY <2>1, <2>2, <3>1, FaultKeeps
  <2>3. CASE Raised(LoopKey("discover"), "loop.discover")
    BY <1>1, <2>1, <2>3, RaisedKeeps
  <2>4. QED
    BY <1>4, <2>2, <2>3 DEF TickCrash
<1>5. CASE RunDefault
  BY <1>1, <1>5, SkippedKeeps, StartedKeeps, RaisedKeeps DEF RunDefault, history
<1>6. CASE Post
  <2>1. PICK req \in Request, confirm \in BOOLEAN :
          \/ PostRejected(req, confirm)
          \/ \E mode \in PostModes : \/ PostConflict(mode, req, confirm)
                                    \/ PostScan(mode, req, confirm)
    BY <1>6 DEF Post
  <2>2. CASE PostRejected(req, confirm)
    BY <2>2, StutterKeeps DEF PostRejected, Answer, tasks, history
  <2>3. ASSUME NEW mode \in PostModes, PostConflict(mode, req, confirm)
        PROVE  Registry'
    BY <2>3, StutterKeeps DEF PostConflict, Answer, tasks, history
  <2>4. ASSUME NEW mode \in PostModes, PostScan(mode, req, confirm)
        PROVE  Registry'
    <3>1. PostKey(mode, req) \in Key
      BY PostKeyType
    <3>2. proc # "down" /\ UNCHANGED <<proc, boot>>
      BY <2>4 DEF PostScan, Answer, tasks, history
    <3>3. \/ Started(PostKey(mode, req), "api.post_scan")
          \/ Raised(PostKey(mode, req), "api.post_scan")
      BY <2>4 DEF PostScan
    <3>4. QED
      BY <1>1, <3>1, <3>2, <3>3, StartedKeeps, RaisedKeeps
  <2>5. QED
    BY <2>1, <2>2, <2>3, <2>4
<1>7. CASE \E i \in work : Finish(i)
  BY <1>7, FinishKeeps
<1>8. CASE Start
  BY <1>8, StartKeeps
<1>9. CASE Shutdown
  BY <1>9, ShutdownKeeps
<1>10. CASE LoopExit
  BY <1>10, StutterKeeps DEF LoopExit, history
<1>11. CASE ProcessExit \/ Crash
  BY <1>11, GoneKeeps DEF ProcessExit, Crash
<1>12. CASE UNCHANGED vars
  BY <1>12, StutterKeeps DEF vars, tasks, history
<1>13. QED
  BY <1>2, <1>3, <1>4, <1>5, <1>6, <1>7, <1>8, <1>9, <1>10, <1>11, <1>12 DEF Next

(* Every step keeps the type invariant.                                    *)
LEMMA NextKeepsType ==
  ASSUME TypeOK, Registry, Registry', [Next]_vars
  PROVE  TypeOK'
<1>1. TablesOK'
  BY DEF Registry
<1> USE DEF TickIdle, TickScan, TickCrash, RunDefault, Post, PostRejected,
            PostConflict, PostScan, Answer, Finish, Start, Shutdown, LoopExit,
            ProcessExit, Crash, Gone, tasks, history
<1>2. /\ proc' \in {"down", "up", "stopping"}
      /\ loop' \in {"off", "live", "ended", "crashed"}
      /\ pending' \in BOOLEAN
      /\ boots' \in Nat
      /\ enabled' \in SUBSET Cidr
  <2>1. proc' \in {"down", "up", "stopping"}
    BY DEF TypeOK, Next, vars
  <2>2. loop' \in {"off", "live", "ended", "crashed"}
    BY DEF TypeOK, Next, vars, Awake
  <2>3. pending' \in BOOLEAN
    BY DEF TypeOK, Next, vars, DefaultDue
  <2>4. boots' \in Nat
    BY DEF TypeOK, Next, vars
  <2>5. enabled' \in SUBSET Cidr
    BY DEF TypeOK, Next, vars
  <2>6. QED
    BY <2>1, <2>2, <2>3, <2>4, <2>5
<1>3. age' \in 0..DefaultEvery
  BY ConstantsAssumption DEF TypeOK, Next, vars, Older
<1>4. refused' \in SUBSET Net
  <2>1. RejectedNow \subseteq Net
    BY ConstantsAssumption DEF RejectedNow, Safe, Parseable, TypeOK
  <2>2. QED
    BY <2>1 DEF TypeOK, Next, vars
<1>5. reply' \in Reply
  <2>1. CASE Post
    <3>1. PICK req \in Request, confirm \in BOOLEAN :
            \/ PostRejected(req, confirm)
            \/ \E mode \in PostModes : \/ PostConflict(mode, req, confirm)
                                      \/ PostScan(mode, req, confirm)
      BY <2>1 DEF Post
    <3>2. CASE PostRejected(req, confirm)
      BY <3>2 DEF PostRejected, Answer, Reply
    <3>3. ASSUME NEW mode \in PostModes,
                 PostConflict(mode, req, confirm) \/ PostScan(mode, req, confirm)
          PROVE  reply' \in Reply
      <4>1. PostKey(mode, req) \in Key
        BY PostKeyType
      <4>2. Len(scan) + 1 \in Nat
        BY DEF Registry, TablesOK
      <4>3. \/ reply' = [status |-> "conflict", key |-> PostKey(mode, req)]
            \/ reply' = [status |-> "accepted", key |-> PostKey(mode, req),
                         scan |-> Len(scan) + 1]
            \/ reply' = [status |-> "failed"]
        BY <3>3 DEF PostConflict, PostScan, Answer
      <4>4. QED
        BY <4>1, <4>2, <4>3 DEF Reply
    <3>4. QED
      BY <3>1, <3>2, <3>3
  <2>2. CASE ~Post
    <3>1. reply' = NoReply \/ reply' = reply
      BY <2>2 DEF Next, vars
    <3>2. QED
      BY <3>1 DEF TypeOK, Reply
  <2>3. QED
    BY <2>1, <2>2
<1>6. QED
  BY <1>1, <1>2, <1>3, <1>4, <1>5, ConstantsAssumption DEF TypeOK, TablesOK
-----------------------------------------------------------------------------
LEMMA InitKeeps == Init => TypeOK /\ Registry
<1> SUFFICES ASSUME Init PROVE TypeOK /\ Registry
  OBVIOUS
<1>1. Len(scan) = 0 /\ scan \in Seq(Row) /\ published \in Seq(Seq(Kind))
  BY DEF Init
<1>2. TypeOK
  <2>1. /\ proc \in {"down", "up", "stopping"}
        /\ loop \in {"off", "live", "ended", "crashed"}
        /\ pending \in BOOLEAN
    BY DEF Init
  <2>2. /\ enabled \in SUBSET Cidr
        /\ inFlight \in SUBSET Key
        /\ work \in SUBSET (1..Len(scan))
        /\ refused \in SUBSET Net
        /\ leaked \in SUBSET Key
        /\ stuck \in SUBSET (1..Len(scan))
    BY DEF Init
  <2>3. reply \in Reply
    BY DEF Init, Reply
  <2>4. Len(published) = Len(scan) /\ boot \in 0..Len(scan)
    BY <1>1 DEF Init
  <2>5. boots \in Nat /\ faults \in Nat /\ age \in 0..DefaultEvery
    BY ConstantsAssumption DEF Init
  <2>6. QED
    BY <1>1, <2>1, <2>2, <2>3, <2>4, <2>5 DEF TypeOK
<1>3. TablesOK
  BY <1>1, ConstantsAssumption DEF Init, TablesOK
<1>4. DownIsClean /\ WorkIsRegistered /\ OneTaskPerKey /\ KeysAreOwned
  BY DEF Init, DownIsClean, WorkIsRegistered, OneTaskPerKey, KeysAreOwned
<1>5. RunningIsOwned /\ RowsAreAnnounced
  BY <1>1 DEF Init, RunningIsOwned, RowsAreAnnounced
<1>6. QED
  BY <1>2, <1>3, <1>4, <1>5 DEF Registry

(* Type correctness, together with the registry it needs for the new rows. *)
THEOREM TypesAndRegistry == Spec => [](TypeOK /\ Registry)
<1>1. Init => TypeOK /\ Registry
  BY InitKeeps
<1>2. TypeOK /\ Registry /\ [Next]_vars => TypeOK' /\ Registry'
  BY NextKeepsRegistry, NextKeepsType
<1>3. QED
  BY <1>1, <1>2, PTL DEF Spec

(* Every variable of the dispatcher keeps to its type.                     *)
THEOREM TypeCorrect == Spec => []TypeOK
BY TypesAndRegistry, PTL

(* Two live work tasks never scan the same targets in the same mode.       *)
THEOREM OneTaskPerKeyHolds == Spec => []OneTaskPerKey
<1>1. TypeOK /\ Registry => OneTaskPerKey
  BY DEF Registry
<1>2. QED
  BY <1>1, TypesAndRegistry, PTL

(* Nobody closes the row of a live task or gives its key away.             *)
THEOREM WorkIsRegisteredHolds == Spec => []WorkIsRegistered
<1>1. TypeOK /\ Registry => WorkIsRegistered
  BY DEF Registry
<1>2. QED
  BY <1>1, TypesAndRegistry, PTL

(* No key in flight is without a task that will give it back, unless the   *)
(* INSERT of its row raised; such a key never gets a task.                 *)
THEOREM KeysAreOwnedHolds == Spec => []KeysAreOwned
<1>1. TypeOK /\ Registry => KeysAreOwned
  BY DEF Registry
<1>2. QED
  BY <1>1, TypesAndRegistry, PTL

(* No running row of the present process is without a task to close it,    *)
(* unless the task was there and could not record the outcome.             *)
THEOREM RunningIsOwnedHolds == Spec => []RunningIsOwned
<1>1. TypeOK /\ Registry => RunningIsOwned
  BY DEF Registry
<1>2. QED
  BY <1>1, TypesAndRegistry, PTL

(* The events published of a scan agree with its row.                      *)
THEOREM RowsAreAnnouncedHolds == Spec => []RowsAreAnnounced
<1>1. TypeOK /\ Registry => RowsAreAnnounced
  BY DEF Registry
<1>2. QED
  BY <1>1, TypesAndRegistry, PTL

-----------------------------------------------------------------------------
(* What a step can do to the tables: nothing, open a row or close the row  *)
(* of a live task.                                                         *)
TableStep ==
  \/ UNCHANGED tables
  \/ \E key \in Key, source \in Source, status \in Status, ended \in BOOLEAN,
        kinds \in Seq(Kind) : OpenRow(key, source, status, ended, kinds)
  \/ \E i \in work : \/ CloseRow(i, "ok", "scan.ok")
                     \/ CloseRow(i, "error", "scan.error")

LEMMA MaybeRunIsTableStep ==
  ASSUME NEW key \in Key, NEW source \in Source,
         Skipped(key, source) \/ Started(key, source) \/ Raised(key, source)
  PROVE  TableStep
<1>1. /\ "skipped" \in Status /\ "running" \in Status
      /\ <<>> \in Seq(Kind) /\ <<"scan.started">> \in Seq(Kind)
      /\ <<"scan.skipped">> \in Seq(Kind)
  BY DEF Status, Kind
<1>2. QED
  BY <1>1 DEF TableStep, Skipped, Started, Raised

LEMMA NextIsTableStep ==
  ASSUME TypeOK, [Next]_vars
  PROVE  TableStep
<1>1. /\ LoopKey("discover") \in Key
      /\ LoopKey("default") \in Key
      /\ Source = {"loop.discover", "loop.default", "api.post_scan"}
  BY LoopKeyType DEF Mode, Source
<1>2. CASE TickScan \/ TickCrash \/ RunDefault
  BY <1>1, <1>2, MaybeRunIsTableStep
     DEF TickScan, TickCrash, RunDefault, TableStep
<1>3. CASE Post
  <2>1. PICK req \in Request, confirm \in BOOLEAN :
          \/ PostRejected(req, confirm)
          \/ \E mode \in PostModes : \/ PostConflict(mode, req, confirm)
                                    \/ PostScan(mode, req, confirm)
    BY <1>3 DEF Post
  <2>2. ASSUME NEW mode \in PostModes, PostScan(mode, req, confirm)
        PROVE  TableStep
    BY <1>1, <2>2, PostKeyType, MaybeRunIsTableStep DEF PostScan
  <2>3. QED
    BY <2>1, <2>2 DEF PostRejected, PostConflict, TableStep
<1>4. CASE \E i \in work : Finish(i)
  BY <1>4 DEF Finish, FinishOk, FinishError, FinishStuck, TableStep
<1>5. CASE TickIdle \/ Start \/ Shutdown \/ LoopExit \/ ProcessExit \/ Crash
  BY <1>5 DEF TickIdle, Start, Shutdown, LoopExit, ProcessExit, Crash, Gone,
              TableStep
<1>6. CASE UNCHANGED vars
  BY <1>6 DEF vars, TableStep
<1>7. QED
  BY <1>2, <1>3, <1>4, <1>5, <1>6 DEF Next

(* A row whose scan is over never changes again, and no row changes its    *)
(* key or disappears, whatever calls finish_scan and whenever.             *)
THEOREM RowsFreeze == Spec => TerminalRowsFrozen
<1> DEFINE Frozen ==
      /\ Len(scan) <= Len(scan')
      /\ \A i \in 1..Len(scan) :
           /\ scan'[i].key = scan[i].key
           /\ scan[i].status # "running" => scan'[i] = scan[i]
<1>1. ASSUME TypeOK, Registry, [Next]_vars
      PROVE  Frozen
  <2>1. TablesOK /\ Len(scan) \in Nat
    BY <1>1 DEF Registry, TablesOK
  <2>2. CASE UNCHANGED tables
    BY <2>1, <2>2 DEF tables
  <2>3. ASSUME NEW key \in Key, NEW source \in Source, NEW status \in Status,
               NEW ended \in BOOLEAN, NEW kinds \in Seq(Kind),
               OpenRow(key, source, status, ended, kinds)
        PROVE  Frozen
    <3>1. /\ Len(scan') = Len(scan) + 1
          /\ \A j \in 1..Len(scan) : scan'[j] = scan[j]
      BY <2>1, <2>3, OpenRowAppends
    <3>2. QED
      BY <2>1, <3>1
  <2>4. ASSUME NEW i \in work, NEW status \in {"ok", "error"},
               NEW kind \in Kind, CloseRow(i, status, kind)
        PROVE  Frozen
    <3>1. i \in 1..Len(scan) /\ scan[i].status = "running"
      BY <1>1, <2>1 DEF Registry, TablesOK, WorkIsRegistered
    <3>2. /\ Len(scan') = Len(scan)
          /\ \A j \in 1..Len(scan) : scan'[j].key = scan[j].key
          /\ \A j \in 1..Len(scan) \ {i} : scan'[j] = scan[j]
      BY <2>1, <2>4, <3>1, CloseRowUpdates
    <3>3. QED
      BY <2>1, <3>1, <3>2
  <2>5. TableStep
    BY <1>1, NextIsTableStep
  <2>6. QED
    BY <2>2, <2>3, <2>4, <2>5 DEF TableStep, Kind
<1>2. TypeOK /\ Registry /\ [Next]_vars => [Frozen]_vars
  BY <1>1
<1>3. QED
  BY <1>2, TypesAndRegistry, PTL DEF Spec, TerminalRowsFrozen
(* While the process is not up, the default-scan task is alone in opening  *)
(* rows: the loop has seen stop and nobody is answered.                    *)
LEMMA OnlyDefaultsOpen ==
  ASSUME TypeOK, Registry, Next, proc # "up"
  PROVE  \A i \in (Len(scan) + 1)..Len(scan') : scan'[i].source = "loop.default"
<1> DEFINE Quiet == \A i \in (Len(scan) + 1)..Len(scan') :
                      scan'[i].source = "loop.default"
<1>1. TablesOK /\ Len(scan) \in Nat
  BY DEF Registry, TablesOK
<1>2. CASE RunDefault
  <2>1. CASE UNCHANGED tables
    BY <1>1, <2>1 DEF tables
  <2>2. ASSUME NEW status \in Status, NEW ended \in BOOLEAN, NEW kinds \in Seq(Kind),
               OpenRow(LoopKey("default"), "loop.default", status, ended, kinds)
        PROVE  Quiet
    <3>1. LoopKey("default") \in Key /\ "loop.default" \in Source
      BY LoopKeyType DEF Mode, Source
    <3>2. /\ Len(scan') = Len(scan) + 1
          /\ scan'[Len(scan) + 1] = [key |-> LoopKey("default"),
               source |-> "loop.default", status |-> status, ended |-> ended]
      BY <1>1, <2>2, <3>1, OpenRowAppends
    <3>3. scan'[Len(scan) + 1].source = "loop.default"
      BY <3>2
    <3>4. QED
      BY <1>1, <3>2, <3>3
  <2>3. /\ "skipped" \in Status /\ "running" \in Status
        /\ <<>> \in Seq(Kind) /\ <<"scan.started">> \in Seq(Kind)
        /\ <<"scan.skipped">> \in Seq(Kind)
    BY DEF Status, Kind
  <2>4. QED
    BY <1>2, <2>1, <2>2, <2>3 DEF RunDefault, Skipped, Started, Raised
<1>3. ASSUME NEW i \in work, Finish(i)
      PROVE  Quiet
  <2>1. i \in 1..Len(scan)
    BY <1>1 DEF TablesOK
  <2>2. CASE UNCHANGED tables
    BY <1>1, <2>2 DEF tables
  <2>3. ASSUME NEW status \in {"ok", "error"}, NEW kind \in Kind,
               CloseRow(i, status, kind)
        PROVE  Quiet
    <3>1. Len(scan') = Len(scan)
      BY <1>1, <2>1, <2>3, CloseRowUpdates
    <3>2. QED
      BY <1>1, <3>1
  <2>4. QED
    BY <1>3, <2>2, <2>3 DEF Finish, FinishOk, FinishError, FinishStuck, Kind
<1>4. CASE TickIdle \/ TickScan \/ TickCrash
  BY <1>4 DEF TickIdle, TickScan, TickCrash, Awake
<1>5. CASE Post
  BY <1>5 DEF Post, PostRejected, PostConflict, PostScan, Answer
<1>6. CASE Start \/ Shutdown \/ LoopExit \/ ProcessExit \/ Crash
  BY <1>1, <1>6 DEF Start, Shutdown, LoopExit, ProcessExit, Crash, Gone, tables
<1>7. QED
  BY <1>2, <1>3, <1>4, <1>5, <1>6 DEF Next

(* LoopQuietAfterStop: a loop that has been told to stop opens no scan,    *)
(* but for the default-scan task that it had created before.               *)
THEOREM LoopIsQuiet == Spec => LoopQuietAfterStop
<1> DEFINE Quiet == proc # "up" => \A i \in (Len(scan) + 1)..Len(scan') :
                                    scan'[i].source = "loop.default"
<1>1. TypeOK /\ Registry /\ [Next]_vars => [Quiet]_vars
  BY OnlyDefaultsOpen
<1>2. QED
  BY <1>1, TypesAndRegistry, PTL DEF Spec, LoopQuietAfterStop

-----------------------------------------------------------------------------
(* What POST /scans answers is true when it answers.                       *)
LEMMA RepliesAreTrue == Spec => [](ConflictIsTruthful /\ AcceptedIsLive)
<1> DEFINE Inv == ConflictIsTruthful /\ AcceptedIsLive
<1>1. Init => Inv
  BY DEF Init, NoReply, ConflictIsTruthful, AcceptedIsLive
<1>2. ASSUME TypeOK, Registry, Inv, [Next]_vars
      PROVE  Inv'
  <2>1. CASE reply' = NoReply
    BY <2>1 DEF NoReply, ConflictIsTruthful, AcceptedIsLive
  <2>2. CASE UNCHANGED vars
    BY <1>2, <2>2 DEF vars, tables, errors, damage, ConflictIsTruthful, AcceptedIsLive
  <2>3. ASSUME NEW req \in Request, NEW confirm \in BOOLEAN,
               PostRejected(req, confirm)
        PROVE  Inv'
    BY <2>3 DEF PostRejected, Answer, ConflictIsTruthful, AcceptedIsLive
  <2>4. ASSUME NEW req \in Request, NEW confirm \in BOOLEAN,
               NEW mode \in PostModes, PostConflict(mode, req, confirm)
        PROVE  Inv'
    <3>1. /\ PostKey(mode, req) \in inFlight
          /\ reply' = [status |-> "conflict", key |-> PostKey(mode, req)]
          /\ UNCHANGED <<inFlight, work, tables, leaked>>
      BY <2>4 DEF PostConflict, Answer, errors, damage
    <3>2. ConflictIsTruthful'
      BY <1>2, <3>1 DEF ConflictIsTruthful, Registry, KeysAreOwned, tables
    <3>3. AcceptedIsLive'
      BY <3>1 DEF AcceptedIsLive
    <3>4. QED
      BY <3>2, <3>3
  <2>5. ASSUME NEW req \in Request, NEW confirm \in BOOLEAN,
               NEW mode \in PostModes, PostScan(mode, req, confirm)
        PROVE  Inv'
    <3>1. CASE reply' = [status |-> "failed"]
      BY <3>1 DEF ConflictIsTruthful, AcceptedIsLive
    <3>2. CASE /\ Started(PostKey(mode, req), "api.post_scan")
               /\ reply' = [status |-> "accepted", key |-> PostKey(mode, req),
                            scan |-> Len(scan) + 1]
      <4>1. TablesOK /\ PostKey(mode, req) \in Key /\ "api.post_scan" \in Source
        BY <1>2, PostKeyType DEF Registry, Source
      <4>2. "running" \in Status /\ <<"scan.started">> \in Seq(Kind)
        BY DEF Status, Kind
      <4>3. /\ OpenRow(PostKey(mode, req), "api.post_scan", "running", FALSE,
                       <<"scan.started">>)
            /\ work' = work \cup {Len(scan) + 1}
        BY <3>2 DEF Started
      <4>4. scan'[Len(scan) + 1].key = PostKey(mode, req)
        <5>1. scan'[Len(scan) + 1]
                = [key |-> PostKey(mode, req), source |-> "api.post_scan",
                   status |-> "running", ended |-> FALSE]
          BY <4>1, <4>2, <4>3, OpenRowAppends
        <5>2. QED
          BY <5>1
      <4>5. QED
        BY <3>2, <4>3, <4>4 DEF ConflictIsTruthful, AcceptedIsLive
    <3>3. QED
      BY <2>5, <3>1, <3>2 DEF PostScan, Answer
  <2>6. CASE Post
    BY <2>3, <2>4, <2>5, <2>6 DEF Post
  <2>7. CASE Next /\ ~Post
    <3>1. reply' = NoReply
      BY <2>7 DEF Next, TickIdle, TickScan, TickCrash, RunDefault, Finish,
                  Start, Shutdown, LoopExit, ProcessExit, Crash, Gone
    <3>2. QED
      BY <2>1, <3>1
  <2>8. QED
    BY <1>2, <2>2, <2>6, <2>7
<1>3. QED
  BY <1>1, <1>2, TypesAndRegistry, PTL DEF Spec

(* A client that is told of a conflict finds the live task that causes it. *)
THEOREM ConflictIsTruthfulHolds == Spec => []ConflictIsTruthful
  BY RepliesAreTrue, PTL

(* The id that an accepted client polls is that of a live task of its own. *)
THEOREM AcceptedIsLiveHolds == Spec => []AcceptedIsLive
  BY RepliesAreTrue, PTL

-----------------------------------------------------------------------------
(* Networks that occur in the signature of a list occur in the list.       *)
LEMMA SignatureCovers ==
  ASSUME NEW targets, NEW n \in Net, Signature(targets)[n] > 0
  PROVE  \E i \in DOMAIN targets : targets[i] = n
<1>1. SUFFICES ASSUME ~\E i \in DOMAIN targets : targets[i] = n
               PROVE  FALSE
  OBVIOUS
<1>2. {i \in DOMAIN targets : targets[i] = n} = {}
  BY <1>1
<1>3. Signature(targets)[n] = Cardinality({})
  BY <1>2 DEF Signature
<1>4. QED
  BY <1>3, FS_EmptySet

SafeKey(key, source) ==
  \A n \in Net : key[2][n] > 0
    => n \in Allowed \/ (n \in Confirmable /\ source = "api.post_scan")

LEMMA LoopKeyIsSafe ==
  ASSUME NEW mode, NEW source
  PROVE  SafeKey(LoopKey(mode), source)
<1>1. LoopKey(mode)[2] = Signature(LoopTargets)
  BY DEF LoopKey
<1>2. ASSUME NEW n \in Net, Signature(LoopTargets)[n] > 0
      PROVE  n \in Allowed
  <2>1. PICK c \in DOMAIN LoopTargets : LoopTargets[c] = n
    BY <1>2, SignatureCovers
  <2>2. QED
    BY <2>1 DEF LoopTargets, Safe
<1>3. QED
  BY <1>1, <1>2 DEF SafeKey

LEMMA PostKeyIsSafe ==
  ASSUME NEW mode, NEW req, NEW confirm \in BOOLEAN, AllAccepted(req, confirm)
  PROVE  SafeKey(PostKey(mode, req), "api.post_scan")
<1>1. SUFFICES ASSUME NEW n \in Net, Signature(Nets(req))[n] > 0
               PROVE  n \in Allowed \/ n \in Confirmable
  BY DEF SafeKey, PostKey
<1>2. PICK i \in DOMAIN Nets(req) : Nets(req)[i] = n
  BY <1>1, SignatureCovers
<1>3. QED
  BY <1>2 DEF AllAccepted, Accepts

LEMMA MaybeRunNoBypass ==
  ASSUME TablesOK, NoBypass, NEW key \in Key, NEW source \in Source,
         SafeKey(key, source),
         Skipped(key, source) \/ Started(key, source) \/ Raised(key, source)
  PROVE  NoBypass'
<1>1. CASE UNCHANGED tables
  BY <1>1 DEF tables, NoBypass
<1>2. ASSUME NEW status \in Status, NEW ended \in BOOLEAN, NEW kinds \in Seq(Kind),
             OpenRow(key, source, status, ended, kinds)
      PROVE  NoBypass'
  <2>1. /\ Len(scan') = Len(scan) + 1 /\ Len(scan) \in Nat
        /\ \A j \in 1..Len(scan) : scan'[j] = scan[j]
        /\ scan'[Len(scan) + 1].key = key
        /\ scan'[Len(scan) + 1].source = source
    <3>1. /\ Len(scan') = Len(scan) + 1
          /\ \A j \in 1..Len(scan) : scan'[j] = scan[j]
          /\ scan'[Len(scan) + 1] = [key |-> key, source |-> source,
                                     status |-> status, ended |-> ended]
      BY <1>2, OpenRowAppends
    <3>2. Len(scan) \in Nat
      BY DEF TablesOK
    <3>3. QED
      BY <3>1, <3>2
  <2>2. SUFFICES ASSUME NEW j \in 1..Len(scan'), NEW n \in Net,
                        scan'[j].key[2][n] > 0
                 PROVE  \/ n \in Allowed
                        \/ n \in Confirmable /\ scan'[j].source = "api.post_scan"
    BY DEF NoBypass
  <2>3. CASE j = Len(scan) + 1
    BY <2>1, <2>2, <2>3 DEF SafeKey
  <2>4. CASE j \in 1..Len(scan)
    BY <2>1, <2>2, <2>4 DEF NoBypass
  <2>5. QED
    BY <2>1, <2>3, <2>4
<1>3. /\ "skipped" \in Status /\ "running" \in Status
      /\ <<>> \in Seq(Kind) /\ <<"scan.started">> \in Seq(Kind)
      /\ <<"scan.skipped">> \in Seq(Kind)
  BY DEF Status, Kind
<1>4. QED
  BY <1>1, <1>2, <1>3 DEF Skipped, Started, Raised

(* Only networks that the safety policy accepts are ever scanned.          *)
THEOREM NoBypassHolds == Spec => []NoBypass
<1>1. Init => NoBypass
  BY DEF Init, NoBypass
<1>2. ASSUME TypeOK, Registry, NoBypass, [Next]_vars
      PROVE  NoBypass'
  <2>1. /\ LoopKey("discover") \in Key
        /\ LoopKey("default") \in Key
        /\ Source = {"loop.discover", "loop.default", "api.post_scan"}
        /\ TablesOK
    BY <1>2, LoopKeyType DEF Mode, Source, Registry
  <2>2. CASE UNCHANGED tables
    BY <1>2, <2>2 DEF NoBypass, tables
  <2>3. CASE TickScan \/ TickCrash \/ RunDefault
    BY <1>2, <2>1, <2>2, <2>3, LoopKeyIsSafe, MaybeRunNoBypass
       DEF TickScan, TickCrash, RunDefault
  <2>4. CASE Post
    <3>1. ASSUME NEW req \in Request, NEW confirm \in BOOLEAN,
                 NEW mode \in PostModes, PostScan(mode, req, confirm)
          PROVE  NoBypass'
      <4>1. PostKey(mode, req) \in Key
        BY <1>2, PostKeyType
      <4>2. SafeKey(PostKey(mode, req), "api.post_scan")
        BY <3>1, PostKeyIsSafe DEF PostScan
      <4>3. QED
        BY <1>2, <2>1, <3>1, <4>1, <4>2, MaybeRunNoBypass DEF PostScan
    <3>2. QED
      BY <2>2, <2>4, <3>1 DEF Post, PostRejected, PostConflict
  <2>5. ASSUME NEW i \in work, Finish(i)
        PROVE  NoBypass'
    <3>1. ASSUME NEW status \in {"ok", "error"}, NEW kind \in Kind,
                 CloseRow(i, status, kind)
          PROVE  NoBypass'
      <4>1. i \in 1..Len(scan) /\ scan \in Seq(Row)
        BY <2>1 DEF TablesOK
      <4>2. /\ Len(scan') = Len(scan)
            /\ \A j \in 1..Len(scan) :
                 scan'[j].key = scan[j].key /\ scan'[j].source = scan[j].source
        BY <3>1, <4>1 DEF CloseRow, Row
      <4>3. QED
        BY <1>2, <4>2 DEF NoBypass
    <3>2. QED
      BY <2>2, <2>5, <3>1 DEF Finish, FinishOk, FinishError, FinishStuck, Kind
  <2>6. CASE TickIdle \/ Start \/ Shutdown \/ LoopExit \/ ProcessExit \/ Crash
    BY <2>2, <2>6 DEF TickIdle, Start, Shutdown, LoopExit, ProcessExit, Crash,
                      Gone
  <2>7. CASE UNCHANGED vars
    BY <2>2, <2>7 DEF vars
  <2>8. QED
    BY <1>2, <2>3, <2>4, <2>5, <2>6, <2>7 DEF Next
<1>3. QED
  BY <1>1, <1>2, TypesAndRegistry, PTL DEF Spec
-----------------------------------------------------------------------------
(* Refinement: how the ledger sees the two changes of the scan table.      *)
InLedger(table) ==
  [i \in 1..Len(table) |-> [key |-> table[i].key, status |-> table[i].status]]

LEMMA InLedgerType ==
  ASSUME NEW table \in Seq(Row)
  PROVE  /\ InLedger(table) \in Seq([key : Key, status : Status])
         /\ Len(InLedger(table)) = Len(table)
         /\ \A i \in 1..Len(table) :
              InLedger(table)[i] = [key |-> table[i].key, status |-> table[i].status]
<1>1. /\ Len(table) \in Nat
      /\ \A i \in 1..Len(table) : table[i] \in Row
  OBVIOUS
<1>2. \A i \in 1..Len(table) :
        [key |-> table[i].key, status |-> table[i].status]
          \in [key : Key, status : Status]
  BY <1>1 DEF Row
<1>3. QED
  BY <1>1, <1>2, IsASeq DEF InLedger

LEMMA OpenRowInLedger ==
  ASSUME TablesOK, TablesOK', NEW key \in Key, NEW source \in Source,
         NEW status \in Status, NEW ended \in BOOLEAN, NEW kinds \in Seq(Kind),
         OpenRow(key, source, status, ended, kinds)
  PROVE  LedgerRows' = Append(LedgerRows, [key |-> key, status |-> status])
<1> DEFINE S   == [key : Key, status : Status]
           new == [key |-> key, status |-> status]
<1>1. /\ Len(scan') = Len(scan) + 1
      /\ \A j \in 1..Len(scan) : scan'[j] = scan[j]
      /\ scan'[Len(scan) + 1] = [key |-> key, source |-> source,
                                 status |-> status, ended |-> ended]
  BY OpenRowAppends
<1>2. /\ LedgerRows \in Seq(S) /\ Len(LedgerRows) = Len(scan)
      /\ \A i \in 1..Len(scan) :
           LedgerRows[i] = [key |-> scan[i].key, status |-> scan[i].status]
  BY InLedgerType DEF TablesOK, InLedger, LedgerRows
<1>3. /\ LedgerRows' \in Seq(S) /\ Len(LedgerRows') = Len(scan')
      /\ \A i \in 1..Len(scan') :
           LedgerRows'[i] = [key |-> scan'[i].key, status |-> scan'[i].status]
  BY InLedgerType DEF TablesOK, InLedger, LedgerRows
<1>4. new \in S /\ Len(scan) \in Nat
  BY DEF TablesOK
<1>5. /\ Append(LedgerRows, new) \in Seq(S)
      /\ Len(Append(LedgerRows, new)) = Len(scan) + 1
      /\ \A i \in 1..Len(scan) : Append(LedgerRows, new)[i] = LedgerRows[i]
      /\ Append(LedgerRows, new)[Len(scan) + 1] = new
  BY <1>2, <1>4, AppendProperties
<1>6. \A i \in 1..Len(LedgerRows') : LedgerRows'[i] = Append(LedgerRows, new)[i]
  <2>1. SUFFICES ASSUME NEW i \in 1..(Len(scan) + 1)
                 PROVE  LedgerRows'[i] = Append(LedgerRows, new)[i]
    BY <1>1, <1>3
  <2>2. LedgerRows'[i] = [key |-> scan'[i].key, status |-> scan'[i].status]
    BY <1>1, <1>3, <2>1
  <2>3. CASE i = Len(scan) + 1
    BY <1>1, <1>5, <2>2, <2>3
  <2>4. CASE i \in 1..Len(scan)
    BY <1>1, <1>2, <1>5, <2>2, <2>4
  <2>5. i = Len(scan) + 1 \/ i \in 1..Len(scan)
    BY <1>4, <2>1
  <2>6. QED
    BY <2>3, <2>4, <2>5
<1>7. QED
  BY <1>1, <1>3, <1>5, <1>6, SeqEqual

LEMMA CloseRowInLedger ==
  ASSUME TablesOK, TablesOK', NEW i \in 1..Len(scan),
         NEW status \in {"ok", "error"}, NEW kind \in Kind,
         CloseRow(i, status, kind)
  PROVE  LedgerRows' = [LedgerRows EXCEPT ![i].status = status]
<1>1. /\ Len(scan') = Len(scan)
      /\ \A j \in 1..Len(scan) : scan'[j].key = scan[j].key
      /\ \A j \in 1..Len(scan) \ {i} : scan'[j] = scan[j]
      /\ scan'[i].status = status
  BY CloseRowUpdates
<1>2. \A j \in 1..Len(scan) :
        LedgerRows'[j] = [LedgerRows EXCEPT ![i].status = status][j]
  BY <1>1 DEF LedgerRows
<1>3. QED
  BY <1>1, <1>2 DEF LedgerRows

(* With a database that does not fail, the dispatcher implements the       *)
(* ledger: every step opens, refuses, closes or loses scans as the ledger  *)
(* may, or does not show in it.                                            *)
THEOREM LedgerImplemented ==
  ASSUME MaxFaults = 0
  PROVE  Spec => Ledger!SafetySpec
<1>1. Init => Ledger!Init
  BY DEF Init, Ledger!Init, LedgerRows
<1>2. ASSUME TypeOK, Registry, Registry', [Next]_vars
      PROVE  [Ledger!Next]_(Ledger!vars)
  <2>1. TablesOK /\ TablesOK' /\ faults = 0 /\ faults' = 0 /\ leaked = {}
    BY <1>2 DEF Registry, TablesOK
  <2>2. CASE UNCHANGED scan /\ (work' = work \/ work' = {})
    BY <2>2 DEF Ledger!Next, Ledger!Lose, Ledger!vars, LedgerRows
  <2>3. ASSUME NEW key \in Key, NEW source \in Source,
               Skipped(key, source) \/ Started(key, source)
        PROVE  Ledger!Next
    <3>1. CASE Skipped(key, source)
      <4>1. "skipped" \in Status /\ <<"scan.skipped">> \in Seq(Kind)
        BY DEF Status, Kind
      <4>2. LedgerRows' = Append(LedgerRows, [key |-> key, status |-> "skipped"])
        BY <2>1, <3>1, <4>1, OpenRowInLedger DEF Skipped
      <4>3. PICK i \in work : scan[i].key = key
        BY <1>2, <2>1, <3>1 DEF Skipped, Registry, KeysAreOwned
      <4>4. i \in 1..Len(scan) /\ LedgerRows[i].key = key
        BY <2>1, <4>3 DEF TablesOK, LedgerRows
      <4>5. Ledger!Refuse(key)
        BY <3>1, <4>2, <4>4 DEF Ledger!Refuse, Ledger!Busy, Skipped
      <4>6. QED
        BY <4>5 DEF Ledger!Next
    <3>2. CASE Started(key, source)
      <4>1. "running" \in Status /\ <<"scan.started">> \in Seq(Kind)
        BY DEF Status, Kind
      <4>2. LedgerRows' = Append(LedgerRows, [key |-> key, status |-> "running"])
        BY <2>1, <3>2, <4>1, OpenRowInLedger DEF Started
      <4>3. ~ \E i \in work : LedgerRows[i].key = key
        BY <1>2, <2>1, <3>2
           DEF Started, Registry, WorkIsRegistered, TablesOK, LedgerRows
      <4>4. work' = work \cup {Len(LedgerRows) + 1}
        BY <2>1, <3>2, InLedgerType DEF Started, TablesOK, InLedger, LedgerRows
      <4>5. Ledger!Open(key)
        BY <4>2, <4>3, <4>4 DEF Ledger!Open, Ledger!Busy
      <4>6. QED
        BY <4>5 DEF Ledger!Next
    <3>3. QED
      BY <2>3, <3>1, <3>2
  <2>4. ASSUME NEW key, NEW source
        PROVE  ~Raised(key, source) /\ ~DbRaises
    BY <2>1 DEF Raised, DbRaises
  <2>5. /\ LoopKey("discover") \in Key
        /\ LoopKey("default") \in Key
        /\ Source = {"loop.discover", "loop.default", "api.post_scan"}
    BY <1>2, LoopKeyType DEF Mode, Source
  <2>6. CASE TickScan \/ TickCrash \/ RunDefault
    BY <2>3, <2>4, <2>5, <2>6 DEF TickScan, TickCrash, RunDefault
  <2>7. CASE Post
    <3>1. ASSUME NEW req \in Request, NEW confirm \in BOOLEAN,
                 NEW mode \in PostModes, PostScan(mode, req, confirm)
          PROVE  Ledger!Next
      BY <1>2, <2>3, <2>4, <2>5, <3>1, PostKeyType DEF PostScan
    <3>2. ASSUME ~ \E req \in Request, confirm \in BOOLEAN, mode \in PostModes :
                     PostScan(mode, req, confirm)
          PROVE  UNCHANGED <<scan, work>>
      BY <2>7, <3>2 DEF Post, PostRejected, PostConflict, tables
    <3>3. QED
      BY <2>2, <3>1, <3>2
  <2>8. ASSUME NEW i \in work, Finish(i)
        PROVE  Ledger!Next
    <3>1. i \in 1..Len(scan) /\ work' = work \ {i}
      BY <2>1, <2>8 DEF TablesOK, Finish, LeaveFlight
    <3>2. \E outcome \in {"ok", "error"} :
            LedgerRows' = [LedgerRows EXCEPT ![i].status = outcome]
      <4>1. \/ CloseRow(i, "ok", "scan.ok")
            \/ CloseRow(i, "error", "scan.error")
        BY <2>1, <2>4, <2>8 DEF Finish, FinishOk, FinishError, FinishStuck
      <4>2. QED
        BY <2>1, <3>1, <4>1, CloseRowInLedger DEF Kind
    <3>3. Ledger!Close(i)
      BY <3>1, <3>2 DEF Ledger!Close
    <3>4. QED
      BY <3>3 DEF Ledger!Next
  <2>9. CASE TickIdle \/ Start \/ Shutdown \/ LoopExit \/ ProcessExit \/ Crash
    BY <2>2, <2>9 DEF TickIdle, Start, Shutdown, LoopExit, ProcessExit, Crash,
                      Gone, tables
  <2>10. CASE UNCHANGED vars
    BY <2>2, <2>10 DEF vars, tables
  <2>11. QED
    BY <1>2, <2>6, <2>7, <2>8, <2>9, <2>10 DEF Next
<1>3. QED
  BY <1>1, <1>2, TypesAndRegistry, PTL DEF Spec, Ledger!SafetySpec
=============================================================================
