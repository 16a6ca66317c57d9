---------------------------- MODULE CommandsProofs ----------------------------
(***************************************************************************)
(* Theorems about the networks that net-map probes: what a target is that  *)
(* validate_target accepts, for every policy, in terms of addresses, where *)
(* the code compares networks by their ends; and, resting on that, about   *)
(* Commands, for any number of processes, targets, settings and networks,  *)
(* and every value of the bounds.                                          *)
(***************************************************************************)
EXTENDS Commands, SequenceTheorems, TLAPS

(* A remainder is less than what is divided by.                            *)
LEMMA Remainder ==
  ASSUME NEW a \in Nat, NEW s \in Nat \ {0}
  PROVE  /\ a % s \in Nat
         /\ a % s < s
         /\ a % s <= a
  <1>1. a % s \in 0..(s - 1)
    BY SMT
  <1>2. a % s <= a
    BY SMT
  <1> QED
    BY <1>1, <1>2, SMT

LEMMA Division ==
  ASSUME NEW a \in Nat, NEW s \in Nat \ {0}
  PROVE  a = s * (a \div s) + (a % s)
  BY SMT

(* A multiple leaves no remainder.                                         *)
LEMMA NoRest ==
  ASSUME NEW q \in Nat, NEW s \in Nat \ {0}, NEW d \in Int, NEW m \in 0..(s - 1),
         s * q = s * d + m
  PROVE  m = 0
  <1>1. s * (q - d) = m /\ q - d \in Int
    BY SMT
  <1>2. CASE q - d <= 0
    <2>1. s * (q - d) <= 0
      BY <1>1, <1>2, SMT
    <2> QED
      BY <1>1, <2>1, SMT
  <1>3. CASE q - d >= 1
    <2>1. s * (q - d) >= s
      BY <1>1, <1>3, SMT
    <2> QED
      BY <1>1, <2>1, SMT
  <1> QED
    BY <1>1, <1>2, <1>3, SMT

LEMMA MultipleHasNoRemainder ==
  ASSUME NEW q \in Nat, NEW s \in Nat \ {0}
  PROVE  (s * q) % s = 0
  <1>1. s * q \in Nat
    BY SMT
  <1>2. s * q = s * ((s * q) \div s) + ((s * q) % s)
    BY <1>1, Division
  <1>3. (s * q) \div s \in Int /\ (s * q) % s \in 0..(s - 1)
    BY <1>1, SMT
  <1> QED
    BY <1>2, <1>3, NoRest

(* A text that is a CIDR denotes a network that holds its address.         *)
LEMMA MaskedIsNetwork ==
  ASSUME NEW text \in Text
  PROVE  /\ Masked(text) \in Network
         /\ In(text.addr, Masked(text))
  <1> DEFINE r == text.addr % text.size
  <1>1. text.addr \in Nat /\ text.size \in Nat \ {0}
    BY DEF Text
  <1>2. r \in Nat /\ r < text.size /\ r <= text.addr
    BY <1>1, Remainder
  <1> HIDE DEF r
  <1>3. Masked(text) = [first |-> text.addr - r, size |-> text.size]
    BY DEF Masked, r
  <1> QED
    BY <1>1, <1>2, <1>3 DEF Network, In, Last

(* A network that is written out has no host bits.                         *)
LEMMA ShownHasNoHostBits ==
  ASSUME NEW text \in Text
  PROVE  /\ Shown(Masked(text)) \in Text
         /\ ~HasHostBits(Shown(Masked(text)))
  <1>1. text.addr \in Nat /\ text.size \in Nat \ {0}
    BY DEF Text
  <1> DEFINE a == text.addr
             s == text.size
  <1>2. a \in Nat /\ s \in Nat \ {0}
    BY <1>1
  <1> HIDE DEF a, s
  <1>3. a = s * (a \div s) + (a % s) /\ a \div s \in Nat /\ a % s \in Nat
    BY <1>2, Division
  <1>4. a - (a % s) = s * (a \div s)
    BY <1>2, <1>3, SMT
  <1>5. (a - (a % s)) % s = 0
    BY <1>2, <1>3, <1>4, MultipleHasNoRemainder
  <1> QED
    BY <1>5, MaskedIsNetwork DEF Masked, Shown, HasHostBits, Text, Network, a, s

(* The four comparisons of ends find every address that two networks share *)
(* and nothing else.                                                       *)
THEOREM OverlapsIsSharing ==
  ASSUME NEW net \in Network, NEW other \in Network
  PROVE  Overlaps(net, other) <=> \E a \in Addresses(net) : a \in Addresses(other)
  <1>1. /\ net.first \in Nat /\ net.size \in Nat \ {0}
        /\ other.first \in Nat /\ other.size \in Nat \ {0}
    BY DEF Network
  <1>2. ASSUME Overlaps(net, other)
        PROVE  \E a \in Addresses(net) : a \in Addresses(other)
    <2>1. \/ net.first \in Addresses(other) /\ net.first \in Addresses(net)
          \/ other.first \in Addresses(net) /\ other.first \in Addresses(other)
      BY <1>1, <1>2 DEF Overlaps, In, Last, Addresses
    <2> QED
      BY <2>1
  <1>3. ASSUME NEW a \in Addresses(net), a \in Addresses(other)
        PROVE  Overlaps(net, other)
    BY <1>1, <1>3 DEF Overlaps, In, Last, Addresses
  <1> QED
    BY <1>2, <1>3

(* validate_target, without the override: a network that it accepts shares *)
(* no address with any entry of the deny list, wherever the entry stands   *)
(* and whichever of the two is the larger.                                 *)
THEOREM AcceptedIsNotDenied ==
  ASSUME NEW text \in Text, NEW policy \in Policy, NEW confirm \in BOOLEAN,
         NEW hops \in Nat,
         Accepts(text, policy, confirm, hops, FALSE),
         NEW j \in DOMAIN policy.deny,
         NEW a \in Addresses(Masked(text))
  PROVE  a \notin Addresses(Masked(policy.deny[j]))
  <1>1. ~Malformed(policy.deny[j]) /\ ~Overlaps(Masked(text), Masked(policy.deny[j]))
    BY DEF Accepts, Stops
  <1>2. policy.deny[j] \in Text
    BY <1>1 DEF Policy, Malformed
  <1> QED
    BY <1>1, <1>2, MaskedIsNetwork, OverlapsIsSharing

(* A network that it accepts is private to its last address, unless the    *)
(* policy allows public scans and the caller confirmed.                    *)
THEOREM AcceptedIsConsented ==
  ASSUME NEW text \in Text, NEW policy \in Policy, NEW confirm \in BOOLEAN,
         NEW hops \in Nat, NEW override \in BOOLEAN,
         Accepts(text, policy, confirm, hops, override),
         ~(policy.public /\ confirm),
         NEW a \in Addresses(Masked(text))
  PROVE  \E b \in PrivateBlocks : a \in Addresses(b)
  <1>1. PICK b \in PrivateBlocks : In(Masked(text).first, b) /\ In(Last(Masked(text)), b)
    BY DEF Accepts, Consents, IsPrivate
  <1>2. /\ Masked(text).first \in Nat /\ Masked(text).size \in Nat \ {0}
        /\ b.first \in Nat /\ b.size \in Nat \ {0}
    BY <1>1, MaskedIsNetwork, PrivateAssumption DEF Network
  <1>3. a \in Addresses(b)
    BY <1>1, <1>2 DEF In, Last, Addresses
  <1> QED
    BY <1>3

-----------------------------------------------------------------------------
(* Commands.                                                               *)

(* Beside the types: a process that is idle has nothing, one that is not   *)
(* has opened the database, one that stores targets has one left, and one  *)
(* has a row exactly as long as it is in a phase of a scan.                *)
Still  == \A p \in Process : proc[p].pc = "idle" => proc[p] = Idle
Opened == \A p \in Process : proc[p].pc # "idle" => exists
Loaded == \A p \in Process : proc[p].pc = "override" => proc[p].todo # <<>>
Phased == \A p \in Process : proc[p].row = 0 <=> proc[p].phase = "none"

ProcSorted ==
  /\ proc \in [Process -> Proc]
  /\ \A p \in Process : proc[p].row \in 0..Len(scan)
  /\ Still /\ Opened /\ Loaded /\ Phased

Sorted == TypeOK /\ ProcSorted

-----------------------------------------------------------------------------
LEMMA ConstantsTyped ==
  /\ BuiltIn \in Policy
  /\ Idle \in Proc
  /\ Default \in [policy : Policy, loopback : BOOLEAN]
  /\ \A t \in Target \cup Plug : t # NotACidr => t \in Text
<1>1. BuiltIn \in Policy
  BY CommandsAssumption
<1>2. <<>> \in Seq(Target)
  BY EmptySeq
<1>3. QED
  BY <1>1, <1>2, CommandsAssumption DEF Idle, Proc, Default

LEMMA IdleFields ==
  /\ Idle.pc = "idle" /\ Idle.policy = BuiltIn /\ Idle.todo = <<>>
  /\ Idle.loop = FALSE /\ Idle.row = 0 /\ Idle.phase = "none"
  BY DEF Idle

LEMMA ProcFields ==
  ASSUME NEW r \in Proc, NEW v
  PROVE  /\ [r EXCEPT !.pc = v] =
              [pc |-> v, policy |-> r.policy, todo |-> r.todo, loop |-> r.loop,
               row |-> r.row, phase |-> r.phase]
         /\ [r EXCEPT !.policy = v] =
              [pc |-> r.pc, policy |-> v, todo |-> r.todo, loop |-> r.loop,
               row |-> r.row, phase |-> r.phase]
  BY DEF Proc

LEMMA IdleWith ==
  ASSUME NEW v
  PROVE  [Idle EXCEPT !.pc = v] =
           [pc |-> v, policy |-> BuiltIn, todo |-> <<>>, loop |-> FALSE, row |-> 0,
            phase |-> "none"]
<1>1. Idle \in Proc
  BY ConstantsTyped
<1>2. [Idle EXCEPT !.pc = v] =
        [pc |-> v, policy |-> Idle.policy, todo |-> Idle.todo, loop |-> Idle.loop,
         row |-> Idle.row, phase |-> Idle.phase]
  BY <1>1, ProcFields, Zenon
<1>3. QED
  BY <1>2, IdleFields

LEMMA PolicyTyped ==
  ASSUME TypeOK
  PROVE  config.setting.policy \in Policy
<1>1. config.setting \in Setting \cup {Default}
  BY DEF TypeOK
<1>2. Setting \subseteq [policy : Policy, loopback : BOOLEAN]
  BY CommandsAssumption
<1>3. QED
  BY <1>1, <1>2, ConstantsTyped

(* A process that takes a step leaves the others alone.                    *)
LEMMA ProcStep ==
  ASSUME TypeOK, NEW p \in Process, NEW x \in Proc,
         proc' = [proc EXCEPT ![p] = x]
  PROVE  /\ proc' \in [Process -> Proc]
         /\ proc'[p] = x
         /\ \A q \in Process \ {p} : proc'[q] = proc[q]
  BY DEF TypeOK

(* The status of a row changes, and nothing else of the table.             *)
LEMMA RowStep ==
  ASSUME scan \in Seq(Row), NEW i \in DOMAIN scan,
         NEW status \in {"running", "ok", "error"},
         scan' = [scan EXCEPT ![i].status = status]
  PROVE  /\ scan' \in Seq(Row)
         /\ Len(scan') = Len(scan)
         /\ DOMAIN scan' = DOMAIN scan
         /\ scan'[i] = [scan[i] EXCEPT !.status = status]
         /\ \A j \in DOMAIN scan \ {i} : scan'[j] = scan[j]
<1> DEFINE row == [scan[i] EXCEPT !.status = status]
<1>1. i \in 1..Len(scan) /\ DOMAIN scan = 1..Len(scan) /\ scan[i] \in Row
  OBVIOUS
<1>2. row \in Row
  BY <1>1 DEF Row
<1>3. scan' = [scan EXCEPT ![i] = row]
  OBVIOUS
<1> HIDE DEF row
<1>4. /\ scan' \in Seq(Row) /\ Len(scan') = Len(scan)
      /\ \A j \in 1..Len(scan) : scan'[j] = IF j = i THEN row ELSE scan[j]
  BY <1>1, <1>2, <1>3, ExceptSeq
<1>5. DOMAIN scan' = 1..Len(scan')
  BY <1>4
<1>6. QED
  BY <1>1, <1>4, <1>5 DEF row

(* A row is added behind the others.                                       *)
LEMMA RowAdded ==
  ASSUME scan \in Seq(Row), NEW row \in Row, scan' = Append(scan, row)
  PROVE  /\ scan' \in Seq(Row)
         /\ Len(scan') = Len(scan) + 1
         /\ Len(scan) \in Nat
         /\ scan'[Len(scan) + 1] = row
         /\ DOMAIN scan' = DOMAIN scan \cup {Len(scan) + 1}
         /\ \A j \in DOMAIN scan : scan'[j] = scan[j]
<1>1. /\ scan' \in Seq(Row) /\ Len(scan') = Len(scan) + 1 /\ Len(scan) \in Nat
      /\ scan'[Len(scan) + 1] = row
      /\ \A j \in 1..Len(scan) : scan'[j] = scan[j]
  BY AppendProperties
<1>2. DOMAIN scan = 1..Len(scan) /\ DOMAIN scan' = 1..Len(scan')
  BY <1>1
<1>3. QED
  BY <1>1, <1>2

-----------------------------------------------------------------------------
(* What a step must show of the process that takes it.                     *)
Fits(x) ==
  /\ x \in Proc
  /\ x.row \in 0..Len(scan')
  /\ x.pc = "idle" => x = Idle
  /\ x.pc # "idle" => exists'
  /\ x.pc = "override" => x.todo # <<>>
  /\ x.row = 0 <=> x.phase = "none"

LEMMA ProcMoves ==
  ASSUME Sorted, NEW p \in Process, NEW x, Fits(x),
         proc' = [proc EXCEPT ![p] = x],
         exists => exists',
         Len(scan') \in Nat, Len(scan) \in Nat, Len(scan) <= Len(scan')
  PROVE  ProcSorted'
<1>1. /\ proc' \in [Process -> Proc]
      /\ proc'[p] = x
      /\ \A q \in Process \ {p} : proc'[q] = proc[q]
  BY ProcStep DEF Sorted, Fits
<1>2. ASSUME NEW q \in Process
      PROVE  /\ proc'[q].row \in 0..Len(scan')
             /\ proc'[q].pc = "idle" => proc'[q] = Idle
             /\ proc'[q].pc # "idle" => exists'
             /\ proc'[q].pc = "override" => proc'[q].todo # <<>>
             /\ proc'[q].row = 0 <=> proc'[q].phase = "none"
  <2>1. CASE q = p
    BY <1>1, <2>1 DEF Fits
  <2>2. CASE q # p
    <3>1. proc'[q] = proc[q] /\ proc[q].row \in 0..Len(scan)
      BY <1>1, <2>2 DEF Sorted, ProcSorted
    <3>2. proc[q].row \in 0..Len(scan')
      BY <3>1
    <3>3. QED
      BY <3>1, <3>2 DEF Sorted, ProcSorted, Still, Opened, Loaded, Phased
  <2>3. QED
    BY <2>1, <2>2
<1>3. QED
  BY <1>1, <1>2 DEF ProcSorted, Still, Opened, Loaded, Phased

LEMMA IdleFits ==
  ASSUME Len(scan') \in Nat
  PROVE  Fits(Idle)
<1>1. /\ Idle \in Proc /\ Idle.row = 0 /\ Idle.pc = "idle" /\ Idle.phase = "none"
  BY ConstantsTyped DEF Idle
<1>2. 0 \in 0..Len(scan')
  OBVIOUS
<1>3. QED
  BY <1>1, <1>2 DEF Fits

LEMMA ProcStays ==
  ASSUME Sorted, UNCHANGED <<proc, scan>>, exists => exists'
  PROVE  ProcSorted'
  BY DEF Sorted, ProcSorted, Still, Opened, Loaded, Phased

(* A row is opened for a process that has none.                            *)
LEMMA OpensRowSorts ==
  ASSUME Sorted, NEW p \in Process, NEW after \in Proc,
         NEW source \in {"cli", "loop"}, NEW nets \in SUBSET Network,
         NEW confirm \in BOOLEAN, NEW override \in BOOLEAN,
         OpensRow(p, after, source, nets, confirm, override),
         after.pc # "idle", after.pc = "override" => after.todo # <<>>, exists'
  PROVE  /\ ProcSorted'
         /\ scan' \in Seq(Row)
         /\ Len(scan') = Len(scan) + 1 /\ Len(scan) \in Nat
<1> DEFINE row == [source |-> source, nets |-> nets, policy |-> after.policy,
                   confirm |-> confirm, override |-> override, status |-> "running"]
           x   == [after EXCEPT !.row = Len(scan) + 1, !.phase = "collect"]
<1>1. row \in Row
  BY DEF Row, Proc
<1>2. scan \in Seq(Row) /\ scan' = Append(scan, row) /\ proc' = [proc EXCEPT ![p] = x]
  BY DEF OpensRow, Sorted, TypeOK
<1> HIDE DEF row
<1>3. scan' \in Seq(Row) /\ Len(scan') = Len(scan) + 1 /\ Len(scan) \in Nat
  BY <1>1, <1>2, RowAdded
<1>4. x = [pc |-> after.pc, policy |-> after.policy, todo |-> after.todo,
            loop |-> after.loop, row |-> Len(scan) + 1, phase |-> "collect"]
  <2> DEFINE y == [after EXCEPT !.row = Len(scan) + 1]
  <2>1. y = [pc |-> after.pc, policy |-> after.policy, todo |-> after.todo,
             loop |-> after.loop, row |-> Len(scan) + 1, phase |-> after.phase]
    BY DEF Proc
  <2>2. x = [y EXCEPT !.phase = "collect"]
    OBVIOUS
  <2> HIDE DEF x, y
  <2> QED
    BY <2>1, <2>2
<1> HIDE DEF x
<1>5. Len(scan) + 1 \in Nat /\ Len(scan) + 1 \in 0..Len(scan') /\ Len(scan) + 1 # 0
  BY <1>3
<1>6. x \in Proc
  BY <1>4, <1>5 DEF Proc
<1>7. Fits(x)
  BY <1>4, <1>5, <1>6 DEF Fits
<1>8. Len(scan') \in Nat /\ Len(scan) <= Len(scan')
  BY <1>3
<1>9. ProcSorted'
  BY <1>2, <1>3, <1>7, <1>8, ProcMoves, Zenon
<1>10. QED
  BY <1>3, <1>9

(* What a process is without its scan.                                     *)
LEMMA RestSorts ==
  ASSUME Sorted, NEW p \in Process, proc[p].phase # "none",
         Len(scan') = Len(scan), UNCHANGED exists,
         proc' = [proc EXCEPT ![p] = Rest(p)]
  PROVE  ProcSorted'
<1>1. Len(scan) \in Nat
  BY DEF Sorted, TypeOK
<1>2. Rest(p) \in Proc /\ Rest(p).row = 0 /\ Rest(p).phase = "none"
  BY ConstantsTyped DEF Rest, Proc, Idle, Sorted, ProcSorted
<1>3. /\ Rest(p).pc = "idle" => Rest(p) = Idle
      /\ Rest(p).pc # "idle" => exists
      /\ Rest(p).pc = "override" => Rest(p).todo # <<>>
  <2>1. CASE proc[p].pc = "scanning"
    BY <2>1 DEF Rest, Idle
  <2>2. CASE proc[p].pc # "scanning"
    <3>1. /\ Rest(p).pc = proc[p].pc /\ Rest(p).todo = proc[p].todo
      BY <2>2 DEF Rest, Sorted, ProcSorted, Proc
    <3>2. proc[p].pc # "idle"
      BY DEF Sorted, ProcSorted, Still, Idle
    <3>3. QED
      BY <3>1, <3>2 DEF Sorted, ProcSorted, Opened, Loaded
  <2>3. QED
    BY <2>1, <2>2
<1>4. Fits(Rest(p))
  <2>1. Rest(p).row \in 0..Len(scan')
    BY <1>1, <1>2
  <2> QED
    BY <1>2, <1>3, <2>1 DEF Fits
<1>5. Len(scan') \in Nat /\ Len(scan) <= Len(scan') /\ (exists => exists')
  BY <1>1
<1>6. QED
  BY <1>1, <1>4, <1>5, ProcMoves, Zenon

(* A row is finished by the process that has it.                           *)
LEMMA FinishesSorts ==
  ASSUME Sorted, NEW p \in Process, NEW status \in {"ok", "error"},
         proc[p].phase # "none", Finishes(p, status), UNCHANGED exists
  PROVE  /\ ProcSorted'
         /\ scan' \in Seq(Row)
         /\ Len(scan') = Len(scan)
<1>1. proc[p].row \in DOMAIN scan /\ scan \in Seq(Row)
  BY DEF Sorted, TypeOK, ProcSorted, Phased
<1>2. scan' \in Seq(Row) /\ Len(scan') = Len(scan)
  BY <1>1, RowStep DEF Finishes
<1>3. QED
  BY <1>2, RestSorts DEF Finishes

LEMMA LeavesSorts ==
  ASSUME Sorted, NEW p \in Process, Leaves(p)
  PROVE  Sorted'
<1>1. ProcSorted'
  <2>1. /\ UNCHANGED <<scan, exists>> /\ proc' = [proc EXCEPT ![p] = Idle]
        /\ Len(scan) \in Nat
    BY DEF Leaves, database, Sorted, TypeOK
  <2>2. Fits(Idle)
    BY <2>1, IdleFits
  <2>3. Len(scan') \in Nat /\ Len(scan) <= Len(scan') /\ (exists => exists')
    BY <2>1
  <2> QED
    BY <2>1, <2>2, <2>3, ProcMoves, Zenon
<1>2. orphans' \in SUBSET (1..Len(scan))
  <2>1. proc[p].row \in 0..Len(scan) /\ Len(scan) \in Nat
    BY DEF Sorted, ProcSorted, TypeOK
  <2>2. {proc[p].row} \ {0} \subseteq 1..Len(scan)
    BY <2>1
  <2> QED
    BY <2>2 DEF Leaves, Sorted, TypeOK
<1>3. QED
  BY <1>1, <1>2 DEF Sorted, TypeOK, ProcSorted, Leaves, world, database

(* The texts that a command is given.                                      *)
LEMMA TargetsTyped ==
  ASSUME NEW targets \in CommandTargets
  PROVE  /\ targets \in Seq(Target)
         /\ targets # <<>>
         /\ \A i \in DOMAIN targets : targets[i] \in Text \cup {NotACidr}
<1>1. PICK n \in 1..MaxTargets : targets \in [1..n -> Target]
  BY DEF CommandTargets
<1>2. n \in Nat /\ n # 0
  BY <1>1, CommandsAssumption
<1>3. targets \in Seq(Target) /\ Len(targets) = n /\ DOMAIN targets = 1..n
  BY <1>1, <1>2, SeqDef, LenProperties
<1>4. targets # <<>>
  BY <1>2, <1>3, EmptySeq
<1>5. \A i \in DOMAIN targets : targets[i] \in Target
  BY <1>1, <1>3
<1>6. QED
  BY <1>3, <1>4, <1>5, ConstantsTyped

(* insert_subnet adds a text that the built-in policy accepts, or nothing. *)
Grown == \A i \in DOMAIN subnet : i \in DOMAIN subnet' /\ subnet'[i] = subnet[i]

LEMMA StoreGrows ==
  ASSUME subnet \in Seq(SubnetRow), NEW text, text = NotACidr \/ text \in Text,
         NEW via \in {"target", "ip"}, Store(text, via)
  PROVE  /\ subnet' \in Seq(SubnetRow)
         /\ Grown
         /\ \/ subnet' = subnet
            \/ /\ Suits(text) /\ text \in Text
               /\ DOMAIN subnet' = DOMAIN subnet \cup {Len(subnet) + 1}
               /\ subnet'[Len(subnet) + 1] = [cidr |-> text, via |-> via]
               /\ \A i \in DOMAIN subnet : subnet[i].cidr # text
<1> DEFINE row == [cidr |-> text, via |-> via]
<1>1. CASE subnet' = subnet
  BY <1>1 DEF Grown
<1>2. CASE subnet' # subnet
  <2>1. /\ Suits(text) /\ subnet' = Append(subnet, row)
        /\ \A i \in DOMAIN subnet : subnet[i].cidr # text
    BY <1>2 DEF Store, Inserted
  <2>2. text \in Text
    BY <2>1 DEF Suits, Accepts
  <2>3. row \in SubnetRow
    BY <2>2 DEF SubnetRow
  <2> HIDE DEF row
  <2>4. /\ subnet' \in Seq(SubnetRow) /\ Len(subnet') = Len(subnet) + 1
        /\ subnet'[Len(subnet) + 1] = row /\ Len(subnet) \in Nat
        /\ \A i \in 1..Len(subnet) : subnet'[i] = subnet[i]
    BY <2>1, <2>3, AppendProperties
  <2>5. DOMAIN subnet = 1..Len(subnet) /\ DOMAIN subnet' = 1..Len(subnet')
    BY <2>4
  <2>6. DOMAIN subnet' = DOMAIN subnet \cup {Len(subnet) + 1} /\ Grown
    BY <2>4, <2>5 DEF Grown
  <2> QED
    BY <2>1, <2>2, <2>4, <2>6 DEF row
<1>3. QED
  BY <1>1, <1>2

(* What `ip` tells becomes the text of a network without host bits.        *)
LEMMA DetectedTyped ==
  ASSUME TypeOK
  PROVE  Detected = NotACidr \/ (Detected \in Text /\ ~HasHostBits(Detected))
<1>1. plug = NotACidr \/ plug \in Text
  BY ConstantsTyped DEF TypeOK
<1>2. QED
  BY <1>1, ShownHasNoHostBits DEF Detected

(* The networks that a scan is given.                                      *)
LEMMA TickTargetsTyped ==
  ASSUME TypeOK, NEW p \in Process
  PROVE  /\ TickTargets(p) \subseteq Text
         /\ {Masked(t) : t \in TickTargets(p)} \subseteq Network
<1>1. \A i \in DOMAIN subnet : subnet[i] \in SubnetRow
  BY DEF TypeOK
<1>2. TickTargets(p) \subseteq Text
  BY <1>1 DEF TickTargets, Parsable, SubnetRow
<1>3. QED
  BY <1>2, MaskedIsNetwork

LEMMA GivenTyped ==
  ASSUME NEW targets \in CommandTargets, NEW policy, NEW confirm, NEW override,
         \A i \in DOMAIN targets : Accepts(targets[i], policy, confirm, 0, override)
  PROVE  /\ \A i \in DOMAIN targets : targets[i] \in Text
         /\ {Masked(targets[i]) : i \in DOMAIN targets} \subseteq Network
<1>1. \A i \in DOMAIN targets : targets[i] \in Text
  BY TargetsTyped DEF Accepts
<1>2. QED
  BY <1>1, MaskedIsNetwork

(* A process that has a database goes on with what x says of it.           *)
LEMMA ReadySorts ==
  ASSUME Sorted, NEW p \in Process
  PROVE  /\ Ready(p) \in Proc
         /\ Ready(p).pc = "starting"
         /\ Ready(p).todo = proc[p].todo
         /\ Ready(p).row = proc[p].row /\ Ready(p).phase = proc[p].phase
<1> DEFINE y == [proc[p] EXCEPT !.pc = "starting"]
<1>1. proc[p] \in Proc
  BY DEF Sorted, ProcSorted
<1>2. y \in Proc /\ y.pc = "starting" /\ y.todo = proc[p].todo
      /\ y.row = proc[p].row /\ y.phase = proc[p].phase
  BY <1>1 DEF Proc
<1>3. Ready(p) = [y EXCEPT !.loop = TRUE]
  BY DEF Ready
<1> HIDE DEF y
<1>4. QED
  BY <1>2, <1>3 DEF Proc

-----------------------------------------------------------------------------
LEMMA SortedInit == Init => Sorted
<1> SUFFICES ASSUME Init PROVE Sorted
  OBVIOUS
<1>1. /\ subnet = <<>> /\ scan = <<>> /\ subnet \in Seq(SubnetRow) /\ scan \in Seq(Row)
      /\ Len(scan) = 0
  BY EmptySeq DEF Init
<1>2. proc = [p \in Process |-> Idle] /\ proc \in [Process -> Proc]
  BY ConstantsTyped DEF Init
<1>3. \A p \in Process : proc[p] = Idle
  BY <1>2
<1>4. ProcSorted
  <2>1. Idle.row = 0 /\ Idle.pc = "idle" /\ Idle.phase = "none" /\ 0 \in 0..Len(scan)
    BY <1>1 DEF Idle
  <2>2. Still /\ Opened /\ Loaded /\ Phased /\ \A p \in Process : proc[p].row \in 0..Len(scan)
    BY <1>3, <2>1 DEF Still, Opened, Loaded, Phased
  <2> QED
    BY <1>2, <2>2 DEF ProcSorted
<1>5. 0 \in 0..MaxCommands /\ 0 \in 0..MaxEdits
  BY CommandsAssumption
<1>6. TypeOK
  BY <1>1, <1>4, <1>5 DEF TypeOK, Init, ProcSorted
<1>7. QED
  BY <1>4, <1>6 DEF Sorted

LEMMA SortedEdit ==
  ASSUME Sorted, Edit
  PROVE  Sorted'
<1>1. ProcSorted'
  BY ProcStays DEF Edit, database
<1>2. config' \in [file : {"absent", "broken", "valid"}, setting : Setting \cup {Default}]
  BY DEF Edit, Sorted, TypeOK
<1>3. plug' \in Plug /\ edits' \in 0..MaxEdits
  BY CommandsAssumption DEF Edit, Sorted, TypeOK
<1>4. QED
  BY <1>1, <1>2, <1>3 DEF Sorted, TypeOK, ProcSorted, Edit, database

LEMMA LoadConfigTyped ==
  ASSUME TypeOK, LoadConfig
  PROVE  config' \in [file : {"absent", "broken", "valid"}, setting : Setting \cup {Default}]
  BY DEF TypeOK, LoadConfig

LEMMA StartsTyped ==
  ASSUME TypeOK, NEW p \in Process, Starts(p)
  PROVE  /\ commands' \in 0..MaxCommands
         /\ plug' = plug /\ edits' = edits
  BY CommandsAssumption DEF TypeOK, Starts

LEMMA SortedFiles ==
  ASSUME Sorted, NEW p \in Process, ConfigShow(p) \/ Migrate(p)
  PROVE  Sorted'
<1>1. ProcSorted'
  BY ProcStays DEF ConfigShow, Migrate, OpenStorage, database
<1>2. CASE ConfigShow(p)
  BY <1>1, <1>2, LoadConfigTyped DEF ConfigShow, Sorted, TypeOK, ProcSorted, database
<1>3. CASE Migrate(p)
  BY <1>1, <1>3 DEF Migrate, Sorted, TypeOK, ProcSorted, OpenStorage, world
<1>4. QED
  BY <1>2, <1>3

LEMMA SortedReset ==
  ASSUME Sorted, NEW p \in Process, Reset(p)
  PROVE  Sorted'
<1>1. /\ proc' = proc /\ scan' = <<>> /\ subnet' = <<>> /\ orphans' = {} /\ config' = config
      /\ exists' = FALSE
  BY DEF Reset
<1>2. \A q \in Process : proc[q] = Idle
  BY DEF Sorted, ProcSorted, Still, Reset
<1>3. scan' \in Seq(Row) /\ subnet' \in Seq(SubnetRow) /\ Len(scan') = 0
  BY <1>1, EmptySeq
<1>4. ProcSorted'
  <2>1. \A q \in Process : proc'[q] = Idle
    BY <1>1, <1>2
  <2>2. proc' \in [Process -> Proc] /\ 0 \in 0..Len(scan')
    BY <1>1, <1>3 DEF Sorted, ProcSorted
  <2> QED
    BY <2>1, <2>2 DEF ProcSorted, Still, Opened, Loaded, Phased, Idle
<1>5. Starts(p)
  BY DEF Reset
<1>6. TypeOK'
  BY <1>1, <1>3, <1>4, <1>5, StartsTyped DEF Sorted, TypeOK, ProcSorted
<1>7. QED
  BY <1>4, <1>6 DEF Sorted

LEMMA SortedScanCommand ==
  ASSUME Sorted, NEW p \in Process, ScanCommand(p)
  PROVE  Sorted'
<1>1. /\ commands' \in 0..MaxCommands /\ plug' = plug /\ edits' = edits
      /\ config' \in [file : {"absent", "broken", "valid"}, setting : Setting \cup {Default}]
      /\ subnet' = subnet /\ orphans' = orphans
  BY StartsTyped, LoadConfigTyped DEF ScanCommand, Sorted
<1>2. ASSUME UNCHANGED <<exists, scan, proc>>
      PROVE  Sorted'
  <2>1. ProcSorted'
    BY <1>2, ProcStays
  <2> QED
    BY <1>1, <1>2, <2>1 DEF Sorted, TypeOK, ProcSorted
<1>3. ASSUME NEW targets \in CommandTargets, NEW confirm \in BOOLEAN,
             NEW override \in BOOLEAN,
             \A i \in DOMAIN targets :
               Accepts(targets[i], config.setting.policy, confirm, 0, override),
             OpenStorage,
             OpensRow(p, [Idle EXCEPT !.pc = "scanning", !.policy = config.setting.policy],
                      "cli", {Masked(targets[i]) : i \in DOMAIN targets},
                      confirm, override)
      PROVE  Sorted'
  <2> DEFINE after == [Idle EXCEPT !.pc = "scanning", !.policy = config.setting.policy]
             nets  == {Masked(targets[i]) : i \in DOMAIN targets}
  <2>1. after = [pc |-> "scanning", policy |-> config.setting.policy, todo |-> <<>>,
                 loop |-> FALSE, row |-> 0, phase |-> "none"]
    <3>1. [Idle EXCEPT !.pc = "scanning"] =
            [pc |-> "scanning", policy |-> BuiltIn, todo |-> <<>>, loop |-> FALSE,
             row |-> 0, phase |-> "none"]
      BY IdleWith
    <3>2. after = [[Idle EXCEPT !.pc = "scanning"] EXCEPT !.policy = config.setting.policy]
      OBVIOUS
    <3> HIDE DEF after
    <3> QED
      BY <3>1, <3>2
  <2>2. nets \in SUBSET Network
    BY <1>3, GivenTyped
  <2>3. OpensRow(p, after, "cli", nets, confirm, override)
    BY <1>3
  <2> HIDE DEF after, nets
  <2>4. after \in Proc
    BY <2>1, PolicyTyped, EmptySeq DEF Proc, Sorted
  <2>5. after.pc # "idle" /\ (after.pc = "override" => after.todo # <<>>) /\ exists'
    BY <2>1, <1>3 DEF OpenStorage
  <2>6. /\ ProcSorted' /\ scan' \in Seq(Row)
        /\ Len(scan') = Len(scan) + 1 /\ Len(scan) \in Nat
    BY <2>2, <2>3, <2>4, <2>5, OpensRowSorts
  <2>7. 1..Len(scan) \subseteq 1..Len(scan')
    BY <2>6
  <2> QED
    BY <1>1, <2>5, <2>6, <2>7, <1>3 DEF Sorted, TypeOK, ProcSorted, OpenStorage
<1>4. QED
  BY <1>2, <1>3 DEF ScanCommand

LEMMA SortedUp ==
  ASSUME Sorted, NEW p \in Process, Up(p)
  PROVE  Sorted'
<1>1. /\ commands' \in 0..MaxCommands /\ plug' = plug /\ edits' = edits
      /\ config' \in [file : {"absent", "broken", "valid"}, setting : Setting \cup {Default}]
      /\ UNCHANGED <<subnet, scan, orphans>>
  BY StartsTyped, LoadConfigTyped DEF Up, Sorted
<1>2. ASSUME UNCHANGED <<exists, proc>>
      PROVE  Sorted'
  <2>1. ProcSorted'
    BY <1>1, <1>2, ProcStays
  <2> QED
    BY <1>1, <1>2, <2>1 DEF Sorted, TypeOK, ProcSorted
<1>3. ASSUME NEW targets \in {<<>>} \cup CommandTargets, OpenStorage,
             proc' = [proc EXCEPT ![p] =
                        [Idle EXCEPT !.pc = IF targets = <<>> THEN "check" ELSE "override",
                                     !.policy = config.setting.policy,
                                     !.todo = targets]]
      PROVE  Sorted'
  <2> DEFINE pc == IF targets = <<>> THEN "check" ELSE "override"
             x  == [Idle EXCEPT !.pc = pc, !.policy = config.setting.policy,
                                !.todo = targets]
  <2>1. x = [pc |-> pc, policy |-> config.setting.policy, todo |-> targets,
             loop |-> FALSE, row |-> 0, phase |-> "none"]
    <3> DEFINE y == [Idle EXCEPT !.pc = pc]
               z == [y EXCEPT !.policy = config.setting.policy]
    <3>1. x = [z EXCEPT !.todo = targets]
      OBVIOUS
    <3>2. y = [pc |-> pc, policy |-> BuiltIn, todo |-> <<>>, loop |-> FALSE,
               row |-> 0, phase |-> "none"]
      BY IdleWith
    <3> HIDE DEF x, y
    <3>4. y \in Proc
      BY <3>2, ConstantsTyped, EmptySeq DEF Proc
    <3> HIDE DEF pc
    <3>3. z = [pc |-> pc, policy |-> config.setting.policy, todo |-> <<>>,
               loop |-> FALSE, row |-> 0, phase |-> "none"]
      BY <3>2, <3>4, ProcFields
    <3> HIDE DEF z
    <3> QED
      BY <3>1, <3>3
  <2>2. proc' = [proc EXCEPT ![p] = x]
    BY <1>3
  <2> HIDE DEF x
  <2>3. targets \in Seq(Target) /\ Len(scan) \in Nat /\ scan' = scan /\ exists'
    BY <1>1, <1>3, TargetsTyped, EmptySeq DEF OpenStorage, Sorted, TypeOK
  <2>4. x \in Proc
    BY <2>1, <2>3, PolicyTyped DEF Proc, Sorted
  <2>5. Fits(x)
    BY <2>1, <2>3, <2>4 DEF Fits
  <2>6. Len(scan') \in Nat /\ Len(scan) <= Len(scan') /\ (exists => exists')
    BY <2>3
  <2>7. ProcSorted'
    BY <2>2, <2>3, <2>5, <2>6, ProcMoves, Zenon
  <2> QED
    BY <1>1, <2>3, <2>7 DEF Sorted, TypeOK, ProcSorted
<1>4. QED
  BY <1>2, <1>3 DEF Up

LEMMA SortedOverride ==
  ASSUME Sorted, NEW p \in Process, Override(p)
  PROVE  Sorted'
<1> DEFINE todo == proc[p].todo
           rest == Tail(todo)
           base == IF rest = <<>> THEN Ready(p) ELSE proc[p]
           x    == [base EXCEPT !.todo = rest]
<1>1. /\ todo \in Seq(Target) /\ todo # <<>> /\ proc[p] \in Proc /\ exists = TRUE
      /\ proc[p].pc = "override"
  BY DEF Override, Sorted, ProcSorted, Loaded, Opened, Proc, TypeOK
<1>2. rest \in Seq(Target) /\ Head(todo) \in Target
  BY <1>1, HeadTailProperties
<1>3. subnet' \in Seq(SubnetRow)
  <2>1. Head(todo) = NotACidr \/ Head(todo) \in Text
    BY <1>2, ConstantsTyped
  <2> QED
    BY <2>1, StoreGrows DEF Override, Sorted, TypeOK
<1>4. UNCHANGED <<world, exists, scan, orphans, commands>> /\ Len(scan) \in Nat
  BY DEF Override, Sorted, TypeOK
<1>5. proc' = [proc EXCEPT ![p] = x]
  BY <1>1 DEF Override, Sorted, ProcSorted
<1> HIDE DEF rest
<1>6. /\ base \in Proc /\ base.row = proc[p].row /\ base.phase = proc[p].phase
      /\ base.pc = "starting" \/ (base.pc = "override" /\ rest # <<>>)
  BY <1>1, ReadySorts
<1> HIDE DEF base
<1>7. /\ x \in Proc /\ x.row = proc[p].row /\ x.phase = proc[p].phase
      /\ x.todo = rest /\ x.pc = base.pc
  BY <1>2, <1>6 DEF Proc
<1> HIDE DEF x
<1>8. x.row \in 0..Len(scan') /\ (x.row = 0 <=> x.phase = "none")
  BY <1>4, <1>7 DEF Sorted, ProcSorted, Phased
<1>9. Fits(x)
  BY <1>1, <1>4, <1>6, <1>7, <1>8 DEF Fits
<1>10. Len(scan') \in Nat /\ Len(scan) <= Len(scan') /\ (exists => exists')
  BY <1>4
<1>11. ProcSorted'
  BY <1>4, <1>5, <1>9, <1>10, ProcMoves, Zenon
<1>12. QED
  BY <1>1, <1>3, <1>4, <1>11 DEF Sorted, TypeOK, ProcSorted, world

(* The steps of a process that keep its row.                               *)
LEMMA ProcGoesOn ==
  ASSUME Sorted, NEW p \in Process, NEW x, x \in Proc,
         proc' = [proc EXCEPT ![p] = x], UNCHANGED <<scan, exists>>,
         x.row = proc[p].row, x.phase = "none" <=> proc[p].phase = "none",
         x.pc # "idle", x.pc # "override" \/ x.todo = proc[p].todo,
         x.pc = proc[p].pc \/ (x.pc # "override" /\ proc[p].pc # "idle")
  PROVE  ProcSorted'
<1>1. Len(scan') \in Nat /\ Len(scan) \in Nat /\ Len(scan) <= Len(scan') /\ (exists => exists')
  BY DEF Sorted, TypeOK
<1>2. x.row \in 0..Len(scan') /\ (x.row = 0 <=> x.phase = "none")
  BY DEF Sorted, ProcSorted, Phased
<1>3. proc[p].pc # "idle" /\ exists'
  BY DEF Sorted, ProcSorted, Opened
<1>4. x.pc = "override" => x.todo # <<>>
  BY DEF Sorted, ProcSorted, Loaded
<1>5. Fits(x)
  BY <1>2, <1>3, <1>4 DEF Fits
<1>6. QED
  BY <1>1, <1>5, ProcMoves, Zenon

LEMMA SortedStarting ==
  ASSUME Sorted, NEW p \in Process,
         CheckEmpty(p) \/ Detect(p) \/ Bind(p) \/ TickCrash(p) \/ Collect(p)
  PROVE  Sorted'
<1>1. proc[p] \in Proc /\ proc[p].pc # "idle"
  <2>1. Idle.phase = "none" /\ Idle.loop = FALSE
    BY DEF Idle
  <2> QED
    BY <2>1 DEF CheckEmpty, Detect, Bind, TickCrash, Collect, Sorted, ProcSorted, Still
<1>2. UNCHANGED <<world, exists, scan, orphans, commands>>
  BY DEF CheckEmpty, Detect, Bind, TickCrash, Collect, database
<1>3. exists = TRUE
  BY <1>1 DEF Sorted, ProcSorted, Opened, TypeOK
<1>4. PICK x :
        /\ x \in Proc /\ proc' = [proc EXCEPT ![p] = x]
        /\ x.row = proc[p].row /\ (x.phase = "none" <=> proc[p].phase = "none")
        /\ x.pc # "idle"
        /\ x.todo = proc[p].todo
        /\ x.pc = proc[p].pc \/ (x.pc # "override" /\ proc[p].pc # "idle")
  <2>1. CASE (CheckEmpty(p) /\ subnet # <<>>) \/ Detect(p)
    <3>1. proc' = [proc EXCEPT ![p] = Ready(p)]
      BY <2>1 DEF CheckEmpty, Detect
    <3> QED
      BY <1>1, <3>1, ReadySorts
  <2>2. CASE CheckEmpty(p) /\ ~(subnet # <<>>)
    <3> DEFINE x == [proc[p] EXCEPT !.pc = "detect"]
    <3>1. proc' = [proc EXCEPT ![p] = x]
      BY <2>2 DEF CheckEmpty, Sorted, ProcSorted
    <3>2. x \in Proc /\ x.row = proc[p].row /\ x.phase = proc[p].phase
          /\ x.pc = "detect" /\ x.todo = proc[p].todo
      BY <1>1 DEF Proc
    <3> HIDE DEF x
    <3> QED
      BY <1>1, <3>1, <3>2
  <2>3. CASE Bind(p)
    <3> DEFINE x == [proc[p] EXCEPT !.pc = "serving"]
    <3>1. proc' = [proc EXCEPT ![p] = x]
      BY <2>3 DEF Bind, Sorted, ProcSorted
    <3>2. x \in Proc /\ x.row = proc[p].row /\ x.phase = proc[p].phase
          /\ x.pc = "serving" /\ x.todo = proc[p].todo
      BY <1>1 DEF Proc
    <3> HIDE DEF x
    <3> QED
      BY <1>1, <3>1, <3>2
  <2>4. CASE TickCrash(p)
    <3> DEFINE x == [proc[p] EXCEPT !.loop = FALSE]
    <3>1. proc' = [proc EXCEPT ![p] = x]
      BY <2>4 DEF TickCrash, Sorted, ProcSorted
    <3>2. x \in Proc /\ x.row = proc[p].row /\ x.phase = proc[p].phase
          /\ x.pc = proc[p].pc /\ x.todo = proc[p].todo
      BY <1>1 DEF Proc
    <3> HIDE DEF x
    <3> QED
      BY <1>1, <3>1, <3>2
  <2>5. CASE Collect(p)
    <3> DEFINE x == [proc[p] EXCEPT !.phase = "store"]
    <3>1. proc' = [proc EXCEPT ![p] = x] /\ proc[p].phase = "collect"
      BY <2>5 DEF Collect, Sorted, ProcSorted
    <3>2. x \in Proc /\ x.row = proc[p].row /\ x.phase = "store"
          /\ x.pc = proc[p].pc /\ x.todo = proc[p].todo
      BY <1>1 DEF Proc
    <3> HIDE DEF x
    <3> QED
      BY <1>1, <3>1, <3>2
  <2> QED
    BY <2>1, <2>2, <2>3, <2>4, <2>5
<1>5. ProcSorted'
  BY <1>2, <1>4, ProcGoesOn, Zenon
<1>6. subnet' \in Seq(SubnetRow)
  <2>1. CASE Detect(p)
    BY <2>1, DetectedTyped, StoreGrows DEF Detect, Sorted, TypeOK
  <2>2. CASE ~Detect(p)
    BY <2>2 DEF CheckEmpty, Bind, TickCrash, Collect, database, Sorted, TypeOK
  <2> QED
    BY <2>1, <2>2
<1>7. QED
  BY <1>2, <1>3, <1>5, <1>6 DEF Sorted, TypeOK, ProcSorted, world

LEMMA SortedTick ==
  ASSUME Sorted, NEW p \in Process, Tick(p)
  PROVE  Sorted'
<1> DEFINE nets == {Masked(t) : t \in TickTargets(p)}
<1>1. proc[p] \in Proc /\ proc[p].pc # "idle"
  BY IdleFields DEF Tick, Sorted, ProcSorted, Still
<1>2. proc[p].pc = "override" => proc[p].todo # <<>>
  BY DEF Sorted, ProcSorted, Loaded
<1>3. exists = TRUE /\ exists' = exists
  BY <1>1 DEF Tick, Sorted, ProcSorted, Opened, TypeOK
<1>4. nets \in SUBSET Network /\ OpensRow(p, proc[p], "loop", nets, FALSE, FALSE)
  BY TickTargetsTyped DEF Sorted, Tick
<1> HIDE DEF nets
<1>5. /\ ProcSorted' /\ scan' \in Seq(Row)
      /\ Len(scan') = Len(scan) + 1 /\ Len(scan) \in Nat
  BY <1>1, <1>2, <1>3, <1>4, OpensRowSorts
<1>6. 1..Len(scan) \subseteq 1..Len(scan')
  BY <1>5
<1>7. UNCHANGED <<world, subnet, orphans, commands>>
  BY DEF Tick
<1>8. QED
  BY <1>3, <1>5, <1>6, <1>7 DEF Sorted, TypeOK, ProcSorted, world

(* The ways a scan ends while its process is there.                        *)
Ends(p) == (\E status \in {"ok", "error"} : Finishes(p, status)) \/ Abandons(p)

LEMMA ScanEnds ==
  ASSUME NEW p \in Process,
         TaskFails(p) \/ ScannerFails(p) \/ StatementRaises(p) \/ Finish(p)
  PROVE  Ends(p) /\ UNCHANGED <<world, exists, subnet, commands>> /\ proc[p].phase # "none"
  BY DEF TaskFails, ScannerFails, StatementRaises, Finish, RecordsError, Ends

LEMMA SortedFinish ==
  ASSUME Sorted, NEW p \in Process, Ends(p),
         UNCHANGED <<world, exists, subnet, commands>>, proc[p].phase # "none"
  PROVE  Sorted'
<1>1. exists = TRUE
  BY IdleFields DEF Sorted, ProcSorted, Opened, Still, TypeOK
<1>2. CASE \E status \in {"ok", "error"} : Finishes(p, status)
  <2>1. /\ ProcSorted' /\ scan' \in Seq(Row)
        /\ Len(scan') = Len(scan)
    BY <1>2, FinishesSorts
  <2>2. orphans' = orphans
    BY <1>2 DEF Finishes
  <2> QED
    BY <1>1, <2>1, <2>2 DEF Sorted, TypeOK, ProcSorted, world
<1>3. CASE Abandons(p)
  <2>1. proc[p].row \in 1..Len(scan)
    <3>1. proc[p].row \in 0..Len(scan) /\ proc[p].row # 0 /\ Len(scan) \in Nat
      BY DEF Sorted, ProcSorted, Phased, TypeOK
    <3> QED
      BY <3>1
  <2>2. ProcSorted' /\ scan' = scan
    BY <1>3, RestSorts DEF Abandons
  <2>3. orphans' \in SUBSET (1..Len(scan'))
    BY <1>3, <2>1, <2>2 DEF Abandons, Sorted, TypeOK
  <2> QED
    BY <1>1, <2>2, <2>3 DEF Sorted, TypeOK, ProcSorted, world
<1>4. QED
  BY <1>2, <1>3 DEF Ends

-----------------------------------------------------------------------------
LEMMA SortedStep ==
  ASSUME Sorted, [Next]_vars
  PROVE  Sorted'
<1>1. CASE Edit
  BY <1>1, SortedEdit
<1>2. CASE \E p \in Process : ConfigShow(p) \/ Migrate(p)
  BY <1>2, SortedFiles
<1>3. CASE \E p \in Process : Reset(p)
  BY <1>3, SortedReset
<1>4. CASE \E p \in Process : ScanCommand(p)
  BY <1>4, SortedScanCommand
<1>5. CASE \E p \in Process : Up(p)
  BY <1>5, SortedUp
<1>6. CASE \E p \in Process : Override(p)
  BY <1>6, SortedOverride
<1>7. CASE \E p \in Process :
             CheckEmpty(p) \/ Detect(p) \/ Bind(p) \/ TickCrash(p) \/ Collect(p)
  BY <1>7, SortedStarting
<1>8. CASE \E p \in Process : PortTaken(p) \/ Quit(p)
  BY <1>8, LeavesSorts DEF PortTaken, Quit
<1>9. CASE \E p \in Process : Tick(p)
  BY <1>9, SortedTick
<1>10. CASE \E p \in Process :
              TaskFails(p) \/ ScannerFails(p) \/ StatementRaises(p) \/ Finish(p)
  BY <1>10, ScanEnds, SortedFinish
<1>11. CASE UNCHANGED vars
  BY <1>11 DEF vars, world, database, Sorted, TypeOK, ProcSorted, Still, Opened,
               Loaded, Phased
<1>12. QED
  BY <1>1, <1>2, <1>3, <1>4, <1>5, <1>6, <1>7, <1>8, <1>9, <1>10, <1>11 DEF Next

LEMMA AlwaysSorted == Spec => []Sorted
  BY SortedInit, SortedStep, PTL DEF Spec

(* Every variable keeps its type.                                          *)
THEOREM TypeCorrect == Spec => []TypeOK
<1>1. Sorted => TypeOK
  BY DEF Sorted
<1>2. QED
  BY <1>1, AlwaysSorted, PTL

-----------------------------------------------------------------------------
(* The subnet table.  Only two actions store a text, only a reset takes a  *)
(* row away.                                                               *)
LEMMA SubnetSteps ==
  ASSUME Sorted, [Next]_vars
  PROVE  \/ UNCHANGED subnet
         \/ subnet' = <<>> /\ ~exists'
         \/ \E text \in Text \cup {NotACidr}, via \in {"target", "ip"} :
              Store(text, via) /\ (via = "ip" => text = NotACidr \/ ~HasHostBits(text))
<1>1. ASSUME NEW p \in Process, Override(p)
      PROVE  \E text \in Text \cup {NotACidr} : Store(text, "target")
  <2>1. proc[p].todo \in Seq(Target) /\ proc[p].todo # <<>>
    BY <1>1 DEF Override, Sorted, ProcSorted, Loaded, Proc
  <2>2. Head(proc[p].todo) \in Target
    BY <2>1, HeadTailProperties
  <2> QED
    BY <1>1, <2>2, ConstantsTyped DEF Override
<1>2. ASSUME NEW p \in Process, Detect(p)
      PROVE  \E text \in Text \cup {NotACidr} :
               Store(text, "ip") /\ (text = NotACidr \/ ~HasHostBits(text))
  BY <1>2, DetectedTyped DEF Detect, Sorted
<1>3. ASSUME NEW p \in Process, Reset(p)
      PROVE  subnet' = <<>> /\ ~exists'
  BY <1>3 DEF Reset
<1>4. CASE \E p \in Process :
             \/ ConfigShow(p) \/ Migrate(p) \/ ScanCommand(p) \/ Up(p)
             \/ CheckEmpty(p) \/ Bind(p) \/ PortTaken(p) \/ Tick(p) \/ TickCrash(p)
             \/ Collect(p) \/ TaskFails(p) \/ ScannerFails(p) \/ StatementRaises(p)
             \/ Finish(p) \/ Quit(p)
  BY <1>4 DEF ConfigShow, Migrate, ScanCommand, Up, CheckEmpty, Bind, PortTaken,
              Tick, TickCrash, Collect, TaskFails, ScannerFails, StatementRaises,
              Finish, Quit, Leaves, database
<1>5. CASE Edit \/ UNCHANGED vars
  BY <1>5 DEF Edit, vars, database
<1>6. QED
  BY <1>1, <1>2, <1>3, <1>4, <1>5 DEF Next

LEMMA SubnetsGrow ==
  ASSUME Sorted, [Next]_vars, exists'
  PROVE  Grown
<1>1. CASE UNCHANGED subnet
  BY <1>1 DEF Grown
<1>2. CASE \E text \in Text \cup {NotACidr}, via \in {"target", "ip"} : Store(text, via)
  BY <1>2, StoreGrows DEF Sorted, TypeOK
<1>3. QED
  BY <1>1, <1>2, SubnetSteps

(* As long as the database is there a row of the subnet table keeps its id *)
(* and its content, whichever commands and servers run.                    *)
THEOREM IdsAreStable == Spec => RowsKeepTheirIds
<1>1. Sorted /\ [Next]_vars => [exists' => Grown]_vars
  BY SubnetsGrow
<1>2. QED
  BY <1>1, AlwaysSorted, PTL DEF Spec, RowsKeepTheirIds, Grown

LEMMA SoundStep ==
  ASSUME Sorted, [Next]_vars, SubnetsAreSound
  PROVE  SubnetsAreSound'
<1>1. CASE UNCHANGED subnet
  BY <1>1 DEF SubnetsAreSound
<1>2. CASE subnet' = <<>>
  BY <1>2 DEF SubnetsAreSound
<1>3. ASSUME NEW text \in Text \cup {NotACidr}, NEW via \in {"target", "ip"},
             Store(text, via), via = "ip" => text = NotACidr \/ ~HasHostBits(text)
      PROVE  SubnetsAreSound'
  <2>1. CASE subnet' = subnet
    BY <2>1 DEF SubnetsAreSound
  <2> DEFINE n == Len(subnet) + 1
  <2>2. ASSUME /\ Suits(text) /\ text \in Text
               /\ DOMAIN subnet' = DOMAIN subnet \cup {n}
               /\ subnet'[n] = [cidr |-> text, via |-> via]
               /\ \A i \in DOMAIN subnet : subnet[i].cidr # text
               /\ Grown
        PROVE  SubnetsAreSound'
    <3> HIDE DEF n
    <3>1. text # NotACidr
      BY <2>2 DEF Suits, Accepts
    <3>2. subnet'[n].cidr = text /\ subnet'[n].via = via
      BY <2>2
    <3>3. \A i \in DOMAIN subnet : i \in DOMAIN subnet' /\ subnet'[i] = subnet[i]
      BY <2>2 DEF Grown
    <3>4. ASSUME NEW i \in DOMAIN subnet'
          PROVE  /\ Suits(subnet'[i].cidr)
                 /\ HasHostBits(subnet'[i].cidr) => subnet'[i].via = "target"
      BY <1>3, <2>2, <3>1, <3>2, <3>3 DEF SubnetsAreSound
    <3>5. ASSUME NEW i \in DOMAIN subnet', NEW j \in DOMAIN subnet',
                 subnet'[i].cidr = subnet'[j].cidr
          PROVE  i = j
      BY <2>2, <3>2, <3>3, <3>5 DEF SubnetsAreSound
    <3> QED
      BY <3>4, <3>5 DEF SubnetsAreSound, Suits
  <2>3. QED
    BY <1>3, <2>1, <2>2, StoreGrows DEF Sorted, TypeOK
<1>4. QED
  BY <1>1, <1>2, <1>3, SubnetSteps

(* Every row is a network that the built-in policy accepts, has a text of  *)
(* its own, and can be parsed by the loop unless a user wrote it.          *)
THEOREM SubnetTableIsSound == Spec => []SubnetsAreSound
<1>1. Init => SubnetsAreSound
  BY DEF Init, SubnetsAreSound
<1>2. QED
  BY <1>1, SoundStep, AlwaysSorted, PTL DEF Spec

-----------------------------------------------------------------------------
(* The scan table.  A scan is given what validate_target accepted, under   *)
(* the policy and with the consent that its row tells.                     *)
Asked(row) ==
  /\ \A net \in row.nets : \E t \in Text :
       net = Masked(t) /\ Accepts(t, row.policy, row.confirm, 0, row.override)
  /\ row.source = "loop" => ~row.confirm

(* What a step does to the rows and to those who have them.                *)
OthersKeep(p) == \A q \in Process \ {p} : proc'[q].row = proc[q].row

KeepsRows ==
  UNCHANGED <<scan, orphans>> /\ \A q \in Process : proc'[q].row = proc[q].row

Empties ==
  scan' = <<>> /\ orphans' = {} /\ \A q \in Process : proc'[q].row = 0

Opens(p) ==
  /\ OthersKeep(p) /\ UNCHANGED orphans
  /\ proc[p].row = 0 /\ proc'[p].row = Len(scan) + 1
  /\ \E row \in Row : /\ row.status = "running" /\ Asked(row)
                      /\ scan' = Append(scan, row)

Closes(p) ==
  /\ OthersKeep(p) /\ UNCHANGED orphans
  /\ proc[p].row # 0 /\ proc'[p].row = 0
  /\ \E status \in {"ok", "error"} : scan' = [scan EXCEPT ![proc[p].row].status = status]

Drops(p) ==
  /\ OthersKeep(p) /\ UNCHANGED scan
  /\ proc'[p].row = 0
  /\ orphans' = orphans \cup ({proc[p].row} \ {0})

LEMMA OpensRowOpens ==
  ASSUME Sorted, NEW p \in Process, NEW after \in Proc,
         NEW source \in {"cli", "loop"}, NEW nets \in SUBSET Network,
         NEW confirm \in BOOLEAN, NEW override \in BOOLEAN,
         OpensRow(p, after, source, nets, confirm, override),
         proc[p].row = 0, UNCHANGED orphans,
         source = "loop" => ~confirm,
         \A net \in nets : \E t \in Text :
           net = Masked(t) /\ Accepts(t, after.policy, confirm, 0, override)
  PROVE  Opens(p)
<1> DEFINE row == [source |-> source, nets |-> nets, policy |-> after.policy,
                   confirm |-> confirm, override |-> override, status |-> "running"]
           y   == [after EXCEPT !.row = Len(scan) + 1]
           x   == [y EXCEPT !.phase = "collect"]
<1>1. row \in Row /\ row.status = "running" /\ Asked(row)
  BY DEF Row, Proc, Asked
<1>2. scan' = Append(scan, row) /\ proc' = [proc EXCEPT ![p] = x] /\ Len(scan) \in Nat
  BY DEF OpensRow, Sorted, TypeOK
<1>3. y = [pc |-> after.pc, policy |-> after.policy, todo |-> after.todo,
           loop |-> after.loop, row |-> Len(scan) + 1, phase |-> after.phase]
  BY DEF Proc
<1> HIDE DEF row, y
<1>4. x.row = Len(scan) + 1
  BY <1>3
<1> HIDE DEF x
<1>5. proc'[p].row = Len(scan) + 1 /\ OthersKeep(p)
  BY <1>2, <1>4 DEF OthersKeep, Sorted, ProcSorted
<1>6. QED
  BY <1>1, <1>2, <1>5 DEF Opens

LEMMA FinishesCloses ==
  ASSUME Sorted, NEW p \in Process, NEW status \in {"ok", "error"},
         proc[p].phase # "none", Finishes(p, status)
  PROVE  Closes(p)
<1>1. Rest(p).row = 0
  BY IdleFields DEF Rest, Sorted, ProcSorted, Proc
<1>2. proc' = [proc EXCEPT ![p] = Rest(p)] /\ proc[p].row # 0
  BY DEF Finishes, Sorted, ProcSorted, Phased
<1>3. proc'[p].row = 0 /\ OthersKeep(p)
  BY <1>1, <1>2 DEF OthersKeep, Sorted, ProcSorted
<1>4. QED
  BY <1>2, <1>3 DEF Closes, Finishes

LEMMA AbandonsDrops ==
  ASSUME Sorted, NEW p \in Process, proc[p].phase # "none", Abandons(p)
  PROVE  Drops(p)
<1>1. Rest(p).row = 0 /\ proc[p].row # 0
  BY IdleFields DEF Rest, Sorted, ProcSorted, Proc, Phased
<1>2. proc'[p].row = 0 /\ OthersKeep(p)
  BY <1>1 DEF Abandons, OthersKeep, Sorted, ProcSorted
<1>3. {proc[p].row} = {proc[p].row} \ {0}
  BY <1>1
<1>4. QED
  BY <1>2, <1>3 DEF Abandons, Drops

LEMMA IdleDrops ==
  ASSUME Sorted, NEW p \in Process, proc' = [proc EXCEPT ![p] = Idle],
         UNCHANGED scan, orphans' = orphans \cup ({proc[p].row} \ {0})
  PROVE  Drops(p)
<1>1. proc'[p].row = 0 /\ OthersKeep(p)
  BY IdleFields DEF OthersKeep, Sorted, ProcSorted
<1>2. QED
  BY <1>1 DEF Drops

LEMMA ScanCommandOpens ==
  ASSUME Sorted, NEW p \in Process, ScanCommand(p)
  PROVE  Opens(p) \/ KeepsRows
<1>1. CASE UNCHANGED <<exists, scan, proc>>
  BY <1>1 DEF ScanCommand, KeepsRows
<1>2. ASSUME NEW targets \in CommandTargets, NEW confirm \in BOOLEAN,
             NEW override \in BOOLEAN,
             \A i \in DOMAIN targets :
               Accepts(targets[i], config.setting.policy, confirm, 0, override),
             OpensRow(p, [Idle EXCEPT !.pc = "scanning", !.policy = config.setting.policy],
                      "cli", {Masked(targets[i]) : i \in DOMAIN targets},
                      confirm, override)
      PROVE  Opens(p)
  <2> DEFINE y     == [Idle EXCEPT !.pc = "scanning"]
             after == [y EXCEPT !.policy = config.setting.policy]
             nets  == {Masked(targets[i]) : i \in DOMAIN targets}
  <2>1. OpensRow(p, after, "cli", nets, confirm, override)
    BY <1>2
  <2>2. y = [pc |-> "scanning", policy |-> BuiltIn, todo |-> <<>>, loop |-> FALSE,
             row |-> 0, phase |-> "none"]
    BY IdleWith
  <2> HIDE DEF y
  <2>3. y \in Proc
    BY <2>2, ConstantsTyped, EmptySeq DEF Proc
  <2>4. after \in Proc /\ after.policy = config.setting.policy
    BY <2>3, PolicyTyped DEF Proc, Sorted
  <2> HIDE DEF after
  <2>5. nets \in SUBSET Network
    BY <1>2, GivenTyped
  <2>6. \A net \in nets : \E t \in Text :
          net = Masked(t) /\ Accepts(t, after.policy, confirm, 0, override)
    BY <1>2, <2>4, GivenTyped
  <2> HIDE DEF nets
  <2>7. proc[p].row = 0 /\ UNCHANGED orphans
    BY IdleFields DEF ScanCommand, Starts, Sorted, ProcSorted, Still
  <2> QED
    BY <2>1, <2>4, <2>5, <2>6, <2>7, OpensRowOpens
<1>3. QED
  BY <1>1, <1>2 DEF ScanCommand

LEMMA TickOpens ==
  ASSUME Sorted, NEW p \in Process, Tick(p)
  PROVE  Opens(p)
<1> DEFINE nets == {Masked(t) : t \in TickTargets(p)}
<1>1. nets \in SUBSET Network /\ TickTargets(p) \subseteq Text
  BY TickTargetsTyped DEF Sorted
<1>2. \A net \in nets : \E t \in Text :
        net = Masked(t) /\ Accepts(t, proc[p].policy, FALSE, 0, FALSE)
  BY <1>1 DEF TickTargets
<1>3. OpensRow(p, proc[p], "loop", nets, FALSE, FALSE) /\ proc[p].row = 0
      /\ UNCHANGED orphans /\ proc[p] \in Proc
  BY DEF Tick, Sorted, ProcSorted
<1> HIDE DEF nets
<1>4. QED
  BY <1>1, <1>2, <1>3, OpensRowOpens

LEMMA MovesKeepRows ==
  ASSUME Sorted, NEW p \in Process, NEW x, x.row = proc[p].row,
         proc' = [proc EXCEPT ![p] = x], UNCHANGED <<scan, orphans>>
  PROVE  KeepsRows
<1>1. proc \in [Process -> Proc]
  BY DEF Sorted, ProcSorted
<1>2. \A q \in Process : proc'[q] = IF q = p THEN x ELSE proc[q]
  BY <1>1
<1>3. QED
  BY <1>2 DEF KeepsRows

LEMMA StartKeepsRows ==
  ASSUME Sorted, NEW p \in Process,
         \/ Up(p) \/ Override(p) \/ CheckEmpty(p) \/ Detect(p) \/ Bind(p)
         \/ TickCrash(p) \/ Collect(p)
  PROVE  KeepsRows
<1>1. proc[p] \in Proc /\ proc \in [Process -> Proc]
  BY DEF Sorted, ProcSorted
<1>2. UNCHANGED <<scan, orphans>>
  BY DEF Up, Override, CheckEmpty, Detect, Bind, TickCrash, Collect, database
<1>3. CASE UNCHANGED proc
  BY <1>2, <1>3 DEF KeepsRows
<1>4. CASE proc' = [proc EXCEPT ![p] = Ready(p)]
  BY <1>2, <1>4, ReadySorts, MovesKeepRows
<1>5. CASE Up(p)
  <2>1. proc[p] = Idle
    BY <1>5 DEF Up, Starts, Sorted, ProcSorted, Still
  <2>2. ASSUME NEW targets,
               proc' = [proc EXCEPT ![p] =
                          [Idle EXCEPT !.pc = IF targets = <<>> THEN "check" ELSE "override",
                                       !.policy = config.setting.policy,
                                       !.todo = targets]]
        PROVE  KeepsRows
    <3> DEFINE x == [Idle EXCEPT !.pc = IF targets = <<>> THEN "check" ELSE "override",
                                 !.policy = config.setting.policy,
                                 !.todo = targets]
               y == [Idle EXCEPT !.pc = IF targets = <<>> THEN "check" ELSE "override"]
               z == [y EXCEPT !.policy = config.setting.policy]
    <3>1. x = [z EXCEPT !.todo = targets]
      OBVIOUS
    <3>2. y.row = 0 /\ y.todo = <<>> /\ DOMAIN y = DOMAIN Idle
      BY IdleFields
    <3> HIDE DEF x, y
    <3>3. z.row = 0 /\ DOMAIN z = DOMAIN Idle
      BY <3>2
    <3> HIDE DEF z
    <3>4. x.row = proc[p].row
      BY <3>1, <3>3, <2>1, IdleFields
    <3>5. proc' = [proc EXCEPT ![p] = x]
      BY <2>2 DEF x
    <3> QED
      BY <1>2, <3>4, <3>5, MovesKeepRows
  <2> QED
    BY <1>3, <1>5, <2>2 DEF Up
<1>6. CASE Override(p)
  <2> DEFINE rest == Tail(proc[p].todo)
             base == IF rest = <<>> THEN Ready(p) ELSE proc[p]
             x    == [base EXCEPT !.todo = rest]
  <2>1. proc' = [proc EXCEPT ![p] = x]
    BY <1>1, <1>6 DEF Override
  <2>2. base \in Proc /\ base.row = proc[p].row
    BY <1>1, ReadySorts
  <2> HIDE DEF base, rest
  <2>3. x.row = proc[p].row
    BY <2>2 DEF Proc
  <2> HIDE DEF x
  <2> QED
    BY <1>2, <2>1, <2>3, MovesKeepRows
<1>7. CASE \E v : \/ proc' = [proc EXCEPT ![p] = [proc[p] EXCEPT !.pc = v]]
                  \/ proc' = [proc EXCEPT ![p] = [proc[p] EXCEPT !.loop = v]]
                  \/ proc' = [proc EXCEPT ![p] = [proc[p] EXCEPT !.phase = v]]
  <2>1. PICK x : proc' = [proc EXCEPT ![p] = x] /\ x.row = proc[p].row
    BY <1>1, <1>7 DEF Proc
  <2> QED
    BY <1>2, <2>1, MovesKeepRows
<1>8. CASE CheckEmpty(p)
  <2>1. \/ proc' = [proc EXCEPT ![p] = Ready(p)]
        \/ proc' = [proc EXCEPT ![p] = [proc[p] EXCEPT !.pc = "detect"]]
    BY <1>1, <1>8 DEF CheckEmpty
  <2> QED
    BY <1>4, <1>7, <2>1
<1>9. CASE Detect(p)
  BY <1>4, <1>9 DEF Detect
<1>10. CASE Bind(p) \/ TickCrash(p) \/ Collect(p)
  <2>1. \/ proc' = [proc EXCEPT ![p] = [proc[p] EXCEPT !.pc = "serving"]]
        \/ proc' = [proc EXCEPT ![p] = [proc[p] EXCEPT !.loop = FALSE]]
        \/ proc' = [proc EXCEPT ![p] = [proc[p] EXCEPT !.phase = "store"]]
    BY <1>1, <1>10 DEF Bind, TickCrash, Collect
  <2> QED
    BY <1>7, <2>1
<1>11. QED
  BY <1>5, <1>6, <1>8, <1>9, <1>10

LEMMA RowSteps ==
  ASSUME Sorted, [Next]_vars
  PROVE  \/ KeepsRows
         \/ Empties
         \/ \E p \in Process : Opens(p) \/ Closes(p) \/ Drops(p)
<1>1. CASE Edit \/ UNCHANGED vars
  BY <1>1 DEF Edit, vars, database, KeepsRows
<1>2. CASE \E p \in Process : ConfigShow(p) \/ Migrate(p)
  BY <1>2 DEF ConfigShow, Migrate, database, KeepsRows
<1>3. ASSUME NEW p \in Process, Reset(p)
      PROVE  Empties
  <2>1. \A q \in Process : proc'[q].row = 0
    BY <1>3, IdleFields DEF Reset, Sorted, ProcSorted, Still
  <2> QED
    BY <1>3, <2>1 DEF Reset, Empties
<1>4. CASE \E p \in Process : ScanCommand(p) \/ Tick(p)
  BY <1>4, ScanCommandOpens, TickOpens
<1>5. CASE \E p \in Process :
             \/ Up(p) \/ Override(p) \/ CheckEmpty(p) \/ Detect(p) \/ Bind(p)
             \/ TickCrash(p) \/ Collect(p)
  BY <1>5, StartKeepsRows
<1>6. ASSUME NEW p \in Process, PortTaken(p) \/ Quit(p)
      PROVE  Drops(p)
  BY <1>6, IdleDrops DEF PortTaken, Quit, Leaves, database
<1>7. ASSUME NEW p \in Process,
             TaskFails(p) \/ ScannerFails(p) \/ StatementRaises(p) \/ Finish(p)
      PROVE  Closes(p) \/ Drops(p)
  BY <1>7, ScanEnds, FinishesCloses, AbandonsDrops DEF Ends
<1>8. QED
  BY <1>1, <1>2, <1>3, <1>4, <1>5, <1>6, <1>7 DEF Next

-----------------------------------------------------------------------------
AllAsked == \A i \in DOMAIN scan : Asked(scan[i])

LEMMA AskedStep ==
  ASSUME Sorted, [Next]_vars, AllAsked
  PROVE  AllAsked'
<1>1. CASE KeepsRows \/ \E p \in Process : Drops(p)
  BY <1>1 DEF KeepsRows, Drops, AllAsked, Asked
<1>2. CASE Empties
  BY <1>2 DEF Empties, AllAsked
<1>3. ASSUME NEW p \in Process, Opens(p)
      PROVE  AllAsked'
  <2>1. PICK row \in Row : Asked(row) /\ scan' = Append(scan, row)
    BY <1>3 DEF Opens
  <2>2. \A i \in DOMAIN scan' : Asked(scan'[i])
    BY <2>1, RowAdded DEF Sorted, TypeOK, AllAsked
  <2> QED
    BY <2>2 DEF AllAsked, Asked
<1>4. ASSUME NEW p \in Process, Closes(p)
      PROVE  AllAsked'
  <2> DEFINE k == proc[p].row
  <2>1. PICK status \in {"ok", "error"} : scan' = [scan EXCEPT ![k].status = status]
    BY <1>4 DEF Closes
  <2>2. scan \in Seq(Row) /\ k \in DOMAIN scan
    <3>1. scan \in Seq(Row) /\ DOMAIN scan = 1..Len(scan) /\ k \in 0..Len(scan) /\ k # 0
          /\ Len(scan) \in Nat
      BY <1>4 DEF Closes, Sorted, TypeOK, ProcSorted
    <3> QED
      BY <3>1
  <2> HIDE DEF k
  <2>3. /\ DOMAIN scan' = DOMAIN scan
        /\ scan'[k] = [scan[k] EXCEPT !.status = status]
        /\ \A j \in DOMAIN scan \ {k} : scan'[j] = scan[j]
    BY <2>1, <2>2, RowStep
  <2>4. Asked(scan[k]) /\ scan[k] \in Row
    BY <2>2 DEF AllAsked
  <2>5. /\ scan'[k].nets = scan[k].nets /\ scan'[k].policy = scan[k].policy
        /\ scan'[k].confirm = scan[k].confirm /\ scan'[k].override = scan[k].override
        /\ scan'[k].source = scan[k].source
    BY <2>3, <2>4 DEF Row
  <2>6. Asked(scan'[k])
    BY <2>4, <2>5 DEF Asked
  <2>7. \A i \in DOMAIN scan' : Asked(scan'[i])
    BY <2>3, <2>6 DEF AllAsked
  <2> QED
    BY <2>7 DEF AllAsked, Asked
<1>5. QED
  BY <1>1, <1>2, <1>3, <1>4, RowSteps

LEMMA AskedMeansConsent ==
  ASSUME Sorted, AllAsked
  PROVE  NobodyIsProbedUnasked
<1> SUFFICES ASSUME NEW i \in DOMAIN scan, NEW net \in scan[i].nets, NEW a \in Addresses(net)
             PROVE  /\ scan[i].override
                         \/ \A j \in DOMAIN scan[i].policy.deny :
                              a \notin Addresses(Masked(scan[i].policy.deny[j]))
                    /\ (\E b \in PrivateBlocks : a \in Addresses(b))
                         \/ (scan[i].source = "cli" /\ scan[i].confirm
                               /\ scan[i].policy.public)
  BY DEF NobodyIsProbedUnasked
<1>1. /\ scan[i].policy \in Policy /\ scan[i].confirm \in BOOLEAN
      /\ scan[i].override \in BOOLEAN /\ scan[i].source \in {"cli", "loop"}
  <2>1. scan[i] \in Row
    BY DEF Sorted, TypeOK
  <2> QED
    BY <2>1 DEF Row
<1>2. PICK t \in Text : /\ net = Masked(t)
                        /\ Accepts(t, scan[i].policy, scan[i].confirm, 0, scan[i].override)
  BY DEF AllAsked, Asked
<1>3. scan[i].source = "loop" => ~scan[i].confirm
  BY DEF AllAsked, Asked
<1>4. ASSUME ~scan[i].override, NEW j \in DOMAIN scan[i].policy.deny
      PROVE  a \notin Addresses(Masked(scan[i].policy.deny[j]))
  <2>1. Accepts(t, scan[i].policy, scan[i].confirm, 0, FALSE)
    <3>1. scan[i].override = FALSE
      BY <1>1, <1>4
    <3> QED
      BY <1>2, <3>1
  <2>2. 0 \in Nat
    OBVIOUS
  <2> QED
    BY <1>1, <1>2, <2>1, <2>2, AcceptedIsNotDenied
<1>5. ASSUME ~(scan[i].policy.public /\ scan[i].confirm)
      PROVE  \E b \in PrivateBlocks : a \in Addresses(b)
  <2>1. 0 \in Nat
    OBVIOUS
  <2> QED
    BY <1>1, <1>2, <1>5, <2>1, AcceptedIsConsented
<1>6. QED
  BY <1>1, <1>3, <1>4, <1>5

(* No scan reaches an address that its policy denies, or a public one that *)
(* was not consented to, whoever started it and however the configuration  *)
(* changed since its subnet was stored.                                    *)
THEOREM ScansAreAskedFor == Spec => []NobodyIsProbedUnasked
<1>1. Init => AllAsked
  BY DEF Init, AllAsked
<1>2. Sorted /\ AllAsked => NobodyIsProbedUnasked
  BY AskedMeansConsent
<1>3. QED
  BY <1>1, <1>2, AskedStep, AlwaysSorted, PTL DEF Spec

-----------------------------------------------------------------------------
(* No two processes have the same row, none has one that was left behind.  *)
Apart ==
  /\ \A p, q \in Process : proc[p].row # 0 /\ proc[p].row = proc[q].row => p = q
  /\ \A p \in Process : proc[p].row \notin orphans

Matched ==
  \A i \in DOMAIN scan :
    scan[i].status = "running"
      <=> (i \in orphans \/ \E p \in Process : proc[p].row = i)

Lively == Apart /\ Matched

LEMMA OpensLively ==
  ASSUME Sorted, Lively, NEW p \in Process, Opens(p)
  PROVE  Lively'
<1> DEFINE n == Len(scan) + 1
<1>1. PICK row \in Row : row.status = "running" /\ scan' = Append(scan, row)
  BY DEF Opens
<1>2. scan \in Seq(Row) /\ Len(scan) \in Nat /\ DOMAIN scan = 1..Len(scan)
      /\ orphans \in SUBSET (1..Len(scan)) /\ \A q \in Process : proc[q].row \in 0..Len(scan)
  BY DEF Sorted, TypeOK
<1>3. n # 0 /\ n \notin orphans /\ n \notin DOMAIN scan /\ \A q \in Process : proc[q].row # n
  BY <1>2
<1>4. proc'[p].row = n /\ proc[p].row = 0 /\ orphans' = orphans
      /\ \A q \in Process \ {p} : proc'[q].row = proc[q].row
  BY DEF Opens, OthersKeep
<1>5. /\ DOMAIN scan' = DOMAIN scan \cup {n}
      /\ scan'[n] = row
      /\ \A j \in DOMAIN scan : scan'[j] = scan[j]
  BY <1>1, <1>2, RowAdded
<1>6. 0 \notin DOMAIN scan
  BY <1>2
<1> HIDE DEF n
<1>7. Apart'
  BY <1>3, <1>4 DEF Lively, Apart
<1>8. ASSUME NEW i \in DOMAIN scan'
      PROVE  scan'[i].status = "running"
               <=> (i \in orphans' \/ \E q \in Process : proc'[q].row = i)
  <2>1. CASE i = n
    BY <1>1, <1>4, <1>5, <2>1
  <2>2. CASE i \in DOMAIN scan
    <3>1. i # 0 /\ i # n /\ scan'[i] = scan[i]
      BY <1>3, <1>5, <1>6, <2>2
    <3>2. (\E q \in Process : proc'[q].row = i) <=> (\E q \in Process : proc[q].row = i)
      BY <1>4, <3>1
    <3> QED
      BY <1>4, <2>2, <3>1, <3>2 DEF Lively, Matched
  <2> QED
    BY <1>5, <2>1, <2>2
<1>9. QED
  BY <1>7, <1>8 DEF Lively, Matched

LEMMA ClosesLively ==
  ASSUME Sorted, Lively, NEW p \in Process, Closes(p)
  PROVE  Lively'
<1> DEFINE k == proc[p].row
<1>1. PICK status \in {"ok", "error"} : scan' = [scan EXCEPT ![k].status = status]
  BY DEF Closes
<1>2. scan \in Seq(Row) /\ k \in DOMAIN scan /\ 0 \notin DOMAIN scan
  <2>1. scan \in Seq(Row) /\ DOMAIN scan = 1..Len(scan) /\ k \in 0..Len(scan) /\ k # 0
        /\ Len(scan) \in Nat
    BY DEF Closes, Sorted, TypeOK, ProcSorted
  <2> QED
    BY <2>1
<1>3. proc'[p].row = 0 /\ orphans' = orphans
      /\ \A q \in Process \ {p} : proc'[q].row = proc[q].row
  BY DEF Closes, OthersKeep
<1>4. k \notin orphans /\ 0 \notin orphans /\ \A q \in Process \ {p} : proc[q].row # k
  <2>1. 0 \notin orphans
    BY DEF Sorted, TypeOK
  <2>2. k # 0
    BY <1>2
  <2> QED
    BY <2>1, <2>2 DEF Lively, Apart
<1> HIDE DEF k
<1>5. /\ DOMAIN scan' = DOMAIN scan
      /\ scan'[k] = [scan[k] EXCEPT !.status = status]
      /\ \A j \in DOMAIN scan \ {k} : scan'[j] = scan[j]
  BY <1>1, <1>2, RowStep
<1>6. scan'[k].status # "running"
  BY <1>2, <1>5 DEF Row
<1>7. Apart'
  BY <1>3, <1>4 DEF Lively, Apart
<1>8. ASSUME NEW i \in DOMAIN scan'
      PROVE  scan'[i].status = "running"
               <=> (i \in orphans' \/ \E q \in Process : proc'[q].row = i)
  <2>1. i # 0 /\ i \in DOMAIN scan
    BY <1>2, <1>5
  <2>2. CASE i = k
    BY <1>3, <1>4, <1>6, <2>1, <2>2
  <2>3. CASE i # k
    <3>1. scan'[i] = scan[i] /\ proc[p].row # i
      BY <1>5, <2>1, <2>3 DEF k
    <3>2. (\E q \in Process : proc'[q].row = i) <=> (\E q \in Process : proc[q].row = i)
      BY <1>3, <2>1, <3>1
    <3> QED
      BY <1>3, <2>1, <3>1, <3>2 DEF Lively, Matched
  <2> QED
    BY <2>2, <2>3
<1>9. QED
  BY <1>7, <1>8 DEF Lively, Matched

LEMMA DropsLively ==
  ASSUME Sorted, Lively, NEW p \in Process, Drops(p)
  PROVE  Lively'
<1>1. /\ proc'[p].row = 0 /\ scan' = scan
      /\ orphans' = orphans \cup ({proc[p].row} \ {0})
      /\ \A q \in Process \ {p} : proc'[q].row = proc[q].row
  BY DEF Drops, OthersKeep
<1>2. 0 \notin DOMAIN scan /\ 0 \notin orphans
  BY DEF Sorted, TypeOK
<1>3. Apart'
  BY <1>1, <1>2 DEF Lively, Apart
<1>4. ASSUME NEW i \in DOMAIN scan
      PROVE  (i \in orphans \/ \E q \in Process : proc[q].row = i)
               <=> (i \in orphans' \/ \E q \in Process : proc'[q].row = i)
  <2>1. i # 0
    BY <1>2
  <2>2. CASE i = proc[p].row
    BY <1>1, <2>1, <2>2
  <2>3. CASE i # proc[p].row
    BY <1>1, <2>1, <2>3
  <2> QED
    BY <2>2, <2>3
<1>5. QED
  BY <1>1, <1>3, <1>4 DEF Lively, Matched

(* A scan that its row calls running is run by one process, or it was left *)
(* when its process went away or the statement raised that was to record   *)
(* an error; a scan that a process runs is called running.                 *)
THEOREM RunningRowsAreLive == Spec => []RunningIsLive
<1>1. Init => Lively
  BY IdleFields DEF Init, Lively, Apart, Matched
<1>2. ASSUME Sorted, Lively, [Next]_vars
      PROVE  Lively'
  <2>1. CASE KeepsRows
    BY <1>2, <2>1 DEF KeepsRows, Lively, Apart, Matched
  <2>2. CASE Empties
    BY <2>2 DEF Empties, Lively, Apart, Matched
  <2> QED
    BY <1>2, <2>1, <2>2, RowSteps, OpensLively, ClosesLively, DropsLively
<1>3. ASSUME Sorted, Lively
      PROVE  RunningIsLive
  <2> SUFFICES ASSUME NEW i \in DOMAIN scan
               PROVE  LET owners == {p \in Process : proc[p].row = i} IN
                      /\ scan[i].status = "running" <=> i \in orphans \/ owners # {}
                      /\ \A p, q \in owners : p = q /\ i \notin orphans
    BY DEF RunningIsLive
  <2> DEFINE owners == {p \in Process : proc[p].row = i}
  <2>1. scan[i].status = "running" <=> i \in orphans \/ owners # {}
    BY <1>3 DEF Lively, Matched
  <2>2. i # 0
    BY <1>3 DEF Sorted, TypeOK
  <2>3. \A p, q \in owners : p = q /\ i \notin orphans
    BY <1>3, <2>2 DEF Lively, Apart
  <2> QED
    BY <2>1, <2>3
<1>4. QED
  BY <1>1, <1>2, <1>3, AlwaysSorted, PTL DEF Spec
=============================================================================
