------------------------------ MODULE ListFacts ------------------------------
(***************************************************************************)
(* Lemmas on lists that several proofs rest on.  Induction is over a set,  *)
(* as the provers cannot instantiate a predicate.                          *)
(***************************************************************************)
EXTENDS Lists, SequencesExt, SequenceTheorems, FiniteSetTheorems,
        WellFoundedInduction, TLAPS

(* A set of natural numbers has a least one.                               *)
LEMMA LeastNumber ==
  ASSUME NEW T \in SUBSET Nat, T # {}
  PROVE  \E x \in T : \A y \in T : x <= y
<1> DEFINE R == OpToRel(<, Nat)
<1>1. \A x, y \in Nat : x < y => <<x, y>> \in R
  BY DEF OpToRel
<1>2. IsWellFoundedOn(R, Nat)
  BY NatLessThanWellFounded
<1> HIDE DEF R
<1>3. PICK x \in T : \A y \in T : ~(<<y, x>> \in R)
  BY <1>2, WFMin
<1>4. ASSUME NEW y \in T
      PROVE  x <= y
  <2>1. ~(y < x)
    BY <1>1, <1>3
  <2>2. QED
    BY <2>1
<1>5. QED
  BY <1>4

(* Induction, for a set instead of a predicate.                            *)
LEMMA SetInduction ==
  ASSUME NEW S, 0 \in S, \A n \in Nat : n \in S => n + 1 \in S
  PROVE  Nat \subseteq S
<1> DEFINE T == Nat \ S
<1>1. SUFFICES ASSUME T # {} PROVE FALSE
  OBVIOUS
<1>2. PICK x \in T : \A y \in T : x <= y
  <2> HIDE DEF T
  <2>1. T \in SUBSET Nat
    BY DEF T
  <2>2. QED
    BY <1>1, <2>1, LeastNumber
<1>3. x \in Nat /\ x # 0
  OBVIOUS
<1>4. x - 1 \in Nat /\ ~(x <= x - 1) /\ (x - 1) + 1 = x
  BY <1>3
<1>5. x - 1 \in S
  BY <1>2, <1>4
<1>6. x \in S
  BY <1>4, <1>5
<1>7. QED
  BY <1>6

-----------------------------------------------------------------------------
(* The recursive function that flattens is one.                            *)
IsFlattening(f, seqs, n) ==
  \A i \in 1..n : f[i] = IF i = 1 THEN seqs[i] ELSE f[i - 1] \o seqs[i]

LEMMA FlattenExists ==
  ASSUME NEW X, NEW seqs \in Seq(Seq(X)), NEW n \in Nat, n <= Len(seqs)
  PROVE  \E f \in [1..n -> Seq(X)] : IsFlattening(f, seqs, n)
<1> DEFINE Step(f, i) == IF i = 1 THEN seqs[i] ELSE f[i - 1] \o seqs[i]
           Good(m) == \E f \in [1..m -> Seq(X)] : \A i \in 1..m : f[i] = Step(f, i)
           S == {m \in Nat : m <= Len(seqs) => Good(m)}
<1>1. Len(seqs) \in Nat /\ \A i \in 1..Len(seqs) : seqs[i] \in Seq(X)
  BY LenProperties
<1>2. 0 \in S
  <2>1. [i \in 1..0 |-> <<>>] \in [1..0 -> Seq(X)]
    OBVIOUS
  <2>2. 1..0 = {}
    OBVIOUS
  <2> HIDE DEF Step
  <2>3. Good(0)
    BY <2>1, <2>2
  <2> HIDE DEF Good
  <2>4. QED
    BY <2>3
<1>3. ASSUME NEW m \in Nat, m \in S
      PROVE  m + 1 \in S
  <2>1. SUFFICES ASSUME m + 1 <= Len(seqs)
                 PROVE  Good(m + 1)
    <3> HIDE DEF Good
    <3>1. QED
      OBVIOUS
  <2>2. m <= Len(seqs) /\ m + 1 \in 1..Len(seqs)
    BY <1>1, <2>1
  <2>3. PICK f \in [1..m -> Seq(X)] : \A i \in 1..m : f[i] = Step(f, i)
    BY <1>3, <2>2
  <2> DEFINE next == IF m = 0 THEN seqs[m + 1] ELSE f[m] \o seqs[m + 1]
             g    == [i \in 1..m + 1 |-> IF i = m + 1 THEN next ELSE f[i]]
  <2>4. next \in Seq(X)
    <3>1. seqs[m + 1] \in Seq(X)
      BY <1>1, <2>2
    <3>2. CASE m = 0
      BY <3>1, <3>2
    <3>3. CASE m # 0
      <4>1. f[m] \in Seq(X)
        BY <3>3
      <4>2. f[m] \o seqs[m + 1] \in Seq(X)
        BY <3>1, <4>1, ConcatProperties
      <4>3. QED
        BY <3>3, <4>2
    <3>4. QED
      BY <3>2, <3>3
  <2> HIDE DEF next
  <2>5. g \in [1..m + 1 -> Seq(X)]
    BY <2>4
  <2>6. ASSUME NEW i \in 1..m + 1
        PROVE  g[i] = Step(g, i)
    <3>1. CASE i = m + 1
      <4>1. g[i] = next
        BY <3>1
      <4>2. CASE m = 0
        BY <3>1, <4>1, <4>2 DEF next
      <4>3. CASE m # 0
        <5>1. g[i - 1] = f[m] /\ i # 1
          BY <3>1, <4>3
        <5>2. QED
          BY <3>1, <4>1, <4>3, <5>1 DEF next
      <4>4. QED
        BY <4>2, <4>3
    <3>2. CASE i # m + 1
      <4>1. i \in 1..m /\ g[i] = f[i] /\ (i # 1 => g[i - 1] = f[i - 1])
        BY <3>2
      <4>2. f[i] = Step(f, i)
        BY <2>3, <4>1
      <4>3. QED
        BY <4>1, <4>2
    <3>3. QED
      BY <3>1, <3>2
  <2> HIDE DEF g
  <2>7. QED
    BY <2>5, <2>6
<1> HIDE DEF S
<1>4. n \in S
  BY <1>2, <1>3, SetInduction
<1>5. QED
  BY <1>4 DEF S, IsFlattening

(* Flattening keeps what occurs in the parts, and adds nothing.            *)
LEMMA FlattenHasAll ==
  ASSUME NEW X, NEW seqs \in Seq(Seq(X))
  PROVE  /\ FlattenSeq(seqs) \in Seq(X)
         /\ \A r : r \in Range(FlattenSeq(seqs))
                     <=> \E k \in DOMAIN seqs : r \in Range(seqs[k])
<1> DEFINE N == Len(seqs)
           F == CHOOSE flatten : flatten = [i \in 1..N |->
                  IF i = 1 THEN seqs[i] ELSE flatten[i - 1] \o seqs[i]]
<1>1. N \in Nat /\ DOMAIN seqs = 1..N /\ \A i \in 1..N : seqs[i] \in Seq(X)
  BY LenProperties
<1>2. CASE N = 0
  <2>1. seqs = <<>> /\ FlattenSeq(seqs) = seqs
    BY <1>2, EmptySeq DEF FlattenSeq
  <2>2. DOMAIN seqs = {}
    BY <1>1, <1>2
  <2>3. seqs \in Seq(X)
    BY <2>1, EmptySeq
  <2>4. QED
    BY <2>1, <2>2, <2>3 DEF Range
<1>3. CASE N # 0
  <2>1. FlattenSeq(seqs) = F[N]
    BY <1>3 DEF FlattenSeq
  <2>2. F = [i \in 1..N |-> IF i = 1 THEN seqs[i] ELSE F[i - 1] \o seqs[i]]
    <3>1. PICK f \in [1..N -> Seq(X)] :
            \A i \in 1..N : f[i] = IF i = 1 THEN seqs[i] ELSE f[i - 1] \o seqs[i]
      <4>1. Len(seqs) \in Nat /\ Len(seqs) <= Len(seqs)
        BY <1>1
      <4>2. \E f \in [1..Len(seqs) -> Seq(X)] : IsFlattening(f, seqs, Len(seqs))
        BY <4>1, FlattenExists
      <4> HIDE DEF F
      <4>3. QED
        BY <4>2 DEF IsFlattening
    <3>2. f = [i \in 1..N |-> IF i = 1 THEN seqs[i] ELSE f[i - 1] \o seqs[i]]
      BY <3>1
    <3>3. QED
      BY <3>2
  <2> HIDE DEF F
  <2> DEFINE Good(m) == /\ F[m] \in Seq(X)
                        /\ \A r : r \in Range(F[m]) <=> \E k \in 1..m : r \in Range(seqs[k])
             S == {m \in Nat : m \in 1..N => Good(m)}
  <2>3. 0 \in S
    OBVIOUS
  <2>4. ASSUME NEW m \in Nat, m \in S
        PROVE  m + 1 \in S
    <3>1. SUFFICES ASSUME m + 1 \in 1..N
                   PROVE  Good(m + 1)
      OBVIOUS
    <3>2. seqs[m + 1] \in Seq(X)
      BY <1>1, <3>1
    <3>3. CASE m = 0
      <4>1. F[m + 1] = seqs[1] /\ m + 1 = 1
        BY <2>2, <3>1, <3>3
      <4>2. QED
        BY <3>2, <4>1
    <3>4. CASE m # 0
      <4>1. m \in 1..N /\ Good(m)
        BY <1>1, <2>4, <3>1, <3>4
      <4>2. F[m + 1] = F[m] \o seqs[m + 1]
        <5>1. (m + 1) - 1 = m /\ m + 1 # 1
          BY <3>4
        <5>2. QED
          BY <2>2, <3>1, <5>1
      <4>3. F[m] \o seqs[m + 1] \in Seq(X)
        BY <3>2, <4>1, ConcatProperties
      <4>4. \A r : r \in Range(F[m] \o seqs[m + 1])
                     <=> r \in Range(F[m]) \/ r \in Range(seqs[m + 1])
        BY <3>2, <4>1, RangeConcatenation
      <4>5. \A k : k \in 1..m + 1 <=> k \in 1..m \/ k = m + 1
        OBVIOUS
      <4>6. QED
        BY <4>1, <4>2, <4>3, <4>4, <4>5
    <3>5. QED
      BY <3>3, <3>4
  <2> HIDE DEF S
  <2>5. N \in S
    BY <1>1, <2>3, <2>4, SetInduction
  <2>6. Good(N)
    BY <1>1, <1>3, <2>5 DEF S
  <2>7. QED
    BY <1>1, <2>1, <2>6
<1>4. QED
  BY <1>2, <1>3

LEMMA RangeOfTail ==
  ASSUME NEW X, NEW s \in Seq(X), s # <<>>
  PROVE  Range(s) = {Head(s)} \cup Range(Tail(s))
<1>1. /\ Tail(s) \in Seq(X) /\ Len(Tail(s)) = Len(s) - 1
      /\ \A i \in 1..Len(Tail(s)) : Tail(s)[i] = s[i + 1]
      /\ Len(s) \in Nat \ {0} /\ DOMAIN s = 1..Len(s) /\ Head(s) = s[1]
  BY HeadTailProperties, LenProperties, EmptySeq
<1>2. DOMAIN Tail(s) = 1..Len(s) - 1
  BY <1>1, LenProperties
<1> DEFINE t == Tail(s)
<1> HIDE DEF t
<1>3. \A i \in 1..Len(s) : i = 1 \/ (i - 1 \in 1..Len(s) - 1 /\ t[i - 1] = s[i])
  <2>1. SUFFICES ASSUME NEW i \in 1..Len(s), i # 1
                 PROVE  i - 1 \in 1..Len(s) - 1 /\ t[i - 1] = s[i]
    OBVIOUS
  <2>2. i - 1 \in 1..Len(s) - 1 /\ (i - 1) + 1 = i
    BY <1>1, <2>1
  <2>3. QED
    BY <1>1, <2>2 DEF t
<1>4. \A i \in 1..Len(s) - 1 : i + 1 \in 1..Len(s) /\ t[i] = s[i + 1]
  BY <1>1 DEF t
<1>5. Range(s) \subseteq {Head(s)} \cup Range(t)
  <2>1. SUFFICES ASSUME NEW i \in 1..Len(s)
                 PROVE  s[i] \in {Head(s)} \cup Range(t)
    BY <1>1 DEF Range
  <2>2. DOMAIN t = 1..Len(s) - 1
    BY <1>2 DEF t
  <2>3. QED
    BY <1>1, <1>3, <2>2 DEF Range
<1>6. {Head(s)} \cup Range(t) \subseteq Range(s)
  <2>1. 1 \in 1..Len(s)
    BY <1>1
  <2>2. QED
    BY <1>1, <1>2, <1>4, <2>1 DEF Range, t
<1>7. QED
  BY <1>5, <1>6 DEF t

(* What InOrder gives is a list of the whole set.                          *)
LEMMA InOrderListsAll ==
  ASSUME NEW n \in Nat, NEW S \in SUBSET (1..n), NEW es \in InOrder(S)
  PROVE  es \in Seq(S) /\ DOMAIN es = 1..Len(es) /\ Range(es) = S
<1> DEFINE c == Cardinality(S)
<1>1. IsFiniteSet(1..n)
  BY FS_Interval
<1>2. IsFiniteSet(S) /\ c \in Nat
  BY <1>1, FS_Subset, FS_CardinalityType
<1>3. Cardinality(1..c) = c /\ IsFiniteSet(1..c)
  <2> HIDE DEF c
  <2>1. 1 \in Int /\ c \in Int
    BY <1>2
  <2>2. Cardinality(1..c) = IF 1 > c THEN 0 ELSE c - 1 + 1
    BY <2>1, FS_Interval
  <2>3. IsFiniteSet(1..c)
    BY <2>1, FS_Interval
  <2>4. QED
    BY <1>2, <2>2, <2>3
<1>4. es \in [1..c -> S] /\ \A i, j \in 1..c : i < j => es[i] < es[j]
  BY DEF InOrder
<1>5. es \in Injection(1..c, S)
  <2> HIDE DEF c
  <2>1. ASSUME NEW i \in 1..c, NEW j \in 1..c, es[i] = es[j], i # j
        PROVE  FALSE
    <3>1. es[i] \in 1..n /\ es[j] \in 1..n
      BY <1>4
    <3>2. i < j \/ j < i
      BY <1>2, <2>1
    <3>3. QED
      BY <1>4, <2>1, <3>1, <3>2
  <2>2. QED
    BY <1>4, <2>1 DEF Injection, IsInjective
<1>6. es \in Surjection(1..c, S)
  BY <1>2, <1>3, <1>5, FS_Injection
<1>7. es \in Seq(S)
  BY <1>2, <1>4, SeqDef
<1>8. DOMAIN es = 1..Len(es)
  BY <1>7, LenProperties
<1>9. Range(es) = S
  BY <1>4, <1>6 DEF Surjection, Range
<1>10. QED
  BY <1>7, <1>8, <1>9

(* A set of numbers can be put in order.                                   *)
LEMMA InOrderExists ==
  ASSUME NEW n \in Nat, NEW S \in SUBSET (1..n)
  PROVE  \E es : es \in InOrder(S)
<1> DEFINE Good(m) == \A T \in SUBSET (1..m) : \E es : es \in InOrder(T)
           G == {m \in Nat : Good(m)}
<1>1. 0 \in G
  <2>1. ASSUME NEW T \in SUBSET (1..0)
        PROVE  \E es : es \in InOrder(T)
    <3>1. T = {}
      OBVIOUS
    <3>2. Cardinality(T) = 0
      BY <3>1, FS_EmptySet
    <3>3. [i \in 1..0 |-> 0] \in [1..Cardinality(T) -> T]
      BY <3>1, <3>2
    <3>4. DOMAIN [i \in 1..0 |-> 0] = {}
      OBVIOUS
    <3>5. QED
      BY <3>3, <3>4 DEF InOrder
  <2>2. QED
    BY <2>1
<1>2. ASSUME NEW m \in Nat, m \in G
      PROVE  m + 1 \in G
  <2>1. Good(m)
    BY <1>2
  <2> HIDE DEF G
  <2>2. ASSUME NEW T \in SUBSET (1..m + 1)
        PROVE  \E es : es \in InOrder(T)
    <3> DEFINE U == T \ {m + 1}
               c == Cardinality(U)
    <3>1. U \in SUBSET (1..m)
      OBVIOUS
    <3>2. PICK es : es \in InOrder(U)
      BY <2>1, <3>1
    <3>3. CASE m + 1 \notin T
      <4>1. U = T
        BY <3>3
      <4>2. QED
        BY <3>2, <4>1
    <3>4. CASE m + 1 \in T
      <4>1. IsFiniteSet(U)
        <5>1. IsFiniteSet(1..m)
          BY FS_Interval
        <5>2. QED
          BY <3>1, <5>1, FS_Subset
      <4>2. T = U \cup {m + 1} /\ m + 1 \notin U
        BY <3>4
      <4> HIDE DEF U
      <4>3. c \in Nat /\ Cardinality(T) = c + 1
        BY <4>1, <4>2, FS_AddElement, FS_CardinalityType
      <4>4. es \in [1..c -> U] /\ \A i, j \in 1..c : i < j => es[i] < es[j]
        BY <3>2 DEF InOrder
      <4> HIDE DEF c
      <4> DEFINE fs == [i \in 1..c + 1 |-> IF i = c + 1 THEN m + 1 ELSE es[i]]
      <4>5. \A i \in 1..c + 1 : i = c + 1 \/ i \in 1..c
        BY <4>3
      <4>6. fs \in [1..c + 1 -> T]
        BY <4>2, <4>4, <4>5
      <4>7. ASSUME NEW i \in 1..c + 1, NEW j \in 1..c + 1, i < j
            PROVE  fs[i] < fs[j]
        <5>1. i \in 1..c /\ fs[i] = es[i]
          BY <4>3, <4>7
        <5>2. CASE j = c + 1
          <6>1. es[i] \in 1..m
            BY <3>1, <4>4, <5>1
          <6>2. QED
            BY <5>1, <5>2, <6>1
        <5>3. CASE j # c + 1
          BY <4>4, <4>5, <4>7, <5>1, <5>3
        <5>4. QED
          BY <5>2, <5>3
      <4>8. DOMAIN fs = 1..c + 1
        OBVIOUS
      <4> HIDE DEF fs
      <4>9. fs \in InOrder(T)
        BY <4>3, <4>6, <4>7, <4>8 DEF InOrder
      <4>10. QED
        BY <4>9
    <3>5. QED
      BY <3>3, <3>4
  <2>3. QED
    BY <2>2 DEF G
<1> HIDE DEF G
<1>3. n \in G
  BY <1>1, <1>2, SetInduction
<1>4. QED
  BY <1>3 DEF G

(* SetToSeq lists a finite set.                                            *)
LEMMA SetToSeqListsAll ==
  ASSUME NEW S, IsFiniteSet(S)
  PROVE  SetToSeq(S) \in Seq(S) /\ Range(SetToSeq(S)) = S
<1> DEFINE c == Cardinality(S)
           s == SetToSeq(S)
<1>1. c \in Nat /\ ExistsBijection(1..c, S)
  BY FS_CardinalityType
<1>2. PICK f \in [1..c -> S] : IsInjective(f)
  BY <1>1 DEF ExistsBijection, Bijection, Injection
<1>3. s \in [1..c -> S] /\ IsInjective(s)
  BY <1>2 DEF SetToSeq
<1> HIDE DEF s
<1>4. s \in Seq(S)
  BY <1>1, <1>3, SeqDef
<1>5. IsFiniteSet(1..c) /\ Cardinality(1..c) = c
  <2> HIDE DEF c
  <2>1. Cardinality(1..c) = IF 1 > c THEN 0 ELSE c - 1 + 1
    BY <1>1, FS_Interval
  <2>2. IsFiniteSet(1..c)
    BY <1>1, FS_Interval
  <2>3. QED
    BY <1>1, <2>1, <2>2
<1>6. s \in Injection(1..c, S)
  BY <1>3 DEF Injection
<1>7. s \in Surjection(1..c, S)
  BY <1>5, <1>6, FS_Injection
<1>8. Range(s) = S
  BY <1>3, <1>7 DEF Surjection, Range
<1>9. QED
  BY <1>4, <1>8 DEF s
=============================================================================
