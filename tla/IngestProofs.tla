---------------------------- MODULE IngestProofs ----------------------------
(***************************************************************************)
(* Proofs about Ingest, for any uploads and any files they may send.       *)
(***************************************************************************)
EXTENDS Ingest, FiniteSetTheorems, SequenceTheorems, WellFoundedInduction, TLAPS

-----------------------------------------------------------------------------
(* Numbers. *)

(* A set of natural numbers that is not empty has a least element. *)
LEMMA LeastNumber ==
  ASSUME NEW T \in SUBSET Nat, T # {}
  PROVE  \E n \in T : \A m \in T : n <= m
<1>1. PICK n \in T : \A m \in T : ~(<<m, n>> \in OpToRel(<, Nat))
  BY NatLessThanWellFounded, WFMin
<1>2. \A m \in T : ~(m < n)
  BY <1>1 DEF OpToRel
<1> QED
  BY <1>2

(* Induction on numbers: N holds every number when it holds 0 and what follows. *)
LEMMA CountUp ==
  ASSUME NEW N, 0 \in N, \A n \in Nat : n \in N => n + 1 \in N
  PROVE  \A n \in Nat : n \in N
<1> SUFFICES ASSUME Nat \ N # {} PROVE FALSE
  OBVIOUS
<1>1. PICK n \in Nat \ N : \A m \in Nat \ N : n <= m
  BY LeastNumber
<1>2. n - 1 \in N /\ n - 1 \in Nat /\ n - 1 + 1 = n
  BY <1>1
<1> QED
  BY <1>1, <1>2

(* A set of numbers up to n that is not empty has a greatest element. *)
LEMMA GreatestNumber ==
  ASSUME NEW n \in Nat, NEW T \in SUBSET (1..n), T # {}
  PROVE  \E m \in T : \A k \in T : k <= m
<1> DEFINE Bounds == {b \in Nat : \A k \in T : k <= b}
<1>1. n \in Bounds
  OBVIOUS
<1>2. PICK b \in Bounds : \A a \in Bounds : b <= a
  BY <1>1, LeastNumber
<1>3. b \in Nat /\ \A k \in T : k <= b /\ k \in Nat /\ k >= 1
  OBVIOUS
<1>4. ASSUME b \notin T PROVE FALSE
  <2>1. PICK k \in T : TRUE
    OBVIOUS
  <2>2. b - 1 \in Nat /\ ~(b <= b - 1)
    BY <1>3, <1>4, <2>1
  <2>3. \A x \in T : x <= b - 1
    BY <1>3, <1>4
  <2>4. b - 1 \in Bounds
    BY <2>2, <2>3
  <2> HIDE DEF Bounds
  <2> QED
    BY <1>2, <2>2, <2>4
<1> QED
  BY <1>3, <1>4

(* A finite set of numbers is listed in order by how many of them are smaller. *)
Smallest(T) ==
  [i \in 1..Cardinality(T) |-> CHOOSE n \in T : Cardinality({m \in T : m < n}) = i - 1]

LEMMA SmallestListsAll ==
  ASSUME NEW T \in SUBSET Nat, IsFiniteSet(T)
  PROVE  IsASequence(Smallest(T)) /\ Range(Smallest(T)) = T
<1> DEFINE n == Cardinality(T)
           Under(x) == {m \in T : m < x}
           rank == [x \in T |-> Cardinality(Under(x)) + 1]
           s == Smallest(T)
<1>1. n \in Nat
  BY FS_CardinalityType
<1>2. ASSUME NEW x \in T PROVE Cardinality(Under(x)) \in 0..(n - 1) /\ IsFiniteSet(Under(x))
  <2>1. IsFiniteSet(T \ {x}) /\ Cardinality(T \ {x}) = n - 1
    BY FS_RemoveElement
  <2>2. Under(x) \in SUBSET (T \ {x})
    OBVIOUS
  <2>3. IsFiniteSet(Under(x)) /\ Cardinality(Under(x)) <= Cardinality(T \ {x})
    BY <2>1, <2>2, FS_Subset
  <2>4. Cardinality(Under(x)) \in Nat
    BY <2>3, FS_CardinalityType
  <2> QED
    BY <1>1, <2>1, <2>3, <2>4
<1>3. ASSUME NEW x \in T, NEW y \in T, x < y PROVE Cardinality(Under(x)) # Cardinality(Under(y))
  <2>1. x < y /\ x \in Nat /\ y \in Nat
    BY <1>3
  <2>2. \A m \in T : m < x => m < y
    BY <2>1
  <2>3. Under(x) \in SUBSET Under(y)
    BY <2>2
  <2>4. x \in Under(y) /\ x \notin Under(x)
    BY <2>1
  <2> QED
    BY <1>2, <2>3, <2>4, FS_Subset
<1>4. rank \in [T -> 1..n] /\ \A x, y \in T : rank[x] = rank[y] => x = y
  <2>1. \A x \in T : Cardinality(Under(x)) \in 0..(n - 1)
    BY <1>2
  <2>2. \A x, y \in T : x < y => Cardinality(Under(x)) # Cardinality(Under(y))
    BY <1>3
  <2> HIDE DEF Under, n
  <2>3. rank \in [T -> 1..n]
    BY <1>1, <2>1
  <2>4. ASSUME NEW x \in T, NEW y \in T, rank[x] = rank[y] PROVE x = y
    <3>1. Cardinality(Under(x)) = Cardinality(Under(y))
      BY <1>1, <2>1, <2>4
    <3>2. ~(x < y) /\ ~(y < x)
      BY <2>2, <3>1
    <3> QED
      BY <3>2
  <2> QED
    BY <2>3, <2>4
<1>5. \A i \in 1..n : \E x \in T : rank[x] = i
  <2> HIDE DEF rank, n
  <2>1. rank \in Injection(T, 1..n)
    BY <1>4 DEF Injection, IsInjective
  <2>2. IsFiniteSet(1..n) /\ Cardinality(1..n) = n
    <3>1. IsFiniteSet(1..n) /\ Cardinality(1..n) = IF 1 > n THEN 0 ELSE n - 1 + 1
      BY <1>1, FS_Interval
    <3> QED
      BY <1>1, <3>1
  <2>3. rank \in Surjection(T, 1..n)
    BY <2>1, <2>2, FS_Injection DEF n
  <2> QED
    BY <2>3 DEF Surjection
<1>6. DOMAIN s = 1..n
  BY DEF Smallest
<1>7. ASSUME NEW i \in 1..n PROVE s[i] \in T /\ rank[s[i]] = i
  <2>1. PICK x \in T : rank[x] = i
    BY <1>5
  <2>2. Cardinality(Under(x)) = i - 1
    BY <1>1, <1>2, <2>1
  <2>3. s[i] = CHOOSE y \in T : Cardinality(Under(y)) = i - 1
    BY DEF Smallest
  <2>4. s[i] \in T /\ Cardinality(Under(s[i])) = i - 1
    <3> DEFINE Fits(y) == Cardinality(Under(y)) = i - 1
    <3>1. s[i] = CHOOSE y \in T : Fits(y)
      BY <2>3
    <3>2. Fits(x)
      BY <2>2
    <3> HIDE DEF Fits, s
    <3>3. s[i] \in T /\ Fits(s[i])
      BY <3>1, <3>2
    <3> QED
      BY <3>3 DEF Fits
  <2>5. Cardinality(Under(s[i])) + 1 = i
    <3> HIDE DEF Under, s
    <3> QED
      BY <1>1, <2>4
  <2> QED
    BY <2>4, <2>5
<1>8. s = [i \in 1..n |-> s[i]]
  <2> DEFINE at(i) == CHOOSE y \in T : Cardinality({m \in T : m < y}) = i - 1
  <2>1. s = [i \in 1..n |-> at(i)]
    BY DEF Smallest
  <2> HIDE DEF s, at
  <2> QED
    BY <2>1
<1> HIDE DEF s, rank, n
<1>9. \A x \in T : \E i \in 1..n : s[i] = x
  <2> SUFFICES ASSUME NEW x \in T PROVE \E i \in 1..n : s[i] = x
    OBVIOUS
  <2>1. rank[x] \in 1..n
    BY <1>4
  <2> QED
    BY <1>4, <1>7, <2>1
<1>10. Range(s) = T
  BY <1>6, <1>7, <1>9 DEF Range
<1>11. IsASequence(s)
  BY <1>1, <1>6, <1>7, <1>8, <1>10 DEF IsASequence
<1> QED
  BY <1>10, <1>11 DEF s

-----------------------------------------------------------------------------
(* Sequences of statements. *)

(* A sequence may be numbered from its range. *)
LEMMA SeqIsNumbered ==
  ASSUME NEW s, IsASequence(s)
  PROVE  Len(s) \in Nat /\ DOMAIN s = 1..Len(s) /\ \A i \in 1..Len(s) : s[i] \in Range(s)
BY DEF IsASequence, Range

LEMMA NumberedIsSeq ==
  ASSUME NEW n \in Nat, NEW s, s = [i \in 1..n |-> s[i]]
  PROVE  IsASequence(s) /\ Len(s) = n
<1>1. DOMAIN s = 1..n
  OBVIOUS
<1>2. \A i \in 1..n : s[i] \in Range(s)
  BY <1>1 DEF Range
<1>3. s \in Seq(Range(s))
  BY <1>2
<1> QED
  BY <1>1, <1>3 DEF IsASequence

LEMMA ConcatHasBoth ==
  ASSUME NEW r, NEW t, IsASequence(r), IsASequence(t)
  PROVE  IsASequence(r \o t) /\ Range(r \o t) = Range(r) \cup Range(t)
<1> DEFINE A == Range(r) \cup Range(t)
<1>1. r \in Seq(A) /\ t \in Seq(A)
  BY DEF IsASequence
<1>2. Range(r \o t) = A
  BY <1>1, RangeConcatenation
<1>3. r \o t \in Seq(A)
  BY <1>1
<1> QED
  BY <1>2, <1>3 DEF IsASequence

Glue(r, t) == r \o t

(* f puts the first i parts of s together: the function from which FlattenSeq computes. *)
FlattenIs(f, n, s) == f = [i \in 1..n |-> IF i = 1 THEN s[i] ELSE Glue(f[i - 1], s[i])]

LEMMA FlattenIsDefined ==
  ASSUME NEW s
  PROVE  \A n \in Nat : \E f : FlattenIs(f, n, s)
<1> DEFINE N == {n \in Nat : \E f : FlattenIs(f, n, s)}
<1>1. 0 \in N
  <2> DEFINE f == [i \in 1..0 |-> s[i]]
  <2>1. FlattenIs(f, 0, s)
    BY DEF FlattenIs
  <2> HIDE DEF f
  <2> QED
    BY <2>1
<1>2. ASSUME NEW n \in Nat, n \in N PROVE n + 1 \in N
  <2>1. PICK f : FlattenIs(f, n, s)
    BY <1>2
  <2> DEFINE last == IF n = 0 THEN s[1] ELSE Glue(f[n], s[n + 1])
             g == [i \in 1..(n + 1) |-> IF i = n + 1 THEN last ELSE f[i]]
             h(i) == IF i = 1 THEN s[i] ELSE Glue(g[i - 1], s[i])
  <2>2. g[n + 1] = last /\ \A i \in 1..n : g[i] = f[i]
    <3> HIDE DEF last
    <3> QED
      OBVIOUS
  <2>3. \A i \in 1..n : f[i] = IF i = 1 THEN s[i] ELSE Glue(f[i - 1], s[i])
    BY <2>1 DEF FlattenIs
  <2>4. \A i \in 1..(n + 1) : g[i] = h(i)
    <3>1. CASE n = 0
      <4>1. g[1] = s[1] /\ 1..(n + 1) = {1}
        BY <2>2, <3>1
      <4>2. h(1) = s[1]
        OBVIOUS
      <4> HIDE DEF g, h
      <4> QED
        BY <4>1, <4>2
    <3>2. CASE n # 0
      <4>1. g[n + 1] = Glue(f[n], s[n + 1]) /\ g[n] = f[n] /\ n + 1 # 1 /\ n + 1 - 1 = n
        <5>1. last = Glue(f[n], s[n + 1])
          BY <3>2
        <5>2. n \in 1..n
          BY <3>2
        <5> HIDE DEF g, last
        <5> QED
          BY <2>2, <5>1, <5>2
      <4>2. h(n + 1) = Glue(g[n], s[n + 1])
        BY <4>1
      <4>3. ASSUME NEW i \in 1..n PROVE g[i] = h(i)
        <5>1. CASE i = 1
          BY <2>2, <2>3, <5>1
        <5>2. CASE i # 1
          <6>1. i - 1 \in 1..n
            BY <5>2
          <6>2. g[i - 1] = f[i - 1] /\ g[i] = f[i] /\ f[i] = Glue(f[i - 1], s[i])
            BY <2>2, <2>3, <5>2, <6>1
          <6> HIDE DEF g
          <6> QED
            BY <5>2, <6>2
        <5> QED
          BY <5>1, <5>2
      <4> HIDE DEF g, h
      <4> QED
        BY <4>1, <4>2, <4>3
    <3> QED
      BY <3>1, <3>2
  <2>5. g = [i \in 1..(n + 1) |-> g[i]]
    OBVIOUS
  <2> HIDE DEF g
  <2>6. FlattenIs(g, n + 1, s)
    BY <2>4, <2>5 DEF FlattenIs
  <2> QED
    BY <2>6
<1> HIDE DEF N
<1>3. \A n \in Nat : n \in N
  BY <1>1, <1>2, CountUp
<1> QED
  BY <1>3 DEF N

(* Sequences put together hold what each of them holds. *)
LEMMA FlattenHasAll ==
  ASSUME NEW s, IsASequence(s), \A i \in DOMAIN s : IsASequence(s[i])
  PROVE  /\ IsASequence(FlattenSeq(s))
         /\ Range(FlattenSeq(s)) = UNION {Range(s[i]) : i \in DOMAIN s}
<1> DEFINE n == Len(s)
           f == CHOOSE f : FlattenIs(f, n, s)
           U(i) == UNION {Range(s[j]) : j \in 1..i}
           N == {k \in Nat : k + 1 \in 1..n => IsASequence(f[k + 1]) /\ Range(f[k + 1]) = U(k + 1)}
<1>1. n \in Nat /\ DOMAIN s = 1..n
  BY SeqIsNumbered
<1>2. FlattenIs(f, n, s)
  BY <1>1, FlattenIsDefined, Zenon
<1>3. FlattenSeq(s) = IF n = 0 THEN s ELSE f[n]
  BY DEF FlattenSeq, FlattenIs, Glue
<1> HIDE DEF f, n
<1>4. \A i \in 1..n : f[i] = IF i = 1 THEN s[i] ELSE Glue(f[i - 1], s[i])
  BY <1>2 DEF FlattenIs
<1>5. 0 \in N
  <2> SUFFICES ASSUME 0 + 1 \in 1..n PROVE IsASequence(f[0 + 1]) /\ Range(f[0 + 1]) = U(0 + 1)
    OBVIOUS
  <2>1. f[1] = s[1] /\ IsASequence(s[1])
    BY <1>1, <1>4
  <2>2. U(1) = Range(s[1])
    <3>1. 1..1 = {1}
      OBVIOUS
    <3> QED
      BY <3>1
  <2> HIDE DEF U
  <2> QED
    BY <2>1, <2>2
<1>6. ASSUME NEW k \in Nat, k \in N PROVE k + 1 \in N
  <2> SUFFICES ASSUME k + 1 + 1 \in 1..n
               PROVE  IsASequence(f[k + 1 + 1]) /\ Range(f[k + 1 + 1]) = U(k + 1 + 1)
    OBVIOUS
  <2>1. k + 1 \in 1..n /\ k + 1 + 1 # 1 /\ k + 1 + 1 - 1 = k + 1
    BY <1>1
  <2>2. f[k + 1 + 1] = Glue(f[k + 1], s[k + 1 + 1])
    BY <1>4, <2>1
  <2>3. IsASequence(f[k + 1]) /\ Range(f[k + 1]) = U(k + 1) /\ IsASequence(s[k + 1 + 1])
    BY <1>1, <1>6, <2>1
  <2>4. IsASequence(f[k + 1 + 1]) /\ Range(f[k + 1 + 1]) = U(k + 1) \cup Range(s[k + 1 + 1])
    <3> HIDE DEF U
    <3> QED
      BY <2>2, <2>3, ConcatHasBoth DEF Glue
  <2>5. 1..(k + 1 + 1) = (1..(k + 1)) \cup {k + 1 + 1}
    OBVIOUS
  <2>6. U(k + 1 + 1) = U(k + 1) \cup Range(s[k + 1 + 1])
    BY <2>5
  <2> QED
    BY <2>4, <2>6
<1>7. \A k \in Nat : k \in N
  <2> HIDE DEF N
  <2> QED
    BY <1>5, <1>6, CountUp
<1>8. CASE n = 0
  <2>1. FlattenSeq(s) = s /\ DOMAIN s = {}
    BY <1>1, <1>3, <1>8
  <2>2. Range(s) = {}
    BY <2>1 DEF Range
  <2> QED
    BY <2>1, <2>2
<1>9. CASE n # 0
  <2>1. n - 1 \in Nat /\ n - 1 + 1 = n /\ n \in 1..n
    BY <1>1, <1>9
  <2>2. n - 1 \in N
    BY <1>7, <2>1
  <2>3. n - 1 + 1 \in 1..n => IsASequence(f[n - 1 + 1]) /\ Range(f[n - 1 + 1]) = U(n - 1 + 1)
    BY <2>2
  <2>4. IsASequence(f[n]) /\ Range(f[n]) = U(n)
    BY <2>1, <2>3
  <2> QED
    BY <1>1, <1>3, <1>9, <2>4
<1> QED
  BY <1>8, <1>9

-----------------------------------------------------------------------------
(* What the transaction of an upload writes. *)

Own(rows, S) == {n \in S : rows[n].org = Org}

LEMMA OfOrgListsOwn ==
  ASSUME NEW rows, IsASequence(rows), NEW S \in SUBSET DOMAIN rows
  PROVE  IsASequence(OfOrg(rows, S)) /\ Range(OfOrg(rows, S)) = Own(rows, S)
<1>1. OfOrg(rows, S) = Smallest(Own(rows, S))
  BY DEF OfOrg, Smallest, Own
<1>2. Len(rows) \in Nat /\ DOMAIN rows = 1..Len(rows)
  BY SeqIsNumbered
<1>3. IsFiniteSet(1..Len(rows))
  BY <1>2, FS_Interval
<1>4. Own(rows, S) \in SUBSET (1..Len(rows))
  BY <1>2 DEF Own
<1>5. IsFiniteSet(Own(rows, S)) /\ Own(rows, S) \in SUBSET Nat
  BY <1>2, <1>3, <1>4, FS_Subset
<1> QED
  BY <1>1, <1>5, SmallestListsAll

(* One statement for each member of a sequence. *)
LEMMA OneForEach ==
  ASSUME NEW kept, IsASequence(kept), NEW rest, rest = [i \in DOMAIN kept |-> rest[i]]
  PROVE  IsASequence(rest) /\ Range(rest) = {rest[i] : i \in DOMAIN kept}
<1>1. Len(kept) \in Nat /\ DOMAIN kept = 1..Len(kept)
  BY SeqIsNumbered
<1>2. IsASequence(rest)
  BY <1>1, NumberedIsSeq
<1>3. DOMAIN rest = DOMAIN kept
  OBVIOUS
<1> QED
  BY <1>2, <1>3 DEF Range

LEMMA FirstThenEach ==
  ASSUME NEW first, NEW kept, IsASequence(kept), NEW rest, rest = [i \in DOMAIN kept |-> rest[i]]
  PROVE  IsASequence(<<first>> \o rest) /\ Range(<<first>> \o rest) = {first} \cup {rest[i] : i \in DOMAIN kept}
<1>1. IsASequence(<<first>>) /\ Range(<<first>>) = {first}
  BY DEF IsASequence, Range
<1>2. IsASequence(rest) /\ Range(rest) = {rest[i] : i \in DOMAIN kept}
  BY OneForEach
<1> QED
  BY <1>1, <1>2, ConcatHasBoth

LEMMA OverPodsHasAll ==
  ASSUME NEW inserts, \A pod \in Range(Pods) : IsASequence(inserts[pod])
  PROVE  /\ IsASequence(OverPods(inserts))
         /\ Range(OverPods(inserts)) = UNION {Range(inserts[pod]) : pod \in Range(Pods)}
<1> DEFINE s == [i \in DOMAIN Pods |-> inserts[Pods[i]]]
<1>1. IsASequence(Pods)
  BY FilesAssumption
<1>2. Len(Pods) \in Nat /\ DOMAIN Pods = 1..Len(Pods)
  BY <1>1, SeqIsNumbered
<1>3. s = [i \in DOMAIN Pods |-> s[i]]
  OBVIOUS
<1>4. DOMAIN s = DOMAIN Pods /\ \A i \in DOMAIN Pods : s[i] = inserts[Pods[i]] /\ Pods[i] \in Range(Pods)
  BY DEF Range
<1>5. OverPods(inserts) = FlattenSeq(s)
  BY DEF OverPods
<1> HIDE DEF s
<1>6. IsASequence(s)
  BY <1>1, <1>3, OneForEach
<1>7. IsASequence(FlattenSeq(s)) /\ Range(FlattenSeq(s)) = UNION {Range(s[i]) : i \in DOMAIN s}
  BY <1>4, <1>6, FlattenHasAll
<1>8. \A pod \in Range(Pods) : \E i \in DOMAIN Pods : Pods[i] = pod
  BY DEF Range
<1>9. UNION {Range(s[i]) : i \in DOMAIN s} = UNION {Range(inserts[pod]) : pod \in Range(Pods)}
  BY <1>4, <1>8
<1> QED
  BY <1>5, <1>7, <1>9

OwnRecords(f, pod) == Own(f.upstream[pod], Records(pod, f.upstream[pod]))

LEMMA ChargeInsertsAre ==
  ASSUME NEW f \in Files
  PROVE  /\ IsASequence(ChargeInserts(f))
         /\ Range(ChargeInserts(f)) =
              {FileRow(f.report)} \cup {ChargeRow(f.report[n]) : n \in Own(f.report, Charges(f.report))}
<1> DEFINE kept == OfOrg(f.report, Charges(f.report))
           rest == [i \in DOMAIN kept |-> ChargeRow(f.report[kept[i]])]
<1>1. IsASequence(f.report)
  BY FilesAssumption
<1>2. Charges(f.report) \in SUBSET DOMAIN f.report
  BY DEF Charges, BuiltCharges
<1>3. IsASequence(kept) /\ Range(kept) = Own(f.report, Charges(f.report))
  BY <1>1, <1>2, OfOrgListsOwn
<1>4. rest = [i \in DOMAIN kept |-> rest[i]] /\ \A i \in DOMAIN kept : rest[i] = ChargeRow(f.report[kept[i]])
  <2> HIDE DEF kept
  <2> QED OBVIOUS
<1>5. ChargeInserts(f) = <<FileRow(f.report)>> \o rest
  BY DEF ChargeInserts
<1> HIDE DEF kept, rest
<1>6. IsASequence(ChargeInserts(f)) /\ Range(ChargeInserts(f)) = {FileRow(f.report)} \cup {rest[i] : i \in DOMAIN kept}
  BY <1>3, <1>4, <1>5, FirstThenEach
<1>7. {rest[i] : i \in DOMAIN kept} = {ChargeRow(f.report[n]) : n \in Own(f.report, Charges(f.report))}
  BY <1>3, <1>4 DEF Range
<1> QED
  BY <1>6, <1>7

LEMMA KeptRecordsAre ==
  ASSUME NEW f \in Files, NEW pod \in Range(Pods)
  PROVE  IsASequence(KeptRecords(f, pod)) /\ Range(KeptRecords(f, pod)) = OwnRecords(f, pod)
<1>1. IsASequence(f.upstream[pod])
  BY FilesAssumption
<1>2. Records(pod, f.upstream[pod]) \in SUBSET DOMAIN f.upstream[pod]
  BY DEF Records, BuiltRecords
<1> QED
  BY <1>1, <1>2, OfOrgListsOwn DEF KeptRecords, OwnRecords

LEMMA RecordInsertsAre ==
  ASSUME NEW f \in Files, NEW pod \in Range(Pods)
  PROVE  /\ IsASequence(RecordInserts(f, pod))
         /\ Range(RecordInserts(f, pod)) =
              {FileRow(f.upstream[pod])}
                \cup {RecordRow(pod, f.upstream[pod], n) : n \in OwnRecords(f, pod)}
<1> DEFINE rows == f.upstream[pod]
           kept == KeptRecords(f, pod)
           rest == [i \in DOMAIN kept |-> RecordRow(pod, rows, kept[i])]
<1>1. IsASequence(kept) /\ Range(kept) = OwnRecords(f, pod)
  BY KeptRecordsAre
<1>2. rest = [i \in DOMAIN kept |-> rest[i]] /\ \A i \in DOMAIN kept : rest[i] = RecordRow(pod, rows, kept[i])
  <2> HIDE DEF kept, rows
  <2> QED OBVIOUS
<1>3. RecordInserts(f, pod) = <<FileRow(rows)>> \o rest
  BY DEF RecordInserts
<1> HIDE DEF kept, rest, rows
<1>4. IsASequence(RecordInserts(f, pod)) /\ Range(RecordInserts(f, pod)) = {FileRow(rows)} \cup {rest[i] : i \in DOMAIN kept}
  BY <1>1, <1>2, <1>3, FirstThenEach
<1>5. {rest[i] : i \in DOMAIN kept} = {RecordRow(pod, rows, n) : n \in OwnRecords(f, pod)}
  BY <1>1, <1>2 DEF Range
<1> QED
  BY <1>4, <1>5 DEF rows

LEMMA AttachmentInsertsAre ==
  ASSUME NEW f \in Files, NEW pod \in Range(Pods)
  PROVE  /\ IsASequence(AttachmentInserts(f, pod))
         /\ \A r : r \in Range(AttachmentInserts(f, pod)) <=>
              \E n \in OwnRecords(f, pod) : \E j \in DOMAIN f.upstream[pod][n].photos :
                r = AttachmentRow(pod, f.upstream[pod][n].id, f.upstream[pod][n].photos[j])
<1> DEFINE rows == f.upstream[pod]
           kept == KeptRecords(f, pod)
           of(n) == [j \in DOMAIN rows[n].photos |-> AttachmentRow(pod, rows[n].id, rows[n].photos[j])]
           s == [i \in DOMAIN kept |-> of(kept[i])]
<1>1. IsASequence(kept) /\ Range(kept) = OwnRecords(f, pod)
  BY KeptRecordsAre
<1>2. OwnRecords(f, pod) \in SUBSET DOMAIN rows
  BY DEF OwnRecords, Own, Records, BuiltRecords
<1>3. ASSUME NEW n \in OwnRecords(f, pod)
      PROVE  IsASequence(of(n)) /\ Range(of(n)) = {AttachmentRow(pod, rows[n].id, rows[n].photos[j]) : j \in DOMAIN rows[n].photos}
  <2>1. rows[n] \in Range(rows)
    BY <1>2 DEF Range
  <2>2. IsASequence(rows[n].photos)
    BY <2>1, FilesAssumption
  <2>3. of(n) = [j \in DOMAIN rows[n].photos |-> of(n)[j]]
    OBVIOUS
  <2>4. IsASequence(of(n)) /\ Range(of(n)) = {of(n)[j] : j \in DOMAIN rows[n].photos}
    <3> HIDE DEF of
    <3> QED
      BY <2>2, <2>3, OneForEach
  <2> QED
    BY <2>4
<1>4. AttachmentInserts(f, pod) = FlattenSeq(s)
  BY DEF AttachmentInserts
<1> HIDE DEF of, kept, rows
<1>5. DOMAIN s = DOMAIN kept /\ s = [i \in DOMAIN kept |-> s[i]]
      /\ \A i \in DOMAIN kept : s[i] = of(kept[i]) /\ kept[i] \in OwnRecords(f, pod)
  BY <1>1 DEF Range
<1> HIDE DEF s
<1>6. IsASequence(s)
  BY <1>1, <1>5, OneForEach
<1>7. IsASequence(FlattenSeq(s)) /\ Range(FlattenSeq(s)) = UNION {Range(s[i]) : i \in DOMAIN s}
  BY <1>3, <1>5, <1>6, FlattenHasAll
<1>8. \A n \in OwnRecords(f, pod) : \E i \in DOMAIN kept : kept[i] = n
  BY <1>1 DEF Range
<1>9. \A r : r \in UNION {Range(s[i]) : i \in DOMAIN s} <=> \E n \in OwnRecords(f, pod) : r \in Range(of(n))
  BY <1>5, <1>8
<1>10. \A r : r \in Range(AttachmentInserts(f, pod)) <=>
         \E n \in OwnRecords(f, pod) : \E j \in DOMAIN rows[n].photos :
           r = AttachmentRow(pod, rows[n].id, rows[n].photos[j])
  <2>1. \A r : r \in Range(AttachmentInserts(f, pod)) <=> \E n \in OwnRecords(f, pod) : r \in Range(of(n))
    BY <1>4, <1>7, <1>9
  <2>2. ASSUME NEW n \in OwnRecords(f, pod), NEW r
        PROVE  r \in Range(of(n)) <=>
                 \E j \in DOMAIN rows[n].photos : r = AttachmentRow(pod, rows[n].id, rows[n].photos[j])
    BY <1>3
  <2> QED
    BY <2>1, <2>2
<1> QED
  BY <1>4, <1>7, <1>10 DEF rows

(* The rows that an upload sends, table by table. *)
LEMMA InsertsAre ==
  ASSUME NEW f \in Files
  PROVE  /\ IsASequence(Inserts(f))
         /\ \A r : r \in Range(Inserts(f)) <=>
              \/ r \in Range(ChargeInserts(f))
              \/ \E pod \in Range(Pods) : r \in Range(RecordInserts(f, pod))
              \/ \E pod \in Range(Pods) : r \in Range(AttachmentInserts(f, pod))
<1> DEFINE records == [pod \in Range(Pods) |-> RecordInserts(f, pod)]
           attachments == [pod \in Range(Pods) |-> AttachmentInserts(f, pod)]
<1>1. \A pod \in Range(Pods) : records[pod] = RecordInserts(f, pod) /\ attachments[pod] = AttachmentInserts(f, pod)
  OBVIOUS
<1>2. Inserts(f) = ChargeInserts(f) \o OverPods(records) \o OverPods(attachments)
  BY DEF Inserts
<1> HIDE DEF records, attachments
<1>3. \A pod \in Range(Pods) : IsASequence(records[pod]) /\ IsASequence(attachments[pod])
  BY <1>1, RecordInsertsAre, AttachmentInsertsAre
<1>4. IsASequence(OverPods(records)) /\ Range(OverPods(records)) = UNION {Range(records[pod]) : pod \in Range(Pods)}
  BY <1>3, OverPodsHasAll
<1>5. IsASequence(OverPods(attachments)) /\ Range(OverPods(attachments)) = UNION {Range(attachments[pod]) : pod \in Range(Pods)}
  BY <1>3, OverPodsHasAll
<1>6. IsASequence(ChargeInserts(f))
  BY ChargeInsertsAre
<1> DEFINE first == ChargeInserts(f) \o OverPods(records)
<1>7. IsASequence(first) /\ Range(first) = Range(ChargeInserts(f)) \cup Range(OverPods(records))
  BY <1>4, <1>6, ConcatHasBoth
<1>8. Inserts(f) = first \o OverPods(attachments)
  BY <1>2
<1> HIDE DEF first
<1>9. IsASequence(Inserts(f)) /\ Range(Inserts(f)) = Range(first) \cup Range(OverPods(attachments))
  BY <1>5, <1>7, <1>8, ConcatHasBoth
<1> QED
  BY <1>1, <1>4, <1>5, <1>7, <1>9

-----------------------------------------------------------------------------
(* Type correctness. *)

LEMMA InsertsAreNumbered ==
  ASSUME NEW f \in Files
  PROVE  Len(Plan[f].inserts) \in Nat /\ DOMAIN Plan[f].inserts = 1..Len(Plan[f].inserts)
<1>1. Plan[f].inserts = Inserts(f)
  BY DEF Plan
<1>2. IsASequence(Inserts(f))
  BY InsertsAre
<1> QED
  BY <1>1, <1>2, SeqIsNumbered

(* Every variable keeps its type; what is stored or kept aside was sent by an upload
   that is done. *)
THEOREM TypeCorrect == Spec => []TypeOK
<1>1. Init => TypeOK
  <2> SUFFICES ASSUME Init PROVE TypeOK
    OBVIOUS
  <2>1. ASSUME NEW u \in Uploads PROVE next[u] \in 1..(Len(Sent(u).inserts) + 1)
    BY <2>1, InsertsAreNumbered DEF Init, Sent
  <2>2. QED BY <2>1 DEF Init, TypeOK, States
<1>2. TypeOK /\ [Next]_vars => TypeOK'
  <2> SUFFICES ASSUME TypeOK, [Next]_vars PROVE TypeOK'
    OBVIOUS
  <2>0. ASSUME NEW u \in Uploads
        PROVE  /\ Len(Sent(u).inserts) \in Nat /\ DOMAIN Sent(u).inserts = 1..Len(Sent(u).inserts)
               /\ Rows(u) \subseteq AllRows /\ Sent(u).bad \subseteq AllBad
    BY <2>0, InsertsAreNumbered DEF TypeOK, Sent, Rows, AllRows, AllBad
  <2>1. ASSUME NEW u \in Uploads, Load(u) PROVE TypeOK'
    <3>1. pc' \in [Uploads -> States] /\ \A v \in Uploads : pc[v] = "done" => pc'[v] = "done"
      BY <2>1 DEF Load, TypeOK, States
    <3>2. \A v \in Uploads : pc'[v] # "writing" => pending[v] = {}
      BY <2>1 DEF Load, TypeOK, States
    <3>3. \A r \in stored : \E v \in Uploads : pc'[v] = "done" /\ r \in Rows(v)
      BY <3>1 DEF TypeOK
    <3>4. \A q \in quarantined : pc'[q[1]] = "done" /\ q[2] \in Sent(q[1]).bad
      BY <3>1 DEF TypeOK
    <3>5. QED BY <2>1, <3>1, <3>2, <3>3, <3>4 DEF Load, TypeOK, Sent, Rows
  <2>2. ASSUME NEW u \in Uploads, Insert(u) PROVE TypeOK'
    <3>1. Current(u) \in Rows(u)
      BY <2>0, <2>2 DEF Insert, AtInsert, Current, Rows, Range, TypeOK
    <3>2. next' \in [Uploads -> Nat] /\ \A v \in Uploads : next'[v] \in 1..(Len(Sent(v).inserts) + 1)
      BY <2>0, <2>2 DEF Insert, AtInsert, TypeOK
    <3>3. pending' \in [Uploads -> SUBSET AllRows]
      BY <2>0, <2>2, <3>1 DEF Insert, TypeOK
    <3>4. \A v \in Uploads : pending'[v] \subseteq Rows(v) /\ (pc'[v] # "writing" => pending'[v] = {})
      BY <2>2, <3>1 DEF Insert, AtInsert, TypeOK
    <3>5. QED BY <2>2, <3>2, <3>3, <3>4 DEF Insert, TypeOK, Sent, Rows
  <2>3. ASSUME NEW u \in Uploads, Commit(u) PROVE TypeOK'
    <3>0. pc' \in [Uploads -> States] /\ pc'[u] = "done" /\ \A v \in Uploads : pc[v] = "done" => pc'[v] = "done"
      BY <2>3 DEF Commit, TypeOK, States
    <3>1. \A r \in stored' : \E v \in Uploads : pc'[v] = "done" /\ r \in Rows(v)
      BY <2>3, <3>0 DEF Commit, TypeOK
    <3>2. \A q \in quarantined' : q \in Uploads \X AllBad /\ pc'[q[1]] = "done" /\ q[2] \in Sent(q[1]).bad
      BY <2>0, <2>3, <3>0 DEF Commit, TypeOK
    <3>3. /\ pending' \in [Uploads -> SUBSET AllRows]
          /\ \A v \in Uploads : pending'[v] \subseteq Rows(v) /\ (pc'[v] # "writing" => pending'[v] = {})
      BY <2>3 DEF Commit, TypeOK
    <3>4. QED BY <2>3, <3>0, <3>1, <3>2, <3>3 DEF Commit, TypeOK, Sent, Rows
  <2>4. ASSUME NEW u \in Uploads, RollBack(u), pc[u] = "writing" PROVE TypeOK'
    <3>1. pc' \in [Uploads -> States] /\ \A v \in Uploads : pc[v] = "done" => pc'[v] = "done"
      BY <2>4 DEF RollBack, TypeOK, States
    <3>2. /\ pending' \in [Uploads -> SUBSET AllRows]
          /\ \A v \in Uploads : pending'[v] \subseteq Rows(v) /\ (pc'[v] # "writing" => pending'[v] = {})
      BY <2>4 DEF RollBack, TypeOK
    <3>3. \A r \in stored : \E v \in Uploads : pc'[v] = "done" /\ r \in Rows(v)
      BY <3>1 DEF TypeOK
    <3>4. \A q \in quarantined : pc'[q[1]] = "done" /\ q[2] \in Sent(q[1]).bad
      BY <3>1 DEF TypeOK
    <3>5. QED BY <2>4, <3>1, <3>2, <3>3, <3>4 DEF RollBack, TypeOK, Sent, Rows
  <2>5. CASE UNCHANGED vars
    BY <2>5 DEF vars, TypeOK, Sent, Rows
  <2>6. QED BY <2>1, <2>2, <2>3, <2>4, <2>5 DEF Next, Serve, Abort, BreakDeadlock
<1>3. QED BY <1>1, <1>2, PTL DEF Spec

-----------------------------------------------------------------------------
(* What a transaction under way has done so far. *)

InsertsOf(u) == Sent(u).inserts

FirstRows(u) == FirstOf(InsertsOf(u))

(* What the plan keeps of an upload's files is what its statements bring. *)
LEMMA BringsFirstRows ==
  ASSUME files \in [Uploads -> Files], NEW u \in Uploads
  PROVE  Sent(u).brings = [rows |-> FirstRows(u), bad |-> Sent(u).bad]
BY DEF Sent, Plan, FirstRows, InsertsOf

(* The key of every statement it has executed is stored or held by it. *)
Executed ==
  \A u \in Uploads : pc[u] \in {"sent", "writing"} =>
    \A i \in 1..(next[u] - 1) : HasKey(stored \cup pending[u], InsertsOf(u)[i][1])

(* What it holds was not stored, and is the first it sends under its key. *)
HeldIsNew ==
  \A u \in Uploads : \A r \in pending[u] :
    /\ ~HasKey(stored, r[1])
    /\ r \in FirstRows(u)

(* No key is held twice. *)
HeldOnce ==
  \A u, v \in Uploads : \A r \in pending[u], s \in pending[v] : r[1] = s[1] => u = v

WriteInv == Executed /\ HeldIsNew /\ HeldOnce

(* The first statement of a key is one: two first rows of a key are the same row. *)
LEMMA FirstRowsDiffer ==
  ASSUME TypeOK, NEW u \in Uploads, NEW r \in FirstRows(u), NEW s \in FirstRows(u), r[1] = s[1]
  PROVE  r = s
<1>0. DOMAIN InsertsOf(u) = 1..Len(InsertsOf(u)) /\ Len(InsertsOf(u)) \in Nat
  BY InsertsAreNumbered DEF TypeOK, Sent, InsertsOf
<1>1. PICK i \in DOMAIN InsertsOf(u) : r = InsertsOf(u)[i] /\ \A k \in 1..(i - 1) : InsertsOf(u)[k][1] # InsertsOf(u)[i][1]
  BY DEF FirstRows, FirstOf, InsertsOf
<1>2. PICK j \in DOMAIN InsertsOf(u) : s = InsertsOf(u)[j] /\ \A k \in 1..(j - 1) : InsertsOf(u)[k][1] # InsertsOf(u)[j][1]
  BY DEF FirstRows, FirstOf, InsertsOf
<1>3. ~(i < j) /\ ~(j < i)
  BY <1>0, <1>1, <1>2
<1>4. QED BY <1>0, <1>1, <1>2, <1>3

(* An INSERT that finds its key neither stored nor held is the first of its key. *)
LEMMA NewKeyIsFirst ==
  ASSUME TypeOK, WriteInv, NEW u \in Uploads, AtInsert(u),
         ~HasKey(stored \cup pending[u], Current(u)[1])
  PROVE  Current(u) \in FirstRows(u)
<1>0. DOMAIN InsertsOf(u) = 1..Len(InsertsOf(u)) /\ Len(InsertsOf(u)) \in Nat
  BY InsertsAreNumbered DEF TypeOK, Sent, InsertsOf
<1>1. next[u] \in DOMAIN InsertsOf(u)
  BY <1>0 DEF AtInsert, TypeOK, InsertsOf
<1>2. \A k \in 1..(next[u] - 1) : InsertsOf(u)[k][1] # InsertsOf(u)[next[u]][1]
  BY DEF WriteInv, Executed, AtInsert, Current, InsertsOf
<1>3. QED BY <1>1, <1>2 DEF FirstRows, FirstOf, Current, InsertsOf

THEOREM WriteInvariant == Spec => []WriteInv
<1>1. Init => WriteInv
  BY DEF Init, WriteInv, Executed, HeldIsNew, HeldOnce
<1>2. TypeOK /\ WriteInv /\ [Next]_vars => WriteInv'
  <2> SUFFICES ASSUME TypeOK, WriteInv, [Next]_vars PROVE WriteInv'
    OBVIOUS
  <2> USE DEF InsertsOf
  <2>1. ASSUME NEW u \in Uploads, Load(u) PROVE WriteInv'
    <3>1. Executed'
      BY <2>1 DEF Load, WriteInv, Executed, TypeOK, HasKey, Sent
    <3>2. HeldIsNew' /\ HeldOnce'
      BY <2>1 DEF Load, WriteInv, HeldIsNew, HeldOnce, HasKey, FirstRows, Sent
    <3>3. QED BY <3>1, <3>2 DEF WriteInv
  <2>2. ASSUME NEW u \in Uploads, Insert(u) PROVE WriteInv'
    <3> DEFINE key == Current(u)[1]
               known == HasKey(stored \cup pending[u], key)
    <3>0. /\ AtInsert(u) /\ pc[u] = "writing" /\ next[u] \in Nat
          /\ \A v \in Uploads : InsertsOf(v)' = InsertsOf(v) /\ FirstRows(v)' = FirstRows(v)
      BY <2>2 DEF Insert, AtInsert, TypeOK, Sent, FirstRows
    <3>1. /\ next'[u] = next[u] + 1 /\ pending'[u] = (IF known THEN pending[u] ELSE pending[u] \cup {Current(u)})
          /\ \A v \in Uploads \ {u} : next'[v] = next[v] /\ pending'[v] = pending[v]
          /\ UNCHANGED <<stored, pc>>
      BY <2>2 DEF Insert, TypeOK
    <3>2. Executed'
      <4> SUFFICES ASSUME NEW v \in Uploads, pc[v] \in {"sent", "writing"}, NEW i \in 1..(next'[v] - 1)
                   PROVE  HasKey(stored \cup pending'[v], InsertsOf(v)[i][1])
        BY <3>0, <3>1 DEF Executed
      <4>1. CASE v # u \/ i # next[u]
        <5>1. i \in 1..(next[v] - 1)
          BY <3>0, <3>1, <4>1 DEF TypeOK
        <5>2. QED BY <3>1, <5>1 DEF WriteInv, Executed, HasKey
      <4>2. CASE v = u /\ i = next[u]
        BY <3>1, <4>2 DEF HasKey, Current
      <4>3. QED BY <4>1, <4>2
    <3>3. HeldIsNew'
      <4>1. ~known => Current(u) \in FirstRows(u) /\ ~HasKey(stored, key)
        BY <3>0, NewKeyIsFirst DEF HasKey
      <4>2. QED BY <3>0, <3>1, <4>1 DEF WriteInv, HeldIsNew, HasKey
    <3>4. HeldOnce'
      <4>1. \A v \in Uploads \ {u} : ~HasKey(pending[v], key)
        BY <2>2 DEF Insert, WaitsFor
      <4>2. QED BY <3>1, <4>1 DEF WriteInv, HeldOnce, HasKey
    <3>5. QED BY <3>2, <3>3, <3>4 DEF WriteInv
  <2>3. ASSUME NEW u \in Uploads, Commit(u) PROVE WriteInv'
    <3>0. /\ pc'[u] = "done" /\ pending'[u] = {} /\ stored' = stored \cup pending[u] /\ next' = next
          /\ \A v \in Uploads \ {u} : pc'[v] = pc[v] /\ pending'[v] = pending[v]
          /\ \A v \in Uploads : InsertsOf(v)' = InsertsOf(v) /\ FirstRows(v)' = FirstRows(v)
      BY <2>3 DEF Commit, TypeOK, Sent, FirstRows
    <3>1. Executed'
      BY <3>0 DEF WriteInv, Executed, HasKey
    <3>2. HeldIsNew'
      BY <3>0 DEF WriteInv, HeldIsNew, HeldOnce, HasKey
    <3>3. HeldOnce'
      BY <3>0 DEF WriteInv, HeldOnce
    <3>4. QED BY <3>1, <3>2, <3>3 DEF WriteInv
  <2>4. ASSUME NEW u \in Uploads, RollBack(u) PROVE WriteInv'
    <3>0. /\ pc'[u] = "aborted" /\ pending'[u] = {} /\ stored' = stored /\ next' = next
          /\ \A v \in Uploads \ {u} : pc'[v] = pc[v] /\ pending'[v] = pending[v]
          /\ \A v \in Uploads : InsertsOf(v)' = InsertsOf(v) /\ FirstRows(v)' = FirstRows(v)
      BY <2>4 DEF RollBack, TypeOK, Sent, FirstRows
    <3>1. QED BY <3>0 DEF WriteInv, Executed, HeldIsNew, HeldOnce
  <2>5. CASE UNCHANGED vars
    BY <2>5 DEF vars, WriteInv, Executed, HeldIsNew, HeldOnce, HasKey, FirstRows, Sent
  <2>6. QED BY <2>1, <2>2, <2>3, <2>4, <2>5 DEF Next, Serve, Abort, BreakDeadlock
<1>3. QED BY <1>1, <1>2, TypeCorrect, PTL DEF Spec

-----------------------------------------------------------------------------
(* What is there once an upload is done. *)

(* Every row that a done upload sent has its key stored, and what it kept aside is
   among the quarantined rows. *)
Complete ==
  \A u \in Uploads : pc[u] = "done" =>
    /\ \A r \in Rows(u) : HasKey(stored, r[1])
    /\ {u} \X Sent(u).bad \subseteq quarantined

THEOREM DoneUploadsAreComplete == Spec => []Complete
<1>1. Init => Complete
  BY DEF Init, Complete
<1>2. TypeOK /\ WriteInv /\ Complete /\ [Next]_vars => Complete'
  <2> SUFFICES ASSUME TypeOK, WriteInv, Complete, [Next]_vars PROVE Complete'
    OBVIOUS
  <2>1. ASSUME NEW u \in Uploads, Commit(u) PROVE Complete'
    <3>0. /\ stored' = stored \cup pending[u] /\ quarantined' = quarantined \cup ({u} \X Sent(u).bad)
          /\ \A v \in Uploads \ {u} : pc'[v] = pc[v]
          /\ \A v \in Uploads : Rows(v)' = Rows(v) /\ Sent(v)' = Sent(v)
      BY <2>1 DEF Commit, TypeOK, Rows, Sent
    <3>1. ASSUME NEW r \in Rows(u) PROVE HasKey(stored', r[1])
      <4>0. DOMAIN InsertsOf(u) = 1..Len(InsertsOf(u)) /\ Len(InsertsOf(u)) \in Nat /\ next[u] \in Nat
        BY InsertsAreNumbered DEF TypeOK, Sent, InsertsOf
      <4>1. PICK i \in DOMAIN InsertsOf(u) : r = InsertsOf(u)[i]
        BY DEF Rows, Range, InsertsOf
      <4>2. i \in 1..(next[u] - 1) /\ pc[u] = "writing"
        BY <2>1, <4>0, <4>1 DEF Commit, InsertsOf
      <4> QED
        BY <3>0, <4>1, <4>2 DEF WriteInv, Executed
    <3> QED
      BY <3>0, <3>1 DEF Complete, HasKey
  <2>2. ASSUME UNCHANGED <<files, stored, quarantined>>, \A u \in Uploads : pc'[u] = "done" => pc[u] = "done"
        PROVE  Complete'
    <3>1. \A v \in Uploads : Rows(v)' = Rows(v) /\ Sent(v)' = Sent(v)
      BY <2>2 DEF Rows, Sent
    <3> QED
      BY <2>2, <3>1 DEF Complete, HasKey
  <2>3. ASSUME NEW u \in Uploads, Load(u) \/ Insert(u) \/ RollBack(u) PROVE Complete'
    BY <2>2, <2>3 DEF Load, Insert, RollBack, TypeOK
  <2>4. CASE UNCHANGED vars
    BY <2>2, <2>4 DEF vars
  <2> QED
    BY <2>1, <2>3, <2>4 DEF Next, Serve, Abort, BreakDeadlock
<1> QED
  BY <1>1, <1>2, TypeCorrect, WriteInvariant, PTL DEF Spec

(* What the plan holds of the files that an upload sent. *)
LEMMA SentIs ==
  ASSUME files \in [Uploads -> Files], NEW u \in Uploads
  PROVE  files[u] \in Files /\ Rows(u) = Range(Inserts(files[u])) /\ Sent(u).bad = BadRows(files[u])
BY DEF Rows, Sent, Plan

(* A row that is not loaded is bad, and quarantined when it is the organisation's. *)
LEMMA BadRowIsQuarantined ==
  ASSUME TypeOK, Complete, NEW u \in Uploads, pc[u] = "done"
  PROVE  /\ \A n \in BadCharges(files[u].report) :
              files[u].report[n].org = Org => <<u, <<"charges", n>> >> \in quarantined
         /\ \A pod \in Range(Pods) : \A n \in BadRecords(pod, files[u].upstream[pod]) :
              files[u].upstream[pod][n].org \in {Blank, Org} => <<u, <<pod, n>> >> \in quarantined
<1>1. \A b \in BadRows(files[u]) : <<u, b>> \in quarantined
  BY SentIs DEF Complete, TypeOK
<1>2. ASSUME NEW n \in BadCharges(files[u].report), files[u].report[n].org = Org
      PROVE  <<"charges", n>> \in BadRows(files[u])
  BY <1>2 DEF BadRows, OwnBad
<1>3. ASSUME NEW pod \in Range(Pods), NEW n \in BadRecords(pod, files[u].upstream[pod]),
             files[u].upstream[pod][n].org \in {Blank, Org}
      PROVE  <<pod, n>> \in BadRows(files[u])
  <2>1. <<pod, n>> \in OwnBad(pod, files[u].upstream[pod], BadRecords(pod, files[u].upstream[pod]))
    BY <1>3 DEF OwnBad
  <2> QED
    BY <2>1 DEF BadRows
<1> QED
  BY <1>1, <1>2, <1>3

(* After an upload each row of its files that the organisation may see is loaded,
   or a row of its id before it is, or it is quarantined. *)
THEOREM NothingIsDropped == Spec => []NoRowIsDropped
<1>1. TypeOK /\ Complete => NoRowIsDropped
  <2> SUFFICES ASSUME TypeOK, Complete, NEW u \in Uploads, pc[u] = "done"
               PROVE  /\ \A n \in DOMAIN files[u].report :
                           files[u].report[n].org = Org => Kept(u, "charges", files[u].report, n)
                      /\ \A pod \in Range(Pods) : \A n \in DOMAIN files[u].upstream[pod] :
                           files[u].upstream[pod][n].org \in {Blank, Org}
                             => Kept(u, pod, files[u].upstream[pod], n)
    BY DEF NoRowIsDropped
  <2>0. files[u] \in Files /\ Rows(u) = Range(Inserts(files[u]))
    BY SentIs DEF TypeOK
  <2>1. ASSUME NEW n \in DOMAIN files[u].report, files[u].report[n].org = Org
        PROVE  Kept(u, "charges", files[u].report, n)
    <3> DEFINE rows == files[u].report
    <3>1. Len(rows) \in Nat /\ DOMAIN rows = 1..Len(rows)
      BY <2>0, FilesAssumption, SeqIsNumbered
    <3>2. CASE n \in BadCharges(rows)
      BY <2>1, <3>2, BadRowIsQuarantined DEF Kept
    <3>3. CASE n \in Charges(rows)
      <4>1. n \in Own(rows, Charges(rows))
        BY <2>1, <3>3 DEF Own
      <4>2. ChargeRow(rows[n]) \in Range(ChargeInserts(files[u]))
        BY <2>0, <4>1, ChargeInsertsAre
      <4>3. ChargeRow(rows[n]) \in Rows(u)
        BY <2>0, <4>2, InsertsAre
      <4>4. HasKey(stored, <<"charges", rows[n].id>>)
        <5>1. HasKey(stored, ChargeRow(rows[n])[1])
          BY <4>3 DEF Complete
        <5> QED
          BY <5>1 DEF ChargeRow
      <4>5. ASSUME NEW m \in 1..(n - 1), rows[m].org = rows[n].org, rows[m].id = rows[n].id
            PROVE  <<u, <<"charges", m>> >> \in quarantined
        <5>1. m \in DOMAIN rows
          BY <3>1
        <5>2. m \notin Charges(rows)
          BY <3>3, <4>5 DEF Charges, Repeats
        <5> QED
          BY <2>1, <4>5, <5>1, <5>2, BadRowIsQuarantined DEF BadCharges
      <4> QED
        BY <4>4, <4>5 DEF Kept
    <3> QED
      BY <3>2, <3>3 DEF BadCharges
  <2>2. ASSUME NEW pod \in Range(Pods), NEW n \in DOMAIN files[u].upstream[pod],
               files[u].upstream[pod][n].org \in {Blank, Org}
        PROVE  Kept(u, pod, files[u].upstream[pod], n)
    <3> DEFINE rows == files[u].upstream[pod]
    <3>1. Len(rows) \in Nat /\ DOMAIN rows = 1..Len(rows)
      BY <2>0, FilesAssumption, SeqIsNumbered
    <3>2. CASE n \in BadRecords(pod, rows)
      BY <2>2, <3>2, BadRowIsQuarantined DEF Kept
    <3>3. CASE n \in Records(pod, rows)
      <4>0. rows[n].org = Org
        BY <2>2, <3>3 DEF Records, BuiltRecords, RecordRejected
      <4>1. n \in OwnRecords(files[u], pod)
        BY <3>3, <4>0 DEF OwnRecords, Own
      <4>2. RecordRow(pod, rows, n) \in Range(RecordInserts(files[u], pod))
        BY <2>0, <4>1, RecordInsertsAre
      <4>3. RecordRow(pod, rows, n) \in Rows(u)
        BY <2>0, <4>2, InsertsAre
      <4>4. HasKey(stored, <<pod, rows[n].id>>)
        <5>1. HasKey(stored, RecordRow(pod, rows, n)[1])
          BY <4>3 DEF Complete
        <5> QED
          BY <5>1 DEF RecordRow
      <4>5. ASSUME NEW m \in 1..(n - 1), rows[m].org = rows[n].org, rows[m].id = rows[n].id
            PROVE  <<u, <<pod, m>> >> \in quarantined
        <5>1. m \in DOMAIN rows
          BY <3>1
        <5>2. m \notin Records(pod, rows)
          BY <3>3, <4>5 DEF Records, Repeats
        <5> QED
          BY <4>0, <4>5, <5>1, <5>2, BadRowIsQuarantined DEF BadRecords
      <4> QED
        BY <4>4, <4>5 DEF Kept
    <3> QED
      BY <3>2, <3>3 DEF BadRecords
  <2> QED
    BY <2>1, <2>2
<1> QED
  BY <1>1, TypeCorrect, DoneUploadsAreComplete, PTL

-----------------------------------------------------------------------------
(* What is stored of a record. *)

(* The row kept as a record's source was loaded under the record's id, and is the
   record's own row when it is of the same organisation. *)
LEMMA SourceIsOfItsId ==
  ASSUME NEW f \in Files, NEW pod \in Range(Pods), NEW n \in OwnRecords(f, pod)
  PROVE  LET rows == f.upstream[pod]  source == SourceOf(pod, rows, n)
         IN  source \in Range(rows) /\ (source.org = Org => source = rows[n])
<1> DEFINE rows == f.upstream[pod]
           Same == {m \in Records(pod, rows) : rows[m].id = rows[n].id}
           IsLast(m) == /\ rows[m].id = rows[n].id
                        /\ \A k \in Records(pod, rows) : rows[k].id = rows[n].id => k <= m
<1>1. Len(rows) \in Nat /\ DOMAIN rows = 1..Len(rows)
  BY FilesAssumption, SeqIsNumbered
<1>2. n \in Records(pod, rows) /\ rows[n].org = Org /\ Records(pod, rows) \in SUBSET DOMAIN rows
  BY DEF OwnRecords, Own, Records, BuiltRecords
<1>3. \E m \in Records(pod, rows) : IsLast(m)
  <2>1. Same \in SUBSET (1..Len(rows)) /\ Same # {}
    BY <1>1, <1>2
  <2>2. PICK m \in Same : \A k \in Same : k <= m
    <3> HIDE DEF Same
    <3> QED
      BY <1>1, <2>1, GreatestNumber
  <2> QED
    BY <2>2
<1> DEFINE last == CHOOSE m \in Records(pod, rows) : IsLast(m)
<1>4. last \in Records(pod, rows) /\ IsLast(last)
  <2> HIDE DEF IsLast, rows
  <2> QED
    BY <1>3
<1>5. SourceOf(pod, rows, n) = rows[last]
  BY DEF SourceOf
<1> HIDE DEF last
<1>6. rows[last] \in Range(rows)
  BY <1>2, <1>4 DEF Range
<1>7. ASSUME rows[last].org = Org PROVE last = n
  <2>1. last \in DOMAIN rows /\ n \in DOMAIN rows
    BY <1>2, <1>4
  <2>2. rows[last].id = rows[n].id /\ rows[last].org = rows[n].org
    BY <1>2, <1>4, <1>7
  <2>3. ~(last < n) /\ ~(n < last)
    <3> HIDE DEF IsLast, rows
    <3>1. last \in BuiltRecords(pod, rows) /\ ~Repeats(rows, last, BuiltRecords(pod, rows))
      BY <1>4 DEF Records
    <3>2. n \in BuiltRecords(pod, rows) /\ ~Repeats(rows, n, BuiltRecords(pod, rows))
      BY <1>2 DEF Records
    <3>3. last < n => last \in 1..(n - 1)
      BY <1>1, <2>1
    <3>4. n < last => n \in 1..(last - 1)
      BY <1>1, <2>1
    <3> QED
      BY <2>2, <3>1, <3>2, <3>3, <3>4 DEF Repeats
  <2> QED
    BY <1>1, <2>1, <2>3
<1> QED
  BY <1>5, <1>6, <1>7

(* A row that an upload sends is of one of four tables. *)
LEMMA RowIsOf ==
  ASSUME NEW f \in Files, NEW r \in Range(Inserts(f))
  PROVE  \/ r[1][1] \in {"ingest_files", "attachments"}
         \/ r[1][1] = "charges" /\ \E n \in DOMAIN f.report : r = ChargeRow(f.report[n])
         \/ r[1][1] \in Range(Pods) /\ \E n \in OwnRecords(f, r[1][1]) :
              r = RecordRow(r[1][1], f.upstream[r[1][1]], n)
<1>1. CASE r \in Range(ChargeInserts(f))
  <2>1. r = FileRow(f.report) \/ \E n \in Own(f.report, Charges(f.report)) : r = ChargeRow(f.report[n])
    BY <1>1, ChargeInsertsAre
  <2>2. Own(f.report, Charges(f.report)) \in SUBSET DOMAIN f.report
    BY DEF Own, Charges, BuiltCharges
  <2>3. r = FileRow(f.report) => r[1][1] = "ingest_files"
    BY DEF FileRow
  <2>4. \A n \in DOMAIN f.report : r = ChargeRow(f.report[n]) => r[1][1] = "charges"
    BY DEF ChargeRow
  <2> QED
    BY <2>1, <2>2, <2>3, <2>4
<1>2. ASSUME NEW pod \in Range(Pods), r \in Range(RecordInserts(f, pod))
      PROVE  \/ r[1][1] = "ingest_files"
             \/ r[1][1] = pod /\ \E n \in OwnRecords(f, pod) : r = RecordRow(pod, f.upstream[pod], n)
  <2>1. \/ r = FileRow(f.upstream[pod])
        \/ \E n \in OwnRecords(f, pod) : r = RecordRow(pod, f.upstream[pod], n)
    BY <1>2, RecordInsertsAre
  <2>2. r = FileRow(f.upstream[pod]) => r[1][1] = "ingest_files"
    BY DEF FileRow
  <2>3. \A n \in OwnRecords(f, pod) : r = RecordRow(pod, f.upstream[pod], n) => r[1][1] = pod
    BY DEF RecordRow
  <2> QED
    BY <2>1, <2>2, <2>3
<1>3. ASSUME NEW pod \in Range(Pods), r \in Range(AttachmentInserts(f, pod))
      PROVE  r[1][1] = "attachments"
  BY <1>3, AttachmentInsertsAre DEF AttachmentRow
<1> QED
  BY <1>1, <1>2, <1>3, InsertsAre

(* A stored record can be shown and checked: each image it lists has its attachment
   row, and its raw row is the one it was built from unless another organisation's
   record in that file has its id. *)
THEOREM RecordsAreStoredWhole == Spec => []StoredRecordsAreWhole
<1>1. TypeOK /\ Complete => StoredRecordsAreWhole
  <2> SUFFICES ASSUME TypeOK, Complete, NEW r \in stored
               PROVE  /\ r[1][1] \in Range(Pods) =>
                           \A j \in DOMAIN r[2].body.images :
                             HasKey(stored, AttachmentRow(r[1][1], r[2].body.id, r[2].body.images[j])[1])
                      /\ \/ r[1][1] = "charges" /\ BuildCharge(r[2].source) = r[2].body
                         \/ r[1][1] \in Range(Pods) /\ BuildRecord(r[1][1], r[2].source) = r[2].body
                         \/ r[1][1] \in {"ingest_files", "attachments"}
                         \/ r[1][1] \in Range(Pods) /\ r[2].source.org # Org
                              /\ \E u \in Uploads : r[2].source \in Range(files[u].upstream[r[1][1]])
    BY DEF StoredRecordsAreWhole, ImagesHaveAttachments, SourcesRebuild
  <2>1. PICK u \in Uploads : pc[u] = "done" /\ r \in Rows(u)
    BY DEF TypeOK
  <2>2. files[u] \in Files /\ Rows(u) = Range(Inserts(files[u]))
    BY SentIs DEF TypeOK
  <2> DEFINE pod == r[1][1]
  <2>3. \/ pod \in {"ingest_files", "attachments"}
        \/ pod = "charges" /\ \E n \in DOMAIN files[u].report : r = ChargeRow(files[u].report[n])
        \/ pod \in Range(Pods) /\ \E n \in OwnRecords(files[u], pod) :
             r = RecordRow(pod, files[u].upstream[pod], n)
    BY <2>1, <2>2, RowIsOf
  <2>4. pod \in Range(Pods) => pod \notin {"ingest_files", "charges", "attachments"}
    BY FilesAssumption
  <2> HIDE DEF pod
  <2>5. CASE pod \in {"ingest_files", "attachments"}
    BY <2>4, <2>5 DEF pod
  <2>6. ASSUME pod = "charges", NEW n \in DOMAIN files[u].report, r = ChargeRow(files[u].report[n])
        PROVE  pod \notin Range(Pods) /\ BuildCharge(r[2].source) = r[2].body
    BY <2>4, <2>6 DEF ChargeRow
  <2>7. ASSUME pod \in Range(Pods), NEW n \in OwnRecords(files[u], pod),
               r = RecordRow(pod, files[u].upstream[pod], n)
        PROVE  /\ \A j \in DOMAIN r[2].body.images :
                    HasKey(stored, AttachmentRow(pod, r[2].body.id, r[2].body.images[j])[1])
               /\ \/ BuildRecord(pod, r[2].source) = r[2].body
                  \/ r[2].source.org # Org /\ r[2].source \in Range(files[u].upstream[pod])
    <3> DEFINE rows == files[u].upstream[pod]
    <3>1. /\ r[2].body = BuildRecord(pod, rows[n]) /\ r[2].source = SourceOf(pod, rows, n)
          /\ r[2].body.images = rows[n].photos /\ r[2].body.id = rows[n].id
      BY <2>7 DEF RecordRow, BuildRecord
    <3>2. ASSUME NEW j \in DOMAIN rows[n].photos
          PROVE  HasKey(stored, AttachmentRow(pod, rows[n].id, rows[n].photos[j])[1])
      <4>1. AttachmentRow(pod, rows[n].id, rows[n].photos[j]) \in Range(AttachmentInserts(files[u], pod))
        BY <2>2, <2>7, AttachmentInsertsAre
      <4>2. AttachmentRow(pod, rows[n].id, rows[n].photos[j]) \in Rows(u)
        BY <2>2, <2>7, <4>1, InsertsAre
      <4> QED
        BY <2>1, <4>2 DEF Complete
    <3>3. SourceOf(pod, rows, n) \in Range(rows) /\ (SourceOf(pod, rows, n).org = Org => SourceOf(pod, rows, n) = rows[n])
      BY <2>2, <2>7, SourceIsOfItsId
    <3> HIDE DEF rows
    <3> QED
      BY <3>1, <3>2, <3>3 DEF rows
  <2> QED
    BY <2>1, <2>3, <2>5, <2>6, <2>7 DEF pod
<1> QED
  BY <1>1, TypeCorrect, DoneUploadsAreComplete, PTL

-----------------------------------------------------------------------------
(* The refinement. *)

(* What a transaction holds when all its statements are executed is what applying its
   upload to the tables adds to them. *)
LEMMA HeldIsWhatIsMissing ==
  ASSUME TypeOK, WriteInv, NEW u \in Uploads, pc[u] = "writing", next[u] > Len(InsertsOf(u))
  PROVE  pending[u] = {r \in FirstRows(u) : \A s \in stored : s[1] # r[1]}
<1>0. DOMAIN InsertsOf(u) = 1..Len(InsertsOf(u)) /\ Len(InsertsOf(u)) \in Nat /\ next[u] \in Nat
  BY InsertsAreNumbered DEF TypeOK, Sent, InsertsOf
<1>1. ASSUME NEW r \in pending[u] PROVE r \in FirstRows(u) /\ \A s \in stored : s[1] # r[1]
  BY DEF WriteInv, HeldIsNew, HasKey
<1>2. ASSUME NEW r \in FirstRows(u), \A s \in stored : s[1] # r[1] PROVE r \in pending[u]
  <2>1. PICK i \in DOMAIN InsertsOf(u) : r = InsertsOf(u)[i]
    BY DEF FirstRows, FirstOf, InsertsOf
  <2>2. i \in 1..(next[u] - 1)
    BY <1>0, <2>1
  <2>3. PICK p \in pending[u] : p[1] = r[1]
    BY <1>2, <2>1, <2>2 DEF WriteInv, Executed, HasKey
  <2>4. p \in FirstRows(u)
    BY <2>3 DEF WriteInv, HeldIsNew
  <2>5. QED BY <2>3, <2>4, FirstRowsDiffer
<1>3. QED BY <1>1, <1>2

sentMapped == [u \in Uploads |-> Sent(u).brings]

appliedMapped == {u \in Uploads : pc[u] = "done"}

bar == <<sentMapped, appliedMapped, stored, quarantined>>

(* Whatever uploads overlap, wait, deadlock or fail, the tables are what they would be
   had those that committed been applied whole and one at a time: a commit is the
   only step that shows. *)
THEOREM IngestIsOneAfterTheOther == Spec => OneAfterTheOther
<1>1. Init => Abstract!Init
  BY DEF Init, Abstract!Init
<1>2. TypeOK /\ WriteInv /\ [Next]_vars => [Abstract!Next]_bar
  <2> SUFFICES ASSUME TypeOK, WriteInv, [Next]_vars PROVE [Abstract!Next]_bar
    OBVIOUS
  <2>1. ASSUME NEW u \in Uploads, Commit(u) PROVE Abstract!Apply(u)
    <3>1. u \notin appliedMapped /\ appliedMapped' = appliedMapped \cup {u}
      BY <2>1 DEF Commit, TypeOK, appliedMapped
    <3>2. sentMapped' = sentMapped /\ sentMapped[u] = [rows |-> FirstRows(u), bad |-> Sent(u).bad]
      BY <2>1, BringsFirstRows DEF Commit, sentMapped, Sent, TypeOK
    <3>3. stored' = stored \cup {r \in sentMapped[u].rows : \A s \in stored : s[1] # r[1]}
      BY <2>1, <3>2, HeldIsWhatIsMissing DEF Commit, InsertsOf
    <3>4. quarantined' = quarantined \cup ({u} \X sentMapped[u].bad)
      BY <2>1, <3>2 DEF Commit, TypeOK
    <3>5. QED BY <3>1, <3>2, <3>3, <3>4 DEF Abstract!Apply, sentMapped, appliedMapped
  <2>2. ASSUME UNCHANGED <<files, stored, quarantined>>, appliedMapped' = appliedMapped
        PROVE  UNCHANGED bar
    BY <2>2 DEF bar, sentMapped, Sent
  <2>3. ASSUME NEW u \in Uploads, Load(u) \/ Insert(u) \/ (RollBack(u) /\ pc[u] = "writing") PROVE UNCHANGED bar
    BY <2>2, <2>3 DEF Load, Insert, RollBack, appliedMapped, TypeOK
  <2>4. CASE UNCHANGED vars
    BY <2>2, <2>4 DEF vars, appliedMapped
  <2>5. QED BY <2>1, <2>3, <2>4 DEF Next, Serve, Abort, BreakDeadlock, Abstract!Next
<1>3. QED
  BY <1>1, <1>2, TypeCorrect, WriteInvariant, PTL
  DEF Spec, OneAfterTheOther, Abstract!Spec, Abstract!vars, bar, sentMapped, appliedMapped
=============================================================================
