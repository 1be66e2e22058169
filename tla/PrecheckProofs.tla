---------------------------- MODULE PrecheckProofs ----------------------------
(***************************************************************************)
(* What the pre-checks compute of any set of report lines: the posting     *)
(* order lists every line once, of a chain of repeats one line stays in a  *)
(* window, and the matching of refunds keeps the money.                    *)
(*                                                                         *)
(* Folds are reasoned about by induction, and induction is had without a   *)
(* predicate for a parameter: the lemmas below speak of the SET of the     *)
(* numbers, or of the sets, that have the property.                        *)
(***************************************************************************)
EXTENDS Precheck, FiniteSetTheorems, SequenceTheorems, WellFoundedInduction, TLAPS

-----------------------------------------------------------------------------
(* Induction. *)

(* A set of natural numbers that is not empty has a least element. *)
LEMMA LeastNumber ==
  ASSUME NEW T \in SUBSET Nat, T # {}
  PROVE  \E n \in T : \A m \in T : n <= m
<1>1. IsWellFoundedOn(OpToRel(<, Nat), Nat)
  BY NatLessThanWellFounded
<1>2. PICK n \in T : \A m \in T : ~(<<m, n>> \in OpToRel(<, Nat))
  BY <1>1, WFMin
<1>3. \A m \in T : ~(m < n)
  BY <1>2 DEF OpToRel
<1> QED
  BY <1>3

(* Induction on numbers: N holds every number when it holds 0 and what follows. *)
LEMMA CountUp ==
  ASSUME NEW N, 0 \in N, \A n \in Nat : n \in N => n + 1 \in N
  PROVE  \A n \in Nat : n \in N
<1> SUFFICES ASSUME Nat \ N # {} PROVE FALSE
  OBVIOUS
<1>1. PICK n \in Nat \ N : \A m \in Nat \ N : n <= m
  BY LeastNumber
<1>2. n - 1 \in Nat /\ n - 1 \in N
  BY <1>1
<1>3. n - 1 + 1 \in N
  BY <1>2
<1>4. n - 1 + 1 = n
  BY <1>1
<1> QED
  BY <1>1, <1>3, <1>4

(* Induction on finite sets: P holds every part of S when it holds each part from
   which whatever element is removed leaves one that P holds. *)
LEMMA RemoveOne ==
  ASSUME NEW S, IsFiniteSet(S), NEW P,
         \A T \in SUBSET S : (\A x \in T : T \ {x} \in P) => T \in P
  PROVE  \A T \in SUBSET S : T \in P
<1> DEFINE Holds(n) == \A T \in SUBSET S : Cardinality(T) = n => T \in P
<1>1. Holds(0)
  <2> SUFFICES ASSUME NEW T \in SUBSET S, Cardinality(T) = 0 PROVE T \in P
    OBVIOUS
  <2>1. T = {}
    BY FS_Subset, FS_EmptySet
  <2> QED
    BY <2>1
<1>2. ASSUME NEW n \in Nat, Holds(n) PROVE Holds(n + 1)
  <2> SUFFICES ASSUME NEW T \in SUBSET S, Cardinality(T) = n + 1 PROVE T \in P
    OBVIOUS
  <2>1. ASSUME NEW x \in T PROVE T \ {x} \in P
    <3>1. IsFiniteSet(T)
      BY FS_Subset
    <3>2. Cardinality(T \ {x}) = Cardinality(T) - 1
      BY <3>1, FS_RemoveElement
    <3>3. Cardinality(T \ {x}) = n
      BY <3>2
    <3> QED
      BY <1>2, <3>3
  <2> QED
    BY <2>1
<1>3. \A n \in Nat : Holds(n)
  <2> DEFINE N == {n \in Nat : Holds(n)}
  <2> HIDE DEF Holds
  <2>1. 0 \in N /\ \A n \in Nat : n \in N => n + 1 \in N
    BY <1>1, <1>2
  <2>2. \A n \in Nat : n \in N
    <3> HIDE DEF N
    <3> QED
      BY <2>1, CountUp
  <2> QED
    BY <2>2
<1> SUFFICES ASSUME NEW T \in SUBSET S PROVE T \in P
  OBVIOUS
<1>4. Cardinality(T) \in Nat
  BY FS_Subset, FS_CardinalityType
<1> QED
  BY <1>3, <1>4

-----------------------------------------------------------------------------
(* Folds. *)

(* f takes the largest index last: the function from which FoldLeft computes its value. *)
IsFold(f, n, base, step) ==
  f = [s \in SUBSET (1..n) |->
         IF s = {} THEN base ELSE step[<<f[s \ {Max(s)}], Max(s)>>]]

(* Whatever the step, there is such a function. *)
LEMMA FoldIsDefined ==
  ASSUME NEW n \in Nat, NEW T, NEW base \in T, NEW step \in [T \X (1..n) -> T]
  PROVE  \E f \in [SUBSET (1..n) -> T] : IsFold(f, n, base, step)
<1> DEFINE Fits(f, k) == IsFold(f, k, base, step)
           Defined(k) == k <= n => \E f \in [SUBSET (1..k) -> T] : Fits(f, k)
<1>1. Defined(0)
  <2>1. SUBSET (1..0) = {{}}
    OBVIOUS
  <2> DEFINE f == [s \in SUBSET (1..0) |-> base]
  <2>2. f \in [SUBSET (1..0) -> T] /\ Fits(f, 0)
    BY <2>1 DEF IsFold
  <2> QED
    BY <2>2
<1>2. ASSUME NEW k \in Nat, Defined(k) PROVE Defined(k + 1)
  <2> SUFFICES ASSUME k + 1 <= n PROVE \E f \in [SUBSET (1..(k+1)) -> T] : Fits(f, k + 1)
    OBVIOUS
  <2>0. k <= n
    OBVIOUS
  <2>1. PICK f \in [SUBSET (1..k) -> T] : Fits(f, k)
    BY <1>2, <2>0, Zenon
  <2> DEFINE g == [s \in SUBSET (1..(k+1)) |->
                     IF k + 1 \in s THEN step[<<f[s \ {k+1}], k + 1>>] ELSE f[s]]
  <2>2. \A s \in SUBSET (1..(k+1)) : k + 1 \in s => s \ {k+1} \in SUBSET (1..k)
    OBVIOUS
  <2>3. \A s \in SUBSET (1..(k+1)) : k + 1 \notin s => s \in SUBSET (1..k)
    OBVIOUS
  <2>4. g \in [SUBSET (1..(k+1)) -> T]
    <3> SUFFICES ASSUME NEW s \in SUBSET (1..(k+1)) PROVE g[s] \in T
      OBVIOUS
    <3>1. CASE k + 1 \in s
      <4>1. f[s \ {k+1}] \in T /\ k + 1 \in 1..n
        BY <2>2, <3>1
      <4> QED
        BY <3>1, <4>1
    <3>2. CASE k + 1 \notin s
      BY <2>3, <3>2
    <3> QED
      BY <3>1, <3>2
  <2>5. ASSUME NEW s \in SUBSET (1..(k+1))
        PROVE  g[s] = IF s = {} THEN base ELSE step[<<g[s \ {Max(s)}], Max(s)>>]
    <3>1. CASE k + 1 \in s
      <4>1. Max(s) = k + 1
        <5>1. \A x \in s : k + 1 >= x /\ (x >= k + 1 => x = k + 1)
          OBVIOUS
        <5> QED
          BY <3>1, <5>1 DEF Max
      <4>2. g[s \ {k+1}] = f[s \ {k+1}]
        BY <2>2, <3>1
      <4> QED
        BY <3>1, <4>1, <4>2
    <3>2. CASE k + 1 \notin s
      <4>1. s \in SUBSET (1..k) /\ g[s] = f[s]
        BY <2>3, <3>2
      <4>2. f[s] = IF s = {} THEN base ELSE step[<<f[s \ {Max(s)}], Max(s)>>]
        BY <2>1, <4>1 DEF IsFold
      <4>3. s \ {Max(s)} \in SUBSET (1..(k+1)) /\ k + 1 \notin s \ {Max(s)}
        BY <3>2
      <4>4. g[s \ {Max(s)}] = f[s \ {Max(s)}]
        BY <4>3
      <4> QED
        BY <4>1, <4>2, <4>4
    <3> QED
      BY <3>1, <3>2
  <2>6. Fits(g, k + 1)
    BY <2>4, <2>5, Zenon DEF IsFold
  <2> QED
    BY <2>4, <2>6
<1>3. Defined(n)
  <2> DEFINE N == {k \in Nat : Defined(k)}
  <2> HIDE DEF Defined
  <2>1. \A k \in Nat : k \in N
    <3>1. 0 \in N /\ \A k \in Nat : k \in N => k + 1 \in N
      BY <1>1, <1>2
    <3> HIDE DEF N
    <3> QED
      BY <3>1, CountUp
  <2> QED
    BY <2>1
<1>4. n <= n
  OBVIOUS
<1> QED
  BY <1>3, <1>4, Zenon

(* The largest of a set of indices is one of them, and of the first k it is k. *)
LEMMA MaxIsIn ==
  ASSUME NEW n \in Nat, NEW s \in SUBSET (1..n), s # {}
  PROVE  Max(s) \in s
<1> DEFINE T == {n - x : x \in s}
<1>1. T \in SUBSET Nat /\ T # {}
  <2>1. \A x \in s : n - x \in Nat
    OBVIOUS
  <2> QED
    BY <2>1
<1>2. PICK t \in T : \A u \in T : t <= u
  BY <1>1, LeastNumber
<1>3. PICK x \in s : t = n - x
  BY <1>2
<1>4. ASSUME NEW y \in s PROVE x >= y
  <2>1. n - y \in T
    OBVIOUS
  <2>2. t <= n - y
    BY <1>2, <2>1
  <2> QED
    BY <1>3, <2>2
<1> QED
  BY <1>4 DEF Max

(* Of the first k indices it is the k-th, and the k - 1 before it are left. *)
LEMMA MaxOfInterval ==
  ASSUME NEW n \in Nat, NEW k \in 1..n
  PROVE  Max(1..k) = k /\ (1..k) \ {k} = 1..(k-1)
<1>2. k \in 1..k /\ \A x \in 1..k : k >= x /\ (x >= k => x = k)
  OBVIOUS
<1>3. Max(1..k) = k
  BY <1>2 DEF Max
<1> QED
  BY <1>3

(* What find_duplicates makes of a group, line after line. *)
WalkOver(base, seq) == FoldLeft(NextCanonical, base, seq)

(* g reaches that value in n steps. *)
WalkIs(g, n, base, seq) ==
  /\ g[0] = base
  /\ g[n] = WalkOver(base, seq)
  /\ \A k \in 1..n : g[k] = NextCanonical(g[k-1], seq[k])

(* Whatever the first line and the lines after it, the walk over them is such a chain. *)
LEMMA CanonicalChain ==
  ASSUME NEW n \in Nat, NEW seq, DOMAIN seq = 1..n, NEW T, NEW base \in T,
         \A m \in T, i \in 1..n : NextCanonical(m, seq[i]) \in T
  PROVE  \E g : WalkIs(g, n, base, seq)
<1> DEFINE step == [p \in T \X (1..n) |-> NextCanonical(p[1], seq[p[2]])]
           Fits(f) == f = [s \in SUBSET (1..n) |->
                             IF s = {} THEN base ELSE NextCanonical(f[s \ {Max(s)}], seq[Max(s)])]
           iter == CHOOSE f : Fits(f)
<1>1. \E f : Fits(f)
  <2>1. step \in [T \X (1..n) -> T]
    OBVIOUS
  <2> HIDE DEF step
  <2>2. PICK f \in [SUBSET (1..n) -> T] : IsFold(f, n, base, step)
    BY <2>1, FoldIsDefined
  <2>3. ASSUME NEW s \in SUBSET (1..n), s # {}
        PROVE  step[<<f[s \ {Max(s)}], Max(s)>>] = NextCanonical(f[s \ {Max(s)}], seq[Max(s)])
    <3>1. Max(s) \in 1..n
      BY <2>3, MaxIsIn
    <3>2. f[s \ {Max(s)}] \in T
      OBVIOUS
    <3> QED
      BY <3>1, <3>2 DEF step
  <2>4. Fits(f)
    BY <2>2, <2>3 DEF IsFold
  <2> QED
    BY <2>4
<1>2. Fits(iter)
  BY <1>1
<1>3. WalkOver(base, seq) = iter[1..n]
  BY DEF WalkOver, FoldLeft, MapThenFoldSet
<1> DEFINE g == [k \in 0..n |-> iter[1..k]]
<1>4. g[0] = base
  <2>1. 1..0 = {} /\ {} \in SUBSET (1..n) /\ 0 \in 0..n
    OBVIOUS
  <2> HIDE DEF iter
  <2> QED
    BY <1>2, <2>1
<1>5. ASSUME NEW k \in 1..n PROVE g[k] = NextCanonical(g[k-1], seq[k])
  <2>1. 1..k \in SUBSET (1..n) /\ 1 \in 1..k /\ k \in 0..n /\ k - 1 \in 0..n
    OBVIOUS
  <2>2. Max(1..k) = k /\ (1..k) \ {k} = 1..(k-1)
    BY MaxOfInterval
  <2> HIDE DEF iter
  <2> QED
    BY <1>2, <2>1, <2>2
<1>6. g[n] = iter[1..n]
  OBVIOUS
<1> HIDE DEF g
<1> QED
  BY <1>3, <1>4, <1>5, <1>6 DEF WalkIs

(* What one refund pays, fee after fee. *)
PayAll(base, r, seq) == FoldLeft(LAMBDA m, f : PayFee(m, r, f), base, seq)

(* g reaches that value in n steps. *)
PayIs(g, n, base, r, seq) ==
  /\ g[0] = base
  /\ g[n] = PayAll(base, r, seq)
  /\ \A k \in 1..n : g[k] = PayFee(g[k-1], r, seq[k])

(* The payments of one refund are such a chain. *)
LEMMA PayChain ==
  ASSUME NEW n \in Nat, NEW seq, DOMAIN seq = 1..n, NEW T, NEW base \in T, NEW r,
         \A m \in T, i \in 1..n : PayFee(m, r, seq[i]) \in T
  PROVE  \E g : PayIs(g, n, base, r, seq)
<1> DEFINE step == [p \in T \X (1..n) |-> PayFee(p[1], r, seq[p[2]])]
           Fits(f) == f = [s \in SUBSET (1..n) |->
                             IF s = {} THEN base ELSE PayFee(f[s \ {Max(s)}], r, seq[Max(s)])]
           iter == CHOOSE f : Fits(f)
<1>1. \E f : Fits(f)
  <2>1. step \in [T \X (1..n) -> T]
    OBVIOUS
  <2> HIDE DEF step
  <2>2. PICK f \in [SUBSET (1..n) -> T] : IsFold(f, n, base, step)
    BY <2>1, FoldIsDefined
  <2>3. ASSUME NEW s \in SUBSET (1..n), s # {}
        PROVE  step[<<f[s \ {Max(s)}], Max(s)>>] = PayFee(f[s \ {Max(s)}], r, seq[Max(s)])
    <3>1. Max(s) \in 1..n
      BY <2>3, MaxIsIn
    <3>2. f[s \ {Max(s)}] \in T
      OBVIOUS
    <3> QED
      BY <3>1, <3>2 DEF step
  <2>4. Fits(f)
    BY <2>2, <2>3 DEF IsFold
  <2> QED
    BY <2>4
<1>2. Fits(iter)
  BY <1>1
<1>3. PayAll(base, r, seq) = iter[1..n]
  BY DEF PayAll, FoldLeft, MapThenFoldSet
<1> DEFINE g == [k \in 0..n |-> iter[1..k]]
<1>4. g[0] = base
  <2>1. 1..0 = {} /\ {} \in SUBSET (1..n) /\ 0 \in 0..n
    OBVIOUS
  <2> HIDE DEF iter
  <2> QED
    BY <1>2, <2>1
<1>5. ASSUME NEW k \in 1..n PROVE g[k] = PayFee(g[k-1], r, seq[k])
  <2>1. 1..k \in SUBSET (1..n) /\ 1 \in 1..k /\ k \in 0..n /\ k - 1 \in 0..n
    OBVIOUS
  <2>2. Max(1..k) = k /\ (1..k) \ {k} = 1..(k-1)
    BY MaxOfInterval
  <2> HIDE DEF iter
  <2> QED
    BY <1>2, <2>1, <2>2
<1>6. g[n] = iter[1..n]
  OBVIOUS
<1> HIDE DEF g
<1> QED
  BY <1>3, <1>4, <1>5, <1>6 DEF PayIs

(* What the refunds pay, refund after refund. *)
MatchAll(base, seq, charges, canon) == FoldLeft(LAMBDA m, r : MatchRefund(m, r, charges, canon), base, seq)

(* g reaches that value in n steps. *)
MatchIs(g, n, base, seq, charges, canon) ==
  /\ g[0] = base
  /\ g[n] = MatchAll(base, seq, charges, canon)
  /\ \A k \in 1..n : g[k] = MatchRefund(g[k-1], seq[k], charges, canon)

(* The matching of refunds is such a chain. *)
LEMMA MatchChain ==
  ASSUME NEW n \in Nat, NEW seq, DOMAIN seq = 1..n, NEW T, NEW base \in T, NEW charges, NEW canon,
         \A m \in T, i \in 1..n : MatchRefund(m, seq[i], charges, canon) \in T
  PROVE  \E g : MatchIs(g, n, base, seq, charges, canon)
<1> DEFINE step == [p \in T \X (1..n) |-> MatchRefund(p[1], seq[p[2]], charges, canon)]
           Fits(f) == f = [s \in SUBSET (1..n) |->
                             IF s = {} THEN base ELSE MatchRefund(f[s \ {Max(s)}], seq[Max(s)], charges, canon)]
           iter == CHOOSE f : Fits(f)
<1>1. \E f : Fits(f)
  <2>1. step \in [T \X (1..n) -> T]
    OBVIOUS
  <2> HIDE DEF step
  <2>2. PICK f \in [SUBSET (1..n) -> T] : IsFold(f, n, base, step)
    BY <2>1, FoldIsDefined
  <2>3. ASSUME NEW s \in SUBSET (1..n), s # {}
        PROVE  step[<<f[s \ {Max(s)}], Max(s)>>] = MatchRefund(f[s \ {Max(s)}], seq[Max(s)], charges, canon)
    <3>1. Max(s) \in 1..n
      BY <2>3, MaxIsIn
    <3>2. f[s \ {Max(s)}] \in T
      OBVIOUS
    <3> QED
      BY <3>1, <3>2 DEF step
  <2>4. Fits(f)
    BY <2>2, <2>3 DEF IsFold
  <2> QED
    BY <2>4
<1>2. Fits(iter)
  BY <1>1
<1>3. MatchAll(base, seq, charges, canon) = iter[1..n]
  BY DEF MatchAll, FoldLeft, MapThenFoldSet
<1> DEFINE g == [k \in 0..n |-> iter[1..k]]
<1>4. g[0] = base
  <2>1. 1..0 = {} /\ {} \in SUBSET (1..n) /\ 0 \in 0..n
    OBVIOUS
  <2> HIDE DEF iter
  <2> QED
    BY <1>2, <2>1
<1>5. ASSUME NEW k \in 1..n PROVE g[k] = MatchRefund(g[k-1], seq[k], charges, canon)
  <2>1. 1..k \in SUBSET (1..n) /\ 1 \in 1..k /\ k \in 0..n /\ k - 1 \in 0..n
    OBVIOUS
  <2>2. Max(1..k) = k /\ (1..k) \ {k} = 1..(k-1)
    BY MaxOfInterval
  <2> HIDE DEF iter
  <2> QED
    BY <1>2, <2>1, <2>2
<1>6. g[n] = iter[1..n]
  OBVIOUS
<1> HIDE DEF g
<1> QED
  BY <1>3, <1>4, <1>5, <1>6 DEF MatchIs

-----------------------------------------------------------------------------
(* Sums. *)

(* f sums what the parts of S pay, an arbitrary part last: the function from which
   Paid computes its value. *)
IsSum(f, S) ==
  f = [s \in SUBSET S |->
         IF s = {} THEN 0
         ELSE (CHOOSE p \in s : TRUE).amount + f[s \ {CHOOSE p \in s : TRUE}]]

(* Of a finite set there is such a function. *)
LEMMA SumIsDefined ==
  ASSUME NEW S, IsFiniteSet(S)
  PROVE  \E f : IsSum(f, S)
<1> DEFINE C(s) == CHOOSE p \in s : TRUE
           D(k) == {s \in SUBSET S : Cardinality(s) <= k}
           Fits(f, k) == f = [s \in D(k) |-> IF s = {} THEN 0 ELSE C(s).amount + f[s \ {C(s)}]]
           Defined(k) == \E f : Fits(f, k)
<1>0. \A s \in SUBSET S : /\ Cardinality(s) \in Nat
                          /\ s # {} => C(s) \in s /\ Cardinality(s \ {C(s)}) = Cardinality(s) - 1
  <2> SUFFICES ASSUME NEW s \in SUBSET S
               PROVE  /\ Cardinality(s) \in Nat
                      /\ s # {} => C(s) \in s /\ Cardinality(s \ {C(s)}) = Cardinality(s) - 1
    OBVIOUS
  <2>1. IsFiniteSet(s) /\ Cardinality(s) \in Nat
    BY FS_Subset, FS_CardinalityType
  <2>2. s # {} => C(s) \in s
    OBVIOUS
  <2> HIDE DEF C
  <2> QED
    BY <2>1, <2>2, FS_RemoveElement
<1>1. Defined(0)
  <2>1. \A s \in D(0) : s = {}
    BY <1>0, FS_Subset, FS_EmptySet
  <2>2. Fits([s \in D(0) |-> 0], 0)
    BY <2>1
  <2> QED
    BY <2>2
<1>2. ASSUME NEW k \in Nat, Defined(k) PROVE Defined(k + 1)
  <2>1. PICK f : Fits(f, k)
    BY <1>2, Zenon
  <2> HIDE DEF C
  <2> DEFINE g == [s \in D(k + 1) |-> IF s \in D(k) THEN f[s]
                                      ELSE C(s).amount + f[s \ {C(s)}]]
  <2>2. ASSUME NEW s \in D(k + 1), s # {} PROVE s \ {C(s)} \in D(k) /\ s \ {C(s)} \in D(k + 1)
    BY <1>0, <2>2
  <2>3. {} \in D(k)
    BY FS_EmptySet
  <2>4. ASSUME NEW s \in D(k + 1)
        PROVE  g[s] = IF s = {} THEN 0 ELSE C(s).amount + g[s \ {C(s)}]
    <3>1. CASE s \in D(k)
      <4>1. f[s] = IF s = {} THEN 0 ELSE C(s).amount + f[s \ {C(s)}]
        BY <2>1, <3>1
      <4> QED
        BY <2>2, <3>1, <4>1
    <3>2. CASE s \notin D(k)
      BY <2>2, <2>3, <3>2
    <3> QED
      BY <3>1, <3>2
  <2> HIDE DEF D
  <2>5. Fits(g, k + 1)
    BY <2>4, Zenon
  <2> QED
    BY <2>5
<1>3. Defined(Cardinality(S))
  <2> DEFINE N == {k \in Nat : Defined(k)}
  <2> HIDE DEF Defined
  <2>1. 0 \in N /\ \A k \in Nat : k \in N => k + 1 \in N
    BY <1>1, <1>2
  <2>2. \A k \in Nat : k \in N
    <3> HIDE DEF N
    <3> QED
      BY <2>1, CountUp
  <2>3. Cardinality(S) \in Nat
    BY FS_CardinalityType
  <2> QED
    BY <2>2, <2>3
<1>4. PICK f : Fits(f, Cardinality(S))
  BY <1>3, Zenon
<1>5. D(Cardinality(S)) = SUBSET S
  BY FS_Subset
<1> QED
  BY <1>4, <1>5 DEF IsSum

(* Which larger set a sum is taken from does not matter. *)
LEMMA SumIsUnique ==
  ASSUME NEW S, IsFiniteSet(S), NEW f, IsSum(f, S), NEW R, NEW g, IsSum(g, R), S \subseteq R
  PROVE  f[S] = g[S]
<1> DEFINE P == {T \in SUBSET S : f[T] = g[T]}
           C(s) == CHOOSE p \in s : TRUE
<1>1. ASSUME NEW T \in SUBSET S, \A x \in T : T \ {x} \in P PROVE T \in P
  <2>1. T \in SUBSET R
    OBVIOUS
  <2>2. f[T] = IF T = {} THEN 0 ELSE C(T).amount + f[T \ {C(T)}]
    BY DEF IsSum
  <2>3. g[T] = IF T = {} THEN 0 ELSE C(T).amount + g[T \ {C(T)}]
    BY <2>1 DEF IsSum
  <2>4. T # {} => f[T \ {C(T)}] = g[T \ {C(T)}]
    BY <1>1
  <2> HIDE DEF C
  <2> QED
    BY <2>2, <2>3, <2>4
<1>2. \A T \in SUBSET S : T \in P
  <2> HIDE DEF P
  <2> QED
    BY <1>1, RemoveOne
<1> QED
  BY <1>2

(* Paid is the value of such a function. *)
LEMMA PaidIsSum ==
  ASSUME NEW S, IsFiniteSet(S)
  PROVE  \E f : IsSum(f, S) /\ Paid(S) = f[S]
<1> DEFINE iter == CHOOSE f : IsSum(f, S)
<1>1. IsSum(iter, S)
  BY SumIsDefined
<1>2. Paid(S) = iter[S]
  BY DEF Paid, MapThenSumSet, MapThenFoldSet, IsSum
<1> QED
  BY <1>1, <1>2

(* Nothing pays nothing. *)
LEMMA PaidOfNone ==
  Paid({}) = 0
<1>1. PICK f : IsSum(f, {}) /\ Paid({}) = f[{}]
  BY PaidIsSum, FS_EmptySet
<1> QED
  BY <1>1 DEF IsSum

(* A part's amount can be taken out of the sum first, whichever part it is. *)
LEMMA PaidWithout ==
  ASSUME NEW S, IsFiniteSet(S), \A p \in S : p.amount \in Int
  PROVE  \A T \in SUBSET S : /\ Paid(T) \in Int
                             /\ \A x \in T : Paid(T) = x.amount + Paid(T \ {x})
<1> DEFINE P == {T \in SUBSET S : /\ Paid(T) \in Int
                                  /\ \A x \in T : /\ Paid(T \ {x}) \in Int
                                                   /\ Paid(T) = x.amount + Paid(T \ {x})}
           C(s) == CHOOSE p \in s : TRUE
<1>1. ASSUME NEW T \in SUBSET S, \A x \in T : T \ {x} \in P PROVE T \in P
  <2>1. CASE T = {}
    BY <2>1, PaidOfNone
  <2>2. CASE T # {}
    <3>1. C(T) \in T
      BY <2>2
    <3>2. Paid(T) = C(T).amount + Paid(T \ {C(T)})
      <4>1. IsFiniteSet(T) /\ IsFiniteSet(T \ {C(T)})
        BY FS_Subset
      <4>2. PICK f : IsSum(f, T) /\ Paid(T) = f[T]
        BY <4>1, PaidIsSum
      <4>3. PICK g : IsSum(g, T \ {C(T)}) /\ Paid(T \ {C(T)}) = g[T \ {C(T)}]
        BY <4>1, PaidIsSum
      <4>4. f[T \ {C(T)}] = g[T \ {C(T)}]
        BY <4>1, <4>2, <4>3, SumIsUnique
      <4>5. f[T] = C(T).amount + f[T \ {C(T)}]
        BY <2>2, <4>2 DEF IsSum
      <4> QED
        BY <4>2, <4>3, <4>4, <4>5
    <3> HIDE DEF C
    <3>3. Paid(T \ {C(T)}) \in Int /\ C(T).amount \in Int
      BY <1>1, <3>1
    <3>4. ASSUME NEW x \in T PROVE Paid(T \ {x}) \in Int /\ Paid(T) = x.amount + Paid(T \ {x})
      <4>1. CASE x = C(T)
        BY <3>2, <3>3, <4>1
      <4>2. CASE x # C(T)
        <5> DEFINE U == (T \ {x}) \ {C(T)}
        <5>1. (T \ {C(T)}) \ {x} = U /\ x \in T \ {C(T)} /\ C(T) \in T \ {x}
          BY <3>1, <4>2
        <5>2. Paid(T \ {C(T)}) = x.amount + Paid(U)
          BY <1>1, <3>1, <5>1
        <5>3. Paid(T \ {x}) = C(T).amount + Paid(U) /\ Paid(T \ {x}) \in Int
          BY <1>1, <5>1
        <5>4. x.amount \in Int
          OBVIOUS
        <5>5. Paid(U) \in Int
          BY <1>1, <5>1
        <5> HIDE DEF U
        <5> QED
          BY <3>2, <3>3, <5>2, <5>3, <5>4, <5>5
      <4> QED
        BY <4>1, <4>2
    <3>5. Paid(T) \in Int
      BY <3>2, <3>3
    <3> QED
      BY <3>4, <3>5
  <2> QED
    BY <2>1, <2>2
<1>2. \A T \in SUBSET S : T \in P
  <2> HIDE DEF P
  <2> QED
    BY <1>1, RemoveOne
<1> QED
  BY <1>2

-----------------------------------------------------------------------------
(* The posting order. *)

(* What the table charges guarantees of stored lines: one row of a line id. *)
Ordered(S) ==
  /\ IsFiniteSet(S)
  /\ \A c \in S : c.line \in Int /\ c.posted \in Int
  /\ \A c, d \in S : c.line = d.line => c = d

Before(S, c) == {d \in S : Earlier(d, c)}

(* Posted date and line id order stored lines strictly, any two of them. *)
LEMMA EarlierIsOrder ==
  ASSUME NEW S, Ordered(S), NEW c \in S, NEW d \in S, NEW e \in S
  PROVE  /\ ~Earlier(c, c)
         /\ ~(Earlier(c, d) /\ Earlier(d, c))
         /\ c # d => Earlier(c, d) \/ Earlier(d, c)
         /\ Earlier(c, d) /\ Earlier(d, e) => Earlier(c, e)
<1>1. /\ c.line \in Int /\ c.posted \in Int /\ d.line \in Int /\ d.posted \in Int
      /\ e.line \in Int /\ e.posted \in Int /\ (c.line = d.line => c = d)
  BY DEF Ordered
<1> QED
  BY <1>1 DEF Earlier

(* Of n lines at most n - 1 come before one of them. *)
LEMMA BeforeSize ==
  ASSUME NEW S, Ordered(S), NEW c \in S
  PROVE  /\ IsFiniteSet(Before(S, c))
         /\ Cardinality(S) \in Nat /\ Cardinality(Before(S, c)) \in 0..(Cardinality(S) - 1)
<1>1. IsFiniteSet(S)
  BY DEF Ordered
<1>2. IsFiniteSet(S \ {c}) /\ Cardinality(S \ {c}) = Cardinality(S) - 1
  BY <1>1, FS_RemoveElement
<1>3. Before(S, c) \subseteq S \ {c}
  BY EarlierIsOrder DEF Before
<1>4. IsFiniteSet(Before(S, c)) /\ Cardinality(Before(S, c)) <= Cardinality(S \ {c})
  BY <1>2, <1>3, FS_Subset
<1>5. Cardinality(Before(S, c)) \in Nat /\ Cardinality(S) \in Nat
  BY <1>1, <1>4, FS_CardinalityType
<1> QED
  BY <1>2, <1>4, <1>5

(* The later of two lines has more lines before it. *)
LEMMA BeforeGrows ==
  ASSUME NEW S, Ordered(S), NEW c \in S, NEW d \in S, Earlier(c, d)
  PROVE  Cardinality(Before(S, c)) < Cardinality(Before(S, d))
<1>1. Before(S, c) \in SUBSET Before(S, d) /\ c \in Before(S, d) /\ c \notin Before(S, c)
  BY EarlierIsOrder DEF Before
<1>2. IsFiniteSet(Before(S, d))
  BY BeforeSize
<1>3. /\ Cardinality(Before(S, c)) <= Cardinality(Before(S, d))
      /\ Cardinality(Before(S, d)) = Cardinality(Before(S, c)) => Before(S, d) = Before(S, c)
  BY <1>1, <1>2, FS_Subset
<1>4. Cardinality(Before(S, c)) \in Nat /\ Cardinality(Before(S, d)) \in Nat
  BY BeforeSize
<1> QED
  BY <1>1, <1>3, <1>4

(* Two lines with as many lines before them are the same line. *)
LEMMA BeforeTellsApart ==
  ASSUME NEW S, Ordered(S), NEW c \in S, NEW d \in S,
         Cardinality(Before(S, c)) = Cardinality(Before(S, d))
  PROVE  c = d
<1>1. ~Earlier(c, d) /\ ~Earlier(d, c)
  <2>1. Cardinality(Before(S, c)) \in Nat /\ Cardinality(Before(S, d)) \in Nat
    BY BeforeSize
  <2> QED
    BY <2>1, BeforeGrows
<1> QED
  BY <1>1, EarlierIsOrder

(* Sorting lists every line once, a line after those posted before it. *)
THEOREM InOrderLists ==
  ASSUME NEW S, Ordered(S)
  PROVE  /\ Cardinality(S) \in Nat /\ DOMAIN InOrder(S) = 1..Cardinality(S)
         /\ InOrder(S) \in Seq(S) /\ Len(InOrder(S)) = Cardinality(S)
         /\ \A i \in 1..Cardinality(S) :
              InOrder(S)[i] \in S /\ Cardinality(Before(S, InOrder(S)[i])) = i - 1
         /\ \A c \in S : \E i \in 1..Cardinality(S) : InOrder(S)[i] = c
         /\ \A i, j \in 1..Cardinality(S) : i < j => Earlier(InOrder(S)[i], InOrder(S)[j])
<1> DEFINE n == Cardinality(S)
           rank == [c \in S |-> Cardinality(Before(S, c)) + 1]
<1>1. IsFiniteSet(S) /\ n \in Nat
  BY FS_CardinalityType DEF Ordered
<1>2. rank \in [S -> 1..n]
  <2>1. ASSUME NEW c \in S PROVE Cardinality(Before(S, c)) + 1 \in 1..n
    BY <1>1, BeforeSize
  <2> QED
    BY <2>1
<1>3. \A c, d \in S : rank[c] = rank[d] => c = d
  <2> SUFFICES ASSUME NEW c \in S, NEW d \in S, rank[c] = rank[d] PROVE c = d
    OBVIOUS
  <2>1. /\ Cardinality(Before(S, c)) \in 0..(n - 1)
        /\ Cardinality(Before(S, d)) \in 0..(n - 1)
    BY BeforeSize
  <2>2. Cardinality(Before(S, c)) = Cardinality(Before(S, d))
    BY <1>1, <2>1
  <2> QED
    BY <2>2, BeforeTellsApart
<1> HIDE DEF n
<1>4. \A i \in 1..n : \E c \in S : rank[c] = i
  <2> HIDE DEF rank
  <2>1. rank \in Injection(S, 1..n)
    BY <1>2, <1>3 DEF Injection, IsInjective
  <2>2. IsFiniteSet(1..n) /\ Cardinality(1..n) = n
    <3>1. IsFiniteSet(1..n) /\ Cardinality(1..n) = IF 1 > n THEN 0 ELSE n - 1 + 1
      BY <1>1, FS_Interval
    <3> QED
      BY <1>1, <3>1
  <2>3. rank \in Surjection(S, 1..n)
    BY <2>1, <2>2, FS_Injection DEF n
  <2> QED
    BY <2>3 DEF Surjection
<1> DEFINE s == InOrder(S)
<1>5. DOMAIN s = 1..n
  BY DEF InOrder, n
<1>6. ASSUME NEW i \in 1..n PROVE s[i] \in S /\ rank[s[i]] = i /\ Cardinality(Before(S, s[i])) = i - 1
  <2>1. PICK c \in S : rank[c] = i
    BY <1>4
  <2>2. Cardinality(Before(S, c)) = i - 1
    BY <2>1, BeforeSize, <1>1 DEF n
  <2>3. s[i] = CHOOSE d \in S : Cardinality(Before(S, d)) = i - 1
    BY <1>5 DEF InOrder, Before, n
  <2>4. s[i] \in S /\ Cardinality(Before(S, s[i])) = i - 1
    BY <2>2, <2>3
  <2>5. Cardinality(Before(S, s[i])) + 1 = i
    BY <1>1, <2>4
  <2> QED
    BY <2>4, <2>5
<1>7. s = [i \in 1..n |-> s[i]]
  <2> DEFINE at(i) == CHOOSE c \in S : Cardinality({d \in S : Earlier(d, c)}) = i - 1
  <2>1. s = [i \in 1..n |-> at(i)]
    BY DEF InOrder, n
  <2> HIDE DEF s, at
  <2> QED
    BY <2>1
<1> HIDE DEF s, rank
<1>8. s \in Seq(S) /\ Len(s) = n
  BY <1>1, <1>5, <1>6, <1>7
<1>9. ASSUME NEW c \in S PROVE \E i \in 1..n : s[i] = c
  <2>1. rank[c] \in 1..n
    BY <1>2
  <2> QED
    BY <1>3, <1>6, <2>1
<1>10. ASSUME NEW i \in 1..n, NEW j \in 1..n, i < j PROVE Earlier(s[i], s[j])
  <2>1. s[i] \in S /\ s[j] \in S /\ s[i] # s[j]
    BY <1>6, <1>10
  <2>2. ~Earlier(s[j], s[i])
    <3>1. Cardinality(Before(S, s[i])) = i - 1 /\ Cardinality(Before(S, s[j])) = j - 1
      BY <1>6
    <3> QED
      BY <1>10, <2>1, <3>1, BeforeGrows
  <2> QED
    BY <2>1, <2>2, EarlierIsOrder
<1> QED
  BY <1>1, <1>5, <1>6, <1>8, <1>9, <1>10 DEF s, n

(* Lines before which no line is left out are the first of the list. *)
LEMMA InOrderPrefix ==
  ASSUME NEW S, Ordered(S), NEW P \in SUBSET S,
         \A c \in P, d \in S : Earlier(d, c) => d \in P
  PROVE  /\ Ordered(P) /\ Cardinality(P) \in Nat /\ Cardinality(P) <= Cardinality(S)
         /\ \A i \in 1..Cardinality(P) : InOrder(P)[i] = InOrder(S)[i]
<1>1. Ordered(P) /\ Cardinality(P) \in Nat /\ Cardinality(S) \in Nat
      /\ Cardinality(P) <= Cardinality(S)
  <2>1. IsFiniteSet(P) /\ IsFiniteSet(S) /\ Cardinality(P) <= Cardinality(S)
    BY FS_Subset DEF Ordered
  <2> QED
    BY <2>1, FS_CardinalityType DEF Ordered
<1> SUFFICES ASSUME NEW i \in 1..Cardinality(P) PROVE InOrder(P)[i] = InOrder(S)[i]
  BY <1>1
<1>2. InOrder(P)[i] \in P /\ Cardinality(Before(P, InOrder(P)[i])) = i - 1
  BY <1>1, InOrderLists
<1>3. i \in 1..Cardinality(S)
  BY <1>1
<1>4. InOrder(S)[i] \in S /\ Cardinality(Before(S, InOrder(S)[i])) = i - 1
  BY <1>3, InOrderLists
<1>5. Before(P, InOrder(P)[i]) = Before(S, InOrder(P)[i])
  BY <1>2 DEF Before
<1> QED
  BY <1>2, <1>4, <1>5, BeforeTellsApart

-----------------------------------------------------------------------------
(* Duplicates. *)

Group(charges, c) == {d \in Fees(charges) : Fingerprint(d) = Fingerprint(c)}

(* The group of a line up to that line is a first part of the group in posting order,
   and the canonical line of the last of them is what the walk over them ends with. *)
LEMMA CanonicalWalk ==
  ASSUME NEW charges, Ordered(charges), NEW c \in Fees(charges),
         NEW k \in 1..Cardinality(Group(charges, c))
  PROVE  LET s == InOrder(Group(charges, c))
         IN  \E g : /\ g[0] = s[1]
                    /\ \A i \in 1..(k - 1) : g[i] = NextCanonical(g[i-1], s[i+1])
                    /\ Canonical(charges)[s[k]] = g[k-1]
<1> DEFINE S == Group(charges, c)
           s == InOrder(S)
           P == {d \in Fees(charges) : Fingerprint(d) = Fingerprint(s[k]) /\ ~Earlier(s[k], d)}
           u == InOrder(P)
<1>1. Ordered(S)
  BY FS_Subset DEF Ordered, Group, Fees
<1>2. s[k] \in S /\ Cardinality(Before(S, s[k])) = k - 1
  BY <1>1, InOrderLists
<1>3. P \in SUBSET S /\ \A d \in P, e \in S : Earlier(e, d) => e \in P
  <2>1. Fingerprint(s[k]) = Fingerprint(c)
    BY <1>2 DEF Group
  <2>2. P \in SUBSET S
    BY <2>1 DEF Group
  <2>3. ASSUME NEW d \in P, NEW e \in S, Earlier(e, d) PROVE e \in P
    <3>1. d \in S /\ ~Earlier(s[k], d)
      BY <2>2
    <3>2. ~Earlier(s[k], e)
      BY <1>1, <1>2, <2>3, <3>1, EarlierIsOrder
    <3> QED
      BY <2>1, <3>2 DEF Group
  <2> QED
    BY <2>2, <2>3
<1>4. Cardinality(P) = k
  <2>1. P = Before(S, s[k]) \cup {s[k]}
    <3>1. Fingerprint(s[k]) = Fingerprint(c) /\ s[k] \in Fees(charges)
      BY <1>2 DEF Group
    <3>2. ASSUME NEW d \in S PROVE ~Earlier(s[k], d) <=> d = s[k] \/ Earlier(d, s[k])
      BY <1>1, <1>2, EarlierIsOrder
    <3>3. P = {d \in S : ~Earlier(s[k], d)}
      BY <3>1 DEF Group
    <3> HIDE DEF P, s, S
    <3> QED
      BY <1>2, <3>2, <3>3 DEF Before
  <2>2. s[k] \notin Before(S, s[k]) /\ IsFiniteSet(Before(S, s[k]))
    BY <1>1, <1>2, EarlierIsOrder, BeforeSize DEF Before
  <2>3. Cardinality(Before(S, s[k]) \cup {s[k]}) = Cardinality(Before(S, s[k])) + 1
    BY <2>2, FS_AddElement
  <2> HIDE DEF P, s, S
  <2> QED
    BY <1>2, <2>1, <2>3
<1>5. /\ Ordered(P) /\ u \in Seq(P) /\ Len(u) = k
      /\ \A i \in 1..k : u[i] = s[i] /\ s[i] \in S
  <2>1. Ordered(P) /\ \A i \in 1..Cardinality(P) : u[i] = s[i]
    BY <1>1, <1>3, InOrderPrefix
  <2>2. u \in Seq(P) /\ Len(u) = Cardinality(P)
    BY <2>1, InOrderLists
  <2>3. \A i \in 1..k : s[i] \in S
    BY <1>1, InOrderLists
  <2> QED
    BY <1>4, <2>1, <2>2, <2>3
<1>6. Canonical(charges)[s[k]] = WalkOver(Head(u), Tail(u))
  BY <1>2 DEF Canonical, Group, WalkOver
<1> HIDE DEF u, P, s, S
<1>7. Head(u) = s[1] /\ s[1] \in S /\ Tail(u) \in Seq(P) /\ DOMAIN Tail(u) = 1..(k-1)
      /\ \A i \in 1..(k-1) : Tail(u)[i] = s[i+1] /\ s[i+1] \in S
  <2>1. u # <<>>
    BY <1>5
  <2>2. Tail(u) \in Seq(P) /\ Len(Tail(u)) = k - 1 /\ Head(u) = u[1]
    BY <1>5, <2>1
  <2>3. \A i \in 1..(k-1) : Tail(u)[i] = u[i+1]
    BY <1>5, <2>1
  <2> QED
    BY <1>5, <2>2, <2>3
<1>8. \A m \in S, i \in 1..(k-1) : NextCanonical(m, Tail(u)[i]) \in S
  BY <1>7 DEF NextCanonical
<1>9. PICK g : /\ g[0] = s[1]
               /\ g[k-1] = WalkOver(s[1], Tail(u))
               /\ \A i \in 1..(k-1) : g[i] = NextCanonical(g[i-1], Tail(u)[i])
  <2> DEFINE t == Tail(u)
             q == k - 1
  <2>1. q \in Nat /\ DOMAIN t = 1..q /\ s[1] \in S
    BY <1>7
  <2>2. \A m \in S, i \in 1..q : NextCanonical(m, t[i]) \in S
    BY <1>8
  <2> HIDE DEF t, q
  <2>3. \E g : WalkIs(g, q, s[1], t)
    BY <2>1, <2>2, CanonicalChain, Zenon
  <2> QED
    BY <2>3 DEF WalkIs, t, q
<1>10. \A i \in 1..(k-1) : g[i] = NextCanonical(g[i-1], s[i+1])
  BY <1>7, <1>9
<1> QED
  BY <1>6, <1>7, <1>9, <1>10 DEF s, S

(* Of two lines that follow each other in a group, the canonical line of the second is
   that of the first or the second itself: a longer walk begins as a shorter one. *)
LEMMA CanonicalStep ==
  ASSUME NEW charges, Ordered(charges), NEW c \in Fees(charges)
  PROVE  LET s == InOrder(Group(charges, c))
             canon == Canonical(charges)
         IN  \A k \in 1..Cardinality(Group(charges, c)) :
               canon[s[k]] = IF k = 1 THEN s[1] ELSE NextCanonical(canon[s[k-1]], s[k])
<1> DEFINE s == InOrder(Group(charges, c))
           canon == Canonical(charges)
           n == Cardinality(Group(charges, c))
<1> SUFFICES ASSUME NEW k \in 1..n
             PROVE  canon[s[k]] = IF k = 1 THEN s[1] ELSE NextCanonical(canon[s[k-1]], s[k])
  BY Zenon
<1>0. n \in Nat
  BY FS_Subset, FS_CardinalityType DEF Ordered, Group, Fees
<1>1. PICK g : /\ g[0] = s[1]
               /\ \A i \in 1..(k - 1) : g[i] = NextCanonical(g[i-1], s[i+1])
               /\ canon[s[k]] = g[k-1]
  BY CanonicalWalk
<1>2. CASE k = 1
  BY <1>1, <1>2
<1>3. CASE k # 1
  <2>1. k - 1 \in 1..n
    BY <1>0, <1>3
  <2>2. PICK h : /\ h[0] = s[1]
                 /\ \A i \in 1..((k - 1) - 1) : h[i] = NextCanonical(h[i-1], s[i+1])
                 /\ canon[s[k-1]] = h[(k-1)-1]
    BY <2>1, CanonicalWalk
  <2> HIDE DEF s, canon, n
  <2> DEFINE N == {i \in Nat : i <= k - 2 => g[i] = h[i]}
  <2>3. 0 \in N
    BY <1>1, <2>2
  <2>4. ASSUME NEW i \in Nat, i \in N PROVE i + 1 \in N
    <3> SUFFICES ASSUME i + 1 <= k - 2 PROVE g[i+1] = h[i+1]
      OBVIOUS
    <3>1. i + 1 \in 1..(k-1) /\ i + 1 \in 1..((k-1)-1) /\ (i + 1) - 1 = i /\ i <= k - 2
      BY <2>1
    <3>2. g[i+1] = NextCanonical(g[i], s[(i+1)+1])
      BY <1>1, <3>1
    <3>3. h[i+1] = NextCanonical(h[i], s[(i+1)+1])
      BY <2>2, <3>1
    <3> QED
      BY <2>4, <3>1, <3>2, <3>3
  <2>5. \A i \in Nat : i \in N
    <3> HIDE DEF N
    <3> QED
      BY <2>3, <2>4, CountUp
  <2>6. k - 2 \in Nat /\ (k - 1) - 1 = k - 2 /\ (k - 1) + 1 = k /\ k - 1 \in 1..(k-1)
    BY <1>0, <2>1
  <2>7. g[k-2] = h[k-2]
    BY <2>5, <2>6
  <2>8. g[k-1] = NextCanonical(g[k-2], s[k])
    BY <1>1, <2>6
  <2> QED
    BY <1>1, <1>3, <2>2, <2>6, <2>7, <2>8
<1> QED
  BY <1>2, <1>3

(* The canonical line of a line is a line of its group, no later than it and within the
   window, stays itself, and is the last to do so. *)
LEMMA CanonicalIsLatestBefore ==
  ASSUME NEW charges, Ordered(charges), NEW c \in Fees(charges)
  PROVE  LET s == InOrder(Group(charges, c))
             canon == Canonical(charges)
         IN  \A k \in 1..Cardinality(Group(charges, c)) : \E j \in 1..k :
               /\ canon[s[k]] = s[j] /\ canon[s[j]] = s[j]
               /\ s[k].posted - s[j].posted <= WindowDays
               /\ \A i \in 1..k : canon[s[i]] = s[i] => i <= j
<1> DEFINE S == Group(charges, c)
           s == InOrder(S)
           canon == Canonical(charges)
           n == Cardinality(S)
           Good(k) == k \in 1..n =>
                        \E j \in 1..k :
                          /\ canon[s[k]] = s[j] /\ canon[s[j]] = s[j]
                          /\ s[k].posted - s[j].posted <= WindowDays
                          /\ \A i \in 1..k : canon[s[i]] = s[i] => i <= j
<1>1. Ordered(S)
  BY FS_Subset DEF Ordered, Group, Fees
<1>2. /\ n \in Nat /\ \A k \in 1..n : s[k] \in S /\ s[k].posted \in Int
      /\ \A i, j \in 1..n : i < j => s[i] # s[j]
  <2>1. n \in Nat /\ \A k \in 1..n : s[k] \in S
    BY <1>1, InOrderLists
  <2>2. \A k \in 1..n : s[k].posted \in Int
    BY <1>1, <2>1 DEF Ordered
  <2>3. ASSUME NEW i \in 1..n, NEW j \in 1..n, i < j PROVE s[i] # s[j]
    <3>1. Earlier(s[i], s[j])
      BY <1>1, <2>3, InOrderLists
    <3> QED
      BY <1>1, <2>1, <3>1, EarlierIsOrder
  <2> QED
    BY <2>1, <2>2, <2>3
<1>3. \A k \in 1..n : canon[s[k]] = IF k = 1 THEN s[1] ELSE NextCanonical(canon[s[k-1]], s[k])
  BY CanonicalStep
<1> HIDE DEF n, canon, s, S
<1>4. Good(0)
  OBVIOUS
<1>5. ASSUME NEW k \in Nat, Good(k) PROVE Good(k + 1)
  <2> SUFFICES ASSUME k + 1 \in 1..n
               PROVE  \E j \in 1..(k + 1) :
                        /\ canon[s[k+1]] = s[j] /\ canon[s[j]] = s[j]
                        /\ s[k+1].posted - s[j].posted <= WindowDays
                        /\ \A i \in 1..(k + 1) : canon[s[i]] = s[i] => i <= j
    OBVIOUS
  <2>0. s[k+1].posted \in Int /\ WindowDays \in Nat /\ s[k+1].posted - s[k+1].posted = 0
    BY <1>2, WindowDaysAssumption
  <2>1. CASE canon[s[k+1]] = s[k+1]
    BY <2>0, <2>1
  <2>2. CASE canon[s[k+1]] # s[k+1]
    <3>1. k \in 1..n /\ (k + 1) - 1 = k /\ k + 1 # 1
      BY <1>2, <1>3, <2>2
    <3>2. canon[s[k+1]] = NextCanonical(canon[s[k]], s[k+1])
      BY <1>3, <3>1
    <3>3. PICK j \in 1..k : /\ canon[s[k]] = s[j] /\ canon[s[j]] = s[j]
                            /\ \A i \in 1..k : canon[s[i]] = s[i] => i <= j
      BY <1>5, <3>1
    <3>4. s[k+1].posted - s[j].posted <= WindowDays /\ canon[s[k+1]] = s[j]
      BY <2>2, <3>2, <3>3 DEF NextCanonical
    <3>5. \A i \in 1..(k+1) : canon[s[i]] = s[i] => i <= j
      BY <2>2, <3>3
    <3>6. j \in 1..(k+1)
      OBVIOUS
    <3> QED
      BY <3>3, <3>4, <3>5, <3>6
  <2> QED
    BY <2>1, <2>2
<1>6. \A k \in Nat : Good(k)
  <2> DEFINE N == {k \in Nat : Good(k)}
  <2> HIDE DEF Good
  <2>1. 0 \in N /\ \A k \in Nat : k \in N => k + 1 \in N
    BY <1>4, <1>5
  <2>2. \A k \in Nat : k \in N
    <3> HIDE DEF N
    <3> QED
      BY <2>1, CountUp
  <2> QED
    BY <2>2
<1>7. \A k \in 1..n : Good(k)
  BY <1>2, <1>6
<1> QED
  BY <1>7, Zenon DEF n, canon, s, S

(* Two lines of a group that both stay lie more than the window apart. *)
LEMMA CanonicalsApart ==
  ASSUME NEW charges, Ordered(charges), NEW c \in Fees(charges),
         NEW k \in 1..Cardinality(Group(charges, c)),
         NEW l \in 1..Cardinality(Group(charges, c)), k < l,
         LET s == InOrder(Group(charges, c))
             canon == Canonical(charges)
         IN  canon[s[k]] = s[k] /\ canon[s[l]] = s[l]
  PROVE  LET s == InOrder(Group(charges, c))
         IN  s[l].posted - s[k].posted > WindowDays
<1> DEFINE S == Group(charges, c)
           s == InOrder(S)
           canon == Canonical(charges)
           n == Cardinality(S)
<1>1. Ordered(S)
  BY FS_Subset DEF Ordered, Group, Fees
<1>2. /\ n \in Nat /\ \A i \in 1..n : s[i] \in S /\ s[i].posted \in Int
      /\ \A i, j \in 1..n : i < j => Earlier(s[i], s[j])
  <2>1. n \in Nat /\ \A i \in 1..n : s[i] \in S
    BY <1>1, InOrderLists
  <2>2. \A i, j \in 1..n : i < j => Earlier(s[i], s[j])
    BY <1>1, InOrderLists
  <2> QED
    BY <1>1, <2>1, <2>2 DEF Ordered
<1>3. l - 1 \in 1..n /\ l # 1 /\ k \in 1..(l-1) /\ k \in 1..n /\ l \in 1..n
  BY <1>2
<1>4. canon[s[l]] = NextCanonical(canon[s[l-1]], s[l])
  BY <1>3, CanonicalStep
<1>5. PICK m \in 1..(l-1) : /\ canon[s[l-1]] = s[m]
                            /\ \A i \in 1..(l-1) : canon[s[i]] = s[i] => i <= m
  BY <1>3, CanonicalIsLatestBefore
<1>6. k <= m /\ m < l /\ m \in 1..n
  BY <1>2, <1>3, <1>5
<1>7. s[l] # s[m]
  <2>1. Earlier(s[m], s[l]) /\ s[m] \in S
    BY <1>2, <1>6
  <2> QED
    BY <1>1, <2>1, EarlierIsOrder
<1>8. s[k].posted <= s[m].posted
  <2>1. CASE k = m
    BY <1>2, <2>1
  <2>2. CASE k < m
    <3>1. Earlier(s[k], s[m])
      BY <1>2, <1>6, <2>2
    <3> QED
      BY <1>2, <1>6, <3>1 DEF Earlier
  <2> QED
    BY <1>6, <2>1, <2>2
<1> HIDE DEF s, S, n, canon
<1>9. s[l].posted - s[m].posted > WindowDays
  <2>1. ~(s[l].posted - s[m].posted <= WindowDays)
    BY <1>4, <1>5, <1>7 DEF NextCanonical, s, canon, S
  <2> QED
    BY <1>2, <1>3, <1>6, <2>1, WindowDaysAssumption
<1>10. s[l].posted - s[k].posted > WindowDays
  BY <1>2, <1>3, <1>6, <1>8, <1>9, WindowDaysAssumption
<1> QED
  BY <1>10 DEF s, S

-----------------------------------------------------------------------------
(* Sums of what refunds pay. *)

(* One part more pays so much more. *)
LEMMA PaidWith ==
  ASSUME NEW S, IsFiniteSet(S), \A p \in S : p.amount \in Int,
         NEW x, x \notin S, x.amount \in Int
  PROVE  Paid(S) \in Int /\ Paid(S \cup {x}) = Paid(S) + x.amount
<1> DEFINE T == S \cup {x}
<1>1. IsFiniteSet(T) /\ \A p \in T : p.amount \in Int
  BY FS_AddElement
<1>2. \A U \in SUBSET T : Paid(U) \in Int /\ \A y \in U : Paid(U) = y.amount + Paid(U \ {y})
  <2> HIDE DEF T
  <2> QED
    BY <1>1, PaidWithout
<1>3. T \in SUBSET T /\ S \in SUBSET T /\ x \in T /\ T \ {x} = S
  OBVIOUS
<1>4. Paid(T) = x.amount + Paid(S) /\ Paid(S) \in Int
  <2> HIDE DEF T
  <2> QED
    BY <1>2, <1>3
<1> QED
  BY <1>4

(* Parts that are natural numbers sum to one. *)
LEMMA PaidIsNat ==
  ASSUME NEW S, IsFiniteSet(S), \A p \in S : p.amount \in Nat
  PROVE  Paid(S) \in Nat
<1> DEFINE P == {T \in SUBSET S : Paid(T) \in Nat}
<1>1. ASSUME NEW T \in SUBSET S, \A x \in T : T \ {x} \in P PROVE T \in P
  <2>1. CASE T = {}
    BY <2>1, PaidOfNone
  <2>2. CASE T # {}
    <3>1. PICK x \in T : TRUE
      BY <2>2
    <3>2. Paid(T) = x.amount + Paid(T \ {x})
      BY PaidWithout
    <3>3. Paid(T \ {x}) \in Nat /\ x.amount \in Nat
      BY <1>1
    <3> QED
      BY <3>2, <3>3
  <2> QED
    BY <2>1, <2>2
<1>2. \A T \in SUBSET S : T \in P
  <2> HIDE DEF P
  <2> QED
    BY <1>1, RemoveOne
<1> QED
  BY <1>2

-----------------------------------------------------------------------------
(* One refund is matched. *)

(* Stored lines whose amounts are whole cents. *)
Ledger(S) == Ordered(S) /\ \A c \in S : c.amount \in Int

Parts(charges) == [refund : Refunds(charges), fee : Fees(charges), amount : Int]

Matchings(charges) ==
  [left : Int, remaining : [Fees(charges) -> Int], paid : SUBSET Parts(charges),
   ambiguous : SUBSET [refund : Refunds(charges), fee : Fees(charges)]]

(* The accounts balance: of each fee, what was paid back and what remains make the fee. *)
Balanced(m, charges) ==
  /\ m \in Matchings(charges)
  /\ IsFiniteSet(m.paid)
  /\ \A p \in m.paid : p.amount > 0
  /\ \A p, q \in m.paid : p.refund = q.refund /\ p.fee = q.fee => p = q
  /\ \A f \in Fees(charges) : /\ m.remaining[f] \in 0..f.amount
                              /\ Paid(PaidToFee(m, f)) = f.amount - m.remaining[f]

OfRefund(m, r) == {p \in m.paid : p.refund = r}

OfOthers(m, r) == {p \in m.paid : p.refund # r}

(* The refund r, offered to the first i fees of o, has taken the accounts from m0 to m. *)
Paying(m0, m, r, o, i, charges) ==
  /\ m0 \in Matchings(charges)
  /\ Balanced(m, charges)
  /\ OfOthers(m, r) = OfOthers(m0, r)
  /\ m.ambiguous = m0.ambiguous
  /\ \A f \in Fees(charges) : m.remaining[f] <= m0.remaining[f]
  /\ \A p \in OfRefund(m, r) :
       \E j \in 1..i : p.fee = o[j] /\ \A h \in 1..(j - 1) : m.remaining[o[h]] = 0
  /\ Paid(OfRefund(m, r)) = r.amount - m.left
  /\ m.left >= 0 \/ m.left = r.amount
  /\ m.left > 0 => \A h \in 1..i : m.remaining[o[h]] = 0

(* A step of the allocation keeps all this. *)
LEMMA PayFeeKeeps ==
  ASSUME NEW charges, Ledger(charges), NEW r \in Refunds(charges),
         NEW n \in Nat, NEW o, \A h \in 1..n : o[h] \in Fees(charges),
         \A h, j \in 1..n : h # j => o[h] # o[j],
         NEW m0, NEW m, NEW i \in 0..(n - 1), Paying(m0, m, r, o, i, charges)
  PROVE  Paying(m0, PayFee(m, r, o[i+1]), r, o, i + 1, charges)
<1> DEFINE f == o[i+1]
           take == Smaller(m.left, m.remaining[f])
           x == [refund |-> r, fee |-> f, amount |-> take]
           q == PayFee(m, r, f)
           F == Fees(charges)
<1>1. /\ f \in F /\ r \in charges /\ r.amount \in Int
      /\ m \in Matchings(charges) /\ m.left \in Int /\ m.remaining \in [F -> Int]
      /\ \A e \in F : e.amount \in Int
      /\ m.remaining[f] \in 0..f.amount /\ take \in Int
  <2>1. f \in F
    OBVIOUS
  <2>2. r \in charges /\ r.amount \in Int /\ \A e \in F : e.amount \in Int
    BY DEF Refunds, Fees, Ledger
  <2>3. m \in Matchings(charges) /\ m.remaining[f] \in 0..f.amount
    BY <2>1 DEF Paying, Balanced
  <2>4. m.left \in Int /\ m.remaining \in [F -> Int]
    BY <2>3 DEF Matchings
  <2> QED
    BY <2>1, <2>2, <2>3, <2>4 DEF Smaller
<1>2. \A h \in 1..i : h \in 1..n /\ o[h] \in F /\ o[h] # f
  OBVIOUS
<1>3. CASE ~(take > 0)
  <2>1. q = m
    BY <1>3 DEF PayFee
  <2>2. m.left > 0 => m.remaining[f] = 0
    BY <1>1, <1>3 DEF Smaller
  <2>3. \A p \in OfRefund(m, r) :
          \E j \in 1..(i + 1) : p.fee = o[j] /\ \A h \in 1..(j - 1) : m.remaining[o[h]] = 0
    <3>1. \A j \in 1..i : j \in 1..(i + 1)
      OBVIOUS
    <3> QED
      BY <3>1 DEF Paying
  <2>4. m.left > 0 => \A h \in 1..(i + 1) : m.remaining[o[h]] = 0
    <3>1. \A h \in 1..(i + 1) : h \in 1..i \/ o[h] = f
      OBVIOUS
    <3> QED
      BY <2>2, <3>1 DEF Paying
  <2> HIDE DEF f, q
  <2> QED
    BY <2>1, <2>3, <2>4 DEF Paying, q, f
<1>4. CASE take > 0
  <2>1. q = [m EXCEPT !.left = @ - take, !.remaining[f] = @ - take, !.paid = @ \cup {x}]
    BY <1>4 DEF PayFee
  <2>2. /\ m.left > 0 /\ take <= m.left /\ take <= m.remaining[f]
        /\ take = m.left \/ take = m.remaining[f]
    BY <1>1, <1>4 DEF Smaller
  <2>3. x \in Parts(charges) /\ x.refund = r /\ x.fee = f /\ x.amount = take
    BY <1>1 DEF Parts
  <2>4. /\ q.left = m.left - take /\ q.paid = m.paid \cup {x} /\ q.ambiguous = m.ambiguous
        /\ q.remaining = [m.remaining EXCEPT ![f] = m.remaining[f] - take]
    BY <1>1, <2>1 DEF Matchings
  <2>5. /\ q.remaining[f] = m.remaining[f] - take
        /\ \A e \in F : e # f => q.remaining[e] = m.remaining[e]
    BY <1>1, <2>4
  <2>6. q \in Matchings(charges)
    <3>1. q.remaining \in [F -> Int]
      BY <1>1, <2>4
    <3>2. m.paid \cup {x} \in SUBSET Parts(charges) /\ m.left - take \in Int
      BY <1>1, <2>3 DEF Matchings
    <3> DEFINE left == m.left - take
               remaining == [m.remaining EXCEPT ![f] = m.remaining[f] - take]
               paid == m.paid \cup {x}
    <3>3. q = [m EXCEPT !.left = left, !.remaining = remaining, !.paid = paid]
      BY <1>1, <2>1 DEF Matchings
    <3>4. left \in Int /\ remaining \in [F -> Int] /\ paid \in SUBSET Parts(charges)
      BY <2>4, <3>1, <3>2
    <3> HIDE DEF left, remaining, paid, x, take, f, q
    <3> QED
      BY <1>1, <3>3, <3>4 DEF Matchings
  <2> HIDE DEF q, x, take
  <2>7. \A p \in m.paid : ~(p.refund = r /\ p.fee = f)
    <3> SUFFICES ASSUME NEW p \in m.paid, p.refund = r, p.fee = f PROVE FALSE
      OBVIOUS
    <3>1. PICK j \in 1..i : p.fee = o[j]
      BY DEF Paying, OfRefund
    <3> QED
      BY <1>2, <3>1
  <2>8. x \notin m.paid
    BY <2>3, <2>7
  <2>9. m.paid \subseteq Parts(charges) /\ IsFiniteSet(m.paid) /\ \A p \in m.paid : p.amount \in Int
    BY <1>1 DEF Matchings, Parts, Paying, Balanced
  <2>10. Balanced(q, charges)
    <3>1. IsFiniteSet(q.paid)
      BY <2>4, <2>9, FS_AddElement
    <3>2. \A p \in q.paid : p.amount > 0
      BY <1>4, <2>3, <2>4 DEF Paying, Balanced
    <3>3. \A p, s \in q.paid : p.refund = s.refund /\ p.fee = s.fee => p = s
      BY <2>3, <2>4, <2>7 DEF Paying, Balanced
    <3>4. ASSUME NEW e \in F
          PROVE  q.remaining[e] \in 0..e.amount /\ Paid(PaidToFee(q, e)) = e.amount - q.remaining[e]
      <4>1. m.remaining[e] \in 0..e.amount /\ Paid(PaidToFee(m, e)) = e.amount - m.remaining[e]
        BY DEF Paying, Balanced
      <4>2. CASE e = f
        <5>1. PaidToFee(q, f) = PaidToFee(m, f) \cup {x}
          BY <2>3, <2>4 DEF PaidToFee
        <5>2. IsFiniteSet(PaidToFee(m, f)) /\ (\A p \in PaidToFee(m, f) : p.amount \in Int)
              /\ x \notin PaidToFee(m, f) /\ x.amount \in Int
          BY <1>1, <2>3, <2>8, <2>9, FS_Subset DEF PaidToFee
        <5>3. Paid(PaidToFee(q, f)) = Paid(PaidToFee(m, f)) + take
          BY <2>3, <5>1, <5>2, PaidWith
        <5>4. q.remaining[f] \in 0..f.amount
          BY <1>1, <1>4, <2>2, <2>5
        <5> QED
          BY <1>1, <2>5, <4>1, <4>2, <5>3, <5>4
      <4>3. CASE e # f
        <5>1. PaidToFee(q, e) = PaidToFee(m, e)
          BY <2>3, <2>4, <4>3 DEF PaidToFee
        <5> QED
          BY <2>5, <4>1, <4>3, <5>1
      <4> QED
        BY <4>2, <4>3
    <3> QED
      BY <2>6, <3>1, <3>2, <3>3, <3>4 DEF Balanced
  <2>11. OfOthers(q, r) = OfOthers(m, r)
    BY <2>3, <2>4 DEF OfOthers
  <2>12. \A e \in F : q.remaining[e] <= m.remaining[e] /\ (m.remaining[e] = 0 => q.remaining[e] = 0)
    <3> SUFFICES ASSUME NEW e \in F
                 PROVE  q.remaining[e] <= m.remaining[e] /\ (m.remaining[e] = 0 => q.remaining[e] = 0)
      OBVIOUS
    <3>1. m.remaining[e] \in Int /\ m.remaining[e] <= m.remaining[e]
      BY <1>1
    <3> QED
      BY <1>1, <1>4, <2>2, <2>5, <3>1
  <2>13. \A h \in 1..i : m.remaining[o[h]] = 0 /\ q.remaining[o[h]] = 0
    BY <1>2, <2>2, <2>12 DEF Paying
  <2>14. ASSUME NEW p \in OfRefund(q, r)
         PROVE  \E j \in 1..(i + 1) : p.fee = o[j] /\ \A h \in 1..(j - 1) : q.remaining[o[h]] = 0
    <3>1. CASE p = x
      <4>1. i + 1 \in 1..(i + 1) /\ 1..((i + 1) - 1) = 1..i
        OBVIOUS
      <4> QED
        BY <2>3, <2>13, <3>1, <4>1
    <3>2. CASE p # x
      <4>1. p \in OfRefund(m, r)
        BY <2>4, <3>2 DEF OfRefund
      <4>2. PICK j \in 1..i : p.fee = o[j]
        BY <4>1 DEF Paying
      <4>3. j \in 1..(i + 1) /\ \A h \in 1..(j - 1) : h \in 1..i
        OBVIOUS
      <4> QED
        BY <2>13, <4>2, <4>3
    <3> QED
      BY <3>1, <3>2
  <2>15. Paid(OfRefund(q, r)) = r.amount - q.left
    <3>1. OfRefund(q, r) = OfRefund(m, r) \cup {x}
      BY <2>3, <2>4 DEF OfRefund
    <3>2. IsFiniteSet(OfRefund(m, r)) /\ (\A p \in OfRefund(m, r) : p.amount \in Int)
          /\ x \notin OfRefund(m, r) /\ x.amount \in Int
      BY <1>1, <2>3, <2>8, <2>9, FS_Subset DEF OfRefund
    <3>3. Paid(OfRefund(q, r)) = Paid(OfRefund(m, r)) + take
      BY <2>3, <3>1, <3>2, PaidWith
    <3>4. Paid(OfRefund(m, r)) = r.amount - m.left
      BY DEF Paying
    <3> QED
      BY <1>1, <2>4, <3>3, <3>4
  <2>16. q.left >= 0 /\ (q.left > 0 => q.remaining[f] = 0)
    BY <1>1, <2>2, <2>4, <2>5
  <2>17. q.left > 0 => \A h \in 1..(i + 1) : q.remaining[o[h]] = 0
    <3>1. \A h \in 1..(i + 1) : h \in 1..i \/ o[h] = f
      OBVIOUS
    <3> QED
      BY <2>13, <2>16, <3>1
  <2>18. \A e \in F : q.remaining[e] <= m0.remaining[e]
    <3> SUFFICES ASSUME NEW e \in F PROVE q.remaining[e] <= m0.remaining[e]
      OBVIOUS
    <3>1. q.remaining[e] <= m.remaining[e] /\ m.remaining[e] <= m0.remaining[e]
      BY <2>12 DEF Paying
    <3>2. q.remaining[e] \in Int /\ m.remaining[e] \in Int /\ m0.remaining[e] \in Int
      BY <1>1, <2>6 DEF Matchings, Paying
    <3> QED
      BY <3>1, <3>2
  <2>19. q.ambiguous = m0.ambiguous /\ OfOthers(q, r) = OfOthers(m0, r)
    BY <2>4, <2>11 DEF Paying
  <2> HIDE DEF f, F
  <2> QED
    BY <2>10, <2>14, <2>15, <2>16, <2>17, <2>18, <2>19 DEF Paying, q, f, F
<1> QED
  BY <1>3, <1>4

(* The order of payment lists every candidate once, the duplicates first. *)
LEMMA PayOrderLists ==
  ASSUME NEW S, Ordered(S), NEW C \in SUBSET S, NEW canon
  PROVE  LET o == PayOrder(C, canon)
         IN  /\ Len(o) \in Nat /\ DOMAIN o = 1..Len(o)
             /\ \A h \in 1..Len(o) : o[h] \in C
             /\ \A f \in C : \E h \in 1..Len(o) : o[h] = f
             /\ \A h, j \in 1..Len(o) : h # j => o[h] # o[j]
             /\ \A h, j \in 1..Len(o) : canon[o[h]] # o[h] /\ canon[o[j]] = o[j] => h < j
<1> DEFINE D == {f \in C : canon[f] # f}
           K == {f \in C : canon[f] = f}
           a == Cardinality(D)
           b == Cardinality(K)
           s == InOrder(D)
           t == InOrder(K)
           o == PayOrder(C, canon)
<1>1. Ordered(D) /\ Ordered(K)
  BY FS_Subset DEF Ordered
<1>2. /\ a \in Nat /\ s \in Seq(D) /\ Len(s) = a
      /\ \A i \in 1..a : s[i] \in D
      /\ \A f \in D : \E i \in 1..a : s[i] = f
      /\ \A i, j \in 1..a : i < j => Earlier(s[i], s[j])
  BY <1>1, InOrderLists
<1>3. /\ b \in Nat /\ t \in Seq(K) /\ Len(t) = b
      /\ \A i \in 1..b : t[i] \in K
      /\ \A f \in K : \E i \in 1..b : t[i] = f
      /\ \A i, j \in 1..b : i < j => Earlier(t[i], t[j])
  BY <1>1, InOrderLists
<1>4. \A i, j \in 1..a : i # j => s[i] # s[j]
  <2>1. \A i, j \in 1..a : i < j => s[i] # s[j]
    BY <1>1, <1>2, EarlierIsOrder
  <2> QED
    BY <1>2, <2>1
<1>5. \A i, j \in 1..b : i # j => t[i] # t[j]
  <2>1. \A i, j \in 1..b : i < j => t[i] # t[j]
    BY <1>1, <1>3, EarlierIsOrder
  <2> QED
    BY <1>3, <2>1
<1>6. o = Reverse(s) \o t
  BY DEF PayOrder
<1> HIDE DEF s, t, a, b, o
<1>7. /\ Reverse(s) \in Seq(D) /\ Len(Reverse(s)) = a
      /\ \A h \in 1..a : Reverse(s)[h] = s[(a - h) + 1]
  <2>1. Reverse(s) = [h \in 1..a |-> s[(a - h) + 1]]
    BY <1>2 DEF Reverse
  <2>2. \A h \in 1..a : (a - h) + 1 \in 1..a
    BY <1>2
  <2> QED
    BY <1>2, <2>1, <2>2
<1>8. /\ Len(o) = a + b /\ DOMAIN o = 1..(a + b)
      /\ \A h \in 1..a : o[h] = s[(a - h) + 1]
      /\ \A h \in (a + 1)..(a + b) : o[h] = t[h - a]
  <2> DEFINE u == Reverse(s)
  <2>1. u \in Seq(C) /\ t \in Seq(C) /\ Len(u) = a /\ Len(t) = b
    BY <1>3, <1>7
  <2>2. \A h \in 1..a : u[h] = s[(a - h) + 1]
    BY <1>7
  <2> HIDE DEF u
  <2>3. /\ Len(u \o t) = Len(u) + Len(t) /\ u \o t \in Seq(C)
        /\ \A h \in 1..(Len(u) + Len(t)) :
             (u \o t)[h] = IF h <= Len(u) THEN u[h] ELSE t[h - Len(u)]
    BY <2>1, ConcatProperties
  <2>4. Len(o) = a + b /\ o \in Seq(C)
        /\ \A h \in 1..(a + b) : o[h] = IF h <= a THEN u[h] ELSE t[h - a]
    BY <1>6, <2>1, <2>3 DEF u
  <2>5. DOMAIN o = 1..(a + b)
    BY <2>4
  <2>6. \A h \in 1..a : h \in 1..(a + b) /\ h <= a
    BY <1>2, <1>3
  <2>7. \A h \in (a + 1)..(a + b) : h \in 1..(a + b) /\ ~(h <= a)
    BY <1>2, <1>3
  <2> QED
    BY <2>2, <2>4, <2>5, <2>6, <2>7
<1>9. \A h \in 1..(a + b) : h \in 1..a \/ h \in (a + 1)..(a + b)
  BY <1>2, <1>3
<1>10. \A h \in 1..a : (a - h) + 1 \in 1..a /\ o[h] \in D
  <2> TAKE h \in 1..a
  <2>1. (a - h) + 1 \in 1..a
    BY <1>2
  <2>2. o[h] = s[(a - h) + 1]
    BY <1>8
  <2>3. s[(a - h) + 1] \in D
    BY <1>2, <2>1
  <2> QED
    BY <2>1, <2>2, <2>3
<1>11. \A h \in (a + 1)..(a + b) : h - a \in 1..b /\ o[h] \in K
  <2> TAKE h \in (a + 1)..(a + b)
  <2>1. h - a \in 1..b
    BY <1>2, <1>3
  <2>2. o[h] = t[h - a]
    BY <1>8
  <2>3. t[h - a] \in K
    BY <1>3, <2>1
  <2> QED
    BY <2>1, <2>2, <2>3
<1>12. \A f \in C : \E h \in 1..(a + b) : o[h] = f
  <2> SUFFICES ASSUME NEW f \in C PROVE \E h \in 1..(a + b) : o[h] = f
    OBVIOUS
  <2>1. CASE f \in D
    <3>1. PICK i \in 1..a : s[i] = f
      BY <1>2, <2>1
    <3>2. (a - i) + 1 \in 1..a /\ (a - ((a - i) + 1)) + 1 = i /\ (a - i) + 1 \in 1..(a + b)
      BY <1>2, <1>3
    <3> QED
      BY <1>8, <3>1, <3>2
  <2>2. CASE f \in K
    <3>1. PICK i \in 1..b : t[i] = f
      BY <1>3, <2>2
    <3>2. a + i \in (a + 1)..(a + b) /\ (a + i) - a = i /\ a + i \in 1..(a + b)
      BY <1>2, <1>3
    <3> QED
      BY <1>8, <3>1, <3>2
  <2> QED
    BY <2>1, <2>2
<1>13. \A h, j \in 1..(a + b) : h # j => o[h] # o[j]
  <2> SUFFICES ASSUME NEW h \in 1..(a + b), NEW j \in 1..(a + b), h # j PROVE o[h] # o[j]
    OBVIOUS
  <2>1. CASE h \in 1..a /\ j \in 1..a
    <3>1. (a - h) + 1 # (a - j) + 1
      BY <1>2, <1>3
    <3> QED
      BY <1>4, <1>8, <1>10, <2>1, <3>1
  <2>2. CASE h \in (a + 1)..(a + b) /\ j \in (a + 1)..(a + b)
    <3>1. h - a # j - a
      BY <1>2, <1>3
    <3> QED
      BY <1>5, <1>8, <1>11, <2>2, <3>1
  <2>3. CASE h \in 1..a /\ j \in (a + 1)..(a + b)
    BY <1>10, <1>11, <2>3
  <2>4. CASE h \in (a + 1)..(a + b) /\ j \in 1..a
    BY <1>10, <1>11, <2>4
  <2> QED
    BY <1>9, <2>1, <2>2, <2>3, <2>4
<1>14. \A h, j \in 1..(a + b) : canon[o[h]] # o[h] /\ canon[o[j]] = o[j] => h < j
  <2> SUFFICES ASSUME NEW h \in 1..(a + b), NEW j \in 1..(a + b),
                      canon[o[h]] # o[h], canon[o[j]] = o[j]
               PROVE  h < j
    OBVIOUS
  <2>1. h \in 1..a
    BY <1>9, <1>11
  <2>2. j \in (a + 1)..(a + b)
    BY <1>9, <1>10
  <2> QED
    BY <1>2, <1>3, <2>1, <2>2
<1>15. \A h \in 1..(a + b) : o[h] \in C
  BY <1>9, <1>10, <1>11
<1> HIDE DEF D, K
<1>16. a + b \in Nat
  BY <1>2, <1>3
<1> QED
  BY <1>8, <1>12, <1>13, <1>14, <1>15, <1>16 DEF o

(* Offering a refund to one fee leaves accounts of the same kind. *)
LEMMA PayFeeTyped ==
  ASSUME NEW charges, Ledger(charges), NEW m \in Matchings(charges),
         NEW r \in Refunds(charges), NEW f \in Fees(charges)
  PROVE  PayFee(m, r, f) \in Matchings(charges)
<1> DEFINE take == Smaller(m.left, m.remaining[f])
           x == [refund |-> r, fee |-> f, amount |-> take]
           left == m.left - take
           remaining == [m.remaining EXCEPT ![f] = m.remaining[f] - take]
           paid == m.paid \cup {x}
<1>1. m.left \in Int /\ m.remaining \in [Fees(charges) -> Int] /\ m.paid \in SUBSET Parts(charges)
  BY DEF Matchings
<1>2. take \in Int
  BY <1>1 DEF Smaller
<1>3. left \in Int /\ remaining \in [Fees(charges) -> Int] /\ paid \in SUBSET Parts(charges)
  BY <1>1, <1>2 DEF Parts
<1>4. [m EXCEPT !.left = left, !.remaining = remaining, !.paid = paid] \in Matchings(charges)
  <2> HIDE DEF left, remaining, paid
  <2> QED
    BY <1>3 DEF Matchings
<1>5. PayFee(m, r, f) = IF take > 0
                        THEN [m EXCEPT !.left = left, !.remaining = remaining, !.paid = paid]
                        ELSE m
  BY DEF PayFee, Matchings
<1> QED
  BY <1>4, <1>5

(* The whole refund, offered to all its candidates in order. *)
LEMMA PayAllKeeps ==
  ASSUME NEW charges, Ledger(charges), NEW r \in Refunds(charges),
         NEW n \in Nat, NEW o, DOMAIN o = 1..n, \A h \in 1..n : o[h] \in Fees(charges),
         \A h, j \in 1..n : h # j => o[h] # o[j],
         NEW m0, Balanced(m0, charges), m0.left = r.amount, OfRefund(m0, r) = {}
  PROVE  Paying(m0, PayAll(m0, r, o), r, o, n, charges)
<1>1. m0 \in Matchings(charges)
  BY DEF Balanced
<1>2. \A m \in Matchings(charges), i \in 1..n : PayFee(m, r, o[i]) \in Matchings(charges)
  BY PayFeeTyped
<1>3. PICK g : PayIs(g, n, m0, r, o)
  BY <1>1, <1>2, PayChain, Zenon
<1>4. /\ g[0] = m0 /\ g[n] = PayAll(m0, r, o)
      /\ \A k \in 1..n : g[k] = PayFee(g[k-1], r, o[k])
  BY <1>3 DEF PayIs
<1> DEFINE N == {i \in Nat : i <= n => Paying(m0, g[i], r, o, i, charges)}
<1>5. 0 \in N
  <2>1. r.amount \in Int /\ \A f \in Fees(charges) : m0.remaining[f] <= m0.remaining[f]
    <3>1. m0.remaining \in [Fees(charges) -> Int]
      BY <1>1 DEF Matchings
    <3> QED
      BY <3>1 DEF Ledger, Refunds
  <2>2. Paid(OfRefund(m0, r)) = r.amount - m0.left
    BY <2>1, PaidOfNone
  <2>3. Paying(m0, m0, r, o, 0, charges)
    BY <1>1, <2>1, <2>2 DEF Paying
  <2> QED
    BY <1>4, <2>3
<1>6. ASSUME NEW i \in Nat, i \in N PROVE i + 1 \in N
  <2> SUFFICES ASSUME i + 1 <= n PROVE Paying(m0, g[i+1], r, o, i + 1, charges)
    OBVIOUS
  <2>1. i \in 0..(n - 1) /\ i + 1 \in 1..n /\ (i + 1) - 1 = i /\ i <= n
    OBVIOUS
  <2>2. Paying(m0, g[i], r, o, i, charges)
    BY <1>6, <2>1
  <2>3. g[i+1] = PayFee(g[i], r, o[i+1])
    BY <1>4, <2>1
  <2>4. Paying(m0, PayFee(g[i], r, o[i+1]), r, o, i + 1, charges)
    BY <2>1, <2>2, PayFeeKeeps
  <2> QED
    BY <2>3, <2>4
<1>7. \A i \in Nat : i \in N
  <2> HIDE DEF N
  <2> QED
    BY <1>5, <1>6, CountUp
<1>8. Paying(m0, g[n], r, o, n, charges)
  BY <1>7
<1> QED
  BY <1>4, <1>8

-----------------------------------------------------------------------------
(* All refunds are matched. *)

Flags(m, r) == {a \in m.ambiguous : a.refund = r}

GroupsOf(r, charges, canon) == {canon[f] : f \in Candidates(r, charges)}

(* What a refund came to, once it was matched: nothing when it could belong to several
   groups; else no more than it has, all of it while a candidate is left to pay, and
   nothing to a canonical line before every duplicate is paid. *)
RefundSettled(m, r, charges, canon) ==
  IF Cardinality(GroupsOf(r, charges, canon)) > 1
  THEN /\ OfRefund(m, r) = {}
       /\ Flags(m, r) = {[refund |-> r, fee |-> f] : f \in Candidates(r, charges)}
  ELSE /\ Flags(m, r) = {}
       /\ Paid(OfRefund(m, r)) = 0 \/ Paid(OfRefund(m, r)) <= r.amount
       /\ r.amount > 0 /\ Candidates(r, charges) # {} =>
            \/ Paid(OfRefund(m, r)) = r.amount
            \/ \A f \in Candidates(r, charges) : m.remaining[f] = 0
       /\ \A p \in OfRefund(m, r), q \in Candidates(r, charges) :
            canon[p.fee] = p.fee /\ canon[q] # q => m.remaining[q] = 0

(* What matching one refund leaves of the accounts it was given. *)
KeepsOthers(m, q, r, charges) ==
  /\ OfOthers(q, r) = OfOthers(m, r)
  /\ {a \in q.ambiguous : a.refund # r} = {a \in m.ambiguous : a.refund # r}
  /\ \A f \in Fees(charges) : q.remaining[f] <= m.remaining[f]

(* Matching a refund of which the accounts hold nothing yet settles it, leaves what the
   others came to alone, and keeps the accounts balanced. *)
LEMMA MatchRefundSettles ==
  ASSUME NEW charges, Ledger(charges), NEW canon, NEW r \in Refunds(charges),
         NEW m, Balanced(m, charges), OfRefund(m, r) = {}, Flags(m, r) = {}
  PROVE  LET q == MatchRefund(m, r, charges, canon)
         IN  Balanced(q, charges) /\ RefundSettled(q, r, charges, canon) /\ KeepsOthers(m, q, r, charges)
<1> DEFINE q == MatchRefund(m, r, charges, canon)
           C == Candidates(r, charges)
           F == Fees(charges)
           several == Cardinality(GroupsOf(r, charges, canon)) > 1
           flags == {[refund |-> r, fee |-> f] : f \in C}
<1>1. /\ m \in Matchings(charges) /\ m.remaining \in [F -> Int]
      /\ C \in SUBSET F /\ F \in SUBSET charges /\ r.amount \in Int /\ Ordered(F)
  <2>1. r.amount \in Int
    BY DEF Refunds, Ledger
  <2>2. C \in SUBSET F /\ F \in SUBSET charges
    BY DEF Candidates, Fees
  <2>3. Ordered(F)
    BY FS_Subset DEF Fees, Ordered, Ledger
  <2>4. m \in Matchings(charges)
    BY DEF Balanced
  <2>5. m.remaining \in [F -> Int]
    BY <2>4 DEF Matchings
  <2> QED
    BY <2>1, <2>2, <2>3, <2>4, <2>5
<1>2. \A f \in F : m.remaining[f] <= m.remaining[f]
  BY <1>1
<1>3. CASE C = {}
  <2>1. ~several
    <3>1. GroupsOf(r, charges, canon) = {}
      BY <1>3 DEF GroupsOf
    <3> QED
      BY <3>1, FS_EmptySet
  <2>2. q = m
    BY <1>3, <2>1 DEF MatchRefund, GroupsOf
  <2>3. RefundSettled(m, r, charges, canon)
    <3>1. Paid(OfRefund(m, r)) = 0
      BY PaidOfNone
    <3> QED
      BY <1>3, <2>1, <3>1 DEF RefundSettled
  <2>4. KeepsOthers(m, m, r, charges)
    BY <1>2 DEF KeepsOthers
  <2> HIDE DEF q
  <2> QED
    BY <2>2, <2>3, <2>4 DEF q
<1>4. CASE C # {} /\ several
  <2>1. q = [m EXCEPT !.ambiguous = @ \cup flags]
    BY <1>4 DEF MatchRefund, GroupsOf
  <2>2. /\ q.left = m.left /\ q.remaining = m.remaining /\ q.paid = m.paid
        /\ q.ambiguous = m.ambiguous \cup flags
    BY <1>1, <2>1 DEF Matchings
  <2>3. flags \in SUBSET [refund : Refunds(charges), fee : F]
    BY <1>1
  <2> HIDE DEF q, flags
  <2>4. q \in Matchings(charges)
    <3> DEFINE amb == m.ambiguous \cup flags
    <3>1. amb \in SUBSET [refund : Refunds(charges), fee : F]
      BY <1>1, <2>3 DEF Matchings
    <3>2. q = [m EXCEPT !.ambiguous = amb]
      BY <1>1, <2>1 DEF Matchings
    <3> HIDE DEF amb
    <3> QED
      BY <1>1, <3>1, <3>2 DEF Matchings
  <2>5. Balanced(q, charges)
    <3>1. \A f \in F : PaidToFee(q, f) = PaidToFee(m, f)
      BY <2>2 DEF PaidToFee
    <3> QED
      BY <2>2, <2>4, <3>1 DEF Balanced
  <2>6. OfRefund(q, r) = {} /\ OfOthers(q, r) = OfOthers(m, r)
    BY <2>2 DEF OfRefund, OfOthers
  <2>7. \A a \in flags : a.refund = r
    BY DEF flags
  <2>8. Flags(q, r) = flags /\ {a \in q.ambiguous : a.refund # r} = {a \in m.ambiguous : a.refund # r}
    BY <2>2, <2>7 DEF Flags
  <2>9. RefundSettled(q, r, charges, canon)
    BY <1>4, <2>6, <2>8 DEF RefundSettled, flags
  <2>10. KeepsOthers(m, q, r, charges)
    BY <1>2, <2>2, <2>6, <2>8 DEF KeepsOthers
  <2> QED
    BY <2>5, <2>9, <2>10 DEF q
<1>5. CASE C # {} /\ ~several
  <2> DEFINE o == PayOrder(C, canon)
             n == Len(o)
             m0 == [m EXCEPT !.left = r.amount]
  <2>1. q = PayAll(m0, r, o)
    BY <1>5 DEF MatchRefund, GroupsOf, PayAll
  <2>2. /\ n \in Nat /\ DOMAIN o = 1..n
        /\ \A h \in 1..n : o[h] \in C
        /\ \A f \in C : \E h \in 1..n : o[h] = f
        /\ \A h, j \in 1..n : h # j => o[h] # o[j]
        /\ \A h, j \in 1..n : canon[o[h]] # o[h] /\ canon[o[j]] = o[j] => h < j
    BY <1>1, PayOrderLists
  <2>3. /\ m0.left = r.amount /\ m0.remaining = m.remaining /\ m0.paid = m.paid
        /\ m0.ambiguous = m.ambiguous /\ m0 \in Matchings(charges)
    BY <1>1 DEF Matchings
  <2> HIDE DEF q, m0, n, o, C
  <2>4. Balanced(m0, charges) /\ OfRefund(m0, r) = {}
    <3>1. \A f \in F : PaidToFee(m0, f) = PaidToFee(m, f)
      BY <2>3 DEF PaidToFee
    <3> QED
      BY <2>3, <3>1 DEF Balanced, OfRefund
  <2>5. Paying(m0, q, r, o, n, charges)
    <3>1. \A h \in 1..n : o[h] \in Fees(charges)
      BY <1>1, <2>2
    <3> QED
      BY <2>1, <2>2, <2>3, <2>4, <3>1, PayAllKeeps
  <2>6. Balanced(q, charges)
    BY <2>5 DEF Paying
  <2>7. KeepsOthers(m, q, r, charges)
    BY <2>3, <2>5 DEF Paying, KeepsOthers, OfOthers
  <2>8. Flags(q, r) = {}
    BY <2>3, <2>5 DEF Paying, Flags
  <2>9. q.left \in Int /\ Paid(OfRefund(q, r)) = r.amount - q.left
        /\ (q.left >= 0 \/ q.left = r.amount)
    BY <2>5, <2>6 DEF Paying, Balanced, Matchings
  <2>10. Paid(OfRefund(q, r)) = 0 \/ Paid(OfRefund(q, r)) <= r.amount
    BY <1>1, <2>9
  <2>11. r.amount > 0 => \/ Paid(OfRefund(q, r)) = r.amount
                         \/ \A f \in C : q.remaining[f] = 0
    <3>1. CASE q.left > 0
      <4>1. \A h \in 1..n : q.remaining[o[h]] = 0
        BY <2>5, <3>1 DEF Paying
      <4> QED
        BY <2>2, <4>1
    <3>2. CASE ~(q.left > 0)
      BY <1>1, <2>9, <3>2
    <3> QED
      BY <3>1, <3>2
  <2>12. ASSUME NEW p \in OfRefund(q, r), NEW d \in C, canon[p.fee] = p.fee, canon[d] # d
         PROVE  q.remaining[d] = 0
    <3>1. PICK j \in 1..n : p.fee = o[j] /\ \A h \in 1..(j - 1) : q.remaining[o[h]] = 0
      BY <2>5 DEF Paying
    <3>2. PICK h \in 1..n : o[h] = d
      BY <2>2
    <3>3. h < j
      BY <2>2, <2>12, <3>1, <3>2
    <3>4. h \in 1..(j - 1)
      BY <2>2, <3>3
    <3> QED
      BY <3>1, <3>2, <3>4
  <2>13. RefundSettled(q, r, charges, canon)
    BY <1>5, <2>8, <2>10, <2>11, <2>12 DEF RefundSettled, C
  <2> QED
    BY <2>6, <2>7, <2>13 DEF q
<1> QED
  BY <1>3, <1>4, <1>5

(* Matching another refund unsettles none. *)
LEMMA SettledStays ==
  ASSUME NEW charges, NEW canon, NEW r, NEW s, r # s, NEW m, NEW q,
         Balanced(m, charges), Balanced(q, charges), KeepsOthers(m, q, s, charges),
         RefundSettled(m, r, charges, canon)
  PROVE  RefundSettled(q, r, charges, canon)
<1>1. OfRefund(q, r) = OfRefund(m, r)
  <2>1. OfRefund(q, r) = {p \in OfOthers(q, s) : p.refund = r}
    BY DEF OfRefund, OfOthers
  <2>2. OfRefund(m, r) = {p \in OfOthers(m, s) : p.refund = r}
    BY DEF OfRefund, OfOthers
  <2> QED
    BY <2>1, <2>2 DEF KeepsOthers
<1>2. Flags(q, r) = Flags(m, r)
  <2>1. Flags(q, r) = {a \in {x \in q.ambiguous : x.refund # s} : a.refund = r}
    BY DEF Flags
  <2>2. Flags(m, r) = {a \in {x \in m.ambiguous : x.refund # s} : a.refund = r}
    BY DEF Flags
  <2> QED
    BY <2>1, <2>2 DEF KeepsOthers
<1>3. \A f \in Candidates(r, charges) : m.remaining[f] = 0 => q.remaining[f] = 0
  <2> SUFFICES ASSUME NEW f \in Fees(charges), m.remaining[f] = 0 PROVE q.remaining[f] = 0
    BY DEF Candidates
  <2>1. q.remaining[f] \in 0..f.amount /\ q.remaining[f] <= 0
    BY DEF Balanced, KeepsOthers
  <2> QED
    BY <2>1
<1> QED
  BY <1>1, <1>2, <1>3 DEF RefundSettled

(* Matching one refund leaves accounts of the same kind. *)
LEMMA MatchRefundTyped ==
  ASSUME NEW charges, Ledger(charges), NEW canon, NEW r \in Refunds(charges),
         NEW m \in Matchings(charges)
  PROVE  MatchRefund(m, r, charges, canon) \in Matchings(charges)
<1> DEFINE C == Candidates(r, charges)
           q == MatchRefund(m, r, charges, canon)
           several == Cardinality(GroupsOf(r, charges, canon)) > 1
<1>1. CASE C = {}
  <2>1. ~several
    <3>1. GroupsOf(r, charges, canon) = {}
      BY <1>1 DEF GroupsOf
    <3> QED
      BY <3>1, FS_EmptySet
  <2>2. q = m
    BY <1>1, <2>1 DEF MatchRefund, GroupsOf
  <2> HIDE DEF q
  <2>3. q \in Matchings(charges)
    BY <2>2
  <2> QED
    BY <2>3 DEF q
<1>2. CASE C # {} /\ several
  <2> DEFINE amb == m.ambiguous \cup {[refund |-> r, fee |-> f] : f \in C}
  <2>1. amb \in SUBSET [refund : Refunds(charges), fee : Fees(charges)]
    BY DEF Matchings, Candidates
  <2>2. q = [m EXCEPT !.ambiguous = amb]
    BY <1>2 DEF MatchRefund, GroupsOf, Matchings
  <2> HIDE DEF amb, q
  <2>3. q \in Matchings(charges)
    BY <2>1, <2>2 DEF Matchings
  <2> QED
    BY <2>3 DEF q
<1>3. CASE C # {} /\ ~several
  <2> DEFINE o == PayOrder(C, canon)
             n == Len(o)
             m0 == [m EXCEPT !.left = r.amount]
  <2>1. q = PayAll(m0, r, o)
    BY <1>3 DEF MatchRefund, GroupsOf, PayAll
  <2>2. Ordered(Fees(charges)) /\ C \in SUBSET Fees(charges) /\ r.amount \in Int
    BY FS_Subset DEF Fees, Ordered, Ledger, Candidates, Refunds
  <2>3. n \in Nat /\ DOMAIN o = 1..n /\ \A h \in 1..n : o[h] \in Fees(charges)
    BY <2>2, PayOrderLists
  <2>4. m0 \in Matchings(charges)
    BY <2>2 DEF Matchings
  <2> HIDE DEF q, m0, n, o, C
  <2>5. \A x \in Matchings(charges), i \in 1..n : PayFee(x, r, o[i]) \in Matchings(charges)
    BY <2>3, PayFeeTyped
  <2>6. PICK g : PayIs(g, n, m0, r, o)
    BY <2>3, <2>4, <2>5, PayChain, Zenon
  <2> DEFINE N == {i \in Nat : i <= n => g[i] \in Matchings(charges)}
  <2>7. 0 \in N
    BY <2>4, <2>6 DEF PayIs
  <2>8. ASSUME NEW i \in Nat, i \in N PROVE i + 1 \in N
    <3> SUFFICES ASSUME i + 1 <= n PROVE g[i+1] \in Matchings(charges)
      OBVIOUS
    <3>1. i + 1 \in 1..n /\ (i + 1) - 1 = i /\ i <= n
      BY <2>3
    <3>2. g[i+1] = PayFee(g[i], r, o[i+1]) /\ g[i] \in Matchings(charges)
      BY <2>6, <2>8, <3>1 DEF PayIs
    <3> QED
      BY <2>5, <3>1, <3>2
  <2>9. \A i \in Nat : i \in N
    <3> HIDE DEF N
    <3> QED
      BY <2>7, <2>8, CountUp
  <2>10. g[n] \in Matchings(charges)
    BY <2>3, <2>9
  <2>11. q \in Matchings(charges)
    BY <2>1, <2>6, <2>10 DEF PayIs
  <2> QED
    BY <2>11 DEF q
<1> QED
  BY <1>1, <1>2, <1>3

(* The accounts before any refund is matched. *)
Unmatched(charges) ==
  [left |-> 0, remaining |-> [f \in Fees(charges) |-> f.amount], paid |-> {}, ambiguous |-> {}]

(* They balance: nothing is paid and everything remains. *)
LEMMA UnmatchedIsBalanced ==
  ASSUME NEW charges, Ledger(charges)
  PROVE  Balanced(Unmatched(charges), charges)
<1> DEFINE u == Unmatched(charges)
<1>1. \A f \in Fees(charges) : f.amount \in Int /\ f.amount > 0
  BY DEF Fees, IsChargeableFee, Ledger
<1>2. u \in Matchings(charges)
  BY <1>1 DEF Unmatched, Matchings
<1>3. \A f \in Fees(charges) : PaidToFee(u, f) = {} /\ u.remaining[f] = f.amount
  BY DEF PaidToFee, Unmatched
<1>4. IsFiniteSet(u.paid) /\ u.paid = {}
  BY FS_EmptySet DEF Unmatched
<1> HIDE DEF u
<1>5. \A f \in Fees(charges) : u.remaining[f] \in 0..f.amount /\ Paid(PaidToFee(u, f)) = f.amount - u.remaining[f]
  <2> SUFFICES ASSUME NEW f \in Fees(charges)
               PROVE  u.remaining[f] \in 0..f.amount /\ Paid(PaidToFee(u, f)) = f.amount - u.remaining[f]
    OBVIOUS
  <2>1. Paid(PaidToFee(u, f)) = 0
    BY <1>3, PaidOfNone
  <2> QED
    BY <1>1, <1>3, <2>1
<1>6. Balanced(u, charges)
  BY <1>2, <1>4, <1>5 DEF Balanced
<1> QED
  BY <1>6 DEF u

(* The accounts after the first k of the refunds rs: they balance, hold nothing of any
   other refund, and each of the k is settled. *)
Matched(m, k, rs, charges, canon) ==
  /\ Balanced(m, charges)
  /\ \A p \in m.paid : \E j \in 1..k : p.refund = rs[j]
  /\ \A a \in m.ambiguous : \E j \in 1..k : a.refund = rs[j]
  /\ \A j \in 1..k : RefundSettled(m, rs[j], charges, canon)

(* The matching is the last of a chain of accounts, one refund more in each. *)
LEMMA MatchingIsChain ==
  ASSUME NEW charges, Ledger(charges)
  PROVE  LET rs == InOrder(Refunds(charges))
             n == Cardinality(Refunds(charges))
             canon == Canonical(charges)
         IN  \E g : /\ g[0] = Unmatched(charges)
                    /\ g[n] = MatchReimbursements(charges)
                    /\ \A k \in 1..n : g[k] = MatchRefund(g[k-1], rs[k], charges, canon)
                    /\ \A k \in 0..n : Matched(g[k], k, rs, charges, canon)
<1> DEFINE rs == InOrder(Refunds(charges))
           n == Cardinality(Refunds(charges))
           canon == Canonical(charges)
           u == Unmatched(charges)
<1>1. Ordered(Refunds(charges))
  BY FS_Subset DEF Refunds, Ordered, Ledger
<1>2. /\ n \in Nat /\ DOMAIN rs = 1..n
      /\ \A i \in 1..n : rs[i] \in Refunds(charges)
      /\ \A i, j \in 1..n : i < j => Earlier(rs[i], rs[j])
  BY <1>1, InOrderLists
<1>3. \A i, j \in 1..n : i < j => rs[i] # rs[j]
  BY <1>1, <1>2, EarlierIsOrder
<1>4. MatchReimbursements(charges) = MatchAll(u, rs, charges, canon)
  BY DEF MatchReimbursements, MatchAll, Unmatched
<1>5. Balanced(u, charges) /\ u \in Matchings(charges) /\ u.paid = {} /\ u.ambiguous = {}
  BY UnmatchedIsBalanced DEF Balanced, Unmatched
<1> HIDE DEF rs, n, canon, u
<1>6. \A m \in Matchings(charges), i \in 1..n : MatchRefund(m, rs[i], charges, canon) \in Matchings(charges)
  BY <1>2, MatchRefundTyped
<1>7. PICK g : MatchIs(g, n, u, rs, charges, canon)
  BY <1>2, <1>5, <1>6, MatchChain, Zenon
<1>8. /\ g[0] = u /\ g[n] = MatchAll(u, rs, charges, canon)
      /\ \A k \in 1..n : g[k] = MatchRefund(g[k-1], rs[k], charges, canon)
  BY <1>7 DEF MatchIs
<1> DEFINE N == {k \in Nat : k <= n => Matched(g[k], k, rs, charges, canon)}
<1>9. 0 \in N
  <2>1. Matched(u, 0, rs, charges, canon)
    BY <1>5 DEF Matched
  <2> QED
    BY <1>8, <2>1
<1>10. ASSUME NEW k \in Nat, k \in N PROVE k + 1 \in N
  <2> SUFFICES ASSUME k + 1 <= n PROVE Matched(g[k+1], k + 1, rs, charges, canon)
    OBVIOUS
  <2> DEFINE m == g[k]
             r == rs[k+1]
             q == g[k+1]
  <2>1. k + 1 \in 1..n /\ (k + 1) - 1 = k /\ k <= n /\ \A j \in 1..k : j \in 1..n /\ j < k + 1
    BY <1>2
  <2>2. Matched(m, k, rs, charges, canon) /\ q = MatchRefund(m, r, charges, canon)
    BY <1>8, <1>10, <2>1
  <2>3. r \in Refunds(charges) /\ \A j \in 1..k : rs[j] # r
    BY <1>2, <1>3, <2>1
  <2> HIDE DEF m, r, q
  <2>4. OfRefund(m, r) = {} /\ Flags(m, r) = {} /\ Balanced(m, charges)
    BY <2>2, <2>3 DEF Matched, OfRefund, Flags
  <2>5. Balanced(q, charges) /\ RefundSettled(q, r, charges, canon) /\ KeepsOthers(m, q, r, charges)
    BY <2>2, <2>3, <2>4, MatchRefundSettles
  <2>6. ASSUME NEW p \in q.paid PROVE \E j \in 1..(k+1) : p.refund = rs[j]
    <3>1. CASE p.refund = r
      <4>1. k + 1 \in 1..(k+1)
        OBVIOUS
      <4> QED
        BY <3>1, <4>1 DEF r
    <3>2. CASE p.refund # r
      <4>1. p \in m.paid
        BY <2>5, <3>2 DEF KeepsOthers, OfOthers
      <4>2. \A j \in 1..k : j \in 1..(k+1)
        OBVIOUS
      <4> QED
        BY <2>2, <4>1, <4>2 DEF Matched
    <3> QED
      BY <3>1, <3>2
  <2>7. ASSUME NEW a \in q.ambiguous PROVE \E j \in 1..(k+1) : a.refund = rs[j]
    <3>1. CASE a.refund = r
      <4>1. k + 1 \in 1..(k+1)
        OBVIOUS
      <4> QED
        BY <3>1, <4>1 DEF r
    <3>2. CASE a.refund # r
      <4>1. a \in m.ambiguous
        BY <2>5, <3>2 DEF KeepsOthers
      <4>2. \A j \in 1..k : j \in 1..(k+1)
        OBVIOUS
      <4> QED
        BY <2>2, <4>1, <4>2 DEF Matched
    <3> QED
      BY <3>1, <3>2
  <2>8. ASSUME NEW j \in 1..(k+1) PROVE RefundSettled(q, rs[j], charges, canon)
    <3>1. CASE j = k + 1
      BY <2>5, <3>1 DEF r
    <3>2. CASE j # k + 1
      <4>1. j \in 1..k
        BY <3>2
      <4>2. rs[j] # r /\ RefundSettled(m, rs[j], charges, canon)
        BY <2>2, <2>3, <4>1 DEF Matched
      <4> QED
        BY <2>4, <2>5, <4>2, SettledStays
    <3> QED
      BY <3>1, <3>2
  <2>9. Matched(q, k + 1, rs, charges, canon)
    BY <2>5, <2>6, <2>7, <2>8 DEF Matched
  <2> QED
    BY <2>9 DEF q
<1>11. \A k \in Nat : k \in N
  <2> HIDE DEF N
  <2> QED
    BY <1>9, <1>10, CountUp
<1>12. \A k \in 0..n : Matched(g[k], k, rs, charges, canon)
  BY <1>2, <1>11
<1>13. /\ g[0] = u /\ g[n] = MatchReimbursements(charges)
       /\ \A k \in 1..n : g[k] = MatchRefund(g[k-1], rs[k], charges, canon)
       /\ \A k \in 0..n : Matched(g[k], k, rs, charges, canon)
  BY <1>4, <1>8, <1>12
<1> QED
  BY <1>13, Zenon DEF rs, n, canon, u

(* What the matching comes to: the accounts balance and every refund is settled. *)
THEOREM MatchingSettles ==
  ASSUME NEW charges, Ledger(charges)
  PROVE  LET m == MatchReimbursements(charges)
         IN  /\ Balanced(m, charges)
             /\ \A r \in Refunds(charges) : RefundSettled(m, r, charges, Canonical(charges))
<1> DEFINE rs == InOrder(Refunds(charges))
           n == Cardinality(Refunds(charges))
           m == MatchReimbursements(charges)
<1>1. Ordered(Refunds(charges))
  BY FS_Subset DEF Refunds, Ordered, Ledger
<1>2. n \in Nat /\ \A r \in Refunds(charges) : \E i \in 1..n : rs[i] = r
  BY <1>1, InOrderLists
<1>3. n \in 0..n
  BY <1>2
<1>4. Matched(m, n, rs, charges, Canonical(charges))
  BY <1>3, MatchingIsChain
<1> HIDE DEF m, n, rs
<1>5. Balanced(m, charges) /\ \A j \in 1..n : RefundSettled(m, rs[j], charges, Canonical(charges))
  BY <1>4 DEF Matched
<1>6. \A r \in Refunds(charges) : RefundSettled(m, r, charges, Canonical(charges))
  BY <1>2, <1>5
<1> QED
  BY <1>5, <1>6 DEF m

(* A refund line that follows every other is matched last, after accounts that are those
   without it: no fee is paid back less because of it. *)
THEOREM LastRefundOnlyAdds ==
  ASSUME NEW charges, Ledger(charges), NEW r, r \notin charges, Ledger(charges \cup {r}),
         IsFeeRefundLine(r), \A d \in Refunds(charges) : Earlier(d, r),
         NEW f \in Fees(charges)
  PROVE  Paid(PaidToFee(MatchReimbursements(charges \cup {r}), f))
           >= Paid(PaidToFee(MatchReimbursements(charges), f))
<1> DEFINE more == charges \cup {r}
           P == Refunds(charges)
           S == Refunds(more)
           canon == Canonical(charges)
           n == Cardinality(P)
           rs == InOrder(P)
           rt == InOrder(S)
           a == MatchReimbursements(charges)
           b == MatchReimbursements(more)
<1>1. S = P \cup {r} /\ r \notin P
  BY DEF Refunds
<1>2. Fees(more) = Fees(charges)
  BY DEF Fees, IsChargeableFee
<1>3. Canonical(more) = canon
  BY <1>2 DEF Canonical
<1>4. Ordered(P) /\ Ordered(S) /\ Ledger(more)
  BY FS_Subset DEF Refunds, Ordered, Ledger
<1>5. \A s : Candidates(s, more) = Candidates(s, charges)
  BY <1>2 DEF Candidates
<1>6. \A m, s : MatchRefund(m, s, more, canon) = MatchRefund(m, s, charges, canon)
  BY <1>5, Zenon DEF MatchRefund
<1> HIDE DEF S, P, rs, rt, canon, a, b, more, n
<1>7. n \in Nat /\ Cardinality(S) = n + 1
  BY <1>1, <1>4, FS_AddElement, FS_CardinalityType DEF Ordered, n
<1>8. \A k \in 1..n : rs[k] = rt[k]
  <2>1. \A c \in P, d \in S : Earlier(d, c) => d \in P
    <3> SUFFICES ASSUME NEW c \in P, Earlier(r, c) PROVE FALSE
      BY <1>1
    <3>1. Earlier(c, r)
      BY DEF P
    <3>2. c \in S /\ r \in S
      BY <1>1
    <3> QED
      BY <1>4, <3>1, <3>2, EarlierIsOrder
  <2>2. P \in SUBSET S
    BY <1>1
  <2> QED
    BY <1>4, <2>1, <2>2, InOrderPrefix DEF rs, rt, n
<1>9. rt[n+1] = r
  <2>1. PICK j \in 1..(n+1) : rt[j] = r
    BY <1>1, <1>4, <1>7, InOrderLists DEF rt
  <2>2. \A k \in 1..n : rt[k] \in P
    BY <1>4, <1>8, InOrderLists DEF rs, n
  <2>3. j = n + 1
    BY <1>1, <1>7, <2>1, <2>2
  <2> QED
    BY <2>1, <2>3
<1>10. PICK g : /\ g[0] = Unmatched(charges) /\ g[n] = a
                /\ \A k \in 1..n : g[k] = MatchRefund(g[k-1], rs[k], charges, canon)
  BY MatchingIsChain DEF a, rs, n, canon, P
<1>11. PICK h : /\ h[0] = Unmatched(more) /\ h[n+1] = b
                /\ \A k \in 1..(n+1) : h[k] = MatchRefund(h[k-1], rt[k], more, canon)
                /\ \A k \in 0..(n+1) : Matched(h[k], k, rt, more, canon)
  BY <1>3, <1>4, <1>7, MatchingIsChain DEF b, rt, S
<1> DEFINE N == {k \in Nat : k <= n => g[k] = h[k]}
<1>12. 0 \in N
  BY <1>2, <1>10, <1>11 DEF Unmatched
<1>13. ASSUME NEW k \in Nat, k \in N PROVE k + 1 \in N
  <2> SUFFICES ASSUME k + 1 <= n PROVE g[k+1] = h[k+1]
    OBVIOUS
  <2>1. k + 1 \in 1..n /\ k + 1 \in 1..(n+1) /\ (k + 1) - 1 = k /\ k <= n
    BY <1>7
  <2>2. g[k+1] = MatchRefund(g[k], rs[k+1], charges, canon)
    BY <1>10, <2>1
  <2>3. h[k+1] = MatchRefund(h[k], rt[k+1], more, canon)
    BY <1>11, <2>1
  <2>4. g[k] = h[k] /\ rs[k+1] = rt[k+1]
    BY <1>8, <1>13, <2>1
  <2> QED
    BY <1>6, <2>2, <2>3, <2>4
<1>14. \A k \in Nat : k \in N
  <2> HIDE DEF N
  <2> QED
    BY <1>12, <1>13, CountUp
<1>15. h[n] = a
  BY <1>7, <1>10, <1>14
<1>16. b = MatchRefund(a, r, more, canon) /\ Matched(a, n, rt, more, canon) /\ Matched(b, n + 1, rt, more, canon)
  <2>1. n + 1 \in 1..(n+1) /\ (n + 1) - 1 = n /\ n \in 0..(n+1) /\ n + 1 \in 0..(n+1)
    BY <1>7
  <2> QED
    BY <1>9, <1>11, <1>15, <2>1
<1>17. Balanced(a, more) /\ Balanced(b, more) /\ OfRefund(a, r) = {} /\ Flags(a, r) = {}
  <2>1. \A j \in 1..n : rt[j] # r
    <3>1. \A k \in 1..n : rt[k] \in P
      BY <1>4, <1>8, InOrderLists DEF rs, n
    <3> QED
      BY <1>1, <3>1
  <2> QED
    BY <1>16, <2>1 DEF Matched, OfRefund, Flags
<1>18. KeepsOthers(a, b, r, more)
  <2>1. r \in Refunds(more)
    BY <1>1 DEF S
  <2> QED
    BY <1>4, <1>16, <1>17, <2>1, MatchRefundSettles
<1>19. f \in Fees(more) /\ f.amount \in Int
  BY <1>2 DEF Fees, Ledger
<1>20. /\ Paid(PaidToFee(a, f)) = f.amount - a.remaining[f] /\ a.remaining[f] \in 0..f.amount
       /\ Paid(PaidToFee(b, f)) = f.amount - b.remaining[f] /\ b.remaining[f] \in 0..f.amount
       /\ b.remaining[f] <= a.remaining[f]
  BY <1>17, <1>18, <1>19 DEF Balanced, KeepsOthers
<1>21. Paid(PaidToFee(b, f)) >= Paid(PaidToFee(a, f))
  BY <1>19, <1>20
<1> QED
  BY <1>21 DEF a, b, more

(* What a line was paid back is a number of cents, whether or not it is a fee. *)
LEMMA PaidToFeeIsNat ==
  ASSUME NEW charges, Ledger(charges), NEW c
  PROVE  Paid(PaidToFee(MatchReimbursements(charges), c)) \in Nat
<1> DEFINE m == MatchReimbursements(charges)
<1>1. Balanced(m, charges)
  BY MatchingSettles
<1> HIDE DEF m
<1>2. IsFiniteSet(PaidToFee(m, c))
  BY <1>1, FS_Subset DEF Balanced, PaidToFee
<1>3. \A p \in PaidToFee(m, c) : p.amount \in Nat
  <2>1. \A p \in m.paid : p.amount \in Int /\ p.amount > 0
    BY <1>1 DEF Balanced, Matchings, Parts
  <2> QED
    BY <2>1 DEF PaidToFee
<1>4. Paid(PaidToFee(m, c)) \in Nat
  BY <1>2, <1>3, PaidIsNat
<1> QED
  BY <1>4 DEF m

(* More parts pay no less. *)
LEMMA PaidGrows ==
  ASSUME NEW U, IsFiniteSet(U), \A p \in U : p.amount \in Nat, NEW T \in SUBSET U
  PROVE  Paid(T) <= Paid(U)
<1> DEFINE D == U \ T
           P == {E \in SUBSET D : Paid(T) <= Paid(T \cup E)}
<1>1. IsFiniteSet(T) /\ IsFiniteSet(D)
  BY FS_Subset
<1>2. \A V \in SUBSET U : IsFiniteSet(V) /\ Paid(V) \in Nat
  <2>1. ASSUME NEW V \in SUBSET U PROVE IsFiniteSet(V) /\ \A p \in V : p.amount \in Nat
    BY FS_Subset
  <2> QED
    BY <2>1, PaidIsNat
<1>3. ASSUME NEW E \in SUBSET D, \A x \in E : E \ {x} \in P PROVE E \in P
  <2>1. CASE E = {}
    <3>1. T \cup E = T /\ Paid(T) \in Nat
      BY <1>2, <2>1
    <3> QED
      BY <2>1, <3>1
  <2>2. CASE E # {}
    <3>1. PICK x : x \in E
      BY <2>2
    <3> DEFINE V == T \cup (E \ {x})
    <3>2. Paid(T) <= Paid(V)
      BY <1>3, <3>1
    <3>3. V \in SUBSET U /\ x \notin V /\ x.amount \in Nat /\ T \cup E = V \cup {x}
      BY <3>1
    <3> HIDE DEF V
    <3>4. IsFiniteSet(V) /\ Paid(V) \in Nat /\ Paid(T) \in Nat /\ \A p \in V : p.amount \in Int
      BY <1>2, <3>3
    <3>5. Paid(V \cup {x}) = Paid(V) + x.amount
      BY <3>3, <3>4, PaidWith
    <3>6. Paid(T) <= Paid(T \cup E)
      <4>1. Paid(T \cup E) = Paid(V) + x.amount /\ x.amount \in Nat
        BY <3>3, <3>5
      <4> HIDE DEF P, D
      <4> QED
        BY <3>2, <3>4, <4>1
    <3> HIDE DEF D
    <3> QED
      BY <3>6
  <2> QED
    BY <2>1, <2>2
<1>4. \A E \in SUBSET D : E \in P
  <2> HIDE DEF P, D
  <2> QED
    BY <1>1, <1>3, RemoveOne
<1>5. D \in P /\ T \cup D = U
  BY <1>4
<1> QED
  BY <1>5

(* Parts that are each within a refund of their own sum to no more than those refunds. *)
LEMMA PartsWithinRefunds ==
  ASSUME NEW S, IsFiniteSet(S), NEW R, IsFiniteSet(R), \A r \in R : r.amount \in Int,
         \A p \in S : p.amount \in Nat /\ p.refund \in R /\ p.amount <= p.refund.amount,
         \A p, q \in S : p.refund = q.refund => p = q
  PROVE  Paid(S) <= Paid({p.refund : p \in S})
<1> DEFINE Of(T) == {p.refund : p \in T}
           P == {T \in SUBSET S : Paid(T) <= Paid(Of(T))}
<1>1. \A p \in S : p.amount \in Int
  OBVIOUS
<1>2. ASSUME NEW T \in SUBSET S, \A x \in T : T \ {x} \in P PROVE T \in P
  <2>1. CASE T = {}
    <3>1. Of(T) = {}
      BY <2>1
    <3> HIDE DEF Of
    <3>2. Paid(T) = 0 /\ Paid(Of(T)) = 0
      BY <2>1, <3>1, PaidOfNone
    <3>3. Paid(T) <= Paid(Of(T))
      BY <3>2
    <3> QED
      BY <3>3
  <2>2. CASE T # {}
    <3>1. PICK x : x \in T
      BY <2>2
    <3> DEFINE Q == T \ {x}
               r == x.refund
    <3>2. Paid(Q) <= Paid(Of(Q))
      BY <1>2, <3>1
    <3>3. Paid(T) = x.amount + Paid(Q) /\ Paid(Q) \in Int
      <4>1. Q \in SUBSET S
        OBVIOUS
      <4> QED
        BY <1>1, <3>1, <4>1, PaidWithout
    <3>4. Of(T) = Of(Q) \cup {r} /\ r \notin Of(Q) /\ Of(Q) \in SUBSET R
      BY <3>1
    <3>5. x.amount \in Int /\ r.amount \in Int /\ x.amount <= r.amount
      BY <3>1
    <3> HIDE DEF Q, r, Of
    <3>6. IsFiniteSet(Of(Q)) /\ \A p \in Of(Q) : p.amount \in Int
      BY <3>4, FS_Subset
    <3>7. Paid(Of(Q)) \in Int /\ Paid(Of(Q) \cup {r}) = Paid(Of(Q)) + r.amount
      BY <3>4, <3>5, <3>6, PaidWith
    <3>8. Paid(T) <= Paid(Of(T))
      BY <3>2, <3>3, <3>4, <3>5, <3>7
    <3> QED
      BY <3>8
  <2> QED
    BY <2>1, <2>2
<1>3. \A T \in SUBSET S : T \in P
  <2> HIDE DEF P
  <2> QED
    BY <1>2, RemoveOne
<1> QED
  BY <1>3

(* What a line was paid back is within the refunds that paid it, and these are stored. *)
LEMMA PaidWithinRefunds ==
  ASSUME NEW charges, Ledger(charges), NEW c
  PROVE  LET m == MatchReimbursements(charges)
             refunds == {p.refund : p \in PaidToFee(m, c)}
         IN  /\ refunds \subseteq Refunds(charges)
             /\ {a.refund : a \in m.ambiguous} \subseteq Refunds(charges)
             /\ Paid(PaidToFee(m, c)) <= Paid(refunds)
<1> DEFINE m == MatchReimbursements(charges)
           S == PaidToFee(m, c)
<1>1. Balanced(m, charges) /\ \A r \in Refunds(charges) : RefundSettled(m, r, charges, Canonical(charges))
  BY MatchingSettles
<1>2. /\ IsFiniteSet(Refunds(charges)) /\ \A r \in Refunds(charges) : r.amount \in Int
  BY FS_Subset DEF Ledger, Ordered, Refunds
<1> HIDE DEF m
<1>3. /\ IsFiniteSet(m.paid)
      /\ \A p \in m.paid : p.refund \in Refunds(charges) /\ p.amount \in Nat /\ p.amount > 0
      /\ {a.refund : a \in m.ambiguous} \subseteq Refunds(charges)
  BY <1>1 DEF Balanced, Matchings, Parts
<1>4. ASSUME NEW p \in m.paid PROVE p.amount <= p.refund.amount
  <2> DEFINE r == p.refund
             O == OfRefund(m, r)
  <2>1. p \in O /\ O \in SUBSET m.paid /\ r \in Refunds(charges)
    BY <1>3 DEF OfRefund
  <2>2. IsFiniteSet(O) /\ \A q \in O : q.amount \in Nat
    BY <1>3, <2>1, FS_Subset
  <2>3. {p} \in SUBSET O
    BY <2>1
  <2>4. Paid({p}) <= Paid(O) /\ Paid(O) \in Nat
    <3> HIDE DEF O
    <3> QED
      BY <2>2, <2>3, PaidGrows, PaidIsNat
  <2>5. Paid({p}) = p.amount
    <3>1. Paid({} \cup {p}) = Paid({}) + p.amount
      BY <1>3, FS_EmptySet, PaidWith
    <3>2. {} \cup {p} = {p}
      OBVIOUS
    <3> QED
      BY <1>3, <3>1, <3>2, PaidOfNone
  <2>6. O = {} \/ Paid(O) = 0 \/ Paid(O) <= r.amount
    BY <1>1, <2>1 DEF RefundSettled
  <2>7. r.amount \in Int /\ p.amount \in Nat /\ p.amount > 0
    BY <1>2, <1>3, <2>1
  <2> HIDE DEF O, r
  <2>8. p.amount <= r.amount
    BY <2>1, <2>4, <2>5, <2>6, <2>7
  <2> QED
    BY <2>8 DEF r
<1>5. S \in SUBSET m.paid /\ IsFiniteSet(S)
  BY <1>3, FS_Subset DEF PaidToFee
<1>6. \A p, q \in S : p.refund = q.refund => p = q
  BY <1>1 DEF Balanced, PaidToFee
<1>7. \A p \in S : p.amount \in Nat /\ p.refund \in Refunds(charges) /\ p.amount <= p.refund.amount
  BY <1>3, <1>4, <1>5
<1> HIDE DEF S
<1>8. Paid(S) <= Paid({p.refund : p \in S})
  BY <1>2, <1>5, <1>6, <1>7, PartsWithinRefunds
<1>9. {p.refund : p \in S} \subseteq Refunds(charges)
  BY <1>7
<1> QED
  BY <1>3, <1>8, <1>9 DEF m, S
=============================================================================
