-------------------------- MODULE ChargeStoreProofs --------------------------
(***************************************************************************)
(* What holds of the stored report lines whichever lines uploads carry, in *)
(* whichever order, for every configuration of windows: the days on which  *)
(* a line can be claimed, the line of a chain of repeats that stays, and   *)
(* the fees that refunds pay back, from what PrecheckProofs proves of any  *)
(* set of lines.                                                           *)
(***************************************************************************)
EXTENDS ChargeStore, PrecheckProofs

(* A line may be claimed from its opening day to its deadline, both included, and on
   no other day (filing_window). *)
LEMMA OpenMeansBetween ==
  ASSUME NEW c, c.type \in DOMAIN Filing, c.posted \in Int, NEW d \in Int
  PROVE  FilingState(c, d) = "open" <=>
           /\ Filing[c.type].close # NoDays
           /\ Filing[c.type].open # NoDays => c.posted + Filing[c.type].open <= d
           /\ d <= c.posted + Filing[c.type].close
<1> DEFINE rule == Filing[c.type]
<1>1. /\ rule.open = NoDays \/ rule.open \in Nat
      /\ rule.close = NoDays \/ rule.close \in Nat
  BY FilingAssumption
<1>2. CASE rule.open # NoDays /\ d < c.posted + rule.open
  BY <1>1, <1>2 DEF FilingState
<1>3. CASE ~(rule.open # NoDays /\ d < c.posted + rule.open) /\ rule.close = NoDays
  BY <1>1, <1>3 DEF FilingState
<1>4. CASE ~(rule.open # NoDays /\ d < c.posted + rule.open) /\ rule.close # NoDays
  BY <1>1, <1>4 DEF FilingState
<1> QED
  BY <1>2, <1>3, <1>4

(* Every line id is stored once, as it first arrived (insert_charges). *)
THEOREM TypeCorrect == Spec => [](TypeOK /\ IsFiniteSet(charges))
<1> DEFINE Inv == TypeOK /\ IsFiniteSet(charges)
<1>1. Init => Inv
  BY FS_EmptySet, ChargeStoreAssumption DEF Init, TypeOK
<1>2. Inv /\ [Next]_vars => Inv'
  <2> SUFFICES ASSUME Inv, [Next]_vars PROVE Inv'
    OBVIOUS
  <2> USE ChargeStoreAssumption
  <2>1. ASSUME NEW c \in Arrivals, IngestLine(c) PROVE Inv'
    <3>1. CASE \E d \in charges : d.line = c.line
      BY <2>1, <3>1 DEF IngestLine, TypeOK
    <3>2. CASE ~\E d \in charges : d.line = c.line
      <4>1. charges' = charges \cup {c} /\ day' = day
        BY <2>1, <3>2 DEF IngestLine
      <4>2. /\ IsFiniteSet(charges')
            /\ Cardinality(charges') <= Cardinality(charges) + 1
            /\ Cardinality(charges) \in Nat /\ Cardinality(charges') \in Nat
        <5>1. IsFiniteSet(charges)
          OBVIOUS
        <5>2. /\ IsFiniteSet(charges \cup {c})
              /\ \/ Cardinality(charges \cup {c}) = Cardinality(charges)
                 \/ Cardinality(charges \cup {c}) = Cardinality(charges) + 1
          BY <5>1, FS_AddElement, Zenon
        <5>3. Cardinality(charges) \in Nat
          BY <5>1, FS_CardinalityType
        <5> QED
          BY <4>1, <5>2, <5>3
      <4>3. Cardinality(charges') <= MaxLines
        BY <2>1, <4>2 DEF IngestLine
      <4> QED
        BY <2>1, <3>2, <4>1, <4>2, <4>3 DEF TypeOK
    <3> QED
      BY <3>1, <3>2
  <2>2. ASSUME NextDay PROVE Inv'
    BY <2>2 DEF NextDay, TypeOK
  <2>3. CASE UNCHANGED vars
    BY <2>3 DEF vars, TypeOK
  <2> QED
    BY <2>1, <2>2, <2>3 DEF Next
<1> QED
  BY <1>1, <1>2, PTL DEF Spec

(* The days on which a line is claimable are those between its opening day and its
   deadline: close - open + 1 of them, without a gap. *)
THEOREM DaysAreClaimable == Spec => []ClaimableDays
<1>1. TypeOK => ClaimableDays
  <2> SUFFICES ASSUME TypeOK, NEW c \in charges, Filing[c.type].close # NoDays
               PROVE  LET opens == IF Filing[c.type].open = NoDays THEN 0 ELSE Filing[c.type].open
                          claimable == {d \in 0..(c.posted + Filing[c.type].close + 2) :
                                          d >= c.posted /\ FilingState(c, d) = "open"}
                      IN  /\ Cardinality(claimable) = Filing[c.type].close - opens + 1
                          /\ \A d, e \in claimable : d..e \subseteq claimable
    BY Zenon DEF ClaimableDays
  <2> DEFINE rule == Filing[c.type]
             opens == IF rule.open = NoDays THEN 0 ELSE rule.open
             claimable == {d \in 0..(c.posted + rule.close + 2) :
                             d >= c.posted /\ FilingState(c, d) = "open"}
  <2>1. c.type \in DOMAIN Filing /\ c.posted \in Nat
    BY ChargeStoreAssumption DEF TypeOK
  <2>2. rule.close \in Nat /\ opens \in Nat /\ opens <= rule.close
    BY <2>1, FilingAssumption
  <2>3. \A d \in Int : FilingState(c, d) = "open" =>
          (rule.open # NoDays => c.posted + rule.open <= d) /\ d <= c.posted + rule.close
    BY <2>1, OpenMeansBetween
  <2>4. \A d \in Int :
          (rule.open # NoDays => c.posted + rule.open <= d) /\ d <= c.posted + rule.close
            => FilingState(c, d) = "open"
    BY <2>1, OpenMeansBetween
  <2>5. \A d : d \in claimable <=> d \in (c.posted + opens)..(c.posted + rule.close)
    <3>1. ASSUME NEW d \in claimable PROVE d \in (c.posted + opens)..(c.posted + rule.close)
      BY <2>1, <2>2, <2>3
    <3>2. ASSUME NEW d \in (c.posted + opens)..(c.posted + rule.close) PROVE d \in claimable
      BY <2>1, <2>2, <2>4
    <3> QED
      BY <3>1, <3>2
  <2>6. claimable = (c.posted + opens)..(c.posted + rule.close)
    BY <2>5
  <2> HIDE DEF claimable, opens
  <2>7. Cardinality(claimable) = rule.close - opens + 1
    <3> DEFINE a == c.posted + opens
               b == c.posted + rule.close
    <3>1. a \in Int /\ b \in Int /\ a <= b /\ b - a + 1 = rule.close - opens + 1
      BY <2>1, <2>2
    <3> HIDE DEF a, b
    <3>2. Cardinality(a..b) = b - a + 1
      BY <3>1, FS_Interval
    <3> QED
      BY <2>6, <3>1, <3>2 DEF a, b
  <2>8. \A d, e \in claimable : d..e \subseteq claimable
    BY <2>1, <2>2, <2>6
  <2> QED
    BY <2>7, <2>8 DEF claimable, opens
<1> QED
  BY <1>1, TypeCorrect, PTL

-----------------------------------------------------------------------------
(* Refunds. *)

(* The rows of table charges are lines that the pre-checks can sort and add up. *)
LEMMA StoreIsLedger ==
  ASSUME TypeOK, IsFiniteSet(charges)
  PROVE  Ledger(charges)
<1>1. \A c \in charges : c.line \in Int /\ c.posted \in Int /\ c.amount \in Int
  BY ChargeStoreAssumption DEF TypeOK
<1>2. \A c, d \in charges : c.line = d.line => c = d
  BY DEF TypeOK
<1> QED
  BY <1>1, <1>2 DEF Ledger, Ordered

(* What MatchingSettles says, in the words of the invariants. *)
LEMMA StoreIsMatched ==
  ASSUME TypeOK, IsFiniteSet(charges)
  PROVE  /\ Balanced(Matching, charges)
         /\ \A r \in Refunds(charges) :
              /\ RefundSettled(Matching, r, charges, Canonical(charges))
              /\ Groups(r) = GroupsOf(r, charges, Canonical(charges))
              /\ Spent(Matching, r) = Paid(OfRefund(Matching, r))
<1>1. Ledger(charges)
  BY StoreIsLedger
<1> QED
  BY <1>1, MatchingSettles DEF Matching, Groups, GroupsOf, Spent, OfRefund

(* However many refunds and fees match one another, no refund pays more than it has and
   no fee gets more than it charged (match_reimbursements). *)
THEOREM RefundsAreAlwaysConserved == Spec => []RefundsAreConserved
<1>1. TypeOK /\ IsFiniteSet(charges) => RefundsAreConserved
  <2> SUFFICES ASSUME TypeOK, IsFiniteSet(charges) PROVE RefundsAreConserved
    OBVIOUS
  <2> DEFINE m == Matching
  <2> HIDE DEF m
  <2>1. /\ Balanced(m, charges)
        /\ \A r \in Refunds(charges) :
             /\ RefundSettled(m, r, charges, Canonical(charges))
             /\ Spent(m, r) = Paid(OfRefund(m, r))
    BY StoreIsMatched DEF m
  <2>2. ASSUME NEW r \in Refunds(charges) PROVE Spent(m, r) = 0 \/ Spent(m, r) <= r.amount
    <3>1. CASE Cardinality(GroupsOf(r, charges, Canonical(charges))) > 1
      <4>1. OfRefund(m, r) = {}
        BY <2>1, <3>1 DEF RefundSettled
      <4> QED
        BY <2>1, <4>1, PaidOfNone
    <3>2. CASE ~(Cardinality(GroupsOf(r, charges, Canonical(charges))) > 1)
      BY <2>1, <3>2 DEF RefundSettled
    <3> QED
      BY <3>1, <3>2
  <2>3. ASSUME NEW f \in Fees(charges) PROVE Reimbursed(m, f) \in 0..f.amount
    <3>1. f.amount \in Int
      BY StoreIsLedger DEF Ledger, Fees
    <3>2. m.remaining[f] \in 0..f.amount /\ Paid(PaidToFee(m, f)) = f.amount - m.remaining[f]
      BY <2>1 DEF Balanced
    <3> QED
      BY <3>1, <3>2 DEF Reimbursed
  <2> QED
    BY <2>2, <2>3 DEF RefundsAreConserved, RefundNeverOverspent, FeeNeverOverpaid, m
<1> QED
  BY <1>1, TypeCorrect, PTL

(* A refund that could belong to fees of two duplicate groups pays none of them, and
   every candidate is flagged; any other refund is flagged for none. *)
THEOREM AmbiguousRefundsPayNothing == Spec => []AmbiguousRefundPaysNothing
<1>1. TypeOK /\ IsFiniteSet(charges) => AmbiguousRefundPaysNothing
  <2> SUFFICES ASSUME TypeOK, IsFiniteSet(charges), NEW r \in Refunds(charges)
               PROVE  LET flagged == {a.fee : a \in {x \in Matching.ambiguous : x.refund = r}}
                      IN  IF Cardinality(Groups(r)) > 1
                          THEN flagged = Candidates(r, charges) /\ Spent(Matching, r) = 0
                          ELSE flagged = {}
    BY DEF AmbiguousRefundPaysNothing
  <2> DEFINE m == Matching
             flagged == {a.fee : a \in {x \in Matching.ambiguous : x.refund = r}}
  <2>1. flagged = {a.fee : a \in Flags(m, r)}
    BY DEF Flags
  <2> HIDE DEF m, flagged
  <2>2. /\ RefundSettled(m, r, charges, Canonical(charges))
        /\ Spent(m, r) = Paid(OfRefund(m, r))
        /\ Groups(r) = GroupsOf(r, charges, Canonical(charges))
    BY StoreIsMatched DEF m
  <2>3. CASE Cardinality(Groups(r)) > 1
    <3>1. /\ OfRefund(m, r) = {}
          /\ Flags(m, r) = {[refund |-> r, fee |-> f] : f \in Candidates(r, charges)}
      BY <2>2, <2>3 DEF RefundSettled
    <3>2. Spent(m, r) = 0
      BY <2>2, <3>1, PaidOfNone
    <3>3. flagged = Candidates(r, charges)
      <4>1. \A e : e \in flagged <=> \E a \in Flags(m, r) : e = a.fee
        BY <2>1
      <4>2. \A f \in Candidates(r, charges) :
              [refund |-> r, fee |-> f] \in Flags(m, r) /\ [refund |-> r, fee |-> f].fee = f
        BY <3>1
      <4>3. \A a \in Flags(m, r) : a.fee \in Candidates(r, charges)
        BY <3>1
      <4> QED
        BY <4>1, <4>2, <4>3
    <3> QED
      BY <2>3, <3>2, <3>3 DEF m, flagged
  <2>4. CASE ~(Cardinality(Groups(r)) > 1)
    <3>1. Flags(m, r) = {}
      BY <2>2, <2>4 DEF RefundSettled
    <3>2. flagged = {}
      BY <2>1, <3>1
    <3> QED
      BY <2>4, <3>2 DEF flagged
  <2> QED
    BY <2>3, <2>4
<1> QED
  BY <1>1, TypeCorrect, PTL

(* A refund of one group is spent until it or its candidates are exhausted, and reaches
   the line that stays valid only when every duplicate it matches is paid back. *)
THEOREM RefundsAreAlwaysSpentInOrder == Spec => []RefundsAreSpentInOrder
<1>1. TypeOK /\ IsFiniteSet(charges) => RefundsAreSpentInOrder
  <2> SUFFICES ASSUME TypeOK, IsFiniteSet(charges) PROVE RefundsAreSpentInOrder
    OBVIOUS
  <2> DEFINE m == Matching
             canon == Canonical(charges)
  <2>0. canon = Canonical(charges)
    OBVIOUS
  <2> HIDE DEF m, canon
  <2>1. /\ Balanced(m, charges)
        /\ \A r \in Refunds(charges) :
             /\ RefundSettled(m, r, charges, canon)
             /\ Groups(r) = GroupsOf(r, charges, canon)
             /\ Spent(m, r) = Paid(OfRefund(m, r))
    BY <2>0, StoreIsMatched DEF m
  <2>2. ASSUME NEW f \in Fees(charges), m.remaining[f] = 0 PROVE Reimbursed(m, f) = f.amount
    <3>1. f.amount \in Int
      BY StoreIsLedger DEF Ledger, Fees
    <3> QED
      BY <2>1, <2>2, <3>1 DEF Balanced, Reimbursed
  <2>3. ASSUME NEW r \in Refunds(charges), r.amount > 0, Cardinality(Groups(r)) = 1
        PROVE  \/ Spent(m, r) = r.amount
               \/ \A f \in Candidates(r, charges) : Reimbursed(m, f) = f.amount
    <3>1. Candidates(r, charges) # {}
      <4> SUFFICES ASSUME Candidates(r, charges) = {} PROVE FALSE
        OBVIOUS
      <4>1. GroupsOf(r, charges, canon) = {}
        BY DEF GroupsOf
      <4> QED
        BY <2>1, <2>3, <4>1, FS_EmptySet
    <3>2. \/ Paid(OfRefund(m, r)) = r.amount
          \/ \A f \in Candidates(r, charges) : m.remaining[f] = 0
      BY <2>1, <2>3, <3>1 DEF RefundSettled
    <3>3. \A f \in Candidates(r, charges) : f \in Fees(charges)
      BY DEF Candidates
    <3> QED
      BY <2>1, <2>2, <3>2, <3>3
  <2>4. ASSUME NEW p \in m.paid, NEW q \in Candidates(p.refund, charges),
               ~IsDuplicate(p.fee, charges), IsDuplicate(q, charges)
        PROVE  Reimbursed(m, q) = q.amount
    <3>1. p.refund \in Refunds(charges) /\ p.fee \in Fees(charges)
      BY <2>1 DEF Balanced, Matchings, Parts
    <3>2. canon[p.fee] = p.fee /\ q \in Fees(charges) /\ canon[q] # q
      BY <2>0, <2>4, <3>1 DEF IsDuplicate
    <3>3. p \in OfRefund(m, p.refund)
      BY DEF OfRefund
    <3>4. m.remaining[q] = 0
      BY <2>1, <3>1, <3>2, <3>3 DEF RefundSettled
    <3> QED
      BY <2>2, <3>2, <3>4
  <2> QED
    BY <2>3, <2>4 DEF RefundsAreSpentInOrder, UnambiguousRefundIsSpent, CanonicalIsPaidLast, m
<1> QED
  BY <1>1, TypeCorrect, PTL

(* Of one fingerprint the lines that stay lie more than the window apart, and every
   other line follows one of them within the window (find_duplicates). *)
THEOREM OneCanonicalAlways == Spec => []OneCanonicalPerWindow
<1>1. TypeOK /\ IsFiniteSet(charges) => OneCanonicalPerWindow
  <2> SUFFICES ASSUME TypeOK, IsFiniteSet(charges),
                      NEW c \in Fees(charges), NEW d \in Fees(charges),
                      c # d, Fingerprint(c) = Fingerprint(d)
               PROVE  LET canon == Canonical(charges)
                      IN  /\ canon[canon[c]] = canon[c]
                          /\ \/ canon[c] = c
                             \/ Earlier(canon[c], c) /\ c.posted - canon[c].posted <= WindowDays
                          /\ (canon[c] = c /\ canon[d] = d)
                               => c.posted - d.posted \notin -WindowDays..WindowDays
    BY DEF OneCanonicalPerWindow
  <2> DEFINE S == Group(charges, c)
             s == InOrder(S)
             n == Cardinality(S)
             canon == Canonical(charges)
  <2>1. Ordered(charges)
    BY StoreIsLedger DEF Ledger
  <2>2. Ordered(S) /\ c \in S /\ d \in S
    BY <2>1, FS_Subset DEF Ordered, Group, Fees
  <2>3. /\ n \in Nat
        /\ \A e \in S : \E i \in 1..n : s[i] = e
        /\ \A i, j \in 1..n : i < j => Earlier(s[i], s[j])
    BY <2>2, InOrderLists
  <2>4. PICK k \in 1..n : s[k] = c
    BY <2>2, <2>3
  <2>5. PICK l \in 1..n : s[l] = d
    BY <2>2, <2>3
  <2>6. PICK j \in 1..k : /\ canon[s[k]] = s[j] /\ canon[s[j]] = s[j]
                          /\ s[k].posted - s[j].posted <= WindowDays
    BY <2>1, CanonicalIsLatestBefore
  <2>7. \A i, h \in 1..n : i < h /\ canon[s[i]] = s[i] /\ canon[s[h]] = s[h]
                             => s[h].posted - s[i].posted > WindowDays
    BY <2>1, CanonicalsApart
  <2> HIDE DEF s, n, S, canon
  <2>8. canon[canon[c]] = canon[c]
    BY <2>4, <2>6
  <2>9. \/ canon[c] = c
        \/ Earlier(canon[c], c) /\ c.posted - canon[c].posted <= WindowDays
    <3>1. CASE j = k
      BY <2>4, <2>6, <3>1
    <3>2. CASE j # k
      <4>1. j \in 1..n /\ j < k
        BY <2>3, <3>2
      <4>2. Earlier(s[j], s[k])
        BY <2>3, <4>1
      <4> QED
        BY <2>4, <2>6, <4>2
    <3> QED
      BY <3>1, <3>2
  <2>10. ASSUME canon[c] = c, canon[d] = d
         PROVE  c.posted - d.posted \notin -WindowDays..WindowDays
    <3>1. k < l \/ l < k
      BY <2>3, <2>4, <2>5
    <3>2. d.posted - c.posted > WindowDays \/ c.posted - d.posted > WindowDays
      BY <2>4, <2>5, <2>7, <2>10, <3>1
    <3>3. c.posted \in Int /\ d.posted \in Int
      BY <2>2 DEF Ordered
    <3> QED
      BY <3>2, <3>3, WindowDaysAssumption
  <2> QED
    BY <2>8, <2>9, <2>10 DEF canon
<1> QED
  BY <1>1, TypeCorrect, PTL

-----------------------------------------------------------------------------
(* Lines that arrive late. *)

(* A line whose group has no other line within the window before it stays. *)
LEMMA FarLineStays ==
  ASSUME NEW S, Ordered(S), NEW x \in Fees(S),
         \A y \in Group(S, x) : Earlier(y, x) => x.posted - y.posted > WindowDays
  PROVE  Canonical(S)[x] = x
<1> DEFINE T == Group(S, x)
           s == InOrder(T)
           n == Cardinality(T)
           canon == Canonical(S)
<1>1. Ordered(T) /\ x \in T
  BY FS_Subset DEF Ordered, Group, Fees
<1>2. /\ n \in Nat /\ \A i \in 1..n : s[i] \in T
      /\ \A e \in T : \E i \in 1..n : s[i] = e
      /\ \A i, h \in 1..n : i < h => Earlier(s[i], s[h])
  BY <1>1, InOrderLists
<1>3. PICK k \in 1..n : s[k] = x
  BY <1>1, <1>2
<1>4. PICK h \in 1..k : canon[s[k]] = s[h] /\ s[k].posted - s[h].posted <= WindowDays
  BY CanonicalIsLatestBefore
<1>5. \A y \in T : y.posted \in Int
  BY <1>1 DEF Ordered
<1> HIDE DEF s, n, canon, T
<1>6. ~(x.posted - s[h].posted > WindowDays)
  <2>1. h \in 1..n
    BY <1>2, <1>3, <1>4
  <2>2. s[h].posted \in Int /\ x.posted \in Int
    BY <1>1, <1>2, <1>5, <2>1
  <2> QED
    BY <1>3, <1>4, <2>2, WindowDaysAssumption
<1>7. CASE h = k
  BY <1>3, <1>4, <1>7 DEF canon
<1>8. CASE h # k
  <2>1. h \in 1..n /\ h < k
    BY <1>2, <1>3, <1>4, <1>8
  <2>2. s[h] \in T /\ Earlier(s[h], x)
    BY <1>2, <1>3, <2>1
  <2> QED
    BY <1>6, <2>2 DEF T
<1> QED
  BY <1>7, <1>8

(* What a line repeats depends on what the line before it in its group repeats. *)
LEMMA CanonicalAfter ==
  ASSUME NEW S, Ordered(S), NEW e \in Fees(S), NEW p \in Group(S, e), Earlier(p, e),
         \A z \in Group(S, e) : ~(Earlier(p, z) /\ Earlier(z, e))
  PROVE  Canonical(S)[e] = NextCanonical(Canonical(S)[p], e)
<1> DEFINE T == Group(S, e)
           s == InOrder(T)
           n == Cardinality(T)
           canon == Canonical(S)
<1>1. Ordered(T) /\ e \in T
  BY FS_Subset DEF Ordered, Group, Fees
<1>2. /\ n \in Nat /\ \A i \in 1..n : s[i] \in T
      /\ \A y \in T : \E i \in 1..n : s[i] = y
      /\ \A i, h \in 1..n : i < h => Earlier(s[i], s[h])
  BY <1>1, InOrderLists
<1>3. PICK k \in 1..n : s[k] = e
  BY <1>1, <1>2
<1>4. PICK i \in 1..n : s[i] = p
  BY <1>2
<1>5. canon[s[k]] = IF k = 1 THEN s[1] ELSE NextCanonical(canon[s[k-1]], s[k])
  BY CanonicalStep
<1>6. /\ \A z \in T : ~(Earlier(p, z) /\ Earlier(z, e))
      /\ ~(Earlier(p, e) /\ Earlier(e, p)) /\ ~Earlier(p, p)
  BY <1>1, EarlierIsOrder
<1> HIDE DEF s, n, canon, T
<1>7. i < k
  <2>1. i # k
    BY <1>3, <1>4, <1>6
  <2>2. ~(k < i)
    BY <1>2, <1>3, <1>4, <1>6
  <2> QED
    BY <1>2, <2>1, <2>2
<1>8. i = k - 1
  <2> SUFFICES ASSUME i < k - 1 PROVE FALSE
    BY <1>2, <1>7
  <2>1. k - 1 \in 1..n /\ k - 1 < k
    BY <1>2
  <2>2. s[k-1] \in T /\ Earlier(p, s[k-1]) /\ Earlier(s[k-1], e)
    BY <1>2, <1>3, <1>4, <2>1
  <2> QED
    BY <1>6, <2>2
<1>9. k # 1
  BY <1>2, <1>4, <1>8
<1> QED
  BY <1>3, <1>4, <1>5, <1>8, <1>9 DEF canon

(* With one line c more, of which d is no later line of the same group, d repeats what it
   repeated before. *)
LEMMA OthersAreLeftAlone ==
  ASSUME NEW S, NEW c, Ordered(S \cup {c}), c \notin S, NEW d \in Fees(S),
         ~(IsChargeableFee(c) /\ Fingerprint(c) = Fingerprint(d) /\ Earlier(c, d))
  PROVE  Canonical(S \cup {c})[d] = Canonical(S)[d]
<1> DEFINE D == S \cup {c}
<1>1. d \in D /\ c \in D /\ c # d /\ d \in Fees(D)
  BY DEF Fees
<1>2. Earlier(c, d) \/ Earlier(d, c)
  BY <1>1, EarlierIsOrder
<1>3. {e \in Fees(D) : Fingerprint(e) = Fingerprint(d) /\ ~Earlier(d, e)}
        = {e \in Fees(S) : Fingerprint(e) = Fingerprint(d) /\ ~Earlier(d, e)}
  BY <1>2 DEF Fees
<1> QED
  BY <1>1, <1>3 DEF Canonical

(* The first line of a set of stored lines. *)
LEMMA EarliestLine ==
  ASSUME NEW S, Ordered(S), S # {}
  PROVE  \E e \in S : \A z \in S : ~Earlier(z, e)
<1> DEFINE s == InOrder(S)
           n == Cardinality(S)
<1>1. /\ n \in Nat /\ \A i \in 1..n : s[i] \in S
      /\ \A y \in S : \E i \in 1..n : s[i] = y
      /\ \A i, h \in 1..n : i < h => Earlier(s[i], s[h])
  BY InOrderLists
<1> HIDE DEF s, n
<1>2. 1 \in 1..n
  BY <1>1
<1>3. \A z \in S : z = s[1] \/ Earlier(s[1], z)
  <2> SUFFICES ASSUME NEW z \in S PROVE z = s[1] \/ Earlier(s[1], z)
    OBVIOUS
  <2>1. PICK i \in 1..n : s[i] = z
    BY <1>1
  <2>2. i = 1 \/ 1 < i
    BY <1>1
  <2> QED
    BY <1>1, <1>2, <2>1, <2>2
<1>4. s[1] \in S
  BY <1>1, <1>2
<1> QED
  BY <1>3, <1>4, EarlierIsOrder

(* The last line of a group before one of its lines. *)
LEMMA LineBefore ==
  ASSUME NEW S, Ordered(S), NEW x \in S, NEW e \in S, Earlier(x, e)
  PROVE  \E p \in S : Earlier(p, e) /\ ~Earlier(p, x) /\ \A z \in S : ~(Earlier(p, z) /\ Earlier(z, e))
<1> DEFINE s == InOrder(S)
           n == Cardinality(S)
<1>1. /\ n \in Nat /\ \A i \in 1..n : s[i] \in S
      /\ \A y \in S : \E i \in 1..n : s[i] = y
      /\ \A i, h \in 1..n : i < h => Earlier(s[i], s[h])
  BY InOrderLists
<1> HIDE DEF s, n
<1>2. \A i, h \in 1..n : Earlier(s[i], s[h]) => i < h
  <2> SUFFICES ASSUME NEW i \in 1..n, NEW h \in 1..n, Earlier(s[i], s[h]) PROVE i < h
    OBVIOUS
  <2>1. ~Earlier(s[h], s[i]) /\ s[i] # s[h]
    BY <1>1, EarlierIsOrder
  <2>2. ~(h < i) /\ i # h
    BY <1>1, <2>1
  <2> QED
    BY <1>1, <2>2
<1>3. PICK k \in 1..n : s[k] = e
  BY <1>1
<1>4. PICK i \in 1..n : s[i] = x
  BY <1>1
<1>5. i < k /\ k - 1 \in 1..n /\ i <= k - 1 /\ k - 1 < k
  BY <1>1, <1>2, <1>3, <1>4
<1>6. s[k-1] \in S /\ Earlier(s[k-1], e)
  BY <1>1, <1>3, <1>5
<1>7. ~Earlier(s[k-1], x)
  BY <1>1, <1>2, <1>4, <1>5
<1>8. \A z \in S : ~(Earlier(s[k-1], z) /\ Earlier(z, e))
  <2> SUFFICES ASSUME NEW z \in S, Earlier(s[k-1], z), Earlier(z, e) PROVE FALSE
    OBVIOUS
  <2>1. PICK h \in 1..n : s[h] = z
    BY <1>1
  <2>2. k - 1 < h /\ h < k
    BY <1>2, <1>3, <1>5, <2>1
  <2> QED
    BY <1>1, <2>2
<1> QED
  BY <1>6, <1>7, <1>8

(* A line of the chain that moves: when no line within the window goes before x, neither
   among the stored lines of its group after c nor c itself, x stays with and without c. *)
LEMMA BreakInTheChain ==
  ASSUME NEW c, Ordered(charges \cup {c}), c \notin charges, IsChargeableFee(c),
         NEW d \in Fees(charges), Fingerprint(c) = Fingerprint(d), NEW x \in Following(c, d),
         \A y \in ({c} \cup Following(c, x)) \ {x} : ~(x.posted - y.posted <= WindowDays)
  PROVE  Canonical(charges)[x] = x /\ Canonical(charges \cup {c})[x] = x
<1> DEFINE D == charges \cup {c}
<1>1. /\ x \in Fees(charges) /\ Fingerprint(x) = Fingerprint(c) /\ Earlier(c, x)
      /\ x \in D /\ c \in D /\ c # x
  BY DEF Following, Fees
<1>2. ASSUME NEW y \in Fees(D), Fingerprint(y) = Fingerprint(x), Earlier(y, x)
      PROVE  x.posted - y.posted > WindowDays
  <2>1. y \in D /\ y # x /\ ~Earlier(x, y)
    BY <1>1, <1>2, EarlierIsOrder DEF Fees
  <2>2. x.posted \in Int /\ y.posted \in Int /\ c.posted \in Int
    BY <1>1, <2>1 DEF Ordered
  <2>3. x.posted - c.posted > WindowDays
    BY <1>1, <2>2, WindowDaysAssumption
  <2>4. CASE y = c
    BY <2>3, <2>4
  <2>5. CASE y # c /\ Earlier(c, y)
    <3>1. y \in Fees(charges)
      BY <1>2, <2>5 DEF Fees
    <3>2. y \in Following(c, x)
      BY <1>2, <2>1, <2>5, <3>1 DEF Following
    <3> QED
      BY <2>1, <2>2, <3>2, WindowDaysAssumption
  <2>6. CASE y # c /\ ~Earlier(c, y)
    <3>1. Earlier(y, c)
      BY <1>1, <2>1, <2>6, EarlierIsOrder
    <3>2. y.posted <= c.posted
      BY <2>2, <3>1 DEF Earlier
    <3> QED
      BY <2>2, <2>3, <3>2, WindowDaysAssumption
  <2> QED
    BY <2>4, <2>5, <2>6
<1>3. Ordered(charges)
  BY FS_Subset DEF Ordered
<1>4. \A y \in Group(charges, x) : Earlier(y, x) => x.posted - y.posted > WindowDays
  BY <1>2 DEF Group, Fees
<1>5. \A y \in Group(D, x) : Earlier(y, x) => x.posted - y.posted > WindowDays
  BY <1>2 DEF Group
<1>6. x \in Fees(D)
  BY <1>1 DEF Fees
<1> HIDE DEF D
<1>7. Canonical(charges)[x] = x
  BY <1>1, <1>3, <1>4, FarLineStays
<1>8. Ordered(D)
  BY DEF D
<1>9. Canonical(D)[x] = x
  BY <1>5, <1>6, <1>8, FarLineStays
<1> QED
  BY <1>7, <1>9 DEF D

(* After a line of a group that stays with and without c, every line of the group repeats
   what it repeated: the first that did not would follow one that does. *)
LEMMA ChainIsCut ==
  ASSUME NEW c, Ordered(charges \cup {c}), c \notin charges,
         NEW x \in Fees(charges), Earlier(c, x),
         Canonical(charges \cup {c})[x] = Canonical(charges)[x],
         NEW d \in Group(charges, x), ~Earlier(d, x)
  PROVE  Canonical(charges \cup {c})[d] = Canonical(charges)[d]
<1> DEFINE D == charges \cup {c}
           Bad == {e \in Group(charges, x) :
                     ~Earlier(e, x) /\ Canonical(D)[e] # Canonical(charges)[e]}
<1>1. Ordered(charges) /\ Ordered(D) /\ Ordered(Group(charges, x)) /\ Ordered(Bad)
  <2>1. charges \in SUBSET D /\ Group(charges, x) \in SUBSET D /\ Bad \in SUBSET D
    BY DEF Group, Fees
  <2>2. \A T \in SUBSET D : Ordered(T)
    BY FS_Subset DEF Ordered
  <2> QED
    BY <2>1, <2>2
<1>2. SUFFICES ASSUME Bad # {} PROVE FALSE
  OBVIOUS
<1>3. PICK e \in Bad : \A z \in Bad : ~Earlier(z, e)
  <2> HIDE DEF Bad
  <2> QED
    BY <1>1, <1>2, EarliestLine, Zenon
<1>4. /\ e \in Group(charges, x) /\ ~Earlier(e, x) /\ Canonical(D)[e] # Canonical(charges)[e]
      /\ e # x
  BY <1>3
<1>5. x \in Group(charges, x)
  BY DEF Group
<1>6. Earlier(x, e)
  BY <1>1, <1>4, <1>5, EarlierIsOrder
<1>7. PICK p \in Group(charges, x) :
        /\ Earlier(p, e) /\ ~Earlier(p, x)
        /\ \A z \in Group(charges, x) : ~(Earlier(p, z) /\ Earlier(z, e))
  BY <1>1, <1>4, <1>5, <1>6, LineBefore
<1>8. Canonical(D)[p] = Canonical(charges)[p]
  BY <1>3, <1>7
<1>9. Group(charges, e) = Group(charges, x) /\ e \in Fees(charges) /\ e \in Fees(D)
  BY <1>4 DEF Group, Fees
<1>10. p \in Group(D, e)
  BY <1>7, <1>9 DEF Group, Fees
<1>11. ~(Earlier(p, c) /\ Earlier(c, e))
  <2>1. x \in D /\ p \in D /\ c \in D
    BY <1>7 DEF Group, Fees
  <2>2. x = p \/ Earlier(x, p)
    BY <1>1, <1>7, <2>1, EarlierIsOrder
  <2>3. Earlier(c, p)
    BY <1>1, <2>1, <2>2, EarlierIsOrder
  <2> QED
    BY <1>1, <2>1, <2>3, EarlierIsOrder
<1>12. \A z \in Group(D, e) : ~(Earlier(p, z) /\ Earlier(z, e))
  <2> SUFFICES ASSUME NEW z \in Group(D, e) PROVE ~(Earlier(p, z) /\ Earlier(z, e))
    OBVIOUS
  <2>1. CASE z = c
    BY <1>11, <2>1
  <2>2. CASE z # c
    <3>1. z \in Group(charges, e)
      BY <2>2 DEF Group, Fees
    <3> QED
      BY <1>7, <1>9, <3>1
  <2> QED
    BY <2>1, <2>2
<1> HIDE DEF D, Bad
<1>13. Canonical(charges)[e] = NextCanonical(Canonical(charges)[p], e)
  BY <1>1, <1>7, <1>9, CanonicalAfter
<1>14. Canonical(D)[e] = NextCanonical(Canonical(D)[p], e)
  BY <1>1, <1>7, <1>9, <1>10, <1>12, CanonicalAfter
<1> QED
  BY <1>4, <1>8, <1>13, <1>14

(* A line that arrives late changes what a stored line repeats only later in its own group
   and no further than the chain goes whose links are within the window (find_duplicates). *)
LEMMA OnlyTheChainMoves ==
  ASSUME NEW c, Ordered(charges \cup {c}), c \notin charges, NEW d \in Fees(charges),
         Canonical(charges \cup {c})[d] # Canonical(charges)[d]
  PROVE  /\ IsChargeableFee(c) /\ Fingerprint(c) = Fingerprint(d) /\ Earlier(c, d)
         /\ \A x \in Following(c, d) :
              \E y \in ({c} \cup Following(c, x)) \ {x} : x.posted - y.posted <= WindowDays
<1>1. Ordered(charges)
  BY FS_Subset DEF Ordered
<1>2. IsChargeableFee(c) /\ Fingerprint(c) = Fingerprint(d) /\ Earlier(c, d)
  BY OthersAreLeftAlone
<1>3. ASSUME NEW x \in Following(c, d),
             \A y \in ({c} \cup Following(c, x)) \ {x} : ~(x.posted - y.posted <= WindowDays)
      PROVE  FALSE
  <2>1. Canonical(charges)[x] = x /\ Canonical(charges \cup {c})[x] = x
    BY <1>2, <1>3, BreakInTheChain
  <2>2. x \in Fees(charges) /\ Earlier(c, x) /\ ~Earlier(d, x) /\ d \in Group(charges, x)
    BY DEF Following, Group
  <2>3. ~Earlier(d, x)
    BY <2>2
  <2>4. Canonical(charges \cup {c})[x] = Canonical(charges)[x]
    BY <2>1
  <2> QED
    BY <2>2, <2>3, <2>4, ChainIsCut
<1> QED
  BY <1>2, <1>3

(* Whatever lines uploads carry and in whichever order, a line that arrives late changes
   only what the lines of the chain it breaks into repeat; one posted after every stored
   line changes nothing. *)
THEOREM LateLinesMoveOnlyTheirChain == Spec => LateLineMovesOnlyItsChain
<1> DEFINE Inv == TypeOK /\ IsFiniteSet(charges)
           Moves == \A c \in charges' \ charges : \A d \in Fees(charges) :
                      Canonical(charges')[d] # Canonical(charges)[d] =>
                        /\ IsChargeableFee(c) /\ Fingerprint(c) = Fingerprint(d) /\ Earlier(c, d)
                        /\ \A x \in Following(c, d) :
                             \E y \in ({c} \cup Following(c, x)) \ {x} :
                               x.posted - y.posted <= WindowDays
<1>1. Inv /\ Inv' /\ [Next]_vars => [Moves]_vars
  <2> SUFFICES ASSUME Inv, Inv', [Next]_vars,
                      NEW c \in charges' \ charges, NEW d \in Fees(charges),
                      Canonical(charges')[d] # Canonical(charges)[d]
               PROVE  /\ IsChargeableFee(c) /\ Fingerprint(c) = Fingerprint(d) /\ Earlier(c, d)
                      /\ \A x \in Following(c, d) :
                           \E y \in ({c} \cup Following(c, x)) \ {x} :
                             x.posted - y.posted <= WindowDays
    OBVIOUS
  <2>1. charges' = charges \cup {c} /\ c \notin charges
    BY DEF Next, IngestLine, NextDay, vars
  <2>2. Ordered(charges \cup {c})
    <3>1. \A e \in charges' : e.line \in Int /\ e.posted \in Int
      BY ChargeStoreAssumption DEF TypeOK
    <3>2. \A e, f \in charges' : e.line = f.line => e = f
      BY DEF TypeOK
    <3> QED
      BY <2>1, <3>1, <3>2 DEF Ordered
  <2> QED
    BY <2>1, <2>2, OnlyTheChainMoves
<1> QED
  BY <1>1, TypeCorrect, PTL DEF Spec, LateLineMovesOnlyItsChain

(* A line changes no duplicate beyond the chain it breaks into, and a refund line after
   every stored refund takes nothing back from a fee. *)
THEOREM LaterLinesNeverRewrite == Spec => LaterLinesRewriteNothing
<1> DEFINE Inv == TypeOK /\ IsFiniteSet(charges)
           Adds == LET before == Matching
                       after == MatchReimbursements(charges')
                   IN  \A r \in charges' \ charges :
                         (IsFeeRefundLine(r) /\ \A d \in Refunds(charges) : Earlier(d, r)) =>
                           \A f \in Fees(charges) : Reimbursed(after, f) >= Reimbursed(before, f)
<1>1. Inv /\ Inv' /\ [Next]_vars => [Adds]_vars
  <2> SUFFICES ASSUME Inv, Inv', [Next]_vars,
                      NEW r \in charges' \ charges, IsFeeRefundLine(r),
                      \A d \in Refunds(charges) : Earlier(d, r),
                      NEW f \in Fees(charges)
               PROVE  Reimbursed(MatchReimbursements(charges'), f) >= Reimbursed(Matching, f)
    OBVIOUS
  <2>1. charges' = charges \cup {r}
    BY DEF Next, IngestLine, NextDay, vars
  <2>2. Ledger(charges)
    BY StoreIsLedger
  <2>3. Ledger(charges \cup {r})
    <3>1. \A c \in charges' : c.line \in Int /\ c.posted \in Int /\ c.amount \in Int
      BY ChargeStoreAssumption DEF TypeOK
    <3>2. \A c, d \in charges' : c.line = d.line => c = d
      BY DEF TypeOK
    <3> QED
      BY <2>1, <3>1, <3>2 DEF Ledger, Ordered
  <2> QED
    BY <2>1, <2>2, <2>3, LastRefundOnlyAdds DEF Reimbursed, Matching
<1>2. Spec => [][Adds]_vars
  BY <1>1, TypeCorrect, PTL DEF Spec
<1>3. Spec => LaterRefundOnlyAdds
  BY <1>2 DEF LaterRefundOnlyAdds
<1> QED
  BY <1>3, LateLinesMoveOnlyTheirChain DEF LaterLinesRewriteNothing
=============================================================================
