---------------------------- MODULE ChargeStore ----------------------------
(***************************************************************************)
(* The stored report lines of one organisation as uploads add to them and  *)
(* days pass, with the pre-checks judged over whatever is stored.  A run   *)
(* and a reviewer both re-match every stored line, so what holds here      *)
(* holds of every run and of every override check.                         *)
(***************************************************************************)
EXTENDS Precheck

CONSTANTS
  Arrivals,    \* report lines that an upload may carry
  MaxLines,    \* bound: lines stored
  MaxDay       \* bound: days

ASSUME ChargeStoreAssumption ==
  /\ MaxLines \in Nat /\ MaxDay \in Nat
  /\ \A c \in Arrivals : /\ c.type \in DOMAIN Filing /\ c.posted \in Nat
                         /\ c.line \in Int /\ c.amount \in Int

VARIABLES
  charges,     \* the rows of table charges
  day          \* the as-of date of a run started now

vars == <<charges, day>>

Init == charges = {} /\ day = 0

(* insert_charges: ON CONFLICT (org, line_id) DO NOTHING, so a line id that is
   stored already keeps the row it has.  A line is reported once it is posted. *)
IngestLine(c) ==
  /\ c.posted <= day
  /\ Cardinality(charges) < MaxLines
  /\ charges' = IF \E d \in charges : d.line = c.line THEN charges ELSE charges \cup {c}
  /\ UNCHANGED day

NextDay ==
  /\ day < MaxDay
  /\ day' = day + 1
  /\ UNCHANGED charges

Next == NextDay \/ \E c \in Arrivals : IngestLine(c)

Spec == Init /\ [][Next]_vars

-----------------------------------------------------------------------------
Matching == MatchReimbursements(charges)

Reimbursed(m, f) == Paid(PaidToFee(m, f))

Spent(m, r) == Paid({p \in m.paid : p.refund = r})

Groups(r) == {Canonical(charges)[f] : f \in Candidates(r, charges)}

TypeOK ==
  /\ charges \subseteq Arrivals
  /\ \A c, d \in charges : c.line = d.line => c = d
  /\ Cardinality(charges) <= MaxLines
  /\ day \in 0..MaxDay

(* A refund line pays no more than its own amount over all the fees it is
   applied to, and a refund that is not positive pays nothing
   (match_reimbursements, "at most its own amount"). *)
RefundNeverOverspent ==
  LET m == Matching
  IN  \A r \in Refunds(charges) : Spent(m, r) = 0 \/ Spent(m, r) <= r.amount

(* No fee is paid back more than it charged or less than nothing, however many refund
   lines match it, so charged - reimbursed is never negative for a fee (rule 9's cap). *)
FeeNeverOverpaid ==
  LET m == Matching
  IN  \A f \in Fees(charges) : Reimbursed(m, f) \in 0..f.amount

(* However many refunds and fees match one another, money is conserved: no refund
   pays more than it has and no fee gets more than it charged. *)
RefundsAreConserved == RefundNeverOverspent /\ FeeNeverOverpaid

(* A refund that could belong to fees of two duplicate groups pays none of
   them, and every one of its candidates is flagged: nobody is told that a fee
   is settled by money that may belong to another. *)
AmbiguousRefundPaysNothing ==
  LET m == Matching
      flagged(r) == {a.fee : a \in {x \in m.ambiguous : x.refund = r}}
  IN  \A r \in Refunds(charges) :
        IF Cardinality(Groups(r)) > 1
        THEN flagged(r) = Candidates(r, charges) /\ Spent(m, r) = 0
        ELSE flagged(r) = {}

(* No refunded money is lost: a refund with one candidate group is spent until
   it is exhausted or every candidate fee is fully paid back. *)
UnambiguousRefundIsSpent ==
  LET m == Matching
  IN  \A r \in Refunds(charges) :
        r.amount > 0 /\ Cardinality(Groups(r)) = 1 =>
          \/ Spent(m, r) = r.amount
          \/ \A f \in Candidates(r, charges) : Reimbursed(m, f) = f.amount

(* The line that stays valid is paid back last: a refund reaches the canonical
   line only when each duplicate it matches is fully paid back (module doc,
   "duplicates first (latest first), then the canonical line"). *)
CanonicalIsPaidLast ==
  LET m == Matching
  IN  \A p \in m.paid : \A q \in Candidates(p.refund, charges) :
        ~IsDuplicate(p.fee, charges) /\ IsDuplicate(q, charges)
          => Reimbursed(m, q) = q.amount

(* Where a refund goes is no accident of the order in which lines came: it is spent as
   far as it can be, and the line that stays valid is the last to get any of it. *)
RefundsAreSpentInOrder == UnambiguousRefundIsSpent /\ CanonicalIsPaidLast

(* Of one fingerprint the canonical lines lie more than the window apart, and
   every other line of it follows, within the window, a canonical line that is
   not itself a duplicate: each repeated fee is disputed against exactly one
   line that stays (find_duplicates). *)
OneCanonicalPerWindow ==
  \A c, d \in Fees(charges) :
    c # d /\ Fingerprint(c) = Fingerprint(d) =>
      LET canon == Canonical(charges)
      IN  /\ canon[canon[c]] = canon[c]
          /\ \/ canon[c] = c
             \/ Earlier(canon[c], c) /\ c.posted - canon[c].posted <= WindowDays
          /\ (canon[c] = c /\ canon[d] = d)
               => c.posted - d.posted \notin -WindowDays..WindowDays

(* The stored lines of d's group after line c, up to d. *)
Following(c, d) ==
  {x \in Fees(charges) : Fingerprint(x) = Fingerprint(d) /\ Earlier(c, x) /\ ~Earlier(d, x)}

(* A line that arrives late may change which line a stored one repeats, and with it what
   the next run decides of that one; but only in its own group, only after itself, and no
   further than the chain goes in which each line follows another within the window.  A
   line posted after every stored line changes nothing (find_duplicates). *)
LateLineMovesOnlyItsChain ==
  [][\A c \in charges' \ charges : \A d \in Fees(charges) :
       Canonical(charges')[d] # Canonical(charges)[d] =>
         /\ IsChargeableFee(c) /\ Fingerprint(c) = Fingerprint(d) /\ Earlier(c, d)
         /\ \A x \in Following(c, d) :
              \E y \in ({c} \cup Following(c, x)) \ {x} : x.posted - y.posted <= WindowDays]_vars

(* A refund line that follows every stored refund only ever adds to what a fee
   was paid back, so a figure recorded by an earlier run can be too low but not
   too high because of it. *)
LaterRefundOnlyAdds ==
  [][LET before == Matching
         after == MatchReimbursements(charges')
     IN  \A r \in charges' \ charges :
           (IsFeeRefundLine(r) /\ \A d \in Refunds(charges) : Earlier(d, r)) =>
             \A f \in Fees(charges) : Reimbursed(after, f) >= Reimbursed(before, f)]_vars

(* What later uploads do to what earlier ones were told: nothing, as long as their
   lines are later lines, and nothing beyond the chain of repeats they break into. *)
LaterLinesRewriteNothing == LateLineMovesOnlyItsChain /\ LaterRefundOnlyAdds

(* A line with a sourced deadline is claimable on exactly close - open + 1 days, one
   after the other, the opening day and the deadline included: the window opens once
   and never again after its deadline. *)
ClaimableDays ==
  \A c \in charges :
    LET rule == Filing[c.type]
        opens == IF rule.open = NoDays THEN 0 ELSE rule.open
        claimable == {d \in 0..(c.posted + rule.close + 2) :
                        d >= c.posted /\ FilingState(c, d) = "open"}
    IN  rule.close # NoDays =>
          /\ Cardinality(claimable) = rule.close - opens + 1
          /\ \A d, e \in claimable : d..e \subseteq claimable
=============================================================================
