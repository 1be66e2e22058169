------------------------------ MODULE Precheck ------------------------------
(***************************************************************************)
(* The pre-checks of backend/app/precheck: which fee lines are duplicates, *)
(* what refund lines already paid back, and where a line stands in its     *)
(* filing window.  Pure operators over a set of stored report lines.       *)
(*                                                                         *)
(* A line is a record                                                      *)
(*   [line, report, type, unit, sku, quantity, currency, shipment, order,  *)
(*    category, amount, posted]                                            *)
(* where line is the rank of the line id, amount is in cents, posted is a  *)
(* day and category is the defect category an inbound defect fee names.    *)
(* The organisation is left out: a session sees one organisation.          *)
(***************************************************************************)
EXTENDS Integers, FiniteSets, SequencesExt

CONSTANTS
  FeeTypes,    \* the charge types of kind "fee"; the others are loss events
  NoRef,       \* an id, sku or category that a line or record does not carry
  NoDays,      \* a filing bound for which config/rules/ has no source
  Filing,      \* charge type -> [open, close], days after the posted date
  WindowDays   \* days within which a repeated fee line is a duplicate

ASSUME WindowDaysAssumption == WindowDays \in Nat

(* DuplicateConfig and FilingWindowRule: positive bounds, open before close. *)
ASSUME FilingAssumption ==
  \A t \in DOMAIN Filing :
    LET rule == Filing[t]
    IN  /\ rule.open = NoDays \/ rule.open \in Nat \ {0}
        /\ rule.close = NoDays \/ rule.close \in Nat \ {0}
        /\ NoDays \notin {rule.open, rule.close} => rule.open < rule.close

-----------------------------------------------------------------------------
(* Kinds of lines. *)

IsFee(c) == c.type \in FeeTypes

IsFeeRefundLine(c) == c.report = "reimbursement_report" /\ IsFee(c)

IsChargeableFee(c) == IsFee(c) /\ ~IsFeeRefundLine(c) /\ c.amount > 0

Refunds(charges) == {c \in charges : IsFeeRefundLine(c)}

Fees(charges) == {c \in charges : IsChargeableFee(c)}

(* Posting order: by posted date, then by line id. *)
Earlier(c, d) == \/ c.posted < d.posted
                 \/ c.posted = d.posted /\ c.line < d.line

InOrder(S) ==
  [i \in 1..Cardinality(S) |->
     CHOOSE c \in S : Cardinality({d \in S : Earlier(d, c)}) = i - 1]

-----------------------------------------------------------------------------
(* Duplicates. *)

Fingerprint(c) == <<c.report, c.type, c.unit, c.sku, c.shipment,
                    c.order, c.quantity, c.amount, c.currency>>

(* Slip: a line on the last day of the window is not compared. *)
NextCanonicalOpenWindow(canon, d) ==
  IF d.posted - canon.posted < WindowDays THEN canon ELSE d

(* The canonical line once d is met, when canon was canonical before it. *)
NextCanonical(canon, d) ==
  IF d.posted - canon.posted <= WindowDays THEN canon ELSE d

(* Slip: the group is not sorted before its first line is taken. *)
CanonicalIsLatest(charges) ==
  [c \in Fees(charges) |->
     LET group == InOrder({d \in Fees(charges) : Fingerprint(d) = Fingerprint(c)})
     IN  group[Len(group)]]

(* Of each fee line, the line it repeats: itself when it is canonical. *)
Canonical(charges) ==
  [c \in Fees(charges) |->
     LET upTo == InOrder({d \in Fees(charges) : Fingerprint(d) = Fingerprint(c)
                                                /\ ~Earlier(c, d)})
     IN  FoldLeft(NextCanonical, Head(upTo), Tail(upTo))]

IsDuplicate(c, charges) == c \in Fees(charges) /\ Canonical(charges)[c] # c

-----------------------------------------------------------------------------
(* Refunds. *)

RefundMatches(r, f) ==
  /\ r.unit = f.unit /\ r.type = f.type /\ r.currency = f.currency
  /\ r.posted >= f.posted
  /\ \A key \in {"shipment", "order"} : r[key] = f[key] \/ NoRef \in {r[key], f[key]}

Candidates(r, charges) == {f \in Fees(charges) : RefundMatches(r, f)}

(* Slip: the candidates are offered the refund in posting order. *)
PayOrderByPosting(fees, canon) == InOrder(fees)

(* Duplicates, latest first, before the canonical line. *)
PayOrder(fees, canon) ==
  Reverse(InOrder({f \in fees : canon[f] # f})) \o InOrder({f \in fees : canon[f] = f})

Smaller(a, b) == IF a <= b THEN a ELSE b

(* Slip: the refund is not reduced by what it paid. *)
PayFeeKeepingLeft(m, r, f) ==
  LET take == Smaller(m.left, m.remaining[f])
  IN  IF take > 0
      THEN [m EXCEPT !.remaining[f] = @ - take,
                     !.paid = @ \cup {[refund |-> r, fee |-> f, amount |-> take]}]
      ELSE m

(* m is the matching so far; m.left is what is left of the refund r. *)
PayFee(m, r, f) ==
  LET take == Smaller(m.left, m.remaining[f])
  IN  IF take > 0
      THEN [m EXCEPT !.left = @ - take,
                     !.remaining[f] = @ - take,
                     !.paid = @ \cup {[refund |-> r, fee |-> f, amount |-> take]}]
      ELSE m

(* Slip: an ambiguous refund is flagged and then allocated all the same. *)
MatchRefundFallingThrough(m, r, charges, canon) ==
  LET candidates == Candidates(r, charges)
      several == Cardinality({canon[f] : f \in candidates}) > 1
  IN  FoldLeft(LAMBDA n, f : PayFee(n, r, f),
               [m EXCEPT !.left = r.amount,
                         !.ambiguous = IF several
                                       THEN @ \cup {[refund |-> r, fee |-> f] : f \in candidates}
                                       ELSE @],
               PayOrder(candidates, canon))

MatchRefund(m, r, charges, canon) ==
  LET candidates == Candidates(r, charges)
  IN  CASE candidates = {} -> m
        [] Cardinality({canon[f] : f \in candidates}) > 1 ->
             [m EXCEPT !.ambiguous = @ \cup {[refund |-> r, fee |-> f] : f \in candidates}]
        [] OTHER ->
             FoldLeft(LAMBDA n, f : PayFee(n, r, f), [m EXCEPT !.left = r.amount],
                      PayOrder(candidates, canon))

(* paid: which refund pays how much of which fee; ambiguous: the refunds that
   could belong to more than one fee, of which nothing is paid. *)
MatchReimbursements(charges) ==
  LET canon == Canonical(charges)
      start == [left |-> 0, remaining |-> [f \in Fees(charges) |-> f.amount],
                paid |-> {}, ambiguous |-> {}]
  IN  FoldLeft(LAMBDA m, r : MatchRefund(m, r, charges, canon), start,
               InOrder(Refunds(charges)))

Paid(parts) == MapThenSumSet(LAMBDA p : p.amount, parts)

PaidToFee(m, f) == {p \in m.paid : p.fee = f}

-----------------------------------------------------------------------------
(* Filing window. *)

(* Slip: the deadline itself counts as passed. *)
FilingStateShort(c, asOf) ==
  LET rule == Filing[c.type]
  IN  CASE rule.open # NoDays /\ asOf < c.posted + rule.open -> "not_open"
        [] rule.close = NoDays -> "unknown"
        [] asOf >= c.posted + rule.close -> "passed"
        [] OTHER -> "open"

FilingState(c, asOf) ==
  LET rule == Filing[c.type]
  IN  CASE rule.open # NoDays /\ asOf < c.posted + rule.open -> "not_open"
        [] rule.close = NoDays -> "unknown"
        [] asOf > c.posted + rule.close -> "passed"
        [] OTHER -> "open"

FilingVerdict(state) ==
  CASE state = "open" -> "PASS"
    [] state = "unknown" -> "UNCERTAIN"
    [] OTHER -> "FAIL"

-----------------------------------------------------------------------------
(* What the engine and the review read of one line. *)
PrecheckOf(c, charges, asOf) ==
  LET m == MatchReimbursements(charges)
  IN  [duplicate  |-> IsDuplicate(c, charges),
       reimbursed |-> Paid(PaidToFee(m, c)),
       refunds    |-> {p.refund : p \in PaidToFee(m, c)},
       ambiguous  |-> {a.refund : a \in {x \in m.ambiguous : x.fee = c}},
       filing     |-> FilingState(c, asOf)]
=============================================================================
