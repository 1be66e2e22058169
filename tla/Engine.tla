------------------------------- MODULE Engine -------------------------------
(***************************************************************************)
(* backend/app/engine: the ordered rules that turn one charge line, its    *)
(* pre-checks and the usable evidence into a decision record; and          *)
(* backend/app/claims: the amount claimed, and the citation validator that *)
(* re-reads what the decision cites and downgrades it when it differs.     *)
(*                                                                         *)
(* A stored evidence row is [body, column]: body is the upstream record    *)
(* with the content its content_hash was computed over (seal), column the  *)
(* indexed content_hash.  A hash is modelled by the content it covers, so  *)
(* two hashes are equal exactly when the contents are.  The confidence     *)
(* figures and the texts of a decision are left out.                       *)
(***************************************************************************)
EXTENDS Evidence, ClaimRules

CONSTANT LossOutcomes   \* loss event type -> outcome -> [status, decision, rule, amountNeeded]

(* EngineConfig: each loss event and nothing else has a table of outcomes, of which none
   claims.  No rule id of config/engine.yaml is the validator's, or the name that stands
   here for an engine that raises. *)
ASSUME LossOutcomesAssumption ==
  /\ DOMAIN LossOutcomes = ChargeTypes \ FeeTypes
  /\ \A t \in DOMAIN LossOutcomes : \A o \in DOMAIN LossOutcomes[t] :
       /\ LossOutcomes[t][o].decision \in {"DO_NOT_CLAIM", "REVIEW"}
       /\ LossOutcomes[t][o].rule \notin {"R_CITATION_INVALID", "raises"}

(* config/engine.yaml: the rows of loss_event_outcomes, with the evidence each is for. *)
ASSUME OutcomeRowsAssumption ==
  \A row \in {<<"refund_issued_item_not_returned", "returned_complete", "CONTRADICTED">>,
              <<"refund_issued_item_not_returned", "returned_incomplete_or_damaged", "CONTRADICTED">>,
              <<"refund_issued_item_not_returned", "wrong_item_returned", "SUPPORTED">>,
              <<"lost_inbound", "shipped_no_later_sighting", "SUPPORTED">>,
              <<"lost_inbound", "later_sighting", "CONTRADICTED">>,
              <<"damaged_in_warehouse", "left_prep_undamaged", "SUPPORTED">>} :
    /\ row[2] \in DOMAIN LossOutcomes[row[1]]
    /\ LossOutcomes[row[1]][row[2]].status = row[3]

(* config/engine.yaml: the two charges that are fees; the others are loss events. *)
ASSUME FeeTypesAssumption ==
  FeeTypes = {"inbound_defect_fee", "fulfilment_fee_weight_tier"}

Content(body) == [k \in DOMAIN body \ {"seal"} |-> body[k]]

Sealed(r) == [k \in DOMAIN r \cup {"seal"} |-> IF k = "seal" THEN r ELSE r[k]]

HashVerifies(body) == body.seal = Content(body)

-----------------------------------------------------------------------------
(* The situation the rules judge. *)

(* Without a resolved unit nothing is assessed. *)
Situation(c, pre, records) ==
  LET carried == UnitRecords(c, records)
      resolved == Resolved(c, records)
  IN  [charge |-> c, pre |-> pre, resolved |-> resolved,
       inScope |-> {r \in carried : InScope(c, r)},
       usable |-> Usable(c, records),
       a |-> IF resolved THEN Assess(c, Usable(c, records)) ELSE Unsettled({})]

PresentVerdict(s) ==
  IF ~s.resolved THEN "UNCERTAIN" ELSE IF s.a.noRelevant THEN "FAIL" ELSE "PASS"

CustodyVerdict(s) ==
  IF ~s.resolved \/ s.inScope = {} THEN "UNCERTAIN"
  ELSE IF s.usable = {} THEN "FAIL"
  ELSE IF s.a.noRelevant THEN "UNCERTAIN" ELSE "PASS"

ContradictsVerdict(s) ==
  IF ~s.resolved \/ s.a.noRelevant THEN "UNCERTAIN"
  ELSE IF s.a.status = "CONTRADICTED" THEN "PASS"
  ELSE IF s.a.status = "SUPPORTED" THEN "FAIL" ELSE "UNCERTAIN"

Checks(s) ==
  [unit_resolved |-> IF s.resolved THEN "PASS" ELSE "FAIL",
   not_duplicate |-> IF s.pre.duplicate THEN "FAIL" ELSE "PASS",
   not_already_reimbursed |-> ReimbursedVerdict(s.charge, s.pre),
   within_filing_window |-> FilingVerdict(s.pre.filing),
   evidence_present |-> PresentVerdict(s),
   evidence_in_custody_window |-> CustodyVerdict(s),
   evidence_contradicts_charge |-> ContradictsVerdict(s),
   amount_computable |-> AmountVerdict(s.charge)]

-----------------------------------------------------------------------------
(* The rules, in order; the first that applies fires. *)

NoCode == "none"

When(applies, rule, decision, code) ==
  [applies |-> applies, rule |-> rule, decision |-> decision, code |-> code]

WindowPassed(applies) ==
  When(applies, "R_FILING_WINDOW_PASSED", "DO_NOT_CLAIM", "FILING_WINDOW_EXPIRED")

(* Slip: any refund counts as the whole refund. *)
AnyRefundIsEnough(s) ==
  When(s.pre.refunds # {}, "R_ALREADY_REIMBURSED", "DO_NOT_CLAIM", "ALREADY_REIMBURSED")

AlreadyReimbursed(s) ==
  When(s.charge.amount > 0 /\ s.charge.amount - s.pre.reimbursed <= 0,
       "R_ALREADY_REIMBURSED", "DO_NOT_CLAIM", "ALREADY_REIMBURSED")

LineRules(s) ==
  LET c == s.charge
      cap == c.amount - s.pre.reimbursed
      repeated == s.pre.duplicate /\ cap > 0
  IN  << When(s.pre.filing = "not_open", "R_FILING_WINDOW_NOT_OPEN", "REVIEW",
              "FILING_WINDOW_NOT_OPEN"),
         When(IsFeeRefundLine(c), "R_FEE_REFUND_LINE", "DO_NOT_CLAIM", NoCode),
         When(IsFee(c) /\ c.amount = 0, "R_ZERO_FEE", "DO_NOT_CLAIM", NoCode),
         When(s.pre.ambiguous # {}, "R_REIMBURSEMENT_AMBIGUOUS", "REVIEW", NoCode),
         WindowPassed(repeated /\ s.pre.filing = "passed"),
         When(repeated, "R_DUPLICATE", "CLAIM", "DUPLICATE_CHARGE"),
         AlreadyReimbursed(s),
         When(~s.resolved, "R_UNRESOLVED_UNIT", "REVIEW", "UNRESOLVED_UNIT"),
         When(s.inScope # {} /\ s.usable = {}, "R_EVIDENCE_OUTSIDE_WINDOW", "REVIEW",
              "EVIDENCE_OUTSIDE_WINDOW"),
         When(s.a.noRelevant, "R_NO_RELEVANT_EVIDENCE", "REVIEW", "NO_RELEVANT_EVIDENCE") >>

Conflict(s) == When(s.a.status = "CONFLICTING", "R_CONFLICTING", "REVIEW", NoCode)

Insufficient(s) == When(s.a.status = "INSUFFICIENT", "R_INSUFFICIENT", "REVIEW", NoCode)

(* Slip: the deadline is checked for duplicates only. *)
ContradictedWhenever(s) == << When(TRUE, "R_CONTRADICTED_FULL", "CLAIM", NoCode) >>

ContradictedRules(s) ==
  << WindowPassed(s.pre.filing = "passed"),
     When(TRUE, "R_CONTRADICTED_FULL", "CLAIM", NoCode) >>

FeeRules(s) ==
  << Conflict(s),
     When(s.a.status = "SUPPORTED", "R_SUPPORTED", "DO_NOT_CLAIM", NoCode),
     Insufficient(s),
     When(AmountVerdict(s.charge) = "FAIL", "R_AMOUNT_NOT_COMPUTABLE", "REVIEW", NoCode),
     When(s.a.coverage # "whole", "R_PARTIAL_COVERAGE", "REVIEW", NoCode),
     When(s.charge.type = "inbound_defect_fee" /\ s.charge.category = NoRef,
          "R_DEFECT_CATEGORY_MISSING", "REVIEW", NoCode) >>
    \o ContradictedRules(s)

(* The row of the outcome; with no such row the engine raises. *)
LossRow(s) ==
  LET rows == LossOutcomes[s.charge.type]
  IN  IF s.a.outcome \in DOMAIN rows /\ rows[s.a.outcome].status = s.a.status
      THEN LET row == rows[s.a.outcome]
           IN  When(TRUE, row.rule, IF row.amountNeeded THEN "REVIEW" ELSE row.decision, NoCode)
      ELSE When(TRUE, "raises", "none", NoCode)

LossRules(s) ==
  << WindowPassed(s.pre.filing = "passed"), Conflict(s), Insufficient(s), LossRow(s) >>

Rules(s) == LineRules(s) \o (IF IsFee(s.charge) THEN FeeRules(s) ELSE LossRules(s))

Fire(s) ==
  LET rules == Rules(s)
  IN  rules[CHOOSE i \in DOMAIN rules :
              rules[i].applies /\ \A j \in 1..(i - 1) : ~rules[j].applies]

-----------------------------------------------------------------------------
(* The claim and the decision record. *)

(* compute_full_amount_claim, 0 standing for no claim; cents are not split. *)
FullAmountClaim(c, coverage, reimbursed) ==
  LET gross == CASE coverage = "whole" -> c.amount
                 [] coverage = "part" -> c.amount \div c.quantity
                 [] coverage = "none" -> 0
      cap == IF c.amount > reimbursed THEN c.amount - reimbursed ELSE 0
      least == Smaller(gross, cap)
  IN  IF least > 0 THEN least ELSE 0

EvidenceCitation(f) ==
  [kind |-> "evidence", agent |-> f.record.agent, id |-> f.record.id,
   hash |-> f.record.seal, role |-> f.polarity, keys |-> f.keys]

ChargeCitation(c, role) == [kind |-> "charge", id |-> c.line, hash |-> c, role |-> role]

(* Slip: the refunds that were allocated are not cited. *)
CitationsOfAmbiguous(s, canonical) ==
  {ChargeCitation(d, "canonical_charge") : d \in canonical}
    \cup {ChargeCitation(r, "reimbursement") : r \in s.pre.ambiguous}
    \cup {EvidenceCitation(f) : f \in s.a.findings}

Citations(s, canonical) ==
  {ChargeCitation(d, "canonical_charge") : d \in canonical}
    \cup {ChargeCitation(r, "reimbursement") : r \in s.pre.refunds \cup s.pre.ambiguous}
    \cup {EvidenceCitation(f) : f \in s.a.findings}

(* decide; canonical is the line a duplicate repeats, if it is one. *)
Decide(c, pre, canonical, records) ==
  LET s == Situation(c, pre, records)
      fired == Fire(s)
      asked == fired.decision = "CLAIM"
      coverage == IF fired.rule = "R_DUPLICATE" THEN "whole" ELSE s.a.coverage
      claim == IF asked THEN FullAmountClaim(c, coverage, pre.reimbursed) ELSE 0
      empty == asked /\ claim = 0
  IN  [charge |-> c,
       decision |-> IF empty THEN "REVIEW" ELSE fired.decision,
       status |-> "final",
       code |-> fired.code,
       rule |-> IF empty THEN "R_AMOUNT_NOT_COMPUTABLE" ELSE fired.rule,
       evidence |-> s.a.status,
       checks |-> Checks(s),
       coverage |-> s.a.coverage,
       charged |-> c.amount,
       reimbursed |-> pre.reimbursed,
       claim |-> claim,
       citations |-> Citations(s, canonical)]

Raises(d) == d.rule = "raises"

-----------------------------------------------------------------------------
(* validate and enforce, over the rows as they are when it re-reads them. *)

(* The row stored under the cited pod and id, as a set of at most one. *)
CitedRow(cite, rows) == {w \in rows : w.body.agent = cite.agent /\ w.body.id = cite.id}

(* Slip: the body is not hashed again. *)
HashColumnsAgree(cite, c, rows) ==
  \E w \in CitedRow(cite, rows) :
    /\ w.column = cite.hash /\ w.body.seal = cite.hash
    /\ cite.keys \subseteq DOMAIN w.body.checks
    /\ cite.role \in {"contradicts", "supports"} => InScope(c, w.body) /\ InCustody(c, w.body)

EvidenceCitationHolds(cite, c, rows) ==
  \E w \in CitedRow(cite, rows) :
    /\ w.column = cite.hash /\ w.body.seal = cite.hash
    /\ HashVerifies(w.body)
    /\ cite.keys \subseteq DOMAIN w.body.checks
    /\ cite.role \in {"contradicts", "supports"} => InScope(c, w.body) /\ InCustody(c, w.body)

ChargeCitationHolds(cite, charges) ==
  \E d \in charges : d.line = cite.id /\ d = cite.hash

CitedRefunds(d, charges) ==
  {r \in charges : \E cite \in d.citations :
                     cite.kind = "charge" /\ cite.role = "reimbursement" /\ cite.hash = r}

(* claim = 0 stands for no claim amount. *)
ClaimIsSound(d, human) ==
  IF d.decision = "CLAIM"
  THEN /\ d.claim > 0 /\ d.claim <= Remaining(d)
       /\ human \/ \E cite \in d.citations : cite.role \in {"contradicts", "canonical_charge"}
       /\ IsFee(d.charge)
  ELSE d.claim = 0

Valid(d, charges, rows, human) ==
  /\ d.charge \in charges
  /\ \A cite \in d.citations :
       IF cite.kind = "evidence" THEN EvidenceCitationHolds(cite, d.charge, rows)
                                 ELSE ChargeCitationHolds(cite, charges)
  /\ d.reimbursed <= MapThenSumSet(LAMBDA r : r.amount, CitedRefunds(d, charges))
  /\ ClaimIsSound(d, human)

(* The fail-closed form keeps the reason code, checks and citations. *)
Enforce(d, valid) ==
  IF valid THEN d
  ELSE [d EXCEPT !.decision = "REVIEW", !.status = "pending",
                 !.rule = "R_CITATION_INVALID", !.claim = 0]

CheckKeys == {"unit_resolved", "not_duplicate", "not_already_reimbursed",
              "within_filing_window", "evidence_present", "evidence_in_custody_window",
              "evidence_contradicts_charge", "amount_computable"}

(* fail_open_decision: nothing was evaluated. *)
FailOpen(c, code) ==
  [charge |-> c, decision |-> "REVIEW", status |-> "pending", code |-> code,
   rule |-> "R_ENGINE_ERROR", evidence |-> "INSUFFICIENT",
   checks |-> [k \in CheckKeys |-> "UNCERTAIN"], coverage |-> "none",
   charged |-> c.amount, reimbursed |-> 0, claim |-> 0, citations |-> {}]

(* What the review reads of a decision. *)
ReviewView(d) ==
  [charge |-> d.charge, decision |-> d.decision, status |-> d.status,
   computable |-> d.checks.amount_computable, window |-> d.checks.within_filing_window,
   settled |-> d.checks.not_already_reimbursed, partial |-> d.coverage = "part",
   charged |-> d.charged, reimbursed |-> d.reimbursed, claim |-> d.claim]
=============================================================================
