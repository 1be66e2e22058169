----------------------------- MODULE ClaimRules -----------------------------
(***************************************************************************)
(* What the engine and the human review agree on about a decision record:  *)
(* the checks the engine writes into it that decide whether money can be   *)
(* asked for, and the review's reasons to refuse a CLAIM                   *)
(* (claim_refusal, claim_refusal_now in backend/app/review).               *)
(*                                                                         *)
(* The review reads of a stored decision                                   *)
(*   [charge, decision, status, computable, window, settled, partial,      *)
(*    charged, reimbursed, claim]                                          *)
(* where computable, window and settled are the verdicts of the checks     *)
(* amount_computable, within_filing_window and not_already_reimbursed,     *)
(* partial says that the evidence covers only part of the charge, and      *)
(* claim is the amount claimed, 0 when the decision is not CLAIM.          *)
(***************************************************************************)
EXTENDS Precheck

CONSTANT ClaimBasis    \* charge type -> full_amount, fee_difference or unit_value

Decisions == {"CLAIM", "DO_NOT_CLAIM", "REVIEW"}

Verdicts == {"PASS", "FAIL", "UNCERTAIN"}

-----------------------------------------------------------------------------
(* The engine's checks on the amounts. *)

ReimbursedVerdict(c, pre) ==
  IF IsFeeRefundLine(c) THEN "FAIL"
  ELSE IF pre.ambiguous # {} THEN "UNCERTAIN"
  ELSE IF pre.refunds # {} /\ c.amount > 0 /\ pre.reimbursed >= c.amount THEN "FAIL"
  ELSE "PASS"

AmountVerdict(c) == IF ClaimBasis[c.type] = "full_amount" THEN "PASS" ELSE "FAIL"

Remaining(d) == d.charged - d.reimbursed

-----------------------------------------------------------------------------
(* The records the engine may store for line c from a snapshot of the charges. *)

FinalRecord(c, pre, decision, partial) ==
  [charge |-> c, decision |-> decision, status |-> "final",
   computable |-> AmountVerdict(c), window |-> FilingVerdict(pre.filing),
   settled |-> ReimbursedVerdict(c, pre), partial |-> partial,
   charged |-> c.amount, reimbursed |-> pre.reimbursed,
   claim |-> IF decision = "CLAIM" THEN c.amount - pre.reimbursed ELSE 0]

(* fail_open_decision: nothing was evaluated. *)
FailOpenRecord(c) ==
  [charge |-> c, decision |-> "REVIEW", status |-> "pending",
   computable |-> "UNCERTAIN", window |-> "UNCERTAIN", settled |-> "UNCERTAIN",
   partial |-> FALSE, charged |-> c.amount, reimbursed |-> 0, claim |-> 0]

(* The engine asks for money only on a charged fee with something left to pay
   back, nothing ambiguous about it and a window that is not known to be shut;
   it judges nothing before the window opens. *)
MayDecide(c, pre, decision) ==
  CASE decision = "CLAIM" ->
         /\ IsChargeableFee(c) /\ pre.reimbursed < c.amount
         /\ pre.ambiguous = {} /\ pre.filing \in {"open", "unknown"}
    [] decision = "DO_NOT_CLAIM" -> pre.filing # "not_open"
    [] decision = "REVIEW" -> ~IsFeeRefundLine(c) \/ pre.filing = "not_open"

FinalRecords(c, pre) ==
  {FinalRecord(c, pre, x, v) : x \in {y \in Decisions : MayDecide(c, pre, y)}, v \in BOOLEAN}

(* enforce: a record whose citations do not hold. *)
Downgraded(f) == [f EXCEPT !.status = "pending", !.decision = "REVIEW", !.claim = 0]

EngineRecords(c, charges, asOf) ==
  LET pre == PrecheckOf(c, charges, asOf)
  IN  FinalRecords(c, pre) \cup {Downgraded(f) : f \in FinalRecords(c, pre)}
        \cup {FailOpenRecord(c)}

-----------------------------------------------------------------------------
(* claim_refusal: a reviewer may not set this record to CLAIM. *)
ClaimRefused(d) ==
  \/ d.status = "pending"
  \/ ~IsFee(d.charge)
  \/ IsFeeRefundLine(d.charge)
  \/ ClaimBasis[d.charge.type] # "full_amount" \/ d.computable # "PASS"
  \/ d.partial
  \/ d.window = "FAIL"
  \/ d.settled # "PASS"
  \/ Remaining(d) <= 0

(* Slip: what the decision itself says is not asked. *)
RefusedByStoreOnly(d, charges, today) ==
  LET pre == PrecheckOf(d.charge, charges, today)
  IN  pre.ambiguous # {} \/ pre.reimbursed # d.reimbursed \/ FilingVerdict(pre.filing) = "FAIL"

(* claim_refusal_now: or the store no longer shows what the run saw. *)
ClaimRefusedNow(d, charges, today) ==
  \/ ClaimRefused(d)
  \/ d.charge \notin charges
  \/ LET pre == PrecheckOf(d.charge, charges, today)
     IN  \/ pre.ambiguous # {}
         \/ pre.reimbursed # d.reimbursed
         \/ FilingVerdict(pre.filing) = "FAIL"
=============================================================================
