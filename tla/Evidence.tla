------------------------------ MODULE Evidence ------------------------------
(***************************************************************************)
(* What the upstream records say about one charge line:                    *)
(*   backend/app/resolution  which records carry the unit,                 *)
(*   backend/app/retrieval   which of them are in scope and in custody,    *)
(*   backend/app/engine/assess  what the usable ones say.                  *)
(*                                                                         *)
(* An upstream record is                                                   *)
(*   [agent, id, status, unit, sku, shipment, order, captured, checks]     *)
(* where checks maps the keys the operator recorded to PASS, FAIL or       *)
(* UNCERTAIN.  Texts (details, notes) are left out.                        *)
(***************************************************************************)
EXTENDS Precheck

CONSTANTS
  Pods,              \* charge type -> pod -> [before, after, keys] (custody window, match keys)
  ScopeChecks,       \* prep checks in scope when an inbound defect fee names no category
  RequiredChecks,    \* checks that could speak to a weight-tier fee
  DefectCategories   \* defect category -> the checks that can refute it

(* check_windows_consistent: a pod that looks for records after the posted date looks
   for them at least until the sourced filing window closes. *)
WindowsConsistent ==
  \A t \in DOMAIN Pods : \A pod \in DOMAIN Pods[t] :
    LET close == Filing[t].close
        after == Pods[t][pod].after
    IN  NoDays \in {close, after} \/ after >= close

(* run_org and post_agent refuse a configuration of which it does not hold; the bounds
   of config/engine.yaml are counts of days. *)
ASSUME PodsAssumption ==
  /\ WindowsConsistent
  /\ DOMAIN Pods \subseteq DOMAIN Filing
  /\ \A t \in DOMAIN Pods : \A pod \in DOMAIN Pods[t] :
       /\ Pods[t][pod].before \in Nat \cup {NoDays}
       /\ Pods[t][pod].after \in Nat \cup {NoDays}

ChargeTypes ==
  {"inbound_defect_fee", "fulfilment_fee_weight_tier",
   "lost_inbound", "damaged_in_warehouse", "refund_issued_item_not_returned"}

-----------------------------------------------------------------------------
(* resolve_unit: the unit resolves when some record carries it and none of
   those records names another sku. *)

UnitRecords(c, records) == {r \in records : r.unit = c.unit}

Resolved(c, records) ==
  /\ UnitRecords(c, records) # {}
  /\ \A r \in UnitRecords(c, records) : r.sku = c.sku \/ NoRef \in {r.sku, c.sku}

-----------------------------------------------------------------------------
(* retrieve: every record of a relevant pod is a candidate, placed in or out
   of scope and in or out of its custody window [posted - before, end). *)

Relevant(c, r) == r.agent \in DOMAIN Pods[c.type]

InScope(c, r) ==
  /\ Relevant(c, r)
  /\ \A key \in Pods[c.type][r.agent].keys : c[key] # NoRef /\ r[key] = c[key]

(* A pod with before = NoDays starts on the posted date; one with after =
   NoDays ends just before it. *)
InCustody(c, r) ==
  /\ Relevant(c, r)
  /\ LET rel == Pods[c.type][r.agent]
         start == IF rel.before = NoDays THEN c.posted ELSE c.posted - rel.before
         end == IF rel.after = NoDays THEN c.posted ELSE c.posted + rel.after + 1
     IN  start <= r.captured /\ r.captured < end

Usable(c, records) ==
  {r \in UnitRecords(c, records) : InScope(c, r) /\ InCustody(c, r)}

-----------------------------------------------------------------------------
(* Assessments. *)

(* Slip: a record that is not final is read like one that is. *)
NeverNotFinal(r) == FALSE

NotFinal(r) == r.status # "final"

Recorded(r, keys) == DOMAIN r.checks \cap keys

Says(r, k, verdict) == k \in DOMAIN r.checks /\ r.checks[k] = verdict

Finding(r, keys, polarity) == [record |-> r, keys |-> keys, polarity |-> polarity]

(* noRelevant: nothing usable speaks to the charge.  outcome: the row of
   loss_event_outcomes the evidence maps to.  coverage: the share of the charged
   units the evidence covers, kept as none, part or whole. *)
Assessment(status, findings, noRelevant, coverage, outcome) ==
  [status |-> status, findings |-> findings, noRelevant |-> noRelevant,
   coverage |-> coverage, outcome |-> outcome]

NoRow == "none"

Unsettled(findings) == Assessment("INSUFFICIENT", findings, FALSE, "none", NoRow)

NothingRelevant == Assessment("INSUFFICIENT", {}, TRUE, "none", NoRow)

Conflicting(findings) == Assessment("CONFLICTING", findings, FALSE, "none", NoRow)

Settled(status, findings, coverage, outcome) ==
  Assessment(status, findings, FALSE, coverage, outcome)

(* unit_coverage: one unit-level record covers one of the quantity charged. *)
UnitCoverage(c) == IF c.quantity = 1 THEN "whole" ELSE "part"

Polarities(findings) == {f.polarity : f \in findings}

DefectKeys(c) == IF c.category = NoRef THEN ScopeChecks ELSE DefectCategories[c.category]

(* The verdict a record contributes on one of its checks. *)
Weight(r, k) == IF NotFinal(r) THEN "UNCERTAIN" ELSE r.checks[k]

DefectFinding(r, keys) ==
  LET v == {r.checks[k] : k \in Recorded(r, keys)}
  IN  Finding(r, Recorded(r, keys),
              IF NotFinal(r) \/ "UNCERTAIN" \in v THEN "uncertain"
              ELSE IF "FAIL" \in v THEN "supports" ELSE "contradicts")

AssessInboundDefect(c, usable) ==
  LET known == c.category = NoRef \/ c.category \in DOMAIN DefectCategories
      keys == IF known THEN DefectKeys(c) ELSE {}
      speaking == {r \in usable : Recorded(r, keys) # {}}
      findings == {DefectFinding(r, keys) : r \in speaking}
      said == [k \in keys |-> {Weight(r, k) : r \in {s \in speaking : k \in DOMAIN s.checks}}]
      missing == IF c.category = NoRef THEN {} ELSE {k \in keys : said[k] = {}}
  IN  IF ~known THEN Unsettled({})
      ELSE IF findings = {} THEN NothingRelevant
      ELSE IF \E k \in keys : {"PASS", "FAIL"} \subseteq said[k] THEN Conflicting(findings)
      ELSE IF \E k \in keys : "FAIL" \in said[k]
           THEN Settled("SUPPORTED", {f \in findings : f.polarity = "supports"}, "none", NoRow)
      ELSE IF missing # {} \/ \E k \in keys : "UNCERTAIN" \in said[k] THEN Unsettled(findings)
      ELSE Settled("CONTRADICTED", findings, UnitCoverage(c), NoRow)

(* No fee schedule is sourced, so measurements settle nothing. *)
AssessWeightTier(c, usable) ==
  LET findings == {Finding(r, Recorded(r, RequiredChecks), "uncertain") :
                     r \in {s \in usable : Recorded(s, RequiredChecks) # {}}}
  IN  IF findings = {} THEN NothingRelevant ELSE Unsettled(findings)

(* A final return that passes the identity check shows the unit after the loss. *)
LostInboundFinding(r) ==
  IF r.agent = "prep" THEN Finding(r, {}, IF NotFinal(r) THEN "uncertain" ELSE "supports")
  ELSE Finding(r, Recorded(r, {"identity_match"}),
               IF ~NotFinal(r) /\ Says(r, "identity_match", "PASS")
               THEN "contradicts" ELSE "uncertain")

AssessLostInbound(c, usable) ==
  LET findings == {LostInboundFinding(r) : r \in {s \in usable : s.agent \in {"prep", "returns"}}}
      polarities == Polarities(findings)
  IN  IF findings = {} THEN NothingRelevant
      ELSE IF "contradicts" \in polarities
           THEN Settled("CONTRADICTED", findings, "whole", "later_sighting")
      ELSE IF "uncertain" \in polarities THEN Unsettled(findings)
      ELSE Settled("SUPPORTED", findings, "none", "shipped_no_later_sighting")

(* _combine: one polarity across all findings settles the line. *)
Combine(findings, contradicts, supports) ==
  LET polarities == Polarities(findings)
  IN  IF findings = {} THEN NothingRelevant
      ELSE IF {"contradicts", "supports"} \subseteq polarities THEN Conflicting(findings)
      ELSE IF polarities = {"contradicts"}
           THEN Settled("CONTRADICTED", findings, "whole", contradicts)
      ELSE IF polarities = {"supports"} THEN Settled("SUPPORTED", findings, "none", supports)
      ELSE Unsettled(findings)

(* A final prep record with every check passed shows the unit left prep sound. *)
DamagedFinding(r) ==
  LET open == {k \in DOMAIN r.checks : r.checks[k] # "PASS"}
  IN  IF ~NotFinal(r) /\ DOMAIN r.checks # {} /\ open = {}
      THEN Finding(r, DOMAIN r.checks, "supports")
      ELSE Finding(r, open, "uncertain")

(* Slip: the label is renamed here and not in the table of outcomes. *)
AssessDamagedRenamed(c, usable) ==
  Combine({DamagedFinding(r) : r \in usable}, NoRow, "left_prep_sound")

AssessDamaged(c, usable) ==
  Combine({DamagedFinding(r) : r \in usable}, NoRow, "left_prep_undamaged")

Whole(r) == Says(r, "parts_complete", "PASS") /\ Says(r, "returned_item_condition", "PASS")

ReturnFinding(r) ==
  IF NotFinal(r) \/ ~(Says(r, "identity_match", "PASS") \/ Says(r, "identity_match", "FAIL"))
  THEN Finding(r, DOMAIN r.checks, "uncertain")
  ELSE IF Says(r, "identity_match", "FAIL")
  THEN Finding(r, {"identity_match"}, "supports")
  ELSE Finding(r, DOMAIN r.checks, "contradicts")

AssessRefundNotReturned(c, usable) ==
  LET findings == {ReturnFinding(r) : r \in usable}
      back == {f.record : f \in {x \in findings : x.polarity = "contradicts"}}
  IN  Combine(findings,
              IF \A r \in back : Whole(r) THEN "returned_complete"
                                         ELSE "returned_incomplete_or_damaged",
              "wrong_item_returned")

Assess(c, usable) ==
  CASE c.type = "inbound_defect_fee" -> AssessInboundDefect(c, usable)
    [] c.type = "fulfilment_fee_weight_tier" -> AssessWeightTier(c, usable)
    [] c.type = "lost_inbound" -> AssessLostInbound(c, usable)
    [] c.type = "damaged_in_warehouse" -> AssessDamaged(c, usable)
    [] c.type = "refund_issued_item_not_returned" -> AssessRefundNotReturned(c, usable)
=============================================================================
