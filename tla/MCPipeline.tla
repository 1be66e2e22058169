----------------------------- MODULE MCPipeline -----------------------------
(* Instances of Pipeline over config/engine.yaml with its day counts scaled
   down: one unit, one line of each kind, and what surrounds it in the store. *)
EXTENDS Pipeline

MCFeeTypes == {"inbound_defect_fee", "fulfilment_fee_weight_tier"}

MCClaimBasis ==
  [inbound_defect_fee |-> "full_amount", fulfilment_fee_weight_tier |-> "fee_difference",
   lost_inbound |-> "unit_value", damaged_in_warehouse |-> "unit_value",
   refund_issued_item_not_returned |-> "unit_value"]

Sourced(open, close) == [open |-> open, close |-> close]

(* The sourced windows, and one on the defect fee so that its rules are reached. *)
MCFiling ==
  [inbound_defect_fee |-> Sourced(NoDays, 2),
   fulfilment_fee_weight_tier |-> Sourced(NoDays, NoDays),
   lost_inbound |-> Sourced(NoDays, NoDays), damaged_in_warehouse |-> Sourced(NoDays, 2),
   refund_issued_item_not_returned |-> Sourced(1, 2)]

Pod(before, after, keys) == [before |-> before, after |-> after, keys |-> keys]

PrepPod == Pod(3, NoDays, {"shipment"})

MCPods ==
  [inbound_defect_fee |-> [prep |-> PrepPod],
   fulfilment_fee_weight_tier |-> [prep |-> PrepPod],
   lost_inbound |-> [prep |-> PrepPod, returns |-> Pod(NoDays, 3, {})],
   damaged_in_warehouse |-> [prep |-> PrepPod],
   refund_issued_item_not_returned |-> [returns |-> Pod(1, 2, {"order"})]]

MCScopeChecks == {"label", "bag"}
MCRequiredChecks == {"weight"}
MCDefectCategories == [label |-> {"label", "barcode"}, polybag |-> {"bag"}]

Row(status, decision, rule, amountNeeded) ==
  [status |-> status, decision |-> decision, rule |-> rule, amountNeeded |-> amountNeeded]

Owed == Row("SUPPORTED", "REVIEW", "R_AMOUNT_NOT_COMPUTABLE", TRUE)

MCLossOutcomes ==
  [refund_issued_item_not_returned |->
     [returned_complete |-> Row("CONTRADICTED", "DO_NOT_CLAIM", "R_ITEM_RETURNED", FALSE),
      returned_incomplete_or_damaged |->
        Row("CONTRADICTED", "REVIEW", "R_RETURNED_INCOMPLETE_OR_DAMAGED", FALSE),
      wrong_item_returned |-> Owed],
   lost_inbound |->
     [shipped_no_later_sighting |-> Owed,
      later_sighting |-> Row("CONTRADICTED", "REVIEW", "R_LOSS_DOUBTFUL", FALSE)],
   damaged_in_warehouse |-> [left_prep_undamaged |-> Owed]]

-----------------------------------------------------------------------------
Line(l, report, type, order, category, quantity, amount, posted) ==
  [line |-> l, report |-> report, type |-> type, unit |-> "u1", sku |-> "s1",
   quantity |-> quantity, currency |-> "USD", shipment |-> "f1", order |-> order,
   category |-> category, amount |-> amount, posted |-> posted]

Fee(category, quantity, amount) ==
  Line(2, "fee_report", "inbound_defect_fee", "o1", category, quantity, amount, 1)

Other(type, amount) == Line(2, "fee_report", type, "o1", NoRef, 1, amount, 1)

Refund(l, order, amount) ==
  Line(l, "reimbursement_report", "inbound_defect_fee", order, NoRef, 1, amount, 1)

Target == Fee("polybag", 1, 3)

Targets ==
  {Fee(k, 1, 3) : k \in {NoRef, "label", "other"}} \cup {Target, Fee("polybag", 2, 3)}
    \cup {Fee("polybag", 1, a) : a \in {-2, 0}}
    \cup {Other(t, 3) : t \in DOMAIN MCFiling \ {"inbound_defect_fee"}}

(* What else is stored: a fee line repeated, refunds that pay it in part or in
   full, and refunds that may belong to another fee. *)
AnotherFee == Line(4, "fee_report", "inbound_defect_fee", "o2", NoRef, 1, 2, 1)

Contexts ==
  {{[Target EXCEPT !.line = 1]},
   {[Target EXCEPT !.line = 1], Refund(3, "o1", 1)},
   {Refund(3, "o1", 3)}, {Refund(3, "o1", 1)},
   {AnotherFee, Refund(3, NoRef, 1)},
   {AnotherFee, Refund(3, NoRef, -1), Refund(5, "o1", 1)}}

Record(agent, id, status, sku, shipment, captured, checks) ==
  [agent |-> agent, id |-> id, status |-> status, unit |-> "u1", sku |-> sku,
   shipment |-> shipment, order |-> "o1", captured |-> captured, checks |-> checks]

Prep(id, checks) == Record("prep", id, "final", "s1", "f1", 0, checks)

Return(id, checks) == Record("returns", id, "final", "s1", NoRef, 1, checks)

Intact(r) == [body |-> Sealed(r), column |-> r]

Bag(v) == [bag |-> v]
Label(v, w) == [label |-> v, barcode |-> w]
Came(v) == [identity_match |-> v]
Back(v) == [identity_match |-> "PASS", parts_complete |-> v, returned_item_condition |-> "PASS"]

RecordSets ==
  {{}} \cup {{Prep("p1", k)} : k \in {Bag("PASS"), Bag("FAIL"), Bag("UNCERTAIN"),
                                      Label("PASS", "PASS"), Label("FAIL", "UNCERTAIN"),
                                      [label |-> "PASS"], [weight |-> "PASS"], <<>>}}
    \cup {{Prep("p1", Bag("PASS")), Prep("p2", Bag(v))} : v \in {"PASS", "FAIL"}}
    \cup {{[Prep("p1", Bag("PASS")) EXCEPT !.status = "pending"]},
          {[Prep("p1", Bag("PASS")) EXCEPT !.captured = 1]},
          {[Prep("p1", Bag("PASS")) EXCEPT !.sku = "s2"]},
          {[Prep("p1", Bag("PASS")) EXCEPT !.shipment = "f2"]}}
    \cup {{Return("r1", k)} : k \in {Came("FAIL"), Came("UNCERTAIN"), Back("PASS"), Back("FAIL")}}
    \cup {{Prep("p1", Bag("PASS")), Return("r1", Back("PASS"))},
          {Return("r1", Back("PASS")), Return("r2", Came("FAIL"))}}

StoreOf(S, records, on) ==
  [charges |-> S, rows |-> {Intact(r) : r \in records}, asOf |-> on]

MCStores ==
  {StoreOf({c}, e, d) : c \in Targets, e \in RecordSets, d \in {1, 2, 4}}
    \cup {StoreOf({Target} \cup S, e, d) :
            S \in Contexts, e \in {{}, {Prep("p1", Bag("PASS"))}}, d \in {1, 4}}

MCLateCharges(day) == {c \in {Refund(6, "o1", 2)} : c.posted <= day}
MCLateRows(day) == {w \in {Intact(Prep("p9", Bag("FAIL")))} : w.body.captured <= day}
MCEditedChecks == {Bag("PASS")}
=============================================================================
