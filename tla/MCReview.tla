------------------------------ MODULE MCReview ------------------------------
(* Instances of Review: the fee of 3 under review, another fee of its unit, and
   refunds that an upload may add: one for this fee and one that leaves open
   which of the two fees it pays back.  An upload may also carry line 1 again,
   with another amount. *)
EXTENDS Review, TLC

Line(l, report, order, amount) ==
  [line |-> l, report |-> report, type |-> "inbound_defect_fee", unit |-> "u1", sku |-> "s1",
   quantity |-> 1, currency |-> "USD", shipment |-> NoRef, order |-> order,
   category |-> NoRef, amount |-> amount, posted |-> 0]

MCFeeTypes == {"inbound_defect_fee"}
MCFiling == [inbound_defect_fee |-> [open |-> NoDays, close |-> 1]]
MCClaimBasis == [inbound_defect_fee |-> "full_amount"]

MCFee == {Line(1, "fee_report", "o1", 3)}
MCFirst == {Line(1, "fee_report", "o1", 3), Line(2, "fee_report", "o2", 3)}
MCRefund == Line(3, "reimbursement_report", "o1", 1)
MCArrivals == MCFirst \cup {MCRefund, Line(1, "fee_report", "o1", 2),
                          Line(4, "reimbursement_report", NoRef, 1)}
MCOneRefund == MCFee \cup {MCRefund}

Symmetry == Permutations(Requests)
=============================================================================
