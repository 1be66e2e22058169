--------------------------- MODULE MCChargeStore ---------------------------
(* Instances of ChargeStore: one unit, fees of 3 and 2, refunds of 1, 4 and -1. *)
EXTENDS ChargeStore

Line(l, report, type, order, amount, posted) ==
  [line |-> l, report |-> report, type |-> type, unit |-> "u1", sku |-> "s1",
   quantity |-> 1, currency |-> "USD", shipment |-> NoRef, order |-> order,
   category |-> NoRef, amount |-> amount, posted |-> posted]

MCFeeTypes == {"fee"}

MCFiling == [fee |-> [open |-> NoDays, close |-> NoDays],
             loss |-> [open |-> 1, close |-> 2]]

(* Lines 1-3 are fees, 4 and 5 refunds, 6 a loss event.  A line carries its
   order or not: a refund without one may belong to any fee of the unit. *)
MCArrivals ==
  {Line(l, "fee_report", "fee", o, 3, p) : l \in 1..3, o \in {NoRef, "o1"}, p \in {0, 1, 3}}
    \cup {Line(3, "fee_report", "fee", NoRef, 2, 1)}
    \cup {Line(4, "reimbursement_report", "fee", o, a, 1) : o \in {NoRef, "o1"}, a \in {-1, 2, 4}}
    \cup {Line(5, "reimbursement_report", "fee", o, a, 3) : o \in {NoRef, "o2"}, a \in {1, 4}}
    \cup {Line(6, "inventory_adjustment", "loss", NoRef, 3, 1)}
=============================================================================
