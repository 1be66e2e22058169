----------------------------- MODULE CsvAdapter -----------------------------
(***************************************************************************)
(* The CSV adapter of backend/app/adapters/csv_v0.py: what it makes of the *)
(* rows of a fee report and of the four pods' files.                       *)
(*                                                                         *)
(* A row of a pod's file is                                                *)
(*   [org, id, zoned, marks, derived, outcome, photos, cells]              *)
(* where marks maps the columns of enum_checks to raw values, derived maps *)
(* the derived checks to what comparing their columns gives (agree, differ *)
(* or unreadable), and cells says whether the row has the header's number  *)
(* of cells: whole, extra, or few.  captured_at is the last column of      *)
(* every pod, so a row with few cells has none.                            *)
(*                                                                         *)
(* A row of a fee report is [org, id, readable, amount, cells]; its few    *)
(* are cells without posted_date, its fewOptional without the category.    *)
(***************************************************************************)
EXTENDS Naturals, Sequences, FiniteSets

CONSTANTS
  Pods,           \* the pods, in the order of PODS
  EnumMap,        \* pod -> column -> raw value -> verdict or "OMIT"
  OutcomePods,    \* the pods whose files have an outcome column
  Blank           \* an empty cell

-----------------------------------------------------------------------------
(* One row. *)

Mapped(pod, row) == \A c \in DOMAIN row.marks : row.marks[c] \in DOMAIN EnumMap[pod][c]

(* _build_record raises what load_upstream catches: the row is quarantined. *)
RecordRejected(pod, row) ==
  \/ Blank \in {row.org, row.id}
  \/ /\ row.cells # "few"
     /\ \/ ~row.zoned
        \/ ~Mapped(pod, row)
        \/ \E d \in DOMAIN row.derived : row.derived[d] = "unreadable"
        \/ pod \in OutcomePods /\ row.outcome = Blank

(* A cell that is not there is None, and None.strip() raises AttributeError. *)
RecordBreaks(row) == row.cells = "few" /\ Blank \notin {row.org, row.id}

EnumChecks(pod, row) ==
  [c \in {x \in DOMAIN row.marks : EnumMap[pod][x][row.marks[x]] # "OMIT"} |->
     EnumMap[pod][c][row.marks[c]]]

DerivedChecks(row) ==
  [d \in DOMAIN row.derived |-> IF row.derived[d] = "agree" THEN "PASS" ELSE "FAIL"]

BuildRecord(pod, row) ==
  [org |-> row.org, id |-> row.id, checks |-> EnumChecks(pod, row),
   derived |-> DerivedChecks(row), images |-> row.photos,
   outcome |-> IF pod \in OutcomePods THEN row.outcome ELSE Blank,
   status |-> IF pod \in OutcomePods /\ row.outcome = "pending_review" THEN "pending" ELSE "final"]

(* Charge(...): the raw row is checked with the rest, cell by cell. *)
ChargeRejected(row) ==
  \/ ~row.readable
  \/ row.cells \in {"extra", "fewOptional"}

ChargeBreaks(row) == row.readable /\ row.cells = "few"

BuildCharge(row) == [org |-> row.org, id |-> row.id, amount |-> row.amount]

-----------------------------------------------------------------------------
(* A file: its rows in order, up to the first that fails the whole load. *)

Repeats(rows, n, built) ==
  \E m \in 1..(n - 1) : m \in built /\ rows[m].org = rows[n].org /\ rows[m].id = rows[n].id

BuiltRecords(pod, rows) ==
  {n \in DOMAIN rows : ~RecordRejected(pod, rows[n]) /\ ~RecordBreaks(rows[n])}

Records(pod, rows) ==
  {n \in BuiltRecords(pod, rows) : ~Repeats(rows, n, BuiltRecords(pod, rows))}

BuiltCharges(rows) == {n \in DOMAIN rows : ~ChargeRejected(rows[n]) /\ ~ChargeBreaks(rows[n])}

Charges(rows) == {n \in BuiltCharges(rows) : ~Repeats(rows, n, BuiltCharges(rows))}

(* Slip: a repeated id is neither loaded nor kept aside. *)
BadRecordsDroppingRepeats(pod, rows) == {n \in DOMAIN rows : RecordRejected(pod, rows[n])}

BadRecords(pod, rows) == DOMAIN rows \ Records(pod, rows)

BadCharges(rows) == DOMAIN rows \ Charges(rows)

(* The raw row of a record is wrapped outside of the try: one with more cells
   than the header fails the load, as does whatever the try does not name. *)
UpstreamFails(pod, rows) ==
  \/ \E n \in DOMAIN rows : RecordBreaks(rows[n])
  \/ \E n \in Records(pod, rows) : rows[n].cells = "extra"

ReportFails(rows) == \E n \in DOMAIN rows : ChargeBreaks(rows[n])

(* sources is keyed by pod and record id: the last row loaded under an id is the
   source of every record of that id. *)
SourceOf(pod, rows, n) ==
  rows[CHOOSE m \in Records(pod, rows) :
         /\ rows[m].id = rows[n].id
         /\ \A k \in Records(pod, rows) : rows[k].id = rows[n].id => k <= m]
=============================================================================
