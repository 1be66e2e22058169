------------------------------ MODULE MCIngest ------------------------------
(* Instances of Ingest: what a seller may send, with two pods. *)
EXTENDS Ingest

MCPods == <<"prep", "returns">>
MCEnumMap ==
  [prep |-> [polybag |-> [yes |-> "PASS", missing |-> "FAIL", not_required |-> "OMIT"]],
   returns |-> [identity |-> [yes |-> "PASS", no |-> "FAIL"]]]

Fee(org, id, amount) ==
  [org |-> org, id |-> id, readable |-> TRUE, amount |-> amount, cells |-> "whole"]

Prep(org, id, mark, photos) ==
  [org |-> org, id |-> id, zoned |-> TRUE, marks |-> [polybag |-> mark], derived |-> << >>,
   outcome |-> Blank, photos |-> photos, cells |-> "whole"]

Return(org, id, outcome, parts) ==
  [org |-> org, id |-> id, zoned |-> TRUE, marks |-> [identity |-> "yes"],
   derived |-> [parts_complete |-> parts],
   outcome |-> outcome, photos |-> << >>, cells |-> "whole"]

Send(report, prep, returns) ==
  [report |-> report, upstream |-> [prep |-> prep, returns |-> returns]]

First == Send(<<Fee("us", 1, 5), Fee("us", 2, 7)>>, <<Prep("us", 1, "yes", <<"p1">>)>>, << >>)

(* First, Corrected and Third in a circle: each holds a line the next one wants.
   Corrected also changes a record, and the second line, of First. *)
Corrected ==
  Send(<<Fee("us", 2, 6), Fee("us", 3, 6)>>,
       <<Prep("us", 1, "missing", <<"p2">>)>>, << >>)

Third == Send(<<Fee("us", 3, 1), Fee("us", 1, 5)>>, << >>, <<Return("us", 4, "pending_review", "agree")>>)

(* Rows of another organisation, one of them with an id of ours, rows that name no
   organisation or no id, and every kind of bad or repeated row. *)
Mixed ==
  Send(<<Fee("us", 1, 5), Fee("us", 1, 4), Fee("them", 1, 3),
         [Fee("us", 2, 7) EXCEPT !.readable = FALSE], Fee(Blank, 3, 1), Fee("us", Blank, 2),
         [Fee("us", 4, 1) EXCEPT !.cells = "extra"],
         [Fee("them", 4, 1) EXCEPT !.cells = "fewOptional"]>>,
       <<Prep("us", 1, "yes", <<"p1", "p3">>), Prep("them", 1, "missing", <<"p1">>),
         Prep("us", 1, "missing", <<"p2">>), Prep("us", Blank, "yes", << >>),
         Prep("us", 3, "banana", << >>), Prep("us", 3, "not_required", << >>), Prep("them", 2, "banana", << >>)>>,
       <<Return("us", 2, Blank, "agree"), Return("us", 3, "liquidate", "unreadable"),
         Return("us", 4, "liquidate", "differ"),
         [Return("us", 5, "liquidate", "agree") EXCEPT !.zoned = FALSE]>>)

(* Files that fail as a whole: a record with too many cells, a line with too few. *)
Long == Send(<<Fee("us", 1, 5)>>, <<[Prep("us", 1, "yes", << >>) EXCEPT !.cells = "extra"]>>, << >>)
Short == Send(<<[Fee("us", 2, 5) EXCEPT !.cells = "few"]>>, << >>,
              <<[Return("us", 1, "liquidate", "agree") EXCEPT !.cells = "few"]>>)

MCFiles == {First, Corrected, Third, Mixed, Long, Short}
=============================================================================
