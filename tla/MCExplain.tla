----------------------------- MODULE MCExplain -----------------------------
(* Instances of Explain: a report of three lines, two of which a model is asked about. *)
EXTENDS Explain, TLC

MCOrder == <<"l1", "l2", "l3">>
MCDecisionOf ==
  [l1 |-> [decision |-> "CLAIM", status |-> "final"],
   l2 |-> [decision |-> "REVIEW", status |-> "pending"],
   l3 |-> [decision |-> "CLAIM", status |-> "final"]]
MCAmountOf == [l1 |-> 12, l2 |-> None, l3 |-> 7]
MCCurrencyOf == [l \in {"l1", "l2", "l3"} |-> "GBP"]
MCTokensOf == [l1 |-> {"L-1", "U-1"}, l2 |-> {"L-2"}, l3 |-> {"L-3", "U-1"}]

Says(word, quotes) ==
  [form |-> "json", flaws |-> {}, words |-> {word}, argues |-> {}, currencies |-> {},
   nearClaim |-> {}, quotes |-> quotes]

(* Right for the first line only, and right for both. *)
Right1 == [Says("CLAIM", {"L-1"}) EXCEPT !.nearClaim = {12}, !.currencies = {"GBP"}]
Right == [Says("CLAIM", {"U-1"}) EXCEPT !.argues = {"CLAIM"}]

MCTexts == {Right1, Right}

(* Accepted once, before wordings were read. *)
MCLeftover == [l \in {"l3"} |-> [Says("CLAIM", {"L-3"}) EXCEPT !.argues = {"DO_NOT_CLAIM"}]]

Symmetry == Permutations(Runs)
=============================================================================
