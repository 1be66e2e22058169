------------------------------ MODULE MCAgent ------------------------------
(* Instances of Agent: what is sent to it. *)
EXTENDS Agent, TLC

Good(kind, lines) ==
  [kind |-> kind, lines |-> lines, key |-> TRUE, names |-> TRUE, sizes |-> TRUE, files |-> "good"]

OneLine == {{l} : l \in Lines}

Posts == {Good("post", ls) : ls \in SUBSET Lines \ {{}}}

Commands == {Good(k, ls) : k \in {"run", "ingest"}, ls \in OneLine}

(* One thing wrong with each, or everything. *)
Refusable ==
  {[Good("post", Lines) EXCEPT !.key = FALSE], [Good("post", Lines) EXCEPT !.names = FALSE],
   [Good("post", Lines) EXCEPT !.sizes = FALSE], [Good("post", Lines) EXCEPT !.files = "malformed"],
   [Good("post", Lines) EXCEPT !.files = "breaking"],
   [Good("run", Lines) EXCEPT !.files = "malformed"],
   [kind |-> "post", lines |-> Lines, key |-> FALSE, names |-> FALSE, sizes |-> FALSE,
    files |-> "malformed"]}

MCSendable == Posts \cup Commands \cup Refusable

Symmetry == Permutations(Requests) \cup Permutations(Lines)
=============================================================================
