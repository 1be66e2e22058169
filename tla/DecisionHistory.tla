-------------------------- MODULE DecisionHistory --------------------------
(***************************************************************************)
(* What the store of decisions and overrides promises, whoever runs and    *)
(* reviews at the same time: each decision record has one history, which   *)
(* starts with the engine's decision, only ever grows by one entry, and    *)
(* whose every entry changes the decision it replaced.                     *)
(***************************************************************************)
EXTENDS Naturals, Sequences

CONSTANTS
  Records,    \* the ids of decision records
  DecisionValues     \* what a decision can be

VARIABLE history   \* record id -> its decisions, oldest first

Init == history = [i \in Records |-> <<>>]

(* A run commits: any of the records it may still write get their first entry. *)
Decide ==
  /\ history' \in [Records -> Seq(DecisionValues)]
  /\ \A i \in Records :
       \/ history'[i] = history[i]
       \/ history[i] = <<>> /\ \E d \in DecisionValues : history'[i] = <<d>>

(* A reviewer overrides the current decision of one record. *)
Override(i, d) ==
  /\ history[i] # <<>>
  /\ d # history[i][Len(history[i])]
  /\ history' = [history EXCEPT ![i] = Append(@, d)]

Next == Decide \/ \E i \in Records, d \in DecisionValues : Override(i, d)

Spec == Init /\ [][Next]_history
=============================================================================
