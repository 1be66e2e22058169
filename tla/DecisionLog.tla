---------------------------- MODULE DecisionLog ----------------------------
(***************************************************************************)
(* What a run stores of its decisions, with nothing said of explanations:  *)
(* one entry per charge line, in order, each as the engine decided it or   *)
(* failed open; all of them or none.                                       *)
(***************************************************************************)
EXTENDS Naturals, Sequences

CONSTANTS
  Runs,
  Order,       \* the lines of the report, as list_charges orders them
  Decided,     \* line -> the entry the engine decides
  FailedOpen   \* line -> the entry of a line that could not be decided

VARIABLES
  log,         \* run -> its entries so far
  stored       \* the runs that are stored

vars == <<log, stored>>

Init == log = [r \in Runs |-> << >>] /\ stored = {}

Append1(r, e) == log' = [log EXCEPT ![r] = Append(@, e)] /\ UNCHANGED stored

Decide(r) ==
  /\ r \notin stored /\ Len(log[r]) < Len(Order)
  /\ LET l == Order[Len(log[r]) + 1]
     IN  Append1(r, Decided[l]) \/ Append1(r, FailedOpen[l])

Store(r) ==
  /\ r \notin stored /\ Len(log[r]) = Len(Order)
  /\ stored' = stored \cup {r}
  /\ UNCHANGED log

RollBack(r) ==
  /\ r \notin stored
  /\ log' = [log EXCEPT ![r] = << >>]
  /\ UNCHANGED stored

Next == \E r \in Runs : Decide(r) \/ Store(r) \/ RollBack(r)

Spec == Init /\ [][Next]_vars
=============================================================================
