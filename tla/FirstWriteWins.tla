--------------------------- MODULE FirstWriteWins ---------------------------
(***************************************************************************)
(* What the tables that uploads fill promise, however many uploads run at  *)
(* once: an upload is applied as a whole or not at all, one at a time, and *)
(* the first row stored under a key is the one that stays.                 *)
(*                                                                         *)
(* A row is <<key, value>>; bad rows have no key and are all kept.         *)
(***************************************************************************)
CONSTANT Uploads

VARIABLES
  sent,        \* upload -> [rows, bad]: what it brings
  applied,     \* the uploads that have been applied
  stored,      \* the rows that are stored
  quarantined  \* <<upload, bad row>>

vars == <<sent, applied, stored, quarantined>>

Init == applied = {} /\ stored = {} /\ quarantined = {}

Apply(u) ==
  /\ u \notin applied
  /\ applied' = applied \cup {u}
  /\ stored' = stored \cup {r \in sent[u].rows : \A s \in stored : s[1] # r[1]}
  /\ quarantined' = quarantined \cup ({u} \X sent[u].bad)
  /\ UNCHANGED sent

Next == \E u \in Uploads : Apply(u)

Spec == Init /\ [][Next]_vars
=============================================================================
