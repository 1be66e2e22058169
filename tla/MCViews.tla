------------------------------ MODULE MCViews ------------------------------
(* Instances of Views. *)
EXTENDS Views

Symmetry == Permutations(Lines) \cup Permutations(Pages)
=============================================================================
