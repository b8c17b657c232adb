------------------------------- MODULE MCForms ------------------------------
(* Two interactions at a time on up to three forms about one schedule. *)
EXTENDS Forms, TLC

Symmetry == Permutations(Tasks)
=============================================================================
