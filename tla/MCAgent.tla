------------------------------- MODULE MCAgent -------------------------------
(* Instances of DocumentAgent for TLC. *)
EXTENDS DocumentAgent, TLC

Symmetry == Permutations(Notes)
=============================================================================
