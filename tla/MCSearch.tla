------------------------------ MODULE MCSearch ------------------------------
(* Symmetry for the runs of SearchIndex. *)
EXTENDS SearchIndex, TLC

Symmetry == Permutations(Notes) \union Permutations(Threads) \union Permutations(Parts)
=============================================================================
