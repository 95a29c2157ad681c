------------------------------ MODULE MCReview ------------------------------
(* Symmetry for the runs of NoteReview. *)
EXTENDS NoteReview, TLC

Symmetry == Permutations(People) \union Permutations(Bodies)
=============================================================================
