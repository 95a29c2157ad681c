----------------------------- MODULE MCFolderSync -----------------------------
EXTENDS FolderSync, TLC

(* The sources are numbered in their order, so only the contents and the
   threads are interchangeable. *)
Symmetry == Permutations(Versions) \union Permutations(Syncers)
=============================================================================
