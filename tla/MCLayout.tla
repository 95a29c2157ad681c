------------------------------ MODULE MCLayout ------------------------------
(* Symmetry for the runs of LayoutMigration. *)
EXTENDS LayoutMigration, TLC

Symmetry == Permutations(Files) \union Permutations(Inodes)
              \union Permutations(Texts) \union Permutations(Plans)
=============================================================================
