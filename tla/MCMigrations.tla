---------------------------- MODULE MCMigrations ----------------------------
(* Symmetry for the runs of VaultMigrations. *)
EXTENDS VaultMigrations, TLC

Symmetry == Permutations(Bodies)
=============================================================================
