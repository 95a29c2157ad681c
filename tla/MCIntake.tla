------------------------------- MODULE MCIntake -------------------------------
(* SourceIntake for TLC. A state space per budget: one file under two
   submitters and a restore, or one under the poll, a restart and a restore. *)
EXTENDS SourceIntake

Budget(drops, restores, clicks, crashes) ==
  [drops |-> drops, restores |-> restores, clicks |-> clicks, crashes |-> crashes]

OneAtATime == {Budget(1, 1, 1, 0), Budget(1, 1, 0, 1)}
=============================================================================
