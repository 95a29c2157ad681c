--------------------------- MODULE VaultMigrations ---------------------------
(***************************************************************************)
(* scripts/migrate_vault.py: the migrations of a vault and the promises    *)
(* they share, over interrupted, repeated and refused calls and the edits  *)
(* people make meanwhile.                                                  *)
(***************************************************************************)
EXTENDS VocabularyMigration, RouteMigration, SchemaMigration

MigrationNext == Vocabulary \/ Routes \/ Schema \/ TakeEntry \/ CallDies \/ PeopleWork

MigrationSpec == MigrationInit /\ [][MigrationNext]_migrationVars

-----------------------------------------------------------------------------
(* What a person wrote last in a note stays in the vault, wherever a tool   *)
(* has moved it, however often it was interrupted, repeated or undone       *)
(* (_preflight_apply, _preflight_rollback and the checks of every entry).   *)
(* A tool takes only what was saved between its reading of a text and its   *)
(* writing over it, or what it never compared (Overwrite, Compared).        *)
NothingWrittenIsLost ==
    \A n \in Notes : \E place \in Places :
       file[n][place] # missing /\ file[n][place].body = left[n]

Untouched(n) == n \notin touched /\ Owner \notin touched

Done(n) == IF tool = "v3" THEN journal.entry[n].phase = "completed"
           ELSE journal.entry[n].applied

Home == IF Moving THEN "new" ELSE "old"

(* An entry the journal calls done is done, in the file and in the catalog, *)
(* also when the call that did it was interrupted later; a rollback that    *)
(* died halfway keeps entries it has undone, which is excepted.             *)
AppliedIsDone ==
    (call.op = "idle" /\ torn # "rollback") =>
      \A n \in Entries : (Done(n) /\ Untouched(n)) =>
        /\ file[n][Home] # missing
        /\ file[n][Home].form = IF Moving THEN "before" ELSE "after"
        /\ \A place \in Places \ {Home} : file[n][place] = missing
        /\ (tool # "schema" /\ cat[n] # missing) =>
             cat[n].place = Home /\ cat[n].text = file[n][Home]
        /\ tool \in {"v3", "identity"} => cat[n] # missing

(* A rollback that ran to its end has put back every note it reports, and   *)
(* its row, and the links to it, unless a call before it had died halfway.  *)
UndoneIsBack ==
    (call.op = "idle" /\ torn = "no" /\ journal.status = "rolled_back") =>
      \A n \in Entries : (~Done(n) /\ Untouched(n)) =>
        /\ file[n].old = journal.entry[n].pre
        /\ file[n].new = missing
        /\ IF journal.entry[n].existed
           THEN cat[n].place = "old" /\ cat[n].text = file[n].old
           ELSE cat[n] = missing
        /\ (n = Target /\ ~journal.entry[n].skipped) => file[Owner].old.link = "old"

(* The journal of a migration tells the truth about the vault.              *)
JournalIsTrue == AppliedIsDone /\ UndoneIsBack

(* A human approval follows the note: whenever file and row agree, a note   *)
(* that was approved when the plan was made is approved as it is now, with  *)
(* its revision (migrate_note_vocabulary, relocate_note_cas).               *)
ApprovalFollows ==
    tool \in {"v3", "sumarios"} =>
      \A n \in Entries :
        (Untouched(n) /\ cat[n] # missing /\ seals[n] # {}
           /\ file[n][cat[n].place] = cat[n].text) =>
          [rev |-> cat[n].rev, text |-> cat[n].text] \in seals[n]
=============================================================================
