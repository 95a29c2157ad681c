--------------------------- MODULE SchemaMigration ---------------------------
(***************************************************************************)
(* VaultMigrator: apply() writes each note in canonical form, and          *)
(* identity_backfill() gives it an id and a catalog row; both keep the old *)
(* text in a backup file and a copy of state.db, which rollback() brings   *)
(* back.                                                                   *)
(***************************************************************************)
EXTENDS MigratedVault

Backing == tool \in {"schema", "identity"}
AtBackup(point, op) == Backing /\ AtPoint(point) /\ Running(op)

Canonical(text) == text.form = "after"

\* The runtime copy is made anew by every call.
ApplySchema ==
    /\ Backing
    /\ journal.status # "completed"
    /\ BeginCall("apply", journal, {n \in Entries : ~journal.entry[n].applied})
    /\ snapshot' = [cat |-> cat, seals |-> seals]
    /\ UNCHANGED <<tool, file, rows, journal, backup, history>>

\* apply() leaves the journal on disk as it is, and the hashes empty.
KeepCanonical ==
    /\ AtBackup("entry", "apply") /\ tool = "schema"
    /\ Canonical(F.old)
    /\ Noted([E EXCEPT !.applied = TRUE, !.skipped = TRUE])
    /\ Onward("next")
    /\ UNCHANGED <<tool, file, rows, journal, copies, history>>

KeepIdentified ==
    /\ AtBackup("entry", "apply") /\ tool = "identity"
    /\ Canonical(F.old)
    /\ Read("register")
    /\ UNCHANGED <<tool, file, rows, journal, mem, copies, history>>

BackUp ==
    /\ AtBackup("entry", "apply")
    /\ ~Canonical(F.old)
    /\ backup' = [backup EXCEPT ![call.note] = IF @ = missing THEN F.old ELSE @]
    /\ Read("rewrite")
    /\ UNCHANGED <<tool, file, rows, journal, mem, snapshot, history>>

Rewrite ==
    /\ AtBackup("rewrite", "apply")
    /\ Overwrite(call.note, call.saw, Migrated(call.saw))
    /\ Onward(IF tool = "identity" THEN "register" ELSE "record")
    /\ UNCHANGED <<tool, rows, journal, mem, copies, touched, torn>>

\* register_note
Register ==
    /\ AtBackup("register", "apply")
    /\ cat' = IF cat[call.note] # missing THEN cat
              ELSE [cat EXCEPT ![call.note] =
                      [place |-> "old", rev |-> 1, text |-> Migrated(call.saw)]]
    /\ Onward("record")
    /\ UNCHANGED <<tool, file, seals, journal, mem, copies, history>>

RecordEntry ==
    /\ AtBackup("record", "apply")
    /\ Noted([E EXCEPT !.applied = TRUE, !.pre = call.saw, !.post = Migrated(call.saw)])
    /\ Persist
    /\ Onward("next")
    /\ UNCHANGED <<tool, file, rows, copies, history>>

FinishSchema ==
    /\ Backing /\ Running("apply") /\ Drained
    /\ journal' = [mem EXCEPT !.status = "completed"]
    /\ Return
    /\ UNCHANGED <<tool, file, rows, copies, history>>

-----------------------------------------------------------------------------
RollbackSchema ==
    /\ Backing
    /\ BeginCall("rollback", journal, {n \in Entries : journal.entry[n].applied})
    /\ UNCHANGED <<tool, file, rows, journal, copies, history>>

(* Not the code: an edit made since the migration is overwritten. *)
RestorableAnyway == backup[call.note] # missing

Restorable ==
    /\ backup[call.note] # missing
    /\ E.post # missing => F.old = E.post

CheckRestore ==
    /\ AtBackup("entry", "rollback")
    /\ Restorable
    /\ Read("bring")
    /\ UNCHANGED <<tool, file, rows, journal, mem, copies, history>>

(* Where the manifest has no hash nothing is compared, and a backup that a   *)
(* call which died has left may be older than what its successor migrated.   *)
Compared == E.post # missing /\ backup[call.note].body = E.post.body

RestoreBackup ==
    /\ AtBackup("bring", "rollback")
    /\ Overwrite(call.note, IF Compared THEN call.saw ELSE missing, backup[call.note])
    /\ Noted([E EXCEPT !.applied = FALSE])
    /\ Onward("next")
    /\ UNCHANGED <<tool, rows, journal, copies, touched, torn>>

SkipRestore ==
    /\ AtBackup("entry", "rollback")
    /\ ~Restorable
    /\ Noted([E EXCEPT !.skipped = TRUE])
    /\ Onward("next")
    /\ UNCHANGED <<tool, file, rows, journal, copies, history>>

JournalRollback ==
    /\ Backing /\ Running("rollback") /\ Drained
    /\ mem' = [mem EXCEPT !.status = "rolled_back"] /\ Persist
    /\ Onward("runtime")
    /\ UNCHANGED <<tool, file, rows, copies, history>>

\* state.db as it was before the last apply, with everything it held.
RestoreRuntime ==
    /\ AtBackup("runtime", "rollback")
    /\ IF snapshot = missing THEN UNCHANGED rows
       ELSE cat' = snapshot.cat /\ seals' = snapshot.seals
    /\ Return
    /\ UNCHANGED <<tool, file, journal, copies, history>>

Schema ==
    \/ ApplySchema \/ KeepCanonical \/ KeepIdentified \/ BackUp \/ Rewrite
    \/ Register \/ RecordEntry \/ FinishSchema
    \/ RollbackSchema \/ CheckRestore \/ RestoreBackup \/ SkipRestore
    \/ JournalRollback \/ RestoreRuntime
=============================================================================
