------------------------- MODULE VocabularyMigration -------------------------
(***************************************************************************)
(* apply_v3_migration() and rollback_v3_migration(): the frontmatter of    *)
(* each derived note is rewritten in place, then its catalog row and the   *)
(* approvals bound to its hash follow in one transaction, and every step   *)
(* is journaled, so that an interrupted apply is called again.             *)
(***************************************************************************)
EXTENDS MigratedVault

AsListed(n) == file[n].old \in {journal.entry[n].pre, journal.entry[n].post}

ApplyVocabulary ==
    /\ tool = "v3"
    /\ \A n \in Entries : AsListed(n)
    /\ ~ /\ journal.status = "completed"
         /\ \A n \in Entries : journal.entry[n].phase = "completed"
    /\ BeginCall("apply",
             [journal EXCEPT !.status = IF @ = "rolled_back" THEN "planned" ELSE @],
             Entries)
    /\ UNCHANGED <<tool, file, rows, journal, copies, history>>

AtV3(point, op) == tool = "v3" /\ AtPoint(point) /\ Running(op)

ReadFrontmatter ==
    /\ AtV3("entry", "apply")
    /\ F.old = E.pre
    /\ Read("write")
    /\ UNCHANGED <<tool, file, rows, journal, mem, copies, history>>

WriteFrontmatter ==
    /\ AtV3("write", "apply")
    /\ Overwrite(call.note, call.saw, E.post)
    /\ Onward("journal")
    /\ UNCHANGED <<tool, rows, journal, mem, copies, touched, torn>>

\* Written already, or changed by somebody since the preflight.
KeepFrontmatter ==
    /\ AtV3("entry", "apply")
    /\ F.old # E.pre
    /\ Onward(IF F.old = E.post /\ E.phase = "planned" THEN "journal" ELSE "phase")
    /\ UNCHANGED <<tool, file, rows, journal, mem, copies, history>>

JournalFrontmatter ==
    /\ AtV3("journal", "apply")
    /\ Noted([E EXCEPT !.phase = "frontmatter_written"]) /\ Persist
    /\ Onward("phase")
    /\ UNCHANGED <<tool, file, rows, copies, history>>

(* Not the code: the approvals keep the hash they were given for. *)
MovedNot(versions, rev, from, to) == versions

(* migrate_note_vocabulary: one transaction.                                *)
Moved(versions, rev, from, to) ==
    {IF v = [rev |-> rev, text |-> from] THEN [v EXCEPT !.text = to] ELSE v : v \in versions}

Matches(row, entry, texts) ==
    row # missing /\ row.place = "old" /\ row.rev = entry.rev /\ row.text \in texts

Migratable ==
    LET row == cat[call.note]
    IN  Matches(row, E, {E.pre, E.post}) \/ (row = missing /\ ~E.existed)

MigrateNoteVocabulary ==
    /\ AtV3("phase", "apply") /\ E.phase = "frontmatter_written"
    /\ Migratable
    /\ LET n == call.note
       IN  /\ cat' = [cat EXCEPT ![n] = [place |-> "old", rev |-> E.rev, text |-> E.post]]
           /\ seals' = IF cat[n] # missing /\ cat[n].text = E.pre
                       THEN [seals EXCEPT ![n] = Moved(@, E.rev, E.pre, E.post)]
                       ELSE seals
    /\ Onward("committed")
    /\ UNCHANGED <<tool, file, journal, mem, copies, history>>

\* IdentityCollisionError or a SQLite error: the call raises.
VocabularyConflict ==
    /\ AtV3("phase", "apply") /\ E.phase = "frontmatter_written"
    /\ Return
    /\ UNCHANGED <<tool, file, rows, journal, copies, history>>

JournalPhase ==
    \E step \in {<<"committed", "frontmatter_written", "catalog_committed">>,
                 <<"phase", "catalog_committed", "derived_marked">>,
                 <<"phase", "derived_marked", "completed">>} :
       /\ AtV3(step[1], "apply") /\ E.phase = step[2]
       /\ Noted([E EXCEPT !.phase = step[3]]) /\ Persist
       /\ Onward("phase")
       /\ UNCHANGED <<tool, file, rows, copies, history>>

EntryDone ==
    /\ AtV3("phase", "apply")
    /\ E.phase \in {"planned", "completed"}
    /\ Onward("next")
    /\ UNCHANGED <<tool, file, rows, journal, mem, copies, history>>

-----------------------------------------------------------------------------
RollbackVocabulary ==
    /\ tool = "v3"
    /\ journal.status # "rolled_back"
    /\ LET begun == {n \in Entries : journal.entry[n].phase # "planned"}
       IN  /\ \A n \in begun : AsListed(n)
           /\ BeginCall("rollback", journal, begun)
    /\ UNCHANGED <<tool, file, rows, journal, copies, history>>

ReadRestored ==
    /\ AtV3("entry", "rollback")
    /\ Read("unwrite")
    /\ UNCHANGED <<tool, file, rows, journal, mem, copies, history>>

RestoreFrontmatter ==
    /\ AtV3("unwrite", "rollback")
    /\ IF call.saw = E.post THEN Overwrite(call.note, call.saw, E.pre)
       ELSE UNCHANGED <<file, left>>
    /\ Onward("restore")
    /\ UNCHANGED <<tool, rows, journal, mem, copies, touched, torn>>

(* rollback_note_vocabulary: one transaction.                               *)
Unmigratable ==
    LET row == cat[call.note]
    IN  IF E.existed THEN Matches(row, E, {E.pre, E.post})
        ELSE \/ row = missing
             \/ Matches(row, E, {E.post}) /\ seals[call.note] = {}

RollbackNoteVocabulary ==
    /\ AtV3("restore", "rollback")
    /\ Unmigratable
    /\ LET n == call.note
       IN  /\ cat' = [cat EXCEPT ![n] =
                        IF E.existed THEN [place |-> "old", rev |-> E.rev, text |-> E.pre]
                        ELSE missing]
           /\ seals' = IF E.existed /\ cat[n].text = E.post
                       THEN [seals EXCEPT ![n] = Moved(@, E.rev, E.post, E.pre)]
                       ELSE seals
    /\ Onward("restored")
    /\ UNCHANGED <<tool, file, journal, mem, copies, history>>

\* The file becomes what it was when this entry was begun.
RollbackConflict ==
    /\ AtV3("restore", "rollback")
    /\ IF call.saw = E.post THEN Overwrite(call.note, E.pre, call.saw)
       ELSE UNCHANGED <<file, left>>
    /\ Return
    /\ UNCHANGED <<tool, rows, journal, copies, touched, torn>>

JournalRestored ==
    /\ AtV3("restored", "rollback")
    /\ Noted([E EXCEPT !.phase = "planned"]) /\ Persist
    /\ Onward("next")
    /\ UNCHANGED <<tool, file, rows, copies, history>>

FinishVocabulary ==
    /\ tool = "v3" /\ Drained
    /\ journal' = [mem EXCEPT !.status = IF Running("apply") THEN "completed"
                                         ELSE "rolled_back"]
    /\ Return
    /\ UNCHANGED <<tool, file, rows, copies, history>>

Vocabulary ==
    \/ ApplyVocabulary \/ ReadFrontmatter \/ WriteFrontmatter \/ KeepFrontmatter
    \/ JournalFrontmatter \/ MigrateNoteVocabulary \/ VocabularyConflict
    \/ JournalPhase \/ EntryDone
    \/ RollbackVocabulary \/ ReadRestored \/ RestoreFrontmatter
    \/ RollbackNoteVocabulary \/ RollbackConflict \/ JournalRestored \/ FinishVocabulary
=============================================================================
