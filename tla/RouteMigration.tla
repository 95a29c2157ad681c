--------------------------- MODULE RouteMigration ---------------------------
(***************************************************************************)
(* TaxonomyMigrator: apply() and rollback() of the physical taxonomy, and  *)
(* apply_sumarios() and rollback_sumarios(), which also want an approved   *)
(* manifest, an exact catalog row and rewrite the wikilinks to what moved. *)
(* A file is renamed, its row follows, and the rename is undone when the   *)
(* row refuses.                                                            *)
(***************************************************************************)
EXTENDS MigratedVault

Moving == tool \in {"sumarios", "taxonomy"}
AtMove(point, op) == Moving /\ AtPoint(point) /\ Running(op)
Target == CHOOSE n \in Entries : \A m \in Entries : n <= m

ApproveManifest ==
    /\ tool = "sumarios" /\ call.op = "idle"
    /\ journal' = [journal EXCEPT !.status = "approved"]
    /\ journal.status # "approved"
    /\ UNCHANGED <<tool, file, rows, mem, call, copies, history>>

ApplyMoves ==
    /\ Moving
    /\ tool = "sumarios" => journal.status = "approved"
    /\ BeginCall("apply", journal, Entries)
    /\ UNCHANGED <<tool, file, rows, journal, copies, history>>

RowIs(place, text) ==
    LET row == cat[call.note]
    IN  row # missing /\ row = [place |-> place, rev |-> E.rev, text |-> text]

Movable ==
    /\ F.old = E.pre
    /\ F.new = missing
    /\ tool = "sumarios" => RowIs("old", E.pre)

CheckMove ==
    /\ AtMove("entry", "apply")
    /\ Movable
    /\ Onward("rename")
    /\ UNCHANGED <<tool, file, rows, journal, mem, copies, history>>

\* Not as planned, or an origin without a current approval (sumarios).
RefuseMove ==
    /\ AtMove("entry", "apply")
    /\ ~Movable \/ tool = "sumarios"
    /\ journal' = IF tool = "sumarios"
                  THEN Annotated([E EXCEPT !.skipped = TRUE]) ELSE journal
    /\ Return
    /\ UNCHANGED <<tool, file, rows, copies, history>>

\* os.rename to a place that was free when it was checked.
MoveFile(n, from, to) ==
    file' = [file EXCEPT ![n] = [@ EXCEPT ![to] = file[n][from], ![from] = missing]]

Rename ==
    /\ AtMove("rename", "apply")
    /\ MoveFile(call.note, "old", "new")
    /\ Onward(IF tool = "taxonomy" THEN "journal_move" ELSE "relocate")
    /\ UNCHANGED <<tool, rows, journal, mem, copies, history>>

(* Not the code: the entry counts as applied before its row has followed. *)
JournalMoveDone ==
    /\ AtMove("journal_move", "apply")
    /\ Noted([E EXCEPT !.phase = "file_moved", !.applied = TRUE]) /\ Persist
    /\ Onward("relocate")
    /\ UNCHANGED <<tool, file, rows, copies, history>>

JournalMove ==
    /\ AtMove("journal_move", "apply")
    /\ Noted([E EXCEPT !.phase = "file_moved"]) /\ Persist
    /\ Onward("relocate")
    /\ UNCHANGED <<tool, file, rows, copies, history>>

(* relocate_note_cas keeps the revision, update_note_cas makes a new one.   *)
Relocatable ==
    IF tool = "sumarios" THEN RowIs("old", E.pre)
    ELSE cat[call.note] # missing => cat[call.note].rev = E.rev /\ cat[call.note].text = E.pre

Relocated(row, place) ==
    IF row = missing THEN missing
    ELSE IF tool = "sumarios" THEN [row EXCEPT !.place = place]
    ELSE Recorded(row, place, row.text)

Relocate ==
    /\ AtMove("relocate", "apply")
    /\ Relocatable
    /\ cat' = [cat EXCEPT ![call.note] = Relocated(@, "new")]
    /\ Onward("moved")
    /\ UNCHANGED <<tool, file, seals, journal, mem, copies, history>>

RelocateRefused ==
    /\ AtMove("relocate", "apply")
    /\ ~Relocatable
    /\ MoveFile(call.note, "new", "old")
    /\ journal' = Annotated([E EXCEPT !.phase = "planned", !.skipped = TRUE])
    /\ Return
    /\ UNCHANGED <<tool, rows, copies, history>>

JournalMoved ==
    /\ AtMove("moved", "apply")
    /\ IF tool = "sumarios"
       THEN Noted([E EXCEPT !.phase = "identity_committed", !.applied = TRUE, !.post = F.new])
       ELSE Noted([E EXCEPT !.phase = "completed", !.applied = TRUE])
    /\ Persist
    /\ call' = [call EXCEPT !.pc = "next", !.moved = @ \union {call.note}]
    /\ UNCHANGED <<tool, file, rows, copies, history>>

-----------------------------------------------------------------------------
(* _rewrite_moved_wikilinks: only notes that have not moved themselves.     *)
Linked ==
    /\ tool = "sumarios" /\ Running("apply") /\ Drained
    /\ Target \in call.moved
    /\ file[Owner].old.link = "old"

RowAgrees(n) == cat[n] # missing => cat[n].text = file[n].old

ReadOwner(point) ==
    call' = [call EXCEPT !.pc = point, !.saw = file[Owner].old, !.row = cat[Owner]]

ReadLinks ==
    /\ Linked /\ RowAgrees(Owner)
    /\ ReadOwner("relink")
    /\ UNCHANGED <<tool, file, rows, journal, mem, copies, history>>

RewriteLinks ==
    /\ AtMove("relink", "apply")
    /\ Overwrite(Owner, call.saw, [call.saw EXCEPT !.link = "new"])
    /\ Onward("link")
    /\ UNCHANGED <<tool, rows, journal, mem, copies, touched, torn>>

RefuseLinks ==
    /\ Linked /\ ~RowAgrees(Owner)
    /\ Return
    /\ UNCHANGED <<tool, file, rows, journal, copies, history>>

\* update_note_cas of the row that was read with the text.
RecordLinks(point, text, next) ==
    /\ AtMove(point, call.op)
    /\ cat[Owner] = call.row
    /\ cat' = IF cat[Owner] = missing THEN cat
              ELSE [cat EXCEPT ![Owner] = Recorded(@, @.place, text)]
    /\ Onward(next)
    /\ UNCHANGED <<tool, file, seals, journal, mem, copies, history>>

CommitLinks == AtPoint("link") /\ RecordLinks("link", [call.saw EXCEPT !.link = "new"], "linked")

LinksConflict ==
    /\ AtMove("link", "apply")
    /\ cat[Owner] # call.row
    /\ Overwrite(Owner, [call.saw EXCEPT !.link = "new"], call.saw)
    /\ Return
    /\ UNCHANGED <<tool, rows, journal, copies, touched, torn>>

JournalLinks ==
    /\ AtMove("linked", "apply")
    /\ mem' = [mem EXCEPT !.change = [pre |-> call.saw, targets |-> {Target},
                                      post |-> [call.saw EXCEPT !.link = "new"]]]
    /\ Persist
    /\ Onward("next")
    /\ UNCHANGED <<tool, file, rows, copies, history>>

FinishMoves ==
    /\ Moving /\ Running("apply") /\ Drained
    /\ ~Linked
    /\ journal' = [mem EXCEPT !.status = "completed",
                     !.entry = [n \in Entries |-> IF n \in call.moved
                                  THEN [@[n] EXCEPT !.phase = "completed"] ELSE @[n]]]
    /\ Return
    /\ UNCHANGED <<tool, file, rows, copies, history>>

-----------------------------------------------------------------------------
RollbackMoves ==
    /\ Moving
    /\ tool = "sumarios" => journal.status \in {"approved", "completed"}
    /\ BeginCall("rollback", journal, {n \in Entries : journal.entry[n].applied})
    /\ UNCHANGED <<tool, file, rows, journal, copies, history>>

Returnable ==
    /\ F.old = missing
    /\ F.new = IF tool = "sumarios" THEN E.post ELSE E.pre
    /\ tool = "sumarios" => RowIs("new", E.post)

CheckUndo ==
    /\ AtMove("entry", "rollback")
    /\ Returnable
    /\ Onward("rename")
    /\ UNCHANGED <<tool, file, rows, journal, mem, copies, history>>

UndoRename ==
    /\ AtMove("rename", "rollback")
    /\ MoveFile(call.note, "new", "old")
    /\ Onward("relocate")
    /\ UNCHANGED <<tool, rows, journal, mem, copies, history>>

SkipUndo ==
    /\ AtMove("entry", "rollback")
    /\ ~Returnable
    /\ Noted([E EXCEPT !.skipped = TRUE])
    /\ Onward("next")
    /\ UNCHANGED <<tool, file, rows, journal, copies, history>>

Returned ==
    Noted([E EXCEPT !.phase = "planned", !.applied = FALSE,
                    !.skipped = tool # "taxonomy" /\ @])

\* taxonomy takes the revision it finds and does not look at the result.
UndoRelocate ==
    /\ AtMove("relocate", "rollback")
    /\ tool = "sumarios" => RowIs("new", E.post)
    /\ LET row == cat[call.note]
       IN  cat' = IF row # missing /\ (tool = "sumarios" \/ row.text = E.pre)
                  THEN [cat EXCEPT ![call.note] = Relocated(row, "old")] ELSE cat
    /\ Returned
    /\ Onward("next")
    /\ UNCHANGED <<tool, file, seals, journal, copies, history>>

UndoRefused ==
    /\ AtMove("relocate", "rollback")
    /\ tool = "sumarios" /\ ~RowIs("new", E.post)
    /\ MoveFile(call.note, "old", "new")
    /\ Noted([E EXCEPT !.skipped = TRUE])
    /\ Onward("next")
    /\ UNCHANGED <<tool, rows, journal, copies, history>>

RolledBack == {n \in Entries : /\ ~mem.entry[n].applied
                               /\ mem.entry[n].phase = "planned"
                               /\ ~mem.entry[n].skipped}

Unlinkable ==
    /\ mem.change # missing
    /\ mem.change.targets \subseteq RolledBack
    /\ file[Owner].old = mem.change.post
    /\ RowAgrees(Owner)

ReadUnlinked ==
    /\ Moving /\ Running("rollback") /\ Drained
    /\ Unlinkable
    /\ ReadOwner("unrelink")
    /\ UNCHANGED <<tool, file, rows, journal, mem, copies, history>>

UndoLinks ==
    /\ AtMove("unrelink", "rollback")
    /\ Overwrite(Owner, call.saw, mem.change.pre)
    /\ Onward("unlink")
    /\ UNCHANGED <<tool, rows, journal, mem, copies, touched, torn>>

\* The file is hashed again before the row follows.
CommitUnlinked ==
    /\ AtPoint("unlink") /\ file[Owner].old = mem.change.pre
    /\ RecordLinks("unlink", mem.change.pre, "finish")

UnlinkConflict ==
    /\ AtMove("unlink", "rollback")
    /\ file[Owner].old # mem.change.pre \/ cat[Owner] # call.row
    /\ Overwrite(Owner, mem.change.pre, call.saw)
    /\ Onward("finish")
    /\ UNCHANGED <<tool, rows, journal, mem, copies, touched, torn>>

FinishReturn ==
    /\ Moving /\ Running("rollback")
    /\ (Drained /\ ~Unlinkable) \/ AtPoint("finish")
    /\ journal' = [mem EXCEPT !.status = "rolled_back"]
    /\ Return
    /\ UNCHANGED <<tool, file, rows, copies, history>>

Routes ==
    \/ ApproveManifest
    \/ ApplyMoves \/ CheckMove \/ RefuseMove \/ Rename \/ JournalMove \/ Relocate
    \/ RelocateRefused \/ JournalMoved \/ ReadLinks \/ RewriteLinks \/ RefuseLinks
    \/ CommitLinks \/ LinksConflict \/ JournalLinks \/ FinishMoves
    \/ RollbackMoves \/ CheckUndo \/ UndoRename \/ SkipUndo \/ UndoRelocate
    \/ UndoRefused \/ ReadUnlinked \/ UndoLinks \/ CommitUnlinked
    \/ UnlinkConflict \/ FinishReturn
=============================================================================
