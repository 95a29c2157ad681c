------------------------------ MODULE NoteReview ------------------------------
(***************************************************************************)
(* One note under review: the calls of NotesApplicationService,            *)
(* ApprovalApplicationService, TransitionApprovalService and               *)
(* SharingApplicationService that edit, approve and share it, each         *)
(* SQLite transaction and each file write a step, with the writes of       *)
(* Obsidian and the reconciliation of the pipeline in between.  Locks and  *)
(* rows are kept per note, so one note is enough.                          *)
(***************************************************************************)
EXTENDS Naturals, FiniteSets

CONSTANTS
    Places,       \* folders the note may lie in: "3_capturado", "4_procesado"
    People,       \* reviewers and editors, one call each at a time
    Bodies,       \* contents below the frontmatter
    Seals,        \* folders where people also change seals (move_notes_to_status)
    Outside,      \* other programs write the file, the pipeline reconciles it
    Ttl,          \* how long a review claim lasts
    MaxTime,      \* bound of the clock
    MaxRevision,  \* bound of the revisions a run makes
    none

ASSUME ReviewAssumption ==
    Ttl \in Nat \ {0} /\ MaxTime \in Nat /\ MaxRevision \in Nat

VARIABLES
    place,     \* the folder of the note
    file,      \* the Markdown of the note
    cat,       \* its note_catalog row
    seals,     \* note_approvals: 3_capturado -> 4_procesado
    green,     \* its processed_approvals row: 4_procesado -> 5_compartido
    claims,    \* review_claims
    trans,     \* transition_approvals
    shared,    \* the file in 5_compartido
    receipts,  \* shared_outputs
    call,      \* what every person's call does
    now,       \* the clock
    settled    \* history: no outside write, crash or lost race since they agreed

vars == <<place, file, cat, seals, green, claims, trans, shared, receipts, call, now, settled>>
tables == <<seals, green, claims, trans>>
published == <<shared, receipts>>

Status == {"pending_review", "in_review", "approved", "rejected"}
Revision == 0 .. MaxRevision + 1
\* A text stands for the SHA-256 of body and frontmatter, which carries the
\* status and the revision written with it.
Text == [body : Bodies, rev : Revision, status : Status]
Version == [rev : Revision, text : Text]

ASSUME NoneAssumption == none \notin Text

Idle == [pc |-> "idle"]
Call == [pc : {"lock", "write", "commit", "cas", "restore", "asked", "claimed",
               "ledger", "publish", "receipt"},
         op : {"edit", "seal", "approve", "reject", "ask", "flow", "share"},
         rev : Revision, seen : Text, new : Text, old : Text \union {none},
         current : BOOLEAN]

TypeOK ==
    /\ place \in Places
    /\ file \in Text
    /\ cat \in [rev : Revision, text : Text, status : Status]
    /\ seals \subseteq [id : Version, by : People, live : BOOLEAN]
    /\ green \in [id : Version, by : People] \union {none}
    /\ claims \subseteq [id : Version, by : People, until : 0 .. MaxTime + Ttl]
    /\ trans \subseteq [id : Version, by : People]
    /\ shared \in Text \union {none}
    /\ receipts \subseteq Version
    /\ call \in [People -> Call \union {Idle}]
    /\ now \in 0 .. MaxTime
    /\ settled \in BOOLEAN

Init ==
    /\ place \in Places
    /\ file \in [body : Bodies, rev : {0}, status : {"pending_review"}]
    /\ cat = [rev |-> 1, text |-> file, status |-> "pending_review"]
    /\ seals = {} /\ green = none /\ claims = {} /\ trans = {}
    /\ shared = none /\ receipts = {}
    /\ call = [p \in People |-> Idle]
    /\ now = 0 /\ settled = TRUE

-----------------------------------------------------------------------------
Captured == place = "3_capturado"
Id == [rev |-> cat.rev, text |-> cat.text]

\* document_file_lock: held from the checks of a call to its end.
Locked == \E p \in People :
              call[p].pc \in {"write", "commit", "cas", "restore", "receipt"}

At(p, pc) == call[p].pc = pc
Goto(p, pc) == call' = [call EXCEPT ![p].pc = pc]
End(p) == call' = [call EXCEPT ![p] = Idle]
Begin(p, op, pc, new) ==
    /\ At(p, "idle")
    /\ call' = [call EXCEPT ![p] =
         [pc |-> pc, op |-> op, rev |-> cat.rev, seen |-> cat.text, new |-> new,
          old |-> none, current |-> FALSE]]

\* is_note_approval_current and the comparison with the file.
IsCurrent ==
    /\ file = cat.text
    /\ cat.status = "approved"
    /\ \E s \in seals : s.id = Id /\ s.live

\* is_processed_approval_current and its transition.
GreenCurrent ==
    /\ green # none
    /\ green.id = Id
    /\ \E t \in trans : t.id = Id

-----------------------------------------------------------------------------
(* The editor.  get_note() takes the text from the file, revision and hash *)
(* from the catalog; the new text is made of these before the lock.        *)
Compose(p, op, body, status) ==
    /\ cat.rev < MaxRevision
    /\ Begin(p, op, "lock", [body |-> body, rev |-> cat.rev + 1, status |-> status])
    /\ UNCHANGED <<file, cat, tables, published, now, settled>>

UpdateNoteBody(p, body) ==
    Compose(p, "edit", body, IF file.status = "approved" THEN "pending_review"
                             ELSE file.status)

MoveNotesToStatus(p, status) ==
    /\ place \in Seals
    /\ status \in {"pending_review", "in_review"}
    /\ file.status # status
    /\ Compose(p, "seal", file.body, status)

ApproveNote(p) ==
    /\ ~Captured
    /\ file.status = "pending_review"
    /\ Compose(p, "approve", file.body, "approved")

Reject(p) ==
    /\ file.status = "pending_review"
    /\ Compose(p, "reject", file.body, "rejected")

(* _persist_note under the lock: the file and the catalog must still be     *)
(* what was loaded; an edit of a currently approved capture goes back to    *)
(* its review, unless its seal is being changed.                            *)
AsLoaded(p) ==
    /\ call[p].op \in {"edit", "seal"} => file = call[p].seen
    /\ cat.rev = call[p].rev
    /\ cat.text = file

(* Not the code: the revision found is the one expected. *)
PersistLatest(p) ==
    /\ At(p, "lock") /\ ~Locked
    /\ cat.text = file
    /\ call' = [call EXCEPT ![p].pc = "write", ![p].old = file, ![p].rev = cat.rev]
    /\ UNCHANGED <<file, cat, tables, published, now, settled>>

Persist(p) ==
    /\ At(p, "lock") /\ ~Locked
    /\ AsLoaded(p)
    /\ LET current == Captured /\ IsCurrent
       IN  call' = [call EXCEPT ![p].pc = "write", ![p].old = file,
                      ![p].current = current,
                      ![p].new.status = IF current /\ call[p].op # "seal"
                                        THEN "pending_review" ELSE @]
    /\ UNCHANGED <<file, cat, tables, published, now, settled>>

\* A conflict, metadata that does not validate, origins without approval.
PersistRefused(p) ==
    /\ At(p, "lock") /\ ~Locked
    /\ End(p)
    /\ UNCHANGED <<file, cat, tables, published, now, settled>>

WriteFile(p) ==
    /\ At(p, "write")
    /\ file' = call[p].new
    /\ Goto(p, "commit")
    /\ UNCHANGED <<cat, tables, published, now, settled>>

(* Not the code: the text is replaced under its old revision. *)
InvalidatedInPlace ==
    /\ seals' = {[s EXCEPT !.live = FALSE] : s \in seals}
    /\ cat' = [cat EXCEPT !.text = file, !.status = "pending_review"]

(* invalidate_note_approval: the text the file has by now enters the        *)
(* catalog as a new revision that has to be reviewed.                       *)
Invalidated ==
    /\ seals' = {[s EXCEPT !.live = FALSE] : s \in seals}
    /\ cat' = [rev |-> cat.rev + 1, text |-> file, status |-> "pending_review"]

\* Rows the statement changed; 0 also when the catalog has the text already.
LiveRows == IF cat.text = file THEN 0 ELSE Cardinality({s \in seals : s.live})

CommitApproved(p) ==
    /\ At(p, "commit")
    /\ call[p].current
    /\ cat.rev <= MaxRevision
    /\ IF cat.text = file THEN UNCHANGED <<cat, seals>> ELSE Invalidated
    /\ IF call[p].op = "seal" THEN Goto(p, "cas")
       ELSE IF LiveRows = 0 THEN Goto(p, "restore") ELSE End(p)
    /\ UNCHANGED <<file, green, claims, trans, published, now, settled>>

\* update_note_cas
UpdateNoteCas(p) ==
    IF cat.rev = call[p].rev /\ cat.text = call[p].old
    THEN /\ cat' = [rev |-> cat.rev + 1, text |-> call[p].new,
                    status |-> call[p].new.status]
         /\ End(p)
    ELSE Goto(p, "restore") /\ UNCHANGED cat

CommitPlain(p) ==
    /\ (At(p, "commit") /\ ~call[p].current) \/ At(p, "cas")
    /\ UpdateNoteCas(p)
    /\ UNCHANGED <<file, tables, published, now, settled>>

(* Not the code: the new text stays when SQLite refuses its row. *)
KeepWritten(p) ==
    /\ At(p, "commit")
    /\ End(p)
    /\ UNCHANGED <<file, cat, tables, published, now, settled>>

\* SQLite refuses: the old text comes back if the row is still the old one.
CommitFails(p) ==
    /\ At(p, "commit")
    /\ file' = IF cat.rev = call[p].rev /\ cat.text = call[p].old
               THEN call[p].old ELSE file
    /\ End(p)
    /\ UNCHANGED <<cat, tables, published, now, settled>>

Restore(p) ==
    /\ At(p, "restore")
    /\ file' = call[p].old
    /\ End(p)
    /\ UNCHANGED <<cat, tables, published, now, settled>>
-----------------------------------------------------------------------------
(* Claims: one per version and transition, owned until they expire.         *)
Unexpired(c) == c.until > now
ClaimOf(id) == {c \in claims : c.id = id}

Claimable(id, by) == \A c \in ClaimOf(id) : Unexpired(c) => c.by = by

\* A claim that still runs is kept as it is, also by its own reviewer.
Claim(id, by) ==
    IF \E c \in ClaimOf(id) : Unexpired(c) THEN claims
    ELSE (claims \ ClaimOf(id)) \union {[id |-> id, by |-> by, until |-> now + Ttl]}

MayApprove(id, by) == \E c \in ClaimOf(id) : c.by = by /\ Unexpired(c)

\* INSERT ... ON CONFLICT DO NOTHING: the first approval of a version stays.
Approved(id, by) ==
    IF \E t \in trans : t.id = id THEN trans
    ELSE trans \union {[id |-> id, by |-> by]}

\* The reviewer an approval is recorded for when there already is one.
Effective(existing, by) ==
    IF existing = {} THEN by ELSE (CHOOSE s \in existing : TRUE).by

-----------------------------------------------------------------------------
(* 3_capturado -> 4_procesado.  request_approval() tells a reviewer which   *)
(* revision to approve; approve_clean() takes that revision.                *)
RequestApproval(p) ==
    /\ Captured /\ ~Locked
    /\ file = cat.text
    /\ Begin(p, "ask", "asked", file)
    /\ UNCHANGED <<file, cat, tables, published, now, settled>>

\* _approve_note_revision_in_transaction
Seal(id, by) ==
    IF \E s \in seals : s.id = id THEN seals
    ELSE seals \union {[id |-> id, by |-> by, live |-> TRUE]}

ApproveClean(p) ==
    /\ Captured /\ At(p, "asked") /\ ~Locked
    /\ cat.rev = call[p].rev
    /\ cat.text = file
    /\ \A s \in seals : s.id = Id => s.live
    /\ LET by == Effective({s \in seals : s.id = Id}, p)
       IN  /\ Claimable(Id, by)
           /\ claims' = Claim(Id, by)
           /\ seals' = Seal(Id, by)
           /\ trans' = Approved(Id, by)
    /\ cat' = [cat EXCEPT !.status = "approved"]
    /\ End(p)
    /\ UNCHANGED <<file, green, published, now, settled>>

\* The revision has moved on, the claim is another reviewer's, or they leave.
AskedInVain(p) ==
    /\ At(p, "asked")
    /\ End(p)
    /\ UNCHANGED <<file, cat, tables, published, now, settled>>

(* approve_flow_transition of the agent: the same by three transactions and *)
(* without the file lock; it approves the version it finds.                 *)
BeginReview(p) ==
    /\ Captured
    /\ file = cat.text
    /\ Claimable(Id, p)
    /\ Begin(p, "flow", "claimed", file)
    /\ claims' = Claim(Id, p)
    /\ UNCHANGED <<file, cat, seals, green, trans, published, now, settled>>

Claimed(p) == [rev |-> call[p].rev, text |-> call[p].seen]

(* Not the code: any claim on the version will do. *)
ApproveAnyClaim(p) ==
    /\ At(p, "claimed")
    /\ trans' = Approved(Claimed(p), p)
    /\ Goto(p, "ledger")
    /\ UNCHANGED <<file, cat, seals, green, claims, published, now, settled>>

ApproveTransition(p) ==
    /\ At(p, "claimed")
    /\ MayApprove(Claimed(p), p)
    /\ trans' = Approved(Claimed(p), p)
    /\ Goto(p, "ledger")
    /\ UNCHANGED <<file, cat, seals, green, claims, published, now, settled>>

ApproveLedger(p) ==
    /\ At(p, "ledger")
    /\ Id = Claimed(p)
    /\ \A s \in seals : s.id = Id => s.live
    /\ seals' = Seal(Id, p)
    /\ cat' = [cat EXCEPT !.status = "approved"]
    /\ End(p)
    /\ UNCHANGED <<file, green, claims, trans, published, now, settled>>

FlowRefused(p) ==
    /\ call[p].pc \in {"claimed", "ledger"}
    /\ End(p)
    /\ UNCHANGED <<file, cat, tables, published, now, settled>>

-----------------------------------------------------------------------------
(* 4_procesado -> 5_compartido.  The reviewer names the revision loaded.    *)
LoadForApproval(p) ==
    /\ ~Captured
    /\ Begin(p, "ask", "asked", cat.text)
    /\ UNCHANGED <<file, cat, tables, published, now, settled>>

\* approve_processed_note_and_transition: one row per note.
ApproveProcessed(p) ==
    /\ ~Captured /\ At(p, "asked") /\ ~Locked
    /\ Id = [rev |-> call[p].rev, text |-> call[p].seen]
    /\ file = cat.text
    /\ LET by == IF green # none /\ green.id = Id THEN green.by ELSE p
       IN  /\ Claimable(Id, by)
           /\ claims' = Claim(Id, by)
           /\ green' = [id |-> Id, by |-> by]
           /\ trans' = Approved(Id, by)
    /\ End(p)
    /\ UNCHANGED <<file, cat, seals, published, now, settled>>

(* share_processed_note: checked, then checked again under the lock; the    *)
(* file is written before its receipt and taken back when that fails.       *)
BeginShare(p) ==
    /\ ~Captured
    /\ file = cat.text
    /\ GreenCurrent
    /\ Begin(p, "share", "publish", file)
    /\ UNCHANGED <<file, cat, tables, published, now, settled>>

ReceiptOf(rev) == {r \in receipts : r.rev = rev}

(* Not the code: the approval is not looked up again under the lock. *)
PublishableAsChecked(p) == cat.text = file

Publishable(p) ==
    /\ cat.rev = call[p].rev
    /\ cat.text = file
    /\ GreenCurrent

Publish(p) ==
    /\ At(p, "publish") /\ ~Locked
    /\ Publishable(p)
    /\ ReceiptOf(cat.rev) = {}
    /\ shared' = file
    /\ call' = [call EXCEPT ![p].pc = "receipt", ![p].new = file, ![p].old = shared]
    /\ UNCHANGED <<file, cat, tables, receipts, now, settled>>

\* Not approved any more, or shared already, with the same text or another.
PublishRefused(p) ==
    /\ At(p, "publish") /\ ~Locked
    /\ ~Publishable(p) \/ ReceiptOf(cat.rev) # {}
    /\ End(p)
    /\ UNCHANGED <<file, cat, tables, published, now, settled>>

RecordShared(p) ==
    /\ At(p, "receipt")
    /\ receipts' = receipts \union {[rev |-> call[p].rev, text |-> call[p].new]}
    /\ End(p)
    /\ UNCHANGED <<file, cat, tables, shared, now, settled>>

RecordFails(p) ==
    /\ At(p, "receipt")
    /\ shared' = call[p].old
    /\ End(p)
    /\ UNCHANGED <<file, cat, tables, receipts, now, settled>>

-----------------------------------------------------------------------------
\* Calls that have changed a file and not finished.
Underway(p) == call[p].pc \in {"commit", "cas", "restore", "receipt"}

(* Another program saves the note: an edit the application does not see.    *)
OutsideWrite(body) ==
    /\ Outside
    /\ body # file.body
    /\ file' = [file EXCEPT !.body = body]
    /\ settled' = FALSE
    /\ UNCHANGED <<cat, tables, published, call, now>>

(* _approved_clean_origin of the pipeline, which takes no file lock.        *)
Reconcile ==
    /\ Outside /\ Captured
    /\ cat.text # file
    /\ cat.rev < MaxRevision
    /\ Invalidated
    /\ settled' = ~Locked
    /\ UNCHANGED <<file, green, claims, trans, published, call, now>>

\* The process dies; the system frees its locks.
Crash(p) ==
    /\ ~At(p, "idle")
    /\ End(p)
    /\ settled' = (settled /\ ~Underway(p))
    /\ UNCHANGED <<file, cat, tables, published, now>>

Tick ==
    /\ now < MaxTime
    /\ now' = now + 1
    /\ UNCHANGED <<file, cat, tables, published, call, settled>>

Editing(p) ==
    \/ \E body \in Bodies : UpdateNoteBody(p, body)
    \/ \E status \in Status : MoveNotesToStatus(p, status)
    \/ ApproveNote(p) \/ Reject(p)
    \/ Persist(p) \/ PersistRefused(p) \/ WriteFile(p)
    \/ CommitApproved(p) \/ CommitPlain(p) \/ CommitFails(p) \/ Restore(p)

Approving(p) ==
    \/ RequestApproval(p) \/ ApproveClean(p) \/ AskedInVain(p)
    \/ BeginReview(p) \/ ApproveTransition(p) \/ ApproveLedger(p) \/ FlowRefused(p)
    \/ LoadForApproval(p) \/ ApproveProcessed(p)

Sharing(p) ==
    BeginShare(p) \/ Publish(p) \/ PublishRefused(p) \/ RecordShared(p) \/ RecordFails(p)

Next ==
    /\ UNCHANGED place
    /\ \/ \E p \in People : Editing(p) \/ Approving(p) \/ Sharing(p) \/ Crash(p)
       \/ \E body \in Bodies : OutsideWrite(body)
       \/ Reconcile \/ Tick

Spec == Init /\ [][Next]_vars

-----------------------------------------------------------------------------
(* File and catalog row hold the same text whenever no call is under way,   *)
(* whatever was refused, restored or repeated before (_persist_note).       *)
ProjectionsAgree ==
    (settled /\ \A p \in People : ~Underway(p)) => file = cat.text

(* A revision number names one text: what approvals, claims, transitions    *)
(* and receipts say of a revision they say of the same bytes.               *)
Versions ==
    {Id} \union {s.id : s \in seals} \union {c.id : c \in claims}
      \union {t.id : t \in trans} \union receipts
      \union (IF green = none THEN {} ELSE {green.id})

RevisionNamesText == \A v, w \in Versions : v.rev = w.rev => v.text = w.text

(* An approval of a version is recorded for the reviewer whose claim on it  *)
(* runs at that moment, and nobody else's.                                  *)
ApprovedUnderClaim ==
    [][\A t \in trans' \ trans :
          \E c \in claims' : c.id = t.id /\ c.by = t.by /\ c.until > now]_vars

(* A text written by a call enters the catalog only over the text its author *)
(* had loaded: no accepted edit is overwritten by one that did not see it.   *)
NoLostUpdate ==
    [][\A p \in People :
          ( /\ settled
            /\ At(p, "commit") \/ At(p, "cas")
            /\ call'[p] # call[p]
            /\ cat' # cat /\ cat'.text = call[p].new )
          => cat.text = call[p].seen]_vars

(* What lies in 5_compartido was approved for sharing, byte for byte, also  *)
(* after a crash between the file and its receipt; without a crash it is    *)
(* what the latest receipt names.                                           *)
SharedWasApproved ==
    /\ shared # none => \E t \in trans : t.id.text = shared
    /\ (settled /\ \A p \in People : ~Underway(p)) =>
         /\ (shared = none) <=> (receipts = {})
         /\ \A r \in receipts :
               (\A q \in receipts : q.rev <= r.rev) => r.text = shared
===============================================================================
