---------------------------- MODULE DocumentAgent ----------------------------
(***************************************************************************)
(* The Gestajo agent (fuente/agent/server.py): one HTTPS server, one       *)
(* request at a time, between the vault of this machine and the catalogue  *)
(* of the organisation in the cloud.  A request is admitted by the cloud,  *)
(* acts on the vault, publishes what it did and leaves an audit event;     *)
(* what the cloud does not acknowledge waits in an outbox that             *)
(* sync_pending() replays.  Only metadata travels: a version is the        *)
(* revision of a note and the revision whose text its hash names.          *)
(*                                                                         *)
(* The application edits the same vault meanwhile, the network loses       *)
(* requests and acknowledgements, and a request may die at any step.       *)
(***************************************************************************)
EXTENDS Integers, FiniteSets, Sequences, SequencesExt

CONSTANTS
  Notes,        \* the notes this vault has or will have
  Answering,    \* the handlers that only answer and audit, see AnswerCalls
  Publishing,   \* the handlers that change a note and publish it
  Conflicts,    \* the disagreements a connected folder may have with the vault
  MaxRevision,  \* bound on the revisions of a note
  MaxCalls,     \* bound on the audited requests
  MaxRuns,      \* a folder is synchronised among the first MaxRuns requests
  MaxTurns,     \* bound on how often the right to write one row is taken or given back
  Batch,        \* how many entries list_document_outbox() returns
  none

ASSUME AgentAssumption ==
  /\ none \notin Notes /\ none \notin Nat
  /\ MaxRevision \in Nat \ {0} /\ MaxCalls \in Nat /\ Batch \in Nat \ {0}
  /\ MaxTurns \in Nat
  /\ none \notin Conflicts /\ none \notin [revision : Nat, text : Nat]

VARIABLES
  local,      \* [Notes -> revision], 0 before the note exists
  cloud,      \* [Notes -> version], revision 0 before its registration
  outbox,     \* the waiting entries, oldest first
  events,     \* the audit events the cloud has
  conflicts,  \* the conflicts the cloud has
  turns,      \* [Notes -> how often the cloud took or gave back the right to write its row]
  dropped,    \* the notes whose last acknowledged publication the cloud did not take
  routes,     \* the conflicts this vault can find its files for
  call,       \* the request in progress
  calls,      \* how many requests have been begun
  recorded,   \* the audit events _record_audit() has returned from
  settled     \* [Notes -> the last version a request settled], or none
vars == <<local, cloud, outbox, events, conflicts, turns, dropped, routes, call, calls,
          recorded, settled>>

-----------------------------------------------------------------------------
(* Versions, outbox entries and audit events. *)

Revisions == 0 .. MaxRevision
Version == [revision : Revisions, text : Revisions]
Current(n) == [revision |-> local[n], text |-> local[n]]
Unregistered == [revision |-> 0, text |-> 0]

Metadata(n, v) == [kind |-> "note_metadata", of |-> n, version |-> v]
Audit(e) == [kind |-> "audit_event", of |-> e, version |-> none]
Disagreement(c) == [kind |-> "document_conflict", of |-> c, version |-> none]

Event == (1 .. MaxCalls) \X {"sync_conflict_detect", "done"}
Entry == [kind : {"note_metadata"}, of : Notes, version : Version]
         \cup [kind : {"audit_event"}, of : Event, version : {none}]
         \cup [kind : {"document_conflict"}, of : Conflicts, version : {none}]

Same(e, f) == e.kind = f.kind /\ e.of = f.of          \* one outbox_id

(* An entry that is already queued keeps its place and takes the new payload. *)
Upsert(e) ==
  IF \E i \in DOMAIN outbox : Same(outbox[i], e)
    THEN [i \in DOMAIN outbox |-> IF Same(outbox[i], e) THEN e ELSE outbox[i]]
    ELSE Append(outbox, e)
Without(e) == RemoveFirstMatch(outbox, LAMBDA f : Same(f, e))   \* an id is queued once
Queued(e) == \E i \in DOMAIN outbox : outbox[i] = e
Oldest == SubSeq(outbox, 1, IF Len(outbox) < Batch THEN Len(outbox) ELSE Batch)

-----------------------------------------------------------------------------
(* The handlers, by what the cloud must say before they act. *)

TaxonomyCalls == {"taxonomy_theme_create", "taxonomy_theme_select", "taxonomy_issue_create"}
QuarantineCalls == {"quarantine_read", "quarantine_restore"}
FlowCalls == {"caudal_queue_read", "caudal_job_read", "caudal_job_resume", "caudal_job_cancel",
              "caudal_import", "caudal_transition_approve"}
ReviewCalls == {"caudal_review_read", "caudal_review_original_read", "caudal_review_original_preview",
                "caudal_review_original_open", "caudal_review_captured_read",
                "caudal_review_captured_assistant", "caudal_capture_discard"}
TemplateCalls == {"template_list", "template_read", "template_update", "template_restore_instructions"}
Organisation == {"taxonomy_read", "note_search", "local_ai_prepare", "knowledge_assistant_ask",
                 "note_graph_read", "note_feed_read"}
NoteReads == {"note_read", "note_export", "note_assistant_ask", "note_relations_read",
              "note_lineage_read"}
AnswerCalls == TaxonomyCalls \cup QuarantineCalls \cup FlowCalls \cup ReviewCalls
               \cup TemplateCalls \cup Organisation \cup NoteReads \cup {"agent_update_check"}

Rewrites == {"note_update", "note_theme_update", "note_processed_approve"}
Creates == {"note_manual_create", "note_assistant_persist", "note_merge_create"}
PublishCalls == Rewrites \cup Creates \cup {"note_share"}

ASSUME HandlersAssumption == Answering \subseteq AnswerCalls /\ Publishing \subseteq PublishCalls

Visible(n) == cloud[n].revision > 0
MayWrite(n) == turns[n] % 2 = 0     \* every user may register a note that has no row
(* A request about a note needs the row of that note; a new note made from
   others needs theirs. *)
MayTouch(op, n) ==
  CASE op \in NoteReads \cup Rewrites \cup {"note_share"} -> Visible(n)
    [] op = "note_assistant_persist" -> \E m \in Notes : Visible(m)
    [] op = "note_merge_create" -> Cardinality({m \in Notes : Visible(m)}) > 1
    [] OTHER -> TRUE

-----------------------------------------------------------------------------
(* The request in progress: where it is, what it is sending and, for
   sync_pending(), what it has read. *)

Idle == [op |-> none, at |-> "idle", note |-> none, sending |-> none, items |-> <<>>,
         catalog |-> none, todo |-> {}, unread |-> {}]
At(p) == call.at = p
Goto(p) == call' = [call EXCEPT !.at = p]
Send(e, p) == call' = [call EXCEPT !.sending = e, !.at = p]
Finish == call' = Idle
Known == UNCHANGED <<recorded, settled>>
Vault == <<local, routes>>
Remote == <<cloud, events, conflicts, turns, dropped>>

(* What the cloud has after it received e: PATCH or POST of the note's row, or
   a row of its own that is accepted once (409 counts as accepted). *)
Received(e) ==
  /\ e.kind = "note_metadata" => MayWrite(e.of)
  /\ cloud' = IF e.kind = "note_metadata" THEN [cloud EXCEPT ![e.of] = e.version] ELSE cloud
  /\ dropped' = IF e.kind = "note_metadata" THEN dropped \ {e.of} ELSE dropped
  /\ UNCHANGED turns
  /\ events' = IF e.kind = "audit_event" THEN events \cup {e.of} ELSE events
  /\ conflicts' = IF e.kind = "document_conflict" THEN conflicts \cup {e.of} ELSE conflicts

(* A row this user may no longer write: the PATCH finds none, the POST finds that
   it exists, and that conflict is taken for success. *)
Ignored(e) ==
  /\ e.kind = "note_metadata" /\ ~ MayWrite(e.of)
  /\ dropped' = dropped \cup {e.of}
  /\ UNCHANGED <<cloud, events, conflicts, turns>>

(* One publication: acknowledged, received but not acknowledged, or not received. *)
Publish(p, acknowledged, failed) ==
  /\ At(p)
  /\ \/ Received(call.sending) /\ Goto(acknowledged)
     \/ Ignored(call.sending) /\ Goto(acknowledged)
     \/ Received(call.sending) /\ Goto(failed)
     \/ UNCHANGED Remote /\ Goto(failed)
  /\ UNCHANGED <<Vault, outbox, calls, recorded, settled>>

-----------------------------------------------------------------------------
(* Every request: dispatched, admitted or refused, and audited at its end. *)

(* A request that the cloud does not admit, for its user, its role or its note,
   or that it cannot be asked about, changes nothing. *)
Request(op, n) ==
  /\ At("idle") /\ calls < MaxCalls /\ MayTouch(op, n)
  /\ op = "sync_run" => calls < MaxRuns
  /\ calls' = calls + 1
  /\ call' = [Idle EXCEPT !.op = op, !.at = "act", !.note = n]
  /\ UNCHANGED <<Vault, Remote, outbox>> /\ Known

(* The vault declines: a revision that is not the expected one, an approval
   whose note has moved on, a conflict whose files have changed. *)
Refuse ==
  /\ call.at \in {"act", "reload"}
  /\ Finish
  /\ UNCHANGED <<Vault, Remote, outbox, calls>> /\ Known

Audited(kind) == Send(Audit(<<calls, kind>>), "audit")

Answer ==
  /\ At("act") /\ call.op \in Answering
  /\ Audited("done")
  /\ UNCHANGED <<Vault, Remote, outbox, calls>> /\ Known

(* The vault of this machine does what it was asked: a rewritten note has its
   next revision. *)
Rewrite(n) ==
  /\ At("act") /\ call.op \in Rewrites /\ call.note = n /\ local[n] \in 1 .. MaxRevision - 1
  /\ local' = [local EXCEPT ![n] = @ + 1]
  /\ Send(Metadata(n, [revision |-> local[n] + 1, text |-> local[n] + 1]),
          IF call.op = "note_update" THEN "publish" ELSE "reload")
  /\ UNCHANGED <<routes, Remote, outbox, calls>> /\ Known

(* The captured Markdown under review: its answer says "pending_sync", but it is
   neither published nor queued. *)
UpdateFlowReviewCaptured(n) ==
  /\ At("act") /\ call.op = "caudal_review_captured_update" /\ call.note = n
  /\ local[n] \in 1 .. MaxRevision - 1
  /\ local' = [local EXCEPT ![n] = @ + 1]
  /\ Audited("done")
  /\ UNCHANGED <<routes, Remote, outbox, calls>> /\ Known

CreateNote(n) ==
  /\ At("act") /\ call.op \in Creates /\ call.note = n /\ local[n] = 0
  /\ local' = [local EXCEPT ![n] = 1]
  /\ Send(Metadata(n, [revision |-> 1, text |-> 1]), "publish")
  /\ UNCHANGED <<routes, Remote, outbox, calls>> /\ Known

ShareNote(n) ==
  /\ At("act") /\ call.op = "note_share" /\ call.note = n /\ local[n] > 0
  /\ Send(Metadata(n, Current(n)), "reload")
  /\ UNCHANGED <<Vault, Remote, outbox, calls>> /\ Known

(* What is published is read again from the vault, which may have moved on: a
   Theme change publishes what it finds, an approval insists on its revision,
   and a share joins the revision it finds to the hash it shared. *)
MoveNoteToTheme(n) ==
  /\ At("reload") /\ call.op = "note_theme_update" /\ call.note = n
  /\ Send(Metadata(n, Current(n)), "publish")
  /\ UNCHANGED <<Vault, Remote, outbox, calls>> /\ Known

ApproveProcessedNote(n) ==
  /\ At("reload") /\ call.op = "note_processed_approve" /\ call.note = n
  /\ call.sending.version = Current(n)
  /\ Goto("publish")
  /\ UNCHANGED <<Vault, Remote, outbox, calls>> /\ Known

PublishShare(n) ==
  /\ At("reload") /\ call.op = "note_share" /\ call.note = n
  /\ Send(Metadata(n, [call.sending.version EXCEPT !.revision = local[n]]), "publish")
  /\ UNCHANGED <<Vault, Remote, outbox, calls>> /\ Known

PublishNoteMetadata == Publish("publish", "delivered", "undelivered")

SettleKeeping ==
  /\ call.at \in {"delivered", "undelivered"}
  /\ outbox' = IF At("delivered") THEN outbox ELSE Upsert(call.sending)
  /\ settled' = [settled EXCEPT ![call.note] = call.sending.version]
  /\ Audited("done")
  /\ UNCHANGED <<Vault, Remote, calls, recorded>>

(* "synced" when the cloud acknowledged, "pending_sync" otherwise. *)
Settle ==
  /\ call.at \in {"delivered", "undelivered"}
  /\ outbox' = IF At("delivered") THEN Without(call.sending) ELSE Upsert(call.sending)
  /\ settled' = [settled EXCEPT ![call.note] = call.sending.version]
  /\ Audited("done")
  /\ UNCHANGED <<Vault, Remote, calls, recorded>>

PublishAudit == Publish("audit", "heard", "unheard")

(* A request ends with its audit; a conflict found on the way has its own. *)
RecordAudit ==
  /\ call.at \in {"heard", "unheard"}
  /\ outbox' = IF At("heard") THEN outbox ELSE Upsert(call.sending)
  /\ recorded' = recorded \cup {call.sending.of}
  /\ IF call.sending.of[2] = "sync_conflict_detect" THEN Audited("done") ELSE Finish
  /\ UNCHANGED <<Vault, Remote, calls, settled>>

-----------------------------------------------------------------------------
(* A connected folder: its conflicts are published by what both sides say, and
   found again through a route. *)

(* The folders are synchronised (FolderSync); c is what both sides say when the
   files are read again, which need not be what the report was about. *)
RunSync(c) ==
  /\ At("act") /\ call.op = "sync_run"
  /\ routes' = routes \cup {c}
  /\ Send(Disagreement(c), "conflict")
  /\ UNCHANGED <<local, Remote, outbox, calls>> /\ Known

RunSyncAgreed ==
  /\ At("act") /\ call.op = "sync_run"
  /\ Audited("done")
  /\ UNCHANGED <<Vault, Remote, outbox, calls>> /\ Known

PublishConflict == Publish("conflict", "published", "unpublished")

SettleConflict ==
  /\ call.at \in {"published", "unpublished"}
  /\ outbox' = IF At("published") THEN Without(call.sending) ELSE Upsert(call.sending)
  /\ Audited("sync_conflict_detect")
  /\ UNCHANGED <<Vault, Remote, calls>> /\ Known

(* The user decides on a conflict that the cloud lists and this vault has a route
   to, while the files still say the same; otherwise the request is refused.  The
   decision says which side is shown here, and nothing else reads it. *)
ResolveConflict(c) ==
  /\ At("act") /\ call.op = "sync_conflict_resolve"
  /\ c \in conflicts \cap routes
  /\ Audited("done")
  /\ UNCHANGED <<Vault, Remote, outbox, calls>> /\ Known

-----------------------------------------------------------------------------
(* sync_pending(): replay the outbox until something fails, then compare the
   catalogue of the vault with the one of the cloud and publish what differs. *)

SyncPending ==
  /\ At("idle")
  /\ call' = [Idle EXCEPT !.op = "sync_pending", !.at = "act"]
  /\ UNCHANGED <<Vault, Remote, outbox, calls>> /\ Known

ReadOutbox ==
  /\ At("act") /\ call.op = "sync_pending"
  /\ call' = [call EXCEPT !.at = "drain", !.catalog = local, !.items = Oldest]
  /\ UNCHANGED <<Vault, Remote, outbox, calls>> /\ Known

ForgetReplayedFirst ==
  /\ At("drain") /\ call.items # <<>>
  /\ outbox' = Without(Head(call.items))
  /\ Send(Head(call.items), "replay")
  /\ UNCHANGED <<Vault, Remote, calls>> /\ Known

ReplayNext ==
  /\ At("drain") /\ call.items # <<>>
  /\ Send(Head(call.items), "replay")
  /\ UNCHANGED <<Vault, Remote, outbox, calls>> /\ Known

Replay == Publish("replay", "replayed", "compare")

Replayed ==
  /\ At("replayed")
  /\ outbox' = Without(call.sending)
  /\ call' = [call EXCEPT !.at = "drain", !.items = Tail(@)]
  /\ UNCHANGED <<Vault, Remote, calls>> /\ Known

DifferingKnown(catalog) ==
  {n \in Notes : Visible(n) /\ cloud[n] # [revision |-> catalog[n], text |-> catalog[n]]}
Differing(catalog) ==
  {n \in Notes : catalog[n] > 0 /\ cloud[n] # [revision |-> catalog[n], text |-> catalog[n]]}

CompareRevisions ==
  /\ At("compare") \/ (At("drain") /\ call.items = <<>>)
  /\ call' = [call EXCEPT !.at = "repair", !.sending = none,
                          !.todo = {n \in Differing(call.catalog) : cloud[n].revision < call.catalog[n]}]
  /\ UNCHANGED <<Vault, Remote, outbox, calls>> /\ Known

CompareCatalogs ==
  /\ At("compare") \/ (At("drain") /\ call.items = <<>>)
  /\ call' = [call EXCEPT !.at = "repair", !.sending = none, !.todo = Differing(call.catalog)]
  /\ UNCHANGED <<Vault, Remote, outbox, calls>> /\ Known

CatalogUnread ==
  /\ At("compare") \/ (At("drain") /\ call.items = <<>>)
  /\ Finish
  /\ UNCHANGED <<Vault, Remote, outbox, calls>> /\ Known

(* One note that differs, with the revision and the hash of the catalogue as it
   was read at the start; a note that cannot be read is passed over. *)
Repair(n) ==
  /\ At("repair") /\ n \in call.todo
  /\ call' = [call EXCEPT !.at = "mend", !.todo = @ \ {n},
       !.sending = Metadata(n, [revision |-> call.catalog[n], text |-> call.catalog[n]])]
  /\ UNCHANGED <<Vault, Remote, outbox, calls>> /\ Known

PassOver(n) ==
  /\ At("repair") /\ n \in call.todo
  /\ call' = [call EXCEPT !.todo = @ \ {n}, !.unread = @ \cup {n}]
  /\ UNCHANGED <<Vault, Remote, outbox, calls>> /\ Known

Mend == Publish("mend", "repair", "unmended")

Unmended ==
  /\ At("unmended")
  /\ outbox' = Upsert(call.sending)
  /\ Finish
  /\ UNCHANGED <<Vault, Remote, calls>> /\ Known

Synced ==
  /\ At("repair") /\ call.todo = {}
  /\ Finish
  /\ UNCHANGED <<Vault, Remote, outbox, calls>> /\ Known

-----------------------------------------------------------------------------
(* The rest of the world. *)

(* The application creates and edits notes. *)
EditNote(n) ==
  /\ local[n] < MaxRevision
  /\ local' = [local EXCEPT ![n] = @ + 1]
  /\ UNCHANGED <<routes, Remote, outbox, call, calls>> /\ Known

(* The organisation takes the right to write a note's row from this user, who
   still reads it, or gives it back. *)
ChangeRights(n) ==
  /\ Visible(n) /\ turns[n] < MaxTurns
  /\ turns' = [turns EXCEPT ![n] = @ + 1]
  /\ UNCHANGED <<Vault, cloud, events, conflicts, dropped, outbox, call, calls>> /\ Known

(* The process ends, or an error nobody catches ends the request. *)
Die ==
  /\ ~ At("idle")
  /\ Finish
  /\ UNCHANGED <<Vault, Remote, outbox, calls>> /\ Known

Init ==
  /\ local \in [Notes -> {0, 1}] /\ cloud = [n \in Notes |-> Unregistered]
  /\ outbox = <<>> /\ events = {} /\ turns = [n \in Notes |-> 0] /\ dropped = {}
  /\ conflicts \in SUBSET Conflicts /\ routes = conflicts   \* of an earlier session
  /\ call = Idle /\ calls = 0 /\ recorded = {}
  /\ settled = [n \in Notes |-> none]

Handled ==
  \/ \E op \in (Answering \cap NoteReads) \cup Publishing \cup {"caudal_review_captured_update"},
        n \in Notes : Request(op, n)
  \/ \E op \in Answering \ NoteReads : Request(op, none)
  \/ Conflicts # {} /\ \E op \in {"sync_run", "sync_conflict_resolve"} : Request(op, none)
  \/ SyncPending \/ Refuse \/ Answer
  \/ \E n \in Notes : UpdateFlowReviewCaptured(n)
  \/ \E n \in Notes : \/ Rewrite(n) \/ CreateNote(n) \/ ShareNote(n) \/ MoveNoteToTheme(n)
                      \/ ApproveProcessedNote(n) \/ PublishShare(n)
  \/ PublishNoteMetadata \/ Settle \/ PublishAudit \/ RecordAudit
  \/ (\E c \in Conflicts : RunSync(c)) \/ RunSyncAgreed \/ PublishConflict \/ SettleConflict
  \/ \E c \in conflicts : ResolveConflict(c)

Synchronised ==
  \/ ReadOutbox \/ ReplayNext \/ Replay \/ Replayed \/ CompareCatalogs \/ CatalogUnread
  \/ \E n \in Notes : Repair(n) \/ PassOver(n)
  \/ Mend \/ Unmended \/ Synced

Next ==
  \/ Handled \/ Synchronised \/ Die
  \/ \E n \in Notes : EditNote(n) \/ ChangeRights(n)

Spec == Init /\ [][Next]_vars

(* A request ends.  The client asks for sync_pending() again and again, and no step of it fails
   for ever: neither the network nor the process is down from some point on. *)
FairSpec ==
  /\ Spec /\ WF_vars(Next /\ ~ At("idle") /\ call' # call) /\ SF_vars(SyncPending) /\ SF_vars(ReadOutbox) /\ SF_vars(ReplayNext)
  /\ SF_vars(Replay /\ call'.at = "replayed") /\ SF_vars(Replayed) /\ SF_vars(CompareCatalogs)
  /\ SF_vars(\E n \in Notes : Repair(n)) /\ SF_vars(Mend /\ call'.at = "repair")

-----------------------------------------------------------------------------
(* Properties. *)

(* The state is well typed and every outbox_id is queued once. *)
TypeOK ==
  /\ local \in [Notes -> Revisions] /\ cloud \in [Notes -> Version]
  /\ outbox \in Seq(Entry)
  /\ \A i, j \in DOMAIN outbox : Same(outbox[i], outbox[j]) => i = j
  /\ events \subseteq Event /\ recorded \subseteq Event
  /\ conflicts \subseteq Conflicts /\ routes \subseteq Conflicts
  /\ turns \in [Notes -> 0 .. MaxTurns] /\ dropped \subseteq Notes
  /\ calls \in 0 .. MaxCalls
  /\ settled \in [Notes -> Version \cup {none}]

(* No audit event is lost: whatever the network does and wherever a request
   dies, an event that was recorded is in the cloud or waits to be sent. *)
AuditKept == \A e \in recorded : e \in events \/ Queued(Audit(e))

(* The cloud has version v of the note, but for the one loss the code cannot see: a
   conflict, on the note's last publication, that was taken for success. *)
Has(n, v) == cloud[n] = v \/ n \in dropped

(* A change a request has published, "synced" or "pending_sync", and that the
   application has not edited since, is in the cloud or waits to be sent: no
   later replay, repair or request takes the cloud away from it.  (A capture that
   is edited under review is not published; the next comparison finds it.) *)
WorkKept ==
  \A n \in Notes : settled[n] = Current(n) =>
    Has(n, settled[n]) \/ Queued(Metadata(n, settled[n]))

(* sync_pending() heals: when it has come to its end, the cloud has of every note
   that could be read the version the catalogue had when it began, whatever
   stale entries it replayed on the way, whatever was shared too late and whatever
   was dropped before. *)
SyncHeals ==
  At("repair") /\ call.todo = {} =>
    \A n \in Notes : call.catalog[n] > 0 /\ n \notin call.unread =>
      Has(n, [revision |-> call.catalog[n], text |-> call.catalog[n]])

(* Everything arrives: once nobody edits and nobody asks any more, the outbox
   empties and the cloud ends with the catalogue of this vault, what was dropped or
   never queued included; the oldest entry, which holds up all the others while it
   fails, does not do so for ever.  Only a row this user may not write in the end
   differs for ever and is queued again whenever the network fails. *)
EverythingArrives ==
  <>[]/\ \A i \in DOMAIN outbox : outbox[i].kind = "note_metadata" /\ ~ MayWrite(outbox[i].of)
      /\ \A n \in Notes : local[n] > 0 /\ MayWrite(n) => cloud[n] = Current(n)
=============================================================================
