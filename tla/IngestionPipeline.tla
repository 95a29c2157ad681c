-------------------------- MODULE IngestionPipeline --------------------------
(* One ingestion job of application/ingestion.py, from 1_volcado to its end,
   driven by several threads of one process (watcher poll, agent request, UI
   bridge) over the shared job row, the vault files, the retrieval index and
   the approval tables. Every durable read or write a thread can be interrupted
   around is a step of its own; the optimistic revision of the job row is the
   set `fresh` of threads whose snapshot is still the current revision. *)
EXTENDS JobStages, FiniteSets

CONSTANTS
  Workers,      \* threads that run jobs (watcher poll, agent or UI resume)
  Operators,    \* threads that only serve cancellation requests
  LegacyAuto,   \* legacy_auto_processing: continue to a generated note
  Vectors,      \* runtime policy: vector_index_enabled
  Faults,       \* error codes and degraded outcomes the handlers may meet
  Events,       \* what the environment may do: "wait", "edit"
  MaxVersion,   \* bound: versions of a captured Markdown file
  AttemptCap,   \* bound: attempt_count saturates here
  MaxInterruptions \* bound: restarts and writes the database refuses

Threads == Workers \union Operators

ASSUME PipelineAssumption ==
  /\ LegacyAuto \in BOOLEAN /\ Vectors \in BOOLEAN
  /\ MaxVersion \in Nat \ {0} /\ AttemptCap \in Nat \ {0} /\ MaxInterruptions \in Nat

VARIABLES
  row,      \* the jobs table row
  fresh,    \* threads whose snapshot has the row's current revision
  files,    \* source, 2_copiado, 3_capturado, note and extraction cache on disk;
            \* stuck (a ghost): what a clean-up tried and failed to remove
  index,    \* index_artifacts rows, published chunk vectors, note entry
  catalog,  \* note catalog, approvals of its current revisions, document identity
  granted,  \* approved pipeline transitions
  worker,   \* each thread's position and process-local _RunContext
  interruptions \* not in the program: restarts and refused writes so far

vars == <<row, fresh, files, index, catalog, granted, worker, interruptions>>

Slots == {"stem", "stem_ext"}   \* the two names save_clean_md may choose

Versions == 0 .. MaxVersion     \* 0: the file or entry does not exist

Codes == {"none", "cancelled_by_user", "resource_wait", "awaiting_clean_approval",
          "awaiting_transition_approval", "llm_unavailable_under_policy",
          "job_revision_conflict", "job_store_busy", "illegal_job_transition",
          "missing_artifact", "source_not_stable", "path_not_authorized",
          "transient_io", "processing_error", "skipped"} \union Faults

Rows == [stage : Stages, status : {"pending", "claimed"} \union TerminalStages,
         attempts : 0 .. AttemptCap, code : Codes, cancel : BOOLEAN,
         dirty : BOOLEAN, clean : Slots \union {"none"}, note : BOOLEAN]

Positions == {"idle", "loop", "boundary", "handle", "register", "publish",
              "advance", "commit", "rewind", "rewound", "park", "delete",
              "failing", "quarantine", "retry", "finalize", "compensate", "settle"}

Contexts == [pc : Positions, job : Rows, next : Rows, to : Stages \union {"none"},
             slot : Slots \union {"none"}, code : Codes, tries : 0 .. 2,
             content : Versions, origin : Versions]

NewRow == [stage |-> "discovered", status |-> "pending", attempts |-> 0,
           code |-> "none", cancel |-> FALSE, dirty |-> FALSE,
           clean |-> "none", note |-> FALSE]

Resting == [pc |-> "idle", job |-> NewRow, next |-> NewRow, to |-> "none",
            slot |-> "none", code |-> "none", tries |-> 0,
            content |-> 0, origin |-> 0]

Init ==
  /\ row = NewRow
  /\ fresh = {}
  /\ files = [src |-> "inbox", dirty |-> FALSE, cache |-> FALSE,
              clean |-> [s \in Slots |-> 0], note |-> 0, stuck |-> {}]
  /\ index = [rows |-> FALSE, vec |-> 0, noteRow |-> FALSE]
  /\ catalog = [hash |-> [s \in Slots |-> 0], ok |-> {}, identity |-> "none"]
  /\ granted = {}
  /\ worker = [w \in Threads |-> Resting]
  /\ interruptions = 0

-----------------------------------------------------------------------------
(* Steps of a thread over the shared row *)

At(w, pc) == worker[w].pc = pc

Become(w, context) == worker' = [worker EXCEPT ![w] = context]

(* The thread returns, or an exception leaves resume(). *)
Rest(w) == Become(w, Resting) /\ fresh' = fresh \ {w}

(* get_job(): the thread goes on with the current row as its snapshot. *)
Reload(w, context) ==
  /\ Become(w, [context EXCEPT !.job = row])
  /\ fresh' = fresh \union {w}

(* UPDATE ... WHERE revision = ?: it matches a current snapshot, and its new
   revision makes every other snapshot stale. *)
Matches(w) == w \in fresh

(* Not the code: an update that leaves the revision as it was. *)
SaveSameRevision(w, new) == row' = new /\ fresh' = fresh \union {w}

Save(w, new) == row' = new /\ fresh' = {w}

Raised(w, code) == [worker[w] EXCEPT !.pc = "failing", !.code = code, !.slot = "none"]

Raise(w, code) == Become(w, Raised(w, code)) /\ UNCHANGED fresh

Advancing(w, stage) == [worker[w] EXCEPT !.pc = "advance", !.to = stage]

Advance(w, stage) == Become(w, Advancing(w, stage)) /\ UNCHANGED fresh

Parking(w, code) == [worker[w] EXCEPT !.pc = "park", !.code = code]

(* Not the code: a cancellation leaves the job waiting. *)
CancellingParks(w) == [worker[w] EXCEPT !.pc = "park", !.code = "cancelled_by_user"]

Cancelling(w) == [worker[w] EXCEPT !.pc = "compensate", !.to = "cancelled",
                                   !.code = "cancelled_by_user"]

(* The process dies, or the database refuses a write. *)
Interrupted ==
  /\ interruptions < MaxInterruptions
  /\ interruptions' = interruptions + 1

Bump(attempts) == IF attempts < AttemptCap THEN attempts + 1 ELSE attempts

-----------------------------------------------------------------------------
(* What the handlers look up before they act *)

HasDirty(j) == j.dirty /\ files.dirty

HasClean(j) == j.clean # "none" /\ files.clean[j.clean] > 0

(* _approved_clean_origin(): the file, its catalog hash and an approval agree. *)
ApprovedClean(j) ==
  /\ HasClean(j)
  /\ catalog.hash[j.clean] = files.clean[j.clean]
  /\ j.clean \in catalog.ok

(* The same look-up reconciles a catalog hash that an outside edit left behind,
   invalidating the approvals of the previous content. *)
Reconciled(j) ==
  IF HasClean(j) /\ catalog.hash[j.clean] \notin {0, files.clean[j.clean]}
    THEN [catalog EXCEPT !.hash[j.clean] = files.clean[j.clean],
                         !.ok = @ \ {j.clean}]
    ELSE catalog

(* _content(): the text in memory, or the captured file's. *)
ContentOf(w) ==
  IF worker[w].content # 0 THEN worker[w].content
  ELSE files.clean[worker[w].job.clean]

DurableNote == catalog.identity = "note" /\ files.note > 0

Identified(who) == IF catalog.identity = "none"
                     THEN [catalog EXCEPT !.identity = who] ELSE catalog

(* The row already says that it waits for this reason. *)
Waits(reason) ==
  row.status = "pending" /\ (reason = "resource_wait" \/ row.code = reason)

(* What every wait writes: the job is pending again, and says why. *)
Waiting(reason) == [row EXCEPT !.status = "pending", !.code = reason]

-----------------------------------------------------------------------------
(* resume() up to the handler *)

(* A parked generation is refused before anything else is looked at; the
   service only records the wait. *)
RefuseLlm(w) ==
  /\ worker[w].pc = "loop" \/ (At(w, "idle") /\ w \in Workers)
  /\ row.stage = "generated_candidate"
  /\ worker[w].pc = "idle" \/ ~row.cancel
  /\ "wait" \in Events
  /\ IF Waits("llm_unavailable_under_policy")
       THEN UNCHANGED row /\ fresh' = fresh \ {w}
       ELSE row' = Waiting("llm_unavailable_under_policy") /\ fresh' = {}
  /\ Become(w, Resting)
  /\ UNCHANGED <<files, index, catalog, granted, interruptions>>

(* A pending job is claimed, a claimed one is taken as it is. *)
Resume(w) ==
  /\ w \in Workers /\ At(w, "idle")
  /\ row.stage \notin TerminalStages
  /\ \/ /\ row.cancel
        /\ Reload(w, Cancelling(w))
        /\ UNCHANGED row
     \/ /\ ~row.cancel /\ row.status = "pending"
        /\ Save(w, [row EXCEPT !.status = "claimed", !.attempts = Bump(@)])
        /\ Become(w, [Resting EXCEPT !.pc = "loop", !.job = row'])
     \/ /\ ~row.cancel /\ row.status # "pending"
        /\ Reload(w, [Resting EXCEPT !.pc = "loop"])
        /\ UNCHANGED row
  /\ UNCHANGED <<files, index, catalog, granted, interruptions>>

(* A job parked for its review: process_file() and process_pending() leave it
   alone, though looking up its approval reconciles the catalog. *)
Parked ==
  /\ row.stage = "saved_clean" /\ row.code = "awaiting_clean_approval"
  /\ ~ApprovedClean(row)

PollParked(w) ==
  /\ w \in Workers /\ At(w, "idle") /\ Parked
  /\ catalog' = Reconciled(row)
  /\ UNCHANGED <<row, fresh, files, index, granted, worker, interruptions>>

(* The head of the loop: reload, cancellation, human approval, admission. *)
Loop(w) ==
  /\ At(w, "loop")
  /\ UNCHANGED <<row, files, index, granted, interruptions>>
  /\ \/ /\ row.stage \in TerminalStages
        /\ Rest(w) /\ UNCHANGED catalog
     \/ /\ row.stage \notin TerminalStages /\ row.cancel
        /\ Reload(w, Cancelling(w)) /\ UNCHANGED catalog
     \/ /\ row.stage = "saved_clean" /\ ~row.cancel /\ ~ApprovedClean(row)
        /\ catalog' = Reconciled(row)
        /\ Reload(w, Parking(w, "awaiting_clean_approval"))
     \/ /\ row.stage \notin TerminalStages /\ ~row.cancel
        /\ row.stage = "saved_clean" => ApprovedClean(row)
        /\ \/ Reload(w, [worker[w] EXCEPT !.pc = "boundary"])
           \/ "wait" \in Events /\ Reload(w, Parking(w, "resource_wait"))
        /\ UNCHANGED catalog

(* Admitted: the last reload before a handler, so that a requested job runs none. *)
Boundary(w) ==
  /\ At(w, "boundary")
  /\ \/ row.stage \in TerminalStages /\ Rest(w)
     \/ row.stage \notin TerminalStages /\ row.cancel /\ Reload(w, Cancelling(w))
     \/ /\ row.stage \notin TerminalStages /\ ~row.cancel
        /\ Reload(w, [worker[w] EXCEPT !.pc = "handle"])
  /\ UNCHANGED <<row, files, index, catalog, granted, interruptions>>

(* The waits: leave the job pending with its reason, wherever it stands. *)
Park(w) ==
  /\ At(w, "park")
  /\ IF Waits(worker[w].code)
       THEN UNCHANGED row /\ fresh' = fresh \ {w}
       ELSE row' = Waiting(worker[w].code) /\ fresh' = {}
  /\ Become(w, Resting)
  /\ UNCHANGED <<files, index, catalog, granted, interruptions>>

-----------------------------------------------------------------------------
(* The handlers, each up to its _advance() *)

Handling(w, stage) == At(w, "handle") /\ worker[w].job.stage = stage

(* Any handler may fail with an operating-system or a programming error, and
   the registration of a captured file after the file was saved. *)
HandlerFault(w) ==
  /\ worker[w].pc \in {"handle", "register"}
  /\ \E code \in Faults \intersect {"transient_io", "processing_error"} : Raise(w, code)
  /\ UNCHANGED <<row, files, index, catalog, granted, interruptions>>

Stabilize(w) ==
  /\ Handling(w, "discovered")
  /\ IF files.src = "inbox" THEN Advance(w, "stabilized")
                            ELSE Raise(w, "source_not_stable")
  /\ UNCHANGED <<row, files, index, catalog, granted, interruptions>>

CopyToDirty(w) ==
  /\ Handling(w, "stabilized")
  /\ \/ /\ HasDirty(worker[w].job)
        /\ Advance(w, "copied_dirty") /\ UNCHANGED files
     \/ /\ ~HasDirty(worker[w].job) /\ "1_to_2" \notin granted
        /\ Become(w, Parking(w, "awaiting_transition_approval"))
        /\ UNCHANGED <<files, fresh>>
     \/ /\ ~HasDirty(worker[w].job) /\ "1_to_2" \in granted /\ files.src = "inbox"
        /\ files' = [files EXCEPT !.dirty = TRUE]
        /\ Advance(w, "copied_dirty")
     \/ /\ ~HasDirty(worker[w].job) /\ "1_to_2" \in granted /\ files.src # "inbox"
        /\ Raise(w, "transient_io") /\ UNCHANGED files
  /\ UNCHANGED <<row, index, catalog, granted, interruptions>>

(* Extraction: two attempts for corrupt content, each recorded on the row. *)
Extract(w) ==
  /\ Handling(w, "copied_dirty")
  /\ \/ /\ ~HasDirty(worker[w].job)
        /\ Raise(w, "missing_artifact") /\ UNCHANGED <<row, files>>
     \/ /\ HasDirty(worker[w].job)
        /\ files' = [files EXCEPT !.cache = TRUE]
        /\ Become(w, [Advancing(w, "extracted") EXCEPT !.content = 1])
        /\ UNCHANGED <<row, fresh>>
     \/ /\ HasDirty(worker[w].job) /\ "skipped" \in Faults
        /\ Become(w, [worker[w] EXCEPT !.pc = "compensate", !.to = "skipped",
                                       !.code = "skipped"])
        /\ UNCHANGED <<row, files, fresh>>
     \/ /\ HasDirty(worker[w].job) /\ "corrupt_content" \in Faults /\ Matches(w)
        /\ Save(w, [row EXCEPT !.code = "corrupt_content"])
        /\ LET tried == [worker[w] EXCEPT !.job = row', !.tries = @ + 1] IN
           Become(w, IF tried.tries < MaxAttempts["corrupt_or_unsupported"]
                       THEN tried
                       ELSE [tried EXCEPT !.pc = "failing", !.code = "corrupt_content"])
        /\ UNCHANGED files
     \/ /\ HasDirty(worker[w].job) /\ "corrupt_content" \in Faults /\ ~Matches(w)
        /\ Raise(w, "job_revision_conflict") /\ UNCHANGED <<row, files>>
  /\ UNCHANGED <<index, catalog, granted, interruptions>>

FreeSlot == IF files.clean["stem"] = 0 THEN "stem" ELSE "stem_ext"

SaveClean(w) ==
  /\ Handling(w, "extracted")
  /\ LET job == worker[w].job IN
     \/ /\ HasClean(job)
        /\ Advance(w, "saved_clean") /\ UNCHANGED files
     \/ /\ ~HasClean(job) /\ ~HasDirty(job)
        /\ Raise(w, "missing_artifact") /\ UNCHANGED files
     \/ /\ ~HasClean(job) /\ HasDirty(job) /\ "2_to_3" \notin granted
        /\ Become(w, Parking(w, "awaiting_transition_approval"))
        /\ UNCHANGED <<files, fresh>>
     \/ /\ ~HasClean(job) /\ HasDirty(job) /\ "2_to_3" \in granted
        /\ files' = [files EXCEPT !.clean[FreeSlot] = 1]
        /\ Become(w, [worker[w] EXCEPT !.pc = "register", !.slot = FreeSlot, !.content = 1])
        /\ UNCHANGED fresh
  /\ UNCHANGED <<row, index, catalog, granted, interruptions>>

(* The rest of _run_save_clean: drop the cache, register the canonical record. *)
RegisterCanonical(w) ==
  /\ At(w, "register")
  /\ files' = [files EXCEPT !.cache = FALSE]
  /\ LET slot == worker[w].slot
         hash == catalog.hash[slot]
         text == files.clean[slot] IN
     \/ /\ text > 0 /\ hash = 0
        /\ catalog' = [catalog EXCEPT !.hash[slot] = text]
        /\ Advance(w, "saved_clean")
     \/ text = 1 /\ hash = 1 /\ Advance(w, "saved_clean") /\ UNCHANGED catalog
     \/ /\ text > 0 /\ hash > 0 /\ <<text, hash>> # <<1, 1>>
        /\ Raise(w, "path_not_authorized") /\ UNCHANGED catalog
     \/ text = 0 /\ Raise(w, "transient_io") /\ UNCHANGED catalog
  /\ UNCHANGED <<row, index, granted, interruptions>>

(* _revalidate_clean_approval() failed: the job goes back to the review. *)
Unapproved(w) ==
  /\ worker[w].pc = "handle"
  /\ worker[w].job.stage \in Owners.clean
  /\ ~ApprovedClean(worker[w].job)
  /\ catalog' = Reconciled(worker[w].job)
  /\ Become(w, [worker[w] EXCEPT !.pc = "rewind"])
  /\ UNCHANGED <<row, fresh, files, index, granted, interruptions>>

(* It succeeded: the handler works for the version it found approved. *)
Approved(w, stage) == Handling(w, stage) /\ ApprovedClean(worker[w].job)

Origin(w) == files.clean[worker[w].job.clean]

Serving(w, stage) == [Advancing(w, stage) EXCEPT !.origin = Origin(w)]

(* Chunk ids are recorded before the vectors are written. *)
IndexChunks(w) ==
  /\ Approved(w, "saved_clean")
  /\ \/ /\ ~Vectors \/ "vectors_unavailable" \in Faults
        /\ catalog' = Identified("source")
        /\ Become(w, Serving(w, "indexed_chunks"))
        /\ UNCHANGED index
     \/ /\ Vectors
        /\ index' = [index EXCEPT !.rows = TRUE]
        /\ Become(w, [worker[w] EXCEPT !.pc = "publish", !.origin = Origin(w),
                                       !.content = ContentOf(w)])
        /\ UNCHANGED catalog
  /\ UNCHANGED <<row, fresh, files, granted, interruptions>>

PublishChunks(w) ==
  /\ At(w, "publish")
  /\ \/ /\ index' = [index EXCEPT !.vec = worker[w].content]
        /\ catalog' = Identified("source")
        /\ Advance(w, "indexed_chunks")
     \/ /\ "vectors_unavailable" \in Faults
        /\ index' = [index EXCEPT !.rows = FALSE]
        /\ Advance(w, "indexed_chunks") /\ UNCHANGED catalog
     \/ /\ "processing_error" \in Faults
        /\ Raise(w, "processing_error") /\ UNCHANGED <<index, catalog>>
  /\ UNCHANGED <<row, files, granted, interruptions>>

(* Not the code: an identity registered while indexing is not replaced. *)
CompleteCaptureKeepsIdentity(w) ==
  /\ Approved(w, "indexed_chunks") /\ ~LegacyAuto
  /\ catalog' = Identified("clean")
  /\ Become(w, Serving(w, "completed"))
  /\ UNCHANGED <<row, fresh, files, index, granted, interruptions>>

CompleteCapture(w) ==
  /\ Approved(w, "indexed_chunks") /\ ~LegacyAuto
  /\ catalog' = [catalog EXCEPT !.identity = "clean"]
  /\ Become(w, Serving(w, "completed"))
  /\ UNCHANGED <<row, fresh, files, index, granted, interruptions>>

(* Generation (and its replay after a restart) may meet a full budget or
   produce an invalid candidate. *)
Generate(w) ==
  /\ \/ Approved(w, "indexed_chunks") /\ LegacyAuto
     \/ Approved(w, "generated_candidate")
  /\ \/ Become(w, [Serving(w, NextStage[worker[w].job.stage])
                    EXCEPT !.content = ContentOf(w)])
     \/ "invalid_model_output" \in Faults /\ Become(w, Raised(w, "invalid_model_output"))
     \/ "wait" \in Events /\ Become(w, Parking(w, "resource_wait"))
  /\ UNCHANGED <<row, fresh, files, index, catalog, granted, interruptions>>

(* The note is written before its identity, which may fail to follow. *)
SaveNote(w) ==
  /\ Approved(w, "validated_candidate")
  /\ files' = [files EXCEPT !.note = ContentOf(w)]
  /\ \/ catalog' = [catalog EXCEPT !.identity = "note"] /\ Become(w, Serving(w, "saved_note"))
     \/ /\ "processing_error" \in Faults
        /\ Become(w, Raised(w, "processing_error")) /\ UNCHANGED catalog
  /\ UNCHANGED <<row, fresh, index, granted, interruptions>>

IndexNote(w) ==
  /\ Approved(w, "saved_note")
  /\ IF DurableNote
       THEN /\ Become(w, Serving(w, "indexed_note")) /\ UNCHANGED fresh
            /\ \/ Vectors /\ index' = [index EXCEPT !.noteRow = TRUE]
               \/ (~Vectors \/ "vectors_unavailable" \in Faults) /\ UNCHANGED index
       ELSE Raise(w, "missing_artifact") /\ UNCHANGED index
  /\ UNCHANGED <<row, files, catalog, granted, interruptions>>

Complete(w) ==
  /\ Approved(w, "indexed_note")
  /\ \/ DurableNote /\ (index.noteRow \/ ~Vectors \/ "vectors_unavailable" \in Faults)
        /\ Become(w, Serving(w, "completed")) /\ UNCHANGED fresh
     \/ /\ ~DurableNote \/ (Vectors /\ ~index.noteRow)
        /\ Raise(w, "missing_artifact")
  /\ UNCHANGED <<row, files, index, catalog, granted, interruptions>>

-----------------------------------------------------------------------------
(* _advance(): reload, check the edge, compare-and-swap *)

NextStatus(to, slot, status) ==
  IF to = "completed" THEN "completed"
  ELSE IF slot # "none" THEN "pending" ELSE status

(* The row an advance writes: the stage, its artifact, no error; a captured
   record enters the human review in the same update. *)
AdvancedRow(job, to, slot) ==
  [job EXCEPT
     !.stage = to,
     !.status = NextStatus(to, slot, @),
     !.code = IF slot # "none" THEN "awaiting_clean_approval" ELSE "none",
     !.dirty = @ \/ to = "copied_dirty",
     !.clean = IF slot # "none" THEN slot ELSE @,
     !.note = @ \/ to \in {"indexed_chunks", "saved_note"}
                \/ (to = "completed" /\ ~LegacyAuto)]

AdvanceRead(w) ==
  /\ At(w, "advance")
  /\ LET to == worker[w].to
         done == [worker[w] EXCEPT !.to = "none", !.slot = "none"] IN
     \/ /\ row.stage = to   \* a replay of a transition that already landed
        /\ Reload(w, [done EXCEPT !.pc = IF to = "completed" /\ LegacyAuto
                                           THEN "delete" ELSE "loop"])
     \/ /\ IsEdge(row.stage, to)
        /\ Reload(w, [done EXCEPT !.pc = "commit",
                                  !.next = AdvancedRow(row, to, worker[w].slot)])
     \/ /\ row.stage # to /\ ~IsEdge(row.stage, to)
        /\ Reload(w, [done EXCEPT !.pc = "failing", !.code = "illegal_job_transition"])
  /\ UNCHANGED <<row, files, index, catalog, granted, interruptions>>

(* The compare-and-swap of an advance or of a rewind, made inside a handler:
   a lost race or a busy database is raised like any other stage failure. *)
Commit(w) ==
  /\ worker[w].pc \in {"commit", "rewound"}
  /\ LET next == worker[w].next
         gone == [worker[w] EXCEPT !.next = NewRow] IN
     \/ /\ Matches(w)
        /\ Save(w, next)
        /\ Become(w, [gone EXCEPT !.job = next,
                         !.pc = IF next.stage = "completed" /\ LegacyAuto
                                  THEN "delete" ELSE "loop"])
        /\ UNCHANGED interruptions
     \/ /\ ~Matches(w)
        /\ Become(w, [gone EXCEPT !.pc = "failing", !.code = "job_revision_conflict"])
        /\ UNCHANGED <<row, fresh, interruptions>>
     \/ /\ "job_store_busy" \in Faults /\ Interrupted
        /\ Become(w, [gone EXCEPT !.pc = "failing", !.code = "job_store_busy"])
        /\ UNCHANGED <<row, fresh>>
  /\ UNCHANGED <<files, index, catalog, granted>>

(* _rewind_to_clean_approval(): drop what was indexed, then go back to the
   review. The reloaded row is rewound whatever its stage is. When the index
   cannot be cleaned the row only waits, but resume() goes on with its loop. A
   vector table that does not open is reported as cleaned. *)
RewindIndex(w) ==
  /\ At(w, "rewind")
  /\ \/ /\ \E unopened \in BOOLEAN :
             /\ unopened => "index_error" \in Faults /\ Vectors /\ index.rows
             /\ index' = [rows |-> FALSE, noteRow |-> FALSE,
                          vec |-> IF index.rows /\ Vectors /\ ~unopened
                                    THEN 0 ELSE index.vec]
             /\ files' = [files EXCEPT !.stuck = IF unopened THEN @ \union {"vectors"} ELSE @]
        /\ Reload(w, [worker[w] EXCEPT !.pc = "rewound",
               !.next = [row EXCEPT !.stage = "saved_clean", !.status = "pending",
                                    !.code = "awaiting_clean_approval", !.note = FALSE]])
        /\ UNCHANGED row
     \/ /\ "index_error" \in Faults /\ Vectors /\ index.rows
        /\ index' \in {index, [index EXCEPT !.vec = 0]}
        /\ IF Waits("awaiting_clean_approval")
             THEN Reload(w, [worker[w] EXCEPT !.pc = "loop"]) /\ UNCHANGED row
             ELSE /\ Save(w, Waiting("awaiting_clean_approval"))
                  /\ Become(w, [worker[w] EXCEPT !.pc = "loop", !.job = row'])
        /\ UNCHANGED files
  /\ UNCHANGED <<catalog, granted, interruptions>>

DeleteSource(w) ==
  /\ At(w, "delete")
  /\ files' = [files EXCEPT !.src = IF @ = "inbox" THEN "deleted" ELSE @]
  /\ Become(w, [worker[w] EXCEPT !.pc = "loop"])
  /\ UNCHANGED <<row, fresh, index, catalog, granted, interruptions>>

-----------------------------------------------------------------------------
(* Failure, skipping and cancellation *)

(* The handler's exception: reload, and let a requested cancellation win. *)
Failing(w) ==
  /\ At(w, "failing")
  /\ \/ row.cancel /\ row.stage \in TerminalStages /\ Rest(w)
     \/ row.cancel /\ row.stage \notin TerminalStages /\ Reload(w, Cancelling(w))
     \/ ~row.cancel /\ Reload(w, [worker[w] EXCEPT !.pc = "quarantine"])
  /\ UNCHANGED <<row, files, index, catalog, granted, interruptions>>

(* Not the code: the attempts of earlier claims are not counted. *)
AttemptsNotCounted(w) == IF worker[w].code = "corrupt_content" THEN worker[w].tries ELSE 1

(* An exhausted content budget names its own attempts, everything else the row's. *)
Attempts(w) ==
  IF worker[w].code = "corrupt_content" THEN worker[w].tries
  ELSE IF worker[w].job.attempts = 0 THEN 1 ELSE worker[w].job.attempts

(* Not the code: the job is called quarantined although the move failed. *)
OutcomeAssumed(moved) == IF moved THEN "quarantined" ELSE "quarantined"

(* The stage a permanent failure ends in, once the move of the source was tried. *)
Outcome(moved) == IF moved THEN "quarantined" ELSE "failed"

(* _fail(): the source is moved first, then the job is retried or ended. *)
Quarantine(w) ==
  /\ At(w, "quarantine")
  /\ LET job == worker[w].job
         action == FailureAction(worker[w].code, Attempts(w)) IN
     \E moved \in {action = "quarantine" /\ files.src = "inbox", FALSE} :
       LET to == Outcome(moved) IN
       /\ moved \/ action # "quarantine" \/ files.src # "inbox" \/ "quarantine_error" \in Faults
       /\ files' = [files EXCEPT !.src = IF moved THEN "quarantine" ELSE @]
       /\ \/ /\ action = "retry"
             /\ Become(w, [worker[w] EXCEPT !.pc = "retry",
                    !.next = [job EXCEPT !.status = "pending", !.code = worker[w].code]])
             /\ UNCHANGED fresh
          \/ /\ action # "retry" /\ (IsEdge(job.stage, to) \/ job.stage = to)
             /\ Become(w, [worker[w] EXCEPT !.pc = "compensate", !.to = to])
             /\ UNCHANGED fresh
          \/ /\ action # "retry" /\ ~IsEdge(job.stage, to) /\ job.stage # to
             /\ Rest(w)
  /\ UNCHANGED <<row, index, catalog, granted, interruptions>>

(* Not the code: the columns are cleared whether the artifacts went or not. *)
ClearedAnyway(job, gone) == [job EXCEPT !.dirty = FALSE, !.clean = "none", !.note = FALSE]

(* clear_fields: the artifacts that were discarded. *)
Cleared(job, gone) ==
  [job EXCEPT !.dirty = @ /\ "dirty" \notin gone,
              !.clean = IF "clean" \in gone THEN "none" ELSE @,
              !.note = @ /\ "note" \notin gone]

(* The row a terminal failure leaves. *)
EndedRow(job, to, code, gone) ==
  IF job.stage = to THEN [job EXCEPT !.code = code]
  ELSE [Cleared(job, gone) EXCEPT !.stage = to, !.status = to, !.code = code]

(* _invalidate_index(): the index it may leave and whether it calls that done.
   It may fail before or between its two deletions, and a vector table that does
   not open passes for an empty one. *)
Invalidations(job, plan) ==
  LET without == IF index.rows THEN 0 ELSE index.vec
      unlisted == [rows |-> FALSE, vec |-> index.vec,
                   noteRow |-> index.noteRow /\ "note_index" \notin plan] IN
  IF "chunk_index" \notin plan \/ ~Vectors THEN {<<index, TRUE>>}
  ELSE IF ~job.note THEN {<<index, FALSE>>}
  ELSE {<<[unlisted EXCEPT !.vec = without], TRUE>>} \union
       IF "index_error" \notin Faults THEN {}
       ELSE {<<index, FALSE>>, <<[index EXCEPT !.vec = without], FALSE>>, <<unlisted, TRUE>>}

(* _apply_compensation(): discard what the plan of the snapshot's stage names
   and the snapshot records; each part may fail without stopping the others. *)
Compensate(w) ==
  /\ At(w, "compensate")
  /\ LET job == worker[w].job
         to == worker[w].to
         plan == IF job.stage = to THEN {} ELSE StageArtifacts(job.stage) IN
     \E kept \in SUBSET (plan \intersect {"dirty", "clean"}), left \in Invalidations(job, plan) :
       LET gone == plan \ (kept \union IF left[2] THEN {} ELSE {"note"}) IN
       /\ kept # {} => "discard_error" \in Faults
       /\ files' = [files EXCEPT
            !.dirty = @ /\ ~("dirty" \in gone /\ job.dirty),
            !.clean = [s \in Slots |-> IF "clean" \in gone /\ job.clean = s THEN 0 ELSE @[s]],
            !.stuck = @ \union kept \union (IF left[2] THEN {} ELSE {"index"})
                      \union (IF left[2] /\ left[1].vec > 0 THEN {"vectors"} ELSE {})]
       /\ index' = left[1]
       /\ Become(w, [worker[w] EXCEPT !.pc = "settle", !.to = "none",
                         !.next = EndedRow(job, to, worker[w].code, gone)])
  /\ UNCHANGED <<row, fresh, catalog, granted, interruptions>>

(* The compare-and-swap after a failure. Only a skip happens inside a handler;
   elsewhere a lost race or a busy database leaves resume() as an exception. *)
Settle(w) ==
  /\ worker[w].pc \in {"settle", "retry"}
  /\ LET next == worker[w].next IN
     \/ /\ Matches(w)
        /\ row' = next /\ fresh' = {}
        /\ Become(w, Resting) /\ UNCHANGED interruptions
     \/ /\ ~Matches(w) /\ next.stage # "skipped"
        /\ Rest(w) /\ UNCHANGED <<row, interruptions>>
     \/ /\ ~Matches(w) /\ next.stage = "skipped"
        /\ Become(w, [worker[w] EXCEPT !.pc = "failing", !.next = NewRow,
                                       !.code = "job_revision_conflict"])
        /\ UNCHANGED <<row, fresh, interruptions>>
     \/ /\ "job_store_busy" \in Faults /\ next.stage # "skipped" /\ Interrupted
        /\ Rest(w) /\ UNCHANGED row
  /\ UNCHANGED <<files, index, catalog, granted>>

(* JobControlService.request_cancel(): record the request; a pending job is
   ended by the requesting thread, a claimed one by its worker. *)
RequestCancel(w) ==
  /\ w \in Operators /\ At(w, "idle")
  /\ row.status \notin TerminalStages /\ ~row.cancel
  /\ row' = [row EXCEPT !.cancel = TRUE]
  /\ IF row.status = "pending"
       THEN fresh' = {w} /\ Become(w, [Resting EXCEPT !.pc = "finalize", !.job = row'])
       ELSE fresh' = {} /\ UNCHANGED worker
  /\ UNCHANGED <<files, index, catalog, granted, interruptions>>

FinalizePendingCancellation(w) ==
  /\ At(w, "finalize")
  /\ IF Matches(w) /\ row.stage \notin TerminalStages
       THEN Become(w, Cancelling(w)) /\ UNCHANGED fresh
       ELSE Rest(w)
  /\ UNCHANGED <<row, files, index, catalog, granted, interruptions>>

-----------------------------------------------------------------------------
(* The people and the machine around the threads *)

(* approve_flow_transition() for the two file copies. *)
ApproveTransition ==
  /\ row.status = "pending" /\ row.code = "awaiting_transition_approval"
  /\ \/ row.stage = "stabilized" /\ granted' = granted \union {"1_to_2"}
     \/ row.stage = "extracted" /\ files.dirty /\ granted' = granted \union {"2_to_3"}
  /\ granted' # granted
  /\ UNCHANGED <<row, fresh, files, index, catalog, worker, interruptions>>

(* approve_clean(): the reviewer approves the bytes on disk, which the catalog
   must already know. *)
ApproveClean(s) ==
  /\ files.clean[s] > 0 /\ catalog.hash[s] = files.clean[s]
  /\ s \notin catalog.ok
  /\ catalog' = [catalog EXCEPT !.ok = @ \union {s}]
  /\ UNCHANGED <<row, fresh, files, index, granted, worker, interruptions>>

(* An edit of the captured Markdown: through the editor, which also moves the
   catalog on and drops the approval, or by another program, which does not. *)
EditClean(s) ==
  /\ "edit" \in Events
  /\ files.clean[s] \in 1 .. MaxVersion - 1
  /\ files' = [files EXCEPT !.clean[s] = @ + 1]
  /\ \/ /\ catalog.hash[s] = files.clean[s]
        /\ catalog' = [catalog EXCEPT !.hash[s] = files'.clean[s], !.ok = @ \ {s}]
     \/ UNCHANGED catalog
  /\ UNCHANGED <<row, fresh, index, granted, worker, interruptions>>

(* The process dies and restarts: only what is durable survives. *)
Crash ==
  /\ Interrupted
  /\ worker' = [w \in Threads |-> Resting]
  /\ fresh' = {}
  /\ UNCHANGED <<row, files, index, catalog, granted>>

-----------------------------------------------------------------------------
Handler(w) ==
  \/ HandlerFault(w) \/ Stabilize(w) \/ CopyToDirty(w) \/ Extract(w)
  \/ SaveClean(w) \/ RegisterCanonical(w) \/ Unapproved(w) \/ IndexChunks(w)
  \/ PublishChunks(w) \/ CompleteCapture(w) \/ Generate(w) \/ SaveNote(w)
  \/ IndexNote(w) \/ Complete(w)

(* What a thread does once it entered resume(), until it returns. *)
Running(w) ==
  \/ Loop(w) \/ Boundary(w) \/ Park(w) \/ Handler(w) \/ AdvanceRead(w)
  \/ Commit(w) \/ RewindIndex(w) \/ DeleteSource(w) \/ Failing(w)
  \/ Quarantine(w) \/ Compensate(w) \/ Settle(w) \/ FinalizePendingCancellation(w)

Thread(w) ==
  RefuseLlm(w) \/ Resume(w) \/ PollParked(w) \/ RequestCancel(w) \/ Running(w)

Human == ApproveTransition \/ \E s \in Slots : ApproveClean(s) \/ EditClean(s)

Next == (\E w \in Threads : Thread(w)) \/ Human \/ Crash

Spec == Init /\ [][Next]_vars

(* A thread inside resume() is never abandoned. The poll of 1_volcado submits
   every file it still finds there, which resumes its job unless it is parked;
   nothing else resumes a job by itself. *)
Polled(w) == Resume(w) /\ files.src = "inbox" /\ ~Parked

Fairness == \A w \in Threads : WF_vars(Running(w)) /\ WF_vars(Polled(w))

FairSpec == Spec /\ Fairness

-----------------------------------------------------------------------------
(* Properties *)

(* Every variable has the shape its table row, file or call stack has. *)
TypeOK ==
  /\ row \in Rows
  /\ fresh \subseteq Threads
  /\ files \in [src : {"inbox", "quarantine", "deleted"}, dirty : BOOLEAN,
                cache : BOOLEAN, clean : [Slots -> Versions], note : Versions,
                stuck : SUBSET {"dirty", "clean", "index", "vectors"}]
  /\ index \in [rows : BOOLEAN, vec : Versions, noteRow : BOOLEAN]
  /\ catalog \in [hash : [Slots -> Versions], ok : SUBSET Slots,
                  identity : {"none", "source", "clean", "note"}]
  /\ granted \subseteq {"1_to_2", "2_to_3"}
  /\ worker \in [Threads -> Contexts]
  /\ interruptions \in 0 .. MaxInterruptions

(* The optimistic revision does what update_job() relies on: a thread whose
   compare-and-swap would succeed holds exactly the row it is about to replace. *)
SnapshotsAreCurrent ==
  \A w \in fresh : worker[w].pc # "idle" /\ worker[w].job = row

(* However threads interleave, the stored stage moves along an edge of the
   transition graph or back to the review of the captured Markdown. *)
StagesNeverSkip ==
  [][row'.stage # row.stage =>
       IsEdge(row.stage, row'.stage) \/ row'.stage = "saved_clean"]_vars

(* A job reported completed left what it promises: the captured Markdown and its
   document identity, or the durable note when generation is on. (Cancelling a
   job that has been put back to pending under its worker undoes the stages of a
   job the worker then completes.) *)
CompletedHasOutput ==
  row.stage = "completed" /\ ~row.cancel =>
    IF LegacyAuto THEN DurableNote ELSE HasClean(row) /\ catalog.identity = "clean"

(* A quarantined job's source really was moved to the quarantine. *)
QuarantinedWasMoved == row.stage = "quarantined" => files.src = "quarantine"

(* What a job that did not complete leaves behind is only what a clean-up tried
   and failed to remove, and the row still names it, so that it can be found: the
   copy, the captured Markdown, and the document of what a search still finds
   (except the vectors of a table that did not open, whose removal was reported
   as done). A captured file whose registration failed was in nobody's catalog and no row
   names it; a restart or a refused write between a file and its row also leaves
   the file, and is left out. *)
LeftoversAreNamed ==
  row.stage \in TerminalFailure /\ interruptions = 0 =>
    /\ files.dirty => "dirty" \in files.stuck /\ row.dirty
    /\ \A s \in Slots : files.clean[s] > 0 =>
         \/ "clean" \in files.stuck /\ row.clean = s
         \/ catalog.hash[s] = 0
    /\ index.noteRow => "index" \in files.stuck /\ row.note
    /\ index.vec > 0 => "vectors" \in files.stuck \/ ("index" \in files.stuck /\ row.note)

(* The poll applies a recorded cancellation unless the job is parked for its
   review or its source already left 1_volcado. *)
CancelOrReview ==
  row.cancel ~> row.stage \in TerminalStages \/ Parked \/ files.src # "inbox"

(* A job whose review is done is carried to its end by the poll, unless an edit
   sends it back to the review or its source already left 1_volcado. *)
ApprovedCompletes ==
  (row.stage = "saved_clean" /\ ApprovedClean(row)) ~>
    row.stage \in TerminalStages \/ Parked \/ files.src # "inbox"

(* One worker at a time implements the lifecycle a job promises, through every
   crash, retry and edit: an ended job stays ended, only a source that was moved
   is called quarantined, and only a completed job's source is dropped. *)
Lifecycle == INSTANCE JobLifecycle WITH stage <- row.stage, source <- files.src

KeepsPromise == Lifecycle!Spec
=============================================================================
