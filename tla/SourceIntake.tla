----------------------------- MODULE SourceIntake -----------------------------
(* From a file in 1_volcado to a job, and from a failing source to the
   quarantine and back: the poll of watcher/watcher.py and the transcription
   step of the console submit the same files through submit() of
   application/ingestion.py, while a person drops files, approves, cancels,
   requeues, and restores what domain/quarantine.py set aside. What happens
   inside resume() is IngestionPipeline; here a run of a job is one step that
   takes it to its next wait for a person, skips, completes or fails it, or
   leaves it to the next run, and the failure path is followed into the
   quarantine manifest, read and rewritten without a lock. *)
EXTENDS JobStages, FiniteSets, Sequences

CONSTANTS
  Names,        \* files of 1_volcado
  Contents,     \* what they may hold
  Pollers,      \* threads that run process_file()
  Consoles,     \* threads that run the console's transcription step
  Faults,       \* error codes a job may meet
  Modes,        \* what legacy_auto_processing may be: with it a job goes on to
                \* a note in 4_procesado and deletes its source
  Replaces,     \* a person may put another file where one is being processed
  AttemptCap,   \* bound: attempt_count saturates here
  JobsPerContent,  \* bound: jobs created for one content
  MaxDrops,     \* bound: files put into 1_volcado
  Budgets,      \* bound: drops, restores, files the console submits, restarts
  none

Threads == Pollers \union Consoles \union {"person"}

Ids == 1 .. MaxDrops    \* quarantine ids (uuid4): a new one is one nothing mentions

ASSUME IntakeAssumption ==
  /\ Modes \subseteq BOOLEAN /\ Replaces \in BOOLEAN
  /\ JobsPerContent \in Nat /\ MaxDrops \in Nat
  /\ "person" \notin Pollers \union Consoles
  /\ none \notin Names \union Contents \union [content : Contents, name : Names]
  /\ Budgets \subseteq [drops : 0 .. MaxDrops, restores : Nat, clicks : Nat, crashes : Nat]

VARIABLES
  inbox,     \* the files of 1_volcado
  jobs,      \* the jobs table, in the order of creation
  stored,    \* the files of .fuente/quarantine, by quarantine id
  manifest,  \* the status of each item in manifest.json
  output,    \* files restored to an issue of 4_procesado, by name
  thread,    \* where each thread is
  history    \* not in the program: what was given, and what the budgets leave;
             \* and the setting legacy_auto_processing

vars == <<inbox, jobs, stored, manifest, output, thread, history>>

Resting == [pc |-> "idle", name |-> none, job |-> 0, id |-> 0,
            code |-> none, snapshot |-> none, moved |-> FALSE]

Init ==
  /\ inbox = [n \in Names |-> none]
  /\ jobs = <<>>
  /\ stored = [i \in Ids |-> none]
  /\ manifest = [i \in Ids |-> "absent"]
  /\ output = [n \in Names |-> none]
  /\ thread = [t \in Threads |-> Resting]
  /\ \E budget \in Budgets, legacy \in Modes :
       history = [given |-> {}, left |-> budget, raced |-> {}, disturbed |-> FALSE,
                  legacy |-> legacy]

Legacy == history.legacy

At(t, pc) == thread[t].pc = pc

Turns(t, here) == thread' = [thread EXCEPT ![t] = here]

Goto(t, pc) == Turns(t, [thread[t] EXCEPT !.pc = pc])

(* On to the next file, or the wait for the next poll. *)
Done(t) == Turns(t, Resting)

Active(j) == jobs[j].stage \in ActiveStages

JobsOf(c) == {j \in DOMAIN jobs : jobs[j].content = c}

NewJob(c, n) == [content |-> c, name |-> n, stage |-> "discovered", attempts |-> 0,
                 captured |-> none, approved |-> FALSE, note |-> FALSE]

(* Before the copy, before the capture and after it a person is asked. *)
Asks(j) == jobs[j].stage \in {"stabilized", "extracted", "saved_clean"} /\ ~jobs[j].approved

Parked(j) == Asks(j) /\ jobs[j].stage = "saved_clean"

-----------------------------------------------------------------------------
(* Submission *)

(* Not the code: only a completed job is reused. *)
ReusableIfCompleted(c) ==
  LET last == CHOOSE j \in JobsOf(c) \union {0} : \A k \in JobsOf(c) : k <= j IN
  IF last # 0 /\ jobs[last].stage = "completed" /\ jobs[last].note THEN last ELSE 0

(* _reusable_job(): the newest job of the content, if it ended with a note
   that is still there, still runs, or sits in the quarantine. A finished
   capture is none of these: _durable_note_path() refuses its path. *)
Reusable(c) ==
  LET last == CHOOSE j \in JobsOf(c) \union {0} : \A k \in JobsOf(c) : k <= j IN
  IF last = 0 THEN 0
  ELSE IF Active(last) \/ jobs[last].stage = "quarantined"
          \/ (Legacy /\ jobs[last].stage = "completed" /\ jobs[last].note)
    THEN last ELSE 0

(* Not the code: a job that is already known is somebody else's. *)
WorthResumingNew(t, j) == Active(j) /\ t \in Consoles

(* What the caller of submit() goes on with: not with a job that has ended, and
   the poll not with one that waits for its review. *)
WorthResuming(t, j) == Active(j) /\ (t \in Pollers => ~Parked(j))

(* process_file() for a file of the listing. *)
Submit(t, n) ==
  /\ t # "person" /\ At(t, "idle") /\ inbox[n] # none
  /\ t \in Consoles => history.left.clicks > 0
  /\ LET here == [Resting EXCEPT !.name = n]
         found == Reusable(inbox[n]) IN
     \/ /\ found = 0
        /\ Turns(t, [here EXCEPT !.pc = "create", !.code = inbox[n]])
     \/ /\ found # 0 /\ WorthResuming(t, found)
        /\ Turns(t, [here EXCEPT !.pc = "work", !.job = found])
  /\ history' = [history EXCEPT !.left.clicks = IF t \in Consoles THEN @ - 1 ELSE @]
  /\ UNCHANGED <<inbox, jobs, stored, manifest, output>>

(* The store refuses: the poll logs it, the console hands the file to the
   failure policy as if its content were at fault. *)
SubmitFails(t) ==
  /\ t # "person" /\ thread[t].pc \in {"create", "advance"}
  /\ "job_store_busy" \in Faults
  /\ IF t \in Consoles
       THEN Turns(t, [thread[t] EXCEPT !.pc = "handle", !.job = 0, !.code = "job_store_busy"])
       ELSE Done(t)
  /\ UNCHANGED <<inbox, jobs, stored, manifest, output, history>>

(* create_job(): nothing makes the content unique. *)
Create(t) ==
  /\ At(t, "create")
  /\ LET c == thread[t].code IN
     IF Cardinality(JobsOf(c)) < JobsPerContent
       THEN /\ jobs' = Append(jobs, NewJob(c, thread[t].name))
            /\ Turns(t, [thread[t] EXCEPT !.pc = "advance", !.job = Len(jobs) + 1, !.code = none])
            /\ history' = [history EXCEPT !.raced = IF Reusable(c) = 0 THEN @ ELSE @ \union {c}]
       ELSE Done(t) /\ UNCHANGED <<jobs, history>>
  /\ UNCHANGED <<inbox, stored, manifest, output>>

(* The first _advance() reloads the job: another thread may have taken it on. *)
Advance(t) ==
  /\ At(t, "advance")
  /\ LET j == thread[t].job IN
     \/ /\ jobs[j].stage = "discovered"
        /\ jobs' = [jobs EXCEPT ![j].stage = "stabilized"]
        /\ Goto(t, "work")
     \/ jobs[j].stage = "stabilized" /\ Goto(t, "work") /\ UNCHANGED jobs
     \/ /\ jobs[j].stage \notin {"discovered", "stabilized"} /\ UNCHANGED jobs
        /\ IF t \in Consoles
             THEN Turns(t, [thread[t] EXCEPT !.pc = "handle", !.job = 0,
                                             !.code = "illegal_job_transition"])
             ELSE Done(t)
  /\ UNCHANGED <<inbox, stored, manifest, output, history>>

(* process_pending() at the start of the monitor and in a flush. *)
ResumePending(t) ==
  /\ t \in Pollers /\ At(t, "idle")
  /\ \E j \in DOMAIN jobs :
       /\ WorthResuming(t, j)
       /\ Turns(t, [Resting EXCEPT !.pc = "work", !.job = j, !.name = jobs[j].name])
  /\ UNCHANGED <<inbox, jobs, stored, manifest, output, history>>

-----------------------------------------------------------------------------
(* One resume() of a job; its bytes are those its source path holds when the
   copy is made. *)

Bytes(j) == IF jobs[j].captured # none THEN jobs[j].captured ELSE inbox[jobs[j].name]

Claimed(j) == [jobs[j] EXCEPT !.attempts = IF @ < AttemptCap THEN @ + 1 ELSE @]

Ends(t, j, row) == jobs' = [jobs EXCEPT ![j] = row] /\ Done(t)

Stabilize(t) ==
  /\ At(t, "work")
  /\ LET j == thread[t].job IN
     /\ jobs[j].stage = "discovered" /\ Bytes(j) # none
     /\ Ends(t, j, [Claimed(j) EXCEPT !.stage = "stabilized"])
  /\ UNCHANGED <<inbox, stored, manifest, output, history>>

Capture(t) ==
  /\ At(t, "work")
  /\ LET j == thread[t].job IN
     /\ jobs[j].stage = "stabilized" /\ jobs[j].approved /\ Bytes(j) # none
     /\ Ends(t, j, [Claimed(j) EXCEPT !.stage = "extracted", !.captured = Bytes(j),
                                      !.approved = FALSE])
  /\ UNCHANGED <<inbox, stored, manifest, output, history>>

Park(t) ==
  /\ At(t, "work")
  /\ LET j == thread[t].job IN
     /\ jobs[j].stage = "extracted" /\ jobs[j].approved
     /\ Ends(t, j, [Claimed(j) EXCEPT !.stage = "saved_clean", !.approved = FALSE])
  /\ UNCHANGED <<inbox, stored, manifest, output, history>>

(* The approval that is missing, memory, a model or a lock: the job is pending
   as before. *)
Wait(t) ==
  /\ At(t, "work")
  /\ LET j == thread[t].job IN
     /\ Active(j) /\ ~Parked(j)
     /\ Ends(t, j, Claimed(j))
  /\ UNCHANGED <<inbox, stored, manifest, output, history>>

Skip(t) ==
  /\ At(t, "work")
  /\ LET j == thread[t].job IN
     /\ jobs[j].stage = "stabilized" /\ jobs[j].approved /\ Bytes(j) # none
     /\ Ends(t, j, [Claimed(j) EXCEPT !.stage = "skipped"])
  /\ UNCHANGED <<inbox, stored, manifest, output, history>>

(* A job that has ended meanwhile, or still waits for its review. *)
NothingToDo(t) ==
  /\ At(t, "work")
  /\ ~Active(thread[t].job) \/ Parked(thread[t].job)
  /\ Done(t)
  /\ UNCHANGED <<inbox, jobs, stored, manifest, output, history>>

(* Not the code: the source is dropped with the candidate, before the job ends. *)
CompleteLate(t) ==
  /\ At(t, "work") /\ Active(thread[t].job) /\ jobs[thread[t].job].stage # "saved_clean"
  /\ Legacy /\ Goto(t, "drop") /\ UNCHANGED jobs
  /\ UNCHANGED <<inbox, stored, manifest, output, history>>

Complete(t) ==
  /\ At(t, "work")
  /\ LET j == thread[t].job IN
     /\ jobs[j].stage = "saved_clean" /\ jobs[j].approved
     /\ jobs' = [jobs EXCEPT ![j] = [Claimed(j) EXCEPT !.stage = "completed", !.note = TRUE]]
     /\ IF Legacy THEN Goto(t, "drop") ELSE Done(t)
  /\ UNCHANGED <<inbox, stored, manifest, output, history>>

(* _delete_source(): whatever lies at the job's source path. *)
DeleteSource(t) ==
  /\ At(t, "drop")
  /\ inbox' = [inbox EXCEPT ![jobs[thread[t].job].name] = none]
  /\ Done(t)
  /\ UNCHANGED <<jobs, stored, manifest, output, history>>

(* The job fails: also where its source is not stable, or gone before the copy. *)
Fault(t) ==
  /\ At(t, "work")
  /\ LET j == thread[t].job IN
     /\ Active(j) /\ ~Parked(j)
     /\ jobs' = [jobs EXCEPT ![j] = Claimed(j)]
     /\ \E code \in Faults \union {"source_not_stable"} :
          /\ Bytes(j) = none => code = "source_not_stable"
          /\ code = "source_not_stable" =>
               jobs[j].stage = "discovered" \/ (Bytes(j) = none /\ ~Asks(j))
          /\ Turns(t, [thread[t] EXCEPT !.pc = "handle", !.code = code])
  /\ UNCHANGED <<inbox, stored, manifest, output, history>>

-----------------------------------------------------------------------------
(* The failure policy and the quarantine *)

Attempts(t) ==
  IF thread[t].job = 0 \/ jobs[thread[t].job].attempts = 0 THEN 1
  ELSE jobs[thread[t].job].attempts

Decision(t) == FailureAction(thread[t].code, Attempts(t))

New(i) ==
  /\ stored[i] = none /\ manifest[i] = "absent"
  /\ \A t \in Threads : thread[t].id # i /\ (At(t, "write") => thread[t].snapshot[i] = "absent")

SourceOf(t) == IF thread[t].job = 0 THEN thread[t].name ELSE jobs[thread[t].job].name

(* handle_failure(): below the policy's threshold, and for a candidate to be
   reviewed, only a row is written; else quarantine() moves the file first.
   The items are read right after the move, and written in a step of its own. *)
HandleFailure(t) ==
  /\ At(t, "handle")
  /\ LET n == SourceOf(t) IN
     \/ inbox[n] = none /\ Goto(t, "end") /\ UNCHANGED <<inbox, stored>>
     \/ /\ inbox[n] # none /\ Decision(t) # "quarantine"
        /\ Turns(t, [thread[t] EXCEPT !.pc = "write", !.snapshot = manifest])
        /\ UNCHANGED <<inbox, stored>>
     \/ \E i \in Ids :
        /\ inbox[n] # none /\ Decision(t) = "quarantine" /\ New(i)
        /\ stored' = [stored EXCEPT ![i] = [content |-> inbox[n], name |-> n]]
        /\ inbox' = [inbox EXCEPT ![n] = none]
        /\ Turns(t, [thread[t] EXCEPT !.pc = "write", !.snapshot = manifest, !.id = i,
                                      !.moved = TRUE])
  /\ UNCHANGED <<jobs, manifest, output, history>>

(* The row this thread adds to the items it has read. *)
Item(t) == IF t = "person" THEN "restored" ELSE "quarantined"

WithItem(t) == [i \in Ids |-> IF i = thread[t].id THEN Item(t) ELSE thread[t].snapshot[i]]

WriteItems(t) ==
  /\ At(t, "write")
  /\ manifest' = WithItem(t)
  /\ IF t = "person" THEN Done(t)
     ELSE Turns(t, [thread[t] EXCEPT !.pc = "end", !.id = 0, !.snapshot = none])
  /\ history' = [history EXCEPT !.disturbed = @ \/ manifest # thread[t].snapshot]
  /\ UNCHANGED <<inbox, jobs, stored, output>>

(* Not the code: the manifest cannot be written, and the file stays moved. *)
WriteFailsOnly(t) ==
  /\ At(t, "write") /\ "disk_full" \in Faults
  /\ IF t = "person" THEN Done(t)
     ELSE Turns(t, [thread[t] EXCEPT !.pc = "end", !.moved = FALSE, !.id = 0, !.snapshot = none])
  /\ UNCHANGED <<inbox, jobs, stored, manifest, output, history>>

(* It cannot be written: the file goes back to where it was. *)
WriteFails(t) ==
  /\ At(t, "write") /\ "disk_full" \in Faults
  /\ IF t = "person" THEN Done(t)
     ELSE Turns(t, [thread[t] EXCEPT !.pc = "end", !.moved = FALSE, !.id = 0, !.snapshot = none])
  /\ LET i == thread[t].id IN
     IF i = 0 THEN UNCHANGED <<inbox, stored, output>>
     ELSE IF t = "person"
       THEN /\ stored' = [stored EXCEPT ![i] = thread[t].code]
            /\ output' = [output EXCEPT ![thread[t].code.name] = none]
            /\ UNCHANGED inbox
     ELSE /\ inbox' = [inbox EXCEPT ![SourceOf(t)] = stored[i].content]
          /\ stored' = [stored EXCEPT ![i] = none]
          /\ UNCHANGED output
  /\ UNCHANGED <<jobs, manifest, history>>

(* The end of _fail(): the row says what became of the source. *)
EndFailure(t) ==
  /\ At(t, "end")
  /\ LET j == thread[t].job
         stage == IF thread[t].moved THEN "quarantined" ELSE "failed" IN
     IF j # 0 /\ Active(j) /\ Decision(t) # "retry"
       THEN Ends(t, j, [jobs[j] EXCEPT !.stage = stage])
       ELSE Done(t) /\ UNCHANGED jobs
  /\ UNCHANGED <<inbox, stored, manifest, output, history>>

-----------------------------------------------------------------------------
(* restore(): checked against the manifest, then moved; the row follows. *)

Restore(i) ==
  /\ At("person", "idle") /\ history.left.restores > 0
  /\ manifest[i] = "quarantined" /\ stored[i] # none
  /\ output[stored[i].name] = none
  /\ output' = [output EXCEPT ![stored[i].name] = stored[i].content]
  /\ stored' = [stored EXCEPT ![i] = none]
  /\ Turns("person", [Resting EXCEPT !.pc = "write", !.id = i, !.code = stored[i],
                                     !.snapshot = manifest])
  /\ history' = [history EXCEPT !.left.restores = @ - 1]
  /\ UNCHANGED <<inbox, jobs, manifest>>

-----------------------------------------------------------------------------
(* The person at the files and at the jobs *)

Busy(n) ==
  \/ \E j \in DOMAIN jobs : Active(j) /\ jobs[j].name = n
  \/ \E t \in Threads \ {"person"} : thread[t].name = n

DropFile(n, c) ==
  /\ history.left.drops > 0
  /\ c \notin history.given
  /\ inbox[n] # none \/ Busy(n) => Replaces
  /\ inbox' = [inbox EXCEPT ![n] = c]
  /\ history' = [history EXCEPT !.left.drops = @ - 1,
                   !.given = (IF \E k \in Names \ {n} : inbox[k] = inbox[n] THEN @
                              ELSE @ \ {inbox[n]}) \union {c}]
  /\ UNCHANGED <<jobs, stored, manifest, output, thread>>

(* approve_flow_transition(), for whichever of the three steps is next. *)
Approve(j) ==
  /\ Asks(j)
  /\ jobs' = [jobs EXCEPT ![j].approved = TRUE]
  /\ UNCHANGED <<inbox, stored, manifest, output, thread, history>>

CancelJob(j) ==
  /\ Active(j) /\ \A t \in Threads : thread[t].job # j
  /\ jobs' = [jobs EXCEPT ![j].stage = "cancelled"]
  /\ UNCHANGED <<inbox, stored, manifest, output, thread, history>>

(* requeue_skipped(): as often as it is asked for, while a file is there. *)
RequeueSkipped(j) ==
  /\ jobs[j].stage = "skipped" /\ inbox[jobs[j].name] # none
  /\ Cardinality(JobsOf(jobs[j].content)) < JobsPerContent
  /\ jobs' = Append(jobs, NewJob(jobs[j].content, jobs[j].name))
  /\ history' = [history EXCEPT !.raced =
       IF Reusable(jobs[j].content) = 0 THEN @ ELSE @ \union {jobs[j].content}]
  /\ UNCHANGED <<inbox, stored, manifest, output, thread>>

(* A thread is between the move of an item and its row. *)
Moving(i) == \E t \in Threads : thread[t].id = i /\ thread[t].pc = "write"

Crash ==
  /\ history.left.crashes > 0
  /\ \E t \in Threads : thread[t].pc # "idle"
  /\ thread' = [t \in Threads |-> Resting]
  /\ history' = [history EXCEPT !.left.crashes = @ - 1,
       !.disturbed = @ \/ \E i \in Ids : Moving(i)]
  /\ UNCHANGED <<inbox, jobs, stored, manifest, output>>

-----------------------------------------------------------------------------
Proceed(t) ==
  \/ Stabilize(t) \/ Capture(t) \/ Park(t) \/ Skip(t) \/ NothingToDo(t) \/ Complete(t)
  \/ DeleteSource(t) \/ Fault(t) \/ HandleFailure(t) \/ WriteItems(t) \/ WriteFails(t) \/ EndFailure(t)

Step(t) == Proceed(t) \/ Wait(t)

Register(t) == Create(t) \/ Advance(t)

PersonNext ==
  \/ \E i \in Ids : Restore(i)
  \/ \E n \in Names, c \in Contents : DropFile(n, c)
  \/ \E j \in DOMAIN jobs : Approve(j) \/ CancelJob(j) \/ RequeueSkipped(j)

Next ==
  \/ \E t \in Threads :
       Step(t) \/ Register(t) \/ SubmitFails(t) \/ \E n \in Names : Submit(t, n)
  \/ \E t \in Pollers : ResumePending(t)
  \/ PersonNext \/ Crash

Spec == Init /\ [][Next]_vars

(* The poll goes on for ever, over every file of each listing; the store does
   not refuse any of them every time, and a file is not always still being
   written, nor memory, model or lock always missing when it is its turn. *)
FairSpec ==
  Spec /\ \A t \in Pollers :
    /\ WF_vars(Step(t))
    /\ \A n \in Names : /\ SF_vars(Submit(t, n))
                        /\ SF_vars(Register(t) /\ thread[t].name = n)
                        /\ SF_vars(Proceed(t) /\ thread[t].name = n)

-----------------------------------------------------------------------------
(* Whatever happens to jobs, threads and manifest, the bytes a person gave are
   still somewhere: in 1_volcado, in the quarantine, restored, or in the note
   of a completed job. handle_failure(), restore() and _delete_source() move
   and delete files around reads and writes of other threads. *)
NothingLost ==
  \A c \in history.given :
    \/ \E n \in Names : inbox[n] = c \/ output[n] = c
    \/ \E i \in Ids : stored[i] # none /\ stored[i].content = c
    \/ \E j \in DOMAIN jobs : jobs[j].captured = c /\ jobs[j].stage = "completed"

(* Unless a crash fell between a move and its row, or two threads rewrote the
   manifest over each other, it tells which files the quarantine holds: also
   after writes that failed and were rolled back. *)
RecordsAreTrue ==
  history.disturbed \/ \A i \in Ids : Moving(i) \/ (stored[i] # none <=> manifest[i] = "quarantined")

(* One content is worked on, set aside or, where jobs lead to a note, noted
   once, over repeated polls, names, restarts, skips, cancellations, failures
   and the waits between them (submit() and _reusable_job()), unless two
   threads submitted it at the same moment or a skipped job was requeued next
   to a live one. *)
OneJobPerContent ==
  \A c \in Contents \ history.raced :
    Cardinality({j \in JobsOf(c) : \/ Active(j) \/ jobs[j].stage = "quarantined"
                                  \/ (Legacy /\ jobs[j].stage = "completed" /\ jobs[j].note)}) <= 1

Taken(n) ==
  \/ inbox[n] = none
  \/ \E j \in DOMAIN jobs : jobs[j].content = inbox[n] /\ (~Active(j) \/ Asks(j))

(* The poll leaves no file behind: again and again each one is moved away, or a
   job of its content has ended or waits for a person, whose approval is
   followed, however often memory, a model or a lock made it wait. *)
EveryFileIsTaken == \A n \in Names : []<>Taken(n)
=============================================================================
