---------------------------- MODULE ResourceLeases ----------------------------
(* Admission of application/scheduler.py: which job may run its next stage, by
   the leases and document locks it holds in SQLite. Every statement that is
   committed by itself is a step; only claim_resource_lease() is a transaction.
   Leases outlive the process, and nothing but their own job removes them. *)
EXTENDS JobStages, FiniteSets

CONSTANTS
  Workers,       \* threads that call resume()
  Jobs,          \* ingestion jobs
  SourceClass,   \* task class of extracting each job's source
  Document,      \* document id of each job: jobs of one source path share it
  Models,        \* language models the governor may nominate
  Entry,         \* stage the jobs of an earlier process were left at
  Vectors,       \* runtime policy: vector_index_enabled
  Shared,        \* two threads may be inside resume() of one job
  MaxCrashes,    \* bound: process restarts
  none           \* no job, no key

Classes == {"io_text", "media_ocr", "media_audio", "embedding", "llm_generation"}

(* resource_key_for(): one key per class, except one per model. *)
Keys == Classes \union Models

ASSUME LeasesAssumption ==
  /\ IsFiniteSet(Jobs)
  /\ SourceClass \in [Jobs -> {"io_text", "media_ocr", "media_audio"}]
  /\ \A i, j \in Jobs : Document[i] = Document[j] => SourceClass[i] = SourceClass[j]
  /\ Models \intersect Classes = {}
  /\ Entry \in ActiveStages
  /\ Vectors \in BOOLEAN /\ Shared \in BOOLEAN
  /\ MaxCrashes \in Nat
  /\ none \notin Jobs \union Keys

VARIABLES
  stage,      \* stored stage of each job
  unapproved, \* jobs whose captured Markdown is not approved
  leases,     \* rows of resource_leases: <<job, key>>
  locks,      \* rows of document_locks: the job that holds each document
  thread,     \* where each thread is in resume(), and what it decided
  crashes

vars == <<stage, unapproved, leases, locks, thread, crashes>>

Documents == {Document[j] : j \in Jobs}

Mutating == {"saved_clean", "indexed_chunks", "generated_candidate",
             "validated_candidate", "saved_note", "indexed_note"}

(* task_class_for_job() *)
TaskClass(j) ==
  CASE stage[j] \in {"discovered", "stabilized", "copied_dirty"} -> SourceClass[j]
    [] stage[j] \in {"saved_clean", "saved_note"} /\ Vectors -> "embedding"
    [] stage[j] = "generated_candidate" -> "llm_generation"
    [] OTHER -> "io_text"

KeysOf(class) == IF class = "llm_generation" THEN Models ELSE {class}

(* What effective_concurrency_limit() may answer, by the memory it measured:
   text extraction falls back to 1, a model may be allowed twice. *)
Limits(class) == IF class \in {"io_text", "llm_generation"} THEN {1, 2} ELSE {1}

Positions == {"idle", "head", "stale", "admit", "claim", "book", "lock", "run", "leave"}

Contexts == [pc : Positions, job : Jobs \union {none}, then : {"idle", "head", "admit"},
             key : Keys \union {none}, limit : {1, 2}, mutating : BOOLEAN]

Resting == [pc |-> "idle", job |-> none, then |-> "idle", key |-> none,
            limit |-> 1, mutating |-> FALSE]

Init ==
  /\ stage = [j \in Jobs |-> Entry]
  /\ unapproved = Jobs
  /\ leases = {}
  /\ locks = [d \in Documents |-> none]
  /\ thread = [w \in Workers |-> Resting]
  /\ crashes = 0

-----------------------------------------------------------------------------
(* Rows of other jobs that count against a key *)

Holders(key) == {j \in Jobs : <<j, key>> \in leases}

OthersHold(j, key) == Cardinality(Holders(key) \ {j})

Goes(w, context) == thread' = [thread EXCEPT ![w] = context]

At(w, pc) == thread[w].pc = pc

(* The two deletes of release() and release_stale_for_job(), then on to `then`. *)
Releasing(w, then) == [thread[w] EXCEPT !.pc = "stale", !.then = then]

(* Not the code: an orphaned lease is left to whoever created it. *)
DroppedNever(j) == {l \in leases : l[1] # j \/ stage[j] \in ActiveStages}

Dropped(j) == {l \in leases : l[1] # j}

DropLeases(w) ==
  /\ At(w, "stale")
  /\ leases' = Dropped(thread[w].job)
  /\ Goes(w, [thread[w] EXCEPT !.pc = "leave"])
  /\ UNCHANGED <<stage, unapproved, locks, crashes>>

DropLocks(w) ==
  /\ At(w, "leave")
  /\ locks' = [d \in Documents |-> IF locks[d] = thread[w].job THEN none ELSE locks[d]]
  /\ Goes(w, IF thread[w].then = "idle" THEN Resting
             ELSE [Resting EXCEPT !.pc = thread[w].then, !.job = thread[w].job])
  /\ UNCHANGED <<stage, unapproved, leases, crashes>>

-----------------------------------------------------------------------------
(* resume() *)

InUse(j) == \E w \in Workers : thread[w].job = j

Parked(j) == stage[j] = "saved_clean" /\ j \in unapproved

(* resume() returns before the scheduler for a parked job, and for one whose
   model load nobody authorised. *)
HeldBack(j) == Parked(j) \/ stage[j] = "generated_candidate"

(* An active job is resumed, by the poll or by a person: orphans go first. *)
Start(w, j) ==
  /\ At(w, "idle") /\ stage[j] \in ActiveStages
  /\ Shared \/ ~InUse(j)
  /\ Goes(w, [Resting EXCEPT !.pc = "stale", !.job = j, !.then = "head"])
  /\ UNCHANGED <<stage, unapproved, leases, locks, crashes>>

(* A pending job is cancelled by the thread that asked for it. *)
CancelPending(w, j) ==
  /\ At(w, "idle") /\ stage[j] \in ActiveStages /\ ~InUse(j)
  /\ stage' = [stage EXCEPT ![j] = "cancelled"]
  /\ Goes(w, [Resting EXCEPT !.pc = "stale", !.job = j])
  /\ UNCHANGED <<unapproved, leases, locks, crashes>>

(* The head of the loop: ended, cancelled, waiting for its review or its model,
   or on to admit(), which drops the job's own leases once more. *)
Head(w) ==
  LET j == thread[w].job IN
  /\ At(w, "head")
  /\ \/ /\ stage[j] \in TerminalStages \/ HeldBack(j)
        /\ Goes(w, Resting) /\ UNCHANGED stage
     \/ /\ stage[j] \in ActiveStages
        /\ stage' = [stage EXCEPT ![j] = "cancelled"]
        /\ Goes(w, Releasing(w, "idle"))
     \/ /\ stage[j] \in ActiveStages /\ ~Parked(j)
        /\ Goes(w, Releasing(w, "admit")) /\ UNCHANGED stage
  /\ UNCHANGED <<unapproved, leases, locks, crashes>>

(* _evaluate_job(): the memory budget, the holders of the key and the document
   lock; whatever it says no to leaves the job waiting. *)
Evaluate(w) ==
  LET j == thread[w].job
      class == TaskClass(j)
      mutating == stage[j] \in Mutating IN
  /\ At(w, "admit")
  /\ \/ Goes(w, Resting)
     \/ \E key \in KeysOf(class), limit \in Limits(class) :
          /\ OthersHold(j, key) < limit
          /\ mutating => locks[Document[j]] \in {none, j}
          /\ Goes(w, [thread[w] EXCEPT !.pc = "claim", !.key = key, !.limit = limit,
                                       !.mutating = mutating])
  /\ UNCHANGED <<stage, unapproved, leases, locks, crashes>>

Admitted(w) == [thread[w] EXCEPT !.pc = IF thread[w].mutating THEN "lock" ELSE "run"]

(* Not the code: the pool is full only when it overflows. *)
FullTooLate(w) == OthersHold(thread[w].job, thread[w].key) > thread[w].limit

Full(w) == OthersHold(thread[w].job, thread[w].key) >= thread[w].limit

(* claim_resource_lease(): one transaction, idempotent for the same job. *)
Claim(w) ==
  LET j == thread[w].job
      key == thread[w].key IN
  /\ At(w, "claim")
  /\ \/ /\ <<j, key>> \notin leases /\ Full(w)
        /\ Goes(w, Resting) /\ UNCHANGED leases
     \/ /\ <<j, key>> \in leases \/ ~Full(w)
        /\ leases' = leases \union {<<j, key>>}
        /\ Goes(w, IF key \in Models THEN [thread[w] EXCEPT !.pc = "book"] ELSE Admitted(w))
  /\ UNCHANGED <<stage, unapproved, locks, crashes>>

(* acquire_resource_lease(): a model is also booked under its class. Another
   thread of the same job may insert the row between the look-up and the insert,
   which leaves resume() as an exception. *)
Book(w) ==
  LET j == thread[w].job IN
  /\ At(w, "book")
  /\ leases' = leases \union {<<j, "llm_generation">>}
  /\ \/ Goes(w, Admitted(w))
     \/ /\ \E v \in Workers \ {w} : thread[v].job = j
        /\ <<j, "llm_generation">> \in leases
        /\ Goes(w, Resting)
  /\ UNCHANGED <<stage, unapproved, locks, crashes>>

(* Not the code: the document is taken over from whoever holds it. *)
LockFreeAlways(j) == TRUE

LockFree(j) == locks[Document[j]] \in {none, j}

(* acquire_document_lock(): a lost race gives the leases back and waits. *)
Lock(w) ==
  LET j == thread[w].job IN
  /\ At(w, "lock")
  /\ \/ /\ LockFree(j)
        /\ locks' = [locks EXCEPT ![Document[j]] = j]
        /\ Goes(w, [thread[w] EXCEPT !.pc = "run"]) /\ UNCHANGED leases
     \/ /\ ~LockFree(j) \/ (locks[Document[j]] = j /\ \E v \in Workers \ {w} : thread[v].job = j)
        /\ leases' = Dropped(j)
        /\ Goes(w, Resting) /\ UNCHANGED locks
  /\ UNCHANGED <<stage, unapproved, crashes>>

(* The handler, a failure or a cancellation moves the job along its graph, or a
   wait leaves it: the finally of resume() releases what the job holds, then the
   loop goes on or returns. *)
Run(w) ==
  LET j == thread[w].job IN
  /\ At(w, "run")
  /\ \/ /\ \E to \in Stages : IsEdge(stage[j], to) /\ stage' = [stage EXCEPT ![j] = to]
        /\ Goes(w, Releasing(w, "head"))
     \/ UNCHANGED stage /\ Goes(w, Releasing(w, "idle"))
  /\ UNCHANGED <<unapproved, leases, locks, crashes>>

(* The reviewer approves the capture a parked job waits for. Edits of it, which
   can send a job back to this review, are in IngestionPipeline. *)
Approve(j) ==
  /\ Parked(j)
  /\ unapproved' = unapproved \ {j}
  /\ UNCHANGED <<stage, leases, locks, thread, crashes>>

(* The process dies and restarts; the tables stay as they are. *)
Crash ==
  /\ crashes < MaxCrashes
  /\ crashes' = crashes + 1
  /\ thread' = [w \in Workers |-> Resting]
  /\ UNCHANGED <<stage, unapproved, leases, locks>>

Running(w) ==
  \/ DropLeases(w) \/ DropLocks(w) \/ Head(w) \/ Evaluate(w) \/ Claim(w)
  \/ Book(w) \/ Lock(w) \/ Run(w)

Next ==
  \/ \E w \in Workers : Running(w) \/ \E j \in Jobs : Start(w, j) \/ CancelPending(w, j)
  \/ \E j \in Jobs : Approve(j)
  \/ Crash

Spec == Init /\ [][Next]_vars

(* A thread inside resume() goes on, and the poll, which visits the files of
   1_volcado in turn, comes round to every job that is not held back. *)
Polled(j) == ~HeldBack(j) /\ \E w \in Workers : Start(w, j)

Fairness ==
  /\ \A w \in Workers : WF_vars(Running(w))
  /\ \A j \in Jobs : SF_vars(Polled(j))

FairSpec == Spec /\ Fairness

-----------------------------------------------------------------------------
(* Properties *)

(* Every variable has the shape of its table or call stack. *)
TypeOK ==
  /\ stage \in [Jobs -> Stages]
  /\ unapproved \subseteq Jobs
  /\ leases \subseteq Jobs \X Keys
  /\ locks \in [Documents -> Jobs \union {none}]
  /\ thread \in [Workers -> Contexts]
  /\ crashes \in 0 .. MaxCrashes

(* How many jobs may ever hold a key: what the budget allows at its most. *)
Cap(key) == IF key \in Models \union {"io_text"} THEN 2 ELSE 1

(* claim_resource_lease() keeps every pool within its limit, through crashes
   and orphans; the class a model is booked under has no limit of its own. *)
LeasesWithinLimit ==
  \A key \in Keys \ {"llm_generation"} : Cardinality(Holders(key)) <= Cap(key)

(* A stage runs only while its job holds the lease it was admitted with and,
   when it changes a document, that document's lock. *)
RunsUnderLease ==
  \A w \in Workers : At(w, "run") =>
    /\ <<thread[w].job, thread[w].key>> \in leases
    /\ thread[w].mutating => locks[Document[thread[w].job]] = thread[w].job

(* No two threads change the same document at a time. *)
OneWriterPerDocument ==
  \A v, w \in Workers :
    /\ v # w /\ At(v, "run") /\ At(w, "run")
    /\ thread[v].mutating /\ thread[w].mutating
    => Document[thread[v].job] # Document[thread[w].job]

(* A lease, orphaned or not, is given back while its job can be resumed at all,
   its source still being in 1_volcado: no crash blocks the other jobs of a class
   for ever, unless the job that held the lease has ended or is held back from
   the scheduler. *)
LeasesGivenBack ==
  \A j \in Jobs :
    (\E key \in Keys : <<j, key>> \in leases) ~>
      \/ stage[j] \in TerminalStages \/ HeldBack(j)
      \/ ~\E key \in Keys : <<j, key>> \in leases
=============================================================================
