----------------------- MODULE IngestionPipeline_proofs -----------------------
(* Safety of IngestionPipeline for any number of threads, any bounds and any
   choice of faults: the revision check keeps snapshots current, stages stay on
   the graph, and a quarantined job's source was moved.  With one thread the
   pipeline implements the lifecycle and a failed job leaves nothing behind; with
   one worker a completed job has its output. *)
EXTENDS IngestionPipeline, TLAPS

(* What a thread between two durable steps has decided to write, or to do. *)
Planned(c) ==
  /\ c.pc = "advance" => c.to \notin TerminalFailure
  /\ c.pc = "register" => c.slot \in Slots
  /\ c.pc = "commit" => IsEdge(c.job.stage, c.next.stage)
  /\ c.pc = "rewound" => c.next.stage = "saved_clean"
  /\ c.pc = "compensate" =>
       c.to \in TerminalFailure /\ (c.to = c.job.stage \/ IsEdge(c.job.stage, c.to))
  /\ c.pc \in {"settle", "retry"} =>
       c.next.stage = c.job.stage \/ IsEdge(c.job.stage, c.next.stage)
  /\ c.tries = 2 => c.pc \in {"failing", "quarantine", "retry", "compensate", "settle"}

(* A context that knows of, or is about to record, a quarantine. *)
Quarantining(c) ==
  \/ c.job.stage = "quarantined" \/ c.next.stage = "quarantined"
  \/ c.pc = "compensate" /\ c.to = "quarantined"

IInv ==
  /\ TypeOK
  /\ SnapshotsAreCurrent
  /\ \A w \in Threads : Planned(worker[w])
  /\ QuarantinedWasMoved
  /\ \A w \in Threads : Quarantining(worker[w]) => files.src = "quarantine"

(* The shape of what only some steps change. *)
StoreTyped ==
  /\ files \in [src : {"inbox", "quarantine", "deleted"}, dirty : BOOLEAN,
                cache : BOOLEAN, clean : [Slots -> Versions], note : Versions,
                 stuck : SUBSET {"dirty", "clean", "index", "vectors"}]
  /\ index \in [rows : BOOLEAN, vec : Versions, noteRow : BOOLEAN]
  /\ catalog \in [hash : [Slots -> Versions], ok : SUBSET Slots,
                  identity : {"none", "source", "clean", "note"}]
  /\ granted \subseteq {"1_to_2", "2_to_3"}
  /\ interruptions \in 0 .. MaxInterruptions

-----------------------------------------------------------------------------
(* Lemmas *)

(* Every active stage may end in every failure, as failing handlers rely on. *)
LEMMA EdgeToFailure ==
  ASSUME NEW s \in Stages \ TerminalStages, NEW t \in TerminalFailure
  PROVE  IsEdge(s, t)
BY DEF Stages, IsEdge

(* The shape of a context survives a change of any one field. *)
LEMMA ContextFields ==
  ASSUME NEW c \in Contexts
  PROVE  /\ \A x \in Positions : [c EXCEPT !.pc = x] \in Contexts
         /\ \A x \in Rows : [c EXCEPT !.job = x] \in Contexts
         /\ \A x \in Rows : [c EXCEPT !.next = x] \in Contexts
         /\ \A x \in Stages \union {"none"} : [c EXCEPT !.to = x] \in Contexts
         /\ \A x \in Slots \union {"none"} : [c EXCEPT !.slot = x] \in Contexts
         /\ \A x \in Codes : [c EXCEPT !.code = x] \in Contexts
         /\ \A x \in 0 .. 2 : [c EXCEPT !.tries = x] \in Contexts
         /\ \A x \in Versions : [c EXCEPT !.content = x] \in Contexts
         /\ \A x \in Versions : [c EXCEPT !.origin = x] \in Contexts
BY ZenonT(30) DEF Contexts

(* The resting context has the shape of a context. *)
LEMMA RestingTyped == NewRow \in Rows /\ Resting \in Contexts
BY SMT, PipelineAssumption DEF Contexts, Resting, NewRow, Rows, Positions, Stages,
  ActiveStages, NextStage, TerminalStages, TerminalFailure, Codes, Slots, Versions

(* One thread's step keeps the invariant when the context it leaves behind is
   consistent and whoever keeps a current snapshot knows the row as it is. *)
LEMMA StepKeeps ==
  ASSUME IInv, NEW w \in Threads, NEW c \in Contexts, Become(w, c),
         row' \in Rows, fresh' \subseteq fresh \union {w},
         row' = row \/ fresh' \subseteq {w},
         w \in fresh' => c.pc # "idle" /\ c.job = row',
         Planned(c), StoreTyped',
         Quarantining(c) \/ row'.stage = "quarantined" => files'.src = "quarantine",
         files.src = "quarantine" => files'.src = "quarantine"
  PROVE  IInv'
<1>1. worker' \in [Threads -> Contexts] /\ worker'[w] = c
      /\ \A v \in Threads \ {w} : worker'[v] = worker[v]
  BY DEF IInv, TypeOK, Become
<1>2. TypeOK'
  BY <1>1 DEF TypeOK, StoreTyped, IInv
<1>3. SnapshotsAreCurrent'
  <2> SUFFICES ASSUME NEW v \in fresh'
               PROVE  worker'[v].pc # "idle" /\ worker'[v].job = row'
    BY DEF SnapshotsAreCurrent
  <2>1. CASE v = w
    BY <2>1, <1>1
  <2>2. CASE v # w
    BY <2>2, <1>1 DEF IInv, SnapshotsAreCurrent, TypeOK
  <2> QED BY <2>1, <2>2
<1>4. \A v \in Threads : Planned(worker'[v])
  BY <1>1 DEF IInv
<1>5. \A v \in Threads : Quarantining(worker'[v]) => files'.src = "quarantine"
  BY <1>1 DEF IInv
<1> QED BY <1>2, <1>3, <1>4, <1>5 DEF IInv, QuarantinedWasMoved, Planned, Quarantining

(* The shape of a row survives a change of any one column. *)
LEMMA RowFields ==
  ASSUME NEW r \in Rows
  PROVE  /\ \A x \in Stages : [r EXCEPT !.stage = x] \in Rows
         /\ \A x \in {"pending", "claimed"} \union TerminalStages :
              [r EXCEPT !.status = x] \in Rows
         /\ \A x \in 0 .. AttemptCap : [r EXCEPT !.attempts = x] \in Rows
         /\ \A x \in Codes : [r EXCEPT !.code = x] \in Rows
         /\ \A x \in BOOLEAN : [r EXCEPT !.cancel = x] \in Rows
         /\ \A x \in BOOLEAN : [r EXCEPT !.dirty = x] \in Rows
         /\ \A x \in Slots \union {"none"} : [r EXCEPT !.clean = x] \in Rows
         /\ \A x \in BOOLEAN : [r EXCEPT !.note = x] \in Rows
BY ZenonT(30) DEF Rows

(* A wait is a row whose stage did not move. *)
LEMMA WaitingTyped ==
  ASSUME NEW reason \in Codes, row \in Rows
  PROVE  Waiting(reason) \in Rows /\ Waiting(reason).stage = row.stage
<1>1. [row EXCEPT !.status = "pending"] \in Rows
  BY RowFields
<1>2. Waiting(reason) = [[row EXCEPT !.status = "pending"] EXCEPT !.code = reason]
  BY DEF Waiting
<1>3. Waiting(reason) \in Rows
  BY <1>1, <1>2, RowFields
<1> QED BY <1>3 DEF Waiting, Rows

(* Leaving resume() keeps the invariant as long as the row stays a row. *)
LEMMA RestKeeps ==
  ASSUME IInv, NEW w \in Threads, Become(w, Resting),
         row' \in Rows, fresh' \subseteq fresh \ {w}, row' = row \/ fresh' = {},
         row'.stage = "quarantined" => files.src = "quarantine",
         files' = files, StoreTyped'
  PROVE  IInv'
<1>1. StoreTyped'
  OBVIOUS
<1>2. Planned(Resting) /\ ~Quarantining(Resting)
  BY DEF Planned, Quarantining, Resting, NewRow
<1> QED BY <1>1, <1>2, RestingTyped, StepKeeps DEF IInv, TypeOK

(* Reloading the row keeps it when the rest of the context is consistent. *)
LEMMA ReloadKeeps ==
  ASSUME IInv, NEW w \in Threads, NEW c \in Contexts, Reload(w, c),
         c.pc # "idle", Planned([c EXCEPT !.job = row]),
         c.next.stage = "quarantined" \/ (c.pc = "compensate" /\ c.to = "quarantined")
           => files.src = "quarantine",
         StoreTyped', row' = row, files'.src = files.src
  PROVE  IInv'
<1> DEFINE d == [c EXCEPT !.job = row]
<1>1. d \in Contexts
  BY ContextFields DEF IInv, TypeOK
<1>2. d.job = row /\ d.pc = c.pc /\ d.to = c.to /\ d.next = c.next
  BY DEF Contexts
<1>3. Quarantining(d) \/ row'.stage = "quarantined" => files'.src = "quarantine"
  BY <1>2 DEF Quarantining, IInv, QuarantinedWasMoved
<1>4. Become(w, d) /\ fresh' = fresh \union {w}
  BY DEF Reload
<1> QED BY <1>1, <1>2, <1>3, <1>4, StepKeeps DEF IInv, TypeOK

(* A step that touches neither the row nor its snapshot. *)
LEMMA QuietKeeps ==
  ASSUME IInv, NEW w \in Threads, NEW c \in Contexts, Become(w, c),
         c.pc # "idle", c.job = worker[w].job, Planned(c),
         Quarantining(c) => Quarantining(worker[w]) \/ files'.src = "quarantine",
         StoreTyped', row' = row, fresh' = fresh,
         files'.src = files.src \/ files.src = "inbox"
  PROVE  IInv'
<1>1. w \in fresh' => c.job = row'
  BY DEF IInv, SnapshotsAreCurrent
<1>2. row.stage = "quarantined" \/ Quarantining(worker[w]) => files.src = "quarantine"
  BY DEF IInv, QuarantinedWasMoved
<1>3. files.src = "quarantine" => files'.src = "quarantine"
  OBVIOUS
<1> QED BY <1>1, <1>2, <1>3, StepKeeps DEF IInv, TypeOK

(* A request to cancel leaves a thread with the compensation of the current row. *)
LEMMA CancellingPlanned ==
  ASSUME IInv, NEW w \in Threads, row.stage \notin TerminalStages
  PROVE  /\ Cancelling(w) \in Contexts
         /\ Cancelling(w).pc = "compensate" /\ Cancelling(w).to = "cancelled"
         /\ Cancelling(w).next = worker[w].next
         /\ Planned([Cancelling(w) EXCEPT !.job = row])
<1>1. worker[w] \in Contexts /\ row \in Rows
  BY DEF IInv, TypeOK
<1>2. Cancelling(w) \in Contexts
  <2>1. [worker[w] EXCEPT !.pc = "compensate"] \in Contexts
    BY <1>1, ContextFields DEF Positions
  <2>2. [[worker[w] EXCEPT !.pc = "compensate"] EXCEPT !.to = "cancelled"] \in Contexts
    BY <2>1, ContextFields DEF Stages, TerminalStages, TerminalFailure
  <2> QED BY <2>2, ContextFields DEF Cancelling, Codes
<1>3. IsEdge(row.stage, "cancelled")
  BY <1>1, EdgeToFailure DEF Rows, TerminalFailure
<1> QED BY <1>1, <1>2, <1>3 DEF Planned, Cancelling, Contexts, TerminalFailure

(* Reconciling an edited file with the catalog keeps the catalog's shape. *)
LEMMA ReconciledTyped ==
  ASSUME IInv, NEW r \in Rows
  PROVE  Reconciled(r) \in [hash : [Slots -> Versions], ok : SUBSET Slots,
                            identity : {"none", "source", "clean", "note"}]
<1>1. CASE HasClean(r)
  <2>1. r.clean \in Slots /\ files.clean[r.clean] \in Versions
    BY <1>1 DEF HasClean, Rows, IInv, TypeOK
  <2> QED BY <1>1, <2>1 DEF Reconciled, IInv, TypeOK
<1>2. CASE ~HasClean(r)
  BY <1>2 DEF Reconciled, IInv, TypeOK
<1> QED BY <1>1, <1>2

(* A thread that goes on at another position still has a context's shape. *)
LEMMA PositionTyped ==
  ASSUME IInv, NEW w \in Threads, NEW p \in Positions
  PROVE  [worker[w] EXCEPT !.pc = p] \in Contexts
BY ContextFields DEF IInv, TypeOK

(* A wait keeps a context's shape and decides nothing. *)
LEMMA ParkingPlanned ==
  ASSUME IInv, NEW w \in Threads, NEW code \in Codes, worker[w].tries # 2,
         NEW r \in Rows
  PROVE  /\ Parking(w, code) \in Contexts
         /\ Planned([Parking(w, code) EXCEPT !.job = r]) /\ Planned(Parking(w, code))
<1>1. [worker[w] EXCEPT !.pc = "park"] \in Contexts
  BY PositionTyped DEF Positions
<1>2. Parking(w, code) \in Contexts
  BY <1>1, ContextFields DEF Parking
<1> QED BY <1>2 DEF Planned, Parking, Contexts, IInv, TypeOK

(* So does a raised error. *)
LEMMA RaisedPlanned ==
  ASSUME IInv, NEW w \in Threads, NEW code \in Codes
  PROVE  /\ Raised(w, code) \in Contexts /\ Planned(Raised(w, code))
<1>1. [worker[w] EXCEPT !.pc = "failing"] \in Contexts
  BY PositionTyped DEF Positions
<1>2. Raised(w, code) \in Contexts
  BY <1>1, ContextFields DEF Raised
<1> QED BY <1>2 DEF Planned, Raised, Contexts, IInv, TypeOK

(* And a handler that is done: its target is never a failure. *)
LEMMA AdvancingPlanned ==
  ASSUME IInv, NEW w \in Threads, NEW to \in Stages \ TerminalFailure, worker[w].tries # 2
  PROVE  /\ Advancing(w, to) \in Contexts /\ Planned(Advancing(w, to))
<1>1. [worker[w] EXCEPT !.pc = "advance"] \in Contexts
  BY PositionTyped DEF Positions
<1>2. Advancing(w, to) \in Contexts
  BY <1>1, ContextFields DEF Advancing
<1> QED BY <1>2 DEF Planned, Advancing, Contexts, IInv, TypeOK

-----------------------------------------------------------------------------
(* resume() up to the handler *)

LEMMA RefuseLlmKeeps ==
  ASSUME IInv, NEW w \in Threads, RefuseLlm(w)
  PROVE  IInv'
<1>1. row' \in Rows /\ (row' = row \/ fresh' = {}) /\ row'.stage = row.stage
  BY WaitingTyped DEF RefuseLlm, IInv, TypeOK, Codes
<1>2. fresh' \subseteq fresh \ {w}
  BY DEF RefuseLlm
<1>3. StoreTyped' /\ files' = files
  BY DEF RefuseLlm, IInv, TypeOK, StoreTyped
<1> QED BY <1>1, <1>2, <1>3, RestKeeps DEF RefuseLlm, IInv, QuarantinedWasMoved

LEMMA ResumeKeeps ==
  ASSUME IInv, NEW w \in Threads, Resume(w)
  PROVE  IInv'
<1>1. StoreTyped' /\ files' = files /\ row \in Rows
  BY DEF Resume, IInv, TypeOK, StoreTyped
<1>2. CASE row.cancel /\ Reload(w, Cancelling(w)) /\ UNCHANGED row
  <2>1. worker[w].next.stage # "quarantined" \/ files.src = "quarantine"
    BY DEF IInv, Quarantining
  <2> QED BY <1>1, <1>2, <2>1, CancellingPlanned, ReloadKeeps DEF Resume
<1>3. ASSUME row.status = "pending",
             Save(w, [row EXCEPT !.status = "claimed", !.attempts = Bump(@)]),
             Become(w, [Resting EXCEPT !.pc = "loop", !.job = row'])
      PROVE  IInv'
  <2> DEFINE c == [Resting EXCEPT !.pc = "loop", !.job = row']
  <2>1. row' \in Rows
    <3>1. Bump(row.attempts) \in 0 .. AttemptCap
      BY <1>1, PipelineAssumption DEF Bump, Rows
    <3>2. [row EXCEPT !.status = "claimed"] \in Rows
      BY <1>1, RowFields
    <3> QED BY <1>1, <1>3, <3>1, <3>2, RowFields DEF Save, Rows
  <2>2. c \in Contexts
    <3>1. [Resting EXCEPT !.pc = "loop"] \in Contexts
      BY RestingTyped, ContextFields DEF Positions
    <3> QED BY <2>1, <3>1, ContextFields
  <2>3. Planned(c) /\ c.job = row' /\ c.pc = "loop" /\ c.next.stage # "quarantined"
    BY DEF Planned, Resting, NewRow
  <2>4. row'.stage = row.stage /\ row.stage \notin TerminalStages
    BY <1>1, <1>3 DEF Save, Rows, Resume
  <2>5. ~Quarantining(c) /\ row'.stage # "quarantined"
    BY <2>3, <2>4 DEF Quarantining, TerminalStages, TerminalFailure
  <2> QED BY <1>1, <1>3, <2>1, <2>2, <2>3, <2>5, StepKeeps DEF Save
<1>4. ASSUME Reload(w, [Resting EXCEPT !.pc = "loop"]), UNCHANGED row
      PROVE  IInv'
  <2> DEFINE c == [Resting EXCEPT !.pc = "loop"]
  <2>1. c \in Contexts
    BY RestingTyped, ContextFields DEF Positions
  <2>2. Planned([c EXCEPT !.job = row]) /\ c.next.stage # "quarantined" /\ c.pc = "loop"
    BY DEF Planned, Resting, NewRow
  <2> QED BY <1>1, <1>4, <2>1, <2>2, ReloadKeeps
<1> QED BY <1>2, <1>3, <1>4 DEF Resume

LEMMA LoopKeeps ==
  ASSUME IInv, NEW w \in Threads, Loop(w)
  PROVE  IInv'
<1>1. /\ row \in Rows /\ worker[w] \in Contexts /\ worker[w].tries # 2
      /\ files' = files /\ row' = row
  BY DEF Loop, At, IInv, TypeOK, Planned
<1>2. StoreTyped'
  <2>1. catalog' = catalog \/ catalog' = Reconciled(row)
    BY DEF Loop
  <2> QED BY <2>1, ReconciledTyped DEF Loop, IInv, TypeOK, StoreTyped
<1>3. worker[w].next.stage = "quarantined" => files.src = "quarantine"
  BY DEF IInv, Quarantining
<1>4. CASE Rest(w) /\ UNCHANGED catalog
  BY <1>1, <1>2, <1>4, RestKeeps DEF Rest, Loop, IInv, QuarantinedWasMoved, TypeOK
<1>5. CASE row.stage \notin TerminalStages /\ Reload(w, Cancelling(w))
  BY <1>1, <1>2, <1>3, <1>5, CancellingPlanned, ReloadKeeps
<1>6. ASSUME NEW code \in {"awaiting_clean_approval", "resource_wait"},
             Reload(w, Parking(w, code))
      PROVE  IInv'
  <2>1. code \in Codes
    BY DEF Codes
  <2>2. Parking(w, code).pc = "park" /\ Parking(w, code).next = worker[w].next
    BY <1>1 DEF Parking, Contexts
  <2> QED BY <1>1, <1>2, <1>3, <1>6, <2>1, <2>2, ParkingPlanned, ReloadKeeps
<1>7. ASSUME Reload(w, [worker[w] EXCEPT !.pc = "boundary"])
      PROVE  IInv'
  <2> DEFINE c == [worker[w] EXCEPT !.pc = "boundary"]
  <2>1. c \in Contexts
    BY PositionTyped DEF Positions
  <2>2. c.pc = "boundary" /\ c.next = worker[w].next /\ Planned([c EXCEPT !.job = row])
    BY <1>1 DEF Planned, Contexts
  <2> QED BY <1>1, <1>2, <1>3, <1>7, <2>1, <2>2, ReloadKeeps
<1> QED BY <1>4, <1>5, <1>6, <1>7 DEF Loop

LEMMA BoundaryKeeps ==
  ASSUME IInv, NEW w \in Threads, Boundary(w)
  PROVE  IInv'
<1>1. /\ row \in Rows /\ worker[w] \in Contexts /\ worker[w].tries # 2
      /\ files' = files /\ row' = row /\ StoreTyped'
  BY DEF Boundary, At, IInv, TypeOK, StoreTyped, Planned
<1>2. worker[w].next.stage = "quarantined" => files.src = "quarantine"
  BY DEF IInv, Quarantining
<1>3. CASE Rest(w)
  BY <1>1, <1>3, RestKeeps DEF Rest, Boundary, IInv, QuarantinedWasMoved, TypeOK
<1>4. CASE row.stage \notin TerminalStages /\ Reload(w, Cancelling(w))
  BY <1>1, <1>2, <1>4, CancellingPlanned, ReloadKeeps
<1>5. ASSUME Reload(w, [worker[w] EXCEPT !.pc = "handle"])
      PROVE  IInv'
  <2> DEFINE c == [worker[w] EXCEPT !.pc = "handle"]
  <2>1. c \in Contexts
    BY PositionTyped DEF Positions
  <2>2. c.pc = "handle" /\ c.next = worker[w].next /\ Planned([c EXCEPT !.job = row])
    BY <1>1 DEF Planned, Contexts
  <2> QED BY <1>1, <1>2, <1>5, <2>1, <2>2, ReloadKeeps
<1> QED BY <1>3, <1>4, <1>5 DEF Boundary

LEMMA ParkKeeps ==
  ASSUME IInv, NEW w \in Threads, Park(w)
  PROVE  IInv'
<1>1. row \in Rows /\ worker[w].code \in Codes
  BY DEF IInv, TypeOK, Contexts
<1>2. row' \in Rows /\ (row' = row \/ fresh' = {}) /\ row'.stage = row.stage
  BY <1>1, WaitingTyped DEF Park
<1>3. fresh' \subseteq fresh \ {w}
  BY DEF Park
<1>4. StoreTyped' /\ files' = files
  BY DEF Park, IInv, TypeOK, StoreTyped
<1> QED BY <1>2, <1>3, <1>4, RestKeeps DEF Park, IInv, QuarantinedWasMoved

LEMMA PollParkedKeeps ==
  ASSUME IInv, NEW w \in Threads, PollParked(w)
  PROVE  IInv'
<1>1. TypeOK'
  BY ReconciledTyped DEF PollParked, IInv, TypeOK
<1> QED BY <1>1 DEF PollParked, IInv, SnapshotsAreCurrent, QuarantinedWasMoved,
                    Planned, Quarantining

-----------------------------------------------------------------------------
(* The handlers: none of them writes the stage, and a quarantine is none of
   their decisions. *)

(* What every handler starts from. *)
LEMMA HandlerStart ==
  ASSUME IInv, NEW w \in Threads, worker[w].pc \in {"handle", "register", "publish"}
  PROVE  /\ row \in Rows /\ worker[w] \in Contexts /\ worker[w].tries # 2 /\ StoreTyped
         /\ worker[w].job \in Rows
         /\ worker[w].job.clean \in Slots =>
              files.clean[worker[w].job.clean] \in Versions
BY DEF IInv, TypeOK, StoreTyped, Planned, Contexts

(* A handler that raises, waits or is done keeps the invariant, whatever it
   did to the files, the index and the catalog, if it left the source alone. *)
LEMMA RaiseKeeps ==
  ASSUME IInv, NEW w \in Threads, NEW code \in Codes, Become(w, Raised(w, code)),
         StoreTyped', row' = row, fresh' = fresh, files'.src = files.src
  PROVE  IInv'
<1>1. Raised(w, code) \in Contexts /\ Planned(Raised(w, code))
  BY RaisedPlanned
<1>2. /\ Raised(w, code).pc = "failing" /\ Raised(w, code).job = worker[w].job
      /\ Quarantining(Raised(w, code)) => Quarantining(worker[w])
  BY DEF Raised, Quarantining, IInv, TypeOK, Contexts
<1> QED BY <1>1, <1>2, QuietKeeps

LEMMA ParkingKeeps ==
  ASSUME IInv, NEW w \in Threads, NEW code \in Codes, Become(w, Parking(w, code)),
         worker[w].tries # 2,
         StoreTyped', row' = row, fresh' = fresh, files'.src = files.src
  PROVE  IInv'
<1>1. Parking(w, code) \in Contexts /\ Planned(Parking(w, code))
  BY ParkingPlanned, RestingTyped
<1>2. /\ Parking(w, code).pc = "park" /\ Parking(w, code).job = worker[w].job
      /\ Quarantining(Parking(w, code)) => Quarantining(worker[w])
  BY DEF Parking, Quarantining, IInv, TypeOK, Contexts
<1> QED BY <1>1, <1>2, QuietKeeps

LEMMA AdvanceKeeps ==
  ASSUME IInv, NEW w \in Threads, NEW to \in Stages \ TerminalFailure,
         worker[w].tries # 2, NEW c \in Contexts, Become(w, c),
         c.pc = "advance", c.to = to, c.job = worker[w].job, c.next = worker[w].next,
         c.tries = worker[w].tries,
         StoreTyped', row' = row, fresh' = fresh, files'.src = files.src
  PROVE  IInv'
<1>1. Planned(c) /\ (Quarantining(c) => Quarantining(worker[w]))
  BY DEF Planned, Quarantining
<1> QED BY <1>1, QuietKeeps

(* What a handler that is done leaves in its context. *)
LEMMA AdvancingShape ==
  ASSUME IInv, NEW w \in Threads, NEW to \in Stages \ TerminalFailure
  PROVE  LET c == Advancing(w, to) IN
         /\ c \in Contexts /\ c.pc = "advance" /\ c.to = to /\ c.job = worker[w].job
         /\ c.next = worker[w].next /\ c.tries = worker[w].tries
<1>1. [worker[w] EXCEPT !.pc = "advance"] \in Contexts
  BY PositionTyped DEF Positions
<1>2. Advancing(w, to) \in Contexts
  BY <1>1, ContextFields DEF Advancing
<1>3. worker[w] \in Contexts
  BY DEF IInv, TypeOK
<1> QED BY <1>2, <1>3 DEF Advancing, Contexts

LEMMA AdvancingKeeps ==
  ASSUME IInv, NEW w \in Threads, NEW to \in Stages \ TerminalFailure,
         worker[w].tries # 2, Become(w, Advancing(w, to)),
         StoreTyped', row' = row, fresh' = fresh, files'.src = files.src
  PROVE  IInv'
<1> DEFINE c == Advancing(w, to)
<1>1. /\ c \in Contexts /\ c.pc = "advance" /\ c.to = to /\ c.job = worker[w].job
      /\ c.next = worker[w].next /\ c.tries = worker[w].tries
  BY AdvancingShape
<1>2. Become(w, c)
  OBVIOUS
<1> HIDE DEF c
<1> QED BY <1>1, <1>2, AdvanceKeeps

LEMMA ServingKeeps ==
  ASSUME IInv, NEW w \in Threads, NEW to \in Stages \ TerminalFailure,
         worker[w].tries # 2, Become(w, Serving(w, to)), Origin(w) \in Versions,
         StoreTyped', row' = row, fresh' = fresh, files'.src = files.src
  PROVE  IInv'
<1> DEFINE c == Serving(w, to)
<1>1. /\ c \in Contexts /\ c.pc = "advance" /\ c.to = to /\ c.job = worker[w].job
      /\ c.next = worker[w].next /\ c.tries = worker[w].tries
  BY AdvancingShape, ContextFields DEF Serving, Contexts
<1>2. Become(w, c)
  OBVIOUS
<1> HIDE DEF c
<1> QED BY <1>1, <1>2, AdvanceKeeps

(* Where the handlers lead. *)
LEMMA HappyStages ==
  /\ {"stabilized", "copied_dirty", "extracted", "saved_clean", "indexed_chunks",
      "generated_candidate", "validated_candidate", "saved_note", "indexed_note",
      "completed"} \subseteq Stages \ TerminalFailure
  /\ 0 \in Versions /\ 1 \in Versions
BY PipelineAssumption DEF Stages, ActiveStages, NextStage, TerminalStages,
                          TerminalFailure, Versions

LEMMA HandlerFaultKeeps ==
  ASSUME IInv, NEW w \in Threads, HandlerFault(w)
  PROVE  IInv'
<1>1. PICK code \in Codes : Raise(w, code)
  BY DEF HandlerFault, Codes
<1>2. StoreTyped'
  BY DEF HandlerFault, IInv, TypeOK, StoreTyped
<1> QED BY <1>1, <1>2, RaiseKeeps DEF Raise, HandlerFault

LEMMA StabilizeKeeps ==
  ASSUME IInv, NEW w \in Threads, Stabilize(w)
  PROVE  IInv'
<1>1. worker[w].tries # 2 /\ StoreTyped'
  BY HandlerStart DEF Stabilize, Handling, At, StoreTyped
<1>2. CASE Advance(w, "stabilized")
  BY <1>1, <1>2, HappyStages, AdvancingKeeps DEF Advance, Stabilize
<1>3. CASE Raise(w, "source_not_stable")
  BY <1>1, <1>3, RaiseKeeps DEF Raise, Codes, Stabilize
<1> QED BY <1>2, <1>3 DEF Stabilize

LEMMA CopyToDirtyKeeps ==
  ASSUME IInv, NEW w \in Threads, CopyToDirty(w)
  PROVE  IInv'
<1>1. /\ worker[w].tries # 2 /\ StoreTyped' /\ row' = row /\ files'.src = files.src
  BY HandlerStart DEF CopyToDirty, Handling, At, StoreTyped
<1>2. CASE Advance(w, "copied_dirty")
  BY <1>1, <1>2, HappyStages, AdvancingKeeps DEF Advance
<1>3. CASE Become(w, Parking(w, "awaiting_transition_approval")) /\ UNCHANGED fresh
  BY <1>1, <1>3, ParkingKeeps DEF Codes
<1>4. CASE Raise(w, "transient_io")
  BY <1>1, <1>4, RaiseKeeps DEF Raise, Codes
<1> QED BY <1>2, <1>3, <1>4 DEF CopyToDirty

LEMMA ExtractKeeps ==
  ASSUME IInv, NEW w \in Threads, Extract(w)
  PROVE  IInv'
<1>1. /\ row \in Rows /\ worker[w] \in Contexts /\ worker[w].tries # 2
      /\ worker[w].job \in Rows /\ worker[w].pc = "handle"
      /\ StoreTyped' /\ files'.src = files.src
      /\ worker[w].job.stage = "copied_dirty"
  <2>1. worker[w].pc = "handle" /\ worker[w].job.stage = "copied_dirty"
    BY DEF Extract, Handling, At
  <2>2. files' = files \/ files' = [files EXCEPT !.cache = TRUE]
    BY DEF Extract
  <2>3. StoreTyped' /\ files'.src = files.src
    BY <2>1, <2>2, HandlerStart DEF Extract, StoreTyped
  <2> QED BY <2>1, <2>3, HandlerStart
<1>2. ASSUME NEW code \in {"missing_artifact", "job_revision_conflict"},
             Raise(w, code), row' = row
      PROVE  IInv'
  BY <1>1, <1>2, RaiseKeeps DEF Raise, Codes
<1>3. ASSUME Become(w, [Advancing(w, "extracted") EXCEPT !.content = 1]),
             UNCHANGED <<row, fresh>>
      PROVE  IInv'
  <2> DEFINE c == [Advancing(w, "extracted") EXCEPT !.content = 1]
  <2>1. /\ c \in Contexts /\ c.pc = "advance" /\ c.to = "extracted"
        /\ c.job = worker[w].job /\ c.next = worker[w].next /\ c.tries = worker[w].tries
    BY HappyStages, AdvancingShape, ContextFields DEF Contexts
  <2>2. Become(w, c)
    BY <1>3
  <2> HIDE DEF c
  <2> QED BY <1>1, <1>3, <2>1, <2>2, HappyStages, AdvanceKeeps
<1>4. ASSUME Become(w, [worker[w] EXCEPT !.pc = "compensate", !.to = "skipped",
                                         !.code = "skipped"]),
             UNCHANGED <<row, fresh>>
      PROVE  IInv'
  <2> DEFINE c == [[[worker[w] EXCEPT !.pc = "compensate"] EXCEPT !.to = "skipped"]
                     EXCEPT !.code = "skipped"]
  <2>1. c \in Contexts
    <3>1. [worker[w] EXCEPT !.pc = "compensate"] \in Contexts
      BY PositionTyped DEF Positions
    <3>2. [[worker[w] EXCEPT !.pc = "compensate"] EXCEPT !.to = "skipped"] \in Contexts
      BY <3>1, ContextFields DEF Stages, TerminalStages, TerminalFailure
    <3> QED BY <3>2, ContextFields DEF Codes
  <2>2. /\ c.pc = "compensate" /\ c.to = "skipped" /\ c.job = worker[w].job
        /\ c.next = worker[w].next
    BY <1>1 DEF Contexts
  <2>3. IsEdge("copied_dirty", "skipped")
    BY DEF IsEdge, ActiveStages, NextStage, TerminalFailure
  <2>4. Planned(c) /\ (Quarantining(c) => Quarantining(worker[w]))
    BY <1>1, <2>2, <2>3 DEF Planned, Quarantining, TerminalFailure
  <2>5. Become(w, c)
    BY <1>4
  <2> HIDE DEF c
  <2> QED BY <1>1, <1>4, <2>1, <2>2, <2>4, <2>5, QuietKeeps
<1>5. ASSUME Matches(w), Save(w, [row EXCEPT !.code = "corrupt_content"]),
             "corrupt_content" \in Faults,
             LET tried == [worker[w] EXCEPT !.job = row', !.tries = @ + 1] IN
             Become(w, IF tried.tries < MaxAttempts["corrupt_or_unsupported"]
                         THEN tried
                         ELSE [tried EXCEPT !.pc = "failing", !.code = "corrupt_content"])
      PROVE  IInv'
  <2> DEFINE tried == [[worker[w] EXCEPT !.job = row'] EXCEPT !.tries = worker[w].tries + 1]
             raised == [[tried EXCEPT !.pc = "failing"] EXCEPT !.code = "corrupt_content"]
             c == IF tried.tries < 2 THEN tried ELSE raised
  <2>1. row' \in Rows /\ row'.stage = row.stage
    <3>1. "corrupt_content" \in Codes
      BY <1>5 DEF Codes
    <3>2. [row EXCEPT !.code = "corrupt_content"] \in Rows
      BY <1>1, <3>1, RowFields
    <3> QED BY <1>1, <1>5, <3>2 DEF Save, Rows
  <2>2. tried \in Contexts
    <3>1. [worker[w] EXCEPT !.job = row'] \in Contexts
      BY <1>1, <2>1, ContextFields
    <3>2. worker[w].tries + 1 \in 0 .. 2
      BY <1>1 DEF Contexts
    <3> QED BY <3>1, <3>2, ContextFields
  <2>3. /\ tried.job = row' /\ tried.next = worker[w].next /\ tried.pc = "handle"
        /\ tried.tries = worker[w].tries + 1 /\ tried.tries \in 0 .. 2
    BY <1>1, <2>2 DEF Contexts
  <2>4. raised \in Contexts
    <3>1. [tried EXCEPT !.pc = "failing"] \in Contexts
      BY <2>2, ContextFields DEF Positions
    <3>2. "corrupt_content" \in Codes
      BY <1>5 DEF Codes
    <3> QED BY <3>1, <3>2, ContextFields
  <2>5. /\ raised.job = row' /\ raised.next = worker[w].next /\ raised.pc = "failing"
    BY <2>2, <2>3 DEF Contexts
  <2>6. c \in Contexts /\ c.pc # "idle" /\ c.job = row'
    BY <2>2, <2>3, <2>4, <2>5
  <2>7. Planned(c)
    BY <2>2, <2>3, <2>5 DEF Planned
  <2>8. Quarantining(c) \/ row'.stage = "quarantined" => files'.src = "quarantine"
    BY <1>1, <2>1, <2>3, <2>5 DEF Quarantining, IInv, QuarantinedWasMoved
  <2>9. Become(w, c)
    BY <1>5 DEF MaxAttempts
  <2> HIDE DEF c
  <2> QED BY <1>1, <1>5, <2>1, <2>6, <2>7, <2>8, <2>9, StepKeeps DEF Save
<1> QED BY <1>2, <1>3, <1>4, <1>5 DEF Extract

LEMMA SaveCleanKeeps ==
  ASSUME IInv, NEW w \in Threads, SaveClean(w)
  PROVE  IInv'
<1>1. /\ worker[w].tries # 2 /\ row' = row /\ StoreTyped /\ worker[w] \in Contexts
  BY HandlerStart DEF SaveClean, Handling, At
<1>2. StoreTyped' /\ files'.src = files.src
  BY <1>1, HappyStages DEF SaveClean, StoreTyped, FreeSlot, Slots
<1>3. CASE Advance(w, "saved_clean")
  BY <1>1, <1>2, <1>3, HappyStages, AdvancingKeeps DEF Advance
<1>4. CASE Become(w, Parking(w, "awaiting_transition_approval")) /\ UNCHANGED fresh
  BY <1>1, <1>2, <1>4, ParkingKeeps DEF Codes
<1>5. CASE Raise(w, "missing_artifact")
  BY <1>1, <1>2, <1>5, RaiseKeeps DEF Raise, Codes
<1>6. ASSUME Become(w, [worker[w] EXCEPT !.pc = "register", !.slot = FreeSlot, !.content = 1]),
             UNCHANGED fresh
      PROVE  IInv'
  <2> DEFINE c == [[[worker[w] EXCEPT !.pc = "register"] EXCEPT !.slot = FreeSlot]
                     EXCEPT !.content = 1]
  <2>1. c \in Contexts
    <3>1. [worker[w] EXCEPT !.pc = "register"] \in Contexts
      BY PositionTyped DEF Positions
    <3>2. [[worker[w] EXCEPT !.pc = "register"] EXCEPT !.slot = FreeSlot] \in Contexts
      BY <3>1, ContextFields DEF FreeSlot, Slots
    <3> QED BY <3>2, HappyStages, ContextFields
  <2>2. /\ c.pc = "register" /\ c.job = worker[w].job /\ c.next = worker[w].next
        /\ c.slot \in Slots /\ c.tries # 2
    BY <1>1 DEF Contexts, FreeSlot, Slots
  <2>3. Planned(c) /\ (Quarantining(c) => Quarantining(worker[w]))
    BY <2>2 DEF Planned, Quarantining
  <2>4. Become(w, c)
    BY <1>6
  <2> HIDE DEF c
  <2> QED BY <1>1, <1>2, <1>6, <2>1, <2>2, <2>3, <2>4, QuietKeeps
<1> QED BY <1>3, <1>4, <1>5, <1>6 DEF SaveClean

LEMMA RegisterCanonicalKeeps ==
  ASSUME IInv, NEW w \in Threads, RegisterCanonical(w)
  PROVE  IInv'
<1>1. /\ worker[w].tries # 2 /\ row' = row /\ StoreTyped /\ worker[w].slot \in Slots
  BY HandlerStart DEF RegisterCanonical, At, IInv, Planned
<1>2. StoreTyped' /\ files'.src = files.src
  <2>1. files.clean[worker[w].slot] \in Versions
    BY <1>1 DEF StoreTyped
  <2>2. catalog' = catalog
        \/ catalog' = [catalog EXCEPT !.hash[worker[w].slot] = files.clean[worker[w].slot]]
    BY DEF RegisterCanonical
  <2>3. (catalog \in [hash : [Slots -> Versions], ok : SUBSET Slots,
                      identity : {"none", "source", "clean", "note"}])'
    BY <1>1, <2>1, <2>2 DEF StoreTyped
  <2> QED BY <1>1, <2>3 DEF RegisterCanonical, StoreTyped
<1>3. CASE Advance(w, "saved_clean")
  BY <1>1, <1>2, <1>3, HappyStages, AdvancingKeeps DEF Advance
<1>4. ASSUME NEW code \in {"path_not_authorized", "transient_io"}, Raise(w, code)
      PROVE  IInv'
  BY <1>1, <1>2, <1>4, RaiseKeeps DEF Raise, Codes
<1> QED BY <1>3, <1>4 DEF RegisterCanonical

(* What a handler that found the capture approved starts from. *)
LEMMA ApprovedStart ==
  ASSUME IInv, NEW w \in Threads, NEW stage, Approved(w, stage)
  PROVE  /\ worker[w].tries # 2 /\ StoreTyped /\ worker[w] \in Contexts
         /\ worker[w].job.stage = stage
         /\ Origin(w) \in Versions /\ ContentOf(w) \in Versions
<1>1. /\ worker[w].tries # 2 /\ StoreTyped /\ worker[w] \in Contexts
      /\ worker[w].job \in Rows /\ worker[w].job.stage = stage
  BY HandlerStart DEF Approved, Handling, At
<1>2. worker[w].job.clean \in Slots
  BY <1>1 DEF Approved, ApprovedClean, HasClean, Rows
<1>3. Origin(w) \in Versions
  BY <1>1, <1>2 DEF Origin, StoreTyped
<1> QED BY <1>1, <1>3 DEF ContentOf, Origin, Contexts

LEMMA UnapprovedKeeps ==
  ASSUME IInv, NEW w \in Threads, Unapproved(w)
  PROVE  IInv'
<1>1. /\ worker[w].tries # 2 /\ StoreTyped /\ worker[w] \in Contexts
      /\ worker[w].job \in Rows
  BY HandlerStart DEF Unapproved
<1>2. StoreTyped' /\ files' = files
  BY <1>1, ReconciledTyped DEF Unapproved, StoreTyped
<1> DEFINE c == [worker[w] EXCEPT !.pc = "rewind"]
<1>3. c \in Contexts
  BY PositionTyped DEF Positions
<1>4. /\ c.pc = "rewind" /\ c.job = worker[w].job /\ Planned(c)
      /\ (Quarantining(c) => Quarantining(worker[w]))
  BY <1>1 DEF Planned, Quarantining, Contexts
<1>5. Become(w, c)
  BY DEF Unapproved
<1> HIDE DEF c
<1> QED BY <1>2, <1>3, <1>4, <1>5, QuietKeeps DEF Unapproved

(* Registering an identity keeps the catalog's shape. *)
LEMMA IdentifiedTyped ==
  ASSUME StoreTyped, NEW who \in {"source", "clean", "note"}
  PROVE  /\ Identified(who) \in [hash : [Slots -> Versions], ok : SUBSET Slots,
                                 identity : {"none", "source", "clean", "note"}]
         /\ [catalog EXCEPT !.identity = who]
              \in [hash : [Slots -> Versions], ok : SUBSET Slots,
                   identity : {"none", "source", "clean", "note"}]
<1>1. [catalog EXCEPT !.identity = who]
        \in [hash : [Slots -> Versions], ok : SUBSET Slots,
             identity : {"none", "source", "clean", "note"}]
  BY DEF StoreTyped
<1> QED BY <1>1 DEF Identified, StoreTyped

LEMMA IndexChunksKeeps ==
  ASSUME IInv, NEW w \in Threads, IndexChunks(w)
  PROVE  IInv'
<1>1. /\ worker[w].tries # 2 /\ StoreTyped /\ worker[w] \in Contexts
      /\ Origin(w) \in Versions /\ ContentOf(w) \in Versions
  BY ApprovedStart DEF IndexChunks
<1>2. index' \in [rows : BOOLEAN, vec : Versions, noteRow : BOOLEAN]
  BY <1>1 DEF IndexChunks, StoreTyped
<1>3. catalog' = catalog \/ catalog' = Identified("source")
  BY DEF IndexChunks
<1>4. StoreTyped' /\ files' = files
  BY <1>1, <1>2, <1>3, IdentifiedTyped DEF IndexChunks, StoreTyped
<1>5. CASE Become(w, Serving(w, "indexed_chunks"))
  BY <1>1, <1>4, <1>5, HappyStages, ServingKeeps DEF IndexChunks
<1>6. ASSUME Become(w, [worker[w] EXCEPT !.pc = "publish", !.origin = Origin(w),
                                         !.content = ContentOf(w)])
      PROVE  IInv'
  <2> DEFINE c == [[[worker[w] EXCEPT !.pc = "publish"] EXCEPT !.origin = Origin(w)]
                     EXCEPT !.content = ContentOf(w)]
  <2>1. c \in Contexts
    <3>1. [worker[w] EXCEPT !.pc = "publish"] \in Contexts
      BY PositionTyped DEF Positions
    <3>2. [[worker[w] EXCEPT !.pc = "publish"] EXCEPT !.origin = Origin(w)] \in Contexts
      BY <1>1, <3>1, ContextFields
    <3> QED BY <1>1, <3>2, ContextFields
  <2>2. /\ c.pc = "publish" /\ c.job = worker[w].job /\ c.next = worker[w].next
        /\ c.tries # 2
    BY <1>1 DEF Contexts
  <2>3. Planned(c) /\ (Quarantining(c) => Quarantining(worker[w]))
    BY <2>2 DEF Planned, Quarantining
  <2>4. Become(w, c)
    BY <1>6
  <2> HIDE DEF c
  <2> QED BY <1>4, <2>1, <2>2, <2>3, <2>4, QuietKeeps DEF IndexChunks
<1> QED BY <1>5, <1>6 DEF IndexChunks

LEMMA PublishChunksKeeps ==
  ASSUME IInv, NEW w \in Threads, PublishChunks(w)
  PROVE  IInv'
<1>1. worker[w].tries # 2 /\ StoreTyped /\ worker[w].content \in Versions
  BY HandlerStart DEF PublishChunks, At, Contexts
<1>2. index' \in [rows : BOOLEAN, vec : Versions, noteRow : BOOLEAN]
  BY <1>1 DEF PublishChunks, StoreTyped
<1>3. catalog' = catalog \/ catalog' = Identified("source")
  BY DEF PublishChunks
<1>4. StoreTyped' /\ files' = files
  BY <1>1, <1>2, <1>3, IdentifiedTyped DEF PublishChunks, StoreTyped
<1>5. CASE Advance(w, "indexed_chunks")
  BY <1>1, <1>4, <1>5, HappyStages, AdvancingKeeps DEF PublishChunks, Advance
<1>6. CASE Raise(w, "processing_error")
  BY <1>4, <1>6, RaiseKeeps DEF PublishChunks, Raise, Codes
<1> QED BY <1>5, <1>6 DEF PublishChunks

LEMMA CompleteCaptureKeeps ==
  ASSUME IInv, NEW w \in Threads, CompleteCapture(w)
  PROVE  IInv'
<1>1. worker[w].tries # 2 /\ StoreTyped /\ Origin(w) \in Versions
  BY ApprovedStart DEF CompleteCapture
<1>2. StoreTyped' /\ files' = files
  BY <1>1, IdentifiedTyped DEF CompleteCapture, StoreTyped
<1> QED BY <1>1, <1>2, HappyStages, ServingKeeps DEF CompleteCapture

LEMMA GenerateKeeps ==
  ASSUME IInv, NEW w \in Threads, Generate(w)
  PROVE  IInv'
<1>1. /\ worker[w].tries # 2 /\ StoreTyped /\ worker[w] \in Contexts
      /\ Origin(w) \in Versions /\ ContentOf(w) \in Versions
      /\ worker[w].job.stage \in {"indexed_chunks", "generated_candidate"}
  BY ApprovedStart DEF Generate
<1>2. StoreTyped' /\ files' = files
  BY <1>1 DEF Generate, StoreTyped
<1>3. CASE Become(w, [Serving(w, NextStage[worker[w].job.stage])
                        EXCEPT !.content = ContentOf(w)])
  <2> DEFINE to == NextStage[worker[w].job.stage]
             s == Serving(w, to)
             c == [s EXCEPT !.content = ContentOf(w)]
  <2>1. to \in Stages \ TerminalFailure
    BY <1>1, HappyStages DEF NextStage
  <2> HIDE DEF to
  <2>2. /\ s \in Contexts /\ s.pc = "advance" /\ s.to = to /\ s.job = worker[w].job
        /\ s.next = worker[w].next /\ s.tries = worker[w].tries
    BY <1>1, <2>1, AdvancingShape, ContextFields DEF Serving, Contexts
  <2> HIDE DEF s
  <2>3. /\ c \in Contexts /\ c.pc = "advance" /\ c.to = to /\ c.job = worker[w].job
        /\ c.next = worker[w].next /\ c.tries = worker[w].tries
    BY <1>1, <2>2, ContextFields DEF Contexts
  <2>4. Become(w, c)
    BY <1>3 DEF s, to
  <2> HIDE DEF c
  <2> QED BY <1>1, <1>2, <2>1, <2>3, <2>4, AdvanceKeeps DEF Generate
<1>4. CASE "invalid_model_output" \in Faults /\ Become(w, Raised(w, "invalid_model_output"))
  BY <1>2, <1>4, RaiseKeeps DEF Generate, Codes
<1>5. CASE Become(w, Parking(w, "resource_wait"))
  BY <1>1, <1>2, <1>5, ParkingKeeps DEF Generate, Codes
<1> QED BY <1>3, <1>4, <1>5 DEF Generate

LEMMA SaveNoteKeeps ==
  ASSUME IInv, NEW w \in Threads, SaveNote(w)
  PROVE  IInv'
<1>1. /\ worker[w].tries # 2 /\ StoreTyped /\ Origin(w) \in Versions
      /\ ContentOf(w) \in Versions
  BY ApprovedStart DEF SaveNote
<1>2. StoreTyped' /\ files'.src = files.src
  BY <1>1, IdentifiedTyped DEF SaveNote, StoreTyped
<1>3. CASE Become(w, Raised(w, "processing_error"))
  BY <1>1, <1>2, <1>3, RaiseKeeps DEF SaveNote, Raise, Codes
<1> QED BY <1>1, <1>2, <1>3, HappyStages, ServingKeeps DEF SaveNote

LEMMA IndexNoteKeeps ==
  ASSUME IInv, NEW w \in Threads, IndexNote(w)
  PROVE  IInv'
<1>1. worker[w].tries # 2 /\ StoreTyped /\ Origin(w) \in Versions
  BY ApprovedStart DEF IndexNote
<1>2. StoreTyped' /\ files' = files /\ row' = row
  <2>1. index' = index \/ index' = [index EXCEPT !.noteRow = TRUE]
    BY DEF IndexNote
  <2> QED BY <1>1, <2>1 DEF IndexNote, StoreTyped
<1>3. CASE Become(w, Serving(w, "indexed_note")) /\ UNCHANGED fresh
  BY <1>1, <1>2, <1>3, HappyStages, ServingKeeps
<1>4. CASE Raise(w, "missing_artifact")
  BY <1>2, <1>4, RaiseKeeps DEF Raise, Codes
<1> QED BY <1>3, <1>4 DEF IndexNote

LEMMA CompleteKeeps ==
  ASSUME IInv, NEW w \in Threads, Complete(w)
  PROVE  IInv'
<1>1. worker[w].tries # 2 /\ StoreTyped /\ Origin(w) \in Versions
  BY ApprovedStart DEF Complete
<1>2. StoreTyped' /\ files' = files /\ row' = row
  BY <1>1 DEF Complete, StoreTyped
<1>3. CASE Become(w, Serving(w, "completed")) /\ UNCHANGED fresh
  BY <1>1, <1>2, <1>3, HappyStages, ServingKeeps
<1>4. CASE Raise(w, "missing_artifact")
  BY <1>2, <1>4, RaiseKeeps DEF Raise, Codes
<1> QED BY <1>3, <1>4 DEF Complete

-----------------------------------------------------------------------------
(* _advance(), its compare-and-swap and the rewind *)

(* An edge of the graph leads to a stage. *)
LEMMA EdgeIsStage ==
  ASSUME NEW from \in Stages, NEW to, IsEdge(from, to)
  PROVE  to \in Stages
BY DEF IsEdge, Stages, ActiveStages, NextStage, TerminalStages, TerminalFailure

(* The row an advance writes is a row, at the stage it advances to. *)
LEMMA AdvancedTyped ==
  ASSUME NEW job \in Rows, NEW to \in Stages, NEW slot \in Slots \union {"none"}
  PROVE  AdvancedRow(job, to, slot) \in Rows /\ AdvancedRow(job, to, slot).stage = to
<1> DEFINE status == NextStatus(to, slot, job.status)
           code == IF slot # "none" THEN "awaiting_clean_approval" ELSE "none"
           dirty == job.dirty \/ to = "copied_dirty"
           clean == IF slot # "none" THEN slot ELSE job.clean
           note == \/ job.note \/ to \in {"indexed_chunks", "saved_note"}
                   \/ (to = "completed" /\ ~LegacyAuto)
           r1 == [job EXCEPT !.stage = to]
           r2 == [r1 EXCEPT !.status = status]
           r3 == [r2 EXCEPT !.code = code]
           r4 == [r3 EXCEPT !.dirty = dirty]
           r5 == [r4 EXCEPT !.clean = clean]
           r6 == [r5 EXCEPT !.note = note]
<1>1. /\ status \in {"pending", "claimed"} \union TerminalStages
      /\ code \in Codes /\ clean \in Slots \union {"none"}
      /\ dirty \in BOOLEAN /\ note \in BOOLEAN
  BY DEF NextStatus, TerminalStages, Codes, Rows
<1>2. AdvancedRow(job, to, slot) = r6
  BY DEF AdvancedRow
<1> HIDE DEF status, code, dirty, clean, note
<1>3. r1 \in Rows
  BY RowFields
<1>4. r2 \in Rows
  BY <1>1, <1>3, RowFields
<1>5. r3 \in Rows
  BY <1>1, <1>4, RowFields
<1>6. r4 \in Rows
  BY <1>1, <1>5, RowFields
<1>7. r5 \in Rows
  BY <1>1, <1>6, RowFields
<1>8. r6 \in Rows
  BY <1>1, <1>7, RowFields
<1>9. r6.stage = to
  BY DEF Rows
<1> QED BY <1>2, <1>8, <1>9

LEMMA AdvanceReadKeeps ==
  ASSUME IInv, NEW w \in Threads, AdvanceRead(w)
  PROVE  IInv'
<1> DEFINE to == worker[w].to
           done == [[worker[w] EXCEPT !.to = "none"] EXCEPT !.slot = "none"]
<1>1. /\ row \in Rows /\ worker[w] \in Contexts /\ worker[w].tries # 2
      /\ to \notin TerminalFailure /\ worker[w].slot \in Slots \union {"none"}
      /\ StoreTyped' /\ files' = files /\ row' = row
  BY DEF AdvanceRead, At, IInv, TypeOK, StoreTyped, Planned, Contexts
<1>2. worker[w].next.stage = "quarantined" => files.src = "quarantine"
  BY DEF IInv, Quarantining
<1>3. done \in Contexts /\ done.next = worker[w].next /\ done.tries # 2
  <2>1. [worker[w] EXCEPT !.to = "none"] \in Contexts
    BY <1>1, ContextFields
  <2>2. done \in Contexts
    BY <2>1, ContextFields
  <2> QED BY <1>1, <2>2 DEF Contexts
<1>4. ASSUME NEW pc \in {"delete", "loop"}, Reload(w, [done EXCEPT !.pc = pc])
      PROVE  IInv'
  <2> DEFINE c == [done EXCEPT !.pc = pc]
  <2> HIDE DEF done
  <2>1. c \in Contexts
    BY <1>3, ContextFields DEF Positions
  <2>2. c.pc = pc /\ c.next = worker[w].next /\ c.tries # 2 /\ Planned([c EXCEPT !.job = row])
    BY <1>3 DEF Contexts, Planned
  <2> QED BY <1>1, <1>2, <1>4, <2>1, <2>2, ReloadKeeps
<1>5. ASSUME IsEdge(row.stage, to),
             Reload(w, [done EXCEPT !.pc = "commit",
                                    !.next = AdvancedRow(row, to, worker[w].slot)])
      PROVE  IInv'
  <2> DEFINE next == AdvancedRow(row, to, worker[w].slot)
             c == [[done EXCEPT !.pc = "commit"] EXCEPT !.next = next]
  <2>1. next \in Rows /\ next.stage = to
    <3>1. to \in Stages
      BY <1>1, <1>5, EdgeIsStage DEF Rows
    <3> QED BY <1>1, <3>1, AdvancedTyped
  <2> HIDE DEF next, done
  <2>2. c \in Contexts
    <3>1. [done EXCEPT !.pc = "commit"] \in Contexts
      BY <1>3, ContextFields DEF Positions
    <3> QED BY <2>1, <3>1, ContextFields
  <2>3. c.pc = "commit" /\ c.next = next /\ c.tries # 2
    BY <1>3 DEF Contexts
  <2>4. Planned([c EXCEPT !.job = row])
    BY <1>1, <1>5, <2>1, <2>2, <2>3 DEF Planned, Contexts
  <2>5. c.next.stage # "quarantined"
    BY <1>1, <2>1, <2>3 DEF TerminalFailure
  <2>6. Reload(w, c)
    BY <1>5 DEF done, next
  <2> HIDE DEF c
  <2> QED BY <1>1, <2>2, <2>3, <2>4, <2>5, <2>6, ReloadKeeps
<1>6. ASSUME Reload(w, [done EXCEPT !.pc = "failing", !.code = "illegal_job_transition"])
      PROVE  IInv'
  <2> DEFINE c == [[done EXCEPT !.pc = "failing"] EXCEPT !.code = "illegal_job_transition"]
  <2> HIDE DEF done
  <2>1. c \in Contexts
    <3>1. [done EXCEPT !.pc = "failing"] \in Contexts
      BY <1>3, ContextFields DEF Positions
    <3> QED BY <3>1, ContextFields DEF Codes
  <2>2. /\ c.pc = "failing" /\ c.next = worker[w].next
        /\ Planned([c EXCEPT !.job = row])
    BY <1>3 DEF Contexts, Planned
  <2>3. Reload(w, c)
    BY <1>6 DEF done
  <2> HIDE DEF c
  <2> QED BY <1>1, <1>2, <2>1, <2>2, <2>3, ReloadKeeps
<1> QED BY <1>4, <1>5, <1>6 DEF AdvanceRead

(* An interruption keeps the shape of the interruptions. *)
LEMMA InterruptedTyped ==
  ASSUME IInv, Interrupted
  PROVE  interruptions' \in 0 .. MaxInterruptions
BY PipelineAssumption DEF Interrupted, IInv, TypeOK

LEMMA CommitKeeps ==
  ASSUME IInv, NEW w \in Threads, Commit(w)
  PROVE  IInv'
<1> DEFINE next == worker[w].next
           gone == [worker[w] EXCEPT !.next = NewRow]
<1>1. /\ worker[w] \in Contexts /\ next \in Rows /\ worker[w].tries # 2
      /\ StoreTyped' /\ files' = files /\ row \in Rows
  <2>1. UNCHANGED interruptions \/ Interrupted
    BY DEF Commit
  <2>2. interruptions' \in 0 .. MaxInterruptions
    BY <2>1, InterruptedTyped DEF IInv, TypeOK
  <2> QED BY <2>2 DEF Commit, IInv, TypeOK, StoreTyped, Planned, Contexts
<1>2. /\ gone \in Contexts /\ gone.job = worker[w].job /\ gone.next = NewRow
      /\ gone.tries # 2
  BY <1>1, RestingTyped, ContextFields DEF Contexts
<1>3. ASSUME Matches(w), Save(w, next), NEW pc \in {"delete", "loop"},
             Become(w, [gone EXCEPT !.job = next, !.pc = pc])
      PROVE  IInv'
  <2> DEFINE c == [[gone EXCEPT !.job = next] EXCEPT !.pc = pc]
  <2> HIDE DEF gone
  <2>1. c \in Contexts
    <3>1. [gone EXCEPT !.job = next] \in Contexts
      BY <1>1, <1>2, ContextFields
    <3> QED BY <3>1, ContextFields DEF Positions
  <2>2. /\ c.pc = pc /\ c.job = next /\ c.next = NewRow /\ c.tries # 2
        /\ Planned(c)
    BY <1>2 DEF Planned, Contexts
  <2>3. Quarantining(c) \/ next.stage = "quarantined" => files.src = "quarantine"
    BY <2>2 DEF Quarantining, NewRow, IInv
  <2>4. Become(w, c)
    BY <1>3 DEF gone
  <2> HIDE DEF c
  <2> QED BY <1>1, <1>3, <2>1, <2>2, <2>3, <2>4, StepKeeps DEF Save
<1>4. ASSUME NEW code \in {"job_revision_conflict", "job_store_busy"},
             Become(w, [gone EXCEPT !.pc = "failing", !.code = code]),
             UNCHANGED <<row, fresh>>
      PROVE  IInv'
  <2> DEFINE c == [[gone EXCEPT !.pc = "failing"] EXCEPT !.code = code]
  <2> HIDE DEF gone
  <2>1. c \in Contexts
    <3>1. [gone EXCEPT !.pc = "failing"] \in Contexts
      BY <1>2, ContextFields DEF Positions
    <3> QED BY <3>1, ContextFields DEF Codes
  <2>2. /\ c.pc = "failing" /\ c.job = worker[w].job /\ c.next = NewRow
        /\ Planned(c)
    BY <1>2 DEF Planned, Contexts
  <2>3. Quarantining(c) => Quarantining(worker[w])
    BY <2>2 DEF Quarantining, NewRow
  <2>4. Become(w, c)
    BY <1>4 DEF gone
  <2> HIDE DEF c
  <2> QED BY <1>1, <1>4, <2>1, <2>2, <2>3, <2>4, QuietKeeps
<1> QED BY <1>3, <1>4 DEF Commit

LEMMA RewindIndexKeeps ==
  ASSUME IInv, NEW w \in Threads, RewindIndex(w)
  PROVE  IInv'
<1>1. /\ worker[w] \in Contexts /\ row \in Rows /\ worker[w].tries # 2 /\ StoreTyped
  BY DEF RewindIndex, At, IInv, TypeOK, StoreTyped, Planned
<1>f. /\ files'.src = files.src
      /\ files' \in [src : {"inbox", "quarantine", "deleted"}, dirty : BOOLEAN,
                      cache : BOOLEAN, clean : [Slots -> Versions], note : Versions,
                      stuck : SUBSET {"dirty", "clean", "index", "vectors"}]
  BY <1>1 DEF RewindIndex, StoreTyped
<1>2. StoreTyped'
  <2>1. 0 \in Versions
    BY HappyStages
  <2>2. \/ \E unopened \in BOOLEAN :
             index' = [rows |-> FALSE, noteRow |-> FALSE,
                       vec |-> IF index.rows /\ Vectors /\ ~unopened THEN 0 ELSE index.vec]
        \/ index' \in {index, [index EXCEPT !.vec = 0]}
    BY DEF RewindIndex
  <2>3. index' \in [rows : BOOLEAN, vec : Versions, noteRow : BOOLEAN]
    <3>1. ASSUME NEW unopened \in BOOLEAN,
                 index' = [rows |-> FALSE, noteRow |-> FALSE,
                           vec |-> IF index.rows /\ Vectors /\ ~unopened THEN 0 ELSE index.vec]
          PROVE  index' \in [rows : BOOLEAN, vec : Versions, noteRow : BOOLEAN]
      <4> DEFINE vec == IF index.rows /\ Vectors /\ ~unopened THEN 0 ELSE index.vec
      <4>1. vec \in Versions
        BY <1>1, <2>1 DEF StoreTyped
      <4>2. index' = [rows |-> FALSE, noteRow |-> FALSE, vec |-> vec]
        BY <3>1
      <4> HIDE DEF vec
      <4> QED BY <4>1, <4>2
    <3>2. CASE index' \in {index, [index EXCEPT !.vec = 0]}
      BY <1>1, <2>1, <3>2 DEF StoreTyped
    <3> QED BY <2>2, <3>1, <3>2
  <2> QED BY <1>1, <1>f, <2>3 DEF RewindIndex, StoreTyped
<1>3. worker[w].next.stage = "quarantined" => files.src = "quarantine"
  BY DEF IInv, Quarantining
<1>4. ASSUME Reload(w, [worker[w] EXCEPT !.pc = "rewound",
               !.next = [row EXCEPT !.stage = "saved_clean", !.status = "pending",
                                    !.code = "awaiting_clean_approval", !.note = FALSE]]),
             UNCHANGED row
      PROVE  IInv'
  <2> DEFINE r1 == [row EXCEPT !.stage = "saved_clean"]
             r2 == [r1 EXCEPT !.status = "pending"]
             r3 == [r2 EXCEPT !.code = "awaiting_clean_approval"]
             next == [r3 EXCEPT !.note = FALSE]
             c == [[worker[w] EXCEPT !.pc = "rewound"] EXCEPT !.next = next]
  <2>1. next \in Rows
    <3>1. r1 \in Rows
      BY <1>1, HappyStages, RowFields
    <3>2. r2 \in Rows
      BY <3>1, RowFields
    <3>3. r3 \in Rows
      BY <3>2, RowFields DEF Codes
    <3> QED BY <3>3, RowFields
  <2>2. next.stage = "saved_clean"
    BY <1>1 DEF Rows
  <2>3. Reload(w, c)
    BY <1>4
  <2> HIDE DEF next
  <2>4. c \in Contexts
    <3>1. [worker[w] EXCEPT !.pc = "rewound"] \in Contexts
      BY PositionTyped DEF Positions
    <3> QED BY <2>1, <3>1, ContextFields
  <2>5. /\ c.pc = "rewound" /\ c.next = next /\ Planned([c EXCEPT !.job = row])
    BY <1>1, <2>2 DEF Planned, Contexts
  <2> HIDE DEF c
  <2> QED BY <1>1, <1>2, <1>f, <1>4, <2>2, <2>3, <2>4, <2>5, ReloadKeeps
<1>5. ASSUME Reload(w, [worker[w] EXCEPT !.pc = "loop"]), UNCHANGED row
      PROVE  IInv'
  <2> DEFINE c == [worker[w] EXCEPT !.pc = "loop"]
  <2>1. c \in Contexts
    BY PositionTyped DEF Positions
  <2>2. c.pc = "loop" /\ c.next = worker[w].next /\ Planned([c EXCEPT !.job = row])
    BY <1>1 DEF Planned, Contexts
  <2> QED BY <1>1, <1>2, <1>3, <1>f, <1>5, <2>1, <2>2, ReloadKeeps
<1>6. ASSUME Save(w, Waiting("awaiting_clean_approval")),
             Become(w, [worker[w] EXCEPT !.pc = "loop", !.job = row'])
      PROVE  IInv'
  <2> DEFINE c == [[worker[w] EXCEPT !.pc = "loop"] EXCEPT !.job = row']
  <2>1. row' \in Rows /\ row'.stage = row.stage
    BY <1>1, <1>6, WaitingTyped DEF Save, Codes
  <2>2. c \in Contexts
    <3>1. [worker[w] EXCEPT !.pc = "loop"] \in Contexts
      BY PositionTyped DEF Positions
    <3> QED BY <2>1, <3>1, ContextFields
  <2>3. c.pc = "loop" /\ c.job = row' /\ c.next = worker[w].next /\ Planned(c)
    BY <1>1 DEF Planned, Contexts
  <2>4. Quarantining(c) \/ row'.stage = "quarantined" => files.src = "quarantine"
    BY <1>3, <2>1, <2>3 DEF Quarantining, IInv, QuarantinedWasMoved
  <2>5. Become(w, c)
    BY <1>6
  <2> HIDE DEF c
  <2> QED BY <1>1, <1>2, <1>f, <1>6, <2>1, <2>2, <2>3, <2>4, <2>5, StepKeeps DEF Save
<1> QED BY <1>4, <1>5, <1>6 DEF RewindIndex

LEMMA DeleteSourceKeeps ==
  ASSUME IInv, NEW w \in Threads, DeleteSource(w)
  PROVE  IInv'
<1>1. /\ worker[w] \in Contexts /\ worker[w].tries # 2 /\ StoreTyped
  BY DEF DeleteSource, At, IInv, TypeOK, StoreTyped, Planned
<1>2. StoreTyped' /\ (files'.src = files.src \/ files.src = "inbox")
  BY <1>1 DEF DeleteSource, StoreTyped
<1> DEFINE c == [worker[w] EXCEPT !.pc = "loop"]
<1>3. c \in Contexts
  BY PositionTyped DEF Positions
<1>4. /\ c.pc = "loop" /\ c.job = worker[w].job /\ Planned(c)
      /\ (Quarantining(c) => Quarantining(worker[w]))
  BY <1>1 DEF Planned, Quarantining, Contexts
<1>5. Become(w, c)
  BY DEF DeleteSource
<1> HIDE DEF c
<1> QED BY <1>2, <1>3, <1>4, <1>5, QuietKeeps DEF DeleteSource

-----------------------------------------------------------------------------
(* Failure, skipping and cancellation: the only steps that quarantine *)

LEMMA FailingKeeps ==
  ASSUME IInv, NEW w \in Threads, Failing(w)
  PROVE  IInv'
<1>1. /\ row \in Rows /\ worker[w] \in Contexts
      /\ files' = files /\ row' = row /\ StoreTyped'
  BY DEF Failing, IInv, TypeOK, StoreTyped
<1>2. worker[w].next.stage = "quarantined" => files.src = "quarantine"
  BY DEF IInv, Quarantining
<1>3. CASE Rest(w)
  BY <1>1, <1>3, RestKeeps DEF Rest, Failing, IInv, QuarantinedWasMoved, TypeOK
<1>4. CASE row.stage \notin TerminalStages /\ Reload(w, Cancelling(w))
  BY <1>1, <1>2, <1>4, CancellingPlanned, ReloadKeeps
<1>5. ASSUME Reload(w, [worker[w] EXCEPT !.pc = "quarantine"])
      PROVE  IInv'
  <2> DEFINE c == [worker[w] EXCEPT !.pc = "quarantine"]
  <2>1. c \in Contexts
    BY PositionTyped DEF Positions
  <2>2. c.pc = "quarantine" /\ c.next = worker[w].next /\ Planned([c EXCEPT !.job = row])
    BY <1>1 DEF Planned, Contexts
  <2> QED BY <1>1, <1>2, <1>5, <2>1, <2>2, ReloadKeeps
<1> QED BY <1>3, <1>4, <1>5 DEF Failing

LEMMA QuarantineKeeps ==
  ASSUME IInv, NEW w \in Threads, Quarantine(w)
  PROVE  IInv'
<1> DEFINE job == worker[w].job
           action == FailureAction(worker[w].code, Attempts(w))
<1>1. /\ worker[w] \in Contexts /\ job \in Rows /\ worker[w].code \in Codes
      /\ StoreTyped /\ row' = row /\ row \in Rows
  BY DEF Quarantine, IInv, TypeOK, StoreTyped, Contexts
<1>2. PICK moved \in {action = "quarantine" /\ files.src = "inbox", FALSE} :
        /\ files' = [files EXCEPT !.src = IF moved THEN "quarantine" ELSE @]
        /\ \/ /\ action = "retry"
              /\ Become(w, [worker[w] EXCEPT !.pc = "retry",
                     !.next = [job EXCEPT !.status = "pending", !.code = worker[w].code]])
              /\ UNCHANGED fresh
           \/ /\ IsEdge(job.stage, Outcome(moved)) \/ job.stage = Outcome(moved)
              /\ Become(w, [worker[w] EXCEPT !.pc = "compensate", !.to = Outcome(moved)])
              /\ UNCHANGED fresh
           \/ action # "retry" /\ ~IsEdge(job.stage, Outcome(moved)) /\ Rest(w)
  BY DEF Quarantine
<1>3. /\ files' \in [src : {"inbox", "quarantine", "deleted"}, dirty : BOOLEAN,
                     cache : BOOLEAN, clean : [Slots -> Versions], note : Versions,
                 stuck : SUBSET {"dirty", "clean", "index", "vectors"}]
      /\ moved => files.src = "inbox" /\ files'.src = "quarantine"
      /\ ~moved => files' = files
  BY <1>1, <1>2 DEF StoreTyped
<1>4. StoreTyped'
  BY <1>1, <1>3 DEF Quarantine, StoreTyped
<1>5. files'.src = files.src \/ files.src = "inbox"
  BY <1>3
<1>6. CASE Become(w, [worker[w] EXCEPT !.pc = "retry",
                 !.next = [job EXCEPT !.status = "pending", !.code = worker[w].code]])
           /\ UNCHANGED fresh
  <2> DEFINE next == [[job EXCEPT !.status = "pending"] EXCEPT !.code = worker[w].code]
             c == [[worker[w] EXCEPT !.pc = "retry"] EXCEPT !.next = next]
  <2>1. next \in Rows /\ next.stage = job.stage
    <3>1. [job EXCEPT !.status = "pending"] \in Rows
      BY <1>1, RowFields
    <3>2. next \in Rows
      BY <1>1, <3>1, RowFields
    <3> QED BY <1>1, <3>2 DEF Rows
  <2>2. Become(w, c)
    BY <1>6
  <2> HIDE DEF next
  <2>3. c \in Contexts
    <3>1. [worker[w] EXCEPT !.pc = "retry"] \in Contexts
      BY PositionTyped DEF Positions
    <3> QED BY <2>1, <3>1, ContextFields
  <2>4. /\ c.pc = "retry" /\ c.job = job /\ c.next = next
    BY <1>1 DEF Contexts
  <2>5. Planned(c) /\ (Quarantining(c) => Quarantining(worker[w]))
    BY <2>1, <2>4 DEF Planned, Quarantining
  <2> HIDE DEF c
  <2> QED BY <1>1, <1>4, <1>5, <1>6, <2>2, <2>3, <2>4, <2>5, QuietKeeps
<1>7. ASSUME IsEdge(job.stage, Outcome(moved)) \/ job.stage = Outcome(moved),
             Become(w, [worker[w] EXCEPT !.pc = "compensate", !.to = Outcome(moved)]),
             UNCHANGED fresh
      PROVE  IInv'
  <2> DEFINE to == Outcome(moved)
             c == [[worker[w] EXCEPT !.pc = "compensate"] EXCEPT !.to = to]
  <2>1. to \in TerminalFailure /\ (to = "quarantined" => moved)
    BY <1>2 DEF Outcome, TerminalFailure
  <2>2. Become(w, c)
    BY <1>7
  <2>3. to = job.stage \/ IsEdge(job.stage, to)
    BY <1>7
  <2> HIDE DEF to
  <2>4. c \in Contexts
    <3>1. [worker[w] EXCEPT !.pc = "compensate"] \in Contexts
      BY PositionTyped DEF Positions
    <3> QED BY <2>1, <3>1, ContextFields DEF Stages, TerminalStages
  <2>5. c.pc = "compensate" /\ c.to = to /\ c.job = job /\ c.next = worker[w].next
    BY <1>1 DEF Contexts
  <2>6. Planned(c) /\ (Quarantining(c) => Quarantining(worker[w]) \/ moved)
    BY <2>1, <2>3, <2>5 DEF Planned, Quarantining
  <2> HIDE DEF c
  <2> QED BY <1>1, <1>3, <1>4, <1>5, <1>7, <2>2, <2>4, <2>5, <2>6, QuietKeeps
<1>8. CASE action # "retry" /\ ~IsEdge(job.stage, Outcome(moved)) /\ Rest(w)
  <2>1. Planned(Resting) /\ ~Quarantining(Resting)
    BY DEF Planned, Quarantining, Resting, NewRow
  <2>2. Resting.pc = "idle" /\ row'.stage = "quarantined" => files'.src = "quarantine"
    BY <1>1, <1>3 DEF IInv, QuarantinedWasMoved
  <2>3. files.src = "quarantine" => files'.src = "quarantine"
    BY <1>3
  <2> QED BY <1>1, <1>4, <1>8, <2>1, <2>2, <2>3, RestingTyped, StepKeeps DEF Rest, Resting
<1> QED BY <1>2, <1>6, <1>7, <1>8

(* The row a failure leaves is a row, at the failure's stage. *)
LEMMA EndedTyped ==
  ASSUME NEW job \in Rows, NEW to \in TerminalFailure, NEW code \in Codes, NEW gone
  PROVE  EndedRow(job, to, code, gone) \in Rows /\ EndedRow(job, to, code, gone).stage = to
<1>1. CASE job.stage = to
  <2>1. EndedRow(job, to, code, gone) = [job EXCEPT !.code = code]
    BY <1>1 DEF EndedRow
  <2>2. [job EXCEPT !.code = code] \in Rows /\ [job EXCEPT !.code = code].stage = job.stage
    BY RowFields DEF Rows
  <2> QED BY <1>1, <2>1, <2>2
<1>2. CASE job.stage # to
  <2> DEFINE dirty == job.dirty /\ "dirty" \notin gone
             clean == IF "clean" \in gone THEN "none" ELSE job.clean
             note == job.note /\ "note" \notin gone
             r1 == [job EXCEPT !.dirty = dirty]
             r2 == [r1 EXCEPT !.clean = clean]
             r3 == [r2 EXCEPT !.note = note]
             r4 == [r3 EXCEPT !.stage = to]
             r5 == [r4 EXCEPT !.status = to]
             r6 == [r5 EXCEPT !.code = code]
  <2>1. dirty \in BOOLEAN /\ note \in BOOLEAN /\ clean \in Slots \union {"none"}
    BY DEF Rows
  <2>2. EndedRow(job, to, code, gone) = r6
    BY <1>2 DEF EndedRow, Cleared
  <2>3. to \in Stages /\ to \in {"pending", "claimed"} \union TerminalStages
    BY DEF Stages, TerminalStages
  <2> HIDE DEF dirty, clean, note
  <2>4. r1 \in Rows
    BY <2>1, RowFields
  <2>5. r2 \in Rows
    BY <2>1, <2>4, RowFields
  <2>6. r3 \in Rows
    BY <2>1, <2>5, RowFields
  <2>7. r4 \in Rows
    BY <2>3, <2>6, RowFields
  <2>8. r5 \in Rows
    BY <2>3, <2>7, RowFields
  <2>9. r6 \in Rows
    BY <2>8, RowFields
  <2>10. r6.stage = to
    BY DEF Rows
  <2> QED BY <2>2, <2>9, <2>10
<1> QED BY <1>1, <1>2

\* What the index is left with, and what that outcome says of it.
LEMMA InvalidationLeaves ==
  ASSUME NEW job, NEW plan,
         index \in [rows : BOOLEAN, vec : Versions, noteRow : BOOLEAN],
         NEW left \in Invalidations(job, plan)
  PROVE  /\ left[1] \in [rows : BOOLEAN, vec : Versions, noteRow : BOOLEAN]
         /\ left[2] \in BOOLEAN
         /\ left[1].vec > 0 => index.vec > 0
         /\ left[1].noteRow => index.noteRow
         /\ Vectors /\ job.note /\ "chunk_index" \in plan /\ "note_index" \in plan /\ left[2] =>
              ~left[1].noteRow
<1> DEFINE without == IF index.rows THEN 0 ELSE index.vec
           noteRow == index.noteRow /\ "note_index" \notin plan
           unlisted == [rows |-> FALSE, vec |-> index.vec, noteRow |-> noteRow]
           cleared == [unlisted EXCEPT !.vec = without]
           kept == [index EXCEPT !.vec = without]
           owned == Vectors /\ job.note /\ "chunk_index" \in plan
<1>1. 0 \in Versions
  BY HappyStages
<1>2. without \in Versions /\ (without > 0 => index.vec > 0)
  BY <1>1
<1>3. noteRow \in BOOLEAN /\ (noteRow => index.noteRow) /\ ("note_index" \in plan => ~noteRow)
  OBVIOUS
<1>4. \/ ~owned /\ left = <<index, TRUE>>
      \/ left = <<cleared, TRUE>> \/ left = <<index, FALSE>>
      \/ left = <<kept, FALSE>> \/ left = <<unlisted, TRUE>>
  <2>1. CASE "chunk_index" \notin plan \/ ~Vectors
    BY <2>1 DEF Invalidations
  <2>2. CASE ~("chunk_index" \notin plan \/ ~Vectors) /\ ~job.note
    BY <2>2 DEF Invalidations
  <2>3. CASE ~("chunk_index" \notin plan \/ ~Vectors) /\ job.note
    <3>1. left \in {<<cleared, TRUE>>} \/ left \in {<<index, FALSE>>, <<kept, FALSE>>, <<unlisted, TRUE>>}
      BY <2>3 DEF Invalidations
    <3> HIDE DEF cleared, kept, unlisted
    <3> QED BY <3>1
  <2> QED BY <2>1, <2>2, <2>3
<1> HIDE DEF without, noteRow
<1>5. /\ unlisted.vec = index.vec /\ unlisted.noteRow = noteRow
      /\ unlisted \in [rows : BOOLEAN, vec : Versions, noteRow : BOOLEAN]
  BY <1>3
<1>6. /\ cleared.vec = without /\ cleared.noteRow = noteRow
      /\ cleared \in [rows : BOOLEAN, vec : Versions, noteRow : BOOLEAN]
  BY <1>2, <1>3
<1>7. /\ kept.vec = without /\ kept.noteRow = index.noteRow
      /\ kept \in [rows : BOOLEAN, vec : Versions, noteRow : BOOLEAN]
  BY <1>2
<1> HIDE DEF unlisted, cleared, kept
<1>8. CASE ~owned /\ left = <<index, TRUE>>
  <2>1. left[1] = index /\ left[2] = TRUE
    BY <1>8
  <2>2. ~(Vectors /\ job.note /\ "chunk_index" \in plan)
    BY <1>8
  <2> HIDE DEF owned
  <2> QED BY <2>1, <2>2
<1>9. CASE left = <<index, FALSE>>
  BY <1>9
<1>a. CASE left = <<cleared, TRUE>>
  BY <1>2, <1>3, <1>6, <1>a
<1>b. CASE left = <<kept, FALSE>>
  BY <1>2, <1>7, <1>b
<1>c. CASE left = <<unlisted, TRUE>>
  BY <1>3, <1>5, <1>c
<1> QED BY <1>4, <1>8, <1>9, <1>a, <1>b, <1>c

LEMMA CompensateKeeps ==
  ASSUME IInv, NEW w \in Threads, Compensate(w)
  PROVE  IInv'
<1> DEFINE job == worker[w].job
           to == worker[w].to
           plan == IF job.stage = to THEN {} ELSE StageArtifacts(job.stage)
<1>1. /\ worker[w] \in Contexts /\ job \in Rows /\ StoreTyped /\ row' = row
      /\ worker[w].pc = "compensate" /\ worker[w].code \in Codes
      /\ to \in TerminalFailure /\ (to = job.stage \/ IsEdge(job.stage, to))
  BY DEF Compensate, At, IInv, TypeOK, StoreTyped, Contexts, Planned
<1>2. 0 \in Versions
  BY HappyStages
<1>o. \E kept \in SUBSET (plan \intersect {"dirty", "clean"}), left \in Invalidations(job, plan) :
        LET gone == plan \ (kept \union IF left[2] THEN {} ELSE {"note"}) IN
        /\ kept # {} => "discard_error" \in Faults
        /\ files' = [files EXCEPT
             !.dirty = @ /\ ~("dirty" \in gone /\ job.dirty),
             !.clean = [s \in Slots |-> IF "clean" \in gone /\ job.clean = s THEN 0 ELSE @[s]],
             !.stuck = @ \union kept \union (IF left[2] THEN {} ELSE {"index"})
                       \union (IF left[2] /\ left[1].vec > 0 THEN {"vectors"} ELSE {})]
        /\ index' = left[1]
        /\ Become(w, [worker[w] EXCEPT !.pc = "settle", !.to = "none",
                          !.next = EndedRow(job, to, worker[w].code, gone)])
  BY DEF Compensate
<1> HIDE DEF plan
<1>p. PICK kept \in SUBSET (plan \intersect {"dirty", "clean"}), left \in Invalidations(job, plan) :
        LET gone == plan \ (kept \union IF left[2] THEN {} ELSE {"note"}) IN
        /\ kept # {} => "discard_error" \in Faults
        /\ files' = [files EXCEPT
             !.dirty = @ /\ ~("dirty" \in gone /\ job.dirty),
             !.clean = [s \in Slots |-> IF "clean" \in gone /\ job.clean = s THEN 0 ELSE @[s]],
             !.stuck = @ \union kept \union (IF left[2] THEN {} ELSE {"index"})
                       \union (IF left[2] /\ left[1].vec > 0 THEN {"vectors"} ELSE {})]
        /\ index' = left[1]
        /\ Become(w, [worker[w] EXCEPT !.pc = "settle", !.to = "none",
                          !.next = EndedRow(job, to, worker[w].code, gone)])
  BY <1>o
<1> DEFINE gone == plan \ (kept \union IF left[2] THEN {} ELSE {"note"})
<1>r. gone \subseteq plan /\ kept \subseteq {"dirty", "clean"}
  OBVIOUS
<1>q. /\ files' = [files EXCEPT
             !.dirty = @ /\ ~("dirty" \in gone /\ job.dirty),
             !.clean = [s \in Slots |-> IF "clean" \in gone /\ job.clean = s THEN 0 ELSE @[s]],
             !.stuck = @ \union kept \union (IF left[2] THEN {} ELSE {"index"})
                       \union (IF left[2] /\ left[1].vec > 0 THEN {"vectors"} ELSE {})]
      /\ index' = left[1]
      /\ Become(w, [worker[w] EXCEPT !.pc = "settle", !.to = "none",
                          !.next = EndedRow(job, to, worker[w].code, gone)])
  BY <1>p
<1> HIDE DEF gone
<1> DEFINE next == EndedRow(job, to, worker[w].code, gone)
           c == [[[worker[w] EXCEPT !.pc = "settle"] EXCEPT !.to = "none"]
                  EXCEPT !.next = next]
<1>3. files' \in [src : {"inbox", "quarantine", "deleted"}, dirty : BOOLEAN,
                  cache : BOOLEAN, clean : [Slots -> Versions], note : Versions,
                  stuck : SUBSET {"dirty", "clean", "index", "vectors"}]
      /\ files'.src = files.src
  <2> DEFINE dirty == files.dirty /\ ~("dirty" \in gone /\ job.dirty)
             clean == [s \in Slots |-> IF "clean" \in gone /\ job.clean = s
                                         THEN 0 ELSE files.clean[s]]
             stuck == files.stuck \union kept \union (IF left[2] THEN {} ELSE {"index"})
                       \union (IF left[2] /\ left[1].vec > 0 THEN {"vectors"} ELSE {})
  <2>1. files' = [[[files EXCEPT !.dirty = dirty] EXCEPT !.clean = clean] EXCEPT !.stuck = stuck]
    BY <1>q
  <2>2. dirty \in BOOLEAN /\ clean \in [Slots -> Versions]
    BY <1>1, <1>2 DEF StoreTyped
  <2>3. stuck \in SUBSET {"dirty", "clean", "index", "vectors"}
    BY <1>1, <1>r DEF StoreTyped
  <2> HIDE DEF dirty, clean, stuck
  <2> QED BY <1>1, <2>1, <2>2, <2>3 DEF StoreTyped
<1>4. index' \in [rows : BOOLEAN, vec : Versions, noteRow : BOOLEAN]
  BY <1>1, <1>q, InvalidationLeaves DEF StoreTyped
<1>5. StoreTyped'
  BY <1>1, <1>3, <1>4 DEF Compensate, StoreTyped
<1>6. next \in Rows /\ next.stage = to
  BY <1>1, EndedTyped
<1>7. Become(w, c)
  BY <1>q
<1> HIDE DEF next
<1>8. c \in Contexts
  <2>1. [worker[w] EXCEPT !.pc = "settle"] \in Contexts
    BY PositionTyped DEF Positions
  <2>2. [[worker[w] EXCEPT !.pc = "settle"] EXCEPT !.to = "none"] \in Contexts
    BY <2>1, ContextFields
  <2> QED BY <1>6, <2>2, ContextFields
<1>9. c.pc = "settle" /\ c.job = job /\ c.next = next
  BY <1>1 DEF Contexts
<1>10. Planned(c) /\ (Quarantining(c) => Quarantining(worker[w]))
  BY <1>1, <1>6, <1>9 DEF Planned, Quarantining
<1> HIDE DEF c
<1> QED BY <1>1, <1>3, <1>5, <1>7, <1>8, <1>9, <1>10, QuietKeeps DEF Compensate

LEMMA SettleKeeps ==
  ASSUME IInv, NEW w \in Threads, Settle(w)
  PROVE  IInv'
<1>1. /\ worker[w] \in Contexts /\ worker[w].next \in Rows /\ row \in Rows
      /\ files' = files /\ StoreTyped'
  <2>1. UNCHANGED interruptions \/ Interrupted
    BY DEF Settle
  <2>2. interruptions' \in 0 .. MaxInterruptions
    BY <2>1, InterruptedTyped DEF IInv, TypeOK
  <2> QED BY <2>2 DEF Settle, IInv, TypeOK, StoreTyped, Contexts
<1>2. CASE row' = worker[w].next /\ fresh' = {} /\ Become(w, Resting)
  BY <1>1, <1>2, RestKeeps DEF Settle, IInv, Quarantining
<1>3. CASE Rest(w) /\ UNCHANGED row
  BY <1>1, <1>3, RestKeeps DEF Rest, Settle, IInv, QuarantinedWasMoved
<1>4. ASSUME Become(w, [worker[w] EXCEPT !.pc = "failing", !.next = NewRow,
                                         !.code = "job_revision_conflict"]),
             UNCHANGED <<row, fresh>>
      PROVE  IInv'
  <2> DEFINE c == [[[worker[w] EXCEPT !.pc = "failing"] EXCEPT !.next = NewRow]
                     EXCEPT !.code = "job_revision_conflict"]
  <2>1. c \in Contexts
    <3>1. [worker[w] EXCEPT !.pc = "failing"] \in Contexts
      BY PositionTyped DEF Positions
    <3>2. [[worker[w] EXCEPT !.pc = "failing"] EXCEPT !.next = NewRow] \in Contexts
      BY <3>1, RestingTyped, ContextFields
    <3> QED BY <3>2, ContextFields DEF Codes
  <2>2. c.pc = "failing" /\ c.job = worker[w].job /\ c.next = NewRow
    BY <1>1 DEF Contexts
  <2>3. Planned(c) /\ (Quarantining(c) => Quarantining(worker[w]))
    BY <2>2 DEF Planned, Quarantining, NewRow
  <2>4. Become(w, c)
    BY <1>4
  <2> HIDE DEF c
  <2> QED BY <1>1, <1>4, <2>1, <2>2, <2>3, <2>4, QuietKeeps
<1> QED BY <1>2, <1>3, <1>4 DEF Settle

LEMMA RequestCancelKeeps ==
  ASSUME IInv, NEW w \in Threads, RequestCancel(w)
  PROVE  IInv'
<1>1. row \in Rows /\ worker[w] \in Contexts /\ worker \in [Threads -> Contexts]
      /\ files' = files /\ StoreTyped'
  BY DEF RequestCancel, IInv, TypeOK, StoreTyped
<1>2. row' \in Rows /\ row'.stage = row.stage
  BY <1>1, RowFields DEF RequestCancel, Rows
<1>3. ASSUME fresh' = {w}, Become(w, [Resting EXCEPT !.pc = "finalize", !.job = row'])
      PROVE  IInv'
  <2> DEFINE c == [[Resting EXCEPT !.pc = "finalize"] EXCEPT !.job = row']
  <2>1. c \in Contexts
    <3>1. [Resting EXCEPT !.pc = "finalize"] \in Contexts
      BY RestingTyped, ContextFields DEF Positions
    <3> QED BY <1>2, <3>1, ContextFields
  <2>2. c.pc = "finalize" /\ c.job = row' /\ c.next = NewRow /\ Planned(c)
    BY DEF Planned, Resting
  <2>3. Quarantining(c) \/ row'.stage = "quarantined" => files'.src = "quarantine"
    BY <1>1, <1>2, <2>2 DEF Quarantining, NewRow, IInv, QuarantinedWasMoved
  <2>4. Become(w, c)
    BY <1>3
  <2> HIDE DEF c
  <2> QED BY <1>1, <1>2, <1>3, <2>1, <2>2, <2>3, <2>4, StepKeeps
<1>4. ASSUME fresh' = {}, UNCHANGED worker
      PROVE  IInv'
  BY <1>1, <1>2, <1>4 DEF IInv, TypeOK, StoreTyped, SnapshotsAreCurrent,
                          QuarantinedWasMoved, Planned, Quarantining
<1> QED BY <1>3, <1>4 DEF RequestCancel

LEMMA FinalizeKeeps ==
  ASSUME IInv, NEW w \in Threads, FinalizePendingCancellation(w)
  PROVE  IInv'
<1>1. /\ row \in Rows /\ worker[w] \in Contexts
      /\ files' = files /\ row' = row /\ StoreTyped'
  BY DEF FinalizePendingCancellation, IInv, TypeOK, StoreTyped
<1>2. ASSUME w \in fresh, row.stage \notin TerminalStages,
             Become(w, Cancelling(w)), UNCHANGED fresh
      PROVE  IInv'
  <2> DEFINE c == Cancelling(w)
  <2>1. worker[w].job = row
    BY <1>2 DEF IInv, SnapshotsAreCurrent
  <2>2. c \in Contexts /\ c.pc = "compensate" /\ c.to = "cancelled"
        /\ c.next = worker[w].next /\ Planned([c EXCEPT !.job = row])
    BY <1>2, CancellingPlanned
  <2>3. c.job = row
    BY <1>1, <2>1 DEF Cancelling, Contexts
  <2> HIDE DEF c
  <2>4. [c EXCEPT !.job = row] = c
    BY <2>2, <2>3 DEF Contexts
  <2>5. Planned(c) /\ (Quarantining(c) => Quarantining(worker[w]))
    BY <2>1, <2>2, <2>3, <2>4 DEF Quarantining
  <2>6. Become(w, c)
    BY <1>2 DEF c
  <2> QED BY <1>1, <1>2, <2>1, <2>2, <2>3, <2>5, <2>6, QuietKeeps
<1>3. CASE Rest(w)
  BY <1>1, <1>3, RestKeeps DEF Rest, FinalizePendingCancellation, IInv, QuarantinedWasMoved
<1> QED BY <1>2, <1>3 DEF FinalizePendingCancellation, Matches

-----------------------------------------------------------------------------
(* People, interruptions, and the whole next-state relation *)

LEMMA HumanKeeps ==
  ASSUME IInv, Human
  PROVE  IInv'
<1>1. TypeOK' /\ files'.src = files.src
  <2>1. CASE ApproveTransition
    BY <2>1 DEF ApproveTransition, IInv, TypeOK
  <2>2. ASSUME NEW s \in Slots, ApproveClean(s)
        PROVE  TypeOK' /\ files'.src = files.src
    BY <2>2 DEF ApproveClean, IInv, TypeOK
  <2>3. ASSUME NEW s \in Slots, EditClean(s)
        PROVE  TypeOK' /\ files'.src = files.src
    <3>1. files.clean[s] + 1 \in Versions
      BY <2>3, PipelineAssumption DEF EditClean, Versions
    <3>2. files' = [files EXCEPT !.clean[s] = files.clean[s] + 1]
      BY <2>3 DEF EditClean
    <3>3. files' \in [src : {"inbox", "quarantine", "deleted"}, dirty : BOOLEAN,
                      cache : BOOLEAN, clean : [Slots -> Versions], note : Versions,
                 stuck : SUBSET {"dirty", "clean", "index", "vectors"}]
          /\ files'.src = files.src /\ files'.clean[s] \in Versions
      BY <3>1, <3>2 DEF IInv, TypeOK
    <3>4. catalog' = catalog
          \/ catalog' = [[catalog EXCEPT !.hash[s] = files'.clean[s]]
                           EXCEPT !.ok = catalog.ok \ {s}]
      BY <2>3 DEF EditClean
    <3> DEFINE moved == [catalog EXCEPT !.hash[s] = files'.clean[s]]
    <3>5. moved \in [hash : [Slots -> Versions], ok : SUBSET Slots,
                     identity : {"none", "source", "clean", "note"}]
          /\ moved.ok = catalog.ok
      BY <3>3 DEF IInv, TypeOK
    <3> HIDE DEF moved
    <3>6. [moved EXCEPT !.ok = catalog.ok \ {s}]
            \in [hash : [Slots -> Versions], ok : SUBSET Slots,
                 identity : {"none", "source", "clean", "note"}]
      BY <3>5
    <3>7. (catalog \in [hash : [Slots -> Versions], ok : SUBSET Slots,
                        identity : {"none", "source", "clean", "note"}])'
      BY <3>4, <3>6 DEF IInv, TypeOK, moved
    <3> QED BY <2>3, <3>3, <3>7 DEF EditClean, IInv, TypeOK
  <2> QED BY <2>1, <2>2, <2>3 DEF Human
<1>2. UNCHANGED <<row, fresh, worker>>
  BY DEF Human, ApproveTransition, ApproveClean, EditClean
<1> QED BY <1>1, <1>2 DEF IInv, SnapshotsAreCurrent, QuarantinedWasMoved,
                          Planned, Quarantining

LEMMA CrashKeeps ==
  ASSUME IInv, Crash
  PROVE  IInv'
<1>1. Planned(Resting) /\ ~Quarantining(Resting)
  BY DEF Planned, Quarantining, Resting, NewRow
<1>2. interruptions' \in 0 .. MaxInterruptions
  BY InterruptedTyped DEF Crash
<1>3. TypeOK'
  BY <1>2, RestingTyped DEF Crash, IInv, TypeOK
<1>4. \A w \in Threads : worker'[w] = Resting
  BY DEF Crash
<1> QED BY <1>1, <1>3, <1>4 DEF Crash, IInv, SnapshotsAreCurrent,
            QuarantinedWasMoved, Planned, Quarantining

LEMMA InitEstablishes == Init => IInv
<1> SUFFICES ASSUME Init PROVE IInv
  OBVIOUS
<1>1. 0 \in Versions
  BY HappyStages
<1>2. interruptions \in 0 .. MaxInterruptions
  BY PipelineAssumption DEF Init, MaxAttempts
<1>3. TypeOK
  BY <1>1, <1>2, RestingTyped DEF Init, TypeOK
<1>4. \A w \in Threads : Planned(worker[w]) /\ ~Quarantining(worker[w])
  BY DEF Init, Planned, Quarantining, Resting, NewRow
<1> QED BY <1>3, <1>4 DEF Init, IInv, SnapshotsAreCurrent, QuarantinedWasMoved, NewRow

LEMMA NextKeeps == IInv /\ [Next]_vars => IInv'
<1> SUFFICES ASSUME IInv, [Next]_vars PROVE IInv'
  OBVIOUS
<1>1. ASSUME NEW w \in Threads, Handler(w) PROVE IInv'
  BY <1>1, HandlerFaultKeeps, StabilizeKeeps, CopyToDirtyKeeps, ExtractKeeps,
     SaveCleanKeeps, RegisterCanonicalKeeps, UnapprovedKeeps, IndexChunksKeeps,
     PublishChunksKeeps, CompleteCaptureKeeps, GenerateKeeps, SaveNoteKeeps,
     IndexNoteKeeps, CompleteKeeps DEF Handler
<1>2. ASSUME NEW w \in Threads, Running(w) PROVE IInv'
  BY <1>1, <1>2, LoopKeeps, BoundaryKeeps, ParkKeeps, AdvanceReadKeeps, CommitKeeps,
     RewindIndexKeeps, DeleteSourceKeeps, FailingKeeps, QuarantineKeeps,
     CompensateKeeps, SettleKeeps, FinalizeKeeps DEF Running
<1>3. ASSUME NEW w \in Threads, Thread(w) PROVE IInv'
  BY <1>2, <1>3, RefuseLlmKeeps, ResumeKeeps, PollParkedKeeps, RequestCancelKeeps
     DEF Thread
<1>4. CASE UNCHANGED vars
  BY <1>4 DEF vars, IInv, TypeOK, SnapshotsAreCurrent, QuarantinedWasMoved,
              Planned, Quarantining
<1> QED BY <1>3, <1>4, HumanKeeps, CrashKeeps DEF Next

-----------------------------------------------------------------------------
(* Theorems *)

(* The inductive invariant: row, snapshots and the plans of every thread agree
   after any number of steps of any number of threads. *)
THEOREM Inductive == Spec => []IInv
<1>1. Init => IInv
  BY InitEstablishes
<1>2. IInv /\ [Next]_vars => IInv'
  BY NextKeeps
<1> QED BY <1>1, <1>2, PTL DEF Spec

(* The row, the files, the index and every call stack keep their shapes. *)
THEOREM TypeCorrect == Spec => []TypeOK
<1>1. IInv => TypeOK
  BY DEF IInv
<1> QED BY <1>1, Inductive, PTL

(* A compare-and-swap of update_job() that succeeds replaces exactly the row
   its thread last read, whatever the other threads did. *)
THEOREM RevisionsAreCurrent == Spec => []SnapshotsAreCurrent
<1>1. IInv => SnapshotsAreCurrent
  BY DEF IInv
<1> QED BY <1>1, Inductive, PTL

(* _fail() never calls a job quarantined whose source was not moved. *)
THEOREM QuarantineIsReal == Spec => []QuarantinedWasMoved
<1>1. IInv => QuarantinedWasMoved
  BY DEF IInv
<1> QED BY <1>1, Inductive, PTL

(* What one step does to the stored stage. *)
StageStep ==
  row'.stage # row.stage => IsEdge(row.stage, row'.stage) \/ row'.stage = "saved_clean"

LEMMA WaitingKeepsStage ==
  ASSUME IInv, NEW reason
  PROVE  Waiting(reason).stage = row.stage
BY DEF IInv, TypeOK, Rows, Waiting

LEMMA StepOnGraph == IInv /\ [Next]_vars => StageStep
<1> SUFFICES ASSUME IInv, [Next]_vars, row'.stage # row.stage PROVE StageStep
  BY DEF StageStep
<1>1. row \in Rows
  BY DEF IInv, TypeOK
<1>2. PICK w \in Threads : Thread(w)
  BY DEF Next, vars, Human, ApproveTransition, ApproveClean, EditClean, Crash
<1>3. CASE Commit(w)
  <2>1. worker[w].pc \in {"commit", "rewound"} /\ w \in fresh /\ row' = worker[w].next
    BY <1>3 DEF Commit, Matches, Save
  <2>2. worker[w].job = row /\ Planned(worker[w])
    BY <2>1 DEF IInv, SnapshotsAreCurrent
  <2> QED BY <2>1, <2>2 DEF Planned, StageStep
<1>4. CASE Settle(w)
  <2>1. worker[w].pc \in {"settle", "retry"} /\ w \in fresh /\ row' = worker[w].next
    BY <1>4 DEF Settle, Matches, Rest
  <2>2. worker[w].job = row /\ Planned(worker[w])
    BY <2>1 DEF IInv, SnapshotsAreCurrent
  <2> QED BY <2>1, <2>2 DEF Planned, StageStep
<1>5. CASE Thread(w) /\ ~Commit(w) /\ ~Settle(w)
  <2>1. ~Handler(w)
    BY <1>1 DEF Handler, HandlerFault, Stabilize, CopyToDirty, SaveClean,
           RegisterCanonical, Unapproved, IndexChunks, PublishChunks, CompleteCapture,
           Generate, SaveNote, IndexNote, Complete, Extract, Save, Rows
  <2> QED BY <1>1, <1>5, <2>1, WaitingKeepsStage
      DEF Thread, Running, RefuseLlm, Resume, PollParked, RequestCancel, Loop, Boundary,
          Park, AdvanceRead, RewindIndex, DeleteSource, Failing, Quarantine, Compensate,
          FinalizePendingCancellation, Save, Rows
<1> QED BY <1>2, <1>3, <1>4, <1>5

(* Whatever interleaving of threads, retries, cancellations and rewinds: the
   stored stage follows the graph of domain/jobs.py, or returns to the review. *)
THEOREM StagesOnGraph == Spec => StagesNeverSkip
<1>1. IInv /\ [Next]_vars => [StageStep]_vars
  BY StepOnGraph
<1> QED BY <1>1, Inductive, PTL DEF Spec, StagesNeverSkip, StageStep

-----------------------------------------------------------------------------
(* One thread at a time implements the lifecycle                             *)

(* No second thread runs the job or serves a cancellation. *)
OneThread == \A u, v \in Threads : u = v

(* Where the thread knows that the job is not over. *)
Working == Positions \ {"idle", "loop", "finalize", "delete"}

(* A thread nobody races keeps a current snapshot until it returns, and what it
   is about to write is a step of the lifecycle. *)
Alone(w) ==
  LET c == worker[w] IN
  /\ c.pc # "idle" => w \in fresh
  /\ c.pc \in Working => row.stage \in ActiveStages
  /\ c.pc \in {"rewind", "rewound"} => row.stage \in Owners.clean
  /\ c.pc = "commit" => c.next.stage \notin TerminalFailure
  /\ c.pc = "retry" => c.next.stage = row.stage
  /\ c.pc = "settle" => c.next.stage \in TerminalFailure
  /\ c.pc = "delete" => row.stage = "completed"


LEMMA AloneBecomes ==
  ASSUME IInv, NEW w \in Threads, NEW c, Become(w, c),
         c.pc # "idle" => w \in fresh',
         c.pc \in Working => row'.stage \in ActiveStages,
         c.pc \in {"rewind", "rewound"} => row'.stage \in Owners.clean,
         c.pc = "commit" => c.next.stage \notin TerminalFailure,
         c.pc = "retry" => c.next.stage = row'.stage,
         c.pc = "settle" => c.next.stage \in TerminalFailure,
         c.pc = "delete" => row'.stage = "completed"
  PROVE  Alone(w)'
<1>1. worker'[w] = c
  BY DEF Become, IInv, TypeOK
<1> QED BY <1>1 DEF Alone

LEMMA AloneRests ==
  ASSUME IInv, NEW w \in Threads, Become(w, Resting)
  PROVE  Alone(w)'
<1>1. Resting.pc = "idle"
  BY DEF Resting
<1> HIDE DEF Resting
<1> QED BY <1>1, AloneBecomes DEF Working

LEMMA Known ==
  ASSUME IInv, NEW w \in Threads, Alone(w), worker[w].pc # "idle"
  PROVE  /\ w \in fresh
         /\ worker[w].job = row
         /\ worker[w] \in Contexts
         /\ row \in Rows
         /\ worker[w].pc \in Working => row.stage \in ActiveStages
BY DEF IInv, SnapshotsAreCurrent, Alone, TypeOK

\* Where a handler leaves its thread.
Handled == {"advance", "failing", "park", "register", "publish", "compensate", "handle"}

LEMMA HandledKeeps ==
  ASSUME IInv, NEW w \in Threads, Alone(w), worker[w].pc \in Working, NEW c, Become(w, c),
         row'.stage = row.stage, w \in fresh \ fresh' => c.pc = "idle", c.pc \in Handled
  PROVE  Alone(w)'
<1>1. worker[w].pc # "idle"
  BY DEF Working
<1>2. w \in fresh /\ row.stage \in ActiveStages
  BY <1>1, Known
<1> QED BY <1>2, AloneBecomes DEF Handled, Working

LEMMA RaiseAlone ==
  ASSUME IInv, NEW w \in Threads, Alone(w), worker[w].pc \in Working, row'.stage = row.stage,
         NEW code, Raise(w, code)
  PROVE  Alone(w)'
<1> DEFINE c == Raised(w, code)
<1>1. worker[w] \in Contexts
  BY DEF IInv, TypeOK
<1>2. c.pc = "failing" /\ Become(w, c) /\ fresh' = fresh
  BY <1>1 DEF Raise, Raised, Contexts
<1> HIDE DEF c
<1> QED BY <1>2, HandledKeeps DEF Handled

LEMMA AdvanceAlone ==
  ASSUME IInv, NEW w \in Threads, Alone(w), worker[w].pc \in Working, row'.stage = row.stage,
         NEW stage, Advance(w, stage)
  PROVE  Alone(w)'
<1> DEFINE c == [worker[w] EXCEPT !.pc = "advance", !.to = stage]
<1>1. worker[w] \in Contexts
  BY DEF IInv, TypeOK
<1>2. c.pc = "advance" /\ Become(w, c) /\ fresh' = fresh
  BY <1>1 DEF Advance, Advancing, Contexts
<1> HIDE DEF c
<1> QED BY <1>2, HandledKeeps DEF Handled

LEMMA ParkAlone ==
  ASSUME IInv, NEW w \in Threads, Alone(w), worker[w].pc \in Working, row'.stage = row.stage,
         NEW code, Become(w, Parking(w, code)), fresh' = fresh
  PROVE  Alone(w)'
<1> DEFINE c == [worker[w] EXCEPT !.pc = "park", !.code = code]
<1>1. worker[w] \in Contexts
  BY DEF IInv, TypeOK
<1>2. c.pc = "park" /\ Become(w, c)
  BY <1>1 DEF Parking, Contexts
<1> HIDE DEF c
<1> QED BY <1>2, HandledKeeps DEF Handled

LEMMA ServingAlone ==
  ASSUME IInv, NEW w \in Threads, Alone(w), worker[w].pc \in Working, row'.stage = row.stage,
         NEW stage, fresh' = fresh, Become(w, Serving(w, stage))
  PROVE  Alone(w)'
<1> DEFINE c == [[worker[w] EXCEPT !.pc = "advance", !.to = stage] EXCEPT !.origin = Origin(w)]
<1>1. worker[w] \in Contexts
  BY DEF IInv, TypeOK
<1>2. c.pc = "advance" /\ Become(w, c)
  BY <1>1 DEF Serving, Advancing, Contexts
<1> HIDE DEF c
<1> QED BY <1>2, HandledKeeps DEF Handled

LEMMA SimpleHandlersAlone ==
  ASSUME IInv, NEW w \in Threads, Alone(w),
         \/ HandlerFault(w) \/ Stabilize(w) \/ CopyToDirty(w) \/ RegisterCanonical(w)
         \/ PublishChunks(w) \/ CompleteCapture(w) \/ SaveNote(w) \/ IndexNote(w) \/ Complete(w)
  PROVE  Alone(w)'
<1>1. worker[w].pc \in Working /\ row' = row
  BY DEF HandlerFault, Stabilize, CopyToDirty, RegisterCanonical, PublishChunks, CompleteCapture,
         SaveNote, IndexNote, Complete, At, Handling, Approved, Working, Positions
<1>2. CASE HandlerFault(w)
  BY <1>1, <1>2, RaiseAlone DEF HandlerFault
<1>3. CASE Stabilize(w)
  BY <1>1, <1>3, RaiseAlone, AdvanceAlone DEF Stabilize
<1>4. CASE CopyToDirty(w)
  BY <1>1, <1>4, RaiseAlone, AdvanceAlone, ParkAlone DEF CopyToDirty
<1>5. CASE RegisterCanonical(w)
  BY <1>1, <1>5, RaiseAlone, AdvanceAlone DEF RegisterCanonical
<1>6. CASE PublishChunks(w)
  BY <1>1, <1>6, RaiseAlone, AdvanceAlone DEF PublishChunks
<1>7. CASE CompleteCapture(w)
  BY <1>1, <1>7, ServingAlone DEF CompleteCapture
<1>8. CASE SaveNote(w)
  BY <1>1, <1>8, ServingAlone, RaiseAlone DEF SaveNote, Raise
<1>9. CASE IndexNote(w)
  BY <1>1, <1>9, RaiseAlone, ServingAlone DEF IndexNote
<1>10. CASE Complete(w)
  BY <1>1, <1>10, RaiseAlone, ServingAlone DEF Complete
<1> QED BY <1>2, <1>3, <1>4, <1>5, <1>6, <1>7, <1>8, <1>9, <1>10

LEMMA ExtractAlone ==
  ASSUME IInv, NEW w \in Threads, Alone(w), Extract(w)
  PROVE  Alone(w)'
<1>1. worker[w].pc \in Working /\ worker[w] \in Contexts /\ row \in Rows
  BY DEF Extract, Handling, At, Working, Positions, IInv, TypeOK
<1>2. CASE row' = row /\ \E code : Raise(w, code)
  BY <1>1, <1>2, RaiseAlone
<1>3. CASE row' = row /\ fresh' = fresh /\ Become(w, [Advancing(w, "extracted") EXCEPT !.content = 1])
  <2> DEFINE c == [[worker[w] EXCEPT !.pc = "advance", !.to = "extracted"] EXCEPT !.content = 1]
  <2>1. c.pc = "advance" /\ Become(w, c)
    BY <1>1, <1>3 DEF Advancing, Contexts
  <2> HIDE DEF c
  <2> QED BY <1>1, <1>3, <2>1, HandledKeeps DEF Handled
<1>4. CASE row' = row /\ fresh' = fresh
           /\ Become(w, [worker[w] EXCEPT !.pc = "compensate", !.to = "skipped", !.code = "skipped"])
  <2> DEFINE c == [worker[w] EXCEPT !.pc = "compensate", !.to = "skipped", !.code = "skipped"]
  <2>1. c.pc = "compensate" /\ Become(w, c)
    BY <1>1, <1>4 DEF Contexts
  <2> HIDE DEF c
  <2> QED BY <1>1, <1>4, <2>1, HandledKeeps DEF Handled
<1>5. CASE /\ Save(w, [row EXCEPT !.code = "corrupt_content"])
           /\ LET tried == [worker[w] EXCEPT !.job = row', !.tries = @ + 1] IN
              Become(w, IF tried.tries < MaxAttempts["corrupt_or_unsupported"]
                          THEN tried
                          ELSE [tried EXCEPT !.pc = "failing", !.code = "corrupt_content"])
  <2> DEFINE tried == [worker[w] EXCEPT !.job = row', !.tries = worker[w].tries + 1]
             lost == [tried EXCEPT !.pc = "failing", !.code = "corrupt_content"]
  <2>1. row'.stage = row.stage /\ fresh' = {w}
    BY <1>1, <1>5 DEF Save, Rows
  <2>2. tried.pc = "handle" /\ lost.pc = "failing"
    BY <1>1 DEF Contexts, Extract, Handling, At
  <2>3. Become(w, tried) \/ Become(w, lost)
    BY <1>5
  <2> HIDE DEF tried, lost
  <2> QED BY <1>1, <2>1, <2>2, <2>3, HandledKeeps DEF Handled
<1> QED BY <1>2, <1>3, <1>4, <1>5 DEF Extract

LEMMA SaveCleanAlone ==
  ASSUME IInv, NEW w \in Threads, Alone(w), SaveClean(w)
  PROVE  Alone(w)'
<1>1. worker[w].pc \in Working /\ worker[w] \in Contexts /\ row' = row
  BY DEF SaveClean, Handling, At, Working, Positions, IInv, TypeOK
<1>2. ASSUME fresh' = fresh,
             Become(w, [worker[w] EXCEPT !.pc = "register", !.slot = FreeSlot, !.content = 1])
      PROVE  Alone(w)'
  <2> DEFINE c == [worker[w] EXCEPT !.pc = "register", !.slot = FreeSlot, !.content = 1]
  <2>1. c.pc = "register" /\ Become(w, c)
    BY <1>1, <1>2 DEF Contexts
  <2> HIDE DEF c
  <2> QED BY <1>1, <1>2, <2>1, HandledKeeps DEF Handled
<1> QED BY <1>1, <1>2, RaiseAlone, AdvanceAlone, ParkAlone DEF SaveClean

LEMMA UnapprovedAlone ==
  ASSUME IInv, NEW w \in Threads, Alone(w), Unapproved(w)
  PROVE  Alone(w)'
<1> DEFINE c == [worker[w] EXCEPT !.pc = "rewind"]
<1>1. worker[w].pc # "idle" /\ worker[w].pc \in Working /\ row' = row /\ fresh' = fresh
      /\ worker[w].job.stage \in Owners.clean
  BY DEF Unapproved, Working, Positions
<1>2. w \in fresh /\ row.stage \in ActiveStages /\ row.stage \in Owners.clean /\ worker[w] \in Contexts
  BY <1>1, Known
<1>3. c.pc = "rewind" /\ Become(w, c)
  BY <1>2 DEF Contexts, Unapproved
<1> HIDE DEF c
<1> QED BY <1>1, <1>2, <1>3, AloneBecomes DEF Working

LEMMA IndexChunksAlone ==
  ASSUME IInv, NEW w \in Threads, Alone(w), IndexChunks(w)
  PROVE  Alone(w)'
<1>1. worker[w].pc \in Working /\ worker[w] \in Contexts /\ row' = row /\ fresh' = fresh
  BY DEF IndexChunks, Approved, Handling, At, Working, Positions, IInv, TypeOK
<1>2. ASSUME Become(w, [worker[w] EXCEPT !.pc = "publish", !.origin = Origin(w),
                                         !.content = ContentOf(w)])
      PROVE  Alone(w)'
  <2> DEFINE c == [worker[w] EXCEPT !.pc = "publish", !.origin = Origin(w), !.content = ContentOf(w)]
  <2>1. c.pc = "publish" /\ Become(w, c)
    BY <1>1, <1>2 DEF Contexts
  <2> HIDE DEF c
  <2> QED BY <1>1, <2>1, HandledKeeps DEF Handled
<1> QED BY <1>1, <1>2, ServingAlone DEF IndexChunks

LEMMA GenerateAlone ==
  ASSUME IInv, NEW w \in Threads, Alone(w), Generate(w)
  PROVE  Alone(w)'
<1>1. worker[w].pc \in Working /\ worker[w] \in Contexts /\ row' = row /\ fresh' = fresh
  BY DEF Generate, Approved, Handling, At, Working, Positions, IInv, TypeOK
<1>2. ASSUME NEW stage, Become(w, [Serving(w, stage) EXCEPT !.content = ContentOf(w)])
      PROVE  Alone(w)'
  <2> DEFINE s == [[worker[w] EXCEPT !.pc = "advance", !.to = stage] EXCEPT !.origin = Origin(w)]
             c == [s EXCEPT !.content = ContentOf(w)]
  <2>1. c.pc = "advance" /\ Become(w, c)
    BY <1>1, <1>2 DEF Contexts, Serving, Advancing
  <2> HIDE DEF c
  <2> QED BY <1>1, <2>1, HandledKeeps DEF Handled
<1>3. ASSUME Become(w, Raised(w, "invalid_model_output")) PROVE Alone(w)'
  BY <1>1, <1>3, RaiseAlone DEF Raise
<1> QED BY <1>1, <1>2, <1>3, ParkAlone DEF Generate

LEMMA HandlerAlone ==
  ASSUME IInv, NEW w \in Threads, Alone(w), Handler(w)
  PROVE  Alone(w)'
BY SimpleHandlersAlone, ExtractAlone, SaveCleanAlone, UnapprovedAlone, IndexChunksAlone,
   GenerateAlone DEF Handler

-----------------------------------------------------------------------------

LEMMA EdgeToActive ==
  /\ \A s \in Stages : s \notin TerminalStages => s \in ActiveStages
  /\ \A s \in ActiveStages : s \in Stages \ TerminalStages
BY DEF Stages, TerminalStages, TerminalFailure, ActiveStages, NextStage

\* A reloaded snapshot, and where the thread goes on with it.
LEMMA ReloadAlone ==
  ASSUME IInv, NEW w \in Threads, NEW d, d \in Contexts, Reload(w, d), row' = row,
         d.pc \in Working => row.stage \in ActiveStages,
         d.pc \in {"rewind", "rewound"} => row.stage \in Owners.clean,
         d.pc = "commit" => d.next.stage \notin TerminalFailure,
         d.pc \notin {"retry", "settle"},
         d.pc = "delete" => row.stage = "completed"
  PROVE  Alone(w)'
<1> DEFINE c == [d EXCEPT !.job = row]
<1>1. c.pc = d.pc /\ c.next = d.next /\ Become(w, c) /\ w \in fresh'
  BY DEF Reload, Contexts
<1> HIDE DEF c
<1> QED BY <1>1, AloneBecomes

LEMMA ReloadPosition ==
  ASSUME IInv, NEW w \in Threads, row' = row, row.stage \in ActiveStages,
         NEW pc \in {"boundary", "handle", "quarantine"}, Reload(w, [worker[w] EXCEPT !.pc = pc])
  PROVE  Alone(w)'
<1> DEFINE d == [worker[w] EXCEPT !.pc = pc]
<1>1. worker[w] \in Contexts
  BY DEF IInv, TypeOK
<1>2. pc \in Positions
  BY DEF Positions
<1>3. d \in Contexts
  BY <1>1, <1>2, ContextFields
<1>4. d.pc = pc /\ Reload(w, d)
  BY <1>1 DEF Contexts
<1> HIDE DEF d
<1> QED BY <1>3, <1>4, ReloadAlone

LEMMA CancellingAlone ==
  ASSUME IInv, NEW w \in Threads, row' = row, row.stage \in ActiveStages,
         \/ Reload(w, Cancelling(w))
         \/ Become(w, Cancelling(w)) /\ fresh' = fresh /\ w \in fresh
  PROVE  Alone(w)'
<1>1. worker[w] \in Contexts
  BY DEF IInv, TypeOK
<1> DEFINE d == Cancelling(w)
           c == [d EXCEPT !.job = row]
<1>2. d.pc = "compensate" /\ c.pc = "compensate"
  BY <1>1 DEF Cancelling, Contexts
<1>3. Become(w, d) \/ Become(w, c)
  BY DEF Reload
<1>4. w \in fresh'
  BY DEF Reload
<1> HIDE DEF d, c
<1> QED BY <1>2, <1>3, <1>4, AloneBecomes

LEMMA ParkingReloaded ==
  ASSUME IInv, NEW w \in Threads, row' = row, row.stage \in ActiveStages,
         NEW code, Reload(w, Parking(w, code))
  PROVE  Alone(w)'
<1>1. worker[w] \in Contexts
  BY DEF IInv, TypeOK
<1> DEFINE c == [[worker[w] EXCEPT !.pc = "park", !.code = code] EXCEPT !.job = row]
<1>2. c.pc = "park" /\ Become(w, c) /\ w \in fresh'
  BY <1>1 DEF Reload, Parking, Contexts
<1> HIDE DEF c
<1> QED BY <1>2, AloneBecomes

LEMMA LoopAlone ==
  ASSUME IInv, NEW w \in Threads, Alone(w), Loop(w)
  PROVE  Alone(w)'
<1>1. row' = row /\ row.stage \in Stages
  BY DEF Loop, IInv, TypeOK, Rows
<1>2. row.stage \notin TerminalStages => row.stage \in ActiveStages
  BY <1>1, EdgeToActive
<1>3. row.stage = "saved_clean" => row.stage \in ActiveStages
  BY <1>2 DEF TerminalStages, TerminalFailure
<1> QED BY <1>1, <1>2, <1>3, AloneRests, CancellingAlone, ParkingReloaded, ReloadPosition
    DEF Loop, Rest

LEMMA BoundaryAlone ==
  ASSUME IInv, NEW w \in Threads, Alone(w), Boundary(w)
  PROVE  Alone(w)'
<1>1. row' = row /\ row.stage \in Stages
  BY DEF Boundary, IInv, TypeOK, Rows
<1>2. row.stage \notin TerminalStages => row.stage \in ActiveStages
  BY <1>1, EdgeToActive
<1> QED BY <1>1, <1>2, AloneRests, CancellingAlone, ReloadPosition DEF Boundary, Rest

LEMMA FailingAlone ==
  ASSUME IInv, NEW w \in Threads, Alone(w), Failing(w)
  PROVE  Alone(w)'
<1>1. row' = row /\ worker[w].pc \in Working /\ worker[w].pc # "idle"
  BY DEF Failing, At, Working, Positions
<1>2. row.stage \in ActiveStages
  BY <1>1, Known
<1> QED BY <1>1, <1>2, AloneRests, CancellingAlone, ReloadPosition DEF Failing, Rest

LEMMA ParkDone ==
  ASSUME IInv, NEW w \in Threads, Park(w) \/ RefuseLlm(w)
  PROVE  Alone(w)'
BY AloneRests DEF Park, RefuseLlm

LEMMA AdvanceReadAlone ==
  ASSUME IInv, NEW w \in Threads, Alone(w), AdvanceRead(w)
  PROVE  Alone(w)'
<1> DEFINE to == worker[w].to
           done == [worker[w] EXCEPT !.to = "none", !.slot = "none"]
<1>1. worker[w].pc = "advance" /\ worker[w].pc \in Working /\ row' = row /\ worker[w].pc # "idle"
  BY DEF AdvanceRead, At, Working, Positions
<1>2. /\ row.stage \in ActiveStages /\ worker[w] \in Contexts /\ row \in Rows
      /\ to \notin TerminalFailure
  BY <1>1, Known DEF IInv, Planned
<1>3. done \in Contexts
  BY <1>2 DEF Contexts
<1>4. CASE row.stage = to
  <2> DEFINE d == [done EXCEPT !.pc = IF to = "completed" /\ LegacyAuto THEN "delete" ELSE "loop"]
  <2>1. Reload(w, d)
    BY <1>2, <1>4 DEF AdvanceRead, IsEdge, TerminalFailure, ActiveStages, NextStage
  <2>2. d \in Contexts
    <3>1. {"delete", "loop"} \subseteq Positions
      BY DEF Positions
    <3>2. \A x \in Positions : [done EXCEPT !.pc = x] \in Contexts
      <4> HIDE DEF done
      <4> QED BY <1>3, ContextFields
    <3> QED BY <3>1, <3>2
  <2>3. d.pc = "loop" \/ (d.pc = "delete" /\ row.stage = "completed")
    BY <1>3, <1>4 DEF Contexts
  <2> HIDE DEF d
  <2> QED BY <1>1, <2>1, <2>2, <2>3, ReloadAlone DEF Working
<1>5. ASSUME IsEdge(row.stage, to),
             Reload(w, [done EXCEPT !.pc = "commit", !.next = AdvancedRow(row, to, worker[w].slot)])
      PROVE  Alone(w)'
  <2> DEFINE next == AdvancedRow(row, to, worker[w].slot)
             c == [[done EXCEPT !.pc = "commit", !.next = next] EXCEPT !.job = row]
  <2>1. next.stage = to
    BY <1>2 DEF AdvancedRow, Rows
  <2>2. c.pc = "commit" /\ c.next = next /\ Become(w, c) /\ w \in fresh'
    BY <1>3, <1>5 DEF Reload, Contexts
  <2> HIDE DEF c, next
  <2> QED BY <1>1, <1>2, <2>1, <2>2, AloneBecomes
<1>6. ASSUME Reload(w, [done EXCEPT !.pc = "failing", !.code = "illegal_job_transition"])
      PROVE  Alone(w)'
  <2> DEFINE c == [[done EXCEPT !.pc = "failing", !.code = "illegal_job_transition"] EXCEPT !.job = row]
  <2>2. c.pc = "failing" /\ Become(w, c) /\ w \in fresh'
    BY <1>3, <1>6 DEF Reload, Contexts
  <2> HIDE DEF c
  <2> QED BY <1>1, <1>2, <2>2, AloneBecomes
<1> QED BY <1>4, <1>5, <1>6 DEF AdvanceRead

LEMMA CommitAlone ==
  ASSUME IInv, NEW w \in Threads, Alone(w), Commit(w)
  PROVE  Alone(w)'
<1>1. worker[w].pc \in {"commit", "rewound"} /\ worker[w].pc \in Working /\ worker[w].pc # "idle"
  BY DEF Commit, Working, Positions
<1>2. w \in fresh /\ row.stage \in ActiveStages /\ worker[w] \in Contexts
  BY <1>1, Known
<1> DEFINE next == worker[w].next
           gone == [worker[w] EXCEPT !.next = NewRow]
<1>3. gone \in Contexts
  BY <1>2, RestingTyped, ContextFields
<1>4. CASE Save(w, next)
           /\ Become(w, [gone EXCEPT !.job = next,
                         !.pc = IF next.stage = "completed" /\ LegacyAuto THEN "delete" ELSE "loop"])
  <2> DEFINE c == [gone EXCEPT !.job = next,
                         !.pc = IF next.stage = "completed" /\ LegacyAuto THEN "delete" ELSE "loop"]
  <2>1. (c.pc = "loop" \/ (c.pc = "delete" /\ row'.stage = "completed")) /\ Become(w, c) /\ w \in fresh'
    BY <1>3, <1>4 DEF Save, Contexts
  <2> HIDE DEF c
  <2> QED BY <2>1, AloneBecomes DEF Working
<1>5. ASSUME NEW code, Become(w, [gone EXCEPT !.pc = "failing", !.code = code]), fresh' = fresh, row' = row
      PROVE  Alone(w)'
  <2> DEFINE c == [gone EXCEPT !.pc = "failing", !.code = code]
  <2>1. c.pc = "failing" /\ Become(w, c)
    BY <1>3, <1>5 DEF Contexts
  <2> HIDE DEF c
  <2> QED BY <1>2, <1>5, <2>1, AloneBecomes
<1> QED BY <1>4, <1>5 DEF Commit

LEMMA RewindAlone ==
  ASSUME IInv, NEW w \in Threads, Alone(w), RewindIndex(w)
  PROVE  Alone(w)'
<1>1. worker[w].pc = "rewind" /\ worker[w].pc \in Working /\ worker[w].pc # "idle"
  BY DEF RewindIndex, At, Working, Positions
<1>2. /\ w \in fresh /\ row.stage \in ActiveStages /\ worker[w] \in Contexts /\ row \in Rows
      /\ row.stage \in Owners.clean
  BY <1>1, Known DEF Alone
<1> DEFINE next == [row EXCEPT !.stage = "saved_clean", !.status = "pending",
                               !.code = "awaiting_clean_approval", !.note = FALSE]
<1>3. ASSUME row' = row, Reload(w, [worker[w] EXCEPT !.pc = "rewound", !.next = next])
      PROVE  Alone(w)'
  <2> DEFINE c == [[worker[w] EXCEPT !.pc = "rewound", !.next = next] EXCEPT !.job = row]
  <2>1. c.pc = "rewound" /\ Become(w, c) /\ w \in fresh'
    BY <1>2, <1>3 DEF Reload, Contexts
  <2> HIDE DEF c
  <2> QED BY <1>2, <1>3, <2>1, AloneBecomes
<1>4. ASSUME Reload(w, [worker[w] EXCEPT !.pc = "loop"])
      PROVE  Alone(w)'
  <2> DEFINE c == [[worker[w] EXCEPT !.pc = "loop"] EXCEPT !.job = row]
  <2>1. c.pc = "loop" /\ Become(w, c) /\ w \in fresh'
    BY <1>2, <1>4 DEF Reload, Contexts
  <2> HIDE DEF c
  <2> QED BY <2>1, AloneBecomes DEF Working
<1>5. ASSUME Save(w, Waiting("awaiting_clean_approval")),
             Become(w, [worker[w] EXCEPT !.pc = "loop", !.job = row'])
      PROVE  Alone(w)'
  <2> DEFINE c == [worker[w] EXCEPT !.pc = "loop", !.job = row']
  <2>1. c.pc = "loop" /\ Become(w, c) /\ w \in fresh'
    BY <1>2, <1>5 DEF Save, Contexts
  <2> HIDE DEF c
  <2> QED BY <2>1, AloneBecomes DEF Working
<1> QED BY <1>3, <1>4, <1>5 DEF RewindIndex

LEMMA DeleteAlone ==
  ASSUME IInv, NEW w \in Threads, Alone(w), DeleteSource(w)
  PROVE  Alone(w)'
<1> DEFINE c == [worker[w] EXCEPT !.pc = "loop"]
<1>1. worker[w].pc # "idle" /\ fresh' = fresh
  BY DEF DeleteSource, At
<1>2. w \in fresh /\ worker[w] \in Contexts
  BY <1>1, Known
<1>3. c.pc = "loop" /\ Become(w, c)
  BY <1>2 DEF DeleteSource, Contexts
<1> HIDE DEF c
<1> QED BY <1>1, <1>2, <1>3, AloneBecomes DEF Working

LEMMA QuarantineAlone ==
  ASSUME IInv, NEW w \in Threads, Alone(w), Quarantine(w)
  PROVE  Alone(w)'
<1>1. worker[w].pc \in Working /\ worker[w].pc # "idle" /\ row' = row
  BY DEF Quarantine, At, Working, Positions
<1>2. /\ w \in fresh /\ row.stage \in ActiveStages /\ worker[w] \in Contexts
      /\ worker[w].job = row /\ row \in Rows
  BY <1>1, Known
<1>3. ASSUME NEW code, fresh' = fresh,
             Become(w, [worker[w] EXCEPT !.pc = "retry",
                          !.next = [worker[w].job EXCEPT !.status = "pending", !.code = code]])
      PROVE  Alone(w)'
  <2> DEFINE next == [row EXCEPT !.status = "pending", !.code = code]
             c == [worker[w] EXCEPT !.pc = "retry", !.next = next]
  <2>1. c.pc = "retry" /\ c.next = next /\ Become(w, c)
    BY <1>2, <1>3 DEF Contexts
  <2>2. next.stage = row.stage
    BY <1>2 DEF Rows
  <2> HIDE DEF c, next
  <2> QED BY <1>1, <1>2, <1>3, <2>1, <2>2, AloneBecomes
<1>4. ASSUME NEW to, fresh' = fresh, Become(w, [worker[w] EXCEPT !.pc = "compensate", !.to = to])
      PROVE  Alone(w)'
  <2> DEFINE c == [worker[w] EXCEPT !.pc = "compensate", !.to = to]
  <2>1. c.pc = "compensate" /\ Become(w, c)
    BY <1>2, <1>4 DEF Contexts
  <2> HIDE DEF c
  <2> QED BY <1>1, <1>2, <1>4, <2>1, AloneBecomes
<1> QED BY <1>3, <1>4, AloneRests DEF Quarantine, Rest

LEMMA CompensateAlone ==
  ASSUME IInv, NEW w \in Threads, Alone(w), Compensate(w)
  PROVE  Alone(w)'
<1>1. worker[w].pc = "compensate" /\ worker[w].pc \in Working /\ worker[w].pc # "idle"
      /\ row' = row /\ fresh' = fresh
  BY DEF Compensate, At, Working, Positions
<1>2. /\ w \in fresh /\ row.stage \in ActiveStages /\ worker[w] \in Contexts
      /\ worker[w].job = row /\ row \in Rows /\ worker[w].to \in TerminalFailure
  BY <1>1, Known DEF IInv, Planned
<1>p. PICK gone : Become(w, [worker[w] EXCEPT !.pc = "settle", !.to = "none",
                    !.next = EndedRow(worker[w].job, worker[w].to, worker[w].code, gone)])
  BY DEF Compensate
<1> DEFINE next == EndedRow(worker[w].job, worker[w].to, worker[w].code, gone)
           c == [worker[w] EXCEPT !.pc = "settle", !.to = "none", !.next = next]
<1>3. c.pc = "settle" /\ c.next = next /\ Become(w, c)
  BY <1>2, <1>p DEF Contexts
<1>4. next.stage = worker[w].to
  BY <1>2 DEF EndedRow, Cleared, Rows
<1> HIDE DEF c, next
<1> QED BY <1>1, <1>2, <1>3, <1>4, AloneBecomes

LEMMA SettleAlone ==
  ASSUME IInv, NEW w \in Threads, Alone(w), Settle(w)
  PROVE  Alone(w)'
<1>1. worker[w].pc # "idle"
  BY DEF Settle
<1>2. Matches(w)
  BY <1>1, Known DEF Matches
<1> QED BY <1>2, AloneRests DEF Settle, Rest

LEMMA FinalizeAlone ==
  ASSUME IInv, NEW w \in Threads, Alone(w), FinalizePendingCancellation(w)
  PROVE  Alone(w)'
<1>1. row' = row /\ row.stage \in Stages
  BY DEF FinalizePendingCancellation, IInv, TypeOK, Rows
<1>2. row.stage \notin TerminalStages => row.stage \in ActiveStages
  BY <1>1, EdgeToActive
<1> QED BY <1>1, <1>2, AloneRests, CancellingAlone DEF FinalizePendingCancellation, Matches, Rest

LEMMA ResumeAlone ==
  ASSUME IInv, NEW w \in Threads, Resume(w)
  PROVE  Alone(w)'
<1>1. row.stage \in ActiveStages
  BY EdgeToActive DEF Resume, IInv, TypeOK, Rows
<1>2. ASSUME Save(w, [row EXCEPT !.status = "claimed", !.attempts = Bump(@)]),
             Become(w, [Resting EXCEPT !.pc = "loop", !.job = row'])
      PROVE  Alone(w)'
  <2> DEFINE c == [Resting EXCEPT !.pc = "loop", !.job = row']
  <2>1. c.pc = "loop" /\ Become(w, c) /\ w \in fresh'
    BY <1>2 DEF Resting, Save
  <2> HIDE DEF c
  <2> QED BY <2>1, AloneBecomes DEF Working
<1>3. ASSUME Reload(w, [Resting EXCEPT !.pc = "loop"])
      PROVE  Alone(w)'
  <2> DEFINE c == [[Resting EXCEPT !.pc = "loop"] EXCEPT !.job = row]
  <2>1. c.pc = "loop" /\ Become(w, c) /\ w \in fresh'
    BY <1>3 DEF Resting, Reload
  <2> HIDE DEF c
  <2> QED BY <2>1, AloneBecomes DEF Working
<1> QED BY <1>1, <1>2, <1>3, CancellingAlone DEF Resume

LEMMA RequestCancelAlone ==
  ASSUME IInv, NEW w \in Threads, RequestCancel(w)
  PROVE  Alone(w)'
<1>1. ASSUME fresh' = {w}, Become(w, [Resting EXCEPT !.pc = "finalize", !.job = row'])
      PROVE  Alone(w)'
  <2> DEFINE c == [Resting EXCEPT !.pc = "finalize", !.job = row']
  <2>1. c.pc = "finalize" /\ Become(w, c) /\ w \in fresh'
    BY <1>1 DEF Resting
  <2> HIDE DEF c
  <2> QED BY <2>1, AloneBecomes DEF Working
<1>2. ASSUME UNCHANGED worker PROVE Alone(w)'
  BY <1>2 DEF RequestCancel, At, Alone, Working
<1> QED BY <1>1, <1>2 DEF RequestCancel

LEMMA StepAlone ==
  ASSUME IInv, OneThread, \A w \in Threads : Alone(w), [Next]_vars
  PROVE  \A w \in Threads : Alone(w)'
<1> SUFFICES ASSUME NEW w \in Threads PROVE Alone(w)'
  OBVIOUS
<1>1. CASE Running(w)
  BY <1>1, HandlerAlone, LoopAlone, BoundaryAlone, ParkDone, AdvanceReadAlone, CommitAlone,
     RewindAlone, DeleteAlone, FailingAlone, QuarantineAlone, CompensateAlone, SettleAlone,
     FinalizeAlone DEF Running
<1>2. CASE UNCHANGED <<row, fresh, worker>>
  BY <1>2 DEF Alone
<1>3. CASE Crash
  <2>1. worker'[w] = Resting
    BY <1>3 DEF Crash
  <2> QED BY <2>1 DEF Alone, Resting, Working
<1>4. CASE Thread(w)
  BY <1>1, <1>2, <1>4, ParkDone, ResumeAlone, RequestCancelAlone DEF Thread, PollParked
<1>5. CASE Human
  BY <1>2, <1>5 DEF Human, ApproveTransition, ApproveClean, EditClean
<1>6. CASE UNCHANGED vars
  BY <1>2, <1>6 DEF vars
<1> QED BY <1>3, <1>4, <1>5, <1>6 DEF Next, OneThread

-----------------------------------------------------------------------------
\* A step of a thread nobody races is a step of the lifecycle, or none.
LifecycleStep == [Lifecycle!Next]_<<row.stage, files.src>>

LEMMA SameStages ==
  /\ Lifecycle!ActiveStages = ActiveStages
  /\ Lifecycle!NextStage = NextStage
  /\ Lifecycle!Owners = Owners
BY DEF Lifecycle!ActiveStages, ActiveStages, Lifecycle!NextStage, NextStage, Lifecycle!Owners, Owners

LEMMA CommitMaps ==
  ASSUME IInv, NEW w \in Threads, Alone(w), Commit(w)
  PROVE  LifecycleStep
<1>1. worker[w].pc \in {"commit", "rewound"} /\ worker[w].pc \in Working /\ worker[w].pc # "idle"
      /\ files' = files
  BY DEF Commit, Working, Positions
<1>2. w \in fresh /\ row.stage \in ActiveStages /\ worker[w].job = row
  BY <1>1, Known
<1>3. row' = worker[w].next \/ row' = row
  BY <1>2 DEF Commit, Matches, Save
<1>6. CASE row' = row
  BY <1>1, <1>6 DEF LifecycleStep
<1>4. CASE worker[w].pc = "commit" /\ row' = worker[w].next
  <2>1. IsEdge(row.stage, row'.stage) /\ row'.stage \notin TerminalFailure
    BY <1>2, <1>3, <1>4 DEF IInv, Planned, Alone
  <2> QED BY <1>1, <1>2, <2>1, SameStages DEF LifecycleStep, Lifecycle!Next, Lifecycle!Progress, IsEdge
<1>5. CASE worker[w].pc = "rewound" /\ row' = worker[w].next
  <2>1. row'.stage = "saved_clean" /\ row.stage \in Owners.clean
    BY <1>2, <1>3, <1>5 DEF IInv, Planned, Alone
  <2> QED BY <1>1, <1>2, <2>1, SameStages DEF LifecycleStep, Lifecycle!Next, Lifecycle!BackToReview
<1> QED BY <1>1, <1>3, <1>4, <1>5, <1>6

LEMMA SettleMaps ==
  ASSUME IInv, NEW w \in Threads, Alone(w), Settle(w)
  PROVE  LifecycleStep
<1>1. worker[w].pc \in {"settle", "retry"} /\ worker[w].pc \in Working /\ worker[w].pc # "idle"
      /\ files' = files
  BY DEF Settle, Working, Positions
<1>2. w \in fresh /\ row.stage \in ActiveStages /\ worker[w].job = row
  BY <1>1, Known
<1>3. row' = worker[w].next \/ row' = row
  BY <1>2 DEF Settle, Matches, Rest
<1>4. CASE worker[w].pc = "retry" \/ row' = row
  BY <1>1, <1>3, <1>4 DEF Alone, LifecycleStep
<1>5. CASE worker[w].pc = "settle" /\ row' = worker[w].next
  <2>1. row'.stage \in TerminalFailure
    BY <1>5 DEF Alone
  <2>2. row'.stage = "quarantined" => files.src = "quarantine"
    BY <1>5 DEF IInv, Quarantining
  <2> QED BY <1>1, <1>2, <2>1, <2>2, SameStages
          DEF LifecycleStep, Lifecycle!Next, Lifecycle!End, Lifecycle!Quarantine, TerminalFailure
<1> QED BY <1>1, <1>3, <1>4, <1>5

LEMMA QuarantineMaps ==
  ASSUME IInv, NEW w \in Threads, Alone(w), Quarantine(w)
  PROVE  LifecycleStep
<1>1. worker[w].pc \in Working /\ worker[w].pc # "idle" /\ row' = row
  BY DEF Quarantine, At, Working, Positions
<1>2. row.stage \in ActiveStages
  BY <1>1, Known
<1>3. files'.src = files.src \/ (files.src = "inbox" /\ files'.src = "quarantine")
  <2>1. PICK moved \in {FailureAction(worker[w].code, Attempts(w)) = "quarantine" /\ files.src = "inbox",
                        FALSE} :
          files' = [files EXCEPT !.src = IF moved THEN "quarantine" ELSE @]
    BY DEF Quarantine
  <2>2. moved => files.src = "inbox"
    BY <2>1
  <2>3. files'.src = IF moved THEN "quarantine" ELSE files.src
    BY <2>1 DEF IInv, TypeOK
  <2> QED BY <2>2, <2>3
<1> QED BY <1>1, <1>2, <1>3, SameStages DEF LifecycleStep, Lifecycle!Next, Lifecycle!SetAside

LEMMA DeleteMaps ==
  ASSUME IInv, NEW w \in Threads, Alone(w), DeleteSource(w)
  PROVE  LifecycleStep
<1>1. row' = row /\ row.stage = "completed"
  BY DEF DeleteSource, At, Alone
<1>2. files'.src = IF files.src = "inbox" THEN "deleted" ELSE files.src
  BY DEF DeleteSource, IInv, TypeOK
<1> QED BY <1>1, <1>2 DEF LifecycleStep, Lifecycle!Next, Lifecycle!DropSource

LEMMA OtherMaps ==
  ASSUME IInv, NEW w \in Threads, Thread(w),
         ~Commit(w), ~Settle(w), ~Quarantine(w), ~DeleteSource(w)
  PROVE  row'.stage = row.stage /\ files'.src = files.src
<1>1. row \in Rows
  BY DEF IInv, TypeOK
<1>2. row'.stage = row.stage
  <2>1. ASSUME Handler(w) PROVE row'.stage = row.stage
    BY <1>1, <2>1 DEF Handler, HandlerFault, Stabilize, CopyToDirty, SaveClean,
           RegisterCanonical, Unapproved, IndexChunks, PublishChunks, CompleteCapture,
           Generate, SaveNote, IndexNote, Complete, Extract, Save, Rows
  <2> QED BY <1>1, <2>1, WaitingKeepsStage
      DEF Thread, Running, RefuseLlm, Resume, PollParked, RequestCancel, Loop, Boundary,
          Park, AdvanceRead, RewindIndex, Failing, Compensate,
          FinalizePendingCancellation, Save, Rows
<1>3. files'.src = files.src
  <2>t. files \in [src : {"inbox", "quarantine", "deleted"}, dirty : BOOLEAN,
                cache : BOOLEAN, clean : [Slots -> Versions], note : Versions,
                 stuck : SUBSET {"dirty", "clean", "index", "vectors"}]
    BY DEF IInv, TypeOK
  <2>1. ASSUME Handler(w) PROVE files'.src = files.src
    BY <2>t, <2>1 DEF Handler, HandlerFault, Stabilize, CopyToDirty, SaveClean,
           RegisterCanonical, Unapproved, IndexChunks, PublishChunks, CompleteCapture,
           Generate, SaveNote, IndexNote, Complete, Extract
  <2>2. ASSUME Compensate(w) PROVE files'.src = files.src
    BY <2>t, <2>2 DEF Compensate
  <2>3. ASSUME RewindIndex(w) PROVE files'.src = files.src
    BY <2>t, <2>3 DEF RewindIndex
  <2> QED BY <2>1, <2>2, <2>3
      DEF Thread, Running, RefuseLlm, Resume, PollParked, RequestCancel, Loop, Boundary,
          Park, AdvanceRead, Failing, FinalizePendingCancellation
<1> QED BY <1>2, <1>3

LEMMA StepMaps ==
  ASSUME IInv, \A w \in Threads : Alone(w), [Next]_vars
  PROVE  LifecycleStep
<1>t. files \in [src : {"inbox", "quarantine", "deleted"}, dirty : BOOLEAN,
              cache : BOOLEAN, clean : [Slots -> Versions], note : Versions,
                 stuck : SUBSET {"dirty", "clean", "index", "vectors"}]
  BY DEF IInv, TypeOK
<1>1. ASSUME NEW w \in Threads, Thread(w) PROVE LifecycleStep
  BY <1>1, CommitMaps, SettleMaps, QuarantineMaps, DeleteMaps, OtherMaps DEF LifecycleStep
<1>2. CASE Human
  <2>1. ASSUME NEW s \in Slots, EditClean(s) PROVE files'.src = files.src
    BY <1>t, <2>1 DEF EditClean
  <2> QED BY <1>2, <2>1 DEF Human, ApproveTransition, ApproveClean, EditClean, LifecycleStep
<1>3. CASE Crash \/ UNCHANGED vars
  BY <1>3 DEF Crash, vars, LifecycleStep
<1> QED BY <1>1, <1>2, <1>3 DEF Next

(* While one thread at a time runs the job and serves its cancellation, every
   crash, retry, rewind and edit notwithstanding, the pipeline implements the
   lifecycle a job promises. *)
THEOREM OneThreadKeepsPromise ==
  ASSUME OneThread
  PROVE  Spec => KeepsPromise
<1>1. Init => /\ \A w \in Threads : Alone(w)
              /\ Lifecycle!Init
  BY DEF Init, NewRow, Resting, Alone, Working, Lifecycle!Init
<1>2. IInv /\ (\A w \in Threads : Alone(w)) /\ [Next]_vars => (\A w \in Threads : Alone(w))'
  BY StepAlone
<1>3. IInv /\ (\A w \in Threads : Alone(w)) /\ [Next]_vars => LifecycleStep
  BY StepMaps
<1> QED BY <1>1, <1>2, <1>3, Inductive, PTL DEF Spec, KeepsPromise, Lifecycle!Spec, LifecycleStep, Lifecycle!lifecycle

-----------------------------------------------------------------------------
(* A failed job leaves nothing behind                                        *)

\* A thread between having made something and the row that names it.
Landing(c, stage) ==
  \/ c.pc = "advance" /\ c.to = stage
  \/ c.pc = "commit" /\ c.next.stage = stage

\* What is left when the job ends with row r.
Leftovers(r, f, i, h) ==
  /\ f.dirty => "dirty" \in f.stuck /\ r.dirty
  /\ \A s \in Slots : f.clean[s] > 0 => ("clean" \in f.stuck /\ r.clean = s) \/ h[s] = 0
  /\ i.noteRow => "index" \in f.stuck /\ r.note
  /\ i.vec > 0 => "vectors" \in f.stuck \/ ("index" \in f.stuck /\ r.note)

\* Every file is named by the row, or by the thread that is about to name it, or is
\* a captured file that was never registered.
FilesNamed(c, r, f, h) ==
  /\ r.dirty => r.stage \in Owners.dirty
  /\ f.dirty => r.dirty \/ Landing(c, "copied_dirty")
  /\ r.clean # "none" => r.stage \in Owners.clean
  /\ \A s \in Slots : f.clean[s] > 0 =>
       \/ s = r.clean \/ h[s] = 0
       \/ c.pc = "advance" /\ s = c.slot
       \/ c.pc = "commit" /\ s = c.next.clean
  /\ r.stage \notin Owners.clean /\ ~Landing(c, "saved_clean") =>
       \A s \in Slots : h[s] = 0

\* What was published is what the stage's compensation discards.
IndexNamed(c, r, f, i) ==
  /\ i.vec > 0 \/ i.noteRow => Vectors
  /\ i.vec > 0 /\ "vectors" \notin f.stuck =>
       i.rows /\ (r.stage \in Owners.chunk_index \/ Landing(c, "indexed_chunks"))
  /\ i.noteRow => r.stage \in Owners.note_index \/ Landing(c, "indexed_note")
  /\ r.stage \in Owners.chunk_index => r.note

\* What the thread has in hand agrees with the row it is about to replace.
InHand(c, r, f, i) ==
  /\ c.slot # "none" => c.pc = "register" \/ (c.pc = "advance" /\ c.to = "saved_clean")
  /\ c.pc = "register" => r.stage = "extracted" /\ c.slot \in Slots /\ f.clean[c.slot] > 0
  /\ c.pc = "advance" => IsEdge(r.stage, c.to) /\ (c.to = "saved_clean" => c.slot # "none")
  /\ c.pc = "commit" =>
       /\ c.next.dirty = (r.dirty \/ c.next.stage = "copied_dirty")
       /\ c.next.stage # "saved_clean" => c.next.clean = r.clean
       /\ c.next.note = (r.note \/ c.next.stage \in {"indexed_chunks", "saved_note"}
                                \/ (c.next.stage = "completed" /\ ~LegacyAuto))
  /\ c.pc = "rewound" =>
       /\ c.next.dirty = r.dirty /\ c.next.clean = r.clean
       /\ (i.vec = 0 \/ "vectors" \in f.stuck) /\ ~i.noteRow
  /\ c.pc = "retry" =>
       c.next.dirty = r.dirty /\ c.next.clean = r.clean /\ c.next.note = r.note
  /\ c.pc = "publish" => r.stage = "saved_clean" /\ Vectors /\ i.rows

Accounted(c, r, f, i, h) ==
  IF r.stage \in TerminalFailure THEN Leftovers(r, f, i, h)
  ELSE IF c.pc = "settle" THEN Leftovers(c.next, f, i, h)
  ELSE r.stage \in ActiveStages =>
         FilesNamed(c, r, f, h) /\ IndexNamed(c, r, f, i) /\ InHand(c, r, f, i)

\* Until a crash or a refused write comes between a file and its row.
Tidy(w) ==
  interruptions = 0 => Accounted(worker[w], row, files, index, catalog.hash)

\* Where a thread has nothing in hand.
Empty == Positions \ {"register", "advance", "commit", "rewound", "retry", "publish", "settle"}

FileShapes == [src : {"inbox", "quarantine", "deleted"}, dirty : BOOLEAN,
               cache : BOOLEAN, clean : [Slots -> Versions], note : Versions,
                 stuck : SUBSET {"dirty", "clean", "index", "vectors"}]
IndexShapes == [rows : BOOLEAN, vec : Versions, noteRow : BOOLEAN]

LEMMA StageFacts ==
  /\ TerminalFailure \intersect ActiveStages = {}
  /\ TerminalFailure \intersect Owners.clean = {}
  /\ \A s \in Owners.clean : s \in Owners.dirty
  /\ \A s \in Owners.chunk_index : s \in Owners.clean
  /\ \A s \in Owners.note_index : s \in Owners.chunk_index
BY DEF TerminalFailure, ActiveStages, NextStage, Owners

\* A step that empties the thread's hands, when they held nothing unnamed, and changes no
\* artifact.
LEMMA HandsEmptied ==
  ASSUME NEW c, NEW d, NEW r, NEW q, NEW f, NEW i, NEW h, NEW k,
         Accounted(c, r, f, i, h),
         c.pc \notin {"register", "advance", "commit", "settle"},
         d.pc \in Empty, d.slot = c.slot \/ d.slot = "none",
         q.stage = r.stage, q.dirty = r.dirty, q.clean = r.clean, q.note = r.note,
         h = k \/ (r.stage \in Owners.clean /\ \A s \in Slots : h[s] = 0 => k[s] = 0)
  PROVE  Accounted(d, q, f, i, k)
<1>1. d.pc \notin {"register", "advance", "commit", "rewound", "retry", "publish", "settle"}
  BY DEF Empty
<1>2. CASE r.stage \in TerminalFailure
  <2>1. h = k
    BY <1>2, StageFacts
  <2>2. Leftovers(r, f, i, h)
    BY <1>2 DEF Accounted
  <2>3. Leftovers(q, f, i, k)
    BY <2>1, <2>2 DEF Leftovers
  <2> QED BY <1>2, <2>3 DEF Accounted
<1>3. CASE r.stage \notin TerminalFailure /\ r.stage \in ActiveStages
  <2>1. FilesNamed(c, r, f, h) /\ IndexNamed(c, r, f, i) /\ InHand(c, r, f, i)
    BY <1>3 DEF Accounted
  <2>2. FilesNamed(d, q, f, k)
    <3>1. \A s \in Slots : h[s] = 0 => k[s] = 0
      OBVIOUS
    <3>2. r.stage \in Owners.clean \/ h = k
      OBVIOUS
    <3> QED BY <1>1, <2>1, <3>1, <3>2 DEF FilesNamed, Landing
  <2>3. IndexNamed(d, q, f, i)
    BY <1>1, <2>1 DEF IndexNamed, Landing
  <2>4. InHand(d, q, f, i)
    BY <1>1, <2>1 DEF InHand
  <2> QED BY <1>1, <1>3, <2>2, <2>3, <2>4 DEF Accounted
<1> QED BY <1>1, <1>2, <1>3 DEF Accounted

\* A step leaves the catalog's hashes, or only moves them on while a captured file exists.
HashesKnown ==
  \/ catalog'.hash = catalog.hash
  \/ row.stage \in Owners.clean /\ \A s \in Slots : catalog.hash[s] = 0 => catalog'.hash[s] = 0

LEMMA TidyBecomes ==
  ASSUME IInv, NEW w \in Threads, NEW c, Become(w, c),
         Accounted(c, row', files', index', catalog'.hash)
  PROVE  Tidy(w)'
<1>1. worker'[w] = c
  BY DEF Become, IInv, TypeOK
<1> QED BY <1>1 DEF Tidy

\* The same, for a thread that changes nothing but what it knows.
LEMMA TidyEmptied ==
  ASSUME IInv, NEW w \in Threads, Accounted(worker[w], row, files, index, catalog.hash),
         worker[w].pc \notin {"register", "advance", "commit", "settle"},
         NEW c, Become(w, c), c.pc \in Empty, c.slot = worker[w].slot \/ c.slot = "none",
         row'.stage = row.stage, row'.dirty = row.dirty, row'.clean = row.clean,
         row'.note = row.note, files' = files, index' = index,
         HashesKnown
  PROVE  Tidy(w)'
<1>1. Accounted(c, row', files, index, catalog'.hash)
  BY HandsEmptied DEF HashesKnown
<1> QED BY <1>1, TidyBecomes

LEMMA TidyRests ==
  ASSUME IInv, NEW w \in Threads, Accounted(worker[w], row, files, index, catalog.hash),
         worker[w].pc \notin {"register", "advance", "commit", "settle"},
         Become(w, Resting),
         row'.stage = row.stage, row'.dirty = row.dirty, row'.clean = row.clean,
         row'.note = row.note, files' = files, index' = index,
         HashesKnown
  PROVE  Tidy(w)'
<1>1. Resting.pc \in Empty /\ Resting.slot = "none"
  BY DEF Resting, Empty, Positions
<1> HIDE DEF Resting
<1> QED BY <1>1, TidyEmptied DEF HashesKnown

\* Where a handler leaves its thread, field by field.
LEMMA LeftFields ==
  ASSUME NEW w \in Threads, worker[w] \in Contexts
  PROVE  /\ \A code : Raised(w, code).pc = "failing" /\ Raised(w, code).slot = "none"
         /\ \A code : Parking(w, code).pc = "park" /\ Parking(w, code).slot = worker[w].slot
         /\ \A s : Advancing(w, s).pc = "advance" /\ Advancing(w, s).to = s
                   /\ Advancing(w, s).slot = worker[w].slot
         /\ \A s : Serving(w, s).pc = "advance" /\ Serving(w, s).to = s
                   /\ Serving(w, s).slot = worker[w].slot
         /\ Cancelling(w).pc = "compensate" /\ Cancelling(w).slot = worker[w].slot
BY DEF Contexts, Raised, Parking, Advancing, Serving, Cancelling

LEMMA Emptied ==
  {"idle", "loop", "boundary", "handle", "rewind", "park", "delete", "failing", "quarantine",
   "finalize", "compensate"} \subseteq Empty
BY DEF Empty, Positions

LEMMA RaiseTidy ==
  ASSUME IInv, NEW w \in Threads, Accounted(worker[w], row, files, index, catalog.hash),
         worker[w].pc \notin {"register", "advance", "commit", "settle"},
         NEW code, Raise(w, code), row' = row, files' = files, index' = index,
         catalog'.hash = catalog.hash
  PROVE  Tidy(w)'
<1> DEFINE c == Raised(w, code)
<1>1. worker[w] \in Contexts
  BY DEF IInv, TypeOK
<1>2. c.pc \in Empty /\ c.slot = "none" /\ Become(w, c)
  BY <1>1, LeftFields, Emptied DEF Raise
<1> HIDE DEF c
<1> QED BY <1>2, TidyEmptied DEF HashesKnown

LEMMA ParkTidy ==
  ASSUME IInv, NEW w \in Threads, Accounted(worker[w], row, files, index, catalog.hash),
         worker[w].pc \notin {"register", "advance", "commit", "settle"},
         NEW code, Become(w, Parking(w, code)), row' = row, files' = files, index' = index,
         catalog'.hash = catalog.hash
  PROVE  Tidy(w)'
<1> DEFINE c == Parking(w, code)
<1>1. worker[w] \in Contexts
  BY DEF IInv, TypeOK
<1>2. c.pc \in Empty /\ c.slot = worker[w].slot /\ Become(w, c)
  BY <1>1, LeftFields, Emptied
<1> HIDE DEF c
<1> QED BY <1>2, TidyEmptied DEF HashesKnown

\* A thread about to advance has made at most what the next stage owns.
LEMMA AdvanceAccounted ==
  ASSUME NEW c, NEW d, NEW r, NEW f, NEW g, NEW i, NEW j, NEW h, NEW t,
         Accounted(c, r, f, i, h), r.stage \in ActiveStages,
         c.pc \notin {"register", "advance", "commit", "settle"},
         d.pc = "advance", d.to = t, d.slot = c.slot, IsEdge(r.stage, t), t # "saved_clean",
         g.clean = f.clean, g.dirty => f.dirty \/ t = "copied_dirty", g.stuck = f.stuck,
         \/ j.vec = i.vec /\ j.rows = i.rows /\ j.noteRow = i.noteRow
         \/ /\ t = "indexed_chunks" /\ j.noteRow = i.noteRow
            /\ j.vec > 0 => Vectors /\ (j.rows \/ "vectors" \in f.stuck)
         \/ /\ t = "indexed_note" /\ Vectors
            /\ j.vec = i.vec /\ j.rows = i.rows
  PROVE  Accounted(d, r, g, j, h)
<1>1. r.stage \notin TerminalFailure
  BY StageFacts
<1>2. FilesNamed(c, r, f, h) /\ IndexNamed(c, r, f, i) /\ InHand(c, r, f, i)
  BY <1>1 DEF Accounted
<1>3. c.slot = "none"
  BY <1>2 DEF InHand
<1>4. FilesNamed(d, r, g, h)
  BY <1>2, <1>3 DEF FilesNamed, Landing
<1>5. IndexNamed(d, r, g, j)
  BY <1>2 DEF IndexNamed, Landing
<1>6. InHand(d, r, g, j)
  BY <1>2, <1>3 DEF InHand
<1> QED BY <1>1, <1>4, <1>5, <1>6 DEF Accounted

LEMMA AdvanceTidy ==
  ASSUME IInv, NEW w \in Threads, Accounted(worker[w], row, files, index, catalog.hash),
         worker[w].pc \notin {"register", "advance", "commit", "settle"},
         row.stage \in ActiveStages, row' = row, NEW t, IsEdge(row.stage, t), t # "saved_clean",
         NEW c, Become(w, c), c.pc = "advance", c.to = t, c.slot = worker[w].slot,
         catalog'.hash = catalog.hash,
         files'.clean = files.clean, files'.dirty => files.dirty \/ t = "copied_dirty",
         files'.stuck = files.stuck,
         \/ index' = index
         \/ /\ t = "indexed_chunks" /\ index'.noteRow = index.noteRow
            /\ index'.vec > 0 => Vectors /\ (index'.rows \/ "vectors" \in files.stuck)
         \/ /\ t = "indexed_note" /\ Vectors
            /\ index'.vec = index.vec /\ index'.rows = index.rows
  PROVE  Tidy(w)'
<1>1. Accounted(c, row, files', index', catalog.hash)
  BY AdvanceAccounted
<1> QED BY <1>1, TidyBecomes

\* What handlers rely on: their snapshot is the row, of the stage they handle.
LEMMA Handles ==
  ASSUME IInv, NEW w \in Threads, Alone(w), worker[w].pc \in {"handle", "publish", "register"}
  PROVE  /\ worker[w] \in Contexts /\ worker[w].job = row /\ row \in Rows
         /\ row.stage \in ActiveStages
         /\ files \in FileShapes /\ index \in IndexShapes
<1>1. worker[w].pc # "idle" /\ worker[w].pc \in Working
  BY DEF Working, Positions
<1> QED BY <1>1, Known DEF IInv, TypeOK, FileShapes, IndexShapes

LEMMA HandlerFaultTidy ==
  ASSUME IInv, NEW w \in Threads, Alone(w), HandlerFault(w),
         Accounted(worker[w], row, files, index, catalog.hash)
  PROVE  Tidy(w)'
<1>1. PICK code : Raise(w, code)
  BY DEF HandlerFault
<1>2. worker[w].pc \in {"handle", "register"} /\ UNCHANGED <<row, files, index, catalog>>
  BY DEF HandlerFault
<1>3. CASE worker[w].pc = "handle"
  BY <1>1, <1>2, <1>3, RaiseTidy
<1>4. CASE worker[w].pc = "register"
  <2> DEFINE c == Raised(w, code)
  <2>1. worker[w] \in Contexts /\ row.stage \in ActiveStages
    BY <1>2, Handles
  <2>2. c.pc = "failing" /\ c.slot = "none" /\ Become(w, c)
    BY <1>1, <2>1, LeftFields DEF Raise
  <2> HIDE DEF c
  <2>3. FilesNamed(worker[w], row, files, catalog.hash) /\ IndexNamed(worker[w], row, files, index)
        /\ InHand(worker[w], row, files, index)
    BY <1>4, <2>1, StageFacts DEF Accounted
  <2>4. FilesNamed(c, row, files, catalog.hash) /\ IndexNamed(c, row, files, index)
    BY <1>4, <2>2, <2>3 DEF FilesNamed, IndexNamed, Landing
  <2>5. InHand(c, row, files, index)
    BY <2>2 DEF InHand
  <2>6. Accounted(c, row, files, index, catalog.hash)
    BY <2>1, <2>2, <2>4, <2>5, StageFacts DEF Accounted
  <2> QED BY <1>2, <2>2, <2>6, TidyBecomes
<1> QED BY <1>2, <1>3, <1>4

LEMMA StabilizeTidy ==
  ASSUME IInv, NEW w \in Threads, Alone(w), Stabilize(w),
         Accounted(worker[w], row, files, index, catalog.hash)
  PROVE  Tidy(w)'
<1>1. worker[w].pc = "handle" /\ worker[w].job.stage = "discovered"
  BY DEF Stabilize, Handling, At
<1>2. worker[w] \in Contexts /\ row.stage \in ActiveStages /\ row.stage = "discovered"
  BY <1>1, Handles
<1>3. IsEdge(row.stage, "stabilized")
  BY <1>2, HappyStages DEF IsEdge, NextStage
<1>4. ASSUME Advance(w, "stabilized"), UNCHANGED <<row, files, index, catalog>>
      PROVE  Tidy(w)'
  <2> DEFINE c == Advancing(w, "stabilized")
  <2>1. c.pc = "advance" /\ c.to = "stabilized" /\ c.slot = worker[w].slot /\ Become(w, c)
    BY <1>2, <1>4, LeftFields DEF Advance
  <2> HIDE DEF c
  <2> QED BY <1>1, <1>2, <1>3, <1>4, <2>1, AdvanceTidy
<1> QED BY <1>1, <1>4, RaiseTidy DEF Stabilize

LEMMA CopyToDirtyTidy ==
  ASSUME IInv, NEW w \in Threads, Alone(w), CopyToDirty(w),
         Accounted(worker[w], row, files, index, catalog.hash)
  PROVE  Tidy(w)'
<1>1. worker[w].pc = "handle" /\ worker[w].job.stage = "stabilized"
  BY DEF CopyToDirty, Handling, At
<1>2. worker[w] \in Contexts /\ row.stage \in ActiveStages /\ row.stage = "stabilized"
      /\ files \in FileShapes
  BY <1>1, Handles
<1>3. IsEdge(row.stage, "copied_dirty")
  BY <1>2 DEF IsEdge, NextStage
<1>4. ASSUME Advance(w, "copied_dirty"), UNCHANGED <<row, index, catalog>>,
             files' = files \/ files' = [files EXCEPT !.dirty = TRUE]
      PROVE  Tidy(w)'
  <2> DEFINE c == Advancing(w, "copied_dirty")
  <2>1. c.pc = "advance" /\ c.to = "copied_dirty" /\ c.slot = worker[w].slot /\ Become(w, c)
    BY <1>2, <1>4, LeftFields DEF Advance
  <2>2. files'.clean = files.clean /\ files'.stuck = files.stuck
    BY <1>2, <1>4 DEF FileShapes
  <2> HIDE DEF c
  <2> QED BY <1>1, <1>2, <1>3, <1>4, <2>1, <2>2, AdvanceTidy
<1> QED BY <1>1, <1>4, RaiseTidy, ParkTidy DEF CopyToDirty

LEMMA ExtractTidy ==
  ASSUME IInv, NEW w \in Threads, Alone(w), Extract(w),
         Accounted(worker[w], row, files, index, catalog.hash)
  PROVE  Tidy(w)'
<1>1. worker[w].pc = "handle" /\ worker[w].job.stage = "copied_dirty"
      /\ UNCHANGED <<index, catalog>>
  BY DEF Extract, Handling, At
<1>2. worker[w] \in Contexts /\ row.stage \in ActiveStages /\ row.stage = "copied_dirty"
      /\ files \in FileShapes /\ row \in Rows
  BY <1>1, Handles
<1>3. IsEdge(row.stage, "extracted")
  BY <1>2 DEF IsEdge, NextStage
<1>4. CASE row' = row /\ files' = files /\ \E code : Raise(w, code)
  BY <1>1, <1>4, RaiseTidy
<1>5. CASE row' = row /\ files' = [files EXCEPT !.cache = TRUE]
           /\ Become(w, [Advancing(w, "extracted") EXCEPT !.content = 1])
  <2> DEFINE c == [Advancing(w, "extracted") EXCEPT !.content = 1]
  <2>1. c.pc = "advance" /\ c.to = "extracted" /\ c.slot = worker[w].slot /\ Become(w, c)
    BY <1>2, <1>5 DEF Advancing, Contexts
  <2>2. files'.clean = files.clean /\ files'.dirty = files.dirty /\ files'.stuck = files.stuck
    BY <1>2, <1>5 DEF FileShapes
  <2> HIDE DEF c
  <2> QED BY <1>1, <1>2, <1>3, <1>5, <2>1, <2>2, AdvanceTidy
<1>6. CASE row' = row /\ files' = files
           /\ Become(w, [worker[w] EXCEPT !.pc = "compensate", !.to = "skipped", !.code = "skipped"])
  <2> DEFINE c == [worker[w] EXCEPT !.pc = "compensate", !.to = "skipped", !.code = "skipped"]
  <2>1. c.pc \in Empty /\ c.slot = worker[w].slot /\ Become(w, c)
    BY <1>2, <1>6, Emptied DEF Contexts
  <2> HIDE DEF c
  <2> QED BY <1>1, <1>6, <2>1, TidyEmptied DEF HashesKnown
<1>7. CASE /\ files' = files
           /\ Save(w, [row EXCEPT !.code = "corrupt_content"])
           /\ LET tried == [worker[w] EXCEPT !.job = row', !.tries = @ + 1] IN
              Become(w, IF tried.tries < MaxAttempts["corrupt_or_unsupported"]
                          THEN tried
                          ELSE [tried EXCEPT !.pc = "failing", !.code = "corrupt_content"])
  <2> DEFINE tried == [worker[w] EXCEPT !.job = row', !.tries = worker[w].tries + 1]
             lost == [tried EXCEPT !.pc = "failing", !.code = "corrupt_content"]
  <2>1. row'.stage = row.stage /\ row'.dirty = row.dirty /\ row'.clean = row.clean
        /\ row'.note = row.note
    BY <1>2, <1>7 DEF Save, Rows
  <2>2. /\ tried.pc \in Empty /\ tried.slot = worker[w].slot
        /\ lost.pc \in Empty /\ lost.slot = worker[w].slot
    BY <1>1, <1>2, Emptied DEF Contexts
  <2>3. Become(w, tried) \/ Become(w, lost)
    BY <1>7
  <2> HIDE DEF tried, lost
  <2> QED BY <1>1, <1>7, <2>1, <2>2, <2>3, TidyEmptied DEF HashesKnown
<1> QED BY <1>4, <1>5, <1>6, <1>7 DEF Extract

LEMMA SaveCleanTidy ==
  ASSUME IInv, NEW w \in Threads, Alone(w), SaveClean(w),
         Accounted(worker[w], row, files, index, catalog.hash)
  PROVE  Tidy(w)'
<1>1. worker[w].pc = "handle" /\ worker[w].job.stage = "extracted"
      /\ UNCHANGED <<row, index, catalog>>
  BY DEF SaveClean, Handling, At
<1>2. worker[w] \in Contexts /\ row.stage \in ActiveStages /\ row.stage = "extracted"
      /\ files \in FileShapes /\ row \in Rows /\ worker[w].job = row
  BY <1>1, Handles
<1>3. FilesNamed(worker[w], row, files, catalog.hash) /\ IndexNamed(worker[w], row, files, index)
      /\ InHand(worker[w], row, files, index)
  BY <1>1, <1>2, StageFacts DEF Accounted
<1>4. row.clean = "none" /\ worker[w].slot = "none" /\ \A s \in Slots : catalog.hash[s] = 0
  BY <1>1, <1>2, <1>3 DEF FilesNamed, InHand, Owners, Landing
<1>5. ASSUME files' = [files EXCEPT !.clean[FreeSlot] = 1],
             Become(w, [worker[w] EXCEPT !.pc = "register", !.slot = FreeSlot, !.content = 1])
      PROVE  Tidy(w)'
  <2> DEFINE c == [worker[w] EXCEPT !.pc = "register", !.slot = FreeSlot, !.content = 1]
  <2>1. c.pc = "register" /\ c.slot = FreeSlot /\ FreeSlot \in Slots /\ Become(w, c)
    BY <1>2, <1>5 DEF Contexts, FreeSlot, Slots
  <2>2. files'.dirty = files.dirty /\ files'.clean[FreeSlot] = 1 /\ files'.stuck = files.stuck
        /\ \A s \in Slots \ {FreeSlot} : files'.clean[s] = files.clean[s]
    BY <1>2, <1>5, <2>1 DEF FileShapes
  <2> HIDE DEF c
  <2>3. FilesNamed(c, row, files', catalog.hash)
    BY <1>1, <1>2, <1>3, <1>4, <2>1, <2>2 DEF FilesNamed, Landing
  <2>4. IndexNamed(c, row, files', index) /\ InHand(c, row, files', index)
    BY <1>1, <1>2, <1>3, <2>1, <2>2 DEF IndexNamed, InHand, Landing
  <2>5. Accounted(c, row, files', index, catalog.hash)
    BY <1>2, <2>1, <2>3, <2>4, StageFacts DEF Accounted
  <2> QED BY <1>1, <2>1, <2>5, TidyBecomes
<1>6. ~HasClean(worker[w].job)
  BY <1>2, <1>4 DEF HasClean
<1> QED BY <1>1, <1>5, <1>6, RaiseTidy, ParkTidy DEF SaveClean

LEMMA RegisterTidy ==
  ASSUME IInv, NEW w \in Threads, Alone(w), RegisterCanonical(w),
         Accounted(worker[w], row, files, index, catalog.hash)
  PROVE  Tidy(w)'
<1>1. worker[w].pc = "register" /\ UNCHANGED <<row, index>>
      /\ files' = [files EXCEPT !.cache = FALSE]
  BY DEF RegisterCanonical, At
<1>2. worker[w] \in Contexts /\ row.stage \in ActiveStages
      /\ files \in FileShapes /\ row \in Rows /\ worker[w].job = row
  BY <1>1, Handles
<1>3. FilesNamed(worker[w], row, files, catalog.hash) /\ IndexNamed(worker[w], row, files, index)
      /\ InHand(worker[w], row, files, index)
  BY <1>1, <1>2, StageFacts DEF Accounted
<1> DEFINE slot == worker[w].slot
<1>4. row.stage = "extracted" /\ slot \in Slots /\ files.clean[slot] > 0
      /\ catalog.hash[slot] = 0
  BY <1>1, <1>3 DEF FilesNamed, InHand, Owners, Landing
<1>5. Advance(w, "saved_clean")
  BY <1>4 DEF RegisterCanonical
<1> DEFINE c == Advancing(w, "saved_clean")
<1>6. c.pc = "advance" /\ c.to = "saved_clean" /\ c.slot = slot /\ Become(w, c)
  BY <1>2, <1>5, LeftFields DEF Advance
<1>7. files'.dirty = files.dirty /\ files'.clean = files.clean /\ files'.stuck = files.stuck
  BY <1>1, <1>2 DEF FileShapes
<1>r. \A s \in Slots \ {slot} : catalog'.hash[s] = catalog.hash[s]
  BY <1>4 DEF RegisterCanonical, IInv, TypeOK
<1> HIDE DEF c
<1>8. FilesNamed(c, row, files', catalog'.hash)
  BY <1>1, <1>3, <1>6, <1>7, <1>r DEF FilesNamed, Landing
<1>9. IndexNamed(c, row, files', index)
  BY <1>1, <1>3, <1>6, <1>7 DEF IndexNamed, Landing
<1>10. InHand(c, row, files', index)
  <2>1. IsEdge(row.stage, "saved_clean") /\ slot # "none"
    BY <1>4 DEF IsEdge, NextStage, ActiveStages, Slots
  <2> QED BY <1>6, <2>1 DEF InHand
<1>11. Accounted(c, row, files', index, catalog'.hash)
  BY <1>2, <1>6, <1>8, <1>9, <1>10, StageFacts DEF Accounted
<1> QED BY <1>1, <1>6, <1>11, TidyBecomes

\* A look at the approval reconciles the catalog of a file that is named by its row.
\* Reconciling the catalog with a file makes no file known that was not.
LEMMA ReconciledKnown ==
  ASSUME IInv, NEW j, NEW s \in Slots, catalog.hash[s] = 0
  PROVE  Reconciled(j).hash[s] = 0
<1>1. catalog.hash \in [Slots -> Versions]
  BY DEF IInv, TypeOK
<1>2. CASE HasClean(j) /\ catalog.hash[j.clean] \notin {0, files.clean[j.clean]}
  <2> DEFINE hash == [catalog.hash EXCEPT ![j.clean] = files.clean[j.clean]]
  <2>1. Reconciled(j).hash = hash
    BY <1>2 DEF Reconciled, IInv, TypeOK
  <2>2. j.clean # s
    BY <1>2
  <2>3. hash[s] = 0
    BY <1>1, <2>2
  <2> QED BY <2>1, <2>3
<1>3. CASE ~(HasClean(j) /\ catalog.hash[j.clean] \notin {0, files.clean[j.clean]})
  BY <1>3 DEF Reconciled
<1> QED BY <1>2, <1>3

LEMMA UnapprovedTidy ==
  ASSUME IInv, NEW w \in Threads, Alone(w), Unapproved(w),
         Accounted(worker[w], row, files, index, catalog.hash)
  PROVE  Tidy(w)'
<1> DEFINE c == [worker[w] EXCEPT !.pc = "rewind"]
<1>1. worker[w].pc = "handle" /\ worker[w].job.stage \in Owners.clean
      /\ UNCHANGED <<row, files, index>>
  BY DEF Unapproved
<1>2. worker[w] \in Contexts /\ row.stage \in Owners.clean
  BY <1>1, Handles
<1>3. c.pc \in Empty /\ c.slot = worker[w].slot /\ Become(w, c)
  BY <1>2, Emptied DEF Contexts, Unapproved
<1>4. catalog' = Reconciled(worker[w].job)
  BY DEF Unapproved
<1>5. \A s \in Slots : catalog.hash[s] = 0 => catalog'.hash[s] = 0
  BY <1>4, ReconciledKnown
<1> HIDE DEF c
<1> QED BY <1>1, <1>2, <1>3, <1>5, TidyEmptied DEF HashesKnown

LEMMA IndexChunksTidy ==
  ASSUME IInv, NEW w \in Threads, Alone(w), IndexChunks(w),
         Accounted(worker[w], row, files, index, catalog.hash)
  PROVE  Tidy(w)'
<1>1. worker[w].pc = "handle" /\ worker[w].job.stage = "saved_clean"
      /\ UNCHANGED <<row, files>>
  BY DEF IndexChunks, Approved, Handling, At
<1>2. worker[w] \in Contexts /\ row.stage \in ActiveStages /\ row.stage = "saved_clean"
      /\ index \in IndexShapes
  BY <1>1, Handles
<1>3. IsEdge(row.stage, "indexed_chunks")
  BY <1>2 DEF IsEdge, NextStage
<1>4. catalog'.hash = catalog.hash
  BY DEF IndexChunks, Identified, IInv, TypeOK
<1>5. ASSUME Become(w, Serving(w, "indexed_chunks")), UNCHANGED index
      PROVE  Tidy(w)'
  <2> DEFINE c == Serving(w, "indexed_chunks")
  <2>1. c.pc = "advance" /\ c.to = "indexed_chunks" /\ c.slot = worker[w].slot /\ Become(w, c)
    BY <1>2, <1>5, LeftFields
  <2> HIDE DEF c
  <2> QED BY <1>1, <1>2, <1>3, <1>4, <1>5, <2>1, AdvanceTidy
<1>6. ASSUME Vectors, index' = [index EXCEPT !.rows = TRUE],
             Become(w, [worker[w] EXCEPT !.pc = "publish", !.origin = Origin(w),
                                         !.content = ContentOf(w)])
      PROVE  Tidy(w)'
  <2> DEFINE c == [worker[w] EXCEPT !.pc = "publish", !.origin = Origin(w), !.content = ContentOf(w)]
  <2>1. c.pc = "publish" /\ c.slot = worker[w].slot /\ Become(w, c)
    BY <1>2, <1>6 DEF Contexts
  <2>2. index'.rows /\ index'.vec = index.vec /\ index'.noteRow = index.noteRow
    BY <1>2, <1>6 DEF IndexShapes
  <2> HIDE DEF c
  <2>3. FilesNamed(worker[w], row, files, catalog.hash) /\ IndexNamed(worker[w], row, files, index)
        /\ InHand(worker[w], row, files, index)
    BY <1>1, <1>2, StageFacts DEF Accounted
  <2>4. FilesNamed(c, row, files, catalog.hash)
    BY <1>1, <2>1, <2>3 DEF FilesNamed, Landing
  <2>5. IndexNamed(c, row, files, index')
    BY <1>1, <2>1, <2>2, <2>3, <1>6 DEF IndexNamed, Landing
  <2>6. InHand(c, row, files, index')
    BY <1>1, <1>2, <1>6, <2>1, <2>2, <2>3 DEF InHand
  <2>7. Accounted(c, row, files, index', catalog.hash)
    BY <1>2, <2>1, <2>4, <2>5, <2>6, StageFacts DEF Accounted
  <2> QED BY <1>1, <1>4, <2>1, <2>7, TidyBecomes
<1> QED BY <1>5, <1>6 DEF IndexChunks

LEMMA PublishTidy ==
  ASSUME IInv, NEW w \in Threads, Alone(w), PublishChunks(w),
         Accounted(worker[w], row, files, index, catalog.hash)
  PROVE  Tidy(w)'
<1>1. worker[w].pc = "publish" /\ UNCHANGED <<row, files>>
  BY DEF PublishChunks, At
<1>2. worker[w] \in Contexts /\ row.stage \in ActiveStages /\ index \in IndexShapes
  BY <1>1, Handles
<1>3. FilesNamed(worker[w], row, files, catalog.hash) /\ IndexNamed(worker[w], row, files, index)
      /\ InHand(worker[w], row, files, index)
  BY <1>1, <1>2, StageFacts DEF Accounted
<1>4. row.stage = "saved_clean" /\ Vectors /\ index.rows
      /\ (index.vec = 0 \/ "vectors" \in files.stuck)
  BY <1>1, <1>2, <1>3 DEF InHand, IndexNamed, Owners, Landing, IndexShapes, Versions
<1>5. IsEdge(row.stage, "indexed_chunks")
  BY <1>4 DEF IsEdge, NextStage, ActiveStages
<1>6. catalog'.hash = catalog.hash
  BY DEF PublishChunks, Identified, IInv, TypeOK
<1>7. ASSUME Advance(w, "indexed_chunks"),
             \/ index' = [index EXCEPT !.vec = worker[w].content]
             \/ index' = [index EXCEPT !.rows = FALSE]
      PROVE  Tidy(w)'
  <2> DEFINE c == Advancing(w, "indexed_chunks")
  <2>1. c.pc = "advance" /\ c.to = "indexed_chunks" /\ c.slot = worker[w].slot /\ Become(w, c)
    BY <1>2, <1>7, LeftFields DEF Advance
  <2>2. index'.noteRow = index.noteRow
        /\ (index'.vec > 0 => Vectors /\ (index'.rows \/ "vectors" \in files.stuck))
    <3>1. CASE index' = [index EXCEPT !.vec = worker[w].content]
      BY <1>2, <1>4, <3>1 DEF IndexShapes
    <3>2. CASE index' = [index EXCEPT !.rows = FALSE]
      <4>1. index'.vec = index.vec /\ index'.noteRow = index.noteRow
        BY <1>2, <3>2 DEF IndexShapes
      <4>2. index.vec > 0 => index.vec # 0
        BY <1>2 DEF IndexShapes, Versions
      <4> QED BY <1>4, <4>1, <4>2
    <3> QED BY <1>7, <3>1, <3>2
  <2> HIDE DEF c
  <2> QED BY <1>1, <1>2, <1>5, <1>6, <2>1, <2>2, AdvanceTidy
<1> QED BY <1>1, <1>7, RaiseTidy DEF PublishChunks

\* Handlers that only advance to a later stage, or give up.
LEMMA ServeTidy ==
  ASSUME IInv, NEW w \in Threads, Alone(w), worker[w].pc = "handle",
         Accounted(worker[w], row, files, index, catalog.hash),
         NEW t, IsEdge(row.stage, t), t # "saved_clean", Become(w, Serving(w, t)),
         row' = row, catalog'.hash = catalog.hash,
         files'.clean = files.clean, files'.dirty = files.dirty, files'.stuck = files.stuck,
         \/ index' = index
         \/ t = "indexed_note" /\ Vectors /\ index'.vec = index.vec /\ index'.rows = index.rows
  PROVE  Tidy(w)'
<1> DEFINE c == Serving(w, t)
<1>1. worker[w] \in Contexts /\ row.stage \in ActiveStages
  BY Handles
<1>2. c.pc = "advance" /\ c.to = t /\ c.slot = worker[w].slot /\ Become(w, c)
  BY <1>1, LeftFields
<1> HIDE DEF c
<1> QED BY <1>1, <1>2, AdvanceTidy

LEMMA CompleteCaptureTidy ==
  ASSUME IInv, NEW w \in Threads, Alone(w), CompleteCapture(w),
         Accounted(worker[w], row, files, index, catalog.hash)
  PROVE  Tidy(w)'
<1>1. worker[w].pc = "handle" /\ worker[w].job.stage = "indexed_chunks"
      /\ UNCHANGED <<row, files, index>>
  BY DEF CompleteCapture, Approved, Handling, At
<1>2. row.stage = "indexed_chunks"
  BY <1>1, Handles
<1>3. catalog'.hash = catalog.hash
  BY DEF CompleteCapture, IInv, TypeOK
<1>4. IsEdge(row.stage, "completed")
  BY <1>2 DEF IsEdge, NextStage, ActiveStages
<1> QED BY <1>1, <1>3, <1>4, ServeTidy DEF CompleteCapture

LEMMA GenerateTidy ==
  ASSUME IInv, NEW w \in Threads, Alone(w), Generate(w),
         Accounted(worker[w], row, files, index, catalog.hash)
  PROVE  Tidy(w)'
<1>1. worker[w].pc = "handle" /\ worker[w].job.stage \in {"indexed_chunks", "generated_candidate"}
      /\ UNCHANGED <<row, files, index, catalog, fresh>>
  BY DEF Generate, Approved, Handling, At
<1>2. worker[w] \in Contexts /\ row.stage \in {"indexed_chunks", "generated_candidate"}
      /\ row.stage \in ActiveStages /\ worker[w].job = row
  BY <1>1, Handles
<1> DEFINE t == NextStage[worker[w].job.stage]
<1>3. IsEdge(row.stage, t) /\ t # "saved_clean"
  BY <1>2 DEF IsEdge, NextStage, ActiveStages
<1>4. ASSUME Become(w, [Serving(w, t) EXCEPT !.content = ContentOf(w)])
      PROVE  Tidy(w)'
  <2> DEFINE c == [Serving(w, t) EXCEPT !.content = ContentOf(w)]
  <2>1. c.pc = "advance" /\ c.to = t /\ c.slot = worker[w].slot /\ Become(w, c)
    BY <1>2, <1>4 DEF Serving, Advancing, Contexts
  <2> HIDE DEF c, t
  <2> QED BY <1>1, <1>2, <1>3, <2>1, AdvanceTidy
<1>5. ASSUME Become(w, Raised(w, "invalid_model_output"))
      PROVE  Tidy(w)'
  BY <1>1, <1>5, RaiseTidy DEF Raise
<1> QED BY <1>1, <1>4, <1>5, ParkTidy DEF Generate

LEMMA SaveNoteTidy ==
  ASSUME IInv, NEW w \in Threads, Alone(w), SaveNote(w),
         Accounted(worker[w], row, files, index, catalog.hash)
  PROVE  Tidy(w)'
<1>1. worker[w].pc = "handle" /\ worker[w].job.stage = "validated_candidate"
      /\ UNCHANGED <<row, index>>
  BY DEF SaveNote, Approved, Handling, At
<1>2. row.stage = "validated_candidate"
  BY <1>1, Handles
<1>3. catalog'.hash = catalog.hash /\ files'.clean = files.clean /\ files'.dirty = files.dirty
      /\ files'.stuck = files.stuck
  BY DEF SaveNote, IInv, TypeOK
<1>4. IsEdge(row.stage, "saved_note")
  BY <1>2 DEF IsEdge, NextStage, ActiveStages
<1>5. ASSUME Become(w, Raised(w, "processing_error"))
      PROVE  Tidy(w)'
  <2> DEFINE c == Raised(w, "processing_error")
  <2>1. c.pc \in Empty /\ c.slot = "none" /\ Become(w, c)
    BY <1>1, <1>5, Handles, LeftFields, Emptied
  <2> HIDE DEF c
  <2>2. Accounted(worker[w], row, files', index, catalog.hash)
    BY <1>3 DEF Accounted, Leftovers, FilesNamed, IndexNamed, InHand
  <2>3. Accounted(c, row', files', index', catalog'.hash)
    BY <1>1, <1>3, <2>1, <2>2, HandsEmptied
  <2> QED BY <2>1, <2>3, TidyBecomes
<1> QED BY <1>1, <1>3, <1>4, <1>5, ServeTidy DEF SaveNote

LEMMA IndexNoteTidy ==
  ASSUME IInv, NEW w \in Threads, Alone(w), IndexNote(w),
         Accounted(worker[w], row, files, index, catalog.hash)
  PROVE  Tidy(w)'
<1>1. worker[w].pc = "handle" /\ worker[w].job.stage = "saved_note"
      /\ UNCHANGED <<row, files, catalog>>
  BY DEF IndexNote, Approved, Handling, At
<1>2. row.stage = "saved_note" /\ index \in IndexShapes
  BY <1>1, Handles
<1>4. IsEdge(row.stage, "indexed_note")
  BY <1>2 DEF IsEdge, NextStage, ActiveStages
<1>5. index' = [index EXCEPT !.noteRow = TRUE] => index'.vec = index.vec /\ index'.rows = index.rows
  BY <1>2 DEF IndexShapes
<1> QED BY <1>1, <1>4, <1>5, ServeTidy, RaiseTidy DEF IndexNote

LEMMA CompleteTidy ==
  ASSUME IInv, NEW w \in Threads, Alone(w), Complete(w),
         Accounted(worker[w], row, files, index, catalog.hash)
  PROVE  Tidy(w)'
<1>1. worker[w].pc = "handle" /\ worker[w].job.stage = "indexed_note"
      /\ UNCHANGED <<row, files, index, catalog>>
  BY DEF Complete, Approved, Handling, At
<1>2. row.stage = "indexed_note"
  BY <1>1, Handles
<1>4. IsEdge(row.stage, "completed")
  BY <1>2 DEF IsEdge, NextStage, ActiveStages
<1> QED BY <1>1, <1>4, ServeTidy, RaiseTidy DEF Complete

LEMMA HandlerTidy ==
  ASSUME IInv, NEW w \in Threads, Alone(w), Handler(w),
         Accounted(worker[w], row, files, index, catalog.hash)
  PROVE  Tidy(w)'
BY HandlerFaultTidy, StabilizeTidy, CopyToDirtyTidy, ExtractTidy, SaveCleanTidy, RegisterTidy,
   UnapprovedTidy, IndexChunksTidy, PublishTidy, CompleteCaptureTidy, GenerateTidy, SaveNoteTidy,
   IndexNoteTidy, CompleteTidy DEF Handler

\* A thread that reads the row again and goes on empty-handed.
LEMMA ReloadTidy ==
  ASSUME IInv, NEW w \in Threads, Accounted(worker[w], row, files, index, catalog.hash),
         worker[w].pc \notin {"register", "advance", "commit", "settle"},
         NEW d, d.pc \in Empty, d.slot = worker[w].slot \/ d.slot = "none", d \in Contexts,
         Reload(w, d), row' = row, files' = files, index' = index,
         HashesKnown
  PROVE  Tidy(w)'
<1> DEFINE c == [d EXCEPT !.job = row]
<1>1. c.pc = d.pc /\ c.slot = d.slot /\ Become(w, c)
  BY DEF Reload, Contexts
<1> HIDE DEF c
<1> QED BY <1>1, TidyEmptied DEF HashesKnown

LEMMA ReloadAtTidy ==
  ASSUME IInv, NEW w \in Threads, Accounted(worker[w], row, files, index, catalog.hash),
         worker[w].pc \notin {"register", "advance", "commit", "settle"},
         NEW pc \in {"boundary", "handle", "quarantine", "loop"},
         Reload(w, [worker[w] EXCEPT !.pc = pc]), row' = row, files' = files, index' = index,
         catalog'.hash = catalog.hash
  PROVE  Tidy(w)'
<1> DEFINE d == [worker[w] EXCEPT !.pc = pc]
<1>1. worker[w] \in Contexts /\ pc \in Positions /\ pc \in Empty
  BY Emptied DEF IInv, TypeOK, Positions
<1>2. d \in Contexts
  BY <1>1, ContextFields
<1>3. d.pc = pc /\ d.slot = worker[w].slot /\ Reload(w, d)
  BY <1>1 DEF Contexts
<1> HIDE DEF d
<1> QED BY <1>1, <1>2, <1>3, ReloadTidy DEF HashesKnown

LEMMA CancellingTidy ==
  ASSUME IInv, NEW w \in Threads, Accounted(worker[w], row, files, index, catalog.hash),
         worker[w].pc \notin {"register", "advance", "commit", "settle"},
         Reload(w, Cancelling(w)) \/ Become(w, Cancelling(w)),
         row' = row, files' = files, index' = index, catalog'.hash = catalog.hash
  PROVE  Tidy(w)'
<1>1. worker[w] \in Contexts
  BY DEF IInv, TypeOK
<1> DEFINE d == Cancelling(w)
           c == [d EXCEPT !.job = row]
<1>2. d.pc \in Empty /\ d.slot = worker[w].slot /\ c.pc \in Empty /\ c.slot = worker[w].slot
  BY <1>1, Emptied DEF Cancelling, Contexts
<1>3. Become(w, d) \/ Become(w, c)
  BY DEF Reload
<1> HIDE DEF d, c
<1> QED BY <1>2, <1>3, TidyEmptied DEF HashesKnown

LEMMA ParkingTidy ==
  ASSUME IInv, NEW w \in Threads, Accounted(worker[w], row, files, index, catalog.hash),
         worker[w].pc \notin {"register", "advance", "commit", "settle"},
         NEW code, Reload(w, Parking(w, code)), row' = row, files' = files, index' = index,
         HashesKnown
  PROVE  Tidy(w)'
<1>1. worker[w] \in Contexts
  BY DEF IInv, TypeOK
<1> DEFINE c == [Parking(w, code) EXCEPT !.job = row]
<1>2. c.pc \in Empty /\ c.slot = worker[w].slot /\ Become(w, c)
  BY <1>1, Emptied DEF Parking, Contexts, Reload
<1> HIDE DEF c
<1> QED BY <1>2, TidyEmptied DEF HashesKnown

LEMMA LoopTidy ==
  ASSUME IInv, NEW w \in Threads, Loop(w),
         Accounted(worker[w], row, files, index, catalog.hash)
  PROVE  Tidy(w)'
<1>1. worker[w].pc = "loop" /\ UNCHANGED <<row, files, index>>
  BY DEF Loop, At
<1>2. row.stage = "saved_clean" => row.stage \in Owners.clean
  BY DEF Owners
<1>3. worker[w].pc \notin {"register", "advance", "commit", "settle"}
  BY <1>1
<1>4. CASE Rest(w) /\ UNCHANGED catalog
  <2>1. HashesKnown
    BY <1>4 DEF HashesKnown
  <2> QED BY <1>1, <1>3, <1>4, <2>1, TidyRests DEF Rest
<1>5. CASE Reload(w, Cancelling(w)) /\ UNCHANGED catalog
  <2>1. row' = row
    BY <1>1
  <2> QED BY <1>1, <1>3, <1>5, <2>1, CancellingTidy
<1>6. CASE row.stage = "saved_clean" /\ catalog' = Reconciled(row)
           /\ Reload(w, Parking(w, "awaiting_clean_approval"))
  <2>1. catalog \in [hash : [Slots -> Versions], ok : SUBSET Slots,
                      identity : {"none", "source", "clean", "note"}]
    BY DEF IInv, TypeOK
  <2>a. catalog.hash \in [Slots -> Versions]
    BY <2>1
  <2>2. \A s \in Slots : catalog.hash[s] = 0 => catalog'.hash[s] = 0
    BY <1>6, <2>1, <2>a DEF Reconciled
  <2>3. HashesKnown
    BY <1>2, <1>6, <2>2 DEF HashesKnown
  <2>4. row' = row
    BY <1>1
  <2> QED BY <1>1, <1>3, <1>6, <2>3, <2>4, ParkingTidy
<1>7. CASE Reload(w, [worker[w] EXCEPT !.pc = "boundary"]) /\ UNCHANGED catalog
  <2>1. row' = row /\ catalog'.hash = catalog.hash
    BY <1>1, <1>7
  <2> QED BY <1>1, <1>3, <1>7, <2>1, ReloadAtTidy
<1>8. CASE Reload(w, Parking(w, "resource_wait")) /\ UNCHANGED catalog
  <2>1. HashesKnown /\ row' = row
    BY <1>1, <1>8 DEF HashesKnown
  <2> QED BY <1>1, <1>3, <1>8, <2>1, ParkingTidy
<1> QED BY <1>4, <1>5, <1>6, <1>7, <1>8 DEF Loop

LEMMA BoundaryTidy ==
  ASSUME IInv, NEW w \in Threads, Boundary(w),
         Accounted(worker[w], row, files, index, catalog.hash)
  PROVE  Tidy(w)'
<1>1. worker[w].pc = "boundary" /\ UNCHANGED <<row, files, index, catalog>>
  BY DEF Boundary, At
<1> QED BY <1>1, TidyRests, CancellingTidy, ReloadAtTidy DEF Boundary, Rest, HashesKnown

LEMMA FailingTidy ==
  ASSUME IInv, NEW w \in Threads, Failing(w),
         Accounted(worker[w], row, files, index, catalog.hash)
  PROVE  Tidy(w)'
<1>1. worker[w].pc = "failing" /\ UNCHANGED <<row, files, index, catalog>>
  BY DEF Failing, At
<1> QED BY <1>1, TidyRests, CancellingTidy, ReloadAtTidy DEF Failing, Rest, HashesKnown

LEMMA WaitingArtifacts ==
  ASSUME row \in Rows, NEW reason
  PROVE  LET q == Waiting(reason) IN
         q.stage = row.stage /\ q.dirty = row.dirty /\ q.clean = row.clean /\ q.note = row.note
BY DEF Rows, Waiting

LEMMA ParkStepTidy ==
  ASSUME IInv, NEW w \in Threads, Park(w) \/ RefuseLlm(w),
         Accounted(worker[w], row, files, index, catalog.hash)
  PROVE  Tidy(w)'
<1>1. worker[w].pc \in {"park", "loop", "idle"} /\ UNCHANGED <<files, index, catalog>>
      /\ Become(w, Resting)
  BY DEF Park, RefuseLlm, At
<1>2. row' = row \/ \E reason : row' = Waiting(reason)
  BY DEF Park, RefuseLlm
<1>3. row'.stage = row.stage /\ row'.dirty = row.dirty /\ row'.clean = row.clean
      /\ row'.note = row.note
  BY <1>2, WaitingArtifacts DEF IInv, TypeOK
<1> QED BY <1>1, <1>3, TidyRests DEF HashesKnown

LEMMA PollParkedTidy ==
  ASSUME IInv, NEW w \in Threads, PollParked(w),
         Accounted(worker[w], row, files, index, catalog.hash)
  PROVE  Tidy(w)'
<1>1. worker[w].pc = "idle" /\ UNCHANGED <<row, files, index, worker>> /\ row.stage = "saved_clean"
  BY DEF PollParked, At, Parked
<1>2. row.stage \in Owners.clean /\ worker[w].pc \in Empty
  BY <1>1, Emptied DEF Owners
<1>3. \A s \in Slots : catalog.hash[s] = 0 => catalog'.hash[s] = 0
  BY ReconciledKnown DEF PollParked
<1>4. Accounted(worker[w], row, files, index, catalog'.hash)
  BY <1>1, <1>2, <1>3, HandsEmptied
<1> QED BY <1>1, <1>4 DEF Tidy

LEMMA ResumeTidy ==
  ASSUME IInv, NEW w \in Threads, Resume(w),
         Accounted(worker[w], row, files, index, catalog.hash)
  PROVE  Tidy(w)'
<1>1. worker[w].pc = "idle" /\ UNCHANGED <<files, index, catalog>> /\ row \in Rows
  BY DEF Resume, At, IInv, TypeOK
<1>2. ASSUME row' = [row EXCEPT !.status = "claimed", !.attempts = Bump(@)],
             Become(w, [Resting EXCEPT !.pc = "loop", !.job = row'])
      PROVE  Tidy(w)'
  <2> DEFINE c == [Resting EXCEPT !.pc = "loop", !.job = row']
  <2>1. c.pc \in Empty /\ c.slot = "none" /\ Become(w, c)
    BY <1>2, Emptied DEF Resting
  <2>2. row'.stage = row.stage /\ row'.dirty = row.dirty /\ row'.clean = row.clean
        /\ row'.note = row.note
    BY <1>1, <1>2 DEF Rows
  <2> HIDE DEF c
  <2> QED BY <1>1, <2>1, <2>2, TidyEmptied DEF HashesKnown
<1>3. ASSUME row' = row, Reload(w, [Resting EXCEPT !.pc = "loop"])
      PROVE  Tidy(w)'
  <2> DEFINE c == [[Resting EXCEPT !.pc = "loop"] EXCEPT !.job = row]
  <2>1. c.pc \in Empty /\ c.slot = "none" /\ Become(w, c)
    BY <1>3, Emptied DEF Resting, Reload
  <2> HIDE DEF c
  <2> QED BY <1>1, <1>3, <2>1, TidyEmptied DEF HashesKnown
<1> QED BY <1>1, <1>2, <1>3, CancellingTidy DEF Resume, Save

LEMMA RequestCancelTidy ==
  ASSUME IInv, NEW w \in Threads, RequestCancel(w),
         Accounted(worker[w], row, files, index, catalog.hash)
  PROVE  Tidy(w)'
<1>1. worker[w].pc = "idle" /\ UNCHANGED <<files, index, catalog>> /\ row \in Rows
  BY DEF RequestCancel, At, IInv, TypeOK
<1>2. row'.stage = row.stage /\ row'.dirty = row.dirty /\ row'.clean = row.clean
      /\ row'.note = row.note
  BY <1>1 DEF RequestCancel, Rows
<1>3. ASSUME Become(w, [Resting EXCEPT !.pc = "finalize", !.job = row'])
      PROVE  Tidy(w)'
  <2> DEFINE c == [Resting EXCEPT !.pc = "finalize", !.job = row']
  <2>1. c.pc \in Empty /\ c.slot = "none" /\ Become(w, c)
    BY <1>3, Emptied DEF Resting
  <2> HIDE DEF c
  <2> QED BY <1>1, <1>2, <2>1, TidyEmptied DEF HashesKnown
<1>4. ASSUME worker' = worker PROVE Tidy(w)'
  <2>1. Accounted(worker[w], row', files, index, catalog.hash)
    BY <1>1, <1>2, HandsEmptied, Emptied
  <2> QED BY <1>1, <1>4, <2>1 DEF Tidy
<1> QED BY <1>3, <1>4 DEF RequestCancel

LEMMA FinalizeTidy ==
  ASSUME IInv, NEW w \in Threads, FinalizePendingCancellation(w),
         Accounted(worker[w], row, files, index, catalog.hash)
  PROVE  Tidy(w)'
<1>1. worker[w].pc = "finalize" /\ UNCHANGED <<row, files, index, catalog>>
  BY DEF FinalizePendingCancellation, At
<1> QED BY <1>1, TidyRests, CancellingTidy DEF FinalizePendingCancellation, Rest, HashesKnown

LEMMA DeleteTidy ==
  ASSUME IInv, NEW w \in Threads, Alone(w), DeleteSource(w),
         Accounted(worker[w], row, files, index, catalog.hash)
  PROVE  Tidy(w)'
<1> DEFINE c == [worker[w] EXCEPT !.pc = "loop"]
<1>1. worker[w] \in Contexts /\ row' = row /\ row.stage = "completed"
  BY DEF DeleteSource, At, Alone, IInv, TypeOK
<1>2. c.pc = "loop" /\ Become(w, c)
  BY <1>1 DEF DeleteSource, Contexts
<1> HIDE DEF c
<1>3. Accounted(c, row', files', index', catalog'.hash)
  BY <1>1, <1>2 DEF Accounted, TerminalFailure, ActiveStages, NextStage
<1> QED BY <1>2, <1>3, TidyBecomes

LEMMA RewindTidy ==
  ASSUME IInv, NEW w \in Threads, Alone(w), RewindIndex(w),
         Accounted(worker[w], row, files, index, catalog.hash)
  PROVE  Tidy(w)'
<1>1. worker[w].pc = "rewind" /\ worker[w].pc \in Working /\ worker[w].pc # "idle"
      /\ UNCHANGED catalog
  BY DEF RewindIndex, At, Working, Positions
<1>2. /\ row.stage \in ActiveStages /\ worker[w] \in Contexts /\ row \in Rows
      /\ row.stage \in Owners.clean /\ index \in IndexShapes /\ files \in FileShapes
  BY <1>1, Known DEF Alone, IInv, TypeOK, IndexShapes, FileShapes
<1>f. FilesNamed(worker[w], row, files, catalog.hash) /\ IndexNamed(worker[w], row, files, index)
      /\ InHand(worker[w], row, files, index)
  BY <1>1, <1>2, StageFacts DEF Accounted
<1> DEFINE next == [row EXCEPT !.stage = "saved_clean", !.status = "pending",
                               !.code = "awaiting_clean_approval", !.note = FALSE]
<1>3. ASSUME row' = row, Reload(w, [worker[w] EXCEPT !.pc = "rewound", !.next = next]),
             NEW unopened \in BOOLEAN,
             index' = [rows |-> FALSE, noteRow |-> FALSE,
                       vec |-> IF index.rows /\ Vectors /\ ~unopened THEN 0 ELSE index.vec],
             files' = [files EXCEPT !.stuck = IF unopened THEN @ \union {"vectors"} ELSE @]
      PROVE  Tidy(w)'
  <2> DEFINE c == [[worker[w] EXCEPT !.pc = "rewound", !.next = next] EXCEPT !.job = row]
  <2>1. c.pc = "rewound" /\ c.next = next /\ c.slot = worker[w].slot /\ Become(w, c)
    BY <1>2, <1>3 DEF Reload, Contexts
  <2>2. next.dirty = row.dirty /\ next.clean = row.clean
    BY <1>2 DEF Rows
  <2>f. /\ files'.dirty = files.dirty /\ files'.clean = files.clean
        /\ files'.stuck = IF unopened THEN files.stuck \union {"vectors"} ELSE files.stuck
    BY <1>2, <1>3 DEF FileShapes
  <2>3. (index'.vec = 0 \/ "vectors" \in files'.stuck) /\ ~index'.noteRow
    <3>1. CASE unopened \/ "vectors" \in files.stuck
      BY <1>3, <2>f, <3>1
    <3>2. CASE ~unopened /\ "vectors" \notin files.stuck
      <4>1. index.vec > 0 => index.rows /\ Vectors
        BY <1>f, <3>2 DEF IndexNamed
      <4>2. index.vec = 0 \/ index.vec > 0
        BY <1>2 DEF IndexShapes, Versions
      <4> QED BY <1>3, <3>2, <4>1, <4>2
    <3> QED BY <3>1, <3>2
  <2>v. index'.vec > 0 => Vectors
    <3>1. index.vec > 0 => Vectors
      BY <1>f DEF IndexNamed
    <3> QED BY <1>3, <3>1
  <2> HIDE DEF c, next
  <2>4. FilesNamed(c, row, files', catalog.hash)
    BY <1>1, <1>2, <1>f, <2>1, <2>f DEF FilesNamed, Landing
  <2>5. IndexNamed(c, row, files', index')
    BY <1>f, <2>3, <2>v DEF IndexNamed
  <2>6. InHand(c, row, files', index')
    BY <1>1, <1>f, <2>1, <2>2, <2>3 DEF InHand
  <2>7. Accounted(c, row, files', index', catalog.hash)
    BY <1>2, <2>1, <2>4, <2>5, <2>6, StageFacts DEF Accounted
  <2> QED BY <1>1, <1>3, <2>1, <2>7, TidyBecomes
<1>4. ASSUME row'.stage = row.stage, row'.dirty = row.dirty, row'.clean = row.clean,
             row'.note = row.note, files' = files, index' \in {index, [index EXCEPT !.vec = 0]},
             NEW c, Become(w, c), c.pc = "loop", c.slot = worker[w].slot
      PROVE  Tidy(w)'
  <2>1. index'.rows = index.rows /\ index'.noteRow = index.noteRow
        /\ (index'.vec = index.vec \/ index'.vec = 0)
    BY <1>2, <1>4 DEF IndexShapes
  <2>2. FilesNamed(c, row', files, catalog.hash)
    BY <1>1, <1>4, <1>f DEF FilesNamed, Landing
  <2>3. IndexNamed(c, row', files, index')
    BY <1>1, <1>4, <1>f, <2>1 DEF IndexNamed, Landing
  <2>4. InHand(c, row', files, index')
    BY <1>1, <1>4, <1>f DEF InHand
  <2>5. Accounted(c, row', files', index', catalog'.hash)
    BY <1>1, <1>2, <1>4, <2>2, <2>3, <2>4, StageFacts DEF Accounted
  <2> QED BY <1>4, <2>5, TidyBecomes
<1>5. ASSUME row' = row, files' = files, index' \in {index, [index EXCEPT !.vec = 0]},
             Reload(w, [worker[w] EXCEPT !.pc = "loop"])
      PROVE  Tidy(w)'
  <2> DEFINE c == [[worker[w] EXCEPT !.pc = "loop"] EXCEPT !.job = row]
  <2>1. c.pc = "loop" /\ c.slot = worker[w].slot /\ Become(w, c)
    BY <1>2, <1>5 DEF Reload, Contexts
  <2> HIDE DEF c
  <2> QED BY <1>4, <1>5, <2>1
<1>6. ASSUME files' = files, index' \in {index, [index EXCEPT !.vec = 0]},
             Save(w, Waiting("awaiting_clean_approval")),
             Become(w, [worker[w] EXCEPT !.pc = "loop", !.job = row'])
      PROVE  Tidy(w)'
  <2> DEFINE c == [worker[w] EXCEPT !.pc = "loop", !.job = row']
  <2>1. c.pc = "loop" /\ c.slot = worker[w].slot /\ Become(w, c)
    BY <1>2, <1>6 DEF Contexts
  <2>2. row'.stage = row.stage /\ row'.dirty = row.dirty /\ row'.clean = row.clean
        /\ row'.note = row.note
    BY <1>2, <1>6, WaitingArtifacts DEF Save
  <2> HIDE DEF c
  <2> QED BY <1>4, <1>6, <2>1, <2>2
<1> QED BY <1>3, <1>5, <1>6 DEF RewindIndex

LEMMA QuarantineTidy ==
  ASSUME IInv, NEW w \in Threads, Alone(w), Quarantine(w),
         Accounted(worker[w], row, files, index, catalog.hash)
  PROVE  Tidy(w)'
<1>1. worker[w].pc = "quarantine" /\ worker[w].pc \in Working /\ worker[w].pc # "idle"
      /\ UNCHANGED <<row, index, catalog>>
  BY DEF Quarantine, At, Working, Positions
<1>2. /\ row.stage \in ActiveStages /\ worker[w] \in Contexts /\ row \in Rows
      /\ worker[w].job = row /\ files \in FileShapes
  BY <1>1, Known DEF IInv, TypeOK, FileShapes
<1>3. files'.dirty = files.dirty /\ files'.clean = files.clean /\ files'.stuck = files.stuck
  BY <1>2 DEF Quarantine, FileShapes
<1>4. Accounted(worker[w], row, files', index, catalog.hash)
  BY <1>3 DEF Accounted, Leftovers, FilesNamed, IndexNamed, InHand
<1>5. ASSUME NEW c, Become(w, c), c.pc \in Empty, c.slot = worker[w].slot \/ c.slot = "none"
      PROVE  Tidy(w)'
  <2>1. Accounted(c, row', files', index', catalog'.hash)
    BY <1>1, <1>4, <1>5, HandsEmptied
  <2> QED BY <1>5, <2>1, TidyBecomes
<1>6. ASSUME NEW code,
             Become(w, [worker[w] EXCEPT !.pc = "retry",
                          !.next = [worker[w].job EXCEPT !.status = "pending", !.code = code]])
      PROVE  Tidy(w)'
  <2> DEFINE next == [row EXCEPT !.status = "pending", !.code = code]
             c == [worker[w] EXCEPT !.pc = "retry", !.next = next]
  <2>1. c.pc = "retry" /\ c.next = next /\ c.slot = worker[w].slot /\ Become(w, c)
    BY <1>2, <1>6 DEF Contexts
  <2>2. next.dirty = row.dirty /\ next.clean = row.clean /\ next.note = row.note
    BY <1>2 DEF Rows
  <2> HIDE DEF c, next
  <2>3. FilesNamed(worker[w], row, files', catalog.hash) /\ IndexNamed(worker[w], row, files', index)
        /\ InHand(worker[w], row, files', index)
    BY <1>1, <1>2, <1>4, StageFacts DEF Accounted
  <2>4. FilesNamed(c, row, files', catalog.hash) /\ IndexNamed(c, row, files', index)
    BY <1>1, <2>1, <2>3 DEF FilesNamed, IndexNamed, Landing
  <2>5. InHand(c, row, files', index)
    BY <1>1, <2>1, <2>2, <2>3 DEF InHand
  <2>6. Accounted(c, row', files', index', catalog'.hash)
    BY <1>1, <1>2, <2>1, <2>4, <2>5, StageFacts DEF Accounted
  <2> QED BY <2>1, <2>6, TidyBecomes
<1>7. ASSUME NEW to, Become(w, [worker[w] EXCEPT !.pc = "compensate", !.to = to])
      PROVE  Tidy(w)'
  <2> DEFINE c == [worker[w] EXCEPT !.pc = "compensate", !.to = to]
  <2>1. c.pc \in Empty /\ c.slot = worker[w].slot /\ Become(w, c)
    BY <1>2, <1>7, Emptied DEF Contexts
  <2> HIDE DEF c
  <2> QED BY <1>5, <2>1
<1>8. Become(w, Resting) => Tidy(w)'
  <2>1. Resting.pc \in Empty /\ Resting.slot = "none"
    BY Emptied DEF Resting
  <2> HIDE DEF Resting
  <2> QED BY <1>5, <2>1
<1> QED BY <1>6, <1>7, <1>8 DEF Quarantine, Rest

\* What the compensation of the snapshot's stage leaves of what the job made is what it
\* failed to remove, and the row it is about to write names it.
LEMMA CompensateTidy ==
  ASSUME IInv, NEW w \in Threads, Alone(w), Compensate(w),
         Accounted(worker[w], row, files, index, catalog.hash)
  PROVE  Tidy(w)'
<1>1. worker[w].pc = "compensate" /\ worker[w].pc \in Working /\ worker[w].pc # "idle"
      /\ UNCHANGED <<row, catalog>>
  BY DEF Compensate, At, Working, Positions
<1>2. /\ row.stage \in ActiveStages /\ worker[w] \in Contexts /\ row \in Rows
      /\ worker[w].job = row /\ files \in FileShapes /\ index \in IndexShapes
      /\ worker[w].to \in TerminalFailure
  BY <1>1, Known DEF IInv, TypeOK, FileShapes, IndexShapes, Planned
<1>3. FilesNamed(worker[w], row, files, catalog.hash) /\ IndexNamed(worker[w], row, files, index)
      /\ InHand(worker[w], row, files, index)
  BY <1>1, <1>2, StageFacts DEF Accounted
<1> DEFINE plan == StageArtifacts(row.stage)
<1>4. row.stage # worker[w].to
  BY <1>2, StageFacts
<1>5. \A kind \in {"dirty", "clean", "chunk_index", "note_index", "note"} :
        kind \in plan <=> row.stage \in Owners[kind]
  BY DEF StageArtifacts, Owners
<1> DEFINE job == worker[w].job
           full == IF job.stage = worker[w].to THEN {} ELSE StageArtifacts(job.stage)
<1>m. full = plan /\ job = row
  BY <1>2, <1>4
<1>n. \E kept \in SUBSET (full \intersect {"dirty", "clean"}), left \in Invalidations(job, full) :
        LET gone == full \ (kept \union IF left[2] THEN {} ELSE {"note"}) IN
        /\ kept # {} => "discard_error" \in Faults
        /\ files' = [files EXCEPT
             !.dirty = @ /\ ~("dirty" \in gone /\ job.dirty),
             !.clean = [s \in Slots |-> IF "clean" \in gone /\ job.clean = s THEN 0 ELSE @[s]],
             !.stuck = @ \union kept \union (IF left[2] THEN {} ELSE {"index"})
                       \union (IF left[2] /\ left[1].vec > 0 THEN {"vectors"} ELSE {})]
        /\ index' = left[1]
        /\ Become(w, [worker[w] EXCEPT !.pc = "settle", !.to = "none",
                          !.next = EndedRow(job, worker[w].to, worker[w].code, gone)])
  BY DEF Compensate
<1> HIDE DEF plan, job, full
<1>6. PICK kept \in SUBSET (full \intersect {"dirty", "clean"}), left \in Invalidations(job, full) :
        LET gone == full \ (kept \union IF left[2] THEN {} ELSE {"note"}) IN
        /\ kept # {} => "discard_error" \in Faults
        /\ files' = [files EXCEPT
             !.dirty = @ /\ ~("dirty" \in gone /\ job.dirty),
             !.clean = [s \in Slots |-> IF "clean" \in gone /\ job.clean = s THEN 0 ELSE @[s]],
             !.stuck = @ \union kept \union (IF left[2] THEN {} ELSE {"index"})
                       \union (IF left[2] /\ left[1].vec > 0 THEN {"vectors"} ELSE {})]
        /\ index' = left[1]
        /\ Become(w, [worker[w] EXCEPT !.pc = "settle", !.to = "none",
                          !.next = EndedRow(job, worker[w].to, worker[w].code, gone)])
  BY <1>n
<1> DEFINE gone == full \ (kept \union IF left[2] THEN {} ELSE {"note"})
           next == EndedRow(job, worker[w].to, worker[w].code, gone)
           c == [worker[w] EXCEPT !.pc = "settle", !.to = "none", !.next = next]
<1>7. /\ next.dirty = (row.dirty /\ "dirty" \notin gone)
      /\ next.clean = IF "clean" \in gone THEN "none" ELSE row.clean
      /\ next.note = (row.note /\ "note" \notin gone)
  BY <1>m, <1>2, <1>4 DEF EndedRow, Cleared, Rows
<1>8. c.pc = "settle" /\ c.next = next /\ Become(w, c)
  BY <1>m, <1>2, <1>6 DEF Contexts
<1>9. /\ files'.dirty = (files.dirty /\ ~("dirty" \in gone /\ row.dirty))
      /\ \A s \in Slots : files'.clean[s] =
           IF "clean" \in gone /\ row.clean = s THEN 0 ELSE files.clean[s]
      /\ files'.stuck = (files.stuck \union kept \union (IF left[2] THEN {} ELSE {"index"})
                          \union (IF left[2] /\ left[1].vec > 0 THEN {"vectors"} ELSE {}))
  BY <1>m, <1>2, <1>6 DEF FileShapes
<1>a. /\ "dirty" \in gone <=> row.stage \in Owners.dirty /\ "dirty" \notin kept
      /\ "clean" \in gone <=> row.stage \in Owners.clean /\ "clean" \notin kept
      /\ ~left[2] => "note" \notin gone
  BY <1>m, <1>5
<1>b. index' = left[1]
  BY <1>6
<1> HIDE DEF c, next, gone
<1>c. files'.dirty => "dirty" \in files'.stuck /\ next.dirty
  <2>1. files.dirty => row.dirty /\ row.stage \in Owners.dirty
    BY <1>1, <1>3 DEF FilesNamed, Landing
  <2> QED BY <1>7, <1>9, <1>a, <2>1
<1>d. \A s \in Slots : files'.clean[s] > 0 =>
        ("clean" \in files'.stuck /\ next.clean = s) \/ catalog.hash[s] = 0
  <2> SUFFICES ASSUME NEW s \in Slots, files'.clean[s] > 0, catalog.hash[s] # 0
               PROVE  "clean" \in files'.stuck /\ next.clean = s
    OBVIOUS
  <2>1. files.clean[s] > 0 /\ ~("clean" \in gone /\ row.clean = s)
    BY <1>9
  <2>2. s = row.clean /\ row.stage \in Owners.clean
    BY <1>1, <1>3, <2>1 DEF FilesNamed, Slots
  <2> QED BY <1>7, <1>9, <1>a, <2>1, <2>2
<1>e. /\ left[2] \in BOOLEAN
      /\ left[1].vec > 0 => index.vec > 0
      /\ left[1].noteRow => index.noteRow
      /\ Vectors /\ row.note /\ "chunk_index" \in plan /\ "note_index" \in plan /\ left[2] =>
           ~left[1].noteRow
  BY <1>m, <1>2, InvalidationLeaves DEF IndexShapes
<1>f. index'.noteRow => "index" \in files'.stuck /\ next.note
  <2>1. index.noteRow => Vectors /\ row.note /\ row.stage \in Owners.note_index
                          /\ row.stage \in Owners.chunk_index
    BY <1>1, <1>3, StageFacts DEF IndexNamed, Landing
  <2> QED BY <1>5, <1>7, <1>9, <1>a, <1>b, <1>e, <2>1
<1>g. index'.vec > 0 => "vectors" \in files'.stuck \/ ("index" \in files'.stuck /\ next.note)
  <2>1. CASE left[2]
    BY <1>9, <1>b, <2>1
  <2>2. CASE ~left[2]
    <3>1. index'.vec > 0 => "vectors" \in files.stuck \/ row.note
      BY <1>1, <1>3, <1>b, <1>e DEF IndexNamed, Landing
    <3> QED BY <1>7, <1>9, <1>a, <2>2, <3>1
  <2> QED BY <1>e, <2>1, <2>2
<1>h. Leftovers(next, files', index', catalog.hash)
  BY <1>c, <1>d, <1>f, <1>g DEF Leftovers
<1>i. Accounted(c, row', files', index', catalog'.hash)
  BY <1>1, <1>2, <1>8, <1>h, StageFacts DEF Accounted
<1> QED BY <1>8, <1>i, TidyBecomes

LEMMA InterruptedTidy ==
  ASSUME IInv, NEW w \in Threads, Interrupted
  PROVE  Tidy(w)'
BY DEF Interrupted, Tidy, IInv, TypeOK

LEMMA SettleTidy ==
  ASSUME IInv, NEW w \in Threads, Alone(w), Settle(w),
         Accounted(worker[w], row, files, index, catalog.hash)
  PROVE  Tidy(w)'
<1>1. worker[w].pc \in {"settle", "retry"} /\ UNCHANGED <<files, index, catalog>>
      /\ worker[w].pc # "idle" /\ worker[w].pc \in Working
  BY DEF Settle, Working, Positions
<1>2. Matches(w) /\ row.stage \in ActiveStages
  BY <1>1, Known DEF Matches
<1>r. Resting.pc \in Empty /\ Resting.slot = "none"
  BY Emptied DEF Resting
<1>3. (row' = worker[w].next \/ row' = row) /\ Become(w, Resting)
  BY <1>2 DEF Settle, Rest
<1> HIDE DEF Resting
<1>4. CASE worker[w].pc = "retry"
  <2>1. row'.stage = row.stage /\ row'.dirty = row.dirty /\ row'.clean = row.clean
        /\ row'.note = row.note
    BY <1>2, <1>3, <1>4, StageFacts DEF Alone, Accounted, InHand
  <2> QED BY <1>1, <1>3, <1>4, <1>r, <2>1, TidyEmptied DEF HashesKnown
<1>5. CASE worker[w].pc = "settle" /\ row' = worker[w].next
  <2>1. row'.stage \in TerminalFailure
    BY <1>5 DEF Alone
  <2>2. Accounted(Resting, row', files', index', catalog'.hash)
    BY <1>1, <1>2, <1>5, <2>1, StageFacts DEF Accounted
  <2> QED BY <1>3, <2>2, TidyBecomes
<1>6. row' = worker[w].next \/ Interrupted
  BY <1>2 DEF Settle
<1> QED BY <1>1, <1>4, <1>5, <1>6, InterruptedTidy

LEMMA AdvanceReadTidy ==
  ASSUME IInv, NEW w \in Threads, Alone(w), AdvanceRead(w),
         Accounted(worker[w], row, files, index, catalog.hash)
  PROVE  Tidy(w)'
<1> DEFINE to == worker[w].to
           slot == worker[w].slot
           done == [worker[w] EXCEPT !.to = "none", !.slot = "none"]
           next == AdvancedRow(row, to, slot)
           c == [[done EXCEPT !.pc = "commit", !.next = next] EXCEPT !.job = row]
<1>1. worker[w].pc = "advance" /\ worker[w].pc \in Working /\ worker[w].pc # "idle"
      /\ UNCHANGED <<row, files, index, catalog>>
  BY DEF AdvanceRead, At, Working, Positions
<1>2. row.stage \in ActiveStages /\ worker[w] \in Contexts /\ row \in Rows
  BY <1>1, Known
<1>3. FilesNamed(worker[w], row, files, catalog.hash) /\ IndexNamed(worker[w], row, files, index)
      /\ InHand(worker[w], row, files, index)
  BY <1>1, <1>2, StageFacts DEF Accounted
<1>4. IsEdge(row.stage, to) /\ (to = "saved_clean" => slot # "none")
      /\ (slot # "none" => to = "saved_clean")
  BY <1>1, <1>3 DEF InHand
<1>5. row.stage # to
  BY <1>2, <1>4 DEF IsEdge, TerminalFailure, ActiveStages, NextStage
<1>6. Reload(w, [done EXCEPT !.pc = "commit", !.next = next])
  BY <1>4, <1>5 DEF AdvanceRead
<1>7. c.pc = "commit" /\ c.next = next /\ c.slot = "none" /\ Become(w, c)
  BY <1>2, <1>6 DEF Reload, Contexts
<1>8. /\ next.stage = to
      /\ next.dirty = (row.dirty \/ to = "copied_dirty")
      /\ next.clean = (IF slot # "none" THEN slot ELSE row.clean)
      /\ next.note = (row.note \/ to \in {"indexed_chunks", "saved_note"}
                               \/ (to = "completed" /\ ~LegacyAuto))
  BY <1>2 DEF AdvancedRow, Rows
<1> HIDE DEF c, next, done, to, slot
<1>9. FilesNamed(c, row, files, catalog.hash)
  <2>1. \A s \in Slots :
          files.clean[s] > 0 => s = row.clean \/ s = next.clean \/ catalog.hash[s] = 0
    <3> SUFFICES ASSUME NEW s \in Slots, files.clean[s] > 0, catalog.hash[s] # 0
                 PROVE  s = row.clean \/ s = next.clean
      OBVIOUS
    <3>1. s = row.clean \/ s = slot
      BY <1>1, <1>3 DEF FilesNamed, slot
    <3> QED BY <1>8, <3>1 DEF Slots
  <2>2. files.dirty => row.dirty \/ to = "copied_dirty"
    BY <1>1, <1>3 DEF FilesNamed, Landing, to
  <2>3. row.stage \notin Owners.clean /\ to # "saved_clean" => \A s \in Slots : catalog.hash[s] = 0
    BY <1>1, <1>3 DEF FilesNamed, Landing, to
  <2> QED BY <1>3, <1>7, <1>8, <2>1, <2>2, <2>3 DEF FilesNamed, Landing
<1>10. IndexNamed(c, row, files, index)
  BY <1>1, <1>3, <1>7, <1>8 DEF IndexNamed, Landing, to
<1>11. InHand(c, row, files, index)
  BY <1>4, <1>7, <1>8 DEF InHand
<1>12. Accounted(c, row', files', index', catalog'.hash)
  BY <1>1, <1>2, <1>7, <1>9, <1>10, <1>11, StageFacts DEF Accounted
<1> QED BY <1>7, <1>12, TidyBecomes

\* What had no name has one when the row is written.
LEMMA CommitTidy ==
  ASSUME IInv, NEW w \in Threads, Alone(w), Commit(w),
         Accounted(worker[w], row, files, index, catalog.hash)
  PROVE  Tidy(w)'
<1> DEFINE next == worker[w].next
           gone == [worker[w] EXCEPT !.next = NewRow]
           c == [gone EXCEPT !.job = next,
                   !.pc = IF next.stage = "completed" /\ LegacyAuto THEN "delete" ELSE "loop"]
<1>1. worker[w].pc \in {"commit", "rewound"} /\ worker[w].pc \in Working /\ worker[w].pc # "idle"
      /\ UNCHANGED <<files, index, catalog>>
  BY DEF Commit, Working, Positions
<1>2. /\ Matches(w) /\ row.stage \in ActiveStages /\ worker[w] \in Contexts /\ row \in Rows
      /\ worker[w].job = row
  BY <1>1, Known DEF Matches
<1>3. FilesNamed(worker[w], row, files, catalog.hash) /\ IndexNamed(worker[w], row, files, index)
      /\ InHand(worker[w], row, files, index)
  BY <1>1, <1>2, StageFacts DEF Accounted
<1>4. Interrupted \/ (row' = next /\ Become(w, c))
  BY <1>2 DEF Commit, Save
<1>5. gone \in Contexts
  BY <1>2, RestingTyped, ContextFields
<1>6. c.pc \in {"delete", "loop"} /\ c.slot = worker[w].slot
  BY <1>5 DEF Contexts
<1> HIDE DEF c, gone, next
<1>7. ASSUME worker[w].pc = "rewound", row' = next, Become(w, c)
      PROVE  Tidy(w)'
  <2>1. next.stage = "saved_clean" /\ next.dirty = row.dirty /\ next.clean = row.clean
        /\ (index.vec = 0 \/ "vectors" \in files.stuck) /\ ~index.noteRow
        /\ row.stage \in Owners.clean /\ worker[w].slot = "none"
        /\ (index.vec > 0 => Vectors)
    BY <1>3, <1>7 DEF IInv, Planned, InHand, IndexNamed, Alone, next
  <2>2. FilesNamed(c, next, files, catalog.hash)
    BY <1>3, <1>7, <2>1, StageFacts DEF FilesNamed, Landing, Owners
  <2>3. IndexNamed(c, next, files, index)
    BY <2>1 DEF IndexNamed, Owners
  <2>4. InHand(c, next, files, index)
    BY <1>6, <2>1 DEF InHand
  <2>5. Accounted(c, row', files', index', catalog'.hash)
    BY <1>1, <1>6, <1>7, <2>1, <2>2, <2>3, <2>4 DEF Accounted, TerminalFailure
  <2> QED BY <1>7, <2>5, TidyBecomes
<1>8. ASSUME worker[w].pc = "commit", row' = next, Become(w, c)
      PROVE  Tidy(w)'
  <2>1. /\ IsEdge(row.stage, next.stage) /\ next.stage \notin TerminalFailure
        /\ next.dirty = (row.dirty \/ next.stage = "copied_dirty")
        /\ next.stage # "saved_clean" => next.clean = row.clean
        /\ next.note = (row.note \/ next.stage \in {"indexed_chunks", "saved_note"}
                                 \/ (next.stage = "completed" /\ ~LegacyAuto))
        /\ worker[w].slot = "none"
    BY <1>2, <1>3, <1>8 DEF IInv, Planned, InHand, Alone, next
  <2>2. CASE next.stage \notin ActiveStages
    BY <1>1, <1>6, <1>8, <2>1, <2>2, TidyBecomes DEF Accounted
  <2>3. CASE next.stage \in ActiveStages
    <3>0. next.stage = NextStage[row.stage]
      BY <2>1, <2>3, StageFacts DEF IsEdge, ActiveStages, NextStage
    <3>1. /\ row.stage \in Owners.dirty => next.stage \in Owners.dirty
          /\ row.stage \in Owners.clean => next.stage \in Owners.clean
          /\ row.stage \in Owners.chunk_index => next.stage \in Owners.chunk_index
          /\ row.stage \in Owners.note_index => next.stage \in Owners.note_index
      BY <2>3, <3>0, <1>2 DEF Owners, NextStage, ActiveStages
    <3>2. next.stage \in Owners.chunk_index =>
            row.stage \in Owners.chunk_index \/ next.stage = "indexed_chunks"
      BY <2>3, <3>0, <1>2 DEF Owners, NextStage, ActiveStages
    <3>3. next.stage \in Owners.clean => row.stage \in Owners.clean \/ next.stage = "saved_clean"
      BY <2>3, <3>0, <1>2 DEF Owners, NextStage, ActiveStages
    <3>4. FilesNamed(c, next, files, catalog.hash)
      <4>1. next.dirty => next.stage \in Owners.dirty
        BY <1>3, <2>1, <3>1 DEF FilesNamed, Owners
      <4>2. files.dirty => next.dirty
        BY <1>3, <1>8, <2>1 DEF FilesNamed, Landing, next
      <4>3. next.clean # "none" => next.stage \in Owners.clean
        BY <1>3, <2>1, <3>1 DEF FilesNamed, Owners
      <4>4. \A s \in Slots : files.clean[s] > 0 => s = next.clean \/ catalog.hash[s] = 0
        <5> SUFFICES ASSUME NEW s \in Slots, files.clean[s] > 0, catalog.hash[s] # 0
                     PROVE  s = next.clean
          OBVIOUS
        <5>1. s = row.clean \/ s = next.clean
          BY <1>3, <1>8 DEF FilesNamed, next
        <5>2. CASE next.stage = "saved_clean"
          <6>1. row.stage = "extracted"
            BY <3>0, <5>2, <1>2 DEF NextStage, ActiveStages
          <6>2. row.clean = "none"
            BY <1>3, <6>1 DEF FilesNamed, Owners
          <6> QED BY <5>1, <6>2 DEF Slots
        <5> QED BY <2>1, <5>1, <5>2
      <4>5. next.stage \notin Owners.clean => \A s \in Slots : catalog.hash[s] = 0
        <5>1. next.stage \notin Owners.clean => next.stage # "saved_clean"
          BY DEF Owners
        <5> QED BY <1>3, <1>8, <3>1, <5>1 DEF FilesNamed, Landing, next
      <4> QED BY <4>1, <4>2, <4>3, <4>4, <4>5 DEF FilesNamed
    <3>5. IndexNamed(c, next, files, index)
      <4>1. "indexed_chunks" \in Owners.chunk_index /\ "indexed_note" \in Owners.note_index
        BY DEF Owners
      <4> QED BY <1>3, <1>8, <2>1, <3>1, <3>2, <4>1 DEF IndexNamed, Landing, next
    <3>6. InHand(c, next, files, index)
      BY <1>6, <2>1 DEF InHand
    <3>7. Accounted(c, row', files', index', catalog'.hash)
      BY <1>1, <1>6, <1>8, <2>1, <3>4, <3>5, <3>6 DEF Accounted
    <3> QED BY <1>8, <3>7, TidyBecomes
  <2> QED BY <2>2, <2>3
<1> QED BY <1>1, <1>4, <1>7, <1>8, InterruptedTidy

-----------------------------------------------------------------------------

\* People keep a file a file, and give a hash only to what has one.
LEMMA HumanTidy ==
  ASSUME IInv, NEW w \in Threads, Tidy(w), Human
  PROVE  Tidy(w)'
<1>0. UNCHANGED <<row, index, worker, interruptions>>
  BY DEF Human, ApproveTransition, ApproveClean, EditClean
<1>t. files \in FileShapes /\ catalog.hash \in [Slots -> Versions]
  BY DEF IInv, TypeOK, FileShapes
<1>1. /\ files'.dirty = files.dirty /\ files'.stuck = files.stuck
      /\ \A s \in Slots : files'.clean[s] = files.clean[s] \/ (files.clean[s] > 0 /\ files'.clean[s] > 0)
      /\ \A s \in Slots : catalog'.hash[s] = catalog.hash[s] \/ catalog.hash[s] > 0
  <2>1. CASE ApproveTransition
    BY <2>1 DEF ApproveTransition
  <2>2. ASSUME NEW s \in Slots, ApproveClean(s)
        PROVE  files' = files /\ catalog'.hash = catalog.hash
    BY <2>2 DEF ApproveClean, IInv, TypeOK
  <2>3. ASSUME NEW s \in Slots, EditClean(s)
        PROVE  <1>1
    <3>1. /\ files' = [files EXCEPT !.clean[s] = @ + 1]
          /\ files.clean[s] \in 1 .. MaxVersion - 1
      BY <2>3 DEF EditClean
    <3>2. /\ files'.dirty = files.dirty /\ files'.stuck = files.stuck
          /\ files'.clean[s] = files.clean[s] + 1
          /\ \A x \in Slots \ {s} : files'.clean[x] = files.clean[x]
      BY <1>t, <3>1 DEF FileShapes
    <3>3. files.clean[s] > 0 /\ files'.clean[s] > 0
      BY <3>1, <3>2, PipelineAssumption
    <3>4. CASE catalog' = catalog
      BY <3>2, <3>3, <3>4
    <3>5. CASE catalog.hash[s] = files.clean[s]
               /\ catalog' = [catalog EXCEPT !.hash[s] = files'.clean[s], !.ok = @ \ {s}]
      <4>1. \A x \in Slots \ {s} : catalog'.hash[x] = catalog.hash[x]
        BY <3>5 DEF IInv, TypeOK
      <4> QED BY <3>2, <3>3, <3>5, <4>1
    <3> QED BY <2>3, <3>4, <3>5 DEF EditClean
  <2> QED BY <2>1, <2>2, <2>3 DEF Human
<1> SUFFICES ASSUME interruptions = 0 PROVE Accounted(worker[w], row, files', index, catalog'.hash)
  BY <1>0 DEF Tidy
<1>2. Accounted(worker[w], row, files, index, catalog.hash)
  BY DEF Tidy
<1>z. \A s \in Slots : catalog.hash[s] = 0 => catalog'.hash[s] = 0
  BY <1>1
<1>3. CASE row.stage \in TerminalFailure \/ worker[w].pc = "settle"
  <2>1. \A r : Leftovers(r, files, index, catalog.hash)
                 => Leftovers(r, files', index, catalog'.hash)
    BY <1>1, <1>z DEF Leftovers
  <2> QED BY <1>2, <1>3, <2>1 DEF Accounted
<1>4. CASE row.stage \notin TerminalFailure /\ worker[w].pc # "settle" /\ row.stage \in ActiveStages
  <2>1. FilesNamed(worker[w], row, files, catalog.hash) /\ IndexNamed(worker[w], row, files, index)
        /\ InHand(worker[w], row, files, index)
    BY <1>2, <1>4 DEF Accounted
  <2>2. FilesNamed(worker[w], row, files', catalog'.hash)
    BY <1>1, <1>z, <2>1 DEF FilesNamed
  <2>3. InHand(worker[w], row, files', index)
    BY <1>1, <2>1 DEF InHand
  <2>4. IndexNamed(worker[w], row, files', index)
    BY <1>1, <2>1 DEF IndexNamed
  <2> QED BY <1>4, <2>2, <2>3, <2>4 DEF Accounted
<1> QED BY <1>3, <1>4 DEF Accounted

LEMMA StepTidy ==
  ASSUME IInv, OneThread, \A w \in Threads : Alone(w) /\ Tidy(w), [Next]_vars
  PROVE  \A w \in Threads : Tidy(w)'
<1> SUFFICES ASSUME NEW w \in Threads PROVE Tidy(w)'
  OBVIOUS
<1>1. CASE interruptions # 0
  <2>1. interruptions' # 0
    <3>1. interruptions \in Nat /\ interruptions > 0
      BY <1>1 DEF IInv, TypeOK
    <3>2. ASSUME NEW v \in Threads, Handler(v) PROVE interruptions' = interruptions
      BY <3>2 DEF Handler, HandlerFault, Stabilize, CopyToDirty, Extract, SaveClean,
         RegisterCanonical, Unapproved, IndexChunks, PublishChunks, CompleteCapture, Generate,
         SaveNote, IndexNote, Complete
    <3>3. ASSUME NEW v \in Threads, Thread(v)
          PROVE  interruptions' = interruptions \/ Interrupted
      BY <3>2, <3>3 DEF Thread, Running, RefuseLlm, Resume, PollParked, RequestCancel, Loop,
         Boundary, Park, AdvanceRead, Commit, RewindIndex, DeleteSource, Failing, Quarantine,
         Compensate, Settle, FinalizePendingCancellation
    <3>4. interruptions' = interruptions \/ Interrupted
      BY <3>3 DEF Next, Human, ApproveTransition, ApproveClean, EditClean, Crash, vars
    <3> QED BY <3>1, <3>4 DEF Interrupted
  <2> QED BY <2>1 DEF Tidy
<1>2. CASE interruptions = 0
  <2>1. Accounted(worker[w], row, files, index, catalog.hash)
    BY <1>2 DEF Tidy
  <2>2. CASE Running(w)
    BY <2>1, <2>2, HandlerTidy, LoopTidy, BoundaryTidy, ParkStepTidy, AdvanceReadTidy, CommitTidy,
       RewindTidy, DeleteTidy, FailingTidy, QuarantineTidy, CompensateTidy, SettleTidy,
       FinalizeTidy DEF Running
  <2>3. CASE Thread(w)
    BY <2>1, <2>2, <2>3, ParkStepTidy, ResumeTidy, RequestCancelTidy, PollParkedTidy DEF Thread
  <2>4. CASE Human
    BY <2>4, HumanTidy
  <2>5. CASE Crash
    BY <2>5, InterruptedTidy DEF Crash
  <2>6. CASE UNCHANGED vars
    BY <2>6 DEF vars, Tidy
  <2> QED BY <2>3, <2>4, <2>5, <2>6 DEF Next, OneThread
<1> QED BY <1>1, <1>2

EveryoneAlone == \A w \in Threads : Alone(w)

EveryoneTidy == \A w \in Threads : Tidy(w)

\* A thread nobody races is always alone.
LEMMA AlwaysAlone ==
  ASSUME OneThread
  PROVE  Spec => []EveryoneAlone
<1>1. Init => EveryoneAlone
  BY DEF Init, NewRow, Resting, Alone, Working, EveryoneAlone
<1>2. IInv /\ EveryoneAlone /\ [Next]_vars => EveryoneAlone'
  BY StepAlone DEF EveryoneAlone
<1> QED BY <1>1, <1>2, Inductive, PTL DEF Spec

(* While one thread at a time runs the job, and as long as neither a restart nor a
   refused write has come between a file and its row, what a job that ended without
   completing left behind is what a clean-up failed to remove, and its row names it:
   the copy, the captured Markdown, the document of what a search finds -- whatever
   failed, at whatever stage, clean-ups included, and whoever edited meanwhile. *)
THEOREM NothingIsLeftUnnamed ==
  ASSUME OneThread, Threads # {}
  PROVE  Spec => []LeftoversAreNamed
<1>1. Init => EveryoneTidy
  <2> SUFFICES ASSUME Init, NEW w \in Threads PROVE Tidy(w)
    BY DEF EveryoneTidy
  <2>1. row.stage = "discovered" /\ ~row.dirty /\ row.clean = "none" /\ worker[w].pc = "idle"
        /\ worker[w].slot = "none"
    BY DEF Init, NewRow, Resting
  <2>2. ~files.dirty /\ (\A s \in Slots : files.clean[s] = 0 /\ catalog.hash[s] = 0)
        /\ index.vec = 0 /\ ~index.noteRow
    BY DEF Init
  <2>3. FilesNamed(worker[w], row, files, catalog.hash)
    BY <2>1, <2>2 DEF FilesNamed
  <2>4. IndexNamed(worker[w], row, files, index)
    BY <2>1, <2>2 DEF IndexNamed, Owners
  <2>5. InHand(worker[w], row, files, index)
    BY <2>1, <2>2 DEF InHand
  <2> QED BY <2>1, <2>3, <2>4, <2>5 DEF Tidy, Accounted, TerminalFailure
<1>2. IInv /\ EveryoneAlone /\ EveryoneTidy /\ [Next]_vars => EveryoneTidy'
  BY StepTidy DEF EveryoneAlone, EveryoneTidy
<1>3. EveryoneTidy => LeftoversAreNamed
  BY DEF EveryoneTidy, Tidy, Accounted, Leftovers, LeftoversAreNamed
<1> QED BY <1>1, <1>2, <1>3, AlwaysAlone, Inductive, PTL DEF Spec

-----------------------------------------------------------------------------
(* A completed job has its output                                            *)

\* No second thread runs the job; any number of threads may ask to cancel it.
OneWorker == \A u, v \in Workers : u = v

Output(r, f, k) ==
  IF LegacyAuto THEN k.identity = "note" /\ f.note > 0
  ELSE r.clean # "none" /\ f.clean[r.clean] > 0 /\ k.identity = "clean"

\* The stages only a generated note goes through.
LateStages == {"generated_candidate", "validated_candidate", "saved_note", "indexed_note"}

\* Where a thread may hold the name of a file that no row records.
Holding == {"register", "failing", "quarantine", "retry", "compensate", "settle"}

Delivered(c, r, f, k) ==
  /\ c.slot # "none" => c.pc \in Holding \/ (c.pc = "advance" /\ c.to = "saved_clean")
  /\ ~LegacyAuto => \A s \in LateStages : r.stage # s /\ ~Landing(c, s)
  /\ r.stage = "completed" => Output(r, f, k)
  /\ c.pc = "advance" /\ c.to = "completed" => Output(r, f, k)
  /\ c.pc = "commit" /\ c.next.stage = "completed" => Output(c.next, f, k)

Delivers(w) == Delivered(worker[w], row, files, catalog)

\* What a thread is about to write leaves a recorded cancellation as it found it.
Faithful(c) == c.pc \in {"commit", "rewound", "retry", "settle"} => c.next.cancel = c.job.cancel

-----------------------------------------------------------------------------
\* A cancellation once recorded stays recorded.

LEMMA FaithfulBecomes ==
  ASSUME IInv, NEW w \in Threads, NEW c, Become(w, c),
         \/ c.pc \notin {"commit", "rewound", "retry", "settle"}
         \/ c.next.cancel = c.job.cancel
  PROVE  Faithful(worker'[w])
<1>1. worker'[w] = c
  BY DEF Become, IInv, TypeOK
<1> QED BY <1>1 DEF Faithful

LEMMA PlainFaithful ==
  ASSUME IInv, NEW w \in Threads,
         \/ Become(w, Resting)
         \/ \E code : Become(w, Raised(w, code))
         \/ \E code : Become(w, Parking(w, code))
         \/ \E s : Become(w, Advancing(w, s))
         \/ \E s : Become(w, Serving(w, s))
         \/ Become(w, Cancelling(w))
  PROVE  Faithful(worker'[w])
<1>1. worker[w] \in Contexts
  BY DEF IInv, TypeOK
<1>2. Resting.pc = "idle"
  BY DEF Resting
<1> HIDE DEF Resting
<1> DEFINE Plain(p) == p \notin {"commit", "rewound", "retry", "settle"}
<1>3. /\ Plain(Resting.pc) /\ Plain(Cancelling(w).pc)
      /\ \A code : Plain(Raised(w, code).pc) /\ Plain(Parking(w, code).pc)
      /\ \A s : Plain(Advancing(w, s).pc) /\ Plain(Serving(w, s).pc)
  BY <1>1, <1>2, LeftFields
<1> QED BY <1>3, FaithfulBecomes

LEMMA ReloadFaithful ==
  ASSUME IInv, NEW w \in Threads, NEW d \in Contexts, Reload(w, d),
         \/ d.pc \notin {"commit", "rewound", "retry", "settle"}
         \/ d.next.cancel = row.cancel
  PROVE  Faithful(worker'[w])
<1> DEFINE c == [d EXCEPT !.job = row]
<1>1. c.pc = d.pc /\ c.next = d.next /\ c.job = row /\ Become(w, c)
  BY DEF Reload, Contexts
<1> HIDE DEF c
<1> QED BY <1>1, FaithfulBecomes

LEMMA ReloadAtFaithful ==
  ASSUME IInv, NEW w \in Threads,
         NEW pc \in {"boundary", "handle", "quarantine", "loop"},
         Reload(w, [worker[w] EXCEPT !.pc = pc])
  PROVE  Faithful(worker'[w])
<1> DEFINE d == [worker[w] EXCEPT !.pc = pc]
<1>1. worker[w] \in Contexts /\ pc \in Positions
  BY DEF IInv, TypeOK, Positions
<1>2. d \in Contexts
  BY <1>1, ContextFields
<1>3. d.pc = pc /\ Reload(w, d)
  BY <1>1 DEF Contexts
<1> HIDE DEF d
<1> QED BY <1>2, <1>3, ReloadFaithful

LEMMA HandlerFaithful ==
  ASSUME IInv, NEW w \in Threads, Handler(w)
  PROVE  Faithful(worker'[w])
<1>1. worker[w] \in Contexts
  BY DEF IInv, TypeOK
<1>2. CASE HandlerFault(w) \/ Stabilize(w) \/ CopyToDirty(w) \/ RegisterCanonical(w)
           \/ PublishChunks(w) \/ CompleteCapture(w) \/ SaveNote(w) \/ IndexNote(w) \/ Complete(w)
  BY <1>2, PlainFaithful DEF HandlerFault, Stabilize, CopyToDirty, RegisterCanonical, PublishChunks,
     CompleteCapture, SaveNote, IndexNote, Complete, Raise, Advance
<1>3. ASSUME NEW c, Become(w, c), c.pc \in {"advance", "compensate", "register", "rewind", "publish",
                                            "handle", "failing"}
      PROVE  Faithful(worker'[w])
  BY <1>3, FaithfulBecomes
<1>4. CASE Extract(w)
  <2> DEFINE tried == [worker[w] EXCEPT !.job = row', !.tries = worker[w].tries + 1]
             lost == [tried EXCEPT !.pc = "failing", !.code = "corrupt_content"]
             skip == [worker[w] EXCEPT !.pc = "compensate", !.to = "skipped", !.code = "skipped"]
             done == [Advancing(w, "extracted") EXCEPT !.content = 1]
  <2>1. tried.pc = "handle" /\ lost.pc = "failing" /\ skip.pc = "compensate" /\ done.pc = "advance"
    BY <1>1, <1>4 DEF Contexts, Extract, Handling, At, Advancing
  <2>2. Become(w, tried) \/ Become(w, lost) \/ Become(w, skip) \/ Become(w, done)
        \/ \E code : Become(w, Raised(w, code))
    BY <1>4 DEF Extract, Raise
  <2> HIDE DEF tried, lost, skip, done
  <2> QED BY <1>3, <2>1, <2>2, PlainFaithful
<1>5. CASE SaveClean(w)
  <2> DEFINE c == [worker[w] EXCEPT !.pc = "register", !.slot = FreeSlot, !.content = 1]
  <2>1. c.pc = "register"
    BY <1>1 DEF Contexts
  <2>2. Become(w, c) \/ Advance(w, "saved_clean") \/ Raise(w, "missing_artifact")
        \/ Become(w, Parking(w, "awaiting_transition_approval"))
    BY <1>5 DEF SaveClean
  <2> HIDE DEF c
  <2> QED BY <1>3, <2>1, <2>2, PlainFaithful DEF Advance, Raise
<1>6. CASE Unapproved(w)
  <2> DEFINE c == [worker[w] EXCEPT !.pc = "rewind"]
  <2>1. c.pc = "rewind" /\ Become(w, c)
    BY <1>1, <1>6 DEF Contexts, Unapproved
  <2> HIDE DEF c
  <2> QED BY <1>3, <2>1
<1>7. CASE IndexChunks(w)
  <2> DEFINE c == [worker[w] EXCEPT !.pc = "publish", !.origin = Origin(w), !.content = ContentOf(w)]
  <2>1. c.pc = "publish" /\ (Become(w, c) \/ Become(w, Serving(w, "indexed_chunks")))
    BY <1>1, <1>7 DEF Contexts, IndexChunks
  <2> HIDE DEF c
  <2> QED BY <1>3, <2>1, PlainFaithful
<1>8. CASE Generate(w)
  <2> DEFINE c == [Serving(w, NextStage[worker[w].job.stage]) EXCEPT !.content = ContentOf(w)]
  <2>1. c.pc = "advance"
    BY <1>1 DEF Contexts, Serving, Advancing
  <2>2. Become(w, c) \/ Become(w, Raised(w, "invalid_model_output"))
        \/ Become(w, Parking(w, "resource_wait"))
    BY <1>8 DEF Generate
  <2> HIDE DEF c
  <2> QED BY <1>3, <2>1, <2>2, PlainFaithful
<1> QED BY <1>2, <1>4, <1>5, <1>6, <1>7, <1>8 DEF Handler

LEMMA WorkFaithful ==
  ASSUME IInv, NEW w \in Threads,
         Loop(w) \/ Boundary(w) \/ Park(w) \/ RefuseLlm(w) \/ Failing(w) \/ Settle(w) \/ Commit(w)
         \/ DeleteSource(w) \/ FinalizePendingCancellation(w), Faithful(worker[w])
  PROVE  Faithful(worker'[w])
<1>1. worker[w] \in Contexts /\ row \in Rows
  BY DEF IInv, TypeOK
<1>2. ASSUME Reload(w, Cancelling(w))
      PROVE  Faithful(worker'[w])
  <2> DEFINE c == [Cancelling(w) EXCEPT !.job = row]
  <2>1. c.pc = "compensate" /\ Become(w, c)
    BY <1>1, <1>2 DEF Reload, Cancelling, Contexts
  <2> HIDE DEF c
  <2> QED BY <2>1, FaithfulBecomes
<1>3. ASSUME NEW code, Reload(w, Parking(w, code))
      PROVE  Faithful(worker'[w])
  <2> DEFINE c == [Parking(w, code) EXCEPT !.job = row]
  <2>1. c.pc = "park" /\ Become(w, c)
    BY <1>1, <1>3 DEF Reload, Parking, Contexts
  <2> HIDE DEF c
  <2> QED BY <2>1, FaithfulBecomes
<1>4. CASE Loop(w) \/ Boundary(w) \/ Failing(w) \/ FinalizePendingCancellation(w)
  BY <1>2, <1>3, <1>4, PlainFaithful, ReloadAtFaithful DEF Loop, Boundary, Failing,
     FinalizePendingCancellation, Rest
<1>5. CASE Park(w) \/ RefuseLlm(w)
  BY <1>5, PlainFaithful DEF Park, RefuseLlm
<1>6. CASE Settle(w)
  <2> DEFINE c == [worker[w] EXCEPT !.pc = "failing", !.next = NewRow, !.code = "job_revision_conflict"]
  <2>1. c.pc = "failing" /\ (Become(w, c) \/ Become(w, Resting))
    BY <1>1, <1>6 DEF Settle, Rest, Contexts
  <2> HIDE DEF c
  <2> QED BY <2>1, FaithfulBecomes, PlainFaithful
<1>7. CASE DeleteSource(w)
  <2> DEFINE c == [worker[w] EXCEPT !.pc = "loop"]
  <2>1. c.pc = "loop" /\ Become(w, c)
    BY <1>1, <1>7 DEF DeleteSource, Contexts
  <2> HIDE DEF c
  <2> QED BY <2>1, FaithfulBecomes
<1>8. CASE Commit(w)
  <2> DEFINE next == worker[w].next
             gone == [worker[w] EXCEPT !.next = NewRow]
             c == [gone EXCEPT !.job = next,
                     !.pc = IF next.stage = "completed" /\ LegacyAuto THEN "delete" ELSE "loop"]
             lost(code) == [gone EXCEPT !.pc = "failing", !.code = code]
  <2>1. gone \in Contexts
    BY <1>1, RestingTyped, ContextFields
  <2>2. c.pc \in {"delete", "loop"} /\ \A code : lost(code).pc = "failing"
    BY <2>1 DEF Contexts
  <2>3. Become(w, c) \/ \E code : Become(w, lost(code))
    BY <1>8 DEF Commit
  <2> HIDE DEF c, lost
  <2> QED BY <2>2, <2>3, FaithfulBecomes
<1> QED BY <1>4, <1>5, <1>6, <1>7, <1>8

LEMMA PlannerFaithful ==
  ASSUME IInv, NEW w \in Threads,
         AdvanceRead(w) \/ RewindIndex(w) \/ Quarantine(w) \/ Compensate(w)
  PROVE  Faithful(worker'[w])
<1>1. worker[w] \in Contexts /\ row \in Rows /\ worker[w].job \in Rows
  BY DEF IInv, TypeOK, Contexts
<1>2. CASE AdvanceRead(w)
  <2> DEFINE to == worker[w].to
             done == [worker[w] EXCEPT !.to = "none", !.slot = "none"]
             next == AdvancedRow(row, to, worker[w].slot)
             c == [[done EXCEPT !.pc = "commit", !.next = next] EXCEPT !.job = row]
             b == [[done EXCEPT !.pc = IF to = "completed" /\ LegacyAuto
                                         THEN "delete" ELSE "loop"] EXCEPT !.job = row]
             e == [[done EXCEPT !.pc = "failing", !.code = "illegal_job_transition"]
                     EXCEPT !.job = row]
  <2>1. next.cancel = row.cancel
    BY <1>1 DEF AdvancedRow, Rows
  <2>2. /\ c.job = row /\ c.next = next /\ b.pc \in {"delete", "loop"} /\ e.pc = "failing"
    BY <1>1 DEF Contexts
  <2>3. Become(w, c) \/ Become(w, b) \/ Become(w, e)
    BY <1>2 DEF AdvanceRead, Reload
  <2> HIDE DEF c, b, e, next
  <2> QED BY <2>1, <2>2, <2>3, FaithfulBecomes
<1>3. CASE RewindIndex(w)
  <2> DEFINE next == [row EXCEPT !.stage = "saved_clean", !.status = "pending",
                                 !.code = "awaiting_clean_approval", !.note = FALSE]
             c == [[worker[w] EXCEPT !.pc = "rewound", !.next = next] EXCEPT !.job = row]
             b == [worker[w] EXCEPT !.pc = "loop", !.job = row']
  <2>1. next.cancel = row.cancel
    BY <1>1 DEF Rows
  <2>2. c.job = row /\ c.next = next /\ b.pc = "loop"
    BY <1>1 DEF Contexts
  <2>3. Become(w, c) \/ Become(w, b) \/ Reload(w, [worker[w] EXCEPT !.pc = "loop"])
    BY <1>3 DEF RewindIndex, Reload
  <2> HIDE DEF c, b, next
  <2> QED BY <2>1, <2>2, <2>3, FaithfulBecomes, ReloadAtFaithful
<1>4. CASE Quarantine(w)
  <2> DEFINE next == [worker[w].job EXCEPT !.status = "pending", !.code = worker[w].code]
             c == [worker[w] EXCEPT !.pc = "retry", !.next = next]
             b(to) == [worker[w] EXCEPT !.pc = "compensate", !.to = to]
  <2>1. next.cancel = worker[w].job.cancel
    BY <1>1 DEF Rows
  <2>2. c.job = worker[w].job /\ c.next = next /\ \A to : b(to).pc = "compensate"
    BY <1>1 DEF Contexts
  <2>3. Become(w, c) \/ (\E to : Become(w, b(to))) \/ Become(w, Resting)
    BY <1>4 DEF Quarantine, Rest
  <2> HIDE DEF c, b, next
  <2> QED BY <2>1, <2>2, <2>3, FaithfulBecomes, PlainFaithful
<1>5. CASE Compensate(w)
  <2>p. PICK gone : Become(w, [worker[w] EXCEPT !.pc = "settle", !.to = "none",
                      !.next = EndedRow(worker[w].job, worker[w].to, worker[w].code, gone)])
    BY <1>5 DEF Compensate
  <2> DEFINE next == EndedRow(worker[w].job, worker[w].to, worker[w].code, gone)
             c == [worker[w] EXCEPT !.pc = "settle", !.to = "none", !.next = next]
  <2>1. next.cancel = worker[w].job.cancel
    BY <1>1 DEF Rows, EndedRow, Cleared
  <2>2. c.job = worker[w].job /\ c.next = next /\ Become(w, c)
    BY <1>1, <2>p DEF Contexts
  <2> HIDE DEF c, next
  <2> QED BY <2>1, <2>2, FaithfulBecomes
<1> QED BY <1>2, <1>3, <1>4, <1>5

LEMMA EntryFaithful ==
  ASSUME IInv, NEW w \in Threads, Resume(w) \/ RequestCancel(w) \/ PollParked(w),
         Faithful(worker[w])
  PROVE  Faithful(worker'[w])
<1>1. worker[w] \in Contexts
  BY DEF IInv, TypeOK
<1> DEFINE b == [Resting EXCEPT !.pc = "loop", !.job = row']
           c == [[Resting EXCEPT !.pc = "loop"] EXCEPT !.job = row]
           d == [Cancelling(w) EXCEPT !.job = row]
           e == [Resting EXCEPT !.pc = "finalize", !.job = row']
<1>2. b.pc = "loop" /\ c.pc = "loop" /\ d.pc = "compensate" /\ e.pc = "finalize"
  BY <1>1 DEF Resting, Cancelling, Contexts
<1>3. Become(w, b) \/ Become(w, c) \/ Become(w, d) \/ Become(w, e) \/ worker' = worker
  BY DEF Resume, RequestCancel, PollParked, Reload
<1> HIDE DEF b, c, d, e
<1> QED BY <1>2, <1>3, FaithfulBecomes

EveryoneFaithful == \A w \in Threads : Faithful(worker[w])

LEMMA StepFaithful ==
  ASSUME IInv, EveryoneFaithful, [Next]_vars
  PROVE  EveryoneFaithful'
<1> SUFFICES ASSUME NEW v \in Threads PROVE Faithful(worker'[v])
  BY DEF EveryoneFaithful, Faithful
<1>1. Faithful(worker[v])
  BY DEF EveryoneFaithful
<1>2. CASE worker' = worker
  BY <1>1, <1>2
<1>3. ASSUME NEW w \in Threads, Thread(w)
      PROVE  Faithful(worker'[v])
  <2>1. CASE v = w
    BY <1>1, <1>3, <2>1, HandlerFaithful, WorkFaithful, PlannerFaithful, EntryFaithful
       DEF Thread, Running
  <2>2. CASE v # w
    <3>1. worker' = worker \/ \E c : Become(w, c)
      BY <1>3 DEF Thread, Running, Handler, HandlerFault, Stabilize, CopyToDirty, SaveClean,
         RegisterCanonical, Unapproved, IndexChunks, PublishChunks, CompleteCapture, Generate,
         SaveNote, IndexNote, Complete, Extract, Loop, Boundary, Park, AdvanceRead, Commit,
         RewindIndex, DeleteSource, Failing, Quarantine, Compensate, Settle, Resume, RefuseLlm,
         PollParked, RequestCancel, FinalizePendingCancellation, Reload, Rest, Raise, Advance
    <3> QED BY <1>1, <2>2, <3>1 DEF Become, IInv, TypeOK
  <2> QED BY <2>1, <2>2
<1>4. CASE Crash
  <2>1. worker'[v] = Resting
    BY <1>4 DEF Crash
  <2> QED BY <2>1 DEF Faithful, Resting
<1> QED BY <1>2, <1>3, <1>4 DEF Next, Human, ApproveTransition, ApproveClean, EditClean, vars

LEMMA WaitingKeepsCancel ==
  ASSUME IInv, NEW reason
  PROVE  Waiting(reason).cancel = row.cancel
BY DEF IInv, TypeOK, Rows, Waiting

\* Only a request changes the flag, and it sets it.
LEMMA CancelSticks ==
  ASSUME IInv, EveryoneFaithful, [Next]_vars, row.cancel
  PROVE  row'.cancel
<1>1. row \in Rows
  BY DEF IInv, TypeOK
<1>2. CASE row' = row
  BY <1>2
<1>3. ASSUME NEW w \in Threads, Thread(w), row' # row
      PROVE  row'.cancel
  <2>1. CASE Commit(w) \/ Settle(w)
    <3>1. worker[w].pc \in {"commit", "rewound", "settle", "retry"} /\ w \in fresh
          /\ row' = worker[w].next
      BY <1>3, <2>1 DEF Commit, Settle, Matches, Save, Rest
    <3>2. worker[w].job = row /\ Faithful(worker[w])
      BY <3>1 DEF IInv, SnapshotsAreCurrent, EveryoneFaithful
    <3> QED BY <3>1, <3>2 DEF Faithful
  <2>2. CASE ~Commit(w) /\ ~Settle(w)
    <3>1. CASE Handler(w)
      BY <1>1, <1>3, <3>1 DEF Handler, HandlerFault, Stabilize, CopyToDirty, SaveClean,
             RegisterCanonical, Unapproved, IndexChunks, PublishChunks, CompleteCapture,
             Generate, SaveNote, IndexNote, Complete, Extract, Save, Rows
    <3> QED BY <1>1, <1>3, <2>2, <3>1, WaitingKeepsCancel
      DEF Thread, Running, RefuseLlm, Resume, PollParked, RequestCancel, Loop, Boundary,
          Park, AdvanceRead, RewindIndex, DeleteSource, Failing, Quarantine, Compensate,
          FinalizePendingCancellation, Save, Rows
  <2> QED BY <2>1, <2>2
<1> QED BY <1>2, <1>3 DEF Next, Human, ApproveTransition, ApproveClean, EditClean, Crash, vars

-----------------------------------------------------------------------------
\* The thread that runs the job completes it only with its output in place.

LEMMA DeliveredBecomes ==
  ASSUME IInv, NEW w \in Threads, NEW c, Become(w, c), Delivered(c, row', files', catalog')
  PROVE  Delivers(w)'
<1>1. worker'[w] = c
  BY DEF Become, IInv, TypeOK
<1> QED BY <1>1 DEF Delivers

\* A thread that goes on with an unfinished job, or leaves it.
LEMMA PlainDelivers ==
  ASSUME IInv, NEW w \in Threads, Delivers(w), NEW c, Become(w, c),
         c.pc \notin {"advance", "commit"}, c.slot # "none" => c.pc \in Holding,
         row'.stage = row.stage, row.stage # "completed"
  PROVE  Delivers(w)'
<1>1. Delivered(c, row', files', catalog')
  BY DEF Delivers, Delivered, Landing
<1> QED BY <1>1, DeliveredBecomes

LEMMA RaiseDelivers ==
  ASSUME IInv, NEW w \in Threads, Delivers(w), NEW code, Become(w, Raised(w, code)),
         row' = row, row.stage # "completed"
  PROVE  Delivers(w)'
<1> DEFINE c == Raised(w, code)
<1>1. c.pc = "failing" /\ Become(w, c)
  BY LeftFields DEF IInv, TypeOK
<1> HIDE DEF c
<1> QED BY <1>1, PlainDelivers DEF Holding

LEMMA ParkDelivers ==
  ASSUME IInv, NEW w \in Threads, Delivers(w), NEW code, Become(w, Parking(w, code)),
         row' = row, row.stage # "completed", worker[w].slot = "none"
  PROVE  Delivers(w)'
<1> DEFINE c == Parking(w, code)
<1>1. c.pc = "park" /\ c.slot = "none" /\ Become(w, c)
  BY LeftFields DEF IInv, TypeOK
<1> HIDE DEF c
<1> QED BY <1>1, PlainDelivers

LEMMA RestDelivers ==
  ASSUME IInv, NEW w \in Threads, Delivers(w), Become(w, Resting),
         row'.stage = row.stage, row.stage # "completed"
  PROVE  Delivers(w)'
<1>1. Resting.pc = "idle" /\ Resting.slot = "none"
  BY DEF Resting
<1> HIDE DEF Resting
<1> QED BY <1>1, PlainDelivers

LEMMA AheadDelivers ==
  ASSUME IInv, NEW w \in Threads, Delivers(w), row' = row, row.stage # "completed",
         NEW t, t # "completed", LegacyAuto \/ t \notin LateStages,
         NEW c, Become(w, c), c.pc = "advance", c.to = t, c.slot = "none" \/ t = "saved_clean"
  PROVE  Delivers(w)'
<1>1. Delivered(c, row', files', catalog')
  BY DEF Delivers, Delivered, Landing
<1> QED BY <1>1, DeliveredBecomes

LEMMA AdvanceDelivers ==
  ASSUME IInv, NEW w \in Threads, Delivers(w), row' = row, row.stage # "completed",
         NEW t, t # "completed", LegacyAuto \/ t \notin LateStages,
         Become(w, Advancing(w, t)) \/ Become(w, Serving(w, t)),
         worker[w].slot = "none" \/ t = "saved_clean"
  PROVE  Delivers(w)'
<1> DEFINE c == Advancing(w, t)
           d == Serving(w, t)
<1>1. /\ c.pc = "advance" /\ c.to = t /\ c.slot = worker[w].slot
      /\ d.pc = "advance" /\ d.to = t /\ d.slot = worker[w].slot
      /\ Become(w, c) \/ Become(w, d)
  BY LeftFields DEF IInv, TypeOK
<1> HIDE DEF c, d
<1> QED BY <1>1, AheadDelivers

\* What handlers start from.
LEMMA DeliveryStart ==
  ASSUME IInv, NEW w \in Threads, Alone(w), Delivers(w),
         worker[w].pc \in {"handle", "publish"}
  PROVE  /\ worker[w] \in Contexts /\ worker[w].job = row /\ row \in Rows
         /\ row.stage \in ActiveStages /\ row.stage # "completed"
         /\ worker[w].slot = "none"
<1>1. worker[w] \in Contexts /\ worker[w].job = row /\ row \in Rows /\ row.stage \in ActiveStages
  BY Handles
<1>2. row.stage # "completed"
  BY <1>1, EdgeToActive DEF TerminalStages
<1>3. worker[w].slot = "none"
  BY DEF Delivers, Delivered, Holding
<1> QED BY <1>1, <1>2, <1>3

LEMMA EarlyHandlersDeliver ==
  ASSUME IInv, NEW w \in Threads, Alone(w), Delivers(w),
         HandlerFault(w) \/ Stabilize(w) \/ CopyToDirty(w) \/ Extract(w) \/ SaveClean(w)
  PROVE  Delivers(w)'
<1>r. CASE worker[w].pc = "register" /\ HandlerFault(w)
  <2>1. row.stage \in ActiveStages /\ row' = row
    BY <1>r, Handles DEF HandlerFault
  <2>2. row.stage # "completed"
    BY <2>1, EdgeToActive DEF TerminalStages
  <2>3. \E code : Become(w, Raised(w, code))
    BY <1>r DEF HandlerFault, Raise
  <2> QED BY <2>1, <2>2, <2>3, RaiseDelivers
<1> SUFFICES ASSUME worker[w].pc # "register" \/ ~HandlerFault(w)
             PROVE  Delivers(w)'
  BY <1>r
<1>1. worker[w].pc = "handle"
  BY DEF HandlerFault, Stabilize, CopyToDirty, Extract, SaveClean, Handling, At
<1>2. /\ worker[w] \in Contexts /\ row \in Rows /\ worker[w].job = row
      /\ row.stage # "completed" /\ worker[w].slot = "none"
  BY <1>1, DeliveryStart
<1>3. {"stabilized", "copied_dirty", "extracted", "saved_clean"} \intersect LateStages = {}
  BY DEF LateStages
<1>4. CASE HandlerFault(w) \/ Stabilize(w) \/ CopyToDirty(w)
  BY <1>2, <1>3, <1>4, RaiseDelivers, ParkDelivers, AdvanceDelivers
     DEF HandlerFault, Stabilize, CopyToDirty, Raise, Advance
<1>5. CASE Extract(w)
  <2> DEFINE tried == [worker[w] EXCEPT !.job = row', !.tries = worker[w].tries + 1]
             lost == [tried EXCEPT !.pc = "failing", !.code = "corrupt_content"]
             skip == [worker[w] EXCEPT !.pc = "compensate", !.to = "skipped", !.code = "skipped"]
             done == [Advancing(w, "extracted") EXCEPT !.content = 1]
  <2>1. /\ tried.pc = "handle" /\ tried.slot = "none" /\ lost.pc = "failing"
        /\ skip.pc = "compensate"
        /\ done.pc = "advance" /\ done.to = "extracted" /\ done.slot = "none"
    BY <1>1, <1>2 DEF Contexts, Advancing
  <2>2. /\ row'.stage = row.stage
        /\ \/ Become(w, tried) \/ Become(w, lost)
           \/ row' = row /\ (Become(w, skip) \/ Become(w, done))
           \/ row' = row /\ \E code : Become(w, Raised(w, code))
    BY <1>2, <1>5 DEF Extract, Raise, Save, Rows
  <2> HIDE DEF tried, lost, skip, done
  <2> QED BY <1>2, <1>3, <2>1, <2>2, PlainDelivers, RaiseDelivers, AheadDelivers DEF Holding
<1>6. CASE SaveClean(w)
  <2> DEFINE c == [worker[w] EXCEPT !.pc = "register", !.slot = FreeSlot, !.content = 1]
  <2>1. c.pc = "register"
    BY <1>2 DEF Contexts
  <2>2. row' = row /\ \/ Become(w, c) \/ Become(w, Advancing(w, "saved_clean"))
                      \/ \E code : Become(w, Raised(w, code))
                      \/ \E code : Become(w, Parking(w, code))
    BY <1>6 DEF SaveClean, Advance, Raise
  <2> HIDE DEF c
  <2> QED BY <1>2, <1>3, <2>1, <2>2, PlainDelivers, RaiseDelivers, ParkDelivers, AdvanceDelivers
          DEF Holding
<1> QED BY <1>4, <1>5, <1>6

LEMMA RegisterDelivers ==
  ASSUME IInv, NEW w \in Threads, Alone(w), Delivers(w), RegisterCanonical(w)
  PROVE  Delivers(w)'
<1>1. worker[w].pc = "register" /\ row' = row
  BY DEF RegisterCanonical, At
<1>2. row.stage \in ActiveStages
  BY <1>1, Handles
<1>3. row.stage # "completed" /\ "saved_clean" \notin LateStages
  BY <1>2, EdgeToActive DEF TerminalStages, LateStages
<1>4. Become(w, Advancing(w, "saved_clean")) \/ \E code : Become(w, Raised(w, code))
  BY DEF RegisterCanonical, Advance, Raise
<1> QED BY <1>1, <1>3, <1>4, RaiseDelivers, AdvanceDelivers

LEMMA IndexHandlersDeliver ==
  ASSUME IInv, NEW w \in Threads, Alone(w), Delivers(w),
         Unapproved(w) \/ IndexChunks(w) \/ PublishChunks(w)
  PROVE  Delivers(w)'
<1>1. worker[w].pc \in {"handle", "publish"} /\ row' = row
  BY DEF Unapproved, IndexChunks, PublishChunks, Approved, Handling, At
<1>2. worker[w] \in Contexts /\ row.stage # "completed" /\ worker[w].slot = "none"
  BY <1>1, DeliveryStart
<1> DEFINE c == [worker[w] EXCEPT !.pc = "rewind"]
           d == [worker[w] EXCEPT !.pc = "publish", !.origin = Origin(w), !.content = ContentOf(w)]
<1>3. c.pc = "rewind" /\ c.slot = "none" /\ d.pc = "publish" /\ d.slot = "none"
  BY <1>2 DEF Contexts
<1>4. \/ Become(w, c) \/ Become(w, d)
      \/ Become(w, Serving(w, "indexed_chunks")) \/ Become(w, Advancing(w, "indexed_chunks"))
      \/ \E code : Become(w, Raised(w, code))
  BY DEF Unapproved, IndexChunks, PublishChunks, Advance, Raise
<1>5. "indexed_chunks" \notin LateStages
  BY DEF LateStages
<1> HIDE DEF c, d
<1> QED BY <1>1, <1>2, <1>3, <1>4, <1>5, PlainDelivers, RaiseDelivers, AdvanceDelivers

LEMMA NoteHandlersDeliver ==
  ASSUME IInv, NEW w \in Threads, Alone(w), Delivers(w),
         Generate(w) \/ SaveNote(w) \/ IndexNote(w)
  PROVE  Delivers(w)'
<1>1. worker[w].pc = "handle" /\ row' = row
  BY DEF Generate, SaveNote, IndexNote, Approved, Handling, At
<1>2. /\ worker[w] \in Contexts /\ worker[w].job = row /\ row.stage # "completed"
      /\ worker[w].slot = "none"
  BY <1>1, DeliveryStart
<1>3. row.stage \in LateStages => LegacyAuto
  BY DEF Delivers, Delivered
<1>4. CASE Generate(w)
  <2> DEFINE t == NextStage[worker[w].job.stage]
             c == [Serving(w, t) EXCEPT !.content = ContentOf(w)]
  <2>1. \/ row.stage = "indexed_chunks" /\ LegacyAuto
        \/ row.stage = "generated_candidate"
    BY <1>2, <1>4 DEF Generate, Approved, Handling
  <2>2. LegacyAuto /\ t # "completed"
    BY <1>2, <1>3, <2>1 DEF LateStages, NextStage
  <2>3. c.pc = "advance" /\ c.to = t /\ c.slot = "none"
    BY <1>2 DEF Serving, Advancing, Contexts
  <2>4. Become(w, c) \/ (\E code : Become(w, Raised(w, code)))
        \/ (\E code : Become(w, Parking(w, code)))
    BY <1>4 DEF Generate
  <2> HIDE DEF c, t
  <2> QED BY <1>1, <1>2, <2>2, <2>3, <2>4, RaiseDelivers, ParkDelivers, AheadDelivers
<1>5. CASE SaveNote(w) \/ IndexNote(w)
  <2>1. row.stage \in {"validated_candidate", "saved_note"}
    BY <1>2, <1>5 DEF SaveNote, IndexNote, Approved, Handling
  <2>2. LegacyAuto
    BY <1>3, <2>1 DEF LateStages
  <2>3. \/ Become(w, Serving(w, "saved_note")) \/ Become(w, Serving(w, "indexed_note"))
        \/ \E code : Become(w, Raised(w, code))
    BY <1>5 DEF SaveNote, IndexNote, Raise
  <2> QED BY <1>1, <1>2, <2>2, <2>3, RaiseDelivers, AdvanceDelivers
<1> QED BY <1>4, <1>5

\* The two handlers that complete a job have just looked at, or made, its output.
LEMMA CompletionDelivers ==
  ASSUME IInv, NEW w \in Threads, Alone(w), Delivers(w), CompleteCapture(w) \/ Complete(w)
  PROVE  Delivers(w)'
<1>1. worker[w].pc = "handle" /\ row' = row /\ files' = files
  BY DEF CompleteCapture, Complete, Approved, Handling, At
<1>2. /\ worker[w] \in Contexts /\ worker[w].job = row /\ row.stage # "completed"
      /\ worker[w].slot = "none"
  BY <1>1, DeliveryStart
<1>3. row.stage \in LateStages => LegacyAuto
  BY DEF Delivers, Delivered
<1>4. ASSUME Become(w, Serving(w, "completed")), Output(row, files, catalog')
      PROVE  Delivers(w)'
  <2> DEFINE c == Serving(w, "completed")
  <2>1. c.pc = "advance" /\ c.to = "completed" /\ c.slot = "none" /\ Become(w, c)
    BY <1>2, <1>4, LeftFields
  <2> HIDE DEF c
  <2>2. Delivered(c, row', files', catalog')
    BY <1>1, <1>2, <1>4, <2>1 DEF Delivers, Delivered, Landing, LateStages
  <2> QED BY <2>1, <2>2, DeliveredBecomes
<1>5. CASE CompleteCapture(w)
  <2>1. ~LegacyAuto /\ HasClean(row) /\ Become(w, Serving(w, "completed"))
    BY <1>2, <1>5 DEF CompleteCapture, Approved, ApprovedClean
  <2>2. catalog'.identity = "clean"
    BY <1>5 DEF CompleteCapture, IInv, TypeOK
  <2> QED BY <1>4, <2>1, <2>2 DEF Output, HasClean
<1>6. CASE Complete(w)
  <2>1. LegacyAuto
    BY <1>2, <1>3, <1>6 DEF Complete, Approved, Handling, LateStages
  <2>2. \/ DurableNote /\ Become(w, Serving(w, "completed"))
        \/ \E code : Become(w, Raised(w, code))
    BY <1>6 DEF Complete, Raise
  <2>3. catalog' = catalog
    BY <1>6 DEF Complete
  <2> QED BY <1>1, <1>2, <1>4, <2>1, <2>2, <2>3, RaiseDelivers DEF Output, DurableNote
<1> QED BY <1>5, <1>6

LEMMA HandlerDelivers ==
  ASSUME IInv, NEW w \in Threads, Alone(w), Delivers(w), Handler(w)
  PROVE  Delivers(w)'
BY EarlyHandlersDeliver, RegisterDelivers, IndexHandlersDeliver, NoteHandlersDeliver,
   CompletionDelivers DEF Handler

\* A step that leaves the row and the output as they are.
LEMMA QuietDelivers ==
  ASSUME IInv, NEW w \in Threads, Delivers(w), NEW c, Become(w, c),
         c.pc \notin {"advance", "commit"}, c.slot # "none" => c.pc \in Holding,
         row' = row, files'.clean = files.clean, files'.note = files.note,
         catalog'.identity = catalog.identity
  PROVE  Delivers(w)'
<1>1. Delivered(c, row', files', catalog')
  BY DEF Delivers, Delivered, Landing, Output
<1> QED BY <1>1, DeliveredBecomes

LEMMA ReconciledIdentity ==
  ASSUME IInv, NEW r
  PROVE  Reconciled(r).identity = catalog.identity
BY DEF Reconciled, IInv, TypeOK

\* Where a thread may be sent back to the row.
LEMMA ReloadedFields ==
  ASSUME NEW w \in Threads, worker[w] \in Contexts, row \in Rows
  PROVE  /\ LET c == [Cancelling(w) EXCEPT !.job = row] IN
              c.pc = "compensate" /\ c.slot = worker[w].slot
         /\ \A code : LET c == [Parking(w, code) EXCEPT !.job = row] IN
              c.pc = "park" /\ c.slot = worker[w].slot
         /\ \A pc : LET c == [[worker[w] EXCEPT !.pc = pc] EXCEPT !.job = row] IN
              c.pc = pc /\ c.slot = worker[w].slot
BY DEF Contexts, Cancelling, Parking

LEMMA HeadDelivers ==
  ASSUME IInv, NEW w \in Threads, Delivers(w),
         Loop(w) \/ Boundary(w) \/ Failing(w) \/ FinalizePendingCancellation(w)
  PROVE  Delivers(w)'
<1>1. worker[w] \in Contexts /\ row \in Rows
  BY DEF IInv, TypeOK
<1>2. /\ worker[w].pc \in {"loop", "boundary", "failing", "finalize"}
      /\ worker[w].pc = "failing" => Failing(w)
  BY DEF Loop, Boundary, Failing, FinalizePendingCancellation, At
<1>3. worker[w].pc # "failing" => worker[w].slot = "none"
  BY <1>2 DEF Delivers, Delivered, Holding
<1>4. row' = row /\ files' = files /\ catalog'.identity = catalog.identity
  BY ReconciledIdentity DEF Loop, Boundary, Failing, FinalizePendingCancellation
<1> DEFINE b == [Cancelling(w) EXCEPT !.job = row]
           d == Cancelling(w)
           at(pc) == [[worker[w] EXCEPT !.pc = pc] EXCEPT !.job = row]
           parked(code) == [Parking(w, code) EXCEPT !.job = row]
<1>5. /\ b.pc = "compensate" /\ d.pc = "compensate"
      /\ \A pc : at(pc).pc = pc /\ at(pc).slot = worker[w].slot
      /\ \A code : parked(code).pc = "park" /\ parked(code).slot = worker[w].slot
      /\ Resting.pc = "idle" /\ Resting.slot = "none"
  BY <1>1, ReloadedFields, LeftFields DEF Resting
<1>6. \/ Become(w, Resting) \/ Become(w, b) \/ Become(w, d)
      \/ worker[w].pc # "failing" /\ \E code : Become(w, parked(code))
      \/ worker[w].pc # "failing" /\ \E pc \in {"boundary", "handle"} : Become(w, at(pc))
      \/ Become(w, at("quarantine"))
  BY <1>2 DEF Loop, Boundary, Failing, FinalizePendingCancellation, Reload, Rest, At
<1> HIDE DEF b, d, at, parked, Resting
<1> QED BY <1>3, <1>4, <1>5, <1>6, QuietDelivers DEF Holding

LEMMA EntryDelivers ==
  ASSUME IInv, NEW w \in Threads, Delivers(w), Resume(w) \/ PollParked(w) \/ RefuseLlm(w) \/ Park(w),
         row.stage # "completed"
  PROVE  Delivers(w)'
<1>1. worker[w] \in Contexts /\ row \in Rows
  BY DEF IInv, TypeOK
<1>2. CASE Resume(w)
  <2> DEFINE b == [Cancelling(w) EXCEPT !.job = row]
             c == [Resting EXCEPT !.pc = "loop", !.job = row']
             d == [[Resting EXCEPT !.pc = "loop"] EXCEPT !.job = row]
  <2>1. b.pc = "compensate" /\ c.pc = "loop" /\ c.slot = "none" /\ d.pc = "loop" /\ d.slot = "none"
    BY <1>1, ReloadedFields DEF Resting
  <2>2. row'.stage = row.stage /\ (Become(w, b) \/ Become(w, c) \/ Become(w, d))
    BY <1>1, <1>2 DEF Resume, Reload, Save, Rows
  <2> HIDE DEF b, c, d
  <2> QED BY <2>1, <2>2, PlainDelivers DEF Holding
<1>3. CASE PollParked(w)
  BY <1>3 DEF PollParked, At, Delivers, Delivered, Landing
<1>4. CASE RefuseLlm(w) \/ Park(w)
  <2>1. row'.stage = row.stage /\ Become(w, Resting)
    BY <1>4, WaitingKeepsStage DEF RefuseLlm, Park
  <2> QED BY <2>1, RestDelivers
<1> QED BY <1>2, <1>3, <1>4

LEMMA DeleteDelivers ==
  ASSUME IInv, NEW w \in Threads, Delivers(w), DeleteSource(w)
  PROVE  Delivers(w)'
<1> DEFINE c == [worker[w] EXCEPT !.pc = "loop"]
<1>1. worker[w] \in Contexts /\ worker[w].pc = "delete"
  BY DEF IInv, TypeOK, DeleteSource, At
<1>2. c.pc = "loop" /\ c.slot = worker[w].slot /\ Become(w, c)
  BY <1>1 DEF Contexts, DeleteSource
<1>3. worker[w].slot = "none"
  BY <1>1 DEF Delivers, Delivered, Holding
<1>4. row' = row /\ files'.clean = files.clean /\ files'.note = files.note /\ catalog' = catalog
  BY DEF DeleteSource, IInv, TypeOK
<1> HIDE DEF c
<1> QED BY <1>2, <1>3, <1>4, QuietDelivers

LEMMA AdvanceReadDelivers ==
  ASSUME IInv, NEW w \in Threads, Alone(w), Delivers(w), AdvanceRead(w)
  PROVE  Delivers(w)'
<1> DEFINE to == worker[w].to
           slot == worker[w].slot
           done == [worker[w] EXCEPT !.to = "none", !.slot = "none"]
           next == AdvancedRow(row, to, slot)
           c == [[done EXCEPT !.pc = "commit", !.next = next] EXCEPT !.job = row]
           b == [[done EXCEPT !.pc = IF to = "completed" /\ LegacyAuto
                                       THEN "delete" ELSE "loop"] EXCEPT !.job = row]
           e == [[done EXCEPT !.pc = "failing", !.code = "illegal_job_transition"]
                   EXCEPT !.job = row]
<1>1. worker[w].pc = "advance" /\ worker[w].pc \in Working /\ worker[w].pc # "idle"
      /\ UNCHANGED <<row, files, catalog>>
  BY DEF AdvanceRead, At, Working, Positions
<1>2. row.stage \in ActiveStages /\ worker[w] \in Contexts /\ row \in Rows
  BY <1>1, Known
<1>3. row.stage # "completed"
  BY <1>2, EdgeToActive DEF TerminalStages
<1>4. /\ c.pc = "commit" /\ c.next = next /\ c.slot = "none"
      /\ b.pc \in {"delete", "loop"} /\ b.slot = "none" /\ e.pc = "failing"
  BY <1>2 DEF Contexts
<1>5. Become(w, c) \/ Become(w, b) \/ Become(w, e)
  BY DEF AdvanceRead, Reload
<1>6. next.stage = to /\ (slot = "none" => next.clean = row.clean)
  BY <1>2 DEF AdvancedRow, Rows
<1>7. Delivered(worker[w], row, files, catalog)
  BY DEF Delivers
<1>8. to = "completed" => slot = "none" /\ Output(row, files, catalog)
  BY <1>1, <1>7 DEF Delivered, Holding
<1> HIDE DEF b, c, e, next, done
<1>9. CASE Become(w, c)
  <2>1. next.stage = "completed" => Output(next, files, catalog)
    BY <1>6, <1>8 DEF Output
  <2>2. ~LegacyAuto => \A s \in LateStages : row.stage # s /\ ~Landing(c, s)
    BY <1>1, <1>4, <1>6, <1>7 DEF Delivered, Landing
  <2>3. Delivered(c, row, files, catalog)
    BY <1>3, <1>4, <2>1, <2>2 DEF Delivered
  <2> QED BY <1>1, <1>9, <2>3, DeliveredBecomes
<1> QED BY <1>1, <1>3, <1>4, <1>5, <1>9, PlainDelivers DEF Holding

LEMMA CommitDelivers ==
  ASSUME IInv, NEW w \in Threads, Alone(w), Delivers(w), Commit(w)
  PROVE  Delivers(w)'
<1> DEFINE next == worker[w].next
           gone == [worker[w] EXCEPT !.next = NewRow]
           c == [gone EXCEPT !.job = next,
                   !.pc = IF next.stage = "completed" /\ LegacyAuto THEN "delete" ELSE "loop"]
           lost(code) == [gone EXCEPT !.pc = "failing", !.code = code]
<1>1. worker[w].pc \in {"commit", "rewound"} /\ worker[w].pc \in Working /\ worker[w].pc # "idle"
      /\ UNCHANGED <<files, catalog>>
  BY DEF Commit, Working, Positions
<1>2. row.stage \in ActiveStages /\ worker[w] \in Contexts
  BY <1>1, Known
<1>3. row.stage # "completed"
  BY <1>2, EdgeToActive DEF TerminalStages
<1>4. gone \in Contexts /\ gone.slot = worker[w].slot
  BY <1>2, RestingTyped, ContextFields DEF Contexts
<1>5. /\ c.pc \in {"delete", "loop"} /\ c.slot = worker[w].slot
      /\ \A code : lost(code).pc = "failing"
  BY <1>4 DEF Contexts
<1>6. (row' = next /\ Become(w, c)) \/ (row' = row /\ \E code : Become(w, lost(code)))
  BY DEF Commit, Save
<1>7. Delivered(worker[w], row, files, catalog) /\ worker[w].slot = "none"
  BY <1>1 DEF Delivers, Delivered, Holding
<1>8. worker[w].pc = "rewound" => next.stage = "saved_clean"
  BY DEF IInv, Planned
<1> HIDE DEF c, lost, gone
<1>9. CASE row' = next /\ Become(w, c)
  <2>1. next.stage = "completed" => Output(next, files, catalog)
    BY <1>1, <1>7, <1>8 DEF Delivered
  <2>2. ~LegacyAuto => \A s \in LateStages : next.stage # s
    BY <1>1, <1>7, <1>8 DEF Delivered, Landing, LateStages
  <2>3. Delivered(c, next, files, catalog)
    BY <1>5, <1>7, <2>1, <2>2 DEF Delivered, Landing
  <2> QED BY <1>1, <1>9, <2>3, DeliveredBecomes
<1> QED BY <1>3, <1>5, <1>6, <1>9, PlainDelivers DEF Holding

LEMMA RewindDelivers ==
  ASSUME IInv, NEW w \in Threads, Alone(w), Delivers(w), RewindIndex(w)
  PROVE  Delivers(w)'
<1> DEFINE next == [row EXCEPT !.stage = "saved_clean", !.status = "pending",
                               !.code = "awaiting_clean_approval", !.note = FALSE]
           c == [[worker[w] EXCEPT !.pc = "rewound", !.next = next] EXCEPT !.job = row]
           b == [worker[w] EXCEPT !.pc = "loop", !.job = row']
           a == [[worker[w] EXCEPT !.pc = "loop"] EXCEPT !.job = row]
<1>1. worker[w].pc = "rewind" /\ worker[w].pc \in Working /\ worker[w].pc # "idle"
  BY DEF RewindIndex, At, Working, Positions
<1>2. row.stage \in ActiveStages /\ worker[w] \in Contexts
  BY <1>1, Known
<1>3. row.stage # "completed"
  BY <1>2, EdgeToActive DEF TerminalStages
<1>4. worker[w].slot = "none"
  BY <1>1 DEF Delivers, Delivered, Holding
<1>5. /\ a.pc = "loop" /\ a.slot = "none" /\ b.pc = "loop" /\ b.slot = "none"
      /\ c.pc = "rewound" /\ c.slot = "none"
  BY <1>2, <1>4 DEF Contexts
<1>6. row'.stage = row.stage /\ (Become(w, a) \/ Become(w, b) \/ Become(w, c))
  BY WaitingKeepsStage DEF RewindIndex, Reload, Save
<1> HIDE DEF a, b, c
<1> QED BY <1>3, <1>5, <1>6, PlainDelivers

LEMMA EndDelivers ==
  ASSUME IInv, NEW w \in Threads, Alone(w), Delivers(w),
         Quarantine(w) \/ Compensate(w) \/ Settle(w)
  PROVE  Delivers(w)'
<1>1. worker[w].pc \in {"quarantine", "compensate", "settle", "retry"} /\ worker[w].pc \in Working
      /\ worker[w].pc # "idle"
  BY DEF Quarantine, Compensate, Settle, At, Working, Positions
<1>2. row.stage \in ActiveStages /\ worker[w] \in Contexts /\ w \in fresh
  BY <1>1, Known
<1>3. row.stage # "completed"
  BY <1>2, EdgeToActive DEF TerminalStages
<1>4. CASE Settle(w)
  <2>1. /\ Become(w, Resting)
        /\ row' = row \/ row' = worker[w].next
    BY <1>2, <1>4 DEF Settle, Matches, Rest
  <2>2. row' # row => row'.stage = row.stage \/ row'.stage \in TerminalFailure
    BY <1>4, <2>1 DEF Settle, Alone
  <2>3. CASE row'.stage \in TerminalFailure
    <3>1. Resting.pc = "idle" /\ Resting.slot = "none"
      BY DEF Resting
    <3>2. row'.stage # "completed" /\ row'.stage \notin LateStages
      BY <2>3 DEF TerminalFailure, LateStages
    <3> HIDE DEF Resting
    <3>3. Delivered(Resting, row', files', catalog')
      BY <3>1, <3>2 DEF Delivered, Landing
    <3> QED BY <2>1, <3>3, DeliveredBecomes
  <2> QED BY <1>3, <2>1, <2>2, <2>3, RestDelivers
<1>5. CASE Quarantine(w)
  <2> DEFINE next == [worker[w].job EXCEPT !.status = "pending", !.code = worker[w].code]
             c == [worker[w] EXCEPT !.pc = "retry", !.next = next]
             b(to) == [worker[w] EXCEPT !.pc = "compensate", !.to = to]
  <2>1. c.pc = "retry" /\ \A to : b(to).pc = "compensate"
    BY <1>2 DEF Contexts
  <2>2. row' = row /\ (Become(w, c) \/ (\E to : Become(w, b(to))) \/ Become(w, Resting))
    BY <1>5 DEF Quarantine, Rest
  <2> HIDE DEF c, b
  <2> QED BY <1>3, <2>1, <2>2, PlainDelivers, RestDelivers DEF Holding
<1>6. CASE Compensate(w)
  <2>p. PICK gone : Become(w, [worker[w] EXCEPT !.pc = "settle", !.to = "none",
                      !.next = EndedRow(worker[w].job, worker[w].to, worker[w].code, gone)])
    BY <1>6 DEF Compensate
  <2> DEFINE c == [worker[w] EXCEPT !.pc = "settle", !.to = "none",
                     !.next = EndedRow(worker[w].job, worker[w].to, worker[w].code, gone)]
  <2>1. c.pc = "settle"
    BY <1>2 DEF Contexts
  <2>2. row' = row /\ Become(w, c)
    BY <1>6, <2>p DEF Compensate
  <2> HIDE DEF c
  <2> QED BY <1>3, <2>1, <2>2, PlainDelivers DEF Holding
<1> QED BY <1>4, <1>5, <1>6

\* People change neither the row nor a thread, and no file stops being there.
LEMMA HumanDelivers ==
  ASSUME IInv, NEW w \in Threads, Delivers(w), Human
  PROVE  Delivers(w)'
<1>0. UNCHANGED <<row, worker>>
  BY DEF Human, ApproveTransition, ApproveClean, EditClean
<1>1. /\ files'.note = files.note /\ catalog'.identity = catalog.identity
      /\ \A s \in Slots : files.clean[s] > 0 => files'.clean[s] > 0
  <2>1. CASE ApproveTransition
    BY <2>1 DEF ApproveTransition
  <2>2. ASSUME NEW s \in Slots, ApproveClean(s)
        PROVE  files' = files /\ catalog'.identity = catalog.identity
    BY <2>2 DEF ApproveClean, IInv, TypeOK
  <2>3. ASSUME NEW s \in Slots, EditClean(s)
        PROVE  <1>1
    <3>1. /\ files' = [files EXCEPT !.clean[s] = @ + 1]
          /\ files.clean[s] \in 1 .. MaxVersion - 1
      BY <2>3 DEF EditClean
    <3>2. /\ files'.note = files.note
          /\ files'.clean[s] = files.clean[s] + 1
          /\ \A x \in Slots \ {s} : files'.clean[x] = files.clean[x]
      BY <3>1 DEF IInv, TypeOK
    <3>3. catalog'.identity = catalog.identity
      BY <2>3 DEF EditClean, IInv, TypeOK
    <3>4. files'.clean[s] > 0
      BY <3>1, <3>2, PipelineAssumption
    <3> QED BY <3>2, <3>3, <3>4
  <2> QED BY <2>1, <2>2, <2>3 DEF Human
<1>2. \A r \in Rows : Output(r, files, catalog) => Output(r, files', catalog')
  BY <1>1 DEF Output, Rows
<1>3. row \in Rows /\ worker[w].next \in Rows
  BY DEF IInv, TypeOK, Contexts
<1>4. Delivered(worker[w], row, files', catalog')
  BY <1>2, <1>3 DEF Delivers, Delivered
<1> QED BY <1>0, <1>4 DEF Delivers

\* Until a cancellation is requested, nobody but the worker has entered the job.
Undisturbed ==
  ~row.cancel =>
    /\ \A v \in Threads \ Workers : worker[v].pc = "idle"
    /\ \A w \in Workers : Alone(w) /\ Delivers(w)

LEMMA RunningSteps ==
  ASSUME NEW v, Running(v)
  PROVE  worker[v].pc # "idle"
BY DEF Running, Handler, HandlerFault, Stabilize, CopyToDirty, SaveClean, RegisterCanonical,
   Unapproved, IndexChunks, PublishChunks, CompleteCapture, Generate, SaveNote, IndexNote,
   Complete, Extract, Loop, Boundary, Park, AdvanceRead, Commit, RewindIndex, DeleteSource,
   Failing, Quarantine, Compensate, Settle, FinalizePendingCancellation, Approved, Handling, At

LEMMA OneThreadMoves ==
  ASSUME IInv, NEW w \in Threads, Thread(w)
  PROVE  \A v \in Threads : v # w => worker'[v] = worker[v]
<1>1. worker' = worker \/ \E c : Become(w, c)
  BY DEF Thread, Running, Handler, HandlerFault, Stabilize, CopyToDirty, SaveClean,
     RegisterCanonical, Unapproved, IndexChunks, PublishChunks, CompleteCapture, Generate,
     SaveNote, IndexNote, Complete, Extract, Loop, Boundary, Park, AdvanceRead, Commit,
     RewindIndex, DeleteSource, Failing, Quarantine, Compensate, Settle, Resume, RefuseLlm,
     PollParked, RequestCancel, FinalizePendingCancellation, Reload, Rest, Raise, Advance
<1> QED BY <1>1 DEF Become, IInv, TypeOK

LEMMA ThreadDelivers ==
  ASSUME IInv, NEW w \in Threads, Alone(w), Delivers(w), Thread(w), ~RequestCancel(w)
  PROVE  Alone(w)' /\ Delivers(w)'
<1>1. row \in Rows /\ worker[w] \in Contexts
  BY DEF IInv, TypeOK
<1>2. CASE Running(w)
  <2>1. Alone(w)'
    BY <1>2, HandlerAlone, LoopAlone, BoundaryAlone, ParkDone, AdvanceReadAlone, CommitAlone,
       RewindAlone, DeleteAlone, FailingAlone, QuarantineAlone, CompensateAlone, SettleAlone,
       FinalizeAlone DEF Running
  <2>2. CASE Park(w)
    <3>1. worker[w].pc # "idle" /\ worker[w].pc \in Working
      BY <2>2 DEF Park, At, Working, Positions
    <3>2. row.stage # "completed"
      BY <3>1, Known, EdgeToActive DEF TerminalStages
    <3> QED BY <2>1, <2>2, <3>2, EntryDelivers
  <2>3. CASE ~Park(w)
    BY <1>2, <2>1, <2>3, HandlerDelivers, HeadDelivers, AdvanceReadDelivers, CommitDelivers,
       RewindDelivers, DeleteDelivers, EndDelivers DEF Running
  <2> QED BY <2>2, <2>3
<1>3. CASE Resume(w) \/ PollParked(w) \/ RefuseLlm(w)
  <2>1. row.stage # "completed"
    BY <1>3 DEF Resume, PollParked, Parked, RefuseLlm, TerminalStages
  <2>2. Delivers(w)'
    BY <1>3, <2>1, EntryDelivers
  <2>3. PollParked(w) => Alone(w)'
    BY DEF PollParked, Alone
  <2> QED BY <1>3, <2>2, <2>3, ResumeAlone, ParkDone
<1> QED BY <1>2, <1>3 DEF Thread

LEMMA StepUndisturbed ==
  ASSUME OneWorker, IInv, EveryoneFaithful, Undisturbed, [Next]_vars
  PROVE  Undisturbed'
<1> SUFFICES ASSUME ~row'.cancel
             PROVE  /\ \A v \in Threads \ Workers : worker'[v].pc = "idle"
                    /\ \A w \in Workers : Alone(w)' /\ Delivers(w)'
  BY DEF Undisturbed
<1>1. /\ ~row.cancel
      /\ \A v \in Threads \ Workers : worker[v].pc = "idle"
      /\ \A w \in Workers : w \in Threads /\ Alone(w) /\ Delivers(w)
  BY CancelSticks DEF Undisturbed, Threads
<1>2. ASSUME NEW u \in Threads, Thread(u)
      PROVE  /\ \A v \in Threads \ Workers : worker'[v].pc = "idle"
             /\ \A w \in Workers : Alone(w)' /\ Delivers(w)'
  <2>1. ~RequestCancel(u)
    <3>1. RequestCancel(u) => row'.cancel
      BY DEF RequestCancel, IInv, TypeOK, Rows
    <3> QED BY <3>1
  <2>2. u \in Workers
    BY <1>1, <1>2, <2>1, RunningSteps DEF Thread, RefuseLlm, Resume, PollParked, At
  <2>3. Alone(u)' /\ Delivers(u)'
    BY <1>1, <1>2, <2>1, <2>2, ThreadDelivers
  <2>4. \A v \in Threads \ Workers : worker'[v] = worker[v]
    BY <1>2, <2>2, OneThreadMoves
  <2> QED BY <1>1, <2>2, <2>3, <2>4 DEF OneWorker
<1>3. CASE Human
  <2>1. UNCHANGED <<row, fresh, worker>>
    BY <1>3 DEF Human, ApproveTransition, ApproveClean, EditClean
  <2> QED BY <1>1, <1>3, <2>1, HumanDelivers DEF Alone
<1>4. CASE Crash
  <2>1. /\ \A v \in Threads : worker'[v] = Resting
        /\ UNCHANGED <<row, files, catalog>>
    BY <1>4 DEF Crash
  <2>2. Resting.pc = "idle" /\ Resting.slot = "none"
    BY DEF Resting
  <2> HIDE DEF Resting
  <2>3. \A w \in Workers : Alone(w)' /\ Delivers(w)'
    BY <1>1, <2>1, <2>2 DEF Alone, Working, Delivers, Delivered, Landing
  <2> QED BY <2>1, <2>2, <2>3
<1>5. CASE UNCHANGED vars
  BY <1>1, <1>5 DEF vars, Alone, Delivers
<1> QED BY <1>2, <1>3, <1>4, <1>5 DEF Next

(* While one thread at a time runs the job, a job that is reported completed and was
   never asked to cancel has its output: the captured Markdown the row names, on disk,
   and its document identity -- or, with generation, the note -- whatever crashed, was
   refused, retried or edited before, and however many threads may ask to cancel. *)
THEOREM CompletedWasDelivered ==
  ASSUME OneWorker, Workers # {}
  PROVE  Spec => []CompletedHasOutput
<1>1. Init => EveryoneFaithful /\ Undisturbed
  <2> SUFFICES ASSUME Init PROVE EveryoneFaithful /\ Undisturbed
    OBVIOUS
  <2>1. row.stage = "discovered" /\ Resting.pc = "idle" /\ Resting.slot = "none"
    BY DEF Init, NewRow, Resting
  <2>2. \A w \in Threads : worker[w] = Resting
    BY DEF Init
  <2> HIDE DEF Resting
  <2>3. EveryoneFaithful
    BY <2>1, <2>2 DEF EveryoneFaithful, Faithful
  <2>4. \A w \in Workers : Alone(w) /\ Delivers(w)
    BY <2>1, <2>2 DEF Threads, Alone, Working, Delivers, Delivered, Landing, LateStages
  <2> QED BY <2>1, <2>2, <2>3, <2>4 DEF Undisturbed
<1>2. IInv /\ EveryoneFaithful /\ Undisturbed /\ [Next]_vars
        => (EveryoneFaithful /\ Undisturbed)'
  BY StepFaithful, StepUndisturbed
<1>3. Undisturbed => CompletedHasOutput
  <2> SUFFICES ASSUME Undisturbed, row.stage = "completed", ~row.cancel
               PROVE  IF LegacyAuto THEN DurableNote
                      ELSE HasClean(row) /\ catalog.identity = "clean"
    BY DEF CompletedHasOutput
  <2>1. PICK w \in Workers : Delivers(w)
    BY DEF Undisturbed
  <2> QED BY <2>1 DEF Delivers, Delivered, Output, DurableNote, HasClean
<1> QED BY <1>1, <1>2, <1>3, Inductive, PTL DEF Spec
=============================================================================
