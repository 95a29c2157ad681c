----------------------- MODULE ResourceLeases_proofs -----------------------
(* Safety of ResourceLeases for any number of jobs, threads, models and
   restarts: no pool is overbooked and, with one thread per job, a stage runs
   under its lease and alone on its document. *)
EXTENDS ResourceLeases, FiniteSetTheorems, TLAPS

(* Where a thread has got to in admit(), and what it will claim with. *)
Sound(c) ==
  /\ c \in Contexts
  /\ c.pc # "idle" => c.job \in Jobs
  /\ c.pc \in {"claim", "book", "lock", "run"} => c.key \in Keys \ {"llm_generation"}
  /\ c.pc = "claim" => c.limit <= Cap(c.key)

IInv ==
  /\ TypeOK
  /\ \A w \in Workers : Sound(thread[w])
  /\ LeasesWithinLimit

(* With one thread per job: whose jobs are apart, and what a thread past its
   claim, or about to run a handler, still holds. *)
Apart ==
  \A v, w \in Workers : v # w /\ thread[v].pc # "idle" /\ thread[w].pc # "idle"
                        => thread[v].job # thread[w].job

Covered(c) ==
  /\ c.pc \in {"book", "lock", "run"} => <<c.job, c.key>> \in leases
  /\ c.pc = "run" /\ c.mutating => locks[Document[c.job]] = c.job

HInv == IInv /\ Apart /\ \A w \in Workers : Covered(thread[w])

-----------------------------------------------------------------------------
(* Lemmas *)

(* A context that only moves on is sound wherever nothing is claimed. *)
LEMMA Moved ==
  ASSUME NEW c, Sound(c), NEW pc \in Positions, NEW then \in {"idle", "head", "admit"},
         NEW j \in Jobs
  PROVE  /\ Sound(Resting)
         /\ pc \notin {"claim", "book", "lock", "run"} =>
              /\ Sound([Resting EXCEPT !.pc = pc, !.job = j])
              /\ Sound([Resting EXCEPT !.pc = pc, !.job = j, !.then = then])
         /\ c.pc # "idle" /\ pc \notin {"claim", "book", "lock", "run"} =>
              /\ Sound([c EXCEPT !.pc = pc])
              /\ Sound([c EXCEPT !.pc = pc, !.then = then])
<1> DEFINE r == [Resting EXCEPT !.pc = pc, !.job = j, !.then = then]
           s == [Resting EXCEPT !.pc = pc, !.job = j]
<1>1. Resting \in Contexts BY DEF Resting, Contexts, Positions
<1>2. c \in Contexts BY DEF Sound
<1>3. r \in Contexts /\ s \in Contexts BY <1>1, ZenonT(30) DEF Contexts
<1>4. r.pc = pc /\ r.job = j /\ s.pc = pc /\ s.job = j BY DEF Resting
<1>5. /\ [c EXCEPT !.pc = pc] \in Contexts
      /\ [c EXCEPT !.pc = pc, !.then = then] \in Contexts
  <2>1. [c EXCEPT !.pc = pc] \in Contexts BY <1>2, ZenonT(30) DEF Contexts
  <2>2. [c EXCEPT !.pc = pc, !.then = then] \in Contexts
      BY <1>2, ZenonT(30) DEF Contexts
  <2> QED BY <2>1, <2>2
<1>6. Sound(Resting) BY <1>1 DEF Sound, Resting
<1>7. ASSUME pc \notin {"claim", "book", "lock", "run"}
      PROVE  Sound(r) /\ Sound(s)
  <2> HIDE DEF r, s
  <2> QED BY <1>3, <1>4, <1>7 DEF Sound
<1>8. ASSUME c.pc # "idle", pc \notin {"claim", "book", "lock", "run"}
      PROVE  Sound([c EXCEPT !.pc = pc]) /\ Sound([c EXCEPT !.pc = pc, !.then = then])
  <2>1. c.job \in Jobs BY <1>8 DEF Sound
  <2>2. /\ [c EXCEPT !.pc = pc].pc = pc /\ [c EXCEPT !.pc = pc].job = c.job
        /\ [c EXCEPT !.pc = pc, !.then = then].pc = pc
        /\ [c EXCEPT !.pc = pc, !.then = then].job = c.job
      BY <1>2 DEF Contexts
  <2> QED BY <1>5, <1>8, <2>1, <2>2 DEF Sound
<1> QED BY <1>6, <1>7, <1>8

(* Only a pool a row is added to can fill up. *)
LEMMA FewerLeases ==
  ASSUME LeasesAssumption, LeasesWithinLimit, leases' \subseteq leases
  PROVE  LeasesWithinLimit'
<1> SUFFICES ASSUME NEW key \in Keys \ {"llm_generation"}
             PROVE  Cardinality(Holders(key)') <= Cap(key)
    BY DEF LeasesWithinLimit, Cap, Keys, Classes
<1>1. Holders(key)' \subseteq Holders(key) /\ Holders(key) \subseteq Jobs
    BY DEF Holders
<1>2. IsFiniteSet(Holders(key)) BY <1>1, FS_Subset DEF LeasesAssumption
<1>3. Cardinality(Holders(key)') <= Cardinality(Holders(key))
    BY <1>1, <1>2, FS_Subset
<1>4. Cardinality(Holders(key)) <= Cap(key) BY DEF LeasesWithinLimit
<1>5. /\ Cardinality(Holders(key)) \in Nat /\ Cardinality(Holders(key)') \in Nat
      /\ Cap(key) \in Nat
    BY <1>1, <1>2, FS_Subset, FS_CardinalityType DEF Cap
<1> QED BY <1>3, <1>4, <1>5

(* Adding the row of a job to a pool its other holders do not fill. *)
LEMMA OneMoreLease ==
  ASSUME LeasesAssumption, LeasesWithinLimit, NEW j \in Jobs, NEW key \in Keys,
         leases' = leases \union {<<j, key>>},
         \/ key = "llm_generation" \/ <<j, key>> \in leases
         \/ Cardinality(Holders(key) \ {j}) < Cap(key)
  PROVE  LeasesWithinLimit'
<1> SUFFICES ASSUME NEW k \in Keys \ {"llm_generation"}
             PROVE  Cardinality(Holders(k)') <= Cap(k)
    BY DEF LeasesWithinLimit, Cap, Keys, Classes
<1>1. Cardinality(Holders(k)) <= Cap(k) BY DEF LeasesWithinLimit
<1>2. CASE k # key \/ <<j, key>> \in leases
  <2>1. Holders(k)' = Holders(k) BY <1>2 DEF Holders
  <2> QED BY <1>1, <2>1
<1>3. CASE k = key /\ <<j, key>> \notin leases
  <2> DEFINE H == Holders(key) \ {j}
  <2>1. Holders(key)' = H \union {j} /\ j \notin H /\ H \subseteq Jobs
      BY DEF Holders
  <2>2. IsFiniteSet(H) BY <2>1, FS_Subset DEF LeasesAssumption
  <2>3. Cardinality(H \union {j}) = Cardinality(H) + 1
      BY <2>1, <2>2, FS_AddElement
  <2>4. Cardinality(H) \in Nat /\ Cap(key) \in Nat
      BY <2>2, FS_CardinalityType DEF Cap
  <2>5. Cardinality(H) < Cap(key) BY <1>3
  <2> QED BY <1>3, <2>1, <2>3, <2>4, <2>5
<1> QED BY <1>2, <1>3

(* What is left of IInv once one thread has moved to a sound context. *)
LEMMA ThreadMoved ==
  ASSUME IInv, NEW w \in Workers, NEW c, Sound(c), Goes(w, c)
  PROVE  thread' \in [Workers -> Contexts] /\ \A v \in Workers : Sound(thread'[v])
<1>1. thread \in [Workers -> Contexts] /\ \A v \in Workers : Sound(thread[v])
    BY DEF IInv, TypeOK
<1>2. c \in Contexts BY DEF Sound
<1>3. thread' = [thread EXCEPT ![w] = c] BY DEF Goes
<1>4. \A v \in Workers : thread'[v] = IF v = w THEN c ELSE thread[v]
    BY <1>1, <1>3
<1> QED BY <1>1, <1>2, <1>3, <1>4

(* Dropping a job's rows leaves rows of other jobs. *)
LEMMA DroppedRows ==
  ASSUME TypeOK, NEW j
  PROVE  Dropped(j) \subseteq leases /\ Dropped(j) \subseteq Jobs \X Keys
BY DEF Dropped, TypeOK

-----------------------------------------------------------------------------
(* The inductive invariant *)

LEMMA StartsWell == LeasesAssumption /\ Init => IInv
<1> SUFFICES ASSUME LeasesAssumption, Init PROVE IInv OBVIOUS
<1>1. Resting \in Contexts BY DEF Resting, Contexts, Positions
<1>2. \A w \in Workers : thread[w] = Resting BY DEF Init
<1>3. TypeOK
  <2>1. stage \in [Jobs -> Stages]
      BY DEF Init, LeasesAssumption, Stages
  <2>2. locks \in [Documents -> Jobs \union {none}] BY DEF Init
  <2>3. thread \in [Workers -> Contexts] BY <1>1 DEF Init
  <2> QED BY <2>1, <2>2, <2>3 DEF Init, TypeOK, LeasesAssumption
<1>4. \A w \in Workers : Sound(thread[w])
  <2>1. Sound(Resting) BY <1>1 DEF Sound, Resting
  <2> QED BY <1>2, <2>1
<1>5. LeasesWithinLimit
  <2>1. \A key \in Keys : Holders(key) = {} BY DEF Init, Holders
  <2>2. \A key \in Keys : Cap(key) \in {1, 2} BY DEF Cap
  <2> QED BY <2>1, <2>2, FS_EmptySet DEF LeasesWithinLimit
<1> QED BY <1>3, <1>4, <1>5 DEF IInv

(* Whatever a thread does inside resume() keeps the invariant. *)
LEMMA RunningKeeps ==
  ASSUME LeasesAssumption, IInv, NEW w \in Workers, Running(w)
  PROVE  IInv'
<1> DEFINE c == thread[w]
           j == c.job
<1>1. TypeOK /\ Sound(c) /\ LeasesWithinLimit BY DEF IInv
<1>2. c \in Contexts BY <1>1 DEF Sound
<1>3. ASSUME stage' \in [Jobs -> Stages], UNCHANGED <<unapproved, crashes>>,
             locks' \in [Documents -> Jobs \union {none}],
             leases' \subseteq Jobs \X Keys, LeasesWithinLimit',
             NEW d, Sound(d), Goes(w, d)
      PROVE  IInv'
  <2>1. thread' \in [Workers -> Contexts] /\ \A v \in Workers : Sound(thread'[v])
      BY <1>3, ThreadMoved
  <2> QED BY <1>1, <1>3, <2>1 DEF IInv, TypeOK, Sound
<1>4. CASE DropLeases(w)
  <2>1. Sound([c EXCEPT !.pc = "leave"])
    <3>1. j \in Jobs BY <1>1, <1>4 DEF DropLeases, At, Sound
    <3> QED BY <1>1, <1>4, <3>1, Moved DEF DropLeases, At, Positions
  <2>2. leases' \subseteq leases /\ leases' \subseteq Jobs \X Keys
      BY <1>1, <1>4, DroppedRows DEF DropLeases
  <2>3. LeasesWithinLimit' BY <1>1, <2>2, FewerLeases
  <2> QED BY <1>1, <1>3, <1>4, <2>1, <2>2, <2>3 DEF DropLeases, TypeOK
<1>5. CASE DropLocks(w)
  <2> DEFINE d == IF c.then = "idle" THEN Resting
                  ELSE [Resting EXCEPT !.pc = c.then, !.job = j]
  <2>1. Sound(d)
    <3>1. j \in Jobs BY <1>1, <1>5 DEF DropLocks, At, Sound
    <3>2. c.then \in Positions /\ c.then \notin {"claim", "book", "lock", "run"}
          /\ c.then \in {"idle", "head", "admit"}
        BY <1>2 DEF Contexts, Positions
    <3> QED BY <1>1, <3>1, <3>2, Moved
  <2>2. Goes(w, d) BY <1>5 DEF DropLocks
  <2>3. locks' \in [Documents -> Jobs \union {none}]
      BY <1>1, <1>5 DEF DropLocks, TypeOK
  <2>4. LeasesWithinLimit' BY <1>1, <1>5, FewerLeases DEF DropLocks
  <2> HIDE DEF d
  <2> QED BY <1>1, <1>3, <1>5, <2>1, <2>2, <2>3, <2>4 DEF DropLocks, TypeOK
<1>6. CASE Head(w)
  <2>1. LeasesWithinLimit' BY <1>1, <1>6, FewerLeases DEF Head
  <2>2. /\ j \in Jobs
        /\ Sound(Resting) /\ Sound(Releasing(w, "idle")) /\ Sound(Releasing(w, "admit"))
    <3>1. j \in Jobs BY <1>1, <1>6 DEF Head, At, Sound
    <3> QED BY <1>1, <1>6, <3>1, Moved DEF Head, At, Releasing, Positions
  <2>3. stage' \in [Jobs -> Stages]
      BY <1>1, <1>6, <2>2 DEF Head, TypeOK, Stages, TerminalStages, TerminalFailure
  <2>4. Goes(w, Resting) \/ Goes(w, Releasing(w, "idle")) \/ Goes(w, Releasing(w, "admit"))
      BY <1>6 DEF Head
  <2> QED BY <1>1, <1>3, <1>6, <2>1, <2>2, <2>3, <2>4 DEF Head, TypeOK
<1>7. CASE Evaluate(w)
  <2>1. LeasesWithinLimit' BY <1>1, <1>7, FewerLeases DEF Evaluate
  <2>2. j \in Jobs BY <1>1, <1>7 DEF Evaluate, At, Sound
  <2>3. Sound(Resting) BY <1>1, <2>2, Moved DEF Positions
  <2>4. ASSUME NEW key \in KeysOf(TaskClass(j)), NEW limit \in Limits(TaskClass(j)),
               NEW mutating \in BOOLEAN
        PROVE  Sound([c EXCEPT !.pc = "claim", !.key = key, !.limit = limit,
                               !.mutating = mutating])
    <3> DEFINE d == [c EXCEPT !.pc = "claim", !.key = key, !.limit = limit,
                              !.mutating = mutating]
    <3>1. /\ key \in Keys \ {"llm_generation"} /\ limit \in {1, 2}
          /\ limit <= Cap(key)
      <4>1. TaskClass(j) \in Classes
          BY <2>2 DEF TaskClass, Classes, LeasesAssumption
      <4> QED BY <4>1 DEF KeysOf, Limits, Keys, Classes, Cap, LeasesAssumption
    <3>2. d \in Contexts BY <1>2, <3>1, ZenonT(30) DEF Contexts, Positions
    <3>3. d.pc = "claim" /\ d.job = j /\ d.key = key /\ d.limit = limit
        BY <1>2 DEF Contexts
    <3> HIDE DEF d, c
    <3>4. Sound(d)
        BY <2>2, <3>1, <3>2, <3>3 DEF Sound
    <3> QED BY <3>4 DEF d
  <2> DEFINE mutating == stage[j] \in Mutating
  <2>5. mutating \in BOOLEAN OBVIOUS
  <2>6. Evaluate(w) =>
          \/ Goes(w, Resting)
          \/ \E key \in KeysOf(TaskClass(j)), limit \in Limits(TaskClass(j)) :
               Goes(w, [c EXCEPT !.pc = "claim", !.key = key, !.limit = limit,
                                 !.mutating = mutating])
      BY Zenon DEF Evaluate
  <2> HIDE DEF mutating, c
  <2>7. PICK d : Sound(d) /\ Goes(w, d) BY <1>7, <2>3, <2>4, <2>5, <2>6
  <2> QED BY <1>1, <1>3, <1>7, <2>1, <2>7 DEF Evaluate, TypeOK
<1>8. ASSUME c.pc \in {"claim", "book"}
      PROVE  Sound(Admitted(w)) /\ Sound([c EXCEPT !.pc = "book"])
  <2>1. j \in Jobs /\ c.key \in Keys \ {"llm_generation"} BY <1>1, <1>8 DEF Sound
  <2>2. ASSUME NEW pc \in {"lock", "run", "book"} PROVE Sound([c EXCEPT !.pc = pc])
    <3>1. [c EXCEPT !.pc = pc] \in Contexts BY <1>2, ZenonT(30) DEF Contexts, Positions
    <3>2. /\ [c EXCEPT !.pc = pc].pc = pc /\ [c EXCEPT !.pc = pc].job = j
          /\ [c EXCEPT !.pc = pc].key = c.key
        BY <1>2 DEF Contexts
    <3> QED BY <2>1, <3>1, <3>2 DEF Sound
  <2> QED BY <2>2 DEF Admitted
<1>9. CASE Claim(w)
  <2>1. /\ j \in Jobs /\ c.key \in Keys \ {"llm_generation"} /\ c.limit <= Cap(c.key)
      BY <1>1, <1>9 DEF Claim, At, Sound
  <2>2. Sound(Resting) BY <1>1, <2>1, Moved DEF Positions
  <2>3. PICK d : Sound(d) /\ Goes(w, d)
      BY <1>8, <1>9, <2>2 DEF Claim, At
  <2>4. leases' \subseteq Jobs \X Keys BY <1>1, <1>9, <2>1 DEF Claim, TypeOK
  <2>5. LeasesWithinLimit'
    <3>1. CASE UNCHANGED leases BY <1>1, <3>1, FewerLeases
    <3>2. CASE leases' = leases \union {<<j, c.key>>} /\ (<<j, c.key>> \in leases \/ ~Full(w))
      <4>1. Cardinality(Holders(c.key) \ {j}) \in Nat
        <5>1. Holders(c.key) \ {j} \subseteq Jobs BY DEF Holders
        <5> QED BY <5>1, FS_Subset, FS_CardinalityType DEF LeasesAssumption
      <4>2. c.limit \in {1, 2} /\ Cap(c.key) \in {1, 2} BY <1>2 DEF Contexts, Cap
      <4>3. ~Full(w) => Cardinality(Holders(c.key) \ {j}) < Cap(c.key)
          BY <2>1, <4>1, <4>2 DEF Full, OthersHold
      <4> QED BY <1>1, <2>1, <3>2, <4>3, OneMoreLease
    <3> QED BY <1>9, <3>1, <3>2 DEF Claim
  <2> QED BY <1>1, <1>3, <1>9, <2>3, <2>4, <2>5 DEF Claim, TypeOK
<1>10. CASE Book(w)
  <2>1. j \in Jobs BY <1>1, <1>10 DEF Book, At, Sound
  <2>2. Sound(Resting) BY <1>1, <2>1, Moved DEF Positions
  <2>3. PICK d : Sound(d) /\ Goes(w, d) BY <1>8, <1>10, <2>2 DEF Book, At
  <2>4. leases' \subseteq Jobs \X Keys
      BY <1>1, <1>10, <2>1 DEF Book, TypeOK, Keys, Classes
  <2>5. LeasesWithinLimit'
      BY <1>1, <1>10, <2>1, OneMoreLease DEF Book, Keys, Classes
  <2> QED BY <1>1, <1>3, <1>10, <2>3, <2>4, <2>5 DEF Book, TypeOK
<1>11. CASE Lock(w)
  <2>1. j \in Jobs /\ c.key \in Keys \ {"llm_generation"}
      BY <1>1, <1>11 DEF Lock, At, Sound
  <2>2. Sound(Resting) BY <1>1, <2>1, Moved DEF Positions
  <2>3. Sound([c EXCEPT !.pc = "run"])
    <3>1. [c EXCEPT !.pc = "run"] \in Contexts
        BY <1>2, ZenonT(30) DEF Contexts, Positions
    <3>2. /\ [c EXCEPT !.pc = "run"].pc = "run" /\ [c EXCEPT !.pc = "run"].job = j
          /\ [c EXCEPT !.pc = "run"].key = c.key
        BY <1>2 DEF Contexts
    <3> QED BY <2>1, <3>1, <3>2 DEF Sound
  <2>4. PICK d : Sound(d) /\ Goes(w, d) BY <1>11, <2>2, <2>3 DEF Lock
  <2>5. leases' \subseteq leases /\ leases' \subseteq Jobs \X Keys
      BY <1>1, <1>11, DroppedRows DEF Lock, TypeOK
  <2>6. locks' \in [Documents -> Jobs \union {none}]
      BY <1>1, <1>11, <2>1 DEF Lock, TypeOK, Documents
  <2>7. LeasesWithinLimit' BY <1>1, <2>5, FewerLeases
  <2> QED BY <1>1, <1>3, <1>11, <2>4, <2>5, <2>6, <2>7 DEF Lock, TypeOK
<1>12. CASE Run(w)
  <2>1. LeasesWithinLimit' BY <1>1, <1>12, FewerLeases DEF Run
  <2>2. /\ j \in Jobs
        /\ Sound(Releasing(w, "idle")) /\ Sound(Releasing(w, "head"))
    <3>1. j \in Jobs BY <1>1, <1>12 DEF Run, At, Sound
    <3> QED BY <1>1, <1>12, <3>1, Moved DEF Run, At, Releasing, Positions
  <2>3. stage' \in [Jobs -> Stages] BY <1>1, <1>12, <2>2 DEF Run, TypeOK
  <2>4. Goes(w, Releasing(w, "idle")) \/ Goes(w, Releasing(w, "head")) BY <1>12 DEF Run
  <2> QED BY <1>1, <1>3, <1>12, <2>1, <2>2, <2>3, <2>4 DEF Run, TypeOK
<1> QED BY <1>4, <1>5, <1>6, <1>7, <1>9, <1>10, <1>11, <1>12 DEF Running

(* Starting, cancelling, approving and crashing change no lease. *)
LEMMA NextKeeps ==
  ASSUME LeasesAssumption, IInv, [Next]_vars
  PROVE  IInv'
<1>1. TypeOK /\ (\A w \in Workers : Sound(thread[w])) /\ LeasesWithinLimit BY DEF IInv
<1>2. leases' = leases => LeasesWithinLimit' BY <1>1, FewerLeases
<1>3. ASSUME NEW w \in Workers, Running(w) PROVE IInv' BY <1>3, RunningKeeps
<1>4. ASSUME NEW w \in Workers, NEW j \in Jobs, Start(w, j) \/ CancelPending(w, j)
      PROVE  IInv'
  <2>1. PICK d : Sound(d) /\ Goes(w, d)
    <3>1. /\ Sound([Resting EXCEPT !.pc = "stale", !.job = j])
          /\ Sound([Resting EXCEPT !.pc = "stale", !.job = j, !.then = "head"])
        BY <1>1, Moved DEF Positions
    <3> QED BY <1>4, <3>1 DEF Start, CancelPending
  <2>2. thread' \in [Workers -> Contexts] /\ \A v \in Workers : Sound(thread'[v])
      BY <2>1, ThreadMoved
  <2>3. stage' \in [Jobs -> Stages]
      BY <1>1, <1>4 DEF Start, CancelPending, TypeOK, Stages, TerminalStages, TerminalFailure
  <2> QED BY <1>1, <1>2, <1>4, <2>2, <2>3 DEF Start, CancelPending, IInv, TypeOK, Sound
<1>5. ASSUME NEW j \in Jobs, Approve(j) PROVE IInv'
    BY <1>1, <1>2, <1>5 DEF Approve, IInv, TypeOK, Sound
<1>6. CASE Crash
  <2>1. Resting \in Contexts BY DEF Resting, Contexts, Positions
  <2>2. Sound(Resting) BY <2>1 DEF Sound, Resting
  <2>3. thread' \in [Workers -> Contexts] /\ \A w \in Workers : Sound(thread'[w])
      BY <1>6, <2>1, <2>2 DEF Crash
  <2>4. crashes' \in 0 .. MaxCrashes BY <1>1, <1>6 DEF Crash, TypeOK, LeasesAssumption
  <2> QED BY <1>1, <1>2, <1>6, <2>3, <2>4 DEF Crash, IInv, TypeOK, Sound
<1>7. CASE UNCHANGED vars BY <1>1, <1>2, <1>7 DEF vars, IInv, TypeOK, Sound
<1> QED BY <1>3, <1>4, <1>5, <1>6, <1>7 DEF Next

(* The shape of the tables and of every thread, and no pool overbooked. *)
THEOREM Inductive == Spec => []IInv
<1>1. LeasesAssumption BY LeasesAssumption
<1> QED BY <1>1, StartsWell, NextKeeps, PTL DEF Spec

(* The tables and the threads keep their shapes, for any jobs and threads. *)
THEOREM TypeCorrect == Spec => []TypeOK
<1>1. IInv => TypeOK BY DEF IInv
<1> QED BY <1>1, Inductive, PTL

(* No more jobs hold a lease than the budget ever allows for it, whatever the
   threads, the restarts and the orphans they leave: two jobs for text or for a
   model, one for the media and embedding classes. *)
THEOREM PoolsNeverOverbooked == Spec => []LeasesWithinLimit
<1>1. IInv => LeasesWithinLimit BY DEF IInv
<1> QED BY <1>1, Inductive, PTL

-----------------------------------------------------------------------------
(* One thread per job *)

(* What one thread's move must leave alone for the others to stay covered. *)
LEMMA OthersCovered ==
  ASSUME HInv, IInv', NEW w \in Workers, NEW d, Goes(w, d),
         \A v \in Workers \ {w} : thread[v].pc # "idle" =>
           /\ d.pc # "idle" => thread[v].job # d.job
           /\ \A key \in Keys : <<thread[v].job, key>> \in leases
                                => <<thread[v].job, key>> \in leases'
           /\ locks[Document[thread[v].job]] = thread[v].job
                => locks'[Document[thread[v].job]] = thread[v].job,
         d.pc \in {"book", "lock", "run"} => <<d.job, d.key>> \in leases',
         d.pc = "run" /\ d.mutating => locks'[Document[d.job]] = d.job
  PROVE  HInv'
<1>1. thread \in [Workers -> Contexts] /\ \A v \in Workers : Sound(thread[v])
    BY DEF HInv, IInv, TypeOK
<1>2. \A v \in Workers : thread'[v] = IF v = w THEN d ELSE thread[v]
    BY <1>1 DEF Goes
<1>3. Apart' BY <1>2 DEF HInv, Apart
<1>4. \A v \in Workers : Covered(thread[v])'
  <2> SUFFICES ASSUME NEW v \in Workers PROVE Covered(thread[v])' OBVIOUS
  <2>1. CASE v = w BY <1>2, <2>1 DEF Covered
  <2>2. CASE v # w
    <3>1. thread'[v] = thread[v] /\ Covered(thread[v]) /\ Sound(thread[v])
        BY <1>1, <1>2, <2>2 DEF HInv
    <3> QED BY <2>2, <3>1 DEF Covered, Sound
  <2> QED BY <2>1, <2>2
<1> QED BY <1>3, <1>4 DEF HInv

(* A thread inside resume() only takes and drops what its own job holds. *)
LEMMA RunningCovered ==
  ASSUME LeasesAssumption, HInv, NEW w \in Workers, Running(w)
  PROVE  HInv'
<1> DEFINE c == thread[w]
           j == c.job
<1>1. IInv' /\ IInv /\ Sound(c) /\ Covered(c)
    BY RunningKeeps DEF HInv, IInv
<1>2. c \in Contexts /\ c.pc # "idle" /\ j \in Jobs
    BY <1>1 DEF Sound, Running, DropLeases, DropLocks, Head, Evaluate, Claim, Book,
                Lock, Run, At
<1>3. \A v \in Workers \ {w} : thread[v].pc # "idle" =>
        thread[v].job # j /\ thread[v].job \in Jobs /\ thread[v].job # none
    BY <1>2 DEF HInv, Apart, IInv, Sound, LeasesAssumption
<1>4. \A v \in Workers \ {w} : thread[v].pc # "idle" =>
        \A key \in Keys : (<<thread[v].job, key>> \in leases
                           => <<thread[v].job, key>> \in Dropped(j))
    BY <1>3 DEF Dropped
<1>5. ASSUME NEW d, Goes(w, d), d.pc \notin {"book", "lock", "run"},
             d.pc # "idle" => d.job = j, leases' \in {leases, Dropped(j)},
             \A v \in Workers \ {w} : thread[v].pc # "idle" =>
               (locks[Document[thread[v].job]] = thread[v].job
                => locks'[Document[thread[v].job]] = thread[v].job)
      PROVE  HInv'
  <2> HIDE DEF c, j
  <2>1. \A v \in Workers \ {w} : thread[v].pc # "idle" /\ d.pc # "idle" => thread[v].job # d.job
      BY <1>3, <1>5
  <2>2. \A v \in Workers \ {w} : thread[v].pc # "idle" =>
          \A key \in Keys : <<thread[v].job, key>> \in leases
                            => <<thread[v].job, key>> \in leases'
      BY <1>4, <1>5
  <2> QED BY <1>1, <1>5, <2>1, <2>2, OthersCovered
<1>6. CASE DropLeases(w)
  <2>1. PICK d : d.pc = "leave" /\ d.job = j /\ Goes(w, d)
    <3>1. [c EXCEPT !.pc = "leave"].pc = "leave" /\ [c EXCEPT !.pc = "leave"].job = j
        BY <1>2 DEF Contexts
    <3> QED BY <1>6, <3>1 DEF DropLeases
  <2> QED BY <1>5, <1>6, <2>1 DEF DropLeases
<1>7. CASE DropLocks(w)
  <2>1. PICK d : /\ d.pc \notin {"book", "lock", "run"} /\ Goes(w, d)
                 /\ d.pc # "idle" => d.job = j
    <3>1. /\ [Resting EXCEPT !.pc = c.then, !.job = j].pc = c.then
          /\ [Resting EXCEPT !.pc = c.then, !.job = j].job = j
          /\ Resting.pc = "idle"
        BY DEF Resting
    <3>2. c.then \in {"idle", "head", "admit"} BY <1>2 DEF Contexts
    <3>3. \/ Goes(w, Resting) \/ Goes(w, [Resting EXCEPT !.pc = c.then, !.job = j])
        BY <1>7 DEF DropLocks
    <3> QED BY <3>1, <3>2, <3>3
  <2>2. \A v \in Workers \ {w} : thread[v].pc # "idle" =>
          (locks[Document[thread[v].job]] = thread[v].job
           => locks'[Document[thread[v].job]] = thread[v].job)
      BY <1>3, <1>7 DEF DropLocks, Documents
  <2> QED BY <1>5, <1>7, <2>1, <2>2 DEF DropLocks
<1>8. CASE Head(w) \/ Run(w)
  <2>1. PICK d : /\ d.pc \notin {"book", "lock", "run"} /\ Goes(w, d)
                 /\ d.pc # "idle" => d.job = j
    <3>1. ASSUME NEW then
          PROVE  Releasing(w, then).pc = "stale" /\ Releasing(w, then).job = j
        BY <1>2 DEF Releasing, Contexts
    <3>2. Resting.pc = "idle" BY DEF Resting
    <3> QED BY <1>8, <3>1, <3>2 DEF Head, Run
  <2> QED BY <1>5, <1>8, <2>1 DEF Head, Run
<1>9. CASE Evaluate(w)
  <2>1. PICK d : /\ d.pc \notin {"book", "lock", "run"} /\ Goes(w, d)
                 /\ d.pc # "idle" => d.job = j
    <3>1. ASSUME NEW key, NEW limit, NEW mutating
          PROVE  LET d == [c EXCEPT !.pc = "claim", !.key = key, !.limit = limit,
                                    !.mutating = mutating]
                 IN  d.pc = "claim" /\ d.job = j
        BY <1>2 DEF Contexts
    <3>2. Resting.pc = "idle" BY DEF Resting
    <3>3. Evaluate(w) =>
            \/ Goes(w, Resting)
            \/ \E key \in KeysOf(TaskClass(j)), limit \in Limits(TaskClass(j)) :
                 Goes(w, [c EXCEPT !.pc = "claim", !.key = key, !.limit = limit,
                                   !.mutating = stage[j] \in Mutating])
        BY Zenon DEF Evaluate
    <3> DEFINE e(key, limit) == [c EXCEPT !.pc = "claim", !.key = key, !.limit = limit,
                                          !.mutating = stage[j] \in Mutating]
    <3>4. \A key, limit : e(key, limit).pc = "claim" /\ e(key, limit).job = j
        BY <3>1
    <3>5. Goes(w, Resting) \/ \E key, limit : Goes(w, e(key, limit))
        BY <1>9, <3>3
    <3> HIDE DEF e, c, j
    <3> QED BY <3>2, <3>4, <3>5
  <2> QED BY <1>5, <1>9, <2>1 DEF Evaluate
<1>10. ASSUME NEW pc
       PROVE  LET d == [c EXCEPT !.pc = pc]
              IN  d.pc = pc /\ d.job = j /\ d.key = c.key /\ d.mutating = c.mutating
    BY <1>2 DEF Contexts
<1>11. CASE Claim(w) \/ Book(w)
  <2>1. CASE Goes(w, Resting)
    <3>1. Resting.pc = "idle" BY DEF Resting
    <3>2. leases \subseteq leases' /\ UNCHANGED locks BY <1>11 DEF Claim, Book
    <3> QED BY <1>1, <2>1, <3>1, <3>2, OthersCovered
  <2>2. CASE ~Goes(w, Resting)
    <3>1. PICK d : /\ Goes(w, d) /\ d.job = j /\ d.key = c.key
                   /\ d.pc = "run" => ~d.mutating
      <4>1. CASE Goes(w, [c EXCEPT !.pc = "book"]) BY <1>10, <4>1
      <4>2. CASE Goes(w, Admitted(w))
        <5> DEFINE d == [c EXCEPT !.pc = IF c.mutating THEN "lock" ELSE "run"]
        <5>1. /\ d.pc = IF c.mutating THEN "lock" ELSE "run"
              /\ d.job = j /\ d.key = c.key /\ d.mutating = c.mutating
            BY <1>10
        <5>2. Goes(w, d) BY <4>2 DEF Admitted
        <5>3. d.pc = "run" => ~d.mutating BY <5>1
        <5> HIDE DEF d
        <5> QED BY <5>1, <5>2, <5>3
      <4> QED BY <1>11, <2>2, <4>1, <4>2 DEF Claim, Book
    <3>2. <<j, c.key>> \in leases' /\ leases \subseteq leases' /\ UNCHANGED locks
        BY <1>1, <1>11, <2>2 DEF Claim, Book, Covered, At
    <3> QED BY <1>1, <1>3, <3>1, <3>2, OthersCovered
  <2> QED BY <2>1, <2>2
<1>12. CASE Lock(w)
  <2>1. CASE Goes(w, Resting) /\ leases' = Dropped(j) /\ UNCHANGED locks
    <3>1. Resting.pc = "idle" BY DEF Resting
    <3> QED BY <1>5, <2>1, <3>1
  <2>2. CASE /\ LockFree(j) /\ UNCHANGED leases
             /\ locks' = [locks EXCEPT ![Document[j]] = j]
             /\ Goes(w, [c EXCEPT !.pc = "run"])
    <3>1. PICK d : /\ Goes(w, d) /\ d.job = j /\ d.key = c.key /\ d.pc = "run"
        BY <1>10, <2>2
    <3>2. <<j, c.key>> \in leases BY <1>1, <1>12 DEF Covered, Lock, At
    <3>3. locks \in [Documents -> Jobs \union {none}] /\ Document[j] \in Documents
        BY <1>1, <1>2 DEF IInv, TypeOK, Documents
    <3>4. locks'[Document[j]] = j BY <2>2, <3>3
    <3>5. \A v \in Workers \ {w} : thread[v].pc # "idle" =>
            (locks[Document[thread[v].job]] = thread[v].job
             => locks'[Document[thread[v].job]] = thread[v].job)
        BY <1>3, <2>2, <3>3 DEF LockFree, Documents
    <3> QED BY <1>1, <1>3, <2>2, <3>1, <3>2, <3>4, <3>5, OthersCovered
  <2> QED BY <1>12, <2>1, <2>2 DEF Lock
<1> QED BY <1>6, <1>7, <1>8, <1>9, <1>11, <1>12 DEF Running

(* While no second thread enters a job that one is resuming. *)
LEMMA NextCovered ==
  ASSUME LeasesAssumption, ~Shared, HInv, [Next]_vars
  PROVE  HInv'
<1>1. IInv' /\ IInv BY NextKeeps DEF HInv
<1>2. ASSUME NEW w \in Workers, Running(w) PROVE HInv' BY <1>2, RunningCovered
<1>3. ASSUME NEW w \in Workers, NEW j \in Jobs, Start(w, j) \/ CancelPending(w, j)
      PROVE  HInv'
  <2>1. PICK d : Goes(w, d) /\ d.pc = "stale" /\ d.job = j
    <3>1. /\ [Resting EXCEPT !.pc = "stale", !.job = j].pc = "stale"
          /\ [Resting EXCEPT !.pc = "stale", !.job = j].job = j
          /\ [Resting EXCEPT !.pc = "stale", !.job = j, !.then = "head"].pc = "stale"
          /\ [Resting EXCEPT !.pc = "stale", !.job = j, !.then = "head"].job = j
        BY DEF Resting
    <3> QED BY <1>3, <3>1 DEF Start, CancelPending
  <2>2. \A v \in Workers : thread[v].job # j
      BY <1>3 DEF Start, CancelPending, InUse
  <2>3. UNCHANGED <<leases, locks>> BY <1>3 DEF Start, CancelPending
  <2> QED BY <1>1, <2>1, <2>2, <2>3, OthersCovered
<1>4. ASSUME UNCHANGED <<thread, leases, locks>> PROVE HInv'
    BY <1>1, <1>4 DEF HInv, Apart, Covered
<1>5. CASE Crash
  <2>1. \A w \in Workers : thread'[w] = Resting BY <1>5 DEF Crash
  <2>2. Resting.pc = "idle" BY DEF Resting
  <2>3. Apart' BY <2>1, <2>2 DEF Apart
  <2>4. \A w \in Workers : Covered(thread[w])' BY <2>1, <2>2 DEF Covered
  <2> QED BY <1>1, <2>3, <2>4 DEF HInv
<1>6. (\E j \in Jobs : Approve(j)) \/ UNCHANGED vars => UNCHANGED <<thread, leases, locks>>
    BY DEF Approve, vars
<1> QED BY <1>2, <1>3, <1>4, <1>5, <1>6 DEF Next

LEMMA StartsCovered == LeasesAssumption /\ Init => HInv
<1> SUFFICES ASSUME LeasesAssumption, Init PROVE HInv OBVIOUS
<1>1. \A w \in Workers : thread[w] = Resting BY DEF Init
<1>2. Resting.pc = "idle" BY DEF Resting
<1> QED BY <1>1, <1>2, StartsWell DEF HInv, Apart, Covered

(* With one thread per job, a stage only runs while its job holds the lease it
   was admitted with and, when it changes a document, that document's lock. *)
THEOREM AdmittedWhileRunning ==
  ASSUME ~Shared
  PROVE  Spec => []RunsUnderLease
<1>1. LeasesAssumption BY LeasesAssumption
<1>2. HInv => RunsUnderLease BY DEF HInv, Covered, RunsUnderLease, At
<1> QED BY <1>1, <1>2, StartsCovered, NextCovered, PTL DEF Spec

(* With one thread per job, no two threads change one document at a time, for
   any number of jobs of that document, threads and restarts. *)
THEOREM OneWriter ==
  ASSUME ~Shared
  PROVE  Spec => []OneWriterPerDocument
<1>1. LeasesAssumption BY LeasesAssumption
<1>2. HInv => OneWriterPerDocument
  <2> SUFFICES ASSUME HInv, NEW v \in Workers, NEW w \in Workers, v # w,
                      At(v, "run"), At(w, "run"),
                      thread[v].mutating, thread[w].mutating
               PROVE  Document[thread[v].job] # Document[thread[w].job]
      BY DEF OneWriterPerDocument
  <2>1. /\ locks[Document[thread[v].job]] = thread[v].job
        /\ locks[Document[thread[w].job]] = thread[w].job
      BY DEF HInv, Covered, At
  <2>2. thread[v].job # thread[w].job BY DEF HInv, Apart, At
  <2> QED BY <2>1, <2>2
<1> QED BY <1>1, <1>2, StartsCovered, NextCovered, PTL DEF Spec
=============================================================================
