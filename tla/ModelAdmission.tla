---------------------------- MODULE ModelAdmission ----------------------------
(* Which language model may run, and when: the memory budget of ram_governor,
   check_cycle_model(), the admission of application/scheduler.py by memory, and
   the two places where the user lets Fuente download a model. Free memory is a
   figure that is read, acted on, and read again later. Rows of leases and their
   races are in ResourceLeases; stages and retries in IngestionPipeline. *)
EXTENDS FiniteSets, Naturals, TLC

CONSTANTS
  Levels,       \* free memory in hundredths of a gigabyte; 0: it cannot be measured
  Total,        \* memory of the machine
  Margin,       \* ram_safety_margin_pct
  Override,     \* custom_model_override, or none
  AtFirst,      \* models Ollama has before Fuente starts
  Callers,      \* threads that resume a job or prepare the local model
  Notes,        \* jobs at generated_candidate
  Scans,        \* jobs about to read an image
  MaxMemory,    \* bound: changes of the free memory
  MaxOutages,   \* bound: requests Ollama does not answer
  none

VARIABLES
  free,      \* free memory now
  ollama,    \* models installed, and models loaded into memory
  policy,    \* RuntimePolicy.selected_model, or none
  caller,    \* what each thread is doing, has measured and has found
  done,      \* jobs that have left the stage they were waiting at
  offered,   \* the model a waiting job asks the user to confirm, or none
  left       \* bounds

modelVars == <<free, ollama, policy, caller, done, offered, left>>

-----------------------------------------------------------------------------
(* The budget: what each model needs, and what fits. *)

Ram == "qwen3.5:0.8b" :> 120 @@ "qwen2.5:0.5b" :> 100 @@ "qwen2.5:1.5b" :> 200
    @@ "qwen2.5:3b" :> 350 @@ "qwen2.5:7b" :> 650 @@ "qwen2.5:14b" :> 1200
    @@ "command-r:35b" :> 2400

Eco == "qwen2.5:1.5b"

(* RESOURCE_BUDGETS: reading an image, and a model the catalog does not know. *)
OcrNeed == 150
UnknownNeed == 200

Need(m) == IF m \in DOMAIN Ram THEN Ram[m] ELSE UnknownNeed

Usable(level) == (level * (100 - Margin)) \div 100

(* evaluate_resource(): nothing heavy is let in on memory nobody measured. *)
Fits(need, level) == level # 0 /\ need <= Usable(level)

(* The tier select_optimal_model() starts from. *)
Tier(level) ==
  CASE Total < 450 \/ level < 200 -> "qwen2.5:0.5b"
    [] Total >= 450 /\ level >= 200 /\ Total < 800 -> "qwen3.5:0.8b"
    [] Total >= 800 /\ level >= 200 /\ (Total = 800 \/ level <= 350) -> Eco
    [] Total > 800 /\ level > 350 /\ (level <= 1000 \/ Total <= 1600) -> "qwen2.5:3b"
    [] Total > 1600 /\ level > 1000 /\ (level <= 2000 \/ Total <= 3200) -> "qwen2.5:7b"
    [] Total > 3200 /\ level > 2000 /\ level <= 3200 -> "qwen2.5:14b"
    [] Total > 3200 /\ level > 3200 -> "command-r:35b"

(* select_optimal_model(): the largest model of the tier or below that fits. *)
Select(level) ==
  LET fitting == {m \in DOMAIN Ram : Ram[m] <= Ram[Tier(level)] /\ Fits(Ram[m], level)} IN
  IF level = 0 THEN Eco
  ELSE IF fitting = {} THEN none
  ELSE CHOOSE m \in fitting : \A n \in fitting : Ram[n] <= Ram[m]

(* _nominate_llm(): a name for the gate to judge, whatever the gate will say. *)
Nominate(level) ==
  IF Override # none THEN Override
  ELSE IF level = 0 THEN "qwen3.5:0.8b"
  ELSE IF Select(level) = none THEN Eco ELSE Select(level)

(* recommend_model() *)
Recommended(level) == IF Override # none THEN Override ELSE Select(level)

(* resolve_runtime_policy(): the configured or recommended model, if it fits what
   was measured and is installed. *)
Policy(level, installed) ==
  LET m == Recommended(level) IN
  IF m # none /\ m \in installed /\ (Override # none => Fits(Need(m), level)) THEN m ELSE none

-----------------------------------------------------------------------------
Resting == [pc |-> "idle", job |-> none, site |-> "arrive", asked |-> FALSE,
            target |-> none, seen |-> 0, lease |-> none]

Init ==
  /\ free \in Levels
  /\ ollama = [installed |-> AtFirst, loaded |-> {}]
  /\ policy = Policy(free, AtFirst)
  /\ caller = [c \in Callers |-> Resting]
  /\ done = {}
  /\ offered = [j \in Notes |-> none]
  /\ left = [memory |-> MaxMemory, outages |-> MaxOutages]

At(c, pc) == caller[c].pc = pc

Goes(c, context) == caller' = [caller EXCEPT ![c] = context]

(* Ollama does not answer. *)
Outage == left.outages > 0 /\ left' = [left EXCEPT !.outages = @ - 1]

(* Other programs take and free memory. *)
MemoryChanges ==
  /\ left.memory > 0 /\ left' = [left EXCEPT !.memory = @ - 1]
  /\ free' \in Levels \ {free}
  /\ UNCHANGED <<ollama, policy, caller, done, offered>>

-----------------------------------------------------------------------------
(* Resuming a job *)

Configured == IF policy # none THEN policy ELSE Override

(* resume(), by the poll, or by a user who lets it load a model or does not. *)
Resume(c, j, asked) ==
  /\ At(c, "idle") /\ j \notin done /\ \A d \in Callers : caller[d].job # j
  /\ asked => j \in Notes
  /\ Goes(c, [Resting EXCEPT !.pc = IF j \in Notes THEN "measure" ELSE "admit", !.job = j,
                             !.asked = asked, !.target = IF j \in Notes THEN Configured ELSE none])
  /\ UNCHANGED <<free, ollama, policy, done, offered, left>>

(* The readiness check says no: the job waits, with the model it could use; from
   within the stage it waits as for memory, with none. *)
Refuse(c, offer) ==
  /\ Goes(c, Resting)
  /\ offered' = [offered EXCEPT ![caller[c].job] = IF caller[c].site = "use" THEN none ELSE offer]
  /\ UNCHANGED done

(* It says yes to model m: resume() asks again at the head of its loop, then the
   scheduler; the generator asks a third time and uses m. *)
Allow(c, m, level) ==
  LET t == caller[c] IN
  /\ Goes(c, CASE t.site = "arrive" -> [t EXCEPT !.pc = "measure", !.site = "head",
                                                  !.target = Configured, !.seen = 0]
               [] t.site = "head" -> [t EXCEPT !.pc = "admit", !.target = none, !.seen = 0]
               [] t.site = "use" -> [t EXCEPT !.pc = "generate", !.target = m, !.seen = level])
  /\ UNCHANGED <<done, offered>>

(* check_cycle_model() measures. *)
Measure(c) ==
  LET t == caller[c] IN
  /\ At(c, "measure")
  /\ \/ free = 0 /\ Refuse(c, none)
     \/ /\ free # 0
        /\ Goes(c, [t EXCEPT !.pc = "look", !.seen = free,
                             !.target = IF @ = none THEN Select(free) ELSE @])
        /\ UNCHANGED <<done, offered>>
  /\ UNCHANGED <<free, ollama, policy, left>>

(* The model of the setup is installed and fits what was measured. *)
InPlace(t) ==
  t.target # none /\ t.target \in ollama.installed /\ Fits(Need(t.target), t.seen)

(* It looks at what is installed, and judges. *)
Look(c) ==
  LET t == caller[c]
      compatible == Select(t.seen)
      loads == ~InPlace(t) /\ compatible # none /\ t.asked IN
  /\ At(c, "look")
  /\ \/ Outage /\ Refuse(c, none)
     \/ InPlace(t) /\ Allow(c, t.target, t.seen) /\ UNCHANGED left
     \/ ~InPlace(t) /\ ~loads /\ Refuse(c, compatible) /\ UNCHANGED left
     \/ /\ loads
        /\ Goes(c, [t EXCEPT !.pc = IF compatible \in ollama.installed THEN "remeasure" ELSE "pull",
                             !.target = compatible])
        /\ UNCHANGED <<done, offered, left>>
  /\ UNCHANGED <<free, ollama, policy>>

(* ensure_model_available(authorize_download=True): up to ten minutes later the
   model is there, or the answer is no. *)
Pull(c) ==
  /\ At(c, "pull")
  /\ \/ /\ ollama' = [ollama EXCEPT !.installed = @ \union {caller[c].target}]
        /\ Goes(c, [caller[c] EXCEPT !.pc = "remeasure"])
        /\ UNCHANGED <<done, offered, left>>
     \/ Outage /\ Refuse(c, caller[c].target) /\ UNCHANGED ollama
  /\ UNCHANGED <<free, policy>>

(* Not the code: what fitted before the download still does. *)
FitsStillAssumed(t) == TRUE

FitsStill(t) == Fits(Need(t.target), free)

Remeasure(c) ==
  LET t == caller[c] IN
  /\ At(c, "remeasure")
  /\ IF FitsStill(t) THEN Allow(c, t.target, free) ELSE Refuse(c, t.target)
  /\ UNCHANGED <<free, ollama, policy, left>>

-----------------------------------------------------------------------------
(* Admission *)

Leases(key) == Cardinality({c \in Callers : caller[c].lease = key})

(* A job waits for memory or for a slot: the reason is recorded, no model is. *)
Wait(c) ==
  /\ Goes(c, Resting)
  /\ offered' = IF caller[c].job \in Notes THEN [offered EXCEPT ![caller[c].job] = none] ELSE offered

(* Two generations of a model at a time, when twice its size is free. *)
Slots(m) == IF 2 * Need(m) <= Usable(free) THEN 2 ELSE 1

(* admit() of a note: the gate judges a nomination of its own. *)
AdmitNote(c) ==
  LET m == Nominate(free) IN
  /\ At(c, "admit") /\ caller[c].job \in Notes
  /\ IF Fits(Need(m), free) /\ Leases(m) < Slots(m)
     THEN Goes(c, [caller[c] EXCEPT !.pc = "use", !.lease = m]) /\ UNCHANGED offered
     ELSE Wait(c)
  /\ UNCHANGED <<free, ollama, policy, done, left>>

(* admit() of a scan: models that are loaded are asked to leave first. *)
AdmitScan(c) ==
  /\ At(c, "admit") /\ caller[c].job \in Scans
  /\ \/ /\ Fits(OcrNeed, free) /\ Leases("media_ocr") = 0
        /\ Goes(c, [caller[c] EXCEPT !.pc = "extract", !.lease = "media_ocr"])
        /\ \/ ollama' = [ollama EXCEPT !.loaded = {}] /\ UNCHANGED left
           \/ Outage /\ UNCHANGED ollama
        /\ UNCHANGED offered
     \/ /\ ~(Fits(OcrNeed, free) /\ Leases("media_ocr") = 0)
        /\ Wait(c) /\ UNCHANGED <<ollama, left>>
  /\ UNCHANGED <<free, policy, done>>

(* _selected_model(): once more the gate, then check_cycle_model() again. *)
Use(c) ==
  LET m == IF policy # none THEN policy ELSE Nominate(free) IN
  /\ At(c, "use")
  /\ IF Fits(Need(m), free)
     THEN /\ Goes(c, [caller[c] EXCEPT !.pc = "measure", !.site = "use", !.target = m])
          /\ UNCHANGED offered
     ELSE Wait(c)
  /\ UNCHANGED <<free, ollama, policy, done, left>>

(* The stage runs: a generation loads its model, and the job goes on. *)
Work(c) ==
  /\ \/ /\ At(c, "generate")
        /\ ollama' = [ollama EXCEPT !.loaded = @ \union {caller[c].target}]
     \/ At(c, "extract") /\ UNCHANGED ollama
  /\ done' = done \union {caller[c].job}
  /\ Goes(c, Resting)
  /\ UNCHANGED <<free, policy, offered, left>>

-----------------------------------------------------------------------------
(* prepare_local_ai(): the user asks for the local model. *)

Prepare(c) ==
  /\ At(c, "idle") /\ Recommended(free) # none
  /\ Goes(c, [Resting EXCEPT !.pc = "fetch", !.target = Recommended(free)])
  /\ UNCHANGED <<free, ollama, policy, done, offered, left>>

Fetch(c) ==
  /\ At(c, "fetch")
  /\ \/ /\ ollama' = [ollama EXCEPT !.installed = @ \union {caller[c].target}]
        /\ Goes(c, [caller[c] EXCEPT !.pc = "adopt"]) /\ UNCHANGED left
     \/ Outage /\ Goes(c, Resting) /\ UNCHANGED ollama
  /\ UNCHANGED <<free, policy, done, offered>>

(* The policy is derived from a new measurement; without Ollama it has no model. *)
Adopt(c) ==
  /\ At(c, "adopt") /\ Goes(c, Resting)
  /\ \/ policy' = Policy(free, ollama.installed) /\ UNCHANGED left
     \/ Outage /\ policy' = none
  /\ UNCHANGED <<free, ollama, done, offered>>

Proceeds(c) ==
  \/ Measure(c) \/ Look(c) \/ Pull(c) \/ Remeasure(c)
  \/ AdmitNote(c) \/ AdmitScan(c) \/ Use(c) \/ Work(c) \/ Fetch(c) \/ Adopt(c)

Next ==
  \/ \E c \in Callers :
       \/ Proceeds(c) \/ Prepare(c)
       \/ \E j \in Notes \union Scans, asked \in BOOLEAN : Resume(c, j, asked)
  \/ MemoryChanges

Spec == Init /\ [][Next]_modelVars

-----------------------------------------------------------------------------
(* Properties *)

(* A note is generated only by a model that is installed and that fits the last
   memory its call measured, downloads of ten minutes notwithstanding; a model
   nobody let Fuente load is the one its configuration or policy names, or the one
   the scheduler nominated. *)
ModelIsReady ==
  \A c \in Callers : At(c, "generate") =>
    /\ caller[c].target \in ollama.installed
    /\ Fits(Need(caller[c].target), caller[c].seen)
=============================================================================
