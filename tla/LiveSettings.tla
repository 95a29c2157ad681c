----------------------------- MODULE LiveSettings -----------------------------
(* Saving the settings of a running Fuente: ConsoleController.save_settings(),
   SettingsService.apply(), and what they reach: the file, the console, the
   pipeline behind the lifecycle, and the services the console builds when they
   are first asked for. Calls of the window run on threads of their own, and
   nothing serialises them. *)
EXTENDS Naturals, TLC

CONSTANTS
  Urls,         \* addresses of Ollama
  Callers,      \* threads of the bridge
  Quotas,       \* bound: settings saved; questions asked to the chat and local models
                \* prepared; steps that fail
  none

VARIABLES
  disk,      \* config.json
  service,   \* SettingsService.config
  console,   \* ConsoleController
  pipe,      \* the lifecycle and its ETLPipeline
  thread,    \* the call each thread is in
  settled,   \* not in the program: the settings a call nobody overlapped left
  quota      \* bounds

settingsVars == <<disk, service, console, pipe, thread, settled, quota>>

-----------------------------------------------------------------------------
Profiles == {"auto", "eco_strict"}

Configs == [profile : Profiles, url : Urls]

(* What the settings dialog sends: the fields it changes. *)
Payloads == [{"profile"} -> Profiles] \union [{"url"} -> Urls]

(* SettingsService.prepare() *)
Prepared(payload) == payload @@ service

(* resolve_runtime_policy(): whether vectors are indexed follows from the profile,
   whether there is a model also from what was measured. *)
Policy(config, ready) ==
  [vectors |-> config.profile = "auto", model |-> ready /\ config.profile = "auto"]

Resting == [pc |-> "idle"]

(* Fuente has started: everything follows from the file, and the policy from what
   attach_lifecycle() could measure. *)
Init ==
  \E ready \in BOOLEAN :
    /\ disk \in Configs /\ service = disk
    /\ console = [config |-> disk, governor |-> disk.url, policy |-> Policy(disk, ready),
                  applying |-> FALSE, retrieval |-> none, chat |-> none]
    /\ pipe = [config |-> disk, governor |-> disk.url, policy |-> Policy(disk, ready),
               index |-> disk.profile = "auto"]
    /\ thread = [c \in Callers |-> Resting]
    /\ settled = [config |-> disk, services |-> TRUE]
    /\ quota \in Quotas

Spends(what) == quota[what] > 0 /\ quota' = [quota EXCEPT ![what] = @ - 1]

In(c, pc) == thread[c].pc = pc

Goes(c, context) == thread' = [thread EXCEPT ![c] = context]

Steps(c, pc) == Goes(c, [thread[c] EXCEPT !.pc = pc])

(* The call has no more use for what it planned. *)
Forgets(c, pc) ==
  Goes(c, [thread[c] EXCEPT !.pc = pc, !.payload = none, !.policy = none, !.next = none])

Unsettled == [config |-> none, services |-> FALSE]

Alone(c) == \A d \in Callers \ {c} : In(d, "idle")

Left(c) == IF Alone(c) THEN settled ELSE Unsettled

(* A call begins: whoever is in one is not alone any more. *)
Begins(c, context) ==
  /\ In(c, "idle")
  /\ thread' = [d \in Callers |->
       IF d = c THEN context
       ELSE IF In(d, "idle") THEN thread[d] ELSE [thread[d] EXCEPT !.alone = FALSE, !.left = Unsettled]]
  /\ settled' = Unsettled

(* It ends, and if nobody overlapped it, the settings are the ones it left. *)
Ends(c, left) ==
  /\ Goes(c, Resting)
  /\ settled' = IF thread[c].alone THEN left ELSE settled

-----------------------------------------------------------------------------
(* save_settings() *)

Save(c) ==
  /\ Spends("saves")
  /\ \E payload \in Payloads :
       /\ Prepared(payload) # service
       /\ Begins(c, [pc |-> "measure", payload |-> payload, next |-> Prepared(payload), policy |-> none,
                     before |-> [console EXCEPT !.applying = FALSE], alone |-> Alone(c), left |-> Left(c)])
  /\ UNCHANGED <<disk, service, console, pipe>>

(* A step fails with an ordinary exception: the call turns to the roll-back. *)
Fails(c) ==
  /\ Spends("faults") /\ Forgets(c, "undo")
  /\ console' = [console EXCEPT !.applying = FALSE]
  /\ UNCHANGED <<disk, service, pipe, settled>>

(* _measure_policy_for_config() *)
MeasurePolicy(c) ==
  /\ In(c, "measure")
  /\ \/ /\ \E ready \in BOOLEAN :
             Goes(c, [thread[c] EXCEPT !.pc = "write", !.policy = Policy(thread[c].next, ready)])
        /\ console' = [console EXCEPT !.applying = TRUE]
        /\ UNCHANGED <<disk, service, pipe, settled, quota>>
     \/ Fails(c)

(* apply() prepares once more, from the settings of that moment, and saves. *)
WriteConfig(c) ==
  LET config == Prepared(thread[c].payload) IN
  /\ In(c, "write")
  /\ \/ /\ disk' = config
        /\ Goes(c, [thread[c] EXCEPT !.pc = "apply", !.payload = none, !.next = config])
        /\ UNCHANGED <<service, console, pipe, settled, quota>>
     \/ Fails(c)

(* _apply_settings_config(): while a save is applying, the policy is left to it. *)
Applied(config) ==
  [console EXCEPT !.config = config, !.governor = config.url, !.chat = none,
                  !.policy = IF console.applying THEN @ ELSE Policy(config, FALSE)]

ApplyConfig(c) ==
  /\ In(c, "apply") /\ Steps(c, "configure")
  /\ service' = thread[c].next
  /\ console' = Applied(thread[c].next)
  /\ UNCHANGED <<disk, pipe, settled, quota>>

(* ETLPipeline.set_config() *)
Configured(config) == [pipe EXCEPT !.config = config, !.governor = config.url]

ConfigurePipeline(c) ==
  /\ In(c, "configure") /\ Steps(c, "policy")
  /\ pipe' = Configured(thread[c].next)
  /\ console' = [console EXCEPT !.applying = FALSE]
  /\ UNCHANGED <<disk, service, settled, quota>>

(* ETLPipeline.set_runtime_policy(): all of it, or nothing. *)
Governed(policy) ==
  [pipe EXCEPT !.policy = policy,
               !.index = policy.vectors \/ (@ /\ ~pipe.policy.vectors)]

SetPipelinePolicy(c) ==
  /\ In(c, "policy")
  /\ \/ /\ pipe' = Governed(thread[c].policy) /\ Steps(c, "adopt")
        /\ UNCHANGED <<disk, service, console, settled, quota>>
     \/ Fails(c)

AdoptPolicy(c) ==
  /\ In(c, "adopt") /\ Steps(c, "build")
  /\ console' = [console EXCEPT !.policy = thread[c].policy, !.retrieval = none, !.chat = none]
  /\ UNCHANGED <<disk, service, pipe, settled, quota>>

(* The services are built before the answer, so that a failure can be undone. *)
Built ==
  [console EXCEPT !.retrieval = IF @ = none THEN console.policy ELSE @,
                  !.chat = IF @ = none THEN console.config.url ELSE @]

BuildServices(c) ==
  /\ In(c, "build")
  /\ \/ /\ console' = Built
        /\ Ends(c, [config |-> thread[c].next, services |-> TRUE])
        /\ UNCHANGED <<disk, service, pipe, quota>>
     \/ Fails(c)

-----------------------------------------------------------------------------
(* _restore_live_settings(); when it fails itself, "settings_rollback_failed". *)

GivesUp(c) ==
  /\ Spends("faults") /\ Ends(c, Unsettled)
  /\ UNCHANGED <<disk, service, console, pipe>>

RestoreFile(c) ==
  /\ In(c, "undo")
  /\ \/ /\ disk' = thread[c].before.config /\ Steps(c, "undo_console")
        /\ UNCHANGED <<service, console, pipe, settled, quota>>
     \/ GivesUp(c)

(* Not the code: the policy of the failed save stays with the console. *)
RestoredButPolicy(before) ==
  [console EXCEPT !.config = before.config, !.governor = before.config.url]

Restored(before) ==
  [console EXCEPT !.config = before.config, !.governor = before.config.url,
                  !.policy = before.policy]

RestoreConsole(c) ==
  /\ In(c, "undo_console") /\ Steps(c, "undo_pipe")
  /\ service' = thread[c].before.config
  /\ console' = Restored(thread[c].before)
  /\ UNCHANGED <<disk, pipe, settled, quota>>

RestorePipeline(c) ==
  LET before == thread[c].before IN
  /\ In(c, "undo_pipe")
  /\ \/ /\ pipe' = [Governed(before.policy) EXCEPT !.config = before.config,
                                                   !.governor = before.config.url]
        /\ console' = [console EXCEPT !.retrieval = before.retrieval, !.chat = before.chat]
        /\ Ends(c, [config |-> before.config, services |-> thread[c].left.services])
        /\ UNCHANGED <<disk, service, quota>>
     \/ GivesUp(c)

-----------------------------------------------------------------------------
(* Other calls *)

(* get_chat_service() and get_retrieval_service(), when a question is asked. *)
Ask(c) ==
  /\ Spends("reads") /\ (console.retrieval = none \/ console.chat = none)
  /\ Begins(c, [pc |-> "keep", retrieval |-> Built.retrieval, chat |-> Built.chat,
                alone |-> Alone(c), left |-> Left(c)])
  /\ UNCHANGED <<disk, service, console, pipe>>

KeepServices(c) ==
  LET t == thread[c] IN
  /\ In(c, "keep") /\ Ends(c, t.left)
  /\ console' = [console EXCEPT !.retrieval = t.retrieval, !.chat = t.chat]
  /\ UNCHANGED <<disk, service, pipe, quota>>

(* prepare_local_ai(), once the model is there: the policy is measured anew. *)
PrepareModel(c) ==
  /\ Spends("reads")
  /\ \E ready \in BOOLEAN :
       Begins(c, [pc |-> "prepared", policy |-> Policy(console.config, ready),
                  alone |-> Alone(c), left |-> Left(c)])
  /\ UNCHANGED <<disk, service, console, pipe>>

AdoptPrepared(c) ==
  LET t == thread[c] IN
  /\ In(c, "prepared")
  /\ \/ /\ console' = [console EXCEPT !.policy = t.policy, !.retrieval = none, !.chat = none]
        /\ pipe' = Governed(t.policy)
        /\ Ends(c, t.left) /\ UNCHANGED quota
     \/ /\ console' = [console EXCEPT !.policy = t.policy]
        /\ Spends("faults") /\ Ends(c, Unsettled)
        /\ UNCHANGED pipe
  /\ UNCHANGED <<disk, service>>

Next ==
  \E c \in Callers :
    \/ Save(c) \/ MeasurePolicy(c) \/ WriteConfig(c) \/ ApplyConfig(c) \/ ConfigurePipeline(c)
    \/ SetPipelinePolicy(c) \/ AdoptPolicy(c) \/ BuildServices(c)
    \/ RestoreFile(c) \/ RestoreConsole(c) \/ RestorePipeline(c)
    \/ Ask(c) \/ KeepServices(c) \/ PrepareModel(c) \/ AdoptPrepared(c)

Spec == Init /\ [][Next]_settingsVars

-----------------------------------------------------------------------------
(* Properties *)

(* A save no other call overlapped leaves one set of settings behind, whatever
   overlapping calls left before it: the new ones when it succeeds, the old ones
   when any step of it failed and was rolled back. File, settings service, console
   and pipeline hold them, console and pipeline follow the same policy, and after
   a success the services in use were built from them. *)
AloneAgrees ==
  settled.config # none =>
    /\ disk = settled.config /\ service = settled.config
    /\ console.config = settled.config /\ console.governor = settled.config.url
    /\ pipe.config = settled.config /\ pipe.governor = settled.config.url
    /\ pipe.policy = console.policy /\ pipe.index = pipe.policy.vectors
    /\ settled.services => /\ console.retrieval \in {none, console.policy}
                           /\ console.chat \in {none, console.config.url}
=============================================================================
