----------------------------- MODULE JobLifecycle -----------------------------
(* What an ingestion job promises to whoever watches it: one durable stage that
   only moves along the graph of domain/jobs.py or back to the human review,
   ends once, and says truthfully what became of the source. Nothing of the
   threads, files, indexes or retries that implement it is visible here. *)
EXTENDS JobStages

VARIABLES stage, source

lifecycle == <<stage, source>>

Init ==
  /\ stage = "discovered"
  /\ source = "inbox"

(* The job's next stage, or the shorter end of a capture. *)
Progress ==
  /\ stage \in ActiveStages
  /\ \/ stage' = NextStage[stage]
     \/ stage = "indexed_chunks" /\ stage' = "completed"
  /\ UNCHANGED source

(* The captured Markdown is no longer the approved one: back to the review. *)
BackToReview ==
  /\ stage \in Owners.clean \intersect ActiveStages
  /\ stage' = "saved_clean"
  /\ UNCHANGED source

(* The job ends without a result and leaves the source where it is. *)
End ==
  /\ stage \in ActiveStages
  /\ stage' \in {"failed", "cancelled", "skipped"}
  /\ UNCHANGED source

(* A source that cannot be processed is set aside before the job says so. *)
SetAside ==
  /\ stage \in ActiveStages /\ source = "inbox"
  /\ source' = "quarantine"
  /\ UNCHANGED stage

Quarantine ==
  /\ stage \in ActiveStages /\ source = "quarantine"
  /\ stage' = "quarantined"
  /\ UNCHANGED source

(* Only the source of a completed job is dropped. *)
DropSource ==
  /\ stage = "completed" /\ source = "inbox"
  /\ source' = "deleted"
  /\ UNCHANGED stage

Next == Progress \/ BackToReview \/ End \/ SetAside \/ Quarantine \/ DropSource

Spec == Init /\ [][Next]_lifecycle
=============================================================================
