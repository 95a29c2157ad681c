------------------------------ MODULE JobStages ------------------------------
(* The pure stage machine and retry policy of domain/jobs.py: which stage may
   follow which, what a failing job has to clean up, and what a failure does to
   the source. The ingestion models call these operators where the code calls
   transition(), compensation_plan_for_stage() and evaluate_failure(). *)
EXTENDS Naturals

TerminalFailure == {"failed", "quarantined", "cancelled", "skipped"}

TerminalStages == TerminalFailure \union {"completed"}

(* The one stage each active stage advances to on its happy path. *)
NextStage ==
  [discovered          |-> "stabilized",
   stabilized          |-> "copied_dirty",
   copied_dirty        |-> "extracted",
   extracted           |-> "saved_clean",
   saved_clean         |-> "indexed_chunks",
   indexed_chunks      |-> "generated_candidate",
   generated_candidate |-> "validated_candidate",
   validated_candidate |-> "saved_note",
   saved_note          |-> "indexed_note",
   indexed_note        |-> "completed"]

ActiveStages == DOMAIN NextStage

Stages == ActiveStages \union TerminalStages

(* The transition graph: a terminal stage has no edge, an active one the next
   stage and every failure, and indexed_chunks may also end the capture. *)
IsEdge(from, to) ==
  /\ from \in ActiveStages
  /\ \/ to = NextStage[from]
     \/ to \in TerminalFailure
     \/ from = "indexed_chunks" /\ to = "completed"

(* The stages whose jobs are supposed to own each kind of artifact. *)
Owners ==
  LET late == {"saved_note", "indexed_note", "completed"}
      indexed == late \union {"indexed_chunks", "generated_candidate",
                              "validated_candidate"}
  IN [dirty       |-> indexed \union {"copied_dirty", "extracted", "saved_clean"},
      clean       |-> indexed \union {"saved_clean"},
      chunk_index |-> indexed,
      note        |-> late,
      note_index  |-> late \ {"saved_note"}]

(* compensation_plan_for_stage(): what a job failing from `stage` discards. *)
StageArtifacts(stage) == {kind \in DOMAIN Owners : stage \in Owners[kind]}

(* Retry classes: a code the policy does not know is permanent. *)
ErrorClass(code) ==
  CASE code = "transient_io" -> "transient_io"
    [] code \in {"corrupt_content", "unsupported_content"} -> "corrupt_or_unsupported"
    [] code = "invalid_model_output" -> "invalid_model_output"
    [] OTHER -> "permanent"

MaxAttempts ==
  [transient_io           |-> 3,
   corrupt_or_unsupported |-> 2,
   invalid_model_output   |-> 1,
   permanent              |-> 1]

(* evaluate_failure(): what a failure after `attempts` attempts leads to. *)
FailureAction(code, attempts) ==
  LET class == ErrorClass(code) IN
  IF class = "invalid_model_output" THEN "failed_for_review"
  ELSE IF attempts < MaxAttempts[class] THEN "retry"
  ELSE "quarantine"
=============================================================================
