---------------------------- MODULE NoteAuthoring --------------------------
(***************************************************************************)
(* Everything Fuente writes by itself into 4_procesado and the working     *)
(* notes: generation from templates, refinement, and notes created by a    *)
(* person (merged, from an assistant's answer, by hand), with the person   *)
(* who edits and approves and the process that may die.                    *)
(***************************************************************************)
EXTENDS SmartNotes, Refinement

authoringVars == <<vault, registry, lineage, refinement, pc, local, calls>>

AuthoringInit ==
    /\ role \in Casts
    /\ made = <<[by |-> "person", base |-> absent, template |-> absent, told |-> absent]>>
    /\ files = [n \in Notes |-> IF n = Source THEN 1 ELSE absent]
    /\ row = [n \in Notes |-> IF n = Source THEN NewRow(1) ELSE absent]
    /\ crossing = [n \in Notes |-> absent] /\ seal = [n \in Notes |-> absent]
    /\ lock = [n \in Notes |-> absent] /\ crossed = {}
    /\ crashed = FALSE /\ disturbed = {}
    /\ pc = [t \in Threads |-> "idle"] /\ local = [t \in Threads |-> Nothing] /\ calls = [t \in Threads |-> 0]
    /\ InitTemplates /\ lineage = {} /\ InitRefinement

(* A new note has a path of its own; its file is written under its lock,     *)
(* then comes the catalog row; a refusal of the catalog unlinks the file.    *)
NewNote(t, n, base) ==
    /\ files[n] = absent /\ row[n] = absent /\ lock[n] = absent
    /\ Made("person", base, absent)
    /\ Start(t, "author", "created", [Nothing EXCEPT !.note = n, !.text = Fresh])
    /\ lock' = [lock EXCEPT ![n] = t]
    /\ files' = [files EXCEPT ![n] = Fresh]
    /\ UNCHANGED <<role, row, crossing, seal, crossed, crashed, disturbed, registry, lineage, refinement>>

CreateMergedNote(t, n) == \E l, r \in Notes : l # r /\ Agrees(l) /\ Agrees(r) /\ NewNote(t, n, files[l])
CreateAssistantNote(t, n) == \E o \in ToSet(Outputs) : Agrees(o) /\ Green(o) /\ NewNote(t, n, files[o])
CreateManualNote(t, n) == NewNote(t, n, absent)

RegisterNote(t) == LET n == local[t].note IN
    /\ On(t, "created")
    /\ \/ row[n] = absent /\ row' = [row EXCEPT ![n] = NewRow(local[t].text)] /\ UNCHANGED files
       \/ files' = [files EXCEPT ![n] = absent] /\ UNCHANGED row          \* the store refuses
    /\ lock' = [lock EXCEPT ![n] = absent]
    /\ Finish(t)
    /\ UNCHANGED <<role, crossing, seal, made, crossed, crashed, disturbed, registry, lineage, refinement>>

Batches == {<<n>> : n \in Notes} \cup {Outputs}

Author == \E t \in Threads : \/ \E n \in ToSet(Outputs) : CreateMergedNote(t, n) \/ CreateAssistantNote(t, n) \/ CreateManualNote(t, n)
                            \/ RegisterNote(t)
Edit == /\ \E t \in Threads : \/ \E b \in Batches : EditNotes(t, b)
                              \/ BeginEdit(t, {n \in Notes : BeingReplaced(n)}) \/ SkipEdit(t) \/ WriteEdit(t)
                              \/ RecordEdit(t) \/ EditsDone(t)
        /\ UNCHANGED <<registry, lineage, refinement>>
Approve == /\ \/ \E n \in {Source, Candidate} : ApproveCrossing(n)
              \/ \E n \in ToSet(Outputs) : ApproveProcessedNote(n)
           /\ UNCHANGED <<registry, lineage, refinement>>
Tailor == /\ \E t \in Threads : \/ \E pair \in Given : SaveTemplate(t, pair) \/ SaveFirst(t, pair)
                                \/ EnsureFiles(t) \/ UpsertTemplate(t)
                                \/ WriteTemplate(t) \/ WriteAgents(t) \/ SaveReturns(t)
          /\ UNCHANGED <<lineage, refinement>>
GenerateNotes == /\ \E t \in Threads : \/ Generate(t) \/ ReadBundle(t) \/ AskModel(t) \/ Stage(t) \/ InvalidateGreen(t)
                                       \/ UnlinkOld(t) \/ MoveStaged(t) \/ ReadRow(t) \/ RegisterCatalog(t)
                                       \/ RegisterRefused(t) \/ SaveLineage(t)
                                       \/ GenerationFails(t) \/ UndoGeneration(t)
                 /\ UNCHANGED refinement
Refine == /\ \E t \in Threads : \/ ComposeCandidate(t) \/ PersistCandidate(t) \/ RefuseCandidate(t)
                                \/ CommitCandidate(t) \/ WriteCandidate(t) \/ IdentifyCandidate(t)
                                \/ ReadSnapshots(t)
                                \/ \E d \in {"accepted", "rejected", "needs_human_review"} : EvaluatePair(t, d)
                                \/ Promote(t) \/ CheckPromotion(t) \/ CopyPromoted(t)
                                \/ IdentifyPromoted(t) \/ ReleaseCandidate(t)
          /\ UNCHANGED <<registry, lineage>>
Die == ProcessDies /\ UNCHANGED <<registry, lineage, refinement>>

AuthoringNext == Author \/ Edit \/ Approve \/ Tailor \/ GenerateNotes \/ Refine \/ Die
AuthoringSpec == AuthoringInit /\ [][AuthoringNext]_authoringVars
-----------------------------------------------------------------------------
InHand(n) == \E t \in Threads : \/ Generating(t) /\ n = Current(t)
                                \/ On(t, "undo") /\ n \in local[t].moved
                                \/ lock[n] = t

(* Whatever failed and was undone, a note nobody has in hand is a text its   *)
(* row names, and a generated one has the lineage of exactly that text --    *)
(* unless the process died or a person edited the note while it was being    *)
(* replaced (generate() at smart_notes.py:220 takes no note lock).           *)
Accounted ==
    \A n \in ToSet(Outputs) :
        ~crashed /\ n \notin disturbed /\ ~InHand(n) /\ files[n] # absent
        => /\ Agrees(n)
           /\ made[files[n]].by = "generator" => \E l \in lineage : l.note = n /\ l.text = files[n]

(* A save that returned is what the files hold until the next one.  A        *)
(* lineage row names the template its note was rendered from, although a     *)
(* load registers what it read before it reads again (templates.py:113-130), *)
(* and the instructions the model was given -- or those of a later revision, *)
(* saved while it answered: never older ones.  A save that overlapped a load *)
(* is the exception.                                                         *)
TemplatesAreTrue ==
    ~raced =>
        /\ Saving = {} /\ ~crashed /\ template # absent => template = promised
        /\ \A l \in lineage : LET used == made[l.text] IN
              /\ l.bundle.template = used.template.template
              /\ l.bundle.agents = used.told.agents \/ used.told.revision < l.bundle.revision

(* A refined text in 4_procesado is one the verifier accepted and a person   *)
(* approved for the crossing, whoever edited the candidate in between        *)
(* (notes.py:1046-1080).                                                     *)
PromotedWasAccepted ==
    LET text == files[Promoted] IN
    text # absent /\ made[text].by = "refiner" => text \in judged \cap crossed

(* A candidate's file and identity never get ahead of its refinement row,    *)
(* and no second body takes its place: after a crash only the same text can  *)
(* be completed (notes.py:994-1030).                                         *)
CandidateIsCommitted ==
    /\ files[Candidate] # absent /\ made[files[Candidate]].by = "refiner"
       => candidate = CandidateRow(files[Candidate])
    /\ row[Candidate] # absent /\ row[Candidate].revision = 1 => candidate = CandidateRow(row[Candidate].text)

(* What the refiner, the verifier and the approver did to a note is what its  *)
(* files and rows say.                                                        *)
RefinementIsTrue == PromotedWasAccepted /\ CandidateIsCommitted
=============================================================================
