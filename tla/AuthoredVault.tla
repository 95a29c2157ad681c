--------------------------- MODULE AuthoredVault ---------------------------
(***************************************************************************)
(* The notes that Fuente itself writes -- generated from an approved       *)
(* capture, refined from another note, or created by hand -- with what the *)
(* store says of each: its row (revision, hash, status), the approval of   *)
(* its transition 3_capturado -> 4_procesado and its processed approval.   *)
(* Threads act on them; a note's editor lock is taken by editors, refiners *)
(* and promoters, and never by the generator.                              *)
(***************************************************************************)
EXTENDS Naturals, Sequences, SequencesExt, FiniteSets

CONSTANTS Source,      \* the captured note others are made from
          Outputs,     \* what a generation (or an author) writes, in its order
          Candidate,   \* the refinement candidate of Source
          Promoted,    \* the candidate's copy in 4_procesado
          Threads, Casts,      \* who acts; as what: thread -> role, one of these
          Calls,       \* bound: how often a thread acts
          MaxTexts,    \* bound: texts ever made
          absent

Roles == {"generator", "tailor", "editor", "refiner", "evaluator", "promoter", "author", "none"}
ASSUME AuthoringAssumption ==
    /\ Outputs # <<>> /\ \A i, j \in DOMAIN Outputs : Outputs[i] = Outputs[j] => i = j
    /\ Outputs \in Seq(ToSet(Outputs))
    /\ Source # Candidate /\ Source # Promoted /\ Candidate # Promoted
    /\ {Source, Candidate, Promoted} \cap ToSet(Outputs) = {}
    /\ Casts \subseteq [Threads -> Roles] /\ Calls \in [Threads -> Nat] /\ MaxTexts \in Nat
    /\ absent \notin Nat \cup Threads \cup [revision : Nat, text : Nat]
                    \cup [revision : Nat, text : Nat, status : {"pending_review", "approved"}]
                    \cup [template : Nat, agents : Nat \cup {absent}]
                    \cup [revision : Nat, agents : Nat \cup {absent}]
                    \cup [revision : Nat, template : Nat, agents : Nat] \cup {"accepted"}

Notes == {Source, Candidate, Promoted} \cup ToSet(Outputs)

VARIABLES role,       \* thread -> what it does
          files,      \* note -> its text, or absent
          row,        \* note -> [revision, text, status] in the store, or absent
          crossing,   \* note -> [revision, text] approved to be processed
          seal,       \* note -> [revision, text, valid]: processed_approvals
          lock,       \* note -> the thread that holds its editor lock
          made,       \* the texts ever made, each [by, base, template, told]
          crossed,    \* history: the texts a person approved to be processed
          pc, local, calls,
          crashed,    \* history: a process died
          disturbed   \* history: the notes edited while the generator replaced them

\* Nothing in hand: what a call keeps in its local variables, for every role.
Nothing == [note |-> absent, todo |-> <<>>, expected |-> absent, before |-> absent, text |-> absent,
            revision |-> absent, origin |-> absent, found |-> absent, bundle |-> absent, pair |-> absent, told |-> absent,
            item |-> 0, first |-> 0, moved |-> {}]

vault == <<role, files, row, crossing, seal, lock, made, crossed, crashed, disturbed>>

On(t, step) == pc[t] = step
Proceed(t, step, record) == /\ pc' = [pc EXCEPT ![t] = step]
                         /\ local' = [local EXCEPT ![t] = record]
                         /\ UNCHANGED calls
Start(t, as, step, record) == /\ On(t, "idle") /\ role[t] = as /\ calls[t] < Calls[t]
                                /\ pc' = [pc EXCEPT ![t] = step]
                                /\ local' = [local EXCEPT ![t] = record]
                                /\ calls' = [calls EXCEPT ![t] = @ + 1]
Finish(t) == Proceed(t, "idle", Nothing)

Fresh == Len(made) + 1
Made(by, base, template) == /\ Len(made) < MaxTexts
                            /\ made' = Append(made, [by |-> by, base |-> base, template |-> template, told |-> absent])

Acting(as) == {t \in Threads : role[t] = as}
\* A refined note is known by its identity only; every other one is catalogued.
Catalogued == IF Acting("refiner") = {} THEN {Source} \cup ToSet(Outputs) ELSE {}
Agrees(n) == row[n] # absent /\ files[n] = row[n].text
Crossed(n, revision, text) == crossing[n] = [revision |-> revision, text |-> text]
NewRow(text) == [revision |-> 1, text |-> text, status |-> "pending_review"]
Revised(n, text) == [revision |-> row[n].revision + 1, text |-> text, status |-> "pending_review"]

(* Edits, of one note or of a batch one after the other (a Theme given to    *)
(* many notes, going on after an error): note, row and file are compared     *)
(* under the note's lock, the file is written, and the row follows if it is  *)
(* still the one that was read; if not, the text is put back.                *)
EditNotes(t, batch) ==
    /\ Start(t, "editor", "next", [Nothing EXCEPT !.todo = batch])
    /\ UNCHANGED vault

Editable(n) == files[n] # absent /\ row[n] # absent /\ (n \in Catalogued => Agrees(n))

BeginEdit(t, replaced) == LET n == Head(local[t].todo) IN
    /\ On(t, "next") /\ local[t].todo # <<>>
    /\ lock[n] = absent /\ Editable(n)
    /\ lock' = [lock EXCEPT ![n] = t]
    /\ disturbed' = disturbed \cup (replaced \cap {n})
    /\ Proceed(t, "edit", [local[t] EXCEPT !.expected = row[n], !.before = files[n]])
    /\ UNCHANGED <<role, files, row, crossing, seal, made, crossed, crashed>>

SkipEdit(t) == LET n == Head(local[t].todo) IN
    /\ On(t, "next") /\ local[t].todo # <<>>
    /\ ~Editable(n)
    /\ Proceed(t, "next", [local[t] EXCEPT !.todo = Tail(@)])
    /\ UNCHANGED vault

WriteEdit(t) == LET n == Head(local[t].todo) IN
    /\ On(t, "edit") /\ Made("person", files[n], absent)
    /\ files' = [files EXCEPT ![n] = Fresh]
    /\ Proceed(t, "record", [local[t] EXCEPT !.text = Fresh])
    /\ UNCHANGED <<role, row, crossing, seal, lock, crossed, crashed, disturbed>>

StillThere(n, expected) == /\ row[n].revision = expected.revision
                           /\ n \in Catalogued => row[n].text = expected.text

RecordEdit(t) == LET n == Head(local[t].todo)  kept == StillThere(n, local[t].expected) IN
    /\ On(t, "record")
    /\ row' = IF kept THEN [row EXCEPT ![n] = Revised(n, local[t].text)] ELSE row
    /\ files' = IF kept THEN files ELSE [files EXCEPT ![n] = local[t].before]
    /\ lock' = [lock EXCEPT ![n] = absent]
    /\ Proceed(t, "next", [local[t] EXCEPT !.todo = Tail(@)])
    /\ UNCHANGED <<role, crossing, seal, made, crossed, crashed, disturbed>>

EditsDone(t) == /\ On(t, "next") /\ local[t].todo = <<>>
                /\ Finish(t) /\ UNCHANGED vault

(* A person approves what the row and the file agree on: the crossing of a   *)
(* captured note, or a processed note -- whose approval, once invalidated,   *)
(* does not come back for the same revision and text.                        *)
ApproveCrossing(n) ==
    /\ Agrees(n) /\ ~Crossed(n, row[n].revision, row[n].text)
    /\ crossing' = [crossing EXCEPT ![n] = [revision |-> row[n].revision, text |-> row[n].text]]
    /\ crossed' = crossed \cup {row[n].text}
    /\ UNCHANGED <<role, files, row, seal, lock, made, crashed, disturbed, pc, local, calls>>

Sealed(n) == seal[n] # absent /\ seal[n].revision = row[n].revision /\ seal[n].text = row[n].text
ApproveProcessedNote(n) ==
    /\ Agrees(n) /\ ~Sealed(n)
    /\ seal' = [seal EXCEPT ![n] = [revision |-> row[n].revision, text |-> row[n].text, valid |-> TRUE]]
    /\ row' = [row EXCEPT ![n].status = "approved"]
    /\ UNCHANGED <<role, files, crossing, lock, made, crossed, crashed, disturbed, pc, local, calls>>

\* The process ends: its locks go with it, files and rows stay.
ProcessDies ==
    /\ ~crashed /\ crashed' = TRUE
    /\ \E t \in Threads : ~On(t, "idle")
    /\ pc' = [t \in Threads |-> "idle"] /\ local' = [t \in Threads |-> Nothing]
    /\ lock' = [n \in Notes |-> absent]
    /\ UNCHANGED <<role, files, row, crossing, seal, made, crossed, disturbed, calls>>
=============================================================================
