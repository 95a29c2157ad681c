----------------------------- MODULE SmartNotes ----------------------------
(***************************************************************************)
(* application/smart_notes.py: generate() turns one approved capture into  *)
(* the notes of 4_procesado.  All of them are composed and staged first;   *)
(* then each in turn replaces its predecessor, is registered in the        *)
(* catalog and leaves a lineage row.  An error unlinks what was moved so   *)
(* far -- rows and lineage stay, and so do no earlier versions.            *)
(***************************************************************************)
EXTENDS TemplateRegistry

VARIABLE lineage     \* rows [note, text, revision, template], one per generated note

Generating(t) == pc[t] \in {"invalidate", "unlink", "move", "register", "revise", "lineage", "undo"}
Current(t) == Outputs[local[t].item]
\* The generator has note n in hand: an edit of it now is outside this model.
BeingReplaced(n) == \E t \in Threads : Generating(t) /\ Current(t) = n

(* The approval, the row and the file must all name the text to be read.     *)
Generate(t) ==
    /\ \A u \in Acting("generator") : On(u, "idle")
    /\ row[Source] # absent
    /\ Crossed(Source, row[Source].revision, row[Source].text)
    /\ files[Source] = row[Source].text
    /\ Start(t, "generator", "load", [Nothing EXCEPT !.origin = row[Source].text])
    /\ raced' = (raced \/ Saving # {})
    /\ UNCHANGED <<vault, template, trow, version, promised, lineage>>

(* The bundle is loaded twice: its AGENTS.md goes into the prompt, and once  *)
(* the model has answered the note is rendered, and its lineage taken, from  *)
(* what a second load finds.                                                 *)
ReadBundle(t) == /\ role[t] = "generator"
                 /\ ReadTemplate(t, IF local[t].told = absent THEN "ask" ELSE "stage")
                 /\ UNCHANGED lineage

(* The model answers with a body per note and the concepts it found; any     *)
(* answer that is not the expected object becomes the default bodies.        *)
AskModel(t) ==
    /\ On(t, "ask")
    /\ Proceed(t, "load", [local[t] EXCEPT !.told = [revision |-> local[t].bundle.revision,
                                                     agents |-> local[t].pair.agents]])
    /\ raced' = (raced \/ Saving # {})
    /\ UNCHANGED <<vault, template, trow, version, promised, lineage>>

Composed(t) == [by |-> "generator", base |-> local[t].origin, template |-> local[t].pair, told |-> local[t].told]

(* The plan: one text per output, all made before the first file is touched. *)
Stage(t) ==
    /\ On(t, "stage")
    /\ Len(made) + Len(Outputs) <= MaxTexts
    /\ made' = made \o [i \in DOMAIN Outputs |-> Composed(t)]
    /\ Proceed(t, "invalidate", [local[t] EXCEPT !.item = 1, !.first = Len(made)])
    /\ UNCHANGED <<role, files, row, crossing, seal, lock, crossed, crashed, disturbed, registry, lineage>>

Green(n) == /\ row[n] # absent /\ row[n].status = "approved"
            /\ seal[n] = [revision |-> row[n].revision, text |-> row[n].text, valid |-> TRUE]

Disturb(n) == disturbed' = IF lock[n] # absent THEN disturbed \cup {n} ELSE disturbed

InvalidateGreen(t) == LET n == Current(t) IN
    /\ On(t, "invalidate")
    /\ seal' = IF files[n] # absent /\ Green(n) THEN [seal EXCEPT ![n].valid = FALSE] ELSE seal
    /\ Proceed(t, "unlink", local[t])
    /\ UNCHANGED <<role, files, row, crossing, lock, made, crossed, crashed, disturbed, registry, lineage>>

UnlinkOld(t) == LET n == Current(t) IN
    /\ On(t, "unlink")
    /\ files' = [files EXCEPT ![n] = absent]
    /\ Disturb(n)
    /\ Proceed(t, "move", local[t])
    /\ UNCHANGED <<role, row, crossing, seal, lock, made, crossed, crashed, registry, lineage>>

\* As if a path were noted only once its note is registered.
MoveUnnoted(t) == LET n == Current(t) IN
    /\ On(t, "move")
    /\ files' = [files EXCEPT ![n] = local[t].first + local[t].item]
    /\ Disturb(n)
    /\ Proceed(t, "register", local[t])
    /\ UNCHANGED <<role, row, crossing, seal, lock, made, crossed, crashed, registry, lineage>>

MoveStaged(t) == LET n == Current(t) IN
    /\ On(t, "move")
    /\ files' = [files EXCEPT ![n] = local[t].first + local[t].item]
    /\ Disturb(n)
    /\ Proceed(t, "register", [local[t] EXCEPT !.moved = @ \cup {n}])
    /\ UNCHANGED <<role, row, crossing, seal, lock, made, crossed, crashed, registry, lineage>>

(* _register_catalog: the row is read, then inserted or revised over what    *)
(* was read; a revision that finds another row is an error.                  *)
AsSeen(n, seen) == IF seen = absent THEN row[n] = absent
                   ELSE row[n].revision = seen.revision /\ row[n].text = seen.text
ReadRow(t) == /\ On(t, "register")
              /\ Proceed(t, "revise", [local[t] EXCEPT !.expected = row[Current(t)]])
              /\ UNCHANGED <<vault, registry, lineage>>

RegisterCatalog(t) == LET n == Current(t)  text == local[t].first + local[t].item IN
    /\ On(t, "revise") /\ AsSeen(n, local[t].expected)
    /\ row' = [row EXCEPT ![n] = IF @ = absent THEN NewRow(text) ELSE Revised(n, text)]
    /\ Proceed(t, "lineage", local[t])
    /\ UNCHANGED <<role, files, crossing, seal, lock, made, crossed, crashed, disturbed, registry, lineage>>

RegisterRefused(t) == /\ On(t, "revise") /\ ~AsSeen(Current(t), local[t].expected)
                      /\ Proceed(t, "undo", local[t])
                      /\ UNCHANGED <<vault, registry, lineage>>

SaveLineage(t) == LET n == Current(t)  text == local[t].first + local[t].item
                      row_ == [revision |-> local[t].bundle.revision,
                               template |-> local[t].bundle.template, agents |-> local[t].bundle.agents] IN
    /\ On(t, "lineage")
    /\ lineage' = lineage \cup {[note |-> n, text |-> text, bundle |-> row_]}
    /\ IF local[t].item < Len(Outputs) THEN Proceed(t, "invalidate", [local[t] EXCEPT !.item = @ + 1])
                                       ELSE Finish(t)
    /\ UNCHANGED <<vault, registry>>

(* Anything may fail: the disk, the store, the model.                        *)
GenerationFails(t) ==
    \/ /\ role[t] = "generator" /\ pc[t] \in {"load", "register template", "read template", "ask", "stage"}
       /\ Finish(t) /\ UNCHANGED <<vault, registry, lineage>>
    \/ /\ pc[t] \in {"invalidate", "unlink", "move", "register", "revise", "lineage"}
       /\ Proceed(t, "undo", local[t]) /\ UNCHANGED <<vault, registry, lineage>>

UndoGeneration(t) ==
    /\ On(t, "undo")
    /\ files' = [n \in Notes |-> IF n \in local[t].moved THEN absent ELSE files[n]]
    /\ Finish(t)
    /\ UNCHANGED <<role, row, crossing, seal, lock, made, crossed, crashed, disturbed, registry, lineage>>
=============================================================================
