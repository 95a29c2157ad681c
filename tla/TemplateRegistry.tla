-------------------------- MODULE TemplateRegistry -------------------------
(***************************************************************************)
(* application/templates.py: a template is two files, template.md and      *)
(* AGENTS.md, and a row with their hashes and a revision.  A save takes    *)
(* the row by compare-and-swap before it writes the files, one by one; a   *)
(* load registers the hashes of the files it found, and reads them again.  *)
(* One template stands for all; 0 is the packaged text.                    *)
(***************************************************************************)
EXTENDS AuthoredVault

CONSTANTS MaxVersion     \* bound: texts a person gives the template

VARIABLES template,   \* [template, agents]: the two files, or absent
          trow,       \* [revision, template, agents]: the registered row, or absent
          version,    \* the texts given so far
          promised,   \* history: the pair of the last save that was acknowledged
          raced       \* history: a save overlapped a load

registry == <<template, trow, version, promised, raced>>

Packaged == [template |-> 0, agents |-> 0]
Registered(revision, pair) == [revision |-> revision, template |-> pair.template,
                               agents |-> pair.agents]

Saving == {t \in Threads : pc[t] \in {"template", "agents", "first"}}
Loading == {t \in Threads : pc[t] \in {"load", "register template", "read template"}}

InitTemplates == /\ template = absent /\ trow = absent /\ version = 0
                 /\ promised = Packaged /\ raced = FALSE

(* load(): missing files are written from the package, the pair is read, the *)
(* row is inserted or its hashes replaced under the same revision, and the   *)
(* pair is read once more: that reading is what the caller works with.       *)
EnsureFiles(t) ==
    /\ On(t, "load")
    /\ template' = IF template = absent \/ template.agents = absent THEN Packaged ELSE template
    /\ raced' = (raced \/ Saving # {})
    /\ Proceed(t, "register template", [local[t] EXCEPT !.found = template'])
    /\ UNCHANGED <<vault, trow, version, promised>>

\* As if a row that exists were left as it is.
UpsertOnlyNew(t) ==
    /\ On(t, "register template")
    /\ trow' = IF trow = absent THEN Registered(1, local[t].found) ELSE trow
    /\ Proceed(t, "read template", [local[t] EXCEPT !.bundle = trow'])
    /\ UNCHANGED <<vault, template, version, promised, raced>>

UpsertTemplate(t) ==
    /\ On(t, "register template")
    /\ trow' = IF trow = absent THEN Registered(1, local[t].found)
                              ELSE Registered(trow.revision, local[t].found)
    /\ Proceed(t, "read template", [local[t] EXCEPT !.bundle = trow'])
    /\ UNCHANGED <<vault, template, version, promised, raced>>

ReadTemplate(t, next) ==
    /\ On(t, "read template")
    /\ Proceed(t, next, [local[t] EXCEPT !.pair = template])
    /\ UNCHANGED <<vault, registry>>

(* A person saves what they typed, restores the package, or restores only    *)
(* AGENTS.md, over the revision they saw: an older one is refused and leaves *)
(* everything as it is.                                                      *)
Given == {[template |-> version + 1, agents |-> version + 1], Packaged}
         \cup (IF template = absent \/ trow = absent THEN {} ELSE {[template |-> template.template, agents |-> 0]})

SaveTemplate(t, pair) ==
    /\ pair \in Given /\ version < MaxVersion /\ trow # absent
    /\ Start(t, "tailor", "template", [Nothing EXCEPT !.pair = pair])
    /\ version' = version + 1
    /\ trow' = Registered(trow.revision + 1, pair)
    /\ raced' = (raced \/ Loading # {})
    /\ UNCHANGED <<vault, template, promised>>

\* The first save of a template nobody has loaded writes its files before its row.
SaveFirst(t, pair) ==
    /\ pair \in Given /\ version < MaxVersion /\ trow = absent
    /\ Start(t, "tailor", "first", [Nothing EXCEPT !.pair = pair])
    /\ version' = version + 1
    /\ raced' = (raced \/ Loading # {})
    /\ UNCHANGED <<vault, template, trow, promised>>

WriteTemplate(t) ==
    /\ pc[t] \in {"template", "first"}
    /\ template' = [template |-> local[t].pair.template,
                    agents |-> IF template = absent THEN absent ELSE template.agents]
    /\ Proceed(t, "agents", local[t])
    /\ UNCHANGED <<vault, trow, version, promised, raced>>

WriteAgents(t) ==
    /\ On(t, "agents")
    /\ template' = [template EXCEPT !.agents = local[t].pair.agents]
    /\ promised' = local[t].pair
    /\ Proceed(t, "load", local[t])
    /\ UNCHANGED <<vault, trow, version, raced>>

SaveReturns(t) == On(t, "read template") /\ role[t] = "tailor" /\ Finish(t) /\ UNCHANGED <<vault, registry>>
=============================================================================
