----------------------------- MODULE Refinement ----------------------------
(***************************************************************************)
(* Refinement of a note: a candidate text is persisted once, under the     *)
(* source's lock and against the source that was read; a verifier gives    *)
(* its verdict on what it read; and a candidate that was accepted, and     *)
(* whose crossing a person approved, is copied to 4_procesado.             *)
(* (notes.py 921-1124, refinement.py, sqlite_store.py 269-383.)            *)
(***************************************************************************)
EXTENDS AuthoredVault

VARIABLES candidate,   \* [revision, text]: the refinement_candidates row, or absent
          verdict,     \* "accepted", "rejected", "needs_human_review" or absent
          judged       \* history: the texts the verifier accepted

refinement == <<candidate, verdict, judged>>
InitRefinement == candidate = absent /\ verdict = absent /\ judged = {}

Takes(t, n) == lock[n] = absent /\ lock' = [lock EXCEPT ![n] = t]
Unlocked(n) == lock' = [lock EXCEPT ![n] = absent]

(* A refiner reads the source and composes a text for it; called again with  *)
(* the same facts, it comes with the same text.                              *)
Composing == [Nothing EXCEPT !.expected = [revision |-> row[Source].revision, text |-> files[Source]]]
ComposeCandidate(t) ==
    /\ row[Source] # absent /\ files[Source] # absent
    /\ \/ /\ Made("refiner", files[Source], absent)
          /\ Start(t, "refiner", "persist", [Composing EXCEPT !.text = Fresh])
       \/ \E x \in DOMAIN made :
            /\ made[x].by = "refiner" /\ made[x].base = files[Source]
            /\ Start(t, "refiner", "persist", [Composing EXCEPT !.text = x])
            /\ UNCHANGED made
    /\ UNCHANGED <<role, files, row, crossing, seal, lock, crossed, crashed, disturbed, refinement>>

SourceIs(e) == row[Source].revision = e.revision /\ row[Source].text = files[Source] /\ files[Source] = e.text

PersistCandidate(t) ==
    /\ On(t, "persist")
    /\ Takes(t, Source)
    /\ Proceed(t, IF SourceIs(local[t].expected) THEN "commit" ELSE "refuse", local[t])
    /\ UNCHANGED <<role, files, row, crossing, seal, made, crossed, crashed, disturbed, refinement>>

RefuseCandidate(t) == /\ On(t, "refuse") /\ Unlocked(Source) /\ Finish(t)
                      /\ UNCHANGED <<role, files, row, crossing, seal, made, crossed, crashed, disturbed, refinement>>

(* save_refinement_candidate: inserted once; another identity is an error.   *)
CandidateRow(text) == [revision |-> 1, text |-> text]
CommitCandidate(t) == LET x == local[t].text IN
    /\ On(t, "commit")
    /\ IF files[Candidate] \notin {absent, x} \/ candidate \notin {absent, CandidateRow(x)}
       THEN Proceed(t, "refuse", local[t]) /\ UNCHANGED candidate
       ELSE /\ candidate' = CandidateRow(x)
            /\ Proceed(t, IF files[Candidate] = absent THEN "write" ELSE "identify", local[t])
    /\ UNCHANGED <<vault, verdict, judged>>

WriteCandidate(t) ==
    /\ On(t, "write")
    /\ files' = [files EXCEPT ![Candidate] = local[t].text]
    /\ Proceed(t, "identify", local[t])
    /\ UNCHANGED <<role, row, crossing, seal, lock, made, crossed, crashed, disturbed, refinement>>

IdentifyCandidate(t) == LET n == Candidate IN
    /\ On(t, "identify")
    /\ row' = IF row[n] = absent THEN [row EXCEPT ![n] = NewRow(local[t].text)] ELSE row
    /\ Unlocked(Source)
    /\ Finish(t)
    /\ UNCHANGED <<role, files, crossing, seal, made, crossed, crashed, disturbed, refinement>>

(* evaluate_pair: the snapshots are read, the verifier asked, and the        *)
(* verdict saved for the revision and text that were read -- once.           *)
ReadSnapshots(t) ==
    /\ files[Candidate] # absent /\ row[Candidate] # absent
    /\ Start(t, "evaluator", "verify", [Nothing EXCEPT !.expected = [revision |-> row[Candidate].revision, text |-> files[Candidate]]])
    /\ UNCHANGED <<vault, refinement>>

EvaluatePair(t, decision) ==
    /\ On(t, "verify")
    /\ IF candidate \notin {absent, local[t].expected} \/ verdict \notin {absent, decision}
       THEN UNCHANGED refinement
       ELSE /\ candidate' = local[t].expected /\ verdict' = decision
            /\ judged' = IF decision = "accepted" THEN judged \cup {local[t].expected.text} ELSE judged
    /\ Finish(t)
    /\ UNCHANGED vault

(* promote_refinement_candidate: everything is checked under the candidate's *)
(* lock; the copy is written unless it is there, and must be the identity's. *)
\* As if the verifier's verdict were enough.
PromotableUnapproved(revision) ==
    /\ candidate # absent /\ verdict = "accepted" /\ candidate.revision = revision
    /\ row[Candidate] # absent /\ row[Candidate].revision = revision
    /\ files[Candidate] = candidate.text

Promotable(revision) ==
    /\ candidate # absent /\ verdict = "accepted" /\ candidate.revision = revision
    /\ row[Candidate] # absent /\ row[Candidate].revision = revision
    /\ files[Candidate] = candidate.text
    /\ Crossed(Candidate, revision, files[Candidate])

Promote(t) ==
    /\ candidate # absent /\ files[Candidate] # absent
    /\ Start(t, "promoter", "promote", [Nothing EXCEPT !.revision = candidate.revision])
    /\ Takes(t, Candidate)
    /\ UNCHANGED <<role, files, row, crossing, seal, made, crossed, crashed, disturbed, refinement>>

CheckPromotion(t) ==
    /\ On(t, "promote")
    /\ IF Promotable(local[t].revision) /\ files[Promoted] \in {absent, files[Candidate]}
       THEN Proceed(t, "copy", [Nothing EXCEPT !.text = files[Candidate], !.before = files[Promoted]])
       ELSE Proceed(t, "released", local[t])
    /\ UNCHANGED <<vault, refinement>>

CopyPromoted(t) ==
    /\ On(t, "copy")
    /\ files' = IF local[t].before = absent THEN [files EXCEPT ![Promoted] = local[t].text] ELSE files
    /\ Proceed(t, "identity", local[t])
    /\ UNCHANGED <<role, row, crossing, seal, lock, made, crossed, crashed, disturbed, refinement>>

IdentifyPromoted(t) ==
    /\ On(t, "identity")
    /\ \/ /\ row[Promoted] = absent
          /\ row' = [row EXCEPT ![Promoted] = NewRow(local[t].text)] /\ UNCHANGED files
       \/ /\ row[Promoted] # absent /\ row[Promoted].text = local[t].text /\ UNCHANGED <<row, files>>
       \/ /\ TRUE                          \* another identity, or the store fails
          /\ files' = [files EXCEPT ![Promoted] = local[t].before] /\ UNCHANGED row
    /\ Proceed(t, "released", local[t])
    /\ UNCHANGED <<role, crossing, seal, lock, made, crossed, crashed, disturbed, refinement>>

ReleaseCandidate(t) == /\ On(t, "released") /\ Unlocked(Candidate) /\ Finish(t)
                       /\ UNCHANGED <<role, files, row, crossing, seal, made, crossed, crashed, disturbed, refinement>>
=============================================================================
