----------------------------- MODULE Notes_proofs -----------------------------
(***************************************************************************)
(* Theorems about the notes: NoteReview (people who edit, approve and      *)
(* share one note), for any number of reviewers, contents and revisions    *)
(* and any length of the claims; and NoteAuthoring (what Fuente writes by  *)
(* itself, and the people beside it), for any threads, casts, outputs,     *)
(* texts and number of calls.                                              *)
(***************************************************************************)
EXTENDS NoteReview, NoteAuthoring, SequenceTheorems, FiniteSetTheorems, TLAPS


\* The steps of an edit, and those taken under the file lock.
EditSteps == {"lock", "write", "commit", "cas", "restore"}
Replacing == {"write", "commit", "cas", "restore"}
Holding == Replacing \union {"receipt"}

\* Nobody changes the seal of a capture.
SealFree == "3_capturado" \notin Seals

\* A version named anywhere is the current one or an older one.
VersionsBelow == \A v \in Versions : v.rev <= cat.rev

OneHolder ==
    \A p, q \in People : call[p].pc \in Holding /\ call[q].pc \in Holding => p = q

\* A call has loaded what the catalog held under the revision it names.
Loaded(p) ==
    call[p].pc # "idle" =>
      /\ call[p].rev <= cat.rev
      /\ call[p].rev = cat.rev => call[p].seen = cat.text

\* What an edit writes belongs to the revision after the one it loaded.
Edited(p) ==
    /\ call[p].pc \in EditSteps =>
         /\ call[p].rev < MaxRevision
         /\ call[p].new.rev = call[p].rev + 1
         /\ call[p].op = "seal" => place \in Seals
    /\ call[p].pc \in Replacing =>
         /\ call[p].old \in Text
         /\ call[p].old.rev <= cat.rev
         /\ call[p].current => Captured
    /\ call[p].pc = "cas" => call[p].current /\ call[p].op = "seal"

\* While nothing unforeseen happened, an edit under the lock finds the text it
\* replaces in the catalog, and its own text in the file.
EditUndisturbed(p) ==
    /\ call[p].pc = "write" => file = call[p].old
    /\ call[p].pc = "commit" => file = call[p].new
    /\ call[p].pc \in {"write", "commit"} =>
         /\ cat.rev = call[p].rev
         /\ cat.text = call[p].old
    /\ call[p].pc \in {"write", "commit"} /\ call[p].current => \E s \in seals : s.live
    /\ call[p].pc = "cas" => cat.rev = call[p].rev + 1

Named(text) == \E t \in trans : t.id.text = text

\* text is what the latest receipt names.
IsLatest(text) ==
    /\ (text = none) <=> (receipts = {})
    /\ \A r \in receipts : (\A q \in receipts : q.rev <= r.rev) => r.text = text

Published(p) ==
    /\ call[p].pc \in {"publish", "receipt"} => ~Captured
    /\ call[p].pc = "receipt" =>
         /\ \E t \in trans : t.id = [rev |-> call[p].rev, text |-> call[p].new]
         /\ call[p].old \in Text \union {none}
         /\ call[p].old # none => Named(call[p].old)
         /\ shared = call[p].new
         /\ \A r \in receipts : r.rev < call[p].rev
         /\ settled => IsLatest(call[p].old)

SharedInv ==
    /\ Captured => shared = none /\ receipts = {}
    /\ shared # none => Named(shared)
    /\ settled /\ (\A p \in People : ~At(p, "receipt")) => IsLatest(shared)

AgreeInv ==
    settled /\ SealFree =>
      /\ \A p \in People : call[p].pc \notin {"cas", "restore"}
      /\ (\A p \in People : ~At(p, "commit")) => file = cat.text

IInv ==
    /\ TypeOK
    /\ IsFiniteSet(seals)
    /\ cat.text.rev <= cat.rev
    /\ file.rev <= cat.rev + 1
    /\ VersionsBelow
    /\ RevisionNamesText
    /\ OneHolder
    /\ \A p \in People : Loaded(p) /\ Edited(p) /\ Published(p)
    /\ settled => \A p \in People : EditUndisturbed(p)
    /\ SharedInv
    /\ AgreeInv
-----------------------------------------------------------------------------
\* A step of p leaves the other calls as they are.
Only(p) == \A q \in People : q # p => call'[q] = call[q]

\* A call keeps what it has loaded and made.
Same(p) ==
    /\ call'[p].op = call[p].op /\ call'[p].rev = call[p].rev
    /\ call'[p].seen = call[p].seen /\ call'[p].new = call[p].new
    /\ call'[p].old = call[p].old /\ call'[p].current = call[p].current

Pcs == {"lock", "write", "commit", "cas", "restore", "asked", "claimed",
        "ledger", "publish", "receipt"}

Fields == <<place, file, cat, seals, green, claims, trans, shared, receipts, now, settled>>

LEMMA CallTyped ==
    ASSUME TypeOK, NEW p \in People, call[p].pc # "idle"
    PROVE  /\ call[p] \in Call
           /\ call[p].rev \in Nat /\ call[p].rev \in Revision
           /\ call[p].seen \in Text /\ call[p].new \in Text
           /\ call[p].old \in Text \union {none}
           /\ call[p].new.rev \in Nat
<1>1. call[p] \in Call
  BY DEF TypeOK, Idle
<1> QED
  BY <1>1, ReviewAssumption DEF Call, Text, Revision

LEMMA CatTyped ==
    ASSUME TypeOK
    PROVE  /\ cat.rev \in Nat /\ cat.rev \in Revision /\ cat.text \in Text
           /\ cat.text.rev \in Nat /\ Id \in Version
           /\ cat.status \in Status
<1>1. cat \in [rev : Revision, text : Text, status : Status]
  BY DEF TypeOK
<1> QED
  BY <1>1, ReviewAssumption DEF Text, Revision, Id, Version

LEMMA VersionsTyped == ASSUME TypeOK, NEW v \in Versions PROVE v \in Version /\ v.rev \in Nat
<1>1. v \in Version
  BY CatTyped DEF TypeOK, Versions
<1> QED
  BY <1>1, ReviewAssumption DEF Version, Revision

LEMMA GotoKeeps ==
    ASSUME TypeOK, NEW p \in People, call[p].pc # "idle", NEW step \in Pcs, Goto(p, step)
    PROVE  /\ call' \in [People -> Call \union {Idle}]
           /\ Only(p) /\ Same(p) /\ call'[p].pc = step
<1> DEFINE k == [call[p] EXCEPT !.pc = step]
<1>1. call[p] \in Call
  BY CallTyped
<1>2. k \in Call
  BY <1>1, ZenonT(30) DEF Call, Pcs
<1>3. /\ k.pc = step /\ k.op = call[p].op /\ k.rev = call[p].rev /\ k.seen = call[p].seen
      /\ k.new = call[p].new /\ k.old = call[p].old /\ k.current = call[p].current
  BY <1>1 DEF Call
<1>4. call' = [call EXCEPT ![p] = k]
  BY DEF Goto
<1> HIDE DEF k
<1> QED
  BY <1>2, <1>3, <1>4 DEF TypeOK, Only, Same

LEMMA EndKeeps ==
    ASSUME TypeOK, NEW p \in People, End(p)
    PROVE  /\ call' \in [People -> Call \union {Idle}]
           /\ Only(p) /\ call'[p] = Idle /\ call'[p].pc = "idle"
BY DEF End, TypeOK, Only, Idle

LEMMA BeginKeeps ==
    ASSUME TypeOK, NEW p \in People, NEW op \in {"edit", "seal", "approve", "reject", "ask", "flow", "share"},
           NEW step \in Pcs, NEW new \in Text, Begin(p, op, step, new)
    PROVE  /\ call[p].pc = "idle"
           /\ call' \in [People -> Call \union {Idle}]
           /\ Only(p) /\ call'[p].pc = step /\ call'[p].op = op
           /\ call'[p].rev = cat.rev /\ call'[p].seen = cat.text /\ call'[p].new = new
<1> DEFINE k == [pc |-> step, op |-> op, rev |-> cat.rev, seen |-> cat.text, new |-> new,
                 old |-> none, current |-> FALSE]
<1>1. k \in Call
  BY CatTyped DEF Call, Pcs
<1>2. call' = [call EXCEPT ![p] = k]
  BY DEF Begin
<1>3. call[p].pc = "idle"
  BY DEF Begin, At
<1>4. k.pc = step /\ k.op = op /\ k.rev = cat.rev /\ k.seen = cat.text /\ k.new = new
  OBVIOUS
<1> HIDE DEF k
<1> QED
  BY <1>1, <1>2, <1>3, <1>4 DEF TypeOK, Only

-----------------------------------------------------------------------------
(* What every step keeps, whoever takes it. *)

\* The catalog keeps its version or goes on to the next revision.
CatStep ==
    \/ cat'.rev = cat.rev /\ cat'.text = cat.text
    \/ cat'.rev = cat.rev + 1

LEMMA VersionsKeep ==
    ASSUME IInv, TypeOK', CatStep, Versions' \subseteq Versions \union {Id'}
    PROVE  VersionsBelow' /\ RevisionNamesText'
<1>1. cat.rev \in Nat /\ cat'.rev \in Nat
  BY CatTyped, ReviewAssumption DEF IInv, TypeOK, Revision
<1>2. \A v \in Versions : v.rev \in Nat /\ v.rev <= cat.rev
  BY VersionsTyped DEF IInv, VersionsBelow
<1>3. Id'.rev = cat'.rev /\ Id'.text = cat'.text /\ Id.rev = cat.rev /\ Id.text = cat.text
  BY DEF Id
<1>4. Id \in Versions
  BY DEF Versions
<1>5. \A v \in Versions \union {Id'} : v.rev \in Nat /\ v.rev <= cat'.rev
  BY <1>1, <1>2, <1>3 DEF CatStep
<1>6. \A v \in Versions : v.rev = cat'.rev => v.text = cat'.text
  BY <1>1, <1>2, <1>3, <1>4 DEF CatStep, IInv, RevisionNamesText
<1>7. \A v, w \in Versions \union {Id'} : v.rev = w.rev => v.text = w.text
  BY <1>3, <1>6 DEF IInv, RevisionNamesText
<1> QED
  BY <1>5, <1>7 DEF VersionsBelow, RevisionNamesText

LEMMA LoadedKeeps ==
    ASSUME IInv, TypeOK', CatStep, NEW q \in People, call'[q] = call[q]
    PROVE  Loaded(q)'
<1>1. CASE call[q].pc = "idle"
  BY <1>1 DEF Loaded
<1>2. CASE call[q].pc # "idle"
  <2>1. call[q].rev \in Nat /\ cat.rev \in Nat
    BY <1>2, CallTyped, CatTyped DEF IInv
  <2>2. Loaded(q)
    BY DEF IInv
  <2> QED
    BY <1>2, <2>1, <2>2 DEF Loaded, CatStep
<1> QED
  BY <1>1, <1>2

LEMMA EditedKeeps ==
    ASSUME IInv, place' = place, CatStep, NEW q \in People, call'[q] = call[q]
    PROVE  Edited(q)'
<1>1. Edited(q) /\ cat.rev \in Nat
  BY CatTyped DEF IInv
<1>2. call[q].pc \in Replacing => call[q].old.rev \in Nat
  BY <1>1, ReviewAssumption DEF Edited, Text, Revision
<1> QED
  BY <1>1, <1>2 DEF Edited, Captured, CatStep

LEMMA OneHolderKeeps ==
    ASSUME IInv, NEW p \in People, Only(p),
           call'[p].pc \in Holding => call[p].pc \in Holding \/ ~Locked
    PROVE  OneHolder'
<1>2. ~Locked => \A q \in People : call[q].pc \notin Holding
  BY DEF Locked, Holding, Replacing
<1> QED
  BY <1>2 DEF IInv, OneHolder, Only

LEMMA IdleFine ==
    ASSUME NEW p \in People, call'[p].pc = "idle"
    PROVE  Loaded(p)' /\ Edited(p)' /\ Published(p)' /\ EditUndisturbed(p)'
BY DEF Loaded, Edited, Published, EditUndisturbed, EditSteps, Replacing

-----------------------------------------------------------------------------
(* Steps that leave the file, the version in the catalog and what is shared *)
(* alone: everything up to the first write of a call, and the approvals.    *)
Calm(p) ==
    /\ Only(p)
    /\ place' = place /\ file' = file /\ settled' = settled
    /\ cat'.rev = cat.rev /\ cat'.text = cat.text
    /\ shared' = shared /\ receipts' = receipts
    /\ trans \subseteq trans' /\ seals \subseteq seals'
    /\ Versions' \subseteq Versions

LEMMA CalmKeeps ==
    ASSUME IInv, TypeOK', NEW p \in People, Calm(p), IsFiniteSet(seals'),
           call[p].pc \notin Holding \/ (call[p].pc = "write" /\ call'[p].pc = "idle"),
           call'[p].pc \notin {"commit", "cas", "restore", "receipt"},
           call'[p].pc = "write" => ~Locked,
           Loaded(p)', Edited(p)', call'[p].pc = "publish" => ~Captured,
           settled => EditUndisturbed(p)'
    PROVE  IInv'
<1>1. VersionsBelow' /\ RevisionNamesText'
  BY VersionsKeep DEF Calm, CatStep
<1>2. cat'.text.rev <= cat'.rev /\ file'.rev <= cat'.rev + 1
  BY DEF Calm, IInv
<1>3. OneHolder'
  BY OneHolderKeeps DEF Calm, Holding, Replacing
<1>4. ASSUME NEW q \in People PROVE Loaded(q)' /\ Edited(q)' /\ Published(q)'
  <2>1. CASE q = p
    BY <2>1 DEF Published, Captured, Calm
  <2>2. CASE q # p
    <3>1. call'[q] = call[q]
      BY <2>2 DEF Calm, Only
    <3>2. Loaded(q)' /\ Edited(q)'
      BY <3>1, LoadedKeeps, EditedKeeps DEF Calm, CatStep
    <3>3. Published(q)
      BY DEF IInv
    <3>4. Published(q)'
      BY <3>1, <3>3 DEF Published, Calm, Captured, Named, IsLatest
    <3> QED
      BY <3>2, <3>4
  <2> QED
    BY <2>1, <2>2
<1>5. ASSUME settled', NEW q \in People PROVE EditUndisturbed(q)'
  <2>1. CASE q = p
    BY <1>5, <2>1 DEF Calm
  <2>2. CASE q # p
    <3>1. call'[q] = call[q]
      BY <2>2 DEF Calm, Only
    <3>2. EditUndisturbed(q)
      BY <1>5 DEF IInv, Calm
    <3> QED
      BY <3>1, <3>2 DEF EditUndisturbed, Calm
  <2> QED
    BY <2>1, <2>2
<1>6. SharedInv'
  <2>1. (\A q \in People : ~At(q, "receipt"))' => \A q \in People : ~At(q, "receipt")
    BY DEF Calm, Only, At, Holding
  <2> QED
    BY <2>1 DEF IInv, SharedInv, Calm, Captured, Named, IsLatest
<1>7. AgreeInv'
  <2>1. (\A q \in People : ~At(q, "commit"))' => \A q \in People : ~At(q, "commit")
    BY DEF Calm, Only, At, Holding, Replacing
  <2>2. ASSUME \A q \in People : call[q].pc \notin {"cas", "restore"}
        PROVE  \A q \in People : call'[q].pc \notin {"cas", "restore"}
    BY <2>2 DEF Calm, Only
  <2> QED
    BY <2>1, <2>2 DEF IInv, AgreeInv, Calm, SealFree
<1> QED
  BY <1>1, <1>2, <1>3, <1>4, <1>5, <1>6, <1>7 DEF IInv

LEMMA ComposeKeeps ==
    ASSUME IInv, place' = place, NEW p \in People,
           NEW op \in {"edit", "seal", "approve", "reject"}, NEW body \in Bodies,
           NEW status \in Status, op = "seal" => place \in Seals,
           Compose(p, op, body, status)
    PROVE  IInv'
<1> DEFINE new == [body |-> body, rev |-> cat.rev + 1, status |-> status]
<1>1. cat.rev \in Nat /\ cat.rev < MaxRevision /\ TypeOK
  BY CatTyped DEF IInv, Compose
<1>2. new \in Text /\ new.rev = cat.rev + 1
  BY <1>1, ReviewAssumption DEF Text, Revision
<1>3. Begin(p, op, "lock", new)
  BY DEF Compose
<1> HIDE DEF new
<1>4. /\ call[p].pc = "idle"
      /\ call' \in [People -> Call \union {Idle}]
      /\ Only(p) /\ call'[p].pc = "lock" /\ call'[p].op = op
      /\ call'[p].rev = cat.rev /\ call'[p].seen = cat.text /\ call'[p].new = new
  BY <1>1, <1>2, <1>3, BeginKeeps DEF Pcs
<1>5. UNCHANGED <<place, file, cat, seals, green, claims, trans, shared, receipts, now, settled>>
  BY DEF Compose, tables, published
<1>6. TypeOK'
  BY <1>1, <1>4, <1>5 DEF TypeOK
<1>7. Calm(p)
  BY <1>4, <1>5 DEF Calm, Versions, Id
<1>8. Loaded(p)' /\ Edited(p)' /\ EditUndisturbed(p)'
  BY <1>1, <1>2, <1>4, <1>5 DEF Loaded, Edited, EditUndisturbed, EditSteps, Replacing
<1> QED
  BY <1>4, <1>5, <1>6, <1>7, <1>8, CalmKeeps DEF IInv, Holding, Replacing

LEMMA ComposingKeeps ==
    ASSUME IInv, place' = place, NEW p \in People,
           \/ \E body \in Bodies : UpdateNoteBody(p, body)
           \/ \E status \in Status : MoveNotesToStatus(p, status)
           \/ ApproveNote(p) \/ Reject(p)
    PROVE  IInv'
<1>1. file.body \in Bodies /\ file.status \in Status
  BY DEF IInv, TypeOK, Text
<1>2. ASSUME NEW body \in Bodies, UpdateNoteBody(p, body) PROVE IInv'
  <2> DEFINE status == IF file.status = "approved" THEN "pending_review" ELSE file.status
  <2>1. status \in Status
    BY <1>1 DEF Status
  <2>2. Compose(p, "edit", body, status)
    BY <1>2 DEF UpdateNoteBody
  <2> HIDE DEF status
  <2> QED
    BY <2>1, <2>2, ComposeKeeps
<1>3. ASSUME NEW status \in Status, MoveNotesToStatus(p, status) PROVE IInv'
  BY <1>1, <1>3, ComposeKeeps DEF MoveNotesToStatus
<1>4. CASE ApproveNote(p)
  BY <1>1, <1>4, ComposeKeeps DEF ApproveNote, Status
<1>5. CASE Reject(p)
  BY <1>1, <1>5, ComposeKeeps DEF Reject, Status
<1> QED
  BY <1>2, <1>3, <1>4, <1>5

LEMMA PersistKeeps ==
    ASSUME IInv, place' = place, NEW p \in People, Persist(p)
    PROVE  IInv'
<1> DEFINE current == Captured /\ IsCurrent
           status == IF current /\ call[p].op # "seal" THEN "pending_review"
                     ELSE call[p].new.status
           new == [call[p].new EXCEPT !.status = status]
           k1 == [call[p] EXCEPT !.pc = "write", !.old = file, !.current = current]
           k == [k1 EXCEPT !.new = new]
<1>1. /\ TypeOK /\ call[p].pc = "lock" /\ ~Locked /\ AsLoaded(p) /\ call[p].pc # "idle"
      /\ UNCHANGED <<place, file, cat, seals, green, claims, trans, shared, receipts, now, settled>>
  BY DEF IInv, Persist, At, tables, published
<1>2. call[p] \in Call /\ call[p].new \in Text /\ file \in Text
  BY <1>1, CallTyped DEF TypeOK
<1>3. status \in Status
  BY <1>2 DEF Text, Status
<1> HIDE DEF status
<1>4. new \in Text /\ new.rev = call[p].new.rev
  BY <1>2, <1>3 DEF Text
<1>5. current \in BOOLEAN /\ (current => Captured /\ \E s \in seals : s.live)
  BY DEF IsCurrent
<1> HIDE DEF current, new
<1>6. /\ k1 \in Call /\ k1.pc = "write" /\ k1.old = file /\ k1.current = current
      /\ k1.op = call[p].op /\ k1.rev = call[p].rev /\ k1.seen = call[p].seen
  BY <1>2, <1>5, ZenonT(30) DEF Call
<1> HIDE DEF k1
<1>7. /\ k \in Call /\ k.pc = "write" /\ k.old = file /\ k.current = current
      /\ k.op = call[p].op /\ k.rev = call[p].rev /\ k.seen = call[p].seen /\ k.new = new
  BY <1>4, <1>6, ZenonT(30) DEF Call
<1>8. call' = [call EXCEPT ![p] = k]
  BY DEF Persist, k, k1, new, status, current
<1> HIDE DEF k
<1>9. call' \in [People -> Call \union {Idle}] /\ Only(p) /\ call'[p] = k
  BY <1>1, <1>7, <1>8 DEF TypeOK, Only
<1>10. TypeOK'
  BY <1>1, <1>9 DEF TypeOK
<1>11. Calm(p)
  BY <1>1, <1>9 DEF Calm, Versions, Id
<1>12. Loaded(p) /\ Edited(p) /\ file.rev <= cat.rev
  BY <1>1 DEF IInv, AsLoaded
<1>13. Loaded(p)' /\ Edited(p)'
  BY <1>1, <1>2, <1>4, <1>5, <1>7, <1>9, <1>12 DEF Loaded, Edited, EditSteps, Replacing, Captured
<1>14. EditUndisturbed(p)'
  BY <1>1, <1>5, <1>7, <1>9 DEF EditUndisturbed, AsLoaded
<1> QED
  BY <1>1, <1>7, <1>9, <1>10, <1>11, <1>13, <1>14, CalmKeeps DEF IInv, Holding, Replacing

\* A call that ends before it has changed a file.
LEMMA QuitKeeps ==
    ASSUME IInv, place' = place, NEW p \in People, End(p),
           call[p].pc \notin {"commit", "cas", "restore", "receipt"},
           UNCHANGED <<file, cat, seals, green, claims, trans, shared, receipts, now, settled>>
    PROVE  IInv'
<1>1. /\ call' \in [People -> Call \union {Idle}]
      /\ Only(p) /\ call'[p].pc = "idle"
  BY EndKeeps DEF IInv
<1>2. TypeOK'
  BY <1>1 DEF IInv, TypeOK
<1>3. Calm(p)
  BY <1>1 DEF Calm, Versions, Id
<1> QED
  BY <1>1, <1>2, <1>3, IdleFine, CalmKeeps DEF IInv, Holding, Replacing

LEMMA QuittingKeeps ==
    ASSUME IInv, place' = place, NEW p \in People,
           PersistRefused(p) \/ AskedInVain(p) \/ FlowRefused(p) \/ PublishRefused(p)
    PROVE  IInv'
BY QuitKeeps DEF PersistRefused, AskedInVain, FlowRefused, PublishRefused, At, tables, published

-----------------------------------------------------------------------------
(* Claims and approvals add only the version they are about. *)

LEMMA ClaimKeeps ==
    ASSUME TypeOK, NEW id \in Version, NEW by \in People
    PROVE  /\ Claim(id, by) \subseteq [id : Version, by : People, until : 0 .. MaxTime + Ttl]
           /\ \A c \in Claim(id, by) : c \in claims \/ c.id = id
<1>1. now + Ttl \in 0 .. MaxTime + Ttl
  BY ReviewAssumption DEF TypeOK
<1>2. [id |-> id, by |-> by, until |-> now + Ttl]
         \in [id : Version, by : People, until : 0 .. MaxTime + Ttl]
  BY <1>1
<1>3. \A c \in Claim(id, by) : c \in claims \/ c = [id |-> id, by |-> by, until |-> now + Ttl]
  BY DEF Claim
<1> QED
  BY <1>2, <1>3 DEF TypeOK

LEMMA ApprovedKeeps ==
    ASSUME TypeOK, NEW id \in Version, NEW by \in People
    PROVE  /\ Approved(id, by) \subseteq [id : Version, by : People]
           /\ trans \subseteq Approved(id, by)
           /\ \A t \in Approved(id, by) : t \in trans \/ t.id = id
           /\ \E t \in Approved(id, by) : t.id = id
<1> DEFINE new == [id |-> id, by |-> by]
<1>1. new \in [id : Version, by : People] /\ new.id = id
  OBVIOUS
<1>2. trans \subseteq [id : Version, by : People]
  BY DEF TypeOK
<1>3. Approved(id, by) = IF \E t \in trans : t.id = id THEN trans ELSE trans \union {new}
  BY DEF Approved
<1> HIDE DEF new
<1> QED
  BY <1>1, <1>2, <1>3

LEMMA SealKeeps ==
    ASSUME TypeOK, IsFiniteSet(seals), NEW id \in Version, NEW by \in People
    PROVE  /\ Seal(id, by) \subseteq [id : Version, by : People, live : BOOLEAN]
           /\ seals \subseteq Seal(id, by) /\ IsFiniteSet(Seal(id, by))
           /\ \A s \in Seal(id, by) : s \in seals \/ s.id = id
<1> DEFINE new == [id |-> id, by |-> by, live |-> TRUE]
<1>1. new \in [id : Version, by : People, live : BOOLEAN] /\ new.id = id
  OBVIOUS
<1>2. seals \subseteq [id : Version, by : People, live : BOOLEAN]
  BY DEF TypeOK
<1>3. Seal(id, by) = IF \E s \in seals : s.id = id THEN seals ELSE seals \union {new}
  BY DEF Seal
<1> HIDE DEF new
<1>4. IsFiniteSet(seals \union {new})
  BY FS_AddElement
<1> QED
  BY <1>1, <1>2, <1>3, <1>4

LEMMA EffectiveTyped ==
    ASSUME TypeOK, NEW by \in People, NEW S \in SUBSET seals
    PROVE  Effective(S, by) \in People
BY DEF TypeOK, Effective

\* A call that only approves: versions named before, or the current one.
LEMMA ApprovingKeeps ==
    ASSUME IInv, TypeOK', place' = place, NEW p \in People, Only(p),
           file' = file, settled' = settled, cat'.rev = cat.rev, cat'.text = cat.text,
           shared' = shared, receipts' = receipts, IsFiniteSet(seals'),
           trans \subseteq trans', seals \subseteq seals',
           \A c \in claims' : c.id \in Versions,
           \A t \in trans' : t.id \in Versions,
           \A s \in seals' : s.id \in Versions,
           green' = none \/ green'.id \in Versions,
           call[p].pc \notin Holding, call'[p].pc \notin Holding \union EditSteps,
           Loaded(p)', call'[p].pc = "publish" => ~Captured
    PROVE  IInv'
<1>1. Versions' \subseteq Versions
  <2>1. Id' = Id /\ Id \in Versions
    BY DEF Id, Versions
  <2>2. receipts \subseteq Versions
    BY DEF Versions
  <2> HIDE DEF Versions
  <2>3. (IF green = none THEN {} ELSE {green.id})' \subseteq Versions
    OBVIOUS
  <2>4. Versions' = {Id'} \union {s.id : s \in seals'} \union {c.id : c \in claims'}
          \union {t.id : t \in trans'} \union receipts'
          \union (IF green' = none THEN {} ELSE {green'.id})
    BY DEF Versions
  <2> QED
    BY <2>1, <2>2, <2>3, <2>4
<1>2. Calm(p)
  BY <1>1 DEF Calm
<1>3. Edited(p)' /\ EditUndisturbed(p)'
  BY DEF Edited, EditUndisturbed, Holding, EditSteps, Replacing
<1> QED
  BY <1>2, <1>3, CalmKeeps DEF Holding, Replacing

LEMMA NamedBefore ==
    /\ Id \in Versions
    /\ \A c \in claims : c.id \in Versions
    /\ \A t \in trans : t.id \in Versions
    /\ \A s \in seals : s.id \in Versions
    /\ green = none \/ green.id \in Versions
BY DEF Versions

LEMMA AskingKeeps ==
    ASSUME IInv, place' = place, NEW p \in People,
           RequestApproval(p) \/ LoadForApproval(p) \/ BeginShare(p)
    PROVE  IInv'
<1>1. TypeOK /\ IsFiniteSet(seals) /\ file \in Text /\ cat.text \in Text /\ cat.rev \in Nat
  BY CatTyped DEF IInv, TypeOK
<1>2. UNCHANGED <<place, file, cat, seals, green, claims, trans, shared, receipts, now, settled>>
  BY DEF RequestApproval, LoadForApproval, BeginShare, tables, published
<1>3. /\ call[p].pc = "idle" /\ call' \in [People -> Call \union {Idle}]
      /\ Only(p) /\ call'[p].pc \in {"asked", "publish"}
      /\ call'[p].rev = cat.rev /\ call'[p].seen = cat.text
      /\ call'[p].pc = "publish" => ~Captured
  <2>1. CASE RequestApproval(p)
    BY <1>1, <2>1, BeginKeeps DEF RequestApproval, Pcs
  <2>2. CASE LoadForApproval(p)
    BY <1>1, <2>2, BeginKeeps DEF LoadForApproval, Pcs
  <2>3. CASE BeginShare(p)
    <3>1. Begin(p, "share", "publish", file) /\ ~Captured
      BY <2>3 DEF BeginShare
    <3> QED
      BY <1>1, <3>1, BeginKeeps DEF Pcs
  <2> QED
    BY <2>1, <2>2, <2>3
<1>4. TypeOK'
  BY <1>1, <1>2, <1>3 DEF TypeOK
<1>5. Loaded(p)'
  BY <1>1, <1>2, <1>3 DEF Loaded
<1> QED
  BY <1>1, <1>2, <1>3, <1>4, <1>5, NamedBefore, ApprovingKeeps DEF Holding, EditSteps, Replacing

LEMMA ApproveCleanKeeps ==
    ASSUME IInv, place' = place, NEW p \in People, ApproveClean(p)
    PROVE  IInv'
<1> DEFINE by == Effective({s \in seals : s.id = Id}, p)
<1>1. TypeOK /\ IsFiniteSet(seals) /\ Id \in Version /\ call[p].pc = "asked"
  BY CatTyped DEF IInv, ApproveClean, At
<1>2. by \in People
  BY <1>1, EffectiveTyped
<1>3. /\ claims' = Claim(Id, by) /\ seals' = Seal(Id, by) /\ trans' = Approved(Id, by)
      /\ cat' = [cat EXCEPT !.status = "approved"] /\ End(p)
      /\ UNCHANGED <<file, green, shared, receipts, now, settled>>
  BY DEF ApproveClean, published
<1> HIDE DEF by
<1>4. cat' \in [rev : Revision, text : Text, status : Status] /\ cat'.rev = cat.rev /\ cat'.text = cat.text
  BY <1>1, <1>3 DEF TypeOK, Status
<1>5. /\ call' \in [People -> Call \union {Idle}]
      /\ Only(p) /\ call'[p].pc = "idle"
  BY <1>1, <1>3, EndKeeps
<1>6. TypeOK'
  BY <1>1, <1>2, <1>3, <1>4, <1>5, ClaimKeeps, ApprovedKeeps, SealKeeps DEF TypeOK
<1>7. /\ \A c \in claims' : c.id \in Versions
      /\ \A t \in trans' : t.id \in Versions
      /\ \A s \in seals' : s.id \in Versions
      /\ green' = none \/ green'.id \in Versions
  <2>1. \A c \in claims' : c \in claims \/ c.id = Id
    BY <1>1, <1>2, <1>3, ClaimKeeps
  <2>2. \A t \in trans' : t \in trans \/ t.id = Id
    BY <1>1, <1>2, <1>3, ApprovedKeeps
  <2>3. \A s \in seals' : s \in seals \/ s.id = Id
    BY <1>1, <1>2, <1>3, SealKeeps
  <2> QED
    BY <1>3, <2>1, <2>2, <2>3, NamedBefore
<1>8. trans \subseteq trans' /\ seals \subseteq seals' /\ IsFiniteSet(seals')
  BY <1>1, <1>2, <1>3, ApprovedKeeps, SealKeeps
<1> QED
  BY <1>1, <1>3, <1>4, <1>5, <1>6, <1>7, <1>8, IdleFine, ApprovingKeeps
  DEF Holding, EditSteps, Replacing

LEMMA BeginReviewKeeps ==
    ASSUME IInv, place' = place, NEW p \in People, BeginReview(p)
    PROVE  IInv'
<1>1. TypeOK /\ IsFiniteSet(seals) /\ Id \in Version /\ file \in Text /\ cat.rev \in Nat
  BY CatTyped DEF IInv, TypeOK
<1>2. /\ claims' = Claim(Id, p)
      /\ UNCHANGED <<file, cat, seals, green, trans, shared, receipts, now, settled>>
  BY DEF BeginReview, published
<1>3. /\ call[p].pc = "idle" /\ call' \in [People -> Call \union {Idle}]
      /\ Only(p) /\ call'[p].pc = "claimed"
      /\ call'[p].rev = cat.rev /\ call'[p].seen = cat.text
  BY <1>1, BeginKeeps DEF BeginReview, Pcs
<1>4. TypeOK'
  BY <1>1, <1>2, <1>3, ClaimKeeps DEF TypeOK
<1>5. Loaded(p)'
  BY <1>1, <1>2, <1>3 DEF Loaded
<1> QED
  BY <1>1, <1>2, <1>3, <1>4, <1>5, ClaimKeeps, NamedBefore, ApprovingKeeps
  DEF Holding, EditSteps, Replacing

LEMMA ApproveTransitionKeeps ==
    ASSUME IInv, place' = place, NEW p \in People, ApproveTransition(p)
    PROVE  IInv'
<1>1. TypeOK /\ IsFiniteSet(seals) /\ call[p].pc = "claimed" /\ call[p].pc # "idle"
  BY DEF IInv, ApproveTransition, At
<1>2. Claimed(p) \in Version
  BY <1>1, CallTyped DEF Claimed, Version
<1>3. Claimed(p) \in Versions
  BY NamedBefore DEF ApproveTransition, MayApprove, ClaimOf
<1>4. /\ trans' = Approved(Claimed(p), p)
      /\ UNCHANGED <<file, cat, seals, green, claims, shared, receipts, now, settled>>
  BY DEF ApproveTransition, published
<1>5. /\ call' \in [People -> Call \union {Idle}]
      /\ Only(p) /\ call'[p].pc = "ledger"
      /\ call'[p].rev = call[p].rev /\ call'[p].seen = call[p].seen
  BY <1>1, GotoKeeps DEF ApproveTransition, Pcs, Same
<1>6. TypeOK'
  BY <1>1, <1>2, <1>4, <1>5, ApprovedKeeps DEF TypeOK
<1>7. Loaded(p)'
  BY <1>1, <1>4, <1>5 DEF Loaded, IInv
<1> QED
  BY <1>1, <1>2, <1>3, <1>4, <1>5, <1>6, <1>7, ApprovedKeeps, NamedBefore, ApprovingKeeps
  DEF Holding, EditSteps, Replacing

LEMMA ApproveLedgerKeeps ==
    ASSUME IInv, place' = place, NEW p \in People, ApproveLedger(p)
    PROVE  IInv'
<1>1. TypeOK /\ IsFiniteSet(seals) /\ Id \in Version /\ call[p].pc = "ledger"
  BY CatTyped DEF IInv, ApproveLedger, At
<1>2. /\ seals' = Seal(Id, p) /\ cat' = [cat EXCEPT !.status = "approved"] /\ End(p)
      /\ UNCHANGED <<file, green, claims, trans, shared, receipts, now, settled>>
  BY DEF ApproveLedger, published
<1>3. cat' \in [rev : Revision, text : Text, status : Status] /\ cat'.rev = cat.rev /\ cat'.text = cat.text
  BY <1>1, <1>2 DEF TypeOK, Status
<1>4. /\ call' \in [People -> Call \union {Idle}]
      /\ Only(p) /\ call'[p].pc = "idle"
  BY <1>1, <1>2, EndKeeps
<1>5. TypeOK'
  BY <1>1, <1>2, <1>3, <1>4, SealKeeps DEF TypeOK
<1> QED
  BY <1>1, <1>2, <1>3, <1>4, <1>5, SealKeeps, NamedBefore,
     IdleFine, ApprovingKeeps DEF Holding, EditSteps, Replacing

LEMMA ApproveProcessedKeeps ==
    ASSUME IInv, place' = place, NEW p \in People, ApproveProcessed(p)
    PROVE  IInv'
<1> DEFINE by == IF green # none /\ green.id = Id THEN green.by ELSE p
<1>1. TypeOK /\ IsFiniteSet(seals) /\ Id \in Version /\ call[p].pc = "asked"
  BY CatTyped DEF IInv, ApproveProcessed, At
<1>2. by \in People
  BY <1>1 DEF TypeOK
<1>3. /\ claims' = Claim(Id, by) /\ green' = [id |-> Id, by |-> by] /\ trans' = Approved(Id, by)
      /\ End(p) /\ UNCHANGED <<file, cat, seals, shared, receipts, now, settled>>
  BY DEF ApproveProcessed, published
<1> HIDE DEF by
<1>4. /\ call' \in [People -> Call \union {Idle}]
      /\ Only(p) /\ call'[p].pc = "idle"
  BY <1>1, <1>3, EndKeeps
<1>5. TypeOK'
  BY <1>1, <1>2, <1>3, <1>4, ClaimKeeps, ApprovedKeeps DEF TypeOK
<1>6. green'.id = Id
  BY <1>3
<1> QED
  BY <1>1, <1>2, <1>3, <1>4, <1>5, <1>6, ClaimKeeps, ApprovedKeeps, NamedBefore,
     IdleFine, ApprovingKeeps DEF Holding, EditSteps, Replacing

-----------------------------------------------------------------------------
(* Steps of the edit that holds the file lock. *)

LEMMA HolderKeeps ==
    ASSUME IInv, TypeOK', NEW p \in People, Only(p), call[p].pc \in Replacing,
           place' = place, settled' = settled, CatStep,
           Versions' \subseteq Versions \union {Id'},
           shared' = shared, receipts' = receipts, trans' = trans, IsFiniteSet(seals'),
           cat'.text.rev <= cat'.rev, file'.rev <= cat'.rev + 1,
           call'[p].pc \in Replacing \union {"idle"},
           Loaded(p)', Edited(p)', settled => EditUndisturbed(p)',
           settled /\ SealFree =>
             /\ call'[p].pc \notin {"cas", "restore"}
             /\ call'[p].pc # "commit" => file' = cat'.text
    PROVE  IInv'
<1>1. VersionsBelow' /\ RevisionNamesText'
  BY VersionsKeep
<1>2. OneHolder'
  BY OneHolderKeeps DEF Holding
<1>3. \A q \in People : q # p => call[q].pc \notin Holding /\ call'[q] = call[q]
  BY DEF IInv, OneHolder, Holding, Only
<1>4. \A q \in People : call[q].pc # "receipt"
  BY <1>3 DEF Holding, Replacing
<1>5. ASSUME NEW q \in People PROVE Loaded(q)' /\ Edited(q)' /\ Published(q)'
  <2>1. CASE q = p
    BY <2>1 DEF Published, Replacing
  <2>2. CASE q # p
    <3>1. call'[q] = call[q] /\ call[q].pc \notin Holding
      BY <1>3, <2>2
    <3>2. Loaded(q)' /\ Edited(q)'
      BY <3>1, LoadedKeeps, EditedKeeps
    <3>3. Published(q)
      BY DEF IInv
    <3>4. Published(q)'
      BY <3>1, <3>3 DEF Published, Captured, Holding
    <3> QED
      BY <3>2, <3>4
  <2> QED
    BY <2>1, <2>2
<1>6. ASSUME settled', NEW q \in People PROVE EditUndisturbed(q)'
  <2>1. CASE q = p
    BY <1>6, <2>1
  <2>2. CASE q # p
    BY <1>3, <2>2 DEF EditUndisturbed, Holding, Replacing
  <2> QED
    BY <2>1, <2>2
<1>7. SharedInv'
  BY <1>4 DEF IInv, SharedInv, Captured, Named, IsLatest, At
<1>8. AgreeInv'
  <2>1. \A q \in People : q # p => call'[q].pc \notin {"cas", "restore", "commit"}
    BY <1>3 DEF Holding, Replacing
  <2> QED
    BY <2>1 DEF AgreeInv, SealFree, At
<1> QED
  BY <1>1, <1>2, <1>5, <1>6, <1>7, <1>8 DEF IInv

\* What is known of an edit that holds the lock.
LEMMA HolderFacts ==
    ASSUME IInv, NEW p \in People, call[p].pc \in Replacing
    PROVE  /\ TypeOK /\ call[p].pc # "idle" /\ call[p] \in Call
           /\ call[p].rev \in Nat /\ cat.rev \in Nat /\ cat.text \in Text /\ file \in Text
           /\ file.rev \in Nat /\ call[p].rev < MaxRevision /\ call[p].rev <= cat.rev
           /\ call[p].new \in Text /\ call[p].new.rev = call[p].rev + 1
           /\ call[p].old \in Text /\ call[p].old.rev \in Nat /\ call[p].old.rev <= cat.rev
           /\ call[p].current => Captured
           /\ settled => EditUndisturbed(p)
           /\ cat.rev \in Revision /\ cat.status \in Status
           /\ call[p].new.status \in Status
<1>1. TypeOK /\ Edited(p) /\ Loaded(p) /\ (settled => EditUndisturbed(p))
  BY DEF IInv
<1>2. call[p].pc # "idle" /\ call[p].pc \in EditSteps
  BY DEF Replacing, EditSteps
<1>3. call[p] \in Call /\ call[p].rev \in Nat /\ call[p].new \in Text
  BY <1>1, <1>2, CallTyped
<1>4. file \in Text /\ file.rev \in Nat
  BY <1>1, ReviewAssumption DEF TypeOK, Text, Revision
<1>5. call[p].old \in Text /\ call[p].old.rev \in Nat /\ call[p].old.rev <= cat.rev
  BY <1>1, ReviewAssumption DEF Edited, Text, Revision
<1> QED
  BY <1>1, <1>2, <1>3, <1>4, <1>5, CatTyped DEF Edited, Loaded, Text

LEMMA WriteFileKeeps ==
    ASSUME IInv, place' = place, NEW p \in People, WriteFile(p)
    PROVE  IInv'
<1>1. call[p].pc = "write" /\ call[p].pc \in Replacing
  BY DEF WriteFile, At, Replacing
<1>2. /\ file' = call[p].new
      /\ UNCHANGED <<cat, seals, green, claims, trans, shared, receipts, now, settled>>
  BY DEF WriteFile, tables, published
<1>3. /\ call' \in [People -> Call \union {Idle}]
      /\ Only(p) /\ Same(p) /\ call'[p].pc = "commit"
  BY <1>1, HolderFacts, GotoKeeps DEF WriteFile, Pcs
<1>4. TypeOK'
  BY <1>1, <1>2, <1>3, HolderFacts DEF TypeOK
<1>5. Versions' \subseteq Versions \union {Id'}
  BY <1>2 DEF Versions, Id
<1>6. Loaded(p) /\ Edited(p) /\ (settled => EditUndisturbed(p))
  BY DEF IInv
<1>7. Loaded(p)'
  BY <1>1, <1>2, <1>3, <1>6 DEF Loaded, Same
<1>8. Edited(p)'
  BY <1>1, <1>2, <1>3, <1>6 DEF Edited, Same, EditSteps, Replacing, Captured
<1>9. settled => EditUndisturbed(p)'
  BY <1>1, <1>2, <1>3, <1>6 DEF EditUndisturbed, Same
<1> QED
  BY <1>1, <1>2, <1>3, <1>4, <1>5, <1>7, <1>8, <1>9, HolderKeeps, HolderFacts
  DEF CatStep, Replacing, IInv

\* invalidate_note_approval() keeps every version, and makes the next one.
LEMMA InvalidatedFacts ==
    ASSUME IInv, Invalidated, cat.rev <= MaxRevision
    PROVE  /\ cat' \in [rev : Revision, text : Text, status : Status]
           /\ cat'.rev = cat.rev + 1 /\ cat'.text = file /\ cat'.text.rev <= cat'.rev
           /\ seals' \subseteq [id : Version, by : People, live : BOOLEAN]
           /\ IsFiniteSet(seals')
           /\ \A s \in seals' : \E r \in seals : s.id = r.id
<1>1. /\ TypeOK /\ IsFiniteSet(seals) /\ cat.rev \in Nat /\ file \in Text
      /\ file.rev \in Nat /\ file.rev <= cat.rev + 1
  BY CatTyped, ReviewAssumption DEF IInv, TypeOK, Text, Revision
<1>2. cat' = [rev |-> cat.rev + 1, text |-> file, status |-> "pending_review"]
  BY DEF Invalidated
<1>3. cat.rev + 1 \in Revision
  BY <1>1, ReviewAssumption DEF Revision
<1>4. seals' = {[s EXCEPT !.live = FALSE] : s \in seals}
  BY DEF Invalidated
<1>5. ASSUME NEW s \in seals
      PROVE  /\ [s EXCEPT !.live = FALSE] \in [id : Version, by : People, live : BOOLEAN]
             /\ [s EXCEPT !.live = FALSE].id = s.id
  <2>1. s \in [id : Version, by : People, live : BOOLEAN]
    BY <1>1 DEF TypeOK
  <2> QED
    BY <2>1
<1>6. IsFiniteSet(seals')
  <2> DEFINE f == [s \in seals |-> [s EXCEPT !.live = FALSE]]
  <2>1. f \in Surjection(seals, seals')
    BY <1>4 DEF Surjection
  <2> HIDE DEF f
  <2> QED
    BY <1>1, <2>1, FS_Surjection
<1> QED
  BY <1>1, <1>2, <1>3, <1>4, <1>5, <1>6 DEF Status

LEMMA LiveRowsCount ==
    ASSUME IsFiniteSet(seals), cat.text # file, LiveRows = 0
    PROVE  \A s \in seals : ~s.live
<1> DEFINE alive == {s \in seals : s.live}
<1>1. IsFiniteSet(alive)
  BY FS_Subset
<1>2. Cardinality(alive) = 0
  BY DEF LiveRows
<1> QED
  BY <1>1, <1>2, FS_EmptySet

LEMMA CommitApprovedKeeps ==
    ASSUME IInv, place' = place, NEW p \in People, CommitApproved(p)
    PROVE  IInv'
<1>1. call[p].pc = "commit" /\ call[p].pc \in Replacing
  BY DEF CommitApproved, At, Replacing
<1>2. /\ call[p].current /\ cat.rev <= MaxRevision
      /\ UNCHANGED <<file, green, claims, trans, shared, receipts, now, settled>>
  BY DEF CommitApproved, published
<1>3. IF cat.text = file THEN UNCHANGED <<cat, seals>> ELSE Invalidated
  BY DEF CommitApproved
<1>4. /\ TypeOK /\ call[p].pc # "idle" /\ IsFiniteSet(seals)
      /\ Loaded(p) /\ Edited(p) /\ (settled => EditUndisturbed(p))
  BY <1>1, HolderFacts DEF IInv
<1>5. /\ call' \in [People -> Call \union {Idle}] /\ Only(p)
      /\ \/ call[p].op = "seal" /\ call'[p].pc = "cas" /\ Same(p)
         \/ call[p].op # "seal" /\ LiveRows = 0 /\ call'[p].pc = "restore" /\ Same(p)
         \/ call[p].op # "seal" /\ call'[p].pc = "idle"
  <2>1. CASE call[p].op = "seal"
    BY <1>4, <2>1, GotoKeeps DEF CommitApproved, Pcs
  <2>2. CASE call[p].op # "seal" /\ LiveRows = 0
    BY <1>4, <2>2, GotoKeeps DEF CommitApproved, Pcs
  <2>3. CASE call[p].op # "seal" /\ LiveRows # 0
    BY <1>4, <2>3, EndKeeps DEF CommitApproved
  <2> QED
    BY <2>1, <2>2, <2>3
<1>6. /\ cat' \in [rev : Revision, text : Text, status : Status]
      /\ seals' \subseteq [id : Version, by : People, live : BOOLEAN]
      /\ IsFiniteSet(seals') /\ CatStep /\ cat'.text.rev <= cat'.rev
      /\ \A s \in seals' : \E r \in seals : s.id = r.id
      /\ cat.text # file => cat'.rev = cat.rev + 1 /\ cat'.text = file
  <2>1. CASE cat.text = file
    BY <1>3, <1>4, <2>1 DEF IInv, TypeOK, CatStep
  <2>2. CASE cat.text # file
    BY <1>2, <1>3, <2>2, InvalidatedFacts DEF CatStep
  <2> QED
    BY <2>1, <2>2
<1>7. TypeOK'
  BY <1>2, <1>4, <1>5, <1>6 DEF TypeOK
<1>8. Versions' \subseteq Versions \union {Id'}
  BY <1>2, <1>6 DEF Versions
<1>9. Loaded(p)' /\ Edited(p)'
  <2>1. call[p].rev \in Nat /\ cat.rev \in Nat /\ call[p].old.rev \in Nat
    BY <1>1, HolderFacts
  <2>2. CASE call'[p].pc = "idle"
    BY <2>2, IdleFine
  <2>3. CASE call'[p].pc # "idle"
    <3>1. Same(p) /\ call'[p].pc \in {"cas", "restore"} /\ (call'[p].pc = "cas" => call[p].op = "seal")
      BY <1>5, <2>3
    <3>2. Loaded(p)'
      BY <1>1, <1>4, <1>6, <2>1, <3>1 DEF Loaded, Same, CatStep
    <3>3. Edited(p)'
      BY <1>1, <1>2, <1>4, <1>6, <2>1, <3>1 DEF Edited, Same, CatStep, EditSteps, Replacing, Captured
    <3> QED
      BY <3>2, <3>3
  <2> QED
    BY <2>2, <2>3
<1>10. settled => cat.text # file /\ cat.rev = call[p].rev /\ \E s \in seals : s.live
  <2>1. /\ call[p].rev \in Nat /\ cat.rev \in Nat /\ call[p].new.rev = call[p].rev + 1
        /\ cat.text.rev <= cat.rev /\ cat.text.rev \in Nat
    BY <1>1, <1>4, HolderFacts, CatTyped DEF IInv
  <2> QED
    BY <1>1, <1>2, <1>4, <2>1 DEF EditUndisturbed
<1>11. settled => EditUndisturbed(p)'
  BY <1>5, <1>6, <1>10 DEF EditUndisturbed, Same
<1>12. settled /\ SealFree => call'[p].pc = "idle" /\ file' = cat'.text
  <2>1. SealFree => call[p].op # "seal"
    BY <1>1, <1>2, <1>4 DEF SealFree, Edited, EditSteps, Replacing, Captured
  <2>2. settled => LiveRows # 0
    BY <1>4, <1>10, LiveRowsCount
  <2> QED
    BY <1>2, <1>5, <1>6, <1>10, <2>1, <2>2
<1>13. file'.rev <= cat'.rev + 1
  BY <1>1, <1>2, <1>6, HolderFacts DEF IInv, CatStep
<1> QED
  BY <1>1, <1>2, <1>5, <1>6, <1>7, <1>8, <1>9, <1>11, <1>12, <1>13, HolderKeeps DEF Replacing

LEMMA CommitPlainKeeps ==
    ASSUME IInv, place' = place, NEW p \in People, CommitPlain(p)
    PROVE  IInv'
<1> DEFINE same == cat.rev = call[p].rev /\ cat.text = call[p].old
<1>1. /\ call[p].pc \in {"commit", "cas"} /\ call[p].pc \in Replacing
      /\ call[p].pc = "commit" => ~call[p].current
  BY DEF CommitPlain, At, Replacing
<1>2. UNCHANGED <<file, seals, green, claims, trans, shared, receipts, now, settled>>
  BY DEF CommitPlain, tables, published
<1>3. UpdateNoteCas(p)
  BY DEF CommitPlain
<1>4. /\ TypeOK /\ call[p].pc # "idle" /\ IsFiniteSet(seals)
      /\ Loaded(p) /\ Edited(p) /\ (settled => EditUndisturbed(p))
      /\ cat.text.rev <= cat.rev /\ file.rev <= cat.rev + 1
  BY <1>1, HolderFacts DEF IInv
<1>5. CASE same
  <2>1. cat' = [rev |-> cat.rev + 1, text |-> call[p].new, status |-> call[p].new.status] /\ End(p)
    BY <1>3, <1>5 DEF UpdateNoteCas
  <2>2. cat.rev + 1 \in Revision
    BY <1>1, <1>5, HolderFacts, ReviewAssumption DEF Revision
  <2>3. /\ cat' \in [rev : Revision, text : Text, status : Status]
        /\ cat'.rev = cat.rev + 1 /\ cat'.text = call[p].new
    BY <1>1, <2>1, <2>2, HolderFacts
  <2>4. /\ call' \in [People -> Call \union {Idle}] /\ Only(p) /\ call'[p].pc = "idle"
    BY <1>4, <2>1, EndKeeps
  <2>5. TypeOK'
    BY <1>2, <1>4, <2>3, <2>4 DEF TypeOK
  <2>6. Versions' \subseteq Versions \union {Id'}
    BY <1>2 DEF Versions
  <2>7. cat'.text.rev <= cat'.rev /\ file'.rev <= cat'.rev + 1
    BY <1>1, <1>2, <1>4, <1>5, <2>3, HolderFacts
  <2>8. settled => file' = cat'.text
    <3>1. settled => call[p].pc = "commit"
      BY <1>1, <1>4, <1>5, HolderFacts DEF EditUndisturbed
    <3> QED
      BY <1>2, <1>4, <2>3, <3>1 DEF EditUndisturbed
  <2> QED
    BY <1>1, <1>2, <1>4, <2>3, <2>4, <2>5, <2>6, <2>7, <2>8, HolderKeeps, IdleFine DEF CatStep
<1>6. CASE ~same
  <2>1. Goto(p, "restore") /\ UNCHANGED cat
    BY <1>3, <1>6 DEF UpdateNoteCas
  <2>2. /\ call' \in [People -> Call \union {Idle}]
        /\ Only(p) /\ Same(p) /\ call'[p].pc = "restore"
    BY <1>4, <2>1, GotoKeeps DEF Pcs
  <2>3. TypeOK'
    BY <1>2, <1>4, <2>1, <2>2 DEF TypeOK
  <2>4. Versions' \subseteq Versions \union {Id'}
    BY <1>2, <2>1 DEF Versions, Id
  <2>5. Loaded(p)'
    BY <1>1, <1>4, <2>1, <2>2 DEF Loaded, Same
  <2>6. Edited(p)'
    BY <1>1, <1>4, <2>1, <2>2 DEF Edited, Same, EditSteps, Replacing, Captured
  <2>7. EditUndisturbed(p)'
    BY <2>2 DEF EditUndisturbed
  <2>8. ~(settled /\ SealFree)
    <3>1. settled => call[p].pc = "cas"
      BY <1>1, <1>4, <1>6 DEF EditUndisturbed
    <3> QED
      BY <3>1 DEF IInv, AgreeInv
  <2> QED
    BY <1>1, <1>2, <1>4, <2>1, <2>2, <2>3, <2>4, <2>5, <2>6, <2>7, <2>8, HolderKeeps
    DEF CatStep, Replacing
<1> QED
  BY <1>5, <1>6

LEMMA CommitFailsKeeps ==
    ASSUME IInv, place' = place, NEW p \in People, CommitFails(p) \/ Restore(p)
    PROVE  IInv'
<1>1. call[p].pc \in {"commit", "restore"} /\ call[p].pc \in Replacing
  BY DEF CommitFails, Restore, At, Replacing
<1>2. End(p) /\ UNCHANGED <<cat, seals, green, claims, trans, shared, receipts, now, settled>>
  BY DEF CommitFails, Restore, tables, published
<1>3. /\ TypeOK /\ IsFiniteSet(seals) /\ (settled => EditUndisturbed(p))
      /\ cat.text.rev <= cat.rev /\ file.rev <= cat.rev + 1
  BY <1>1, HolderFacts DEF IInv
<1>4. file' \in {file, call[p].old}
  BY DEF CommitFails, Restore
<1>5. file' \in Text /\ file'.rev <= cat.rev + 1
  BY <1>1, <1>3, <1>4, HolderFacts
<1>6. /\ call' \in [People -> Call \union {Idle}] /\ Only(p) /\ call'[p].pc = "idle"
  BY <1>2, <1>3, EndKeeps
<1>7. TypeOK'
  BY <1>2, <1>3, <1>5, <1>6 DEF TypeOK
<1>8. Versions' \subseteq Versions \union {Id'}
  BY <1>2 DEF Versions, Id
<1>9. settled /\ SealFree => file' = cat'.text
  <2>1. CASE CommitFails(p)
    BY <1>2, <1>3, <2>1 DEF CommitFails, EditUndisturbed, At
  <2>2. CASE Restore(p)
    BY <2>2 DEF Restore, At, IInv, AgreeInv
  <2> QED
    BY <2>1, <2>2
<1> QED
  BY <1>1, <1>2, <1>3, <1>5, <1>6, <1>7, <1>8, <1>9, HolderKeeps, IdleFine DEF CatStep

-----------------------------------------------------------------------------
(* Steps of the call that shares. *)

LEMMA SharingKeeps ==
    ASSUME IInv, TypeOK', NEW p \in People, Only(p), place' = place,
           UNCHANGED <<file, cat, seals, green, claims, trans, settled>>,
           receipts' \subseteq Versions,
           \A q \in People : q # p => call[q].pc \notin Holding,
           call[p].pc \notin Replacing, call'[p].pc \notin EditSteps,
           call'[p].pc \in Holding => call[p].pc \in Holding \/ ~Locked,
           Loaded(p)', Published(p)', SharedInv'
    PROVE  IInv'
<1>1. Versions' \subseteq Versions
  BY DEF Versions, Id
<1>2. VersionsBelow' /\ RevisionNamesText'
  BY <1>1, VersionsKeep DEF CatStep
<1>3. OneHolder'
  BY OneHolderKeeps
<1>4. \A q \in People : q # p => call'[q] = call[q]
  BY DEF Only
<1>5. ASSUME NEW q \in People PROVE Loaded(q)' /\ Edited(q)' /\ Published(q)'
  <2>1. CASE q = p
    BY <2>1 DEF Edited, EditSteps, Replacing
  <2>2. CASE q # p
    <3>1. Loaded(q)' /\ Edited(q)'
      BY <1>4, <2>2, LoadedKeeps, EditedKeeps DEF CatStep
    <3>2. Published(q)
      BY DEF IInv
    <3>3. Published(q)'
      BY <1>4, <2>2, <3>2 DEF Published, Captured, Holding
    <3> QED
      BY <3>1, <3>3
  <2> QED
    BY <2>1, <2>2
<1>6. ASSUME NEW q \in People PROVE EditUndisturbed(q)'
  <2>1. call'[q].pc \notin {"write", "commit", "cas"}
    BY <1>4 DEF Holding, Replacing, EditSteps
  <2> QED
    BY <2>1 DEF EditUndisturbed
<1>7. AgreeInv'
  <2>1. \A q \in People : call'[q].pc \notin Replacing /\ call[q].pc \notin Replacing
    BY <1>4 DEF Holding, Replacing, EditSteps
  <2> QED
    BY <2>1 DEF IInv, AgreeInv, At, SealFree, Replacing
<1> QED
  BY <1>2, <1>3, <1>5, <1>6, <1>7 DEF IInv

LEMMA PublishKeeps ==
    ASSUME IInv, place' = place, NEW p \in People, Publish(p)
    PROVE  IInv'
<1> DEFINE k == [call[p] EXCEPT !.pc = "receipt", !.new = file, !.old = shared]
<1>1. /\ call[p].pc = "publish" /\ ~Locked /\ Publishable(p) /\ ReceiptOf(cat.rev) = {}
      /\ shared' = file
      /\ UNCHANGED <<place, file, cat, seals, green, claims, trans, receipts, now, settled>>
  BY DEF Publish, At, tables
<1>2. /\ TypeOK /\ Loaded(p) /\ Published(p) /\ SharedInv /\ VersionsBelow
      /\ file \in Text /\ shared \in Text \union {none} /\ cat.rev \in Nat
  BY CatTyped DEF IInv, TypeOK
<1>3. call[p] \in Call
  BY <1>1, <1>2, CallTyped
<1>4. /\ k \in Call /\ k.pc = "receipt" /\ k.new = file /\ k.old = shared
      /\ k.rev = call[p].rev /\ k.seen = call[p].seen
  BY <1>2, <1>3, ZenonT(30) DEF Call
<1>5. call' = [call EXCEPT ![p] = k]
  BY DEF Publish
<1> HIDE DEF k
<1>6. call' \in [People -> Call \union {Idle}] /\ Only(p) /\ call'[p] = k
  BY <1>2, <1>4, <1>5 DEF TypeOK, Only
<1>7. TypeOK'
  BY <1>1, <1>2, <1>6 DEF TypeOK
<1>8. \A q \in People : call[q].pc \notin Holding
  BY <1>1 DEF Locked, Holding, Replacing
<1>9. /\ call[p].rev = cat.rev /\ cat.text = file
      /\ \E t \in trans : t.id = [rev |-> k.rev, text |-> k.new]
  BY <1>1, <1>4 DEF Publishable, GreenCurrent, Id
<1>10. ~Captured
  BY <1>1, <1>2 DEF Published
<1>11. settled => IsLatest(shared)
  BY <1>2, <1>8 DEF SharedInv, At, Holding
<1>12. \A r \in receipts : r.rev < cat.rev
  <2>1. \A r \in receipts : r.rev \in Nat /\ r.rev <= cat.rev
    BY <1>2, VersionsTyped DEF VersionsBelow, Versions
  <2>2. \A r \in receipts : r.rev # cat.rev
    BY <1>1 DEF ReceiptOf
  <2> QED
    BY <1>2, <2>1, <2>2
<1>13. Published(p)'
  BY <1>1, <1>2, <1>4, <1>6, <1>9, <1>10, <1>11, <1>12
  DEF Published, Captured, SharedInv, Named, IsLatest
<1>14. SharedInv'
  <2>1. Named(file)
    BY <1>4, <1>9 DEF Named
  <2> QED
    BY <1>1, <1>4, <1>6, <1>10, <2>1 DEF SharedInv, Captured, Named, At
<1>15. Loaded(p)'
  BY <1>1, <1>2, <1>4, <1>6 DEF Loaded
<1> QED
  BY <1>1, <1>4, <1>6, <1>7, <1>8, <1>13, <1>14, <1>15, SharingKeeps
  DEF Holding, Replacing, EditSteps, Versions

LEMMA RecordKeeps ==
    ASSUME IInv, place' = place, NEW p \in People, RecordShared(p) \/ RecordFails(p)
    PROVE  IInv'
<1> DEFINE receipt == [rev |-> call[p].rev, text |-> call[p].new]
<1>1. /\ call[p].pc = "receipt" /\ End(p)
      /\ UNCHANGED <<place, file, cat, seals, green, claims, trans, now, settled>>
  BY DEF RecordShared, RecordFails, At, tables
<1>2. TypeOK /\ Published(p) /\ call[p] \in Call /\ call[p].rev \in Nat
  BY <1>1, CallTyped DEF IInv
<1>3. /\ call' \in [People -> Call \union {Idle}] /\ Only(p) /\ call'[p].pc = "idle"
  BY <1>1, <1>2, EndKeeps
<1>4. \A q \in People : q # p => call[q].pc \notin Holding
  BY <1>1 DEF IInv, OneHolder, Holding
<1>5. receipt \in Version /\ receipt \in Versions
  BY <1>1, <1>2, CallTyped, NamedBefore DEF Published, Version
<1>6. receipt.rev = call[p].rev /\ receipt.text = call[p].new
  OBVIOUS
<1>7. /\ shared' \in {shared, call[p].old}
      /\ receipts' \subseteq receipts \union {receipt}
  BY DEF RecordShared, RecordFails
<1>8. TypeOK'
  BY <1>1, <1>2, <1>3, <1>5, <1>7 DEF TypeOK, Published
<1>9. SharedInv'
  <2>1. ~Captured /\ shared = call[p].new
    BY <1>1, <1>2 DEF Published
  <2>2. shared' # none => Named(shared')
    BY <1>1, <1>2, <1>7 DEF Published, IInv, SharedInv
  <2>3. settled => IsLatest(shared)'
    <3>1. CASE RecordShared(p)
      <4>1. receipts' = receipts \union {receipt} /\ shared' = call[p].new
        BY <2>1, <3>1 DEF RecordShared
      <4>2. call[p].new \in Text /\ call[p].new # none
        BY <1>1, <1>2, CallTyped, NoneAssumption
      <4>3. \A r \in receipts : r.rev \in Nat /\ r.rev < call[p].rev
        BY <1>1, <1>2, VersionsTyped DEF Published, Versions
      <4> HIDE DEF receipt
      <4>4. ASSUME NEW r \in receipts', \A q \in receipts' : q.rev <= r.rev
            PROVE  r.text = call[p].new
        <5>1. receipt.rev <= r.rev
          BY <4>1, <4>4
        <5>2. r = receipt
          BY <1>2, <1>6, <4>1, <4>3, <5>1
        <5> QED
          BY <1>6, <5>2
      <4>5. receipts' # {}
        BY <4>1
      <4> QED
        BY <4>1, <4>2, <4>4, <4>5 DEF IsLatest
    <3>2. CASE RecordFails(p)
      BY <1>1, <1>2, <3>2 DEF RecordFails, Published, IsLatest
    <3> QED
      BY <3>1, <3>2
  <2> QED
    BY <1>1, <2>1, <2>2, <2>3 DEF SharedInv, Captured, Named
<1> HIDE DEF receipt
<1>10. receipts' \subseteq Versions
  BY <1>5, <1>7 DEF Versions
<1> QED
  BY <1>1, <1>3, <1>4, <1>8, <1>9, <1>10, IdleFine, SharingKeeps DEF Holding, Replacing, EditSteps

-----------------------------------------------------------------------------
(* The world around the calls. *)

LEMMA DisturbedKeeps ==
    ASSUME IInv, TypeOK', place' = place, CatStep,
           Versions' \subseteq Versions \union {Id'},
           shared' = shared, receipts' = receipts, trans' = trans, IsFiniteSet(seals'),
           cat'.text.rev <= cat'.rev, file'.rev <= cat'.rev + 1,
           \A q \in People : call'[q] = call[q] \/ call'[q].pc = "idle",
           settled' => Captured /\ ~Locked /\ file' = cat'.text
    PROVE  IInv'
<1>1. VersionsBelow' /\ RevisionNamesText'
  BY VersionsKeep
<1>2. OneHolder'
  BY DEF IInv, OneHolder, Holding, Replacing
<1>3. settled' => \A q \in People : call'[q].pc \notin Holding
  BY DEF Locked, Holding, Replacing
<1>4. ASSUME NEW q \in People PROVE Loaded(q)' /\ Edited(q)' /\ Published(q)'
  <2>1. CASE call'[q].pc = "idle"
    BY <2>1, IdleFine
  <2>2. CASE call'[q] = call[q]
    <3>1. Loaded(q)' /\ Edited(q)'
      BY <2>2, LoadedKeeps, EditedKeeps
    <3>2. Published(q)
      BY DEF IInv
    <3>3. Published(q)'
      BY <1>3, <2>2, <3>2 DEF Published, Captured, Named, Holding
    <3> QED
      BY <3>1, <3>3
  <2> QED
    BY <2>1, <2>2
<1>5. ASSUME settled', NEW q \in People PROVE EditUndisturbed(q)'
  BY <1>3, <1>5 DEF EditUndisturbed, Holding, Replacing
<1>6. SharedInv'
  BY DEF IInv, SharedInv, Captured, Named, IsLatest
<1>7. AgreeInv'
  BY <1>3 DEF AgreeInv, Holding, Replacing
<1> QED
  BY <1>1, <1>2, <1>4, <1>5, <1>6, <1>7 DEF IInv

LEMMA CrashKeeps ==
    ASSUME IInv, place' = place, NEW p \in People, Crash(p)
    PROVE  IInv'
<1>1. /\ TypeOK /\ IsFiniteSet(seals) /\ End(p)
      /\ cat.text.rev <= cat.rev /\ file.rev <= cat.rev + 1
      /\ settled' = (settled /\ ~Underway(p))
      /\ UNCHANGED <<file, cat, seals, green, claims, trans, shared, receipts, now>>
  BY DEF IInv, Crash, tables, published
<1>2. CASE Underway(p)
  <2>1. settled' = FALSE
    BY <1>1, <1>2
  <2>2. /\ call' \in [People -> Call \union {Idle}] /\ Only(p) /\ call'[p].pc = "idle"
    BY <1>1, EndKeeps
  <2>3. TypeOK'
    BY <1>1, <2>1, <2>2 DEF TypeOK
  <2> QED
    BY <1>1, <2>1, <2>2, <2>3, DisturbedKeeps DEF Versions, Id, CatStep, Only
<1>3. CASE ~Underway(p)
  <2>1. settled' = settled
    BY <1>1, <1>3 DEF TypeOK
  <2> QED
    BY <1>1, <1>3, <2>1, QuitKeeps DEF Underway
<1> QED
  BY <1>2, <1>3

LEMMA OutsideKeeps ==
    ASSUME IInv, place' = place, NEW body \in Bodies, OutsideWrite(body)
    PROVE  IInv'
<1>1. /\ TypeOK /\ IsFiniteSet(seals) /\ file \in Text
      /\ cat.text.rev <= cat.rev /\ file.rev <= cat.rev + 1
      /\ file' = [file EXCEPT !.body = body] /\ settled' = FALSE
      /\ UNCHANGED <<cat, seals, green, claims, trans, shared, receipts, call, now>>
  BY DEF IInv, TypeOK, OutsideWrite, tables, published
<1>2. file' \in Text /\ file'.rev = file.rev
  BY <1>1 DEF Text
<1>3. TypeOK'
  BY <1>1, <1>2 DEF TypeOK
<1> QED
  BY <1>1, <1>2, <1>3, DisturbedKeeps DEF Versions, Id, CatStep

LEMMA ReconcileKeeps ==
    ASSUME IInv, place' = place, Reconcile
    PROVE  IInv'
<1>1. /\ TypeOK /\ cat.rev < MaxRevision /\ cat.rev \in Nat /\ Captured /\ Invalidated
      /\ settled' = ~Locked
      /\ UNCHANGED <<file, green, claims, trans, shared, receipts, call, now>>
  BY CatTyped DEF IInv, Reconcile, published
<1>2. cat.rev <= MaxRevision
  BY <1>1, ReviewAssumption
<1>3. settled' \in BOOLEAN
  BY <1>1 DEF Locked
<1>4. TypeOK'
  BY <1>1, <1>2, <1>3, InvalidatedFacts DEF TypeOK
<1>5. Versions' \subseteq Versions \union {Id'}
  BY <1>1, <1>2, InvalidatedFacts DEF Versions
<1>6. file'.rev <= cat'.rev + 1
  <2>1. file.rev \in Nat /\ file.rev <= cat.rev + 1
    BY <1>1, ReviewAssumption DEF IInv, TypeOK, Text, Revision
  <2> QED
    BY <1>1, <1>2, <2>1, InvalidatedFacts
<1> QED
  BY <1>1, <1>2, <1>4, <1>5, <1>6, InvalidatedFacts, DisturbedKeeps DEF CatStep

LEMMA TickKeeps ==
    ASSUME IInv, place' = place, Tick
    PROVE  IInv'
<1>1. /\ TypeOK /\ now < MaxTime /\ now' = now + 1
      /\ UNCHANGED <<file, cat, seals, green, claims, trans, shared, receipts, call, settled>>
  BY DEF IInv, Tick, tables, published
<1>2. now' \in 0 .. MaxTime
  BY <1>1, ReviewAssumption DEF TypeOK
<1>3. TypeOK'
  BY <1>1, <1>2 DEF TypeOK
<1> QED
  BY <1>1, <1>3 DEF IInv, VersionsBelow, RevisionNamesText, Versions, Id, OneHolder, Loaded,
     Edited, Published, EditUndisturbed, SharedInv, AgreeInv, Captured, Named, IsLatest, At, SealFree

-----------------------------------------------------------------------------
LEMMA InitEstablishes == Init => IInv
<1> SUFFICES ASSUME Init PROVE IInv
  OBVIOUS
<1>1. /\ place \in Places /\ file \in [body : Bodies, rev : {0}, status : {"pending_review"}]
      /\ cat = [rev |-> 1, text |-> file, status |-> "pending_review"]
      /\ seals = {} /\ green = none /\ claims = {} /\ trans = {} /\ shared = none
      /\ receipts = {} /\ call = [p \in People |-> Idle] /\ now = 0 /\ settled = TRUE
  BY DEF Init
<1>2. 0 \in Revision /\ 1 \in Revision /\ now \in 0 .. MaxTime
  BY <1>1, ReviewAssumption DEF Revision
<1>3. file \in Text /\ file.rev = 0
  BY <1>1, <1>2 DEF Text, Status
<1>4. TypeOK
  BY <1>1, <1>2, <1>3 DEF TypeOK, Status
<1>5. Versions = {Id} /\ Id.rev = 1 /\ cat.rev = 1 /\ cat.text = file
  BY <1>1 DEF Versions, Id
<1>6. \A p \in People : call[p].pc = "idle"
  BY <1>1 DEF Idle
<1> QED
  BY <1>1, <1>3, <1>4, <1>5, <1>6, FS_EmptySet DEF IInv, VersionsBelow, RevisionNamesText,
     OneHolder, Loaded, Edited, Published, EditUndisturbed, SharedInv, AgreeInv, IsLatest,
     EditSteps, Holding, Replacing

LEMMA NextKeeps == IInv /\ [Next]_vars => IInv'
<1> SUFFICES ASSUME IInv, [Next]_vars PROVE IInv'
  OBVIOUS
<1>1. CASE UNCHANGED vars
  BY <1>1 DEF vars, tables, published, IInv, TypeOK, VersionsBelow, RevisionNamesText, Versions,
     Id, OneHolder, Loaded, Edited, Published, EditUndisturbed, SharedInv, AgreeInv, Captured,
     Named, IsLatest, At, SealFree
<1>2. CASE Next
  <2>1. place' = place
    BY <1>2 DEF Next
  <2>2. ASSUME NEW p \in People, Editing(p) PROVE IInv'
    <3>1. CASE \/ \E body \in Bodies : UpdateNoteBody(p, body)
               \/ \E status \in Status : MoveNotesToStatus(p, status)
               \/ ApproveNote(p) \/ Reject(p)
      BY <2>1, <3>1, ComposingKeeps
    <3>2. CASE Persist(p)
      BY <2>1, <3>2, PersistKeeps
    <3>3. CASE PersistRefused(p)
      BY <2>1, <3>3, QuittingKeeps
    <3>4. CASE WriteFile(p)
      BY <2>1, <3>4, WriteFileKeeps
    <3>5. CASE CommitApproved(p)
      BY <2>1, <3>5, CommitApprovedKeeps
    <3>6. CASE CommitPlain(p)
      BY <2>1, <3>6, CommitPlainKeeps
    <3>7. CASE CommitFails(p) \/ Restore(p)
      BY <2>1, <3>7, CommitFailsKeeps
    <3> QED
      BY <2>2, <3>1, <3>2, <3>3, <3>4, <3>5, <3>6, <3>7 DEF Editing
  <2>3. ASSUME NEW p \in People, Approving(p) PROVE IInv'
    BY <2>1, <2>3, AskingKeeps, ApproveCleanKeeps, QuittingKeeps, BeginReviewKeeps,
       ApproveTransitionKeeps, ApproveLedgerKeeps, ApproveProcessedKeeps DEF Approving
  <2>4. ASSUME NEW p \in People, Sharing(p) PROVE IInv'
    BY <2>1, <2>4, AskingKeeps, PublishKeeps, QuittingKeeps, RecordKeeps DEF Sharing
  <2> QED
    BY <1>2, <2>1, <2>2, <2>3, <2>4, CrashKeeps, OutsideKeeps, ReconcileKeeps, TickKeeps DEF Next
<1> QED
  BY <1>1, <1>2

\* The invariant holds in every reachable state.
THEOREM Inductive == Spec => []IInv
<1>1. Init => IInv
  BY InitEstablishes
<1>2. IInv /\ [Next]_vars => IInv'
  BY NextKeeps
<1> QED
  BY <1>1, <1>2, PTL DEF Spec

-----------------------------------------------------------------------------
\* Rows, files and calls keep their types, the clock and the revisions their bounds.
THEOREM TypeCorrect == Spec => []TypeOK
<1>1. IInv => TypeOK
  BY DEF IInv
<1> QED
  BY <1>1, Inductive, PTL

\* A revision number names one text, in the catalog, in approvals, claims,
\* transitions and receipts, whoever edits, restores or reconciles meanwhile.
THEOREM RevisionsNameTexts == Spec => []RevisionNamesText
<1>1. IInv => RevisionNamesText
  BY DEF IInv
<1> QED
  BY <1>1, Inductive, PTL

\* What lies in 5_compartido was approved for sharing, also after a crash between
\* the file and its receipt.
THEOREM SharingWasApproved == Spec => []SharedWasApproved
<1>1. IInv => SharedWasApproved
  BY DEF IInv, SharedInv, SharedWasApproved, Named, IsLatest, Underway, At
<1> QED
  BY <1>1, Inductive, PTL

\* File and catalog agree whenever no call is under way, in a vault where nobody
\* changes the seal of a capture.
THEOREM FileAndCatalogAgree ==
    ASSUME SealFree
    PROVE  Spec => []ProjectionsAgree
<1>1. IInv => ProjectionsAgree
  BY DEF IInv, AgreeInv, ProjectionsAgree, Underway, At
<1> QED
  BY <1>1, Inductive, PTL

-----------------------------------------------------------------------------
\* A version gets its approval only under a claim of the same reviewer that runs.
UnderClaim ==
    \A t \in trans' \ trans :
        \E c \in claims' : c.id = t.id /\ c.by = t.by /\ c.until > now

LEMMA ClaimRuns ==
    ASSUME TypeOK, NEW id \in Version, NEW by \in People, Claimable(id, by)
    PROVE  \E c \in Claim(id, by) : c.id = id /\ c.by = by /\ c.until > now
<1>1. CASE \E c \in ClaimOf(id) : Unexpired(c)
  BY <1>1 DEF Claimable, Claim, ClaimOf, Unexpired
<1>2. CASE ~\E c \in ClaimOf(id) : Unexpired(c)
  <2> DEFINE new == [id |-> id, by |-> by, until |-> now + Ttl]
  <2>1. new \in Claim(id, by)
    BY <1>2 DEF Claim
  <2>2. now + Ttl > now
    BY ReviewAssumption DEF TypeOK
  <2> QED
    BY <2>1, <2>2
<1> QED
  BY <1>1, <1>2

LEMMA NewApproval ==
    ASSUME NEW id, NEW by
    PROVE  \A t \in Approved(id, by) \ trans : t.id = id /\ t.by = by
BY DEF Approved

LEMMA StepUnderClaim == IInv /\ [Next]_vars => UnderClaim
<1> SUFFICES ASSUME IInv, [Next]_vars, trans' # trans PROVE UnderClaim
  BY DEF UnderClaim
<1>1. TypeOK /\ Id \in Version
  BY CatTyped DEF IInv
<1>2. \E p \in People : ApproveClean(p) \/ ApproveTransition(p) \/ ApproveProcessed(p)
  BY DEF Next, vars, tables, published, Editing, Approving, Sharing, UpdateNoteBody,
     MoveNotesToStatus, ApproveNote, Reject, Compose, Persist, PersistRefused, WriteFile,
     CommitApproved, CommitPlain, CommitFails, Restore, RequestApproval, AskedInVain,
     BeginReview, ApproveLedger, FlowRefused, LoadForApproval, BeginShare, Publish,
     PublishRefused, RecordShared, RecordFails, Crash, OutsideWrite, Reconcile, Tick
<1>3. PICK p \in People : ApproveClean(p) \/ ApproveTransition(p) \/ ApproveProcessed(p)
  BY <1>2
<1>4. CASE ApproveClean(p)
  <2> DEFINE by == Effective({s \in seals : s.id = Id}, p)
  <2>1. by \in People
    BY <1>1, EffectiveTyped
  <2>2. Claimable(Id, by) /\ claims' = Claim(Id, by) /\ trans' = Approved(Id, by)
    BY <1>4 DEF ApproveClean
  <2> HIDE DEF by
  <2> QED
    BY <1>1, <2>1, <2>2, ClaimRuns, NewApproval DEF UnderClaim
<1>5. CASE ApproveTransition(p)
  <2>1. /\ trans' = Approved(Claimed(p), p) /\ MayApprove(Claimed(p), p)
        /\ claims' = claims
    BY <1>5 DEF ApproveTransition
  <2> QED
    BY <2>1, NewApproval DEF UnderClaim, MayApprove, ClaimOf, Unexpired
<1>6. CASE ApproveProcessed(p)
  <2> DEFINE by == IF green # none /\ green.id = Id THEN green.by ELSE p
  <2>1. by \in People
    BY <1>1 DEF TypeOK
  <2>2. Claimable(Id, by) /\ claims' = Claim(Id, by) /\ trans' = Approved(Id, by)
    BY <1>6 DEF ApproveProcessed
  <2> HIDE DEF by
  <2> QED
    BY <1>1, <2>1, <2>2, ClaimRuns, NewApproval DEF UnderClaim
<1> QED
  BY <1>3, <1>4, <1>5, <1>6

\* An approval of a version is recorded for the reviewer whose claim on it runs at
\* that moment, and nobody else's.
THEOREM ApprovalsUnderClaim == Spec => ApprovedUnderClaim
<1>1. IInv /\ [Next]_vars => UnderClaim
  BY StepUnderClaim
<1>2. Spec => [][UnderClaim]_vars
  BY <1>1, Inductive, PTL DEF Spec
<1> QED
  BY <1>2 DEF ApprovedUnderClaim, UnderClaim

-----------------------------------------------------------------------------
\* The text of a call replaces only what its author had loaded.
Seen ==
    \A p \in People :
        ( /\ settled
          /\ At(p, "commit") \/ At(p, "cas")
          /\ call'[p] # call[p]
          /\ cat' # cat /\ cat'.text = call[p].new )
        => cat.text = call[p].seen

LEMMA StepSeen == IInv /\ [Next]_vars => Seen
<1> SUFFICES ASSUME IInv, [Next]_vars, NEW p \in People, settled,
                    call[p].pc \in {"commit", "cas"}, call'[p] # call[p], cat' # cat
             PROVE  cat.text = call[p].seen
  BY DEF Seen, At
<1>1. /\ TypeOK /\ call[p].pc \in Replacing /\ call[p].pc # "idle"
      /\ Loaded(p) /\ EditUndisturbed(p)
  BY DEF IInv, Replacing
<1>2. CASE call[p].pc = "commit"
  BY <1>1, <1>2 DEF Loaded, EditUndisturbed
<1>3. CASE call[p].pc = "cas"
  <2>1. \/ \E q \in People : CommitApproved(q) \/ CommitPlain(q) \/ ApproveClean(q) \/ ApproveLedger(q)
        \/ Reconcile
    BY DEF Next, vars, tables, published, Editing, Approving, Sharing, UpdateNoteBody,
       MoveNotesToStatus, ApproveNote, Reject, Compose, Persist, PersistRefused, WriteFile,
       CommitFails, Restore, RequestApproval, AskedInVain, BeginReview, ApproveTransition,
       FlowRefused, LoadForApproval, ApproveProcessed, BeginShare, Publish, PublishRefused,
       RecordShared, RecordFails, Crash, OutsideWrite, Tick
  <2>2. call' # call
    BY <1>1
  <2>3. ~Reconcile
    BY <2>2 DEF Reconcile
  <2>4. PICK q \in People : CommitApproved(q) \/ CommitPlain(q) \/ ApproveClean(q) \/ ApproveLedger(q)
    BY <2>1, <2>3
  <2>5. q = p
    BY <1>1, <2>4 DEF TypeOK, CommitApproved, CommitPlain, UpdateNoteCas, ApproveClean,
       ApproveLedger, Goto, End
  <2>6. CommitPlain(p)
    BY <1>3, <2>4, <2>5 DEF CommitApproved, ApproveClean, ApproveLedger, At
  <2>7. cat.rev \in Nat /\ cat.rev # call[p].rev
    BY <1>1, <1>3, CallTyped, CatTyped DEF EditUndisturbed
  <2> QED
    BY <2>6, <2>7 DEF CommitPlain, UpdateNoteCas
<1> QED
  BY <1>2, <1>3

\* No accepted edit is overwritten by one that did not see it.
THEOREM NoEditIsLost == Spec => NoLostUpdate
<1>1. IInv /\ [Next]_vars => Seen
  BY StepSeen
<1>2. Spec => [][Seen]_vars
  BY <1>1, Inductive, PTL DEF Spec
<1> QED
  BY <1>2 DEF NoLostUpdate, Seen

-----------------------------------------------------------------------------
(* NoteAuthoring.  Base: types, and that a thread has in hand what its next  *)
(* step needs.  On it stand four invariants that do not depend on each       *)
(* other: the locks, the notes, the templates and the refinement.            *)

(* Shapes. *)
Texts == 1 .. Len(made)
Rows == [revision : Nat \ {0}, text : Nat, status : {"pending_review", "approved"}]
Identities == [revision : Nat, text : Nat]
Pairs == [template : Nat, agents : Nat \cup {absent}]
WholePairs == [template : Nat, agents : Nat]
Bundles == [revision : Nat, template : Nat, agents : Nat]
Tolds == [revision : Nat, agents : Nat \cup {absent}]
Makings == [by : {"person", "generator", "refiner"}, base : Nat \cup {absent},
            template : Pairs \cup {absent}, told : Tolds \cup {absent}]
Hands == [note : Notes \cup {absent}, todo : Seq(Notes),
          expected : Rows \cup Identities \cup {absent}, before : Nat \cup {absent},
          text : Nat \cup {absent}, revision : Nat \cup {absent}, origin : Nat \cup {absent},
          found : WholePairs \cup {absent}, bundle : Bundles \cup {absent},
          pair : Pairs \cup {absent}, told : Tolds \cup {absent}, item : Nat, first : Nat, moved : SUBSET Notes]
Trails == [note : Notes, text : Nat, bundle : Bundles]

AuthoredTypes ==
    /\ role \in Casts
    /\ files \in [Notes -> Texts \cup {absent}]
    /\ row \in [Notes -> Rows \cup {absent}]
    /\ crossing \in [Notes -> Identities \cup {absent}]
    /\ lock \in [Notes -> Threads \cup {absent}]
    /\ made \in Seq(Makings)
    /\ DOMAIN pc = Threads /\ local \in [Threads -> Hands]
    /\ template \in Pairs \cup {absent} /\ trow \in Bundles \cup {absent}
    /\ version \in Nat /\ promised \in WholePairs
    /\ lineage \subseteq Trails
    /\ candidate \in Identities \cup {absent}

(* Where a thread can be, and what it has in hand there. *)
Loads == {"load", "register template", "read template"}
WhileReplacing == {"invalidate", "unlink", "move", "register", "revise", "lineage", "undo"}
EditorHas(t) ==
    /\ pc[t] \in {"edit", "record"} =>
         /\ local[t].todo # <<>> /\ row[Head(local[t].todo)] # absent
         /\ local[t].expected \in Rows
         /\ local[t].before \in Texts
    /\ pc[t] = "record" => local[t].text \in Texts /\ made[local[t].text].by = "person"
    /\ pc[t] = "created" =>
         /\ local[t].note \in ToSet(Outputs)
         /\ local[t].text \in Texts /\ made[local[t].text].by = "person"

LoaderHas(t) ==
    /\ pc[t] \in Loads => role[t] \in {"generator", "tailor"}
    /\ pc[t] = "register template" => local[t].found # absent
    /\ pc[t] = "read template" => local[t].bundle # absent
    /\ pc[t] \in {"template", "agents", "first"} =>
         role[t] = "tailor" /\ local[t].pair \in WholePairs /\ local[t].told = absent
    /\ pc[t] \in {"ask", "stage"} \cup WhileReplacing => role[t] = "generator" /\ local[t].bundle # absent
    /\ pc[t] = "ask" => local[t].pair # absent

GeneratorHas(t) ==
  /\ pc[t] \in Loads \cup {"ask", "stage"} /\ role[t] = "generator" => local[t].moved = {}
  /\ pc[t] \in WhileReplacing =>
      /\ local[t].item \in DOMAIN Outputs
      /\ local[t].first + Len(Outputs) <= Len(made)
      /\ \A i \in DOMAIN Outputs :
           /\ made[local[t].first + i].by = "generator"
           /\ made[local[t].first + i].template = local[t].pair
           /\ made[local[t].first + i].told = local[t].told
      /\ local[t].moved \subseteq {Outputs[k] : k \in 1 .. local[t].item}
      /\ pc[t] \in {"invalidate", "unlink", "move"} => Current(t) \notin local[t].moved
      /\ pc[t] \in {"register", "revise", "lineage"} => Current(t) \in local[t].moved
      /\ pc[t] = "revise" => local[t].expected \in Rows \cup {absent}

RefinerHas(t) ==
    /\ pc[t] \in {"persist", "commit", "write", "identify", "copy", "identity"} => local[t].text \in Texts
    /\ pc[t] \in {"persist", "verify"} => local[t].expected \in Identities
    /\ pc[t] \in {"copy", "identity"} => local[t].before \in Texts \cup {absent}

InHands(t) == EditorHas(t) /\ LoaderHas(t) /\ GeneratorHas(t) /\ RefinerHas(t)

TemplateThere == \A t \in Threads :
    pc[t] \in {"agents", "register template", "read template"} => template # absent

OneGenerator == \A t, u \in Threads :
    role[t] = "generator" /\ role[u] = "generator" /\ pc[t] # "idle" /\ pc[u] # "idle" => t = u

(* Notes *)
Sound(n) ==
    files[n] # absent =>
        /\ Agrees(n)
        /\ made[files[n]].by = "generator" => \E l \in lineage : l.note = n /\ l.text = files[n]

HeldBy(t, n) ==
    \/ /\ On(t, "created") /\ local[t].note = n
       /\ row[n] = absent /\ files[n] \in {absent, local[t].text}
    \/ /\ pc[t] \in {"edit", "record"} /\ Head(local[t].todo) = n
       /\ row[n] # absent
       /\ row[n].revision = local[t].expected.revision /\ row[n].text = local[t].expected.text
       /\ On(t, "record") => files[n] \in {absent, local[t].text}

Placing(t, n) ==
    /\ Generating(t) /\ n = Current(t) /\ n \in local[t].moved

Placed(t, n) ==
    /\ lock[n] = absent
    /\ files[n] = local[t].first + local[t].item
    /\ On(t, "lineage") => row[n] # absent /\ row[n].text = files[n]

Kept(n) ==
    IF \E t \in Threads : Placing(t, n) THEN \A t \in Threads : Placing(t, n) => Placed(t, n)
    ELSE IF lock[n] = absent THEN Sound(n) ELSE HeldBy(lock[n], n)

NotesKept == ~crashed => \A n \in ToSet(Outputs) \ disturbed : Kept(n)

(* Templates *)
SamePair(x, y) == x.template = y.template /\ x.agents = y.agents
Reading(t) == pc[t] \in {"register template", "read template"}
ReadsAreTrue ==
    \A t \in Threads : Reading(t) =>
        /\ Saving = {} /\ template \in WholePairs
        /\ On(t, "register template") => local[t].found = template
        /\ On(t, "read template") =>
             SamePair(local[t].bundle, template) /\ trow # absent /\ local[t].bundle.revision = trow.revision
LoadsAlone == Saving # {} => \A t \in Threads : On(t, "load") => role[t] = "tailor"
Planning == {"ask", "stage"} \cup WhileReplacing
\* The instructions the model was given, or those of a later revision.
Follows(bundle, told) == bundle.agents = told.agents \/ told.revision < bundle.revision
PlanOK(t) ==
    /\ local[t].pair # absent /\ SamePair(local[t].bundle, local[t].pair)
    /\ pc[t] # "ask" => local[t].told # absent /\ Follows(local[t].bundle, local[t].told)
PlansAreTrue == \A t \in Threads : pc[t] \in Planning => PlanOK(t)
Names(bundle, making) == SamePair(bundle, making.template) /\ Follows(bundle, making.told)
LineageIsTrue == \A l \in lineage : l.text \in Texts /\ Names(l.bundle, made[l.text])
\* What a model was told is what the files hold until a save moves the revision on.
Told(revision, agents) ==
    /\ trow # absent /\ revision <= trow.revision
    /\ revision = trow.revision => Saving = {} /\ template \in WholePairs /\ template.agents = agents
ToldOK(t) ==
    /\ On(t, "ask") => Told(local[t].bundle.revision, local[t].pair.agents)
    /\ pc[t] \in Loads \cup Planning /\ local[t].told # absent
       => Told(local[t].told.revision, local[t].told.agents)
TellsAreTrue == \A t \in Threads : ToldOK(t)
LoadsAreTrue == ~raced => ReadsAreTrue /\ LoadsAlone /\ PlansAreTrue /\ LineageIsTrue /\ TellsAreTrue
SavesAreTrue ==
    ~raced /\ ~crashed =>
        /\ Saving = {} => IF template = absent THEN promised = Packaged ELSE template = promised
        /\ \A t \in Threads : On(t, "agents") => template # absent /\ template.template = local[t].pair.template

(* Refinement *)
Judged(x) == made[x].by = "refiner" => x \in judged \cap crossed
Committed(x) == made[x].by = "refiner" => candidate = CandidateRow(x)
VerdictIsTrue ==
    /\ verdict # absent => candidate # absent
    /\ verdict = "accepted" => candidate.text \in judged
    /\ \A n \in Notes : crossing[n] # absent => crossing[n].text \in crossed
CopiesAreTrue ==
    /\ files[Promoted] # absent => Judged(files[Promoted])
    /\ files[Candidate] # absent => Committed(files[Candidate])
    /\ row[Candidate] # absent =>
         /\ candidate # absent
         /\ row[Candidate].revision = 1 => candidate = CandidateRow(row[Candidate].text)
InTheMiddle(t) ==
    /\ pc[t] \in {"edit", "record"} /\ Head(local[t].todo) = Promoted => Judged(local[t].before)
    /\ pc[t] \in {"edit", "record"} /\ Head(local[t].todo) = Candidate => Committed(local[t].before)
    /\ pc[t] \in {"write", "identify"} => candidate = CandidateRow(local[t].text)
    /\ pc[t] = "verify" => candidate # absent
    /\ pc[t] \in {"copy", "identity"} =>
         Judged(local[t].text) /\ (local[t].before # absent => Judged(local[t].before))
RefinementKept == VerdictIsTrue /\ CopiesAreTrue /\ \A t \in Threads : InTheMiddle(t)

Base == AuthoredTypes /\ (\A t \in Threads : InHands(t)) /\ OneGenerator

-----------------------------------------------------------------------------
(* What an action does to the threads and to the texts. *)

Grows ==
    /\ made' \in Seq(Makings) /\ Len(made) <= Len(made')
    /\ \A i \in Texts : made'[i] = made[i]

RowsStay == \A n \in Notes : row[n] # absent => row'[n] # absent

Act(t, q, r) ==
    /\ t \in Threads /\ role' = role /\ Grows /\ RowsStay
    /\ pc' = [pc EXCEPT ![t] = q] /\ local' = [local EXCEPT ![t] = r]

LEMMA ActHas ==
  ASSUME AuthoredTypes, NEW t, NEW q, NEW r, Act(t, q, r)
  PROVE  /\ t \in Threads /\ pc'[t] = q /\ local'[t] = r /\ role' = role
         /\ \A u \in Threads : u # t => pc'[u] = pc[u] /\ local'[u] = local[u]
         /\ DOMAIN pc' = Threads
BY DEF Act, AuthoredTypes

LEMMA AbsentIsNone ==
  /\ absent \notin Nat /\ absent \notin Threads /\ absent \notin Rows /\ absent \notin Identities
  /\ absent \notin Pairs /\ absent \notin WholePairs
<1>1. Rows \subseteq [revision : Nat, text : Nat, status : {"pending_review", "approved"}] BY DEF Rows
<1>2. WholePairs \subseteq Pairs BY DEF WholePairs, Pairs
<1> QED BY <1>1, <1>2, AuthoringAssumption DEF Identities, Pairs

LEMMA AbsentIsNoBundle == absent \notin Bundles /\ absent \notin Tolds
BY AuthoringAssumption DEF Bundles, Tolds

LEMMA SameTexts == ASSUME AuthoredTypes, made' = made PROVE Grows
BY DEF Grows, AuthoredTypes, Texts

LEMMA NewText ==
  ASSUME AuthoredTypes, NEW by \in {"person", "generator", "refiner"},
         NEW base \in Nat \cup {absent}, NEW pair \in Pairs \cup {absent},
         Made(by, base, pair)
  PROVE  /\ Grows /\ Len(made') = Len(made) + 1
         /\ Fresh \in 1 .. Len(made') /\ Fresh \in Nat
         /\ made'[Fresh] = [by |-> by, base |-> base, template |-> pair, told |-> absent]
<1> DEFINE e == [by |-> by, base |-> base, template |-> pair, told |-> absent]
<1>1. e \in Makings BY DEF Makings
<1>2. made \in Seq(Makings) /\ made' = Append(made, e) BY DEF AuthoredTypes, Made
<1> HIDE DEF e
<1>3. /\ Append(made, e) \in Seq(Makings) /\ Len(Append(made, e)) = Len(made) + 1
      /\ \A i \in 1 .. Len(made) : Append(made, e)[i] = made[i]
      /\ Append(made, e)[Len(made) + 1] = e
    BY <1>1, <1>2
<1>4. Len(made) \in Nat BY <1>2
<1> QED BY <1>2, <1>3, <1>4 DEF Grows, Texts, Fresh, e

LEMMA WrittenText ==
  ASSUME AuthoredTypes, NEW by \in {"person", "refiner"}, NEW base \in Nat \cup {absent},
         Made(by, base, absent)
  PROVE  Grows /\ Fresh \in Texts' /\ Fresh \in Nat /\ made'[Fresh].by = by
<1>1. /\ Grows /\ Fresh \in 1 .. Len(made') /\ Fresh \in Nat
      /\ made'[Fresh] = [by |-> by, base |-> base, template |-> absent, told |-> absent]
    BY NewText
<1> QED BY <1>1 DEF Texts

(* A call's record, with some of its variables assigned. *)
LEMMA HandsTake ==
  ASSUME NEW r \in Hands
  PROVE  /\ \A x \in Seq(Notes) : [r EXCEPT !.todo = x] \in Hands
         /\ \A x \in Rows \cup Identities \cup {absent} : [r EXCEPT !.expected = x] \in Hands
         /\ \A x \in Nat \cup {absent} : [r EXCEPT !.before = x] \in Hands
         /\ \A x \in Nat \cup {absent} : [r EXCEPT !.text = x] \in Hands
         /\ \A x \in Nat \cup {absent} : [r EXCEPT !.revision = x] \in Hands
         /\ \A x \in Nat \cup {absent} : [r EXCEPT !.origin = x] \in Hands
         /\ \A x \in Notes \cup {absent} : [r EXCEPT !.note = x] \in Hands
         /\ \A x \in WholePairs \cup {absent} : [r EXCEPT !.found = x] \in Hands
         /\ \A x \in Bundles \cup {absent} : [r EXCEPT !.bundle = x] \in Hands
         /\ \A x \in Pairs \cup {absent} : [r EXCEPT !.pair = x] \in Hands
         /\ \A x \in Tolds \cup {absent} : [r EXCEPT !.told = x] \in Hands
         /\ \A x \in Nat : [r EXCEPT !.item = x] \in Hands
         /\ \A x \in Nat : [r EXCEPT !.first = x] \in Hands
         /\ \A x \in SUBSET Notes : [r EXCEPT !.moved = x] \in Hands
<1>1. \A x \in Seq(Notes) : [r EXCEPT !.todo = x] \in Hands BY DEF Hands
<1>2. \A x \in Rows \cup Identities \cup {absent} : [r EXCEPT !.expected = x] \in Hands BY DEF Hands
<1>3. \A x \in Nat \cup {absent} : [r EXCEPT !.before = x] \in Hands BY DEF Hands
<1>4. \A x \in Nat \cup {absent} : [r EXCEPT !.text = x] \in Hands BY DEF Hands
<1>5. \A x \in Nat \cup {absent} : [r EXCEPT !.revision = x] \in Hands BY DEF Hands
<1>6. \A x \in Nat \cup {absent} : [r EXCEPT !.origin = x] \in Hands BY DEF Hands
<1>7. \A x \in Notes \cup {absent} : [r EXCEPT !.note = x] \in Hands BY DEF Hands
<1>8. \A x \in WholePairs \cup {absent} : [r EXCEPT !.found = x] \in Hands BY DEF Hands
<1>9. \A x \in Bundles \cup {absent} : [r EXCEPT !.bundle = x] \in Hands BY DEF Hands
<1>10. \A x \in Pairs \cup {absent} : [r EXCEPT !.pair = x] \in Hands BY DEF Hands
<1>11. \A x \in Nat : [r EXCEPT !.item = x] \in Hands BY DEF Hands
<1>12. \A x \in Nat : [r EXCEPT !.first = x] \in Hands BY DEF Hands
<1>13. \A x \in SUBSET Notes : [r EXCEPT !.moved = x] \in Hands BY DEF Hands
<1>14. \A x \in Tolds \cup {absent} : [r EXCEPT !.told = x] \in Hands BY DEF Hands
<1> QED BY <1>1, <1>2, <1>3, <1>4, <1>5, <1>6, <1>7, <1>8, <1>9, <1>10, <1>11, <1>12, <1>13, <1>14

LEMMA NothingIsAHand == Nothing \in Hands
BY EmptySeq DEF Nothing, Hands

LEMMA HasNote ==
  ASSUME AuthoredTypes, NEW t \in Threads, local[t].todo # <<>>
  PROVE  Head(local[t].todo) \in Notes /\ Tail(local[t].todo) \in Seq(Notes)
<1>1. local[t].todo \in Seq(Notes) BY DEF AuthoredTypes, Hands
<1> QED BY <1>1

(* What a thread has in hand stays good while others act. *)
LEMMA OthersHave ==
  ASSUME AuthoredTypes, NEW u \in Threads, InHands(u), Grows, RowsStay, role' = role,
         pc'[u] = pc[u], local'[u] = local[u]
  PROVE  InHands(u)'
<1>1. made \in Seq(Makings) /\ Len(made) \in Nat /\ Len(made') \in Nat
    BY DEF AuthoredTypes, Grows
<1>2. Texts \subseteq Texts' BY <1>1 DEF Texts, Grows
<1>3. EditorHas(u)'
  <2>1. pc[u] \in {"edit", "record"} => row'[Head(local[u].todo)] # absent
      BY HasNote DEF InHands, EditorHas, RowsStay
  <2> QED BY <1>2, <2>1 DEF InHands, EditorHas, Grows
<1>4. LoaderHas(u)' BY DEF InHands, LoaderHas, Loads
<1>5. RefinerHas(u)' BY <1>2 DEF InHands, RefinerHas
<1>6. ASSUME pc[u] \in WhileReplacing, NEW i \in DOMAIN Outputs
      PROVE  /\ made'[local[u].first + i] = made[local[u].first + i]
             /\ local[u].first + Len(Outputs) <= Len(made')
  <2>1. local[u].first \in Nat BY DEF AuthoredTypes, Hands
  <2>2. i \in Nat /\ 1 <= i /\ i <= Len(Outputs) /\ Len(Outputs) \in Nat BY AuthoringAssumption
  <2>3. local[u].first + Len(Outputs) <= Len(made) BY <1>6 DEF InHands, GeneratorHas
  <2>4. local[u].first + i \in Texts BY <1>1, <2>1, <2>2, <2>3 DEF Texts
  <2> QED BY <1>1, <2>1, <2>2, <2>3, <2>4 DEF Grows
<1>7. Current(u)' = Current(u) BY DEF Current
<1>8. GeneratorHas(u)'
  <2>1. CASE pc[u] \in WhileReplacing
    <3>1. local[u].item \in DOMAIN Outputs BY <2>1 DEF InHands, GeneratorHas
    <3> QED BY <1>6, <1>7, <2>1, <3>1 DEF InHands, GeneratorHas
  <2> QED BY <2>1 DEF InHands, GeneratorHas
<1> QED BY <1>3, <1>4, <1>5, <1>8 DEF InHands

LEMMA BaseStep ==
  ASSUME Base, NEW t, NEW q, NEW r, Act(t, q, r), AuthoredTypes', InHands(t)',
         \/ q = "idle" \/ pc[t] # "idle" \/ role[t] # "generator"
         \/ \A u \in Threads : role[u] = "generator" => pc[u] = "idle"
  PROVE  Base'
<1>1. AuthoredTypes /\ (\A u \in Threads : InHands(u)) /\ OneGenerator BY DEF Base
<1>2. /\ t \in Threads /\ pc'[t] = q /\ role' = role
      /\ \A u \in Threads : u # t => pc'[u] = pc[u] /\ local'[u] = local[u]
    BY <1>1, ActHas
<1>3. \A u \in Threads : InHands(u)' BY <1>1, <1>2, OthersHave DEF Act
<1>4. OneGenerator' BY <1>1, <1>2 DEF OneGenerator
<1> QED BY <1>3, <1>4 DEF Base

LEMMA Typed ==
  ASSUME AuthoredTypes
  PROVE  /\ role \in Casts /\ made \in Seq(Makings) /\ Len(made) \in Nat
         /\ files \in [Notes -> Texts \cup {absent}] /\ row \in [Notes -> Rows \cup {absent}]
         /\ lock \in [Notes -> Threads \cup {absent}]
         /\ \A n \in Notes : row[n] # absent =>
              row[n] \in Rows /\ row[n].revision \in Nat \ {0} /\ row[n].text \in Nat
         /\ \A t \in Threads : local[t] \in Hands /\ local[t].item \in Nat /\ local[t].first \in Nat
BY DEF AuthoredTypes, Rows, Hands

(* The shapes after a step: what is written must have its own. *)
LEMMA Shaped ==
  ASSUME AuthoredTypes, NEW t, NEW q, NEW r \in Hands, Act(t, q, r),
         files' \in [Notes -> Texts' \cup {absent}] \/ files' = files,
         row' \in [Notes -> Rows \cup {absent}], lock' \in [Notes -> Threads \cup {absent}],
         crossing' = crossing,
         \/ UNCHANGED <<template, trow, version, promised>>
         \/ /\ template' \in Pairs \cup {absent} /\ trow' \in Bundles \cup {absent}
            /\ version' \in Nat /\ promised' \in WholePairs,
         lineage' \subseteq Trails, candidate' \in Identities \cup {absent}
  PROVE  AuthoredTypes'
<1>1. Texts \subseteq Texts' BY Typed DEF Act, Grows, Texts
<1>2. files' \in [Notes -> Texts' \cup {absent}] BY <1>1 DEF AuthoredTypes
<1>3. DOMAIN pc' = Threads /\ local' \in [Threads -> Hands] /\ role' = role /\ made' \in Seq(Makings)
    BY DEF AuthoredTypes, Act, Grows
<1> QED BY <1>2, <1>3 DEF AuthoredTypes

LEMMA Unwritten ==
  ASSUME AuthoredTypes, NEW t, NEW q, NEW r \in Hands, Act(t, q, r),
         UNCHANGED <<files, row, crossing, lock, registry, lineage, refinement>>
  PROVE  AuthoredTypes'
<1>1. UNCHANGED <<template, trow, version, promised, candidate>> BY DEF registry, refinement
<1> QED BY <1>1, Shaped DEF AuthoredTypes

LEMMA SameRows == ASSUME row' = row PROVE RowsStay BY DEF RowsStay

-----------------------------------------------------------------------------
(* Editors *)

Aside == UNCHANGED <<registry, lineage, refinement>>

LEMMA EditNotesBase ==
  ASSUME Base, NEW t \in Threads, NEW b \in Batches, EditNotes(t, b), Aside
  PROVE  Base'
<1> DEFINE r == [Nothing EXCEPT !.todo = b]
<1>1. b \in Seq(Notes)
  <2>1. Outputs \in Seq(Notes) BY AuthoringAssumption DEF Notes
  <2>2. \A m \in Notes : <<m>> \in Seq(Notes) OBVIOUS
  <2> QED BY <2>1, <2>2 DEF Batches
<1>2. r \in Hands BY <1>1, HandsTake, NothingIsAHand
<1>3. AuthoredTypes BY DEF Base
<1>4. Act(t, "next", r) BY <1>3, SameTexts, SameRows DEF EditNotes, Start, Act, vault
<1>5. AuthoredTypes'
  <2> HIDE DEF r
  <2> QED BY <1>2, <1>3, <1>4, Unwritten DEF EditNotes, vault, Aside
<1>6. InHands(t)'
  <2>1. pc'[t] = "next" BY <1>3, <1>4, ActHas
  <2> QED BY <2>1 DEF InHands, EditorHas, LoaderHas, GeneratorHas, RefinerHas, Loads, WhileReplacing
<1>7. role[t] # "generator" BY DEF EditNotes, Start
<1> HIDE DEF r
<1> QED BY <1>4, <1>5, <1>6, <1>7, BaseStep

LEMMA BeginEditBase ==
  ASSUME Base, NEW t \in Threads, NEW S, BeginEdit(t, S), Aside
  PROVE  Base'
<1> DEFINE n == Head(local[t].todo)
           r0 == [local[t] EXCEPT !.expected = row[n]]
           r == [local[t] EXCEPT !.expected = row[n], !.before = files[n]]
<1>1. AuthoredTypes BY DEF Base
<1>2. n \in Notes BY <1>1, HasNote DEF BeginEdit
<1>3. row[n] \in Rows /\ files[n] \in Texts /\ files[n] \in Nat /\ local[t] \in Hands
    BY <1>1, <1>2, Typed DEF BeginEdit, Editable, Texts
<1>4. r \in Hands
  <2>1. r0 \in Hands BY <1>3, HandsTake
  <2>2. [r0 EXCEPT !.before = files[n]] \in Hands BY <1>3, <2>1, HandsTake
  <2>3. r = [r0 EXCEPT !.before = files[n]] BY <1>3 DEF Hands
  <2> QED BY <2>2, <2>3
<1>5. Act(t, "edit", r) BY <1>1, SameTexts, SameRows DEF BeginEdit, Proceed, Act
<1>6. AuthoredTypes'
  <2>1. lock' \in [Notes -> Threads \cup {absent}] BY <1>1 DEF BeginEdit, AuthoredTypes
  <2> HIDE DEF r
  <2> QED BY <1>1, <1>4, <1>5, <2>1, Shaped DEF BeginEdit, Aside, registry, refinement, AuthoredTypes
<1>7. InHands(t)'
  <2>1. pc'[t] = "edit" /\ local'[t] = r BY <1>1, <1>5, ActHas
  <2>2. /\ r.todo = local[t].todo /\ r.todo # <<>> /\ r.expected \in Rows /\ r.before \in Texts
      BY <1>3 DEF Hands, BeginEdit
  <2>3. Texts' = Texts /\ row'[n] # absent BY DEF BeginEdit, Texts, Editable
  <2> QED BY <2>1, <2>2, <2>3 DEF InHands, EditorHas, LoaderHas, GeneratorHas, RefinerHas, Loads, WhileReplacing
<1>8. pc[t] # "idle" BY DEF BeginEdit, On
<1> HIDE DEF r
<1> QED BY <1>5, <1>6, <1>7, <1>8, BaseStep

\* Positions at which a call has nothing in hand that matters.
Empty == {"idle", "next", "refuse", "promote", "released"}

LEMMA EmptyHands ==
  ASSUME NEW t, pc'[t] \in Empty PROVE InHands(t)'
BY DEF Empty, InHands, EditorHas, LoaderHas, GeneratorHas, RefinerHas, Loads, WhileReplacing

LEMMA Finishes ==
  ASSUME Base, NEW t, Act(t, "idle", Nothing), AuthoredTypes' PROVE Base'
<1>1. pc'[t] = "idle" BY ActHas DEF Base
<1> QED BY <1>1, EmptyHands, BaseStep DEF Empty

LEMMA SkipEditBase ==
  ASSUME Base, NEW t \in Threads, SkipEdit(t), Aside
  PROVE  Base'
<1> DEFINE r == [local[t] EXCEPT !.todo = Tail(@)]
<1>1. AuthoredTypes BY DEF Base
<1>2. r \in Hands BY <1>1, HasNote, HandsTake, Typed DEF SkipEdit
<1>3. Act(t, "next", r) BY <1>1, SameTexts, SameRows DEF SkipEdit, Proceed, Act, vault
<1> HIDE DEF r
<1>4. AuthoredTypes'
  BY <1>1, <1>2, <1>3, Unwritten DEF SkipEdit, vault, Aside
<1>5. InHands(t)' BY <1>1, <1>3, ActHas, EmptyHands DEF Empty
<1>6. pc[t] # "idle" BY DEF SkipEdit, On
<1> QED BY <1>3, <1>4, <1>5, <1>6, BaseStep

LEMMA WriteEditBase ==
  ASSUME Base, NEW t \in Threads, WriteEdit(t), Aside
  PROVE  Base'
<1> DEFINE r == [local[t] EXCEPT !.text = Fresh]
           n == Head(local[t].todo)
<1>1. AuthoredTypes /\ InHands(t) /\ On(t, "edit") /\ local[t] \in Hands
    BY Typed DEF Base, WriteEdit
<1>2. n \in Notes BY <1>1, HasNote DEF InHands, EditorHas, On
<1>3. files[n] \in Nat \cup {absent} BY <1>1, <1>2, Typed DEF Texts
<1>4. Grows /\ Fresh \in Texts' /\ Fresh \in Nat /\ made'[Fresh].by = "person"
  <2>1. Made("person", files[n], absent) BY DEF WriteEdit
  <2> QED BY <1>1, <1>3, <2>1, WrittenText
<1>5. r \in Hands BY <1>1, <1>4, HandsTake
<1>6. Act(t, "record", r) BY <1>4, SameRows DEF WriteEdit, Proceed, Act
<1>7. r.todo = local[t].todo /\ r.expected = local[t].expected /\ r.before = local[t].before
      /\ r.text = Fresh
    BY <1>1 DEF Hands
<1>8. Texts \subseteq Texts' BY <1>1, <1>4, Typed DEF Grows, Texts
<1> HIDE DEF r
<1>9. AuthoredTypes'
  <2>1. files' \in [Notes -> Texts' \cup {absent}] BY <1>1, <1>4, <1>8, Typed DEF WriteEdit
  <2> QED BY <1>1, <1>5, <1>6, <2>1, Shaped DEF WriteEdit, Aside, registry, refinement, AuthoredTypes
<1>10. InHands(t)'
  <2>1. pc'[t] = "record" /\ local'[t] = r /\ row' = row BY <1>1, <1>6, ActHas DEF WriteEdit
  <2> QED BY <1>1, <1>4, <1>7, <1>8, <2>1
      DEF On, InHands, EditorHas, LoaderHas, GeneratorHas, RefinerHas, Loads, WhileReplacing
<1>11. pc[t] # "idle" BY <1>1 DEF On
<1> QED BY <1>6, <1>9, <1>10, <1>11, BaseStep

LEMMA RowShape ==
  ASSUME AuthoredTypes, NEW n \in Notes, NEW x \in Nat
  PROVE  /\ NewRow(x) \in Rows
         /\ row[n] # absent => Revised(n, x) \in Rows
<1>1. row[n] # absent => row[n].revision \in Nat BY Typed
<1> QED BY <1>1 DEF NewRow, Revised, Rows

LEMMA RecordEditBase ==
  ASSUME Base, NEW t \in Threads, RecordEdit(t), Aside
  PROVE  Base'
<1> DEFINE r == [local[t] EXCEPT !.todo = Tail(@)]
           n == Head(local[t].todo)
<1>1. AuthoredTypes /\ InHands(t) /\ On(t, "record") /\ local[t] \in Hands
    BY Typed DEF Base, RecordEdit
<1>2. n \in Notes /\ r \in Hands BY <1>1, HasNote, HandsTake DEF InHands, EditorHas, On
<1>3. /\ local[t].text \in Nat /\ local[t].before \in Texts /\ Texts' = Texts
      BY <1>1 DEF InHands, EditorHas, On, Texts, RecordEdit
<1>8. Revised(n, local[t].text) \in Rows /\ Revised(n, local[t].text) # absent
  <2>1. row[n] # absent BY <1>1 DEF InHands, EditorHas, On
  <2> QED BY <1>1, <1>2, <1>3, <2>1, RowShape, AbsentIsNone
<1>4. Act(t, "next", r)
  <2>1. RowsStay BY <1>1, <1>8, Typed DEF RowsStay, RecordEdit
  <2> QED BY <1>1, <2>1, SameTexts DEF RecordEdit, Proceed, Act
<1> HIDE DEF r
<1>5. AuthoredTypes'
  <2>1. files' \in [Notes -> Texts' \cup {absent}] BY <1>1, <1>3, Typed DEF RecordEdit
  <2>2. row' \in [Notes -> Rows \cup {absent}] BY <1>1, <1>2, <1>8, Typed DEF RecordEdit
  <2>3. lock' \in [Notes -> Threads \cup {absent}] BY <1>1, Typed DEF RecordEdit
  <2> QED BY <1>1, <1>2, <1>4, <2>1, <2>2, <2>3, Shaped
      DEF RecordEdit, Aside, registry, refinement, AuthoredTypes
<1>6. InHands(t)' BY <1>1, <1>4, ActHas, EmptyHands DEF Empty
<1>7. pc[t] # "idle" BY <1>1 DEF On
<1> QED BY <1>4, <1>5, <1>6, <1>7, BaseStep

LEMMA EditsDoneBase ==
  ASSUME Base, NEW t \in Threads, EditsDone(t), Aside
  PROVE  Base'
<1>1. AuthoredTypes BY DEF Base
<1>2. Act(t, "idle", Nothing) BY <1>1, SameTexts, SameRows DEF EditsDone, Finish, Proceed, Act, vault
<1>3. AuthoredTypes'
    BY <1>1, <1>2, NothingIsAHand, Unwritten DEF EditsDone, vault, Aside
<1> QED BY <1>2, <1>3, Finishes

(* Approvals move no thread. *)
LEMMA Still ==
  ASSUME Base, UNCHANGED <<role, files, lock, made, pc, local>>,
         UNCHANGED <<registry, lineage, refinement>>,
         RowsStay, row' \in [Notes -> Rows \cup {absent}],
         crossing' \in [Notes -> Identities \cup {absent}]
  PROVE  Base'
<1>1. AuthoredTypes /\ (\A u \in Threads : InHands(u)) /\ OneGenerator BY DEF Base
<1>2. AuthoredTypes'
    BY <1>1 DEF AuthoredTypes, registry, refinement, Texts
<1>3. \A u \in Threads : InHands(u)' BY <1>1, SameTexts, OthersHave
<1>4. OneGenerator' BY <1>1 DEF OneGenerator
<1> QED BY <1>2, <1>3, <1>4 DEF Base

LEMMA ApproveBase ==
  ASSUME Base, Approve
  PROVE  Base'
<1>1. AuthoredTypes BY DEF Base
<1>2. CASE \E n \in {Source, Candidate} : ApproveCrossing(n)
  <2>1. PICK n \in {Source, Candidate} : ApproveCrossing(n) BY <1>2
  <2>2. n \in Notes /\ row[n] # absent BY <2>1 DEF Notes, ApproveCrossing, Agrees
  <2>3. [revision |-> row[n].revision, text |-> row[n].text] \in Identities
      BY <1>1, <2>2, Typed DEF Identities
  <2>4. crossing' \in [Notes -> Identities \cup {absent}]
      BY <1>1, <2>1, <2>2, <2>3 DEF ApproveCrossing, AuthoredTypes
  <2>5. UNCHANGED <<role, files, lock, made, pc, local, row>>
        /\ UNCHANGED <<registry, lineage, refinement>>
      BY <2>1 DEF ApproveCrossing, Approve
  <2> QED BY <1>1, <2>4, <2>5, Still, SameRows DEF AuthoredTypes
<1>3. CASE \E n \in ToSet(Outputs) : ApproveProcessedNote(n)
  <2>1. PICK n \in ToSet(Outputs) : ApproveProcessedNote(n) BY <1>3
  <2>2. n \in Notes /\ row[n] \in Rows /\ row[n] # absent
      BY <1>1, <2>1, Typed DEF Notes, ApproveProcessedNote, Agrees
  <2>3. [row[n] EXCEPT !.status = "approved"] \in Rows BY <2>2 DEF Rows
  <2>4. row' = [row EXCEPT ![n] = [row[n] EXCEPT !.status = "approved"]]
      BY <2>1, Zenon DEF ApproveProcessedNote
  <2>5. row' \in [Notes -> Rows \cup {absent}] /\ RowsStay
      BY <1>1, <2>2, <2>3, <2>4, AbsentIsNone DEF AuthoredTypes, RowsStay
  <2>6. UNCHANGED <<role, files, lock, made, pc, local, crossing>>
        /\ UNCHANGED <<registry, lineage, refinement>>
      BY <2>1 DEF ApproveProcessedNote, Approve
  <2> QED BY <1>1, <2>5, <2>6, Still DEF AuthoredTypes
<1> QED BY <1>2, <1>3 DEF Approve

LEMMA DieBase ==
  ASSUME Base, Die
  PROVE  Base'
<1>1. AuthoredTypes BY DEF Base
<1>2. /\ UNCHANGED <<role, files, row, crossing, made>>
      /\ UNCHANGED <<registry, lineage, refinement>>
      /\ pc' = [t \in Threads |-> "idle"] /\ local' = [t \in Threads |-> Nothing]
      /\ lock' = [n \in Notes |-> absent]
    BY DEF Die, ProcessDies
<1>3. AuthoredTypes'
  BY <1>1, <1>2, NothingIsAHand DEF AuthoredTypes, registry, refinement, Texts
<1>4. \A u \in Threads : InHands(u)' BY <1>2, EmptyHands DEF Empty
<1>5. OneGenerator' BY <1>2 DEF OneGenerator
<1> QED BY <1>3, <1>4, <1>5 DEF Base

-----------------------------------------------------------------------------
(* Authors *)

LEMMA OutputsAreNotes == \A n \in ToSet(Outputs) :
  n \in Notes /\ n # Source /\ n # Candidate /\ n # Promoted
BY AuthoringAssumption DEF Notes

LEMMA NewNoteBase ==
  ASSUME Base, NEW t \in Threads, NEW n \in ToSet(Outputs), NEW base \in Nat \cup {absent},
         NewNote(t, n, base)
  PROVE  Base'
<1> DEFINE r0 == [Nothing EXCEPT !.note = n]
           r == [Nothing EXCEPT !.note = n, !.text = Fresh]
<1>1. AuthoredTypes /\ n \in Notes BY OutputsAreNotes DEF Base
<1>2. Grows /\ Fresh \in Texts' /\ Fresh \in Nat /\ made'[Fresh].by = "person"
  <2>1. Made("person", base, absent) BY DEF NewNote
  <2> QED BY <1>1, <2>1, WrittenText
<1>3. r \in Hands /\ r.note = n /\ r.text = Fresh
  <2>1. r0 \in Hands BY <1>1, HandsTake, NothingIsAHand
  <2>2. [r0 EXCEPT !.text = Fresh] \in Hands BY <1>2, <2>1, HandsTake
  <2>3. r = [r0 EXCEPT !.text = Fresh] BY DEF Nothing
  <2> QED BY <2>2, <2>3 DEF Nothing
<1>4. Act(t, "created", r) BY <1>2, SameRows DEF NewNote, Start, Act
<1>5. role[t] # "generator" BY DEF NewNote, Start
<1> HIDE DEF r
<1>6. AuthoredTypes'
  <2>1. files' \in [Notes -> Texts' \cup {absent}]
    <3>1. Texts \subseteq Texts' BY <1>1, <1>2, Typed DEF Grows, Texts
    <3> QED BY <1>1, <1>2, <3>1, Typed DEF NewNote
  <2>2. lock' \in [Notes -> Threads \cup {absent}] BY <1>1, Typed DEF NewNote
  <2> QED BY <1>1, <1>3, <1>4, <2>1, <2>2, Shaped DEF NewNote, registry, refinement, AuthoredTypes
<1>7. InHands(t)'
  <2>1. pc'[t] = "created" /\ local'[t] = r BY <1>1, <1>4, ActHas
  <2> QED BY <1>2, <1>3, <2>1 DEF InHands, EditorHas, LoaderHas, GeneratorHas, RefinerHas, Loads, WhileReplacing
<1> QED BY <1>4, <1>5, <1>6, <1>7, BaseStep

LEMMA RegisterNoteBase ==
  ASSUME Base, NEW t \in Threads, RegisterNote(t)
  PROVE  Base'
<1> DEFINE n == local[t].note
<1>1. AuthoredTypes /\ InHands(t) /\ On(t, "created") BY DEF Base, RegisterNote
<1>2. n \in Notes /\ local[t].text \in Nat /\ made' = made
    BY <1>1, OutputsAreNotes DEF InHands, EditorHas, On, Texts, RegisterNote
<1>3. NewRow(local[t].text) \in Rows /\ NewRow(local[t].text) # absent
    BY <1>1, <1>2, RowShape, AbsentIsNone
<1>4. row' \in [Notes -> Rows \cup {absent}] /\ RowsStay
    BY <1>1, <1>2, <1>3, Typed DEF RegisterNote, RowsStay
<1>5. files' \in [Notes -> Texts' \cup {absent}]
    BY <1>1, <1>2, Typed DEF RegisterNote, Texts
<1>6. lock' \in [Notes -> Threads \cup {absent}] BY <1>1, Typed DEF RegisterNote
<1>7. Act(t, "idle", Nothing)
    BY <1>1, <1>2, <1>4, SameTexts DEF RegisterNote, Finish, Proceed, Act
<1>8. AuthoredTypes'
    BY <1>1, <1>4, <1>5, <1>6, <1>7, NothingIsAHand, Shaped
    DEF RegisterNote, registry, refinement, AuthoredTypes
<1> QED BY <1>7, <1>8, Finishes

LEMMA AuthorBase ==
  ASSUME Base, Author
  PROVE  Base'
<1>1. PICK t \in Threads :
        \/ \E n \in ToSet(Outputs) : CreateMergedNote(t, n) \/ CreateAssistantNote(t, n) \/ CreateManualNote(t, n)
        \/ RegisterNote(t)
    BY DEF Author
<1>2. CASE RegisterNote(t) BY <1>2, RegisterNoteBase
<1>3. ASSUME NEW n \in ToSet(Outputs),
             CreateMergedNote(t, n) \/ CreateAssistantNote(t, n) \/ CreateManualNote(t, n)
      PROVE  Base'
  <2>1. \A m \in Notes : files[m] \in Nat \cup {absent} BY Typed DEF Base, Texts
  <2>2. \E base \in Nat \cup {absent} : NewNote(t, n, base)
      BY <1>3, <2>1, OutputsAreNotes DEF CreateMergedNote, CreateAssistantNote, CreateManualNote
  <2> QED BY <2>2, NewNoteBase
<1> QED BY <1>1, <1>2, <1>3

LEMMA EditBase ==
  ASSUME Base, Edit
  PROVE  Base'
<1>1. Aside BY DEF Edit, Aside
<1>2. PICK t \in Threads :
        \/ \E b \in Batches : EditNotes(t, b)
        \/ BeginEdit(t, {n \in Notes : BeingReplaced(n)}) \/ SkipEdit(t) \/ WriteEdit(t)
        \/ RecordEdit(t) \/ EditsDone(t)
    BY DEF Edit
<1> QED BY <1>1, <1>2, EditNotesBase, BeginEditBase, SkipEditBase, WriteEditBase,
           RecordEditBase, EditsDoneBase

-----------------------------------------------------------------------------
(* Templates *)

\* Only the template and its row are written.
VaultStays == UNCHANGED <<role, files, row, crossing, lock, made>>
              /\ UNCHANGED <<lineage, refinement>>

LEMMA RegistryWritten ==
  ASSUME AuthoredTypes, NEW t \in Threads, NEW q, NEW r \in Hands,
         pc' = [pc EXCEPT ![t] = q], local' = [local EXCEPT ![t] = r], VaultStays,
         template' \in Pairs \cup {absent}, trow' \in Bundles \cup {absent},
         version' \in Nat, promised' \in WholePairs
  PROVE  AuthoredTypes' /\ Act(t, q, r)
<1>1. UNCHANGED <<role, files, row, crossing, lock, made, lineage, candidate>>
    BY DEF VaultStays, refinement
<1>2. Act(t, q, r) BY <1>1, SameTexts, SameRows DEF Act
<1> QED BY <1>1, <1>2, Shaped DEF AuthoredTypes

LEMMA Stored ==
  ASSUME AuthoredTypes
  PROVE  /\ template \in Pairs \cup {absent} /\ trow \in Bundles \cup {absent}
         /\ version \in Nat /\ promised \in WholePairs /\ WholePairs \subseteq Pairs
         /\ Packaged \in WholePairs
         /\ template # absent => template.template \in Nat
         /\ template # absent /\ template.agents # absent => template \in WholePairs
         /\ trow # absent => trow.revision \in Nat
         /\ \A pair \in WholePairs, n \in Nat : Registered(n, pair) \in Bundles
         /\ \A pair \in Given : pair \in WholePairs
<1>1. /\ template \in Pairs \cup {absent} /\ trow \in Bundles \cup {absent}
      /\ version \in Nat /\ promised \in WholePairs
    BY DEF AuthoredTypes
<1>2. WholePairs \subseteq Pairs /\ Packaged \in WholePairs BY DEF WholePairs, Pairs, Packaged
<1>3. template # absent => template.template \in Nat BY <1>1 DEF Pairs
<1>4. template # absent /\ template.agents # absent => template \in WholePairs
    BY <1>1 DEF Pairs, WholePairs
<1>5. trow # absent => trow.revision \in Nat BY <1>1 DEF Bundles
<1>6. \A pair \in WholePairs, n \in Nat : Registered(n, pair) \in Bundles
    BY DEF Registered, WholePairs, Bundles
<1>7. \A pair \in Given : pair \in WholePairs
    BY <1>1, <1>2, <1>3 DEF Given, WholePairs
<1> QED BY <1>1, <1>2, <1>3, <1>4, <1>5, <1>6, <1>7

LEMMA EnsureFilesBase ==
  ASSUME Base, NEW t \in Threads, EnsureFiles(t), UNCHANGED <<lineage, refinement>>
  PROVE  Base' /\ template' \in WholePairs
<1> DEFINE r == [local[t] EXCEPT !.found = template']
<1>1. AuthoredTypes /\ InHands(t) /\ On(t, "load") /\ local[t] \in Hands
    BY Typed DEF Base, EnsureFiles
<1>2. template' \in WholePairs BY <1>1, Stored DEF EnsureFiles
<1>3. r \in Hands /\ r.found = template' /\ r.moved = local[t].moved
  <2>1. r \in Hands BY <1>1, <1>2, HandsTake
  <2> QED BY <1>1, <2>1 DEF Hands
<1>4. pc' = [pc EXCEPT ![t] = "register template"] /\ local' = [local EXCEPT ![t] = r] /\ VaultStays
    BY DEF EnsureFiles, Proceed, VaultStays, vault
<1> HIDE DEF r
<1>5. AuthoredTypes' /\ Act(t, "register template", r)
    BY <1>1, <1>2, <1>3, <1>4, RegistryWritten, Stored DEF EnsureFiles
<1>6. InHands(t)'
  <2>1. pc'[t] = "register template" /\ local'[t] = r /\ role' = role BY <1>1, <1>5, ActHas
  <2>2. role[t] \in {"generator", "tailor"} BY <1>1 DEF On, Loads, InHands, LoaderHas
  <2>3. template' # absent BY <1>2, AbsentIsNone
  <2>4. role[t] = "generator" => local[t].moved = {} BY <1>1 DEF On, Loads, InHands, GeneratorHas
  <2> QED BY <1>3, <2>1, <2>2, <2>3, <2>4 DEF InHands, EditorHas, LoaderHas, GeneratorHas, RefinerHas, Loads, WhileReplacing
<1>7. pc[t] # "idle" BY <1>1 DEF On
<1> QED BY <1>2, <1>5, <1>6, <1>7, BaseStep

LEMMA UpsertBase ==
  ASSUME Base, NEW t \in Threads, UpsertTemplate(t), UNCHANGED <<lineage, refinement>>
  PROVE  Base'
<1> DEFINE r == [local[t] EXCEPT !.bundle = trow']
<1>1. AuthoredTypes /\ InHands(t) /\ On(t, "register template") /\ local[t] \in Hands
    BY Typed DEF Base, UpsertTemplate
<1>2. local[t].found \in WholePairs
  <2>1. local[t].found \in WholePairs \cup {absent} BY <1>1 DEF Hands
  <2>2. local[t].found # absent BY <1>1 DEF On, Loads, InHands, LoaderHas
  <2> QED BY <2>1, <2>2
<1>3. trow' \in Bundles BY <1>1, <1>2, Stored DEF UpsertTemplate
<1>4. r \in Hands /\ r.bundle = trow' /\ r.moved = local[t].moved
  <2>1. r \in Hands BY <1>1, <1>3, HandsTake
  <2> QED BY <1>1, <2>1 DEF Hands
<1>5. pc' = [pc EXCEPT ![t] = "read template"] /\ local' = [local EXCEPT ![t] = r] /\ VaultStays
    BY DEF UpsertTemplate, Proceed, VaultStays, vault
<1> HIDE DEF r
<1>6. AuthoredTypes' /\ Act(t, "read template", r)
    BY <1>1, <1>3, <1>4, <1>5, RegistryWritten, Stored DEF UpsertTemplate
<1>7. InHands(t)'
  <2>1. pc'[t] = "read template" /\ local'[t] = r /\ role' = role BY <1>1, <1>6, ActHas
  <2>2. role[t] \in {"generator", "tailor"} BY <1>1 DEF On, Loads, InHands, LoaderHas
  <2>3. trow' # absent BY <1>3, AbsentIsNoBundle
  <2>4. role[t] = "generator" => local[t].moved = {} BY <1>1 DEF On, Loads, InHands, GeneratorHas
  <2> QED BY <1>4, <2>1, <2>2, <2>3, <2>4 DEF InHands, EditorHas, LoaderHas, GeneratorHas, RefinerHas, Loads, WhileReplacing
<1>8. pc[t] # "idle" BY <1>1 DEF On
<1> QED BY <1>6, <1>7, <1>8, BaseStep

LEMMA SaveBase ==
  ASSUME Base, NEW t \in Threads, NEW pair, SaveTemplate(t, pair) \/ SaveFirst(t, pair),
         UNCHANGED <<lineage, refinement>>
  PROVE  Base'
<1> DEFINE r == [Nothing EXCEPT !.pair = pair]
           q == IF trow = absent THEN "first" ELSE "template"
<1>1. AuthoredTypes /\ role[t] = "tailor"
    BY DEF Base, SaveTemplate, SaveFirst, Start
<1>2. pair \in WholePairs BY <1>1, Stored DEF SaveTemplate, SaveFirst
<1>3. r \in Hands /\ r.pair = pair /\ r.told = absent
    BY <1>1, <1>2, HandsTake, NothingIsAHand, Stored DEF Nothing
<1>4. pc' = [pc EXCEPT ![t] = q] /\ local' = [local EXCEPT ![t] = r] /\ VaultStays
    BY DEF SaveTemplate, SaveFirst, Start, VaultStays, vault
<1>5. trow' \in Bundles \cup {absent}
  <2>1. CASE SaveFirst(t, pair) BY <1>1, <2>1, Stored DEF SaveFirst
  <2>2. CASE SaveTemplate(t, pair)
    <3>1. trow.revision + 1 \in Nat BY <1>1, <2>2, Stored DEF SaveTemplate
    <3> QED BY <1>1, <1>2, <2>2, <3>1, Stored DEF SaveTemplate
  <2> QED BY <2>1, <2>2
<1>6. version' \in Nat /\ template' = template /\ promised' = promised
    BY <1>1, Stored DEF SaveTemplate, SaveFirst
<1> HIDE DEF r
<1>7. AuthoredTypes' /\ Act(t, q, r)
  <2> HIDE DEF q
  <2> QED BY <1>1, <1>3, <1>4, <1>5, <1>6, RegistryWritten, Stored
<1>8. InHands(t)'
  <2>1. pc'[t] \in {"first", "template"} /\ local'[t] = r /\ role' = role BY <1>1, <1>7, ActHas
  <2> QED BY <1>1, <1>2, <1>3, <2>1 DEF InHands, EditorHas, LoaderHas, GeneratorHas, RefinerHas, Loads, WhileReplacing
<1> HIDE DEF q
<1> QED BY <1>1, <1>7, <1>8, BaseStep

LEMMA WriteTemplateBase ==
  ASSUME Base, NEW t \in Threads, WriteTemplate(t), UNCHANGED <<lineage, refinement>>
  PROVE  Base'
<1>1. AuthoredTypes /\ InHands(t) /\ pc[t] \in {"template", "first"} /\ local[t] \in Hands
    BY Typed DEF Base, WriteTemplate
<1>2. local[t].pair \in WholePairs /\ role[t] = "tailor" /\ local[t].told = absent
    BY <1>1 DEF InHands, LoaderHas, Loads
<1>3. pc' = [pc EXCEPT ![t] = "agents"] /\ local' = [local EXCEPT ![t] = local[t]] /\ VaultStays
    BY DEF WriteTemplate, Proceed, VaultStays, vault
<1>4. template' \in Pairs BY <1>1, <1>2, Stored DEF WriteTemplate, Pairs, WholePairs
<1>5. AuthoredTypes' /\ Act(t, "agents", local[t])
    BY <1>1, <1>3, <1>4, RegistryWritten, Stored DEF WriteTemplate
<1>6. InHands(t)'
  <2>1. pc'[t] = "agents" /\ local'[t] = local[t] /\ role' = role BY <1>1, <1>5, ActHas
  <2> QED BY <1>2, <2>1 DEF InHands, EditorHas, LoaderHas, GeneratorHas, RefinerHas, Loads, WhileReplacing
<1> QED BY <1>1, <1>5, <1>6, BaseStep

LEMMA WriteAgentsBase ==
  ASSUME Base, TemplateThere, NEW t \in Threads, WriteAgents(t), UNCHANGED <<lineage, refinement>>
  PROVE  Base'
<1>1. AuthoredTypes /\ InHands(t) /\ On(t, "agents") /\ local[t] \in Hands
    BY Typed DEF Base, WriteAgents
<1>2. local[t].pair \in WholePairs /\ role[t] = "tailor" BY <1>1 DEF On, Loads, InHands, LoaderHas
<1>3. pc' = [pc EXCEPT ![t] = "load"] /\ local' = [local EXCEPT ![t] = local[t]] /\ VaultStays
    BY DEF WriteAgents, Proceed, VaultStays, vault
<1>4. template' \in Pairs \cup {absent}
  <2>1. local[t].pair.agents \in Nat BY <1>2 DEF WholePairs
  <2>2. template # absent BY <1>1 DEF TemplateThere, On
  <2> QED BY <1>1, <2>1, <2>2, Stored DEF WriteAgents, Pairs
<1>5. AuthoredTypes' /\ Act(t, "load", local[t])
    BY <1>1, <1>2, <1>3, <1>4, RegistryWritten, Stored DEF WriteAgents
<1>6. InHands(t)'
  <2>1. pc'[t] = "load" /\ local'[t] = local[t] /\ role' = role BY <1>1, <1>5, ActHas
  <2> QED BY <1>2, <2>1 DEF InHands, EditorHas, LoaderHas, GeneratorHas, RefinerHas, Loads, WhileReplacing
<1>7. pc[t] # "idle" BY <1>1 DEF On
<1> QED BY <1>5, <1>6, <1>7, BaseStep

LEMMA SaveReturnsBase ==
  ASSUME Base, NEW t \in Threads, SaveReturns(t), UNCHANGED <<lineage, refinement>>
  PROVE  Base'
<1>1. AuthoredTypes BY DEF Base
<1>2. pc' = [pc EXCEPT ![t] = "idle"] /\ local' = [local EXCEPT ![t] = Nothing] /\ VaultStays
      /\ UNCHANGED registry
    BY DEF SaveReturns, Finish, Proceed, VaultStays, vault
<1>3. AuthoredTypes' /\ Act(t, "idle", Nothing)
    BY <1>1, <1>2, NothingIsAHand, RegistryWritten, Stored DEF registry
<1> QED BY <1>3, Finishes

-----------------------------------------------------------------------------
(* The generator *)

LEMMA GenerateBase ==
  ASSUME Base, NEW t \in Threads, Generate(t), UNCHANGED refinement
  PROVE  Base'
<1> DEFINE r == [Nothing EXCEPT !.origin = row[Source].text]
<1>1. AuthoredTypes /\ role[t] = "generator" BY DEF Base, Generate, Start
<1>2. row[Source].text \in Nat BY <1>1, Typed DEF Generate, Notes
<1>3. r \in Hands /\ r.moved = {}
  <2>1. r \in Hands BY <1>2, HandsTake, NothingIsAHand
  <2> QED BY <2>1 DEF Nothing
<1>4. pc' = [pc EXCEPT ![t] = "load"] /\ local' = [local EXCEPT ![t] = r] /\ VaultStays
      /\ UNCHANGED <<template, trow, version, promised>>
    BY DEF Generate, Start, VaultStays, vault
<1> HIDE DEF r
<1>5. AuthoredTypes' /\ Act(t, "load", r) BY <1>1, <1>3, <1>4, RegistryWritten, Stored
<1>6. InHands(t)'
  <2>1. pc'[t] = "load" /\ role' = role /\ local'[t] = r BY <1>1, <1>5, ActHas
  <2> QED BY <1>1, <1>3, <2>1 DEF InHands, EditorHas, LoaderHas, GeneratorHas, RefinerHas, Loads, WhileReplacing
<1>7. \A u \in Threads : role[u] = "generator" => pc[u] = "idle"
    BY DEF Generate, Acting, On
<1> QED BY <1>5, <1>6, <1>7, BaseStep

LEMMA ReadBundleBase ==
  ASSUME Base, TemplateThere, NEW t \in Threads, ReadBundle(t), UNCHANGED refinement
  PROVE  Base'
<1> DEFINE r == [local[t] EXCEPT !.pair = template]
           q == IF local[t].told = absent THEN "ask" ELSE "stage"
<1>1. AuthoredTypes /\ InHands(t) /\ On(t, "read template") /\ role[t] = "generator" /\ local[t] \in Hands
    BY Typed DEF Base, ReadBundle, ReadTemplate
<1>2. r \in Hands /\ r.bundle = local[t].bundle /\ r.moved = local[t].moved /\ r.pair # absent
  <2>1. r \in Hands BY <1>1, HandsTake, Stored
  <2>2. template # absent BY <1>1 DEF TemplateThere, On
  <2> QED BY <1>1, <2>1, <2>2 DEF Hands
<1>3. pc' = [pc EXCEPT ![t] = q] /\ local' = [local EXCEPT ![t] = r] /\ VaultStays
      /\ UNCHANGED <<template, trow, version, promised>>
    BY DEF ReadBundle, ReadTemplate, Proceed, VaultStays, vault, registry
<1>q. q \in {"ask", "stage"} OBVIOUS
<1> HIDE DEF r, q
<1>4. AuthoredTypes' /\ Act(t, q, r) BY <1>1, <1>2, <1>3, RegistryWritten, Stored
<1>5. InHands(t)'
  <2>1. pc'[t] \in {"ask", "stage"} /\ role' = role /\ local'[t] = r BY <1>1, <1>4, <1>q, ActHas
  <2>2. r.bundle # absent /\ r.moved = {} /\ r.pair # absent
      BY <1>1, <1>2 DEF On, Loads, InHands, LoaderHas, GeneratorHas
  <2> QED BY <1>1, <2>1, <2>2 DEF InHands, EditorHas, LoaderHas, GeneratorHas, RefinerHas, Loads, WhileReplacing
<1>6. pc[t] # "idle" BY <1>1 DEF On
<1> QED BY <1>4, <1>5, <1>6, BaseStep

LEMMA AskModelBase ==
  ASSUME Base, NEW t \in Threads, AskModel(t), UNCHANGED refinement
  PROVE  Base'
<1> DEFINE told == [revision |-> local[t].bundle.revision, agents |-> local[t].pair.agents]
           r == [local[t] EXCEPT !.told = told]
<1>1. AuthoredTypes /\ InHands(t) /\ On(t, "ask") /\ local[t] \in Hands
    BY Typed DEF Base, AskModel
<1>a. local[t].bundle # absent /\ local[t].pair # absent /\ role[t] = "generator" /\ local[t].moved = {}
      BY <1>1 DEF On, Loads, InHands, LoaderHas, GeneratorHas
<1>b. told \in Tolds
  <2>1. local[t].bundle \in Bundles /\ local[t].pair \in Pairs BY <1>1, <1>a DEF Hands
  <2> QED BY <2>1 DEF Bundles, Pairs, Tolds
<1>2. pc' = [pc EXCEPT ![t] = "load"] /\ local' = [local EXCEPT ![t] = r] /\ VaultStays
      /\ UNCHANGED <<template, trow, version, promised>>
    BY DEF AskModel, Proceed, VaultStays, vault
<1> HIDE DEF told
<1>c. r \in Hands /\ r.moved = local[t].moved
  <2>1. r \in Hands BY <1>1, <1>b, HandsTake
  <2> QED BY <1>1, <2>1 DEF Hands
<1> HIDE DEF r
<1>3. AuthoredTypes' /\ Act(t, "load", r) BY <1>1, <1>2, <1>c, RegistryWritten, Stored
<1>4. InHands(t)'
  <2>1. pc'[t] = "load" /\ role' = role /\ local'[t] = r BY <1>1, <1>3, ActHas
  <2>2. role[t] = "generator" /\ r.moved = {} BY <1>a, <1>c
  <2> QED BY <2>1, <2>2 DEF InHands, EditorHas, LoaderHas, GeneratorHas, RefinerHas, Loads, WhileReplacing
<1>5. pc[t] # "idle" BY <1>1 DEF On
<1> QED BY <1>3, <1>4, <1>5, BaseStep

(* The texts of a plan, one per output. *)
LEMMA Planned ==
  ASSUME AuthoredTypes, NEW t \in Threads, Stage(t)
  PROVE  /\ Grows /\ Len(made') = Len(made) + Len(Outputs)
         /\ \A i \in DOMAIN Outputs :
              /\ Len(made) + i \in Texts'
              /\ made'[Len(made) + i] = Composed(t)
<1> DEFINE plan == [i \in DOMAIN Outputs |-> Composed(t)]
<1>1. made \in Seq(Makings) /\ Len(made) \in Nat /\ Len(Outputs) \in Nat
      /\ DOMAIN Outputs = 1 .. Len(Outputs)
    BY AuthoringAssumption DEF AuthoredTypes
<1>2. Composed(t) \in Makings
  <2>1. local[t].origin \in Nat \cup {absent} /\ local[t].pair \in Pairs \cup {absent}
        /\ local[t].told \in Tolds \cup {absent}
      BY DEF AuthoredTypes, Hands
  <2> QED BY <2>1 DEF Composed, Makings
<1>3. plan \in Seq(Makings) /\ Len(plan) = Len(Outputs)
  <2>1. \A i \in 1 .. Len(Outputs) : plan[i] \in Makings BY <1>1, <1>2
  <2>2. plan \in [1 .. Len(Outputs) -> Makings] BY <1>1, <2>1
  <2>3. plan \in Seq(Makings) BY <1>1, <2>2
  <2> QED BY <1>1, <2>2, <2>3
<1>4. \A i \in DOMAIN Outputs : plan[i] = Composed(t) OBVIOUS
<1>5. made' = made \o plan BY DEF Stage
<1> HIDE DEF plan
<1>6. /\ made' \in Seq(Makings) /\ Len(made') = Len(made) + Len(plan)
      /\ \A i \in 1 .. Len(made) : made'[i] = made[i]
      /\ \A i \in 1 .. Len(plan) : made'[Len(made) + i] = plan[i]
    BY <1>1, <1>3, <1>5
<1> QED BY <1>1, <1>3, <1>4, <1>6 DEF Grows, Texts

LEMMA StageBase ==
  ASSUME Base, NEW t \in Threads, Stage(t), UNCHANGED refinement
  PROVE  Base'
<1> DEFINE r0 == [local[t] EXCEPT !.item = 1]
           r == [local[t] EXCEPT !.item = 1, !.first = Len(made)]
<1>1. AuthoredTypes /\ InHands(t) /\ On(t, "stage") /\ local[t] \in Hands /\ Len(made) \in Nat
    BY Typed DEF Base, Stage
<1>2. r \in Hands /\ r.item = 1 /\ r.first = Len(made) /\ r.moved = local[t].moved
      /\ r.bundle = local[t].bundle /\ r.pair = local[t].pair /\ r.told = local[t].told
  <2>1. r0 \in Hands BY <1>1, HandsTake
  <2>2. [r0 EXCEPT !.first = Len(made)] \in Hands BY <1>1, <2>1, HandsTake
  <2>3. r = [r0 EXCEPT !.first = Len(made)] BY <1>1 DEF Hands
  <2> QED BY <1>1, <2>2, <2>3 DEF Hands
<1>3. Act(t, "invalidate", r) BY <1>1, Planned, SameRows DEF Stage, Proceed, Act
<1> HIDE DEF r
<1>4. AuthoredTypes'
  BY <1>1, <1>2, <1>3, Unwritten DEF Stage
<1>5. local[t].moved = {} /\ role[t] = "generator" /\ local[t].bundle # absent
    BY <1>1 DEF On, Loads, InHands, LoaderHas, GeneratorHas
<1>6. InHands(t)'
  <2>1. pc'[t] = "invalidate" /\ role' = role /\ local'[t] = r BY <1>1, <1>3, ActHas
  <2>2. 1 \in DOMAIN Outputs
    <3>1. Outputs \in Seq(ToSet(Outputs)) /\ Outputs # <<>> BY AuthoringAssumption
    <3> QED BY <3>1
  <2>3. \A i \in DOMAIN Outputs :
          /\ made'[Len(made) + i].by = "generator" /\ made'[Len(made) + i].template = r.pair
          /\ made'[Len(made) + i].told = r.told
    <3>1. \A i \in DOMAIN Outputs : made'[Len(made) + i] = Composed(t) BY <1>1, Planned
    <3>2. /\ Composed(t).by = "generator" /\ Composed(t).template = local[t].pair
          /\ Composed(t).told = local[t].told
      BY DEF Composed
    <3> QED BY <1>2, <3>1, <3>2
  <2>4. Len(made) + Len(Outputs) <= Len(made')
    <3>1. Len(Outputs) \in Nat BY AuthoringAssumption
    <3> QED BY <1>1, <3>1, Planned
  <2>5. GeneratorHas(t)' BY <1>2, <1>5, <2>1, <2>2, <2>3, <2>4 DEF GeneratorHas, Loads, WhileReplacing
  <2>6. LoaderHas(t)' BY <1>2, <1>5, <2>1 DEF LoaderHas
  <2> QED BY <2>1, <2>5, <2>6 DEF InHands, EditorHas, RefinerHas
<1>7. pc[t] # "idle" BY <1>1 DEF On
<1> QED BY <1>3, <1>4, <1>6, <1>7, BaseStep

(* While it replaces notes, a generator keeps its plan, its template and what *)
(* it moved; only the note in hand changes.                                   *)
LEMMA GoesOn ==
  ASSUME Base, NEW t \in Threads, NEW q \in WhileReplacing, NEW r \in Hands, Act(t, q, r),
         pc[t] \in WhileReplacing, made' = made, AuthoredTypes',
         r.first = local[t].first, r.pair = local[t].pair, r.bundle = local[t].bundle,
         r.told = local[t].told,
         r.item \in DOMAIN Outputs, r.moved \subseteq {Outputs[k] : k \in 1 .. r.item},
         q \in {"invalidate", "unlink", "move"} => Outputs[r.item] \notin r.moved,
         q \in {"register", "revise", "lineage"} => Outputs[r.item] \in r.moved,
         q = "revise" => r.expected \in Rows \cup {absent}
  PROVE  Base'
<1>1. AuthoredTypes /\ InHands(t) BY DEF Base
<1>2. pc'[t] = q /\ local'[t] = r /\ role' = role BY <1>1, ActHas
<1>3. Current(t)' = Outputs[r.item] BY <1>2 DEF Current
<1>4. GeneratorHas(t)'
    BY <1>1, <1>2, <1>3 DEF InHands, GeneratorHas, WhileReplacing, Loads
<1>5. LoaderHas(t)' BY <1>1, <1>2 DEF InHands, LoaderHas, WhileReplacing, Loads
<1>6. InHands(t)' BY <1>2, <1>4, <1>5 DEF InHands, EditorHas, RefinerHas, WhileReplacing
<1>7. pc[t] # "idle" BY DEF WhileReplacing
<1> QED BY <1>6, <1>7, BaseStep

LEMMA HasPlan ==
  ASSUME Base, NEW t \in Threads, pc[t] \in WhileReplacing
  PROVE  /\ AuthoredTypes /\ local[t] \in Hands /\ role[t] = "generator"
         /\ local[t].bundle \in Bundles
         /\ local[t].item \in DOMAIN Outputs /\ local[t].item \in Nat
         /\ Current(t) \in ToSet(Outputs) /\ Current(t) \in Notes
         /\ local[t].first + local[t].item \in Texts /\ local[t].first + local[t].item \in Nat
         /\ made[local[t].first + local[t].item].by = "generator"
         /\ made[local[t].first + local[t].item].template = local[t].pair
         /\ made[local[t].first + local[t].item].told = local[t].told
         /\ local[t].moved \subseteq {Outputs[k] : k \in 1 .. local[t].item}
         /\ pc[t] \in {"invalidate", "unlink", "move"} => Current(t) \notin local[t].moved
         /\ pc[t] \in {"register", "revise", "lineage"} => Current(t) \in local[t].moved
<1>1. AuthoredTypes /\ InHands(t) BY DEF Base
<1>2. local[t] \in Hands /\ local[t].first \in Nat /\ local[t].item \in Nat /\ Len(made) \in Nat
    BY <1>1, Typed
<1>3. role[t] = "generator" /\ local[t].bundle # absent BY <1>1 DEF InHands, LoaderHas
<1>4. local[t].bundle \in Bundles BY <1>2, <1>3 DEF Hands
<1>5. /\ local[t].item \in DOMAIN Outputs /\ local[t].first + Len(Outputs) <= Len(made)
      /\ made[local[t].first + local[t].item].by = "generator"
      /\ made[local[t].first + local[t].item].template = local[t].pair
      /\ made[local[t].first + local[t].item].told = local[t].told
      /\ local[t].moved \subseteq {Outputs[k] : k \in 1 .. local[t].item}
      /\ pc[t] \in {"invalidate", "unlink", "move"} => Current(t) \notin local[t].moved
      /\ pc[t] \in {"register", "revise", "lineage"} => Current(t) \in local[t].moved
    BY <1>1 DEF InHands, GeneratorHas
<1>6. Current(t) \in ToSet(Outputs) BY <1>5 DEF Current, ToSet
<1>7. local[t].first + local[t].item \in Texts
  <2>1. 1 <= local[t].item /\ local[t].item <= Len(Outputs) /\ Len(Outputs) \in Nat
      BY <1>5, AuthoringAssumption
  <2> QED BY <1>2, <1>5, <2>1 DEF Texts
<1>8. local[t].first + local[t].item \in Nat BY <1>2
<1> QED BY <1>1, <1>2, <1>3, <1>4, <1>5, <1>6, <1>7, <1>8, OutputsAreNotes

LEMMA InvalidateGreenBase ==
  ASSUME Base, NEW t \in Threads, InvalidateGreen(t), UNCHANGED refinement
  PROVE  Base'
<1>1. pc[t] = "invalidate" /\ pc[t] \in WhileReplacing BY DEF InvalidateGreen, On, WhileReplacing
<1>2. AuthoredTypes /\ local[t] \in Hands BY <1>1, HasPlan
<1>3. Act(t, "unlink", local[t])
    BY <1>2, SameTexts, SameRows DEF InvalidateGreen, Proceed, Act
<1>4. AuthoredTypes' BY <1>2, <1>3, Unwritten DEF InvalidateGreen
<1> QED BY <1>1, <1>3, <1>4, HasPlan, GoesOn DEF InvalidateGreen, WhileReplacing, Current

LEMMA UnlinkOldBase ==
  ASSUME Base, NEW t \in Threads, UnlinkOld(t), UNCHANGED refinement
  PROVE  Base'
<1>1. pc[t] = "unlink" /\ pc[t] \in WhileReplacing BY DEF UnlinkOld, On, WhileReplacing
<1>2. AuthoredTypes /\ local[t] \in Hands BY <1>1, HasPlan
<1>3. Act(t, "move", local[t])
    BY <1>2, SameTexts, SameRows DEF UnlinkOld, Proceed, Act
<1>4. files' \in [Notes -> Texts' \cup {absent}] BY <1>2, Typed DEF UnlinkOld, Texts
<1>5. AuthoredTypes'
    BY <1>2, <1>3, <1>4, Shaped DEF UnlinkOld, registry, refinement, AuthoredTypes
<1> QED BY <1>1, <1>3, <1>5, HasPlan, GoesOn DEF UnlinkOld, WhileReplacing, Current

LEMMA MoveStagedBase ==
  ASSUME Base, NEW t \in Threads, MoveStaged(t), UNCHANGED refinement
  PROVE  Base'
<1> DEFINE n == Current(t)
           r == [local[t] EXCEPT !.moved = @ \cup {n}]
<1>1. pc[t] = "move" /\ pc[t] \in WhileReplacing BY DEF MoveStaged, On, WhileReplacing
<1>2. AuthoredTypes /\ local[t] \in Hands /\ n \in Notes /\ local[t].moved \subseteq Notes
    BY <1>1, HasPlan DEF Hands
<1>3. r \in Hands BY <1>2, HandsTake
<1>4. /\ r.first = local[t].first /\ r.pair = local[t].pair /\ r.bundle = local[t].bundle /\ r.told = local[t].told
      /\ r.item = local[t].item /\ r.moved = local[t].moved \cup {n}
    BY <1>2, <1>3 DEF Hands
<1>5. Act(t, "register", r) BY <1>2, SameTexts, SameRows DEF MoveStaged, Proceed, Act
<1> HIDE DEF r
<1>6. files' \in [Notes -> Texts' \cup {absent}]
    BY <1>1, <1>2, HasPlan, Typed DEF MoveStaged, Texts
<1>7. AuthoredTypes'
    BY <1>2, <1>3, <1>5, <1>6, Shaped DEF MoveStaged, registry, refinement, AuthoredTypes
<1>8. n \in {Outputs[k] : k \in 1 .. local[t].item} /\ n = Outputs[r.item]
  <2>1. local[t].item \in DOMAIN Outputs BY <1>1, HasPlan
  <2>2. local[t].item \in 1 .. local[t].item BY <2>1, AuthoringAssumption
  <2> QED BY <1>4, <2>2 DEF Current
<1>9. r.moved \subseteq {Outputs[k] : k \in 1 .. r.item} BY <1>1, <1>4, <1>8, HasPlan
<1>10. local[t].item \in DOMAIN Outputs /\ made' = made BY <1>1, HasPlan DEF MoveStaged
<1> QED BY <1>1, <1>3, <1>4, <1>5, <1>7, <1>8, <1>9, <1>10, GoesOn DEF WhileReplacing

LEMMA ReadRowBase ==
  ASSUME Base, NEW t \in Threads, ReadRow(t), UNCHANGED refinement
  PROVE  Base'
<1> DEFINE r == [local[t] EXCEPT !.expected = row[Current(t)]]
<1>1. pc[t] = "register" /\ pc[t] \in WhileReplacing BY DEF ReadRow, On, WhileReplacing
<1>2. AuthoredTypes /\ local[t] \in Hands /\ row[Current(t)] \in Rows \cup {absent}
    BY <1>1, HasPlan, Typed
<1>3. r \in Hands BY <1>2, HandsTake
<1>4. /\ r.first = local[t].first /\ r.pair = local[t].pair /\ r.bundle = local[t].bundle /\ r.told = local[t].told
      /\ r.item = local[t].item /\ r.moved = local[t].moved /\ r.expected \in Rows \cup {absent}
    BY <1>2, <1>3 DEF Hands
<1>5. Act(t, "revise", r) BY <1>2, SameTexts, SameRows DEF ReadRow, Proceed, Act, vault
<1> HIDE DEF r
<1>6. AuthoredTypes' BY <1>2, <1>3, <1>5, Unwritten DEF ReadRow, vault
<1>7. made' = made BY DEF ReadRow, vault
<1> QED BY <1>1, <1>3, <1>4, <1>5, <1>6, <1>7, HasPlan, GoesOn DEF WhileReplacing, Current

LEMMA RegisterCatalogBase ==
  ASSUME Base, NEW t \in Threads, RegisterCatalog(t), UNCHANGED refinement
  PROVE  Base'
<1> DEFINE n == Current(t)
           x == local[t].first + local[t].item
           y == IF row[n] = absent THEN NewRow(x) ELSE Revised(n, x)
<1>1. pc[t] = "revise" /\ pc[t] \in WhileReplacing BY DEF RegisterCatalog, On, WhileReplacing
<1>2. AuthoredTypes /\ local[t] \in Hands /\ n \in Notes /\ x \in Nat BY <1>1, HasPlan
<1>3. y \in Rows /\ y # absent BY <1>2, RowShape, AbsentIsNone
<1>4. row' = [row EXCEPT ![n] = y] BY DEF RegisterCatalog
<1> HIDE DEF y
<1>5. row' \in [Notes -> Rows \cup {absent}] /\ RowsStay
    BY <1>2, <1>3, <1>4, Typed DEF RowsStay
<1>6. Act(t, "lineage", local[t]) BY <1>2, <1>5, SameTexts DEF RegisterCatalog, Proceed, Act
<1>7. AuthoredTypes'
    BY <1>2, <1>5, <1>6, Shaped DEF RegisterCatalog, registry, refinement, AuthoredTypes
<1>8. made' = made BY DEF RegisterCatalog
<1> QED BY <1>1, <1>6, <1>7, <1>8, HasPlan, GoesOn DEF WhileReplacing, Current

(* An error on the way: everything stays as it is until the undo. *)
LEMMA GivesUpBase ==
  ASSUME Base, NEW t \in Threads, pc[t] \in WhileReplacing, Proceed(t, "undo", local[t]),
         UNCHANGED <<vault, registry, lineage, refinement>>
  PROVE  Base'
<1>1. AuthoredTypes /\ local[t] \in Hands BY HasPlan
<1>2. Act(t, "undo", local[t]) BY <1>1, SameTexts, SameRows DEF Proceed, Act, vault
<1>3. AuthoredTypes' BY <1>1, <1>2, Unwritten DEF vault
<1>4. made' = made BY DEF vault
<1> QED BY <1>2, <1>3, <1>4, HasPlan, GoesOn DEF WhileReplacing, Current

LEMMA SaveLineageBase ==
  ASSUME Base, NEW t \in Threads, SaveLineage(t), UNCHANGED refinement
  PROVE  Base'
<1> DEFINE n == Current(t)
           x == local[t].first + local[t].item
           b == [revision |-> local[t].bundle.revision, template |-> local[t].bundle.template,
                 agents |-> local[t].bundle.agents]
           r == [local[t] EXCEPT !.item = local[t].item + 1]
<1>1. pc[t] = "lineage" /\ pc[t] \in WhileReplacing BY DEF SaveLineage, On, WhileReplacing
<1>2. AuthoredTypes /\ local[t] \in Hands /\ n \in Notes /\ x \in Nat /\ local[t].bundle \in Bundles
      /\ local[t].item \in Nat
    BY <1>1, HasPlan
<1>3. b \in Bundles BY <1>2 DEF Bundles
<1>4. lineage' = lineage \cup {[note |-> n, text |-> x, bundle |-> b]} BY DEF SaveLineage
<1> HIDE DEF b
<1>5. lineage' \subseteq Trails BY <1>2, <1>3, <1>4 DEF Trails, AuthoredTypes
<1>6. made' = made /\ UNCHANGED <<role, files, row, crossing, lock, template, trow, version, promised, candidate>>
    BY DEF SaveLineage, vault, registry, refinement
<1>7. Grows /\ RowsStay BY <1>2, <1>6, SameTexts, SameRows
<1>8. CASE local[t].item < Len(Outputs)
  <2>1. r \in Hands
    <3>1. local[t].item + 1 \in Nat BY <1>2
    <3> HIDE DEF n, x
    <3> QED BY <1>2, <3>1, HandsTake
  <2>2. /\ r.first = local[t].first /\ r.pair = local[t].pair /\ r.bundle = local[t].bundle /\ r.told = local[t].told
        /\ r.item = local[t].item + 1 /\ r.moved = local[t].moved
      BY <1>2, <2>1 DEF Hands
  <2>3. Act(t, "invalidate", r) BY <1>6, <1>7, <1>8 DEF SaveLineage, Proceed, Act
  <2> HIDE DEF r
  <2>4. AuthoredTypes' BY <1>2, <1>5, <1>6, <2>1, <2>3, Shaped DEF AuthoredTypes
  <2>5. local[t].item \in DOMAIN Outputs /\ DOMAIN Outputs = 1 .. Len(Outputs) /\ Len(Outputs) \in Nat
      BY <1>1, HasPlan, AuthoringAssumption
  <2>6. r.item \in DOMAIN Outputs BY <1>2, <1>8, <2>2, <2>5
  <2>7. local[t].moved \subseteq {Outputs[k] : k \in 1 .. local[t].item} BY <1>1, HasPlan
  <2>8. r.moved \subseteq {Outputs[k] : k \in 1 .. r.item} BY <1>2, <2>2, <2>7
  <2>9. Outputs[r.item] \notin r.moved
    <3>1. ASSUME NEW k \in 1 .. local[t].item PROVE Outputs[k] # Outputs[r.item]
      <4>1. k \in DOMAIN Outputs /\ k # r.item BY <1>2, <2>2, <2>5
      <4> QED BY <2>6, <4>1, AuthoringAssumption
    <3> QED BY <2>2, <2>7, <3>1
  <2> QED BY <1>1, <1>6, <2>1, <2>2, <2>3, <2>4, <2>6, <2>8, <2>9, GoesOn DEF WhileReplacing
<1>9. CASE ~(local[t].item < Len(Outputs))
  <2>1. Act(t, "idle", Nothing) BY <1>6, <1>7, <1>9 DEF SaveLineage, Finish, Proceed, Act
  <2>2. AuthoredTypes' BY <1>2, <1>5, <1>6, <2>1, NothingIsAHand, Shaped DEF AuthoredTypes
  <2> QED BY <2>1, <2>2, Finishes
<1> QED BY <1>8, <1>9

LEMMA UndoBase ==
  ASSUME Base, NEW t \in Threads, UndoGeneration(t), UNCHANGED refinement
  PROVE  Base'
<1>1. AuthoredTypes BY DEF Base
<1>2. files' \in [Notes -> Texts' \cup {absent}] BY <1>1, Typed DEF UndoGeneration, Texts
<1>3. Act(t, "idle", Nothing)
    BY <1>1, SameTexts, SameRows DEF UndoGeneration, Finish, Proceed, Act
<1>4. AuthoredTypes'
    BY <1>1, <1>2, <1>3, NothingIsAHand, Shaped DEF UndoGeneration, registry, refinement, AuthoredTypes
<1> QED BY <1>3, <1>4, Finishes

LEMMA GenerationFailsBase ==
  ASSUME Base, NEW t \in Threads, GenerationFails(t), UNCHANGED refinement
  PROVE  Base'
<1>1. CASE /\ role[t] = "generator"
           /\ pc[t] \in {"load", "register template", "read template", "ask", "stage"}
           /\ Finish(t) /\ UNCHANGED <<vault, registry, lineage>>
  <2>1. AuthoredTypes BY DEF Base
  <2>2. Act(t, "idle", Nothing)
      BY <1>1, <2>1, SameTexts, SameRows DEF Finish, Proceed, Act, vault
  <2>3. AuthoredTypes' BY <1>1, <2>1, <2>2, NothingIsAHand, Unwritten DEF vault
  <2> QED BY <2>2, <2>3, Finishes
<1>2. CASE /\ pc[t] \in {"invalidate", "unlink", "move", "register", "revise", "lineage"}
           /\ Proceed(t, "undo", local[t]) /\ UNCHANGED <<vault, registry, lineage>>
  <2>1. pc[t] \in WhileReplacing BY <1>2 DEF WhileReplacing
  <2> QED BY <1>2, <2>1, GivesUpBase
<1> QED BY <1>1, <1>2 DEF GenerationFails

LEMMA GenerateNotesBase ==
  ASSUME Base, TemplateThere, GenerateNotes
  PROVE  Base'
<1>1. UNCHANGED refinement BY DEF GenerateNotes
<1>2. PICK t \in Threads :
        \/ Generate(t) \/ ReadBundle(t) \/ AskModel(t) \/ Stage(t) \/ InvalidateGreen(t)
        \/ UnlinkOld(t) \/ MoveStaged(t) \/ ReadRow(t) \/ RegisterCatalog(t)
        \/ RegisterRefused(t) \/ SaveLineage(t) \/ GenerationFails(t) \/ UndoGeneration(t)
    BY DEF GenerateNotes
<1>3. CASE RegisterRefused(t)
  <2>1. pc[t] \in WhileReplacing /\ Proceed(t, "undo", local[t])
        /\ UNCHANGED <<vault, registry, lineage, refinement>>
      BY <1>1, <1>3 DEF RegisterRefused, On, WhileReplacing
  <2> QED BY <2>1, GivesUpBase
<1>4. CASE Generate(t) \/ ReadBundle(t) \/ AskModel(t) \/ Stage(t) \/ InvalidateGreen(t)
    BY <1>1, <1>4, GenerateBase, ReadBundleBase, AskModelBase, StageBase, InvalidateGreenBase
<1>5. CASE UnlinkOld(t) \/ MoveStaged(t) \/ ReadRow(t) \/ RegisterCatalog(t)
    BY <1>1, <1>5, UnlinkOldBase, MoveStagedBase, ReadRowBase, RegisterCatalogBase
<1>6. CASE SaveLineage(t) \/ GenerationFails(t) \/ UndoGeneration(t)
    BY <1>1, <1>6, SaveLineageBase, GenerationFailsBase, UndoBase
<1> QED BY <1>2, <1>3, <1>4, <1>5, <1>6

-----------------------------------------------------------------------------
(* Refiners, evaluators and promoters *)

RegistryStays == UNCHANGED <<registry, lineage>>

LEMMA ComposeBase ==
  ASSUME Base, NEW t \in Threads, ComposeCandidate(t), RegistryStays
  PROVE  Base'
<1> DEFINE e == [revision |-> row[Source].revision, text |-> files[Source]]
<1>1. AuthoredTypes /\ Source \in Notes /\ role[t] = "refiner"
    BY DEF Base, Notes, ComposeCandidate, Start
<1>2. e \in Identities /\ files[Source] \in Nat
    BY <1>1, Typed DEF ComposeCandidate, Identities, Texts
<1>3. PICK x : /\ Grows /\ x \in Texts' /\ x \in Nat
               /\ pc' = [pc EXCEPT ![t] = "persist"]
               /\ local' = [local EXCEPT ![t] = [Composing EXCEPT !.text = x]]
  <2>1. CASE Made("refiner", files[Source], absent)
             /\ Start(t, "refiner", "persist", [Composing EXCEPT !.text = Fresh])
    <3>1. Grows /\ Fresh \in Texts' /\ Fresh \in Nat BY <1>1, <1>2, <2>1, WrittenText
    <3> QED BY <2>1, <3>1 DEF Start
  <2>2. CASE \E x \in DOMAIN made :
               /\ Start(t, "refiner", "persist", [Composing EXCEPT !.text = x])
               /\ UNCHANGED made
    <3>1. PICK x \in DOMAIN made :
            Start(t, "refiner", "persist", [Composing EXCEPT !.text = x]) /\ UNCHANGED made
        BY <2>2
    <3>2. x \in Texts' /\ x \in Nat BY <1>1, <3>1, Typed DEF Texts
    <3> QED BY <1>1, <3>1, <3>2, SameTexts DEF Start
  <2> QED BY <2>1, <2>2 DEF ComposeCandidate
<1> DEFINE r == [Composing EXCEPT !.text = x]
<1>4. r \in Hands /\ r.text = x /\ r.expected = e
  <2>1. Composing = [Nothing EXCEPT !.expected = e] BY DEF Composing
  <2>2. Composing \in Hands BY <1>2, <2>1, HandsTake, NothingIsAHand
  <2>3. Composing.expected = e BY <2>1 DEF Nothing
  <2>4. r \in Hands BY <1>3, <2>2, HandsTake
  <2> HIDE DEF e
  <2> QED BY <2>2, <2>3, <2>4 DEF Hands
<1>5. Act(t, "persist", r) BY <1>3, SameRows DEF ComposeCandidate, Act
<1> HIDE DEF r, e
<1>6. AuthoredTypes'
  <2>1. Texts \subseteq Texts' BY <1>1, <1>3, Typed DEF Grows, Texts
  <2> QED BY <1>1, <1>4, <1>5, <2>1, Shaped DEF ComposeCandidate, RegistryStays, registry, refinement, AuthoredTypes
<1>7. InHands(t)'
  <2>1. pc'[t] = "persist" /\ local'[t] = r BY <1>1, <1>5, ActHas
  <2> QED BY <1>2, <1>3, <1>4, <2>1 DEF InHands, EditorHas, LoaderHas, GeneratorHas, RefinerHas, Loads, WhileReplacing
<1> QED BY <1>1, <1>5, <1>6, <1>7, BaseStep

\* A step of a refiner that only moves on, with what it had in hand.
RefinerPositions == {"persist", "commit", "write", "identify", "copy", "identity", "verify"} \cup Empty

LEMMA RefinerGoesOn ==
  ASSUME Base, NEW t \in Threads, NEW q \in RefinerPositions, NEW r \in Hands,
         Act(t, q, r), made' = made, AuthoredTypes',
         pc[t] # "idle" \/ q = "idle" \/ role[t] # "generator",
         q \in {"persist", "commit", "write", "identify", "copy", "identity"} => r.text \in Texts,
         q \in {"persist", "verify"} => r.expected \in Identities,
         q \in {"copy", "identity"} => r.before \in Texts \cup {absent}
  PROVE  Base'
<1>1. AuthoredTypes BY DEF Base
<1>2. pc'[t] = q /\ local'[t] = r /\ Texts' = Texts BY <1>1, ActHas DEF Texts
<1>3. RefinerHas(t)' BY <1>2 DEF RefinerHas
<1>4. InHands(t)'
    BY <1>2, <1>3 DEF RefinerPositions, Empty, InHands, EditorHas, LoaderHas, GeneratorHas, Loads, WhileReplacing
<1> QED BY <1>4, BaseStep

LEMMA RefinerHolds ==
  ASSUME Base, NEW t \in Threads
  PROVE  /\ AuthoredTypes /\ local[t] \in Hands /\ Texts \subseteq Nat
         /\ Source \in Notes /\ Candidate \in Notes /\ Promoted \in Notes
         /\ pc[t] \in {"persist", "commit", "write", "identify", "copy", "identity"} =>
              local[t].text \in Texts /\ local[t].text \in Nat
         /\ pc[t] \in {"persist", "verify"} => local[t].expected \in Identities
         /\ pc[t] \in {"copy", "identity"} => local[t].before \in Texts \cup {absent}
<1>1. AuthoredTypes /\ InHands(t) /\ Texts \subseteq Nat BY DEF Base, Texts
<1>2. local[t] \in Hands BY <1>1, Typed
<1> QED BY <1>1, <1>2 DEF InHands, RefinerHas, Notes

LEMMA PersistBase ==
  ASSUME Base, NEW t \in Threads, PersistCandidate(t), RegistryStays
  PROVE  Base'
<1> DEFINE q == IF SourceIs(local[t].expected) THEN "commit" ELSE "refuse"
<1>1. pc[t] = "persist" /\ q \in {"commit", "refuse"} /\ made' = made BY DEF PersistCandidate, On
<1>2. AuthoredTypes /\ local[t] \in Hands /\ local[t].text \in Texts BY <1>1, RefinerHolds
<1>3. Act(t, q, local[t]) BY <1>2, SameTexts, SameRows DEF PersistCandidate, Proceed, Act
<1> HIDE DEF q
<1>4. lock' \in [Notes -> Threads \cup {absent}] BY <1>2, Typed DEF PersistCandidate, Takes
<1>5. AuthoredTypes'
    BY <1>2, <1>3, <1>4, Shaped DEF PersistCandidate, RegistryStays, registry, refinement, AuthoredTypes
<1> QED BY <1>1, <1>2, <1>3, <1>5, RefinerGoesOn DEF RefinerPositions, Empty

LEMMA RefuseBase ==
  ASSUME Base, NEW t \in Threads, RefuseCandidate(t), RegistryStays
  PROVE  Base'
<1>1. AuthoredTypes BY DEF Base
<1>2. Act(t, "idle", Nothing) BY <1>1, SameTexts, SameRows DEF RefuseCandidate, Finish, Proceed, Act
<1>3. lock' \in [Notes -> Threads \cup {absent}] BY <1>1, Typed DEF RefuseCandidate, Unlocked
<1>4. AuthoredTypes'
    BY <1>1, <1>2, <1>3, NothingIsAHand, Shaped
    DEF RefuseCandidate, RegistryStays, registry, refinement, AuthoredTypes
<1> QED BY <1>2, <1>4, Finishes

LEMMA CommitBase ==
  ASSUME Base, NEW t \in Threads, CommitCandidate(t), RegistryStays
  PROVE  Base'
<1>1. pc[t] = "commit" /\ made' = made BY DEF CommitCandidate, On, vault
<1>2. AuthoredTypes /\ local[t] \in Hands /\ local[t].text \in Texts /\ local[t].text \in Nat
    BY <1>1, RefinerHolds
<1>3. PICK q \in {"refuse", "write", "identify"} : Proceed(t, q, local[t])
    BY DEF CommitCandidate
<1>4. candidate' \in Identities \cup {absent}
    BY <1>2 DEF CommitCandidate, CandidateRow, Identities, AuthoredTypes
<1>5. Act(t, q, local[t]) BY <1>2, <1>3, SameTexts, SameRows DEF CommitCandidate, vault, Proceed, Act
<1>6. AuthoredTypes'
    BY <1>2, <1>4, <1>5, Shaped DEF CommitCandidate, vault, RegistryStays, registry, AuthoredTypes
<1> QED BY <1>1, <1>2, <1>5, <1>6, RefinerGoesOn DEF RefinerPositions, Empty

LEMMA WriteCandidateBase ==
  ASSUME Base, NEW t \in Threads, WriteCandidate(t), RegistryStays
  PROVE  Base'
<1>1. pc[t] = "write" /\ made' = made BY DEF WriteCandidate, On
<1>2. AuthoredTypes /\ local[t] \in Hands /\ local[t].text \in Texts BY <1>1, RefinerHolds
<1>3. Act(t, "identify", local[t]) BY <1>2, SameTexts, SameRows DEF WriteCandidate, Proceed, Act
<1>4. files' \in [Notes -> Texts' \cup {absent}] BY <1>1, <1>2, Typed DEF WriteCandidate, Texts
<1>5. AuthoredTypes'
    BY <1>2, <1>3, <1>4, Shaped DEF WriteCandidate, RegistryStays, registry, refinement, AuthoredTypes
<1> QED BY <1>1, <1>2, <1>3, <1>5, RefinerGoesOn DEF RefinerPositions, Empty

LEMMA IdentifyBase ==
  ASSUME Base, NEW t \in Threads, IdentifyCandidate(t), RegistryStays
  PROVE  Base'
<1>1. pc[t] = "identify" BY DEF IdentifyCandidate, On
<1>2. AuthoredTypes /\ local[t].text \in Nat /\ Candidate \in Notes BY <1>1, RefinerHolds
<1>3. NewRow(local[t].text) \in Rows /\ NewRow(local[t].text) # absent
    BY <1>2, RowShape, AbsentIsNone
<1>4. row' \in [Notes -> Rows \cup {absent}] /\ RowsStay
    BY <1>2, <1>3, Typed DEF IdentifyCandidate, RowsStay
<1>5. lock' \in [Notes -> Threads \cup {absent}] BY <1>2, Typed DEF IdentifyCandidate, Unlocked
<1>6. Act(t, "idle", Nothing)
    BY <1>2, <1>4, SameTexts DEF IdentifyCandidate, Finish, Proceed, Act
<1>7. AuthoredTypes'
    BY <1>2, <1>4, <1>5, <1>6, NothingIsAHand, Shaped
    DEF IdentifyCandidate, RegistryStays, registry, refinement, AuthoredTypes
<1> QED BY <1>6, <1>7, Finishes

LEMMA ReadSnapshotsBase ==
  ASSUME Base, NEW t \in Threads, ReadSnapshots(t), RegistryStays
  PROVE  Base'
<1> DEFINE e == [revision |-> row[Candidate].revision, text |-> files[Candidate]]
           r == [Nothing EXCEPT !.expected = e]
<1>1. AuthoredTypes /\ Candidate \in Notes BY RefinerHolds DEF Base
<1>2. e \in Identities BY <1>1, Typed DEF ReadSnapshots, Identities, Texts
<1>3. r \in Hands /\ r.expected = e
  <2> HIDE DEF e
  <2>1. r \in Hands BY <1>2, HandsTake, NothingIsAHand
  <2> QED BY <2>1 DEF Nothing
<1>4. Act(t, "verify", r) /\ role[t] = "evaluator" /\ made' = made
    BY <1>1, SameTexts, SameRows DEF ReadSnapshots, Start, Act, vault
<1> HIDE DEF r, e
<1>5. AuthoredTypes' BY <1>1, <1>3, <1>4, Unwritten DEF ReadSnapshots, vault, RegistryStays
<1> QED BY <1>2, <1>3, <1>4, <1>5, RefinerGoesOn DEF RefinerPositions

LEMMA EvaluateBase ==
  ASSUME Base, NEW t \in Threads, NEW d, EvaluatePair(t, d), RegistryStays
  PROVE  Base'
<1>1. pc[t] = "verify" BY DEF EvaluatePair, On
<1>2. AuthoredTypes /\ local[t].expected \in Identities BY <1>1, RefinerHolds
<1>3. candidate' \in Identities \cup {absent} BY <1>2 DEF EvaluatePair, refinement, AuthoredTypes
<1>4. Act(t, "idle", Nothing)
    BY <1>2, SameTexts, SameRows DEF EvaluatePair, Finish, Proceed, Act, vault
<1>5. AuthoredTypes'
    BY <1>2, <1>3, <1>4, NothingIsAHand, Shaped DEF EvaluatePair, vault, RegistryStays, registry, AuthoredTypes
<1> QED BY <1>4, <1>5, Finishes

LEMMA PromoteBase ==
  ASSUME Base, NEW t \in Threads, Promote(t), RegistryStays
  PROVE  Base'
<1> DEFINE r == [Nothing EXCEPT !.revision = candidate.revision]
<1>1. AuthoredTypes /\ Candidate \in Notes BY RefinerHolds DEF Base
<1>2. candidate.revision \in Nat BY <1>1 DEF Promote, AuthoredTypes, Identities
<1>3. r \in Hands BY <1>2, HandsTake, NothingIsAHand
<1>4. Act(t, "promote", r) /\ role[t] = "promoter" /\ made' = made
    BY <1>1, SameTexts, SameRows DEF Promote, Start, Act
<1>5. lock' \in [Notes -> Threads \cup {absent}] BY <1>1, Typed DEF Promote, Takes
<1> HIDE DEF r
<1>6. AuthoredTypes'
    BY <1>1, <1>3, <1>4, <1>5, Shaped DEF Promote, RegistryStays, registry, refinement, AuthoredTypes
<1> QED BY <1>3, <1>4, <1>6, RefinerGoesOn DEF RefinerPositions, Empty

LEMMA CheckPromotionBase ==
  ASSUME Base, NEW t \in Threads, CheckPromotion(t), RegistryStays
  PROVE  Base'
<1>1. pc[t] = "promote" /\ made' = made BY DEF CheckPromotion, On, vault
<1>2. AuthoredTypes /\ local[t] \in Hands /\ Candidate \in Notes /\ Promoted \in Notes /\ Texts \subseteq Nat
    BY RefinerHolds
<1>3. CASE Proceed(t, "released", local[t])
  <2>1. Act(t, "released", local[t])
      BY <1>2, <1>3, SameTexts, SameRows DEF CheckPromotion, Proceed, Act, vault
  <2>2. AuthoredTypes' BY <1>2, <2>1, Unwritten DEF CheckPromotion, vault, RegistryStays
  <2> QED BY <1>1, <1>2, <2>1, <2>2, RefinerGoesOn DEF RefinerPositions, Empty
<1>4. CASE /\ Promotable(local[t].revision) /\ files[Promoted] \in {absent, files[Candidate]}
           /\ Proceed(t, "copy", [Nothing EXCEPT !.text = files[Candidate], !.before = files[Promoted]])
  <2> DEFINE r0 == [Nothing EXCEPT !.text = files[Candidate]]
             r == [Nothing EXCEPT !.text = files[Candidate], !.before = files[Promoted]]
  <2>1. files[Candidate] \in Texts
    <3>1. candidate \in Identities BY <1>2, <1>4 DEF Promotable, AuthoredTypes
    <3>2. files[Candidate] # absent BY <1>4, <3>1, AbsentIsNone DEF Promotable, Identities
    <3> QED BY <1>2, <3>2, Typed
  <2>2. files[Promoted] \in Texts \cup {absent} BY <1>2, Typed
  <2>3. r \in Hands
    <3>1. r0 \in Hands BY <1>2, <2>1, HandsTake, NothingIsAHand
    <3>2. [r0 EXCEPT !.before = files[Promoted]] \in Hands BY <1>2, <2>2, <3>1, HandsTake
    <3>3. r = [r0 EXCEPT !.before = files[Promoted]] BY DEF Nothing
    <3> QED BY <3>2, <3>3
  <2>4. r.text = files[Candidate] /\ r.before = files[Promoted] BY DEF Nothing
  <2>5. Act(t, "copy", r)
      BY <1>2, <1>4, SameTexts, SameRows DEF CheckPromotion, Proceed, Act, vault
  <2> HIDE DEF r
  <2>6. AuthoredTypes' BY <1>2, <2>3, <2>5, Unwritten DEF CheckPromotion, vault, RegistryStays
  <2> QED BY <1>1, <2>1, <2>2, <2>3, <2>4, <2>5, <2>6, RefinerGoesOn DEF RefinerPositions
<1> QED BY <1>3, <1>4 DEF CheckPromotion

LEMMA CopyBase ==
  ASSUME Base, NEW t \in Threads, CopyPromoted(t), RegistryStays
  PROVE  Base'
<1>1. pc[t] = "copy" /\ made' = made BY DEF CopyPromoted, On
<1>2. AuthoredTypes /\ local[t] \in Hands /\ local[t].text \in Texts /\ local[t].before \in Texts \cup {absent}
    BY <1>1, RefinerHolds
<1>3. Act(t, "identity", local[t]) BY <1>2, SameTexts, SameRows DEF CopyPromoted, Proceed, Act
<1>4. files' \in [Notes -> Texts' \cup {absent}] BY <1>1, <1>2, Typed DEF CopyPromoted, Texts
<1>5. AuthoredTypes'
    BY <1>2, <1>3, <1>4, Shaped DEF CopyPromoted, RegistryStays, registry, refinement, AuthoredTypes
<1> QED BY <1>1, <1>2, <1>3, <1>5, RefinerGoesOn DEF RefinerPositions

LEMMA IdentifyPromotedBase ==
  ASSUME Base, NEW t \in Threads, IdentifyPromoted(t), RegistryStays
  PROVE  Base'
<1>1. pc[t] = "identity" /\ made' = made BY DEF IdentifyPromoted, On
<1>2. /\ AuthoredTypes /\ local[t] \in Hands /\ Promoted \in Notes
      /\ local[t].text \in Nat /\ local[t].before \in Texts \cup {absent}
    BY <1>1, RefinerHolds
<1>3. NewRow(local[t].text) \in Rows /\ NewRow(local[t].text) # absent
    BY <1>2, RowShape, AbsentIsNone
<1>4. row' \in [Notes -> Rows \cup {absent}] /\ RowsStay
    BY <1>2, <1>3, Typed DEF IdentifyPromoted, RowsStay
<1>5. files' \in [Notes -> Texts' \cup {absent}] BY <1>1, <1>2, Typed DEF IdentifyPromoted, Texts
<1>6. Act(t, "released", local[t]) BY <1>2, <1>4, SameTexts DEF IdentifyPromoted, Proceed, Act
<1>7. AuthoredTypes'
    BY <1>2, <1>4, <1>5, <1>6, Shaped DEF IdentifyPromoted, RegistryStays, registry, refinement, AuthoredTypes
<1> QED BY <1>1, <1>2, <1>6, <1>7, RefinerGoesOn DEF RefinerPositions, Empty

LEMMA ReleaseBase ==
  ASSUME Base, NEW t \in Threads, ReleaseCandidate(t), RegistryStays
  PROVE  Base'
<1>1. AuthoredTypes BY DEF Base
<1>2. Act(t, "idle", Nothing) BY <1>1, SameTexts, SameRows DEF ReleaseCandidate, Finish, Proceed, Act
<1>3. lock' \in [Notes -> Threads \cup {absent}] BY <1>1, Typed DEF ReleaseCandidate, Unlocked
<1>4. AuthoredTypes'
    BY <1>1, <1>2, <1>3, NothingIsAHand, Shaped
    DEF ReleaseCandidate, RegistryStays, registry, refinement, AuthoredTypes
<1> QED BY <1>2, <1>4, Finishes

LEMMA RefineBase ==
  ASSUME Base, Refine
  PROVE  Base'
<1>1. RegistryStays BY DEF Refine, RegistryStays
<1>2. PICK t \in Threads :
        \/ ComposeCandidate(t) \/ PersistCandidate(t) \/ RefuseCandidate(t)
        \/ CommitCandidate(t) \/ WriteCandidate(t) \/ IdentifyCandidate(t)
        \/ ReadSnapshots(t)
        \/ \E d \in {"accepted", "rejected", "needs_human_review"} : EvaluatePair(t, d)
        \/ Promote(t) \/ CheckPromotion(t) \/ CopyPromoted(t)
        \/ IdentifyPromoted(t) \/ ReleaseCandidate(t)
    BY DEF Refine
<1>3. CASE \/ ComposeCandidate(t) \/ PersistCandidate(t) \/ RefuseCandidate(t)
           \/ CommitCandidate(t) \/ WriteCandidate(t) \/ IdentifyCandidate(t)
    BY <1>1, <1>3, ComposeBase, PersistBase, RefuseBase, CommitBase, WriteCandidateBase, IdentifyBase
<1>4. CASE ReadSnapshots(t) \/ \E d \in {"accepted", "rejected", "needs_human_review"} : EvaluatePair(t, d)
    BY <1>1, <1>4, ReadSnapshotsBase, EvaluateBase
<1>5. CASE Promote(t) \/ CheckPromotion(t) \/ CopyPromoted(t) \/ IdentifyPromoted(t) \/ ReleaseCandidate(t)
    BY <1>1, <1>5, PromoteBase, CheckPromotionBase, CopyBase, IdentifyPromotedBase, ReleaseBase
<1> QED BY <1>2, <1>3, <1>4, <1>5

-----------------------------------------------------------------------------
(* Every step *)

LEMMA TailorBase ==
  ASSUME Base, TemplateThere, Tailor
  PROVE  Base'
<1>1. UNCHANGED <<lineage, refinement>> BY DEF Tailor
<1>2. PICK t \in Threads :
        \/ \E pair \in Given : SaveTemplate(t, pair) \/ SaveFirst(t, pair)
        \/ EnsureFiles(t) \/ UpsertTemplate(t)
        \/ WriteTemplate(t) \/ WriteAgents(t) \/ SaveReturns(t)
    BY DEF Tailor
<1> QED BY <1>1, <1>2, SaveBase, EnsureFilesBase, UpsertBase, WriteTemplateBase, WriteAgentsBase, SaveReturnsBase

LEMMA NextBase ==
  ASSUME Base, TemplateThere, AuthoringNext
  PROVE  Base'
BY AuthorBase, EditBase, ApproveBase, TailorBase, GenerateNotesBase, RefineBase, DieBase DEF AuthoringNext

LEMMA StutterBase ==
  ASSUME Base, UNCHANGED authoringVars
  PROVE  Base'
BY Still, SameRows DEF authoringVars, vault, Base, AuthoredTypes

-----------------------------------------------------------------------------
(* What a step leaves alone: threads, texts, and the state of the others. *)

Stays(u) == pc'[u] = pc[u] /\ local'[u] = local[u]
Moves(t) == t \in Threads /\ \A u \in Threads : u # t => Stays(u)

LEMMA Proceeding ==
  ASSUME AuthoredTypes, NEW t \in Threads, NEW q, NEW r, Proceed(t, q, r)
  PROVE  pc'[t] = q /\ local'[t] = r /\ Moves(t)
BY DEF AuthoredTypes, Proceed, Moves, Stays

LEMMA Finishing ==
  ASSUME AuthoredTypes, NEW t \in Threads, Finish(t)
  PROVE  pc'[t] = "idle" /\ Moves(t)
BY Proceeding DEF Finish

LEMMA Starting ==
  ASSUME AuthoredTypes, NEW t \in Threads, NEW as, NEW q, NEW r, Start(t, as, q, r)
  PROVE  pc[t] = "idle" /\ role[t] = as /\ pc'[t] = q /\ local'[t] = r /\ Moves(t)
BY DEF AuthoredTypes, Start, On, Moves, Stays

TextsStay == Texts \subseteq Texts' /\ \A i \in Texts : made'[i] = made[i]

LEMMA TextsGrow ==
  ASSUME AuthoredTypes, AuthoringNext
  PROVE  TextsStay
<1>1. made \in Seq(Makings) /\ Len(made) \in Nat BY Typed
<1>2. CASE made' = made BY <1>2 DEF TextsStay, Texts
<1>3. ASSUME NEW e, made' = Append(made, e) PROVE TextsStay
  <2>1. made \in Seq(Makings \cup {e}) BY <1>1
  <2>2. Len(made') = Len(made) + 1 /\ \A i \in 1 .. Len(made) : made'[i] = made[i]
      BY <1>3, <2>1
  <2> QED BY <1>1, <2>2 DEF TextsStay, Texts
<1>4. ASSUME NEW t \in Threads, Stage(t) PROVE TextsStay
  <2>1. Len(made') \in Nat /\ Len(made) <= Len(made') BY <1>4, Planned DEF Grows
  <2> QED BY <1>1, <1>4, <2>1, Planned DEF Grows, TextsStay, Texts
<1>5. CASE Author
  BY <1>2, <1>3, <1>5 DEF Author, CreateMergedNote, CreateAssistantNote, CreateManualNote, NewNote,
     RegisterNote, Made
<1>6. CASE Edit
  BY <1>2, <1>3, <1>6 DEF Edit, EditNotes, BeginEdit, SkipEdit, WriteEdit, RecordEdit, EditsDone, Made, vault
<1>7. CASE Approve \/ Die
  BY <1>2, <1>7 DEF Approve, Die, ApproveCrossing, ApproveProcessedNote, ProcessDies
<1>8. CASE Tailor
  BY <1>2, <1>8 DEF Tailor, SaveTemplate, SaveFirst, EnsureFiles, UpsertTemplate, WriteTemplate,
     WriteAgents, SaveReturns, vault
<1>9. CASE GenerateNotes
  BY <1>2, <1>4, <1>9 DEF GenerateNotes, Generate, ReadBundle, ReadTemplate, AskModel, InvalidateGreen,
     UnlinkOld, MoveStaged, ReadRow, RegisterCatalog, RegisterRefused, SaveLineage, GenerationFails,
     UndoGeneration, vault
<1>10. CASE Refine
  BY <1>2, <1>3, <1>10 DEF Refine, ComposeCandidate, PersistCandidate, RefuseCandidate, CommitCandidate,
     WriteCandidate, IdentifyCandidate, ReadSnapshots, EvaluatePair, Promote, CheckPromotion,
     CopyPromoted, IdentifyPromoted, ReleaseCandidate, Made, vault
<1> QED BY <1>5, <1>6, <1>7, <1>8, <1>9, <1>10 DEF AuthoringNext

\* Where a call saves or loads a template, or generates.
TemplatePlaces == {"template", "agents", "first", "ask", "stage"} \cup Loads \cup WhileReplacing
Elsewhere == /\ UNCHANGED <<template, trow, version, promised, raced, lineage, role>>
             /\ \A u \in Threads : Stays(u) \/ (pc[u] \notin TemplatePlaces /\ pc'[u] \notin TemplatePlaces)

\* Where a call holds a lock.
LockPlaces == {"created", "edit", "record", "commit", "refuse", "write", "identify",
               "promote", "copy", "identity", "released"}
LocksIdle == lock' = lock /\ \A u \in Threads : Stays(u) \/ pc'[u] \notin LockPlaces

\* Where a call works on the candidate, or may.
RefinementPlaces == {"edit", "record", "write", "identify", "verify", "copy", "identity"}
RefinementIdle ==
    /\ UNCHANGED <<candidate, verdict, judged, crossing, crossed>>
    /\ files'[Promoted] = files[Promoted] /\ files'[Candidate] = files[Candidate]
    /\ row'[Candidate] = row[Candidate]
    /\ \A u \in Threads : Stays(u) \/ pc'[u] \notin RefinementPlaces

LEMMA AuthorMoves ==
  ASSUME Base, Author
  PROVE  Elsewhere /\ RefinementIdle
<1>1. AuthoredTypes /\ (\A u \in Threads : InHands(u)) /\ Promoted \in Notes /\ Candidate \in Notes
    BY DEF Base, Notes
<1>2. ASSUME NEW t \in Threads, NEW n \in ToSet(Outputs), NEW base, NewNote(t, n, base)
      PROVE  Elsewhere /\ RefinementIdle
  <2>1. pc[t] = "idle" /\ pc'[t] = "created" /\ Moves(t) BY <1>1, <1>2, Starting DEF NewNote
  <2>2. files'[Promoted] = files[Promoted] /\ files'[Candidate] = files[Candidate]
      BY <1>1, <1>2, OutputsAreNotes, Typed DEF NewNote
  <2> QED BY <1>2, <2>1, <2>2 DEF NewNote, registry, refinement, Elsewhere, RefinementIdle, TemplatePlaces,
             RefinementPlaces, Loads, WhileReplacing, Moves
<1>3. ASSUME NEW t \in Threads, RegisterNote(t)
      PROVE  Elsewhere /\ RefinementIdle
  <2>1. pc[t] = "created" /\ pc'[t] = "idle" /\ Moves(t)
      BY <1>1, <1>3, Finishing DEF RegisterNote, On
  <2>2. local[t].note \in ToSet(Outputs) BY <1>1, <2>1 DEF InHands, EditorHas
  <2>3. files'[Promoted] = files[Promoted] /\ files'[Candidate] = files[Candidate]
        /\ row'[Candidate] = row[Candidate]
      BY <1>1, <1>3, <2>2, OutputsAreNotes, Typed DEF RegisterNote
  <2> QED BY <1>3, <2>1, <2>3 DEF RegisterNote, registry, refinement, Elsewhere, RefinementIdle, TemplatePlaces,
             RefinementPlaces, Loads, WhileReplacing, Moves
<1> QED BY <1>2, <1>3 DEF Author, CreateMergedNote, CreateAssistantNote, CreateManualNote

LEMMA EditMoves ==
  ASSUME Base, Edit
  PROVE  Elsewhere
<1>1. AuthoredTypes /\ UNCHANGED <<template, trow, version, promised, raced, lineage>>
    BY DEF Base, Edit, registry
<1>2. PICK t \in Threads :
        \/ \E b \in Batches : EditNotes(t, b)
        \/ BeginEdit(t, {n \in Notes : BeingReplaced(n)}) \/ SkipEdit(t) \/ WriteEdit(t)
        \/ RecordEdit(t) \/ EditsDone(t)
    BY DEF Edit
<1> DEFINE EditPlaces == {"idle", "next", "edit", "record"}
<1>3. Moves(t) /\ pc[t] \in EditPlaces /\ pc'[t] \in EditPlaces /\ role' = role
  <2>1. CASE \E b \in Batches : EditNotes(t, b) BY <1>1, <2>1, Starting DEF EditNotes, vault
  <2>2. CASE BeginEdit(t, {n \in Notes : BeingReplaced(n)})
      BY <1>1, <2>2, Proceeding DEF BeginEdit, On
  <2>3. CASE SkipEdit(t) BY <1>1, <2>3, Proceeding DEF SkipEdit, On, vault
  <2>4. CASE WriteEdit(t) BY <1>1, <2>4, Proceeding DEF WriteEdit, On
  <2>5. CASE RecordEdit(t) BY <1>1, <2>5, Proceeding DEF RecordEdit, On
  <2>6. CASE EditsDone(t) BY <1>1, <2>6, Finishing DEF EditsDone, On, vault
  <2> QED BY <1>2, <2>1, <2>2, <2>3, <2>4, <2>5, <2>6
<1> QED BY <1>1, <1>3 DEF Elsewhere, TemplatePlaces, Loads, WhileReplacing, Moves

LEMMA ApproveMoves ==
  ASSUME Base, Approve
  PROVE  Elsewhere /\ LocksIdle
BY DEF Approve, ApproveCrossing, ApproveProcessedNote, registry, Elsewhere, LocksIdle, Stays

LEMMA RefineMoves ==
  ASSUME Base, Refine
  PROVE  /\ Elsewhere
         /\ \E t \in Threads : Moves(t) /\ pc[t] \in RefinerPositions /\ pc'[t] \in RefinerPositions
<1>1. AuthoredTypes /\ UNCHANGED <<template, trow, version, promised, raced, lineage>>
    BY DEF Base, Refine, registry
<1>2. PICK t \in Threads :
        \/ ComposeCandidate(t) \/ PersistCandidate(t) \/ RefuseCandidate(t)
        \/ CommitCandidate(t) \/ WriteCandidate(t) \/ IdentifyCandidate(t)
        \/ ReadSnapshots(t)
        \/ \E d \in {"accepted", "rejected", "needs_human_review"} : EvaluatePair(t, d)
        \/ Promote(t) \/ CheckPromotion(t) \/ CopyPromoted(t)
        \/ IdentifyPromoted(t) \/ ReleaseCandidate(t)
    BY DEF Refine
<1>3. Moves(t) /\ pc[t] \in RefinerPositions /\ pc'[t] \in RefinerPositions /\ role' = role
  <2> USE DEF RefinerPositions, Empty, On
  <2>1. CASE ComposeCandidate(t)
    <3>1. PICK r : Start(t, "refiner", "persist", r) /\ role' = role BY <2>1 DEF ComposeCandidate
    <3> QED BY <1>1, <3>1, Starting
  <2>2. CASE PersistCandidate(t) BY <1>1, <2>2, Proceeding DEF PersistCandidate
  <2>3. CASE RefuseCandidate(t) BY <1>1, <2>3, Finishing DEF RefuseCandidate
  <2>4. CASE CommitCandidate(t) BY <1>1, <2>4, Proceeding DEF CommitCandidate, vault
  <2>5. CASE WriteCandidate(t) BY <1>1, <2>5, Proceeding DEF WriteCandidate
  <2>6. CASE IdentifyCandidate(t) BY <1>1, <2>6, Finishing DEF IdentifyCandidate
  <2>7. CASE ReadSnapshots(t) BY <1>1, <2>7, Starting DEF ReadSnapshots, vault
  <2>8. CASE \E d \in {"accepted", "rejected", "needs_human_review"} : EvaluatePair(t, d)
      BY <1>1, <2>8, Finishing DEF EvaluatePair, vault
  <2>9. CASE Promote(t) BY <1>1, <2>9, Starting DEF Promote
  <2>10. CASE CheckPromotion(t) BY <1>1, <2>10, Proceeding DEF CheckPromotion, vault
  <2>11. CASE CopyPromoted(t) BY <1>1, <2>11, Proceeding DEF CopyPromoted
  <2>12. CASE IdentifyPromoted(t) BY <1>1, <2>12, Proceeding DEF IdentifyPromoted
  <2>13. CASE ReleaseCandidate(t) BY <1>1, <2>13, Finishing DEF ReleaseCandidate
  <2> QED BY <1>2, <2>1, <2>2, <2>3, <2>4, <2>5, <2>6, <2>7, <2>8, <2>9, <2>10, <2>11, <2>12, <2>13
<1> QED BY <1>1, <1>3 DEF Elsewhere, TemplatePlaces, Loads, WhileReplacing, Moves, RefinerPositions, Empty

LEMMA TailorMoves ==
  ASSUME Base, Tailor
  PROVE  /\ LocksIdle /\ RefinementIdle
         /\ UNCHANGED <<role, files, row, lock, made, lineage, crashed, disturbed>>
         /\ \E t \in Threads : Moves(t) /\ pc[t] \in TemplatePlaces \cup {"idle"} /\ pc'[t] \in TemplatePlaces \cup {"idle"}
                               /\ ~Generating(t) /\ ~Generating(t)'
<1>1. AuthoredTypes /\ UNCHANGED vault /\ UNCHANGED <<lineage, candidate, verdict, judged>>
    BY DEF Base, Tailor, SaveTemplate, SaveFirst, EnsureFiles, UpsertTemplate, WriteTemplate,
       WriteAgents, SaveReturns, refinement
<1>2. PICK t \in Threads :
        \/ \E pair \in Given : SaveTemplate(t, pair) \/ SaveFirst(t, pair)
        \/ EnsureFiles(t) \/ UpsertTemplate(t)
        \/ WriteTemplate(t) \/ WriteAgents(t) \/ SaveReturns(t)
    BY DEF Tailor
<1> DEFINE TailorPlaces == {"idle", "template", "agents", "first", "load", "register template", "read template"}
<1>3. Moves(t) /\ pc[t] \in TailorPlaces /\ pc'[t] \in TailorPlaces
  <2> USE DEF On
  <2>1. CASE \E pair \in Given : SaveTemplate(t, pair) \/ SaveFirst(t, pair)
      BY <1>1, <2>1, Starting DEF SaveTemplate, SaveFirst
  <2>2. CASE EnsureFiles(t) BY <1>1, <2>2, Proceeding DEF EnsureFiles
  <2>3. CASE UpsertTemplate(t) BY <1>1, <2>3, Proceeding DEF UpsertTemplate
  <2>4. CASE WriteTemplate(t) BY <1>1, <2>4, Proceeding DEF WriteTemplate
  <2>5. CASE WriteAgents(t) BY <1>1, <2>5, Proceeding DEF WriteAgents
  <2>6. CASE SaveReturns(t) BY <1>1, <2>6, Finishing DEF SaveReturns
  <2> QED BY <1>2, <2>1, <2>2, <2>3, <2>4, <2>5, <2>6
<1>4. LocksIdle /\ RefinementIdle
    BY <1>1, <1>3 DEF LocksIdle, RefinementIdle, LockPlaces, RefinementPlaces, Moves, vault
<1> QED BY <1>1, <1>3, <1>4 DEF vault, TemplatePlaces, Loads, Generating

GeneratorPlaces == {"idle", "load", "ask", "stage"} \cup WhileReplacing

LEMMA GenerateMoves ==
  ASSUME Base, GenerateNotes
  PROVE  /\ LocksIdle /\ RefinementIdle /\ role' = role /\ crashed' = crashed
         /\ UNCHANGED <<template, trow, version, promised>>
         /\ \E t \in Threads : Moves(t) /\ pc'[t] \in GeneratorPlaces
<1>1. AuthoredTypes /\ Base /\ Promoted \in Notes /\ Candidate \in Notes
      /\ UNCHANGED <<candidate, verdict, judged>>
    BY DEF Base, Notes, GenerateNotes, refinement
<1>2. PICK t \in Threads :
        \/ Generate(t) \/ ReadBundle(t) \/ AskModel(t) \/ Stage(t) \/ InvalidateGreen(t)
        \/ UnlinkOld(t) \/ MoveStaged(t) \/ ReadRow(t) \/ RegisterCatalog(t)
        \/ RegisterRefused(t) \/ SaveLineage(t) \/ GenerationFails(t) \/ UndoGeneration(t)
    BY DEF GenerateNotes
<1>3. UNCHANGED <<role, lock, crossing, crossed, crashed, template, trow, version, promised>>
    BY <1>2 DEF Generate, ReadBundle, ReadTemplate, AskModel, Stage, InvalidateGreen,
       UnlinkOld, MoveStaged, ReadRow, RegisterCatalog, RegisterRefused, SaveLineage, GenerationFails,
       UndoGeneration, vault, registry
<1>4. Moves(t) /\ pc'[t] \in GeneratorPlaces
  <2> USE DEF WhileReplacing, GeneratorPlaces
  <2>1. CASE Generate(t) BY <1>1, <2>1, Starting DEF Generate
  <2>2. CASE ReadBundle(t) BY <1>1, <2>2, Proceeding DEF ReadBundle, ReadTemplate
  <2>3. CASE AskModel(t) BY <1>1, <2>3, Proceeding DEF AskModel
  <2>4. CASE Stage(t) BY <1>1, <2>4, Proceeding DEF Stage
  <2>5. CASE InvalidateGreen(t) BY <1>1, <2>5, Proceeding DEF InvalidateGreen
  <2>6. CASE UnlinkOld(t) BY <1>1, <2>6, Proceeding DEF UnlinkOld
  <2>7. CASE MoveStaged(t) BY <1>1, <2>7, Proceeding DEF MoveStaged
  <2>8. CASE ReadRow(t) BY <1>1, <2>8, Proceeding DEF ReadRow
  <2>9. CASE RegisterCatalog(t) BY <1>1, <2>9, Proceeding DEF RegisterCatalog
  <2>10. CASE RegisterRefused(t) BY <1>1, <2>10, Proceeding DEF RegisterRefused
  <2>11. CASE SaveLineage(t) BY <1>1, <2>11, Proceeding, Finishing DEF SaveLineage
  <2>12. CASE GenerationFails(t) BY <1>1, <2>12, Proceeding, Finishing DEF GenerationFails
  <2>13. CASE UndoGeneration(t) BY <1>1, <2>13, Finishing DEF UndoGeneration
  <2> QED BY <1>2, <2>1, <2>2, <2>3, <2>4, <2>5, <2>6, <2>7, <2>8, <2>9, <2>10, <2>11, <2>12, <2>13
<1>5. LocksIdle BY <1>3, <1>4 DEF LocksIdle, LockPlaces, WhileReplacing, GeneratorPlaces, Moves
<1>6. \A u \in Threads : Stays(u) \/ pc'[u] \notin RefinementPlaces
    BY <1>4 DEF RefinementPlaces, WhileReplacing, GeneratorPlaces, Moves
<1>7. /\ files'[Promoted] = files[Promoted] /\ files'[Candidate] = files[Candidate]
      /\ row'[Candidate] = row[Candidate]
  <2>1. CASE UnlinkOld(t) \/ MoveStaged(t) \/ RegisterCatalog(t)
    <3>1. Current(t) \in ToSet(Outputs) BY <1>1, <2>1, HasPlan DEF UnlinkOld, MoveStaged, RegisterCatalog, On, WhileReplacing
    <3> QED BY <1>1, <2>1, <3>1, OutputsAreNotes, Typed DEF UnlinkOld, MoveStaged, RegisterCatalog
  <2>2. CASE UndoGeneration(t)
    <3>1. local[t].moved \subseteq ToSet(Outputs)
      <4>1. local[t].moved \subseteq {Outputs[k] : k \in 1 .. local[t].item} /\ local[t].item \in DOMAIN Outputs
          BY <1>1, <2>2, HasPlan DEF UndoGeneration, On, WhileReplacing
      <4>2. 1 .. local[t].item \subseteq DOMAIN Outputs BY <4>1, AuthoringAssumption
      <4> QED BY <4>1, <4>2 DEF ToSet
    <3>2. Promoted \notin local[t].moved /\ Candidate \notin local[t].moved BY <3>1, OutputsAreNotes
    <3> QED BY <1>1, <2>2, <3>2 DEF UndoGeneration
  <2>3. CASE ~(UnlinkOld(t) \/ MoveStaged(t) \/ RegisterCatalog(t) \/ UndoGeneration(t))
    <3>1. UNCHANGED <<files, row>>
      BY <1>2, <2>3 DEF Generate, ReadBundle, ReadTemplate, AskModel, Stage, InvalidateGreen,
         ReadRow, RegisterRefused, SaveLineage, GenerationFails, vault
    <3> QED BY <3>1
  <2> QED BY <2>1, <2>2, <2>3
<1> QED BY <1>1, <1>3, <1>4, <1>5, <1>6, <1>7 DEF RefinementIdle

-----------------------------------------------------------------------------
(* Whoever works on a note under its lock has the lock. *)

HoldsLock(t) ==
    /\ pc[t] = "created" => lock[local[t].note] = t
    /\ pc[t] \in {"edit", "record"} => lock[Head(local[t].todo)] = t
    /\ pc[t] \in {"commit", "refuse", "write", "identify"} => lock[Source] = t
    /\ pc[t] \in {"promote", "copy", "identity", "released"} => lock[Candidate] = t
LocksAreHeld == \A t \in Threads : HoldsLock(t)

LEMMA LocksStay ==
  ASSUME Base, LocksAreHeld, NEW t, Moves(t), HoldsLock(t)',
         \A n \in Notes : lock[n] # absent /\ lock[n] # t => lock'[n] = lock[n]
  PROVE  LocksAreHeld'
<1>1. ASSUME NEW u \in Threads, u # t PROVE HoldsLock(u)'
  <2>1. AuthoredTypes /\ EditorHas(u) /\ HoldsLock(u) /\ Stays(u) /\ u # absent
      BY <1>1, AuthoringAssumption DEF Base, InHands, LocksAreHeld, Moves
  <2>2. Source \in Notes /\ Candidate \in Notes BY DEF Notes
  <2>3. pc[u] = "created" => local[u].note \in Notes BY <2>1, OutputsAreNotes DEF EditorHas
  <2>4. pc[u] \in {"edit", "record"} => Head(local[u].todo) \in Notes BY <2>1, HasNote DEF EditorHas
  <2> QED BY <1>1, <2>1, <2>2, <2>3, <2>4 DEF HoldsLock, Stays
<1> QED BY <1>1 DEF LocksAreHeld, Moves

LEMMA LocksFree ==
  ASSUME Base, LocksAreHeld, LocksIdle
  PROVE  LocksAreHeld'
BY DEF LocksAreHeld, HoldsLock, LocksIdle, LockPlaces, Stays

LEMMA AuthorLocks ==
  ASSUME Base, LocksAreHeld, Author
  PROVE  LocksAreHeld'
<1>1. AuthoredTypes /\ (\A u \in Threads : InHands(u)) BY DEF Base
<1>2. ASSUME NEW t \in Threads, NEW n \in ToSet(Outputs), NEW base, NewNote(t, n, base)
      PROVE  LocksAreHeld'
  <2>1. pc'[t] = "created" /\ local'[t] = [Nothing EXCEPT !.note = n, !.text = Fresh] /\ Moves(t)
      BY <1>1, <1>2, Starting DEF NewNote
  <2>2. local'[t].note = n /\ n \in Notes BY <2>1, OutputsAreNotes DEF Nothing
  <2>3. lock[n] = absent /\ lock' = [lock EXCEPT ![n] = t] BY <1>2 DEF NewNote
  <2>4. lock'[n] = t BY <1>1, <2>2, <2>3, Typed
  <2>5. HoldsLock(t)' BY <2>1, <2>2, <2>4 DEF HoldsLock
  <2> QED BY <2>1, <2>3, <2>5, LocksStay, Typed
<1>3. ASSUME NEW t \in Threads, RegisterNote(t)
      PROVE  LocksAreHeld'
  <2>1. pc[t] = "created" /\ pc'[t] = "idle" /\ Moves(t)
      BY <1>1, <1>3, Finishing DEF RegisterNote, On
  <2>2. lock[local[t].note] = t BY <2>1 DEF LocksAreHeld, HoldsLock
  <2>3. lock' = [lock EXCEPT ![local[t].note] = absent] BY <1>3 DEF RegisterNote
  <2>4. HoldsLock(t)' BY <2>1 DEF HoldsLock
  <2> QED BY <2>1, <2>2, <2>3, <2>4, LocksStay, Typed
<1> QED BY <1>2, <1>3 DEF Author, CreateMergedNote, CreateAssistantNote, CreateManualNote

LEMMA EditLocks ==
  ASSUME Base, LocksAreHeld, Edit
  PROVE  LocksAreHeld'
<1>1. AuthoredTypes /\ (\A u \in Threads : InHands(u)) BY DEF Base
<1>2. PICK t \in Threads :
        \/ \E b \in Batches : EditNotes(t, b)
        \/ BeginEdit(t, {n \in Notes : BeingReplaced(n)}) \/ SkipEdit(t) \/ WriteEdit(t)
        \/ RecordEdit(t) \/ EditsDone(t)
    BY DEF Edit
<1>3. CASE \E b \in Batches : EditNotes(t, b)
  <2>1. pc'[t] = "next" /\ Moves(t) /\ lock' = lock BY <1>1, <1>3, Starting DEF EditNotes, vault
  <2> QED BY <2>1, LocksFree DEF LocksIdle, LockPlaces, Moves
<1>4. CASE BeginEdit(t, {n \in Notes : BeingReplaced(n)})
  <2> DEFINE n == Head(local[t].todo)
  <2>1. pc'[t] = "edit" /\ Moves(t)
        /\ local'[t] = [local[t] EXCEPT !.expected = row[n], !.before = files[n]]
      BY <1>1, <1>4, Proceeding DEF BeginEdit
  <2>2. local[t] \in Hands /\ n \in Notes BY <1>1, <1>4, HasNote, Typed DEF BeginEdit
  <2>3. local'[t].todo = local[t].todo BY <2>1, <2>2 DEF Hands
  <2>4. lock[n] = absent /\ lock' = [lock EXCEPT ![n] = t] BY <1>4 DEF BeginEdit
  <2>5. lock'[n] = t BY <1>1, <2>2, <2>4, Typed
  <2>6. HoldsLock(t)' BY <2>1, <2>3, <2>5 DEF HoldsLock
  <2> QED BY <2>1, <2>4, <2>6, LocksStay, Typed, <1>1
<1>5. CASE SkipEdit(t)
  <2>1. pc'[t] = "next" /\ Moves(t) /\ lock' = lock BY <1>1, <1>5, Proceeding DEF SkipEdit, vault
  <2> QED BY <2>1, LocksFree DEF LocksIdle, LockPlaces, Moves
<1>6. CASE WriteEdit(t)
  <2>1. pc[t] = "edit" /\ pc'[t] = "record" /\ Moves(t) /\ lock' = lock
        /\ local'[t] = [local[t] EXCEPT !.text = Fresh]
      BY <1>1, <1>6, Proceeding DEF WriteEdit, On
  <2>2. local'[t].todo = local[t].todo BY <1>1, <2>1, Typed DEF Hands
  <2>3. HoldsLock(t)' BY <2>1, <2>2 DEF LocksAreHeld, HoldsLock
  <2> QED BY <2>1, <2>3, LocksStay
<1>7. CASE RecordEdit(t)
  <2>1. pc[t] = "record" /\ pc'[t] = "next" /\ Moves(t)
        /\ lock' = [lock EXCEPT ![Head(local[t].todo)] = absent]
      BY <1>1, <1>7, Proceeding DEF RecordEdit, On
  <2>2. lock[Head(local[t].todo)] = t BY <2>1 DEF LocksAreHeld, HoldsLock
  <2>3. HoldsLock(t)' BY <2>1 DEF HoldsLock
  <2> QED BY <1>1, <2>1, <2>2, <2>3, LocksStay, Typed
<1>8. CASE EditsDone(t)
  <2>1. pc'[t] = "idle" /\ Moves(t) /\ lock' = lock BY <1>1, <1>8, Finishing DEF EditsDone, vault
  <2> QED BY <2>1, LocksFree DEF LocksIdle, LockPlaces, Moves
<1> QED BY <1>2, <1>3, <1>4, <1>5, <1>6, <1>7, <1>8

LEMMA RefineLocks ==
  ASSUME Base, LocksAreHeld, Refine
  PROVE  LocksAreHeld'
<1>1. AuthoredTypes /\ Source \in Notes /\ Candidate \in Notes BY DEF Base, Notes
<1>2. PICK t \in Threads :
        \/ ComposeCandidate(t) \/ PersistCandidate(t) \/ RefuseCandidate(t)
        \/ CommitCandidate(t) \/ WriteCandidate(t) \/ IdentifyCandidate(t)
        \/ ReadSnapshots(t)
        \/ \E d \in {"accepted", "rejected", "needs_human_review"} : EvaluatePair(t, d)
        \/ Promote(t) \/ CheckPromotion(t) \/ CopyPromoted(t)
        \/ IdentifyPromoted(t) \/ ReleaseCandidate(t)
    BY DEF Refine
<1>3. CASE ComposeCandidate(t)
  <2>1. PICK r : Start(t, "refiner", "persist", r) BY <1>3 DEF ComposeCandidate
  <2>2. pc'[t] = "persist" /\ Moves(t) /\ lock' = lock BY <1>1, <1>3, <2>1, Starting DEF ComposeCandidate
  <2> QED BY <2>2, LocksFree DEF LocksIdle, LockPlaces, Moves
<1>4. CASE PersistCandidate(t)
  <2>1. pc'[t] \in {"commit", "refuse"} /\ Moves(t)
      BY <1>1, <1>4, Proceeding DEF PersistCandidate
  <2>2. lock[Source] = absent /\ lock' = [lock EXCEPT ![Source] = t] BY <1>4 DEF PersistCandidate, Takes
  <2>3. lock'[Source] = t BY <1>1, <2>2, Typed
  <2>4. HoldsLock(t)' BY <2>1, <2>3 DEF HoldsLock
  <2> QED BY <1>1, <2>1, <2>2, <2>4, LocksStay, Typed
<1>5. CASE RefuseCandidate(t) \/ IdentifyCandidate(t)
  <2>1. pc[t] \in {"refuse", "identify"} /\ pc'[t] = "idle" /\ Moves(t)
        /\ lock' = [lock EXCEPT ![Source] = absent]
      BY <1>1, <1>5, Finishing DEF RefuseCandidate, IdentifyCandidate, On, Unlocked
  <2>2. lock[Source] = t BY <2>1 DEF LocksAreHeld, HoldsLock
  <2>3. HoldsLock(t)' BY <2>1 DEF HoldsLock
  <2> QED BY <1>1, <2>1, <2>2, <2>3, LocksStay, Typed
<1>6. CASE CommitCandidate(t) \/ WriteCandidate(t)
  <2>1. /\ pc[t] \in {"commit", "write"} /\ lock' = lock /\ Moves(t)
        /\ pc'[t] \in {"refuse", "write", "identify"}
      BY <1>1, <1>6, Proceeding DEF CommitCandidate, WriteCandidate, On, vault
  <2>2. HoldsLock(t)' BY <2>1 DEF LocksAreHeld, HoldsLock
  <2> QED BY <2>1, <2>2, LocksStay
<1>7. CASE ReadSnapshots(t)
  <2>1. pc'[t] = "verify" /\ Moves(t) /\ lock' = lock BY <1>1, <1>7, Starting DEF ReadSnapshots, vault
  <2> QED BY <2>1, LocksFree DEF LocksIdle, LockPlaces, Moves
<1>8. CASE \E d \in {"accepted", "rejected", "needs_human_review"} : EvaluatePair(t, d)
  <2>1. pc'[t] = "idle" /\ Moves(t) /\ lock' = lock BY <1>1, <1>8, Finishing DEF EvaluatePair, vault
  <2> QED BY <2>1, LocksFree DEF LocksIdle, LockPlaces, Moves
<1>9. CASE Promote(t)
  <2>1. pc'[t] = "promote" /\ Moves(t) BY <1>1, <1>9, Starting DEF Promote
  <2>2. lock[Candidate] = absent /\ lock' = [lock EXCEPT ![Candidate] = t] BY <1>9 DEF Promote, Takes
  <2>3. lock'[Candidate] = t BY <1>1, <2>2, Typed
  <2>4. HoldsLock(t)' BY <2>1, <2>3 DEF HoldsLock
  <2> QED BY <1>1, <2>1, <2>2, <2>4, LocksStay, Typed
<1>10. CASE CheckPromotion(t) \/ CopyPromoted(t) \/ IdentifyPromoted(t)
  <2>1. /\ pc[t] \in {"promote", "copy", "identity"} /\ lock' = lock /\ Moves(t)
        /\ pc'[t] \in {"copy", "identity", "released"}
      BY <1>1, <1>10, Proceeding DEF CheckPromotion, CopyPromoted, IdentifyPromoted, On, vault
  <2>2. HoldsLock(t)' BY <2>1 DEF LocksAreHeld, HoldsLock
  <2> QED BY <2>1, <2>2, LocksStay
<1>11. CASE ReleaseCandidate(t)
  <2>1. pc[t] = "released" /\ pc'[t] = "idle" /\ Moves(t) /\ lock' = [lock EXCEPT ![Candidate] = absent]
      BY <1>1, <1>11, Finishing DEF ReleaseCandidate, On, Unlocked
  <2>2. lock[Candidate] = t BY <2>1 DEF LocksAreHeld, HoldsLock
  <2>3. HoldsLock(t)' BY <2>1 DEF HoldsLock
  <2> QED BY <1>1, <2>1, <2>2, <2>3, LocksStay, Typed
<1> QED BY <1>2, <1>3, <1>4, <1>5, <1>6, <1>7, <1>8, <1>9, <1>10, <1>11

LEMMA NextLocks ==
  ASSUME Base, LocksAreHeld, AuthoringNext
  PROVE  LocksAreHeld'
<1>1. CASE Approve \/ Tailor \/ GenerateNotes
    BY <1>1, ApproveMoves, TailorMoves, GenerateMoves, LocksFree
<1>2. CASE Die BY <1>2 DEF Die, ProcessDies, LocksAreHeld, HoldsLock
<1> QED BY <1>1, <1>2, AuthorLocks, EditLocks, RefineLocks DEF AuthoringNext

-----------------------------------------------------------------------------
(* The second file of a template is written over a template that is there. *)

LEMMA NextTemplateThere ==
  ASSUME Base, TemplateThere, AuthoringNext
  PROVE  TemplateThere'
<1>1. AuthoredTypes /\ Base BY DEF Base
<1>2. CASE Author \/ Edit \/ Approve \/ Refine
  <2>1. Elsewhere BY <1>1, <1>2, AuthorMoves, EditMoves, ApproveMoves, RefineMoves
  <2> QED BY <2>1 DEF Elsewhere, TemplateThere, Stays, TemplatePlaces, Loads
<1>3. CASE Die BY <1>3 DEF Die, ProcessDies, TemplateThere
<1>4. ASSUME NEW t \in Threads, Moves(t), template # absent => template' # absent,
             pc'[t] \in {"agents", "register template", "read template"} => template' # absent
      PROVE  TemplateThere'
    BY <1>4 DEF TemplateThere, Moves, Stays
<1>5. CASE GenerateNotes
  <2>1. PICK t \in Threads : Moves(t) /\ pc'[t] \in GeneratorPlaces BY <1>1, <1>5, GenerateMoves
  <2>2. pc'[t] \notin {"agents", "register template", "read template"} BY <2>1 DEF GeneratorPlaces, WhileReplacing
  <2>3. template' = template BY <1>1, <1>5, GenerateMoves
  <2> QED BY <1>4, <2>1, <2>2, <2>3
<1>6. CASE Tailor
  <2>1. PICK t \in Threads :
          \/ \E pair \in Given : SaveTemplate(t, pair) \/ SaveFirst(t, pair)
          \/ EnsureFiles(t) \/ UpsertTemplate(t)
          \/ WriteTemplate(t) \/ WriteAgents(t) \/ SaveReturns(t)
      BY <1>6 DEF Tailor
  <2>2. CASE \E pair \in Given : SaveTemplate(t, pair) \/ SaveFirst(t, pair)
    <3>1. PICK pair \in Given : SaveTemplate(t, pair) \/ SaveFirst(t, pair) BY <2>2
    <3>2. PICK q \in {"template", "first"} : Start(t, "tailor", q, [Nothing EXCEPT !.pair = pair])
      <4>1. CASE SaveTemplate(t, pair) BY <4>1 DEF SaveTemplate
      <4>2. CASE SaveFirst(t, pair) BY <4>2 DEF SaveFirst
      <4> QED BY <3>1, <4>1, <4>2
    <3>3. pc'[t] = q /\ Moves(t) BY <1>1, <3>2, Starting
    <3>4. template' = template BY <3>1 DEF SaveTemplate, SaveFirst
    <3> QED BY <1>4, <3>2, <3>3, <3>4
  <2>3. CASE EnsureFiles(t)
    <3>1. Moves(t) /\ pc'[t] = "register template" BY <1>1, <2>3, Proceeding DEF EnsureFiles
    <3>2. template' \in WholePairs BY <1>1, <1>6, <2>3, EnsureFilesBase DEF Tailor
    <3> QED BY <1>4, <3>1, <3>2, AbsentIsNone
  <2>4. CASE UpsertTemplate(t)
    <3>1. Moves(t) /\ pc'[t] = "read template" /\ template' = template /\ template # absent
        BY <1>1, <2>4, Proceeding DEF UpsertTemplate, On, TemplateThere
    <3> QED BY <1>4, <3>1
  <2>5. CASE WriteTemplate(t)
    <3>1. Moves(t) BY <1>1, <2>5, Proceeding DEF WriteTemplate
    <3>2. local[t].pair \in WholePairs BY <1>1, <2>5 DEF Base, InHands, LoaderHas, WriteTemplate
    <3>3. template' \in Pairs BY <1>1, <2>5, <3>2, Stored DEF WriteTemplate, Pairs, WholePairs
    <3> QED BY <1>4, <3>1, <3>3, AbsentIsNone
  <2>6. CASE WriteAgents(t)
    <3>1. Moves(t) /\ pc'[t] # "agents" BY <1>1, <2>6, Proceeding DEF WriteAgents
    <3>2. local[t].pair \in WholePairs /\ template # absent
        BY <1>1, <2>6 DEF Base, InHands, LoaderHas, WriteAgents, On, TemplateThere
    <3>3. local[t].pair.agents \in Nat BY <3>2 DEF WholePairs
    <3>4. template' \in Pairs BY <1>1, <2>6, <3>2, <3>3, Stored DEF WriteAgents, Pairs
    <3> QED BY <1>4, <3>1, <3>4, AbsentIsNone
  <2>7. CASE SaveReturns(t) BY <1>1, <1>4, <2>7, Finishing DEF SaveReturns, registry
  <2> QED BY <2>1, <2>2, <2>3, <2>4, <2>5, <2>6, <2>7
<1> QED BY <1>2, <1>3, <1>5, <1>6 DEF AuthoringNext

-----------------------------------------------------------------------------
(* Whatever a step does to other notes, a note it has not in hand stays kept. *)

SameNote(n) ==
    /\ files'[n] = files[n] /\ lock'[n] = lock[n]
    /\ row[n] = absent <=> row'[n] = absent
    /\ row'[n].revision = row[n].revision /\ row'[n].text = row[n].text

LEMMA KeptStays ==
  ASSUME Base, NEW n \in ToSet(Outputs), Kept(n), SameNote(n), lineage \subseteq lineage', TextsStay,
         \A u \in Threads : Stays(u) \/ (~Placing(u, n) /\ ~Placing(u, n)' /\ lock[n] # u)
  PROVE  Kept(n)'
<1>1. n \in Notes /\ (files[n] # absent => files[n] \in Texts) /\ lock[n] \in Threads \cup {absent}
    BY OutputsAreNotes, Typed DEF Base
<1>2. \A u \in Threads : Placing(u, n)' <=> Placing(u, n)
    BY DEF Placing, Generating, Current, On, Stays
<1>3. CASE \E t \in Threads : Placing(t, n)
  <2>1. ASSUME NEW t \in Threads, Placing(t, n)' PROVE Placed(t, n)'
    <3>1. Placing(t, n) /\ Stays(t) BY <1>2, <2>1
    <3>2. Placed(t, n) BY <3>1 DEF Kept
    <3> QED BY <3>1, <3>2 DEF Placed, SameNote, On, Stays
  <2> QED BY <1>2, <1>3, <2>1 DEF Kept
<1>4. CASE ~(\E t \in Threads : Placing(t, n)) /\ lock[n] = absent
  <2>1. Sound(n) BY <1>4 DEF Kept
  <2>2. Sound(n)' BY <1>1, <2>1 DEF Sound, Agrees, SameNote, TextsStay
  <2>3. ~(\E t \in Threads : Placing(t, n))' BY <1>2, <1>4
  <2> QED BY <1>4, <2>2, <2>3 DEF Kept, SameNote
<1>5. CASE ~(\E t \in Threads : Placing(t, n)) /\ lock[n] # absent
  <2>0. PICK t \in Threads : t = lock[n] BY <1>1, <1>5
  <2>1. HeldBy(t, n) /\ Stays(t) BY <1>5, <2>0 DEF Kept
  <2>2. HeldBy(t, n)' BY <2>1 DEF HeldBy, SameNote, Stays, On
  <2>3. ~(\E u \in Threads : Placing(u, n))' BY <1>2, <1>5
  <2>4. lock'[n] = t /\ t # absent BY <2>0, AuthoringAssumption DEF SameNote
  <2> QED BY <2>2, <2>3, <2>4 DEF Kept
<1> QED BY <1>3, <1>4, <1>5

\* The holder of a note's lock is in the middle of an edit, or of its creation.
LEMMA Holder ==
  ASSUME Base, NEW n \in ToSet(Outputs), Kept(n), NEW t \in Threads, lock[n] = t
  PROVE  HeldBy(t, n) /\ (\A u \in Threads : ~Placing(u, n))
BY AuthoringAssumption DEF Kept, Placed

LEMMA NobodyHolds ==
  ASSUME Base, NEW n \in ToSet(Outputs), Kept(n), NEW t \in Threads,
         pc[t] \notin {"created", "edit", "record"}
  PROVE  lock[n] # t
BY Holder DEF HeldBy, On

LEMMA OnlyThisNote ==
  ASSUME Base, NEW n \in ToSet(Outputs), Kept(n), NEW t \in Threads,
         pc[t] = "created" => local[t].note # n,
         pc[t] \in {"edit", "record"} => Head(local[t].todo) # n
  PROVE  lock[n] # t
BY Holder DEF HeldBy, On

NotesIdle ==
    /\ ~crashed' => ~crashed
    /\ disturbed \subseteq disturbed' /\ lineage \subseteq lineage'
    /\ \A n \in ToSet(Outputs) : SameNote(n)
    /\ \A u \in Threads : Stays(u) \/ (/\ ~Generating(u) /\ ~Generating(u)'
                                       /\ pc[u] \notin {"created", "edit", "record"})

LEMMA NotesKeptIdle ==
  ASSUME Base, NotesKept, TextsStay, NotesIdle
  PROVE  NotesKept'
<1>1. ASSUME NEW n \in ToSet(Outputs), n \notin disturbed', ~crashed' PROVE Kept(n)'
  <2>1. Kept(n) BY <1>1 DEF NotesIdle, NotesKept
  <2>2. \A u \in Threads : Stays(u) \/ (~Placing(u, n) /\ ~Placing(u, n)' /\ lock[n] # u)
      BY <2>1, NobodyHolds DEF NotesIdle, Placing
  <2> QED BY <2>1, <2>2, KeptStays DEF NotesIdle
<1> QED BY <1>1 DEF NotesKept

LEMMA TailorNotes ==
  ASSUME Base, Tailor
  PROVE  NotesIdle
<1>1. \A n \in ToSet(Outputs) : SameNote(n) BY TailorMoves DEF SameNote
<1>2. \A u \in Threads : Stays(u) \/ (/\ ~Generating(u) /\ ~Generating(u)'
                                       /\ pc[u] \notin {"created", "edit", "record"})
    BY TailorMoves DEF Moves, TemplatePlaces, Loads, WhileReplacing
<1> QED BY <1>1, <1>2, TailorMoves DEF NotesIdle

LEMMA ApproveNotes ==
  ASSUME Base, Approve
  PROVE  NotesIdle
<1>1. AuthoredTypes BY DEF Base
<1>2. UNCHANGED <<files, lock, crashed, disturbed, lineage, pc, local>>
    BY DEF Approve, ApproveCrossing, ApproveProcessedNote
<1>3. \A n \in ToSet(Outputs) : SameNote(n)
  <2>1. CASE row' = row BY <1>2, <2>1 DEF SameNote
  <2>2. ASSUME NEW m \in ToSet(Outputs), ApproveProcessedNote(m)
        PROVE  \A n \in ToSet(Outputs) : SameNote(n)
    <3>1. m \in Notes /\ row[m] \in Rows /\ row[m] # absent
        BY <1>1, <2>2, OutputsAreNotes, Typed DEF ApproveProcessedNote, Agrees
    <3> DEFINE x == [row[m] EXCEPT !.status = "approved"]
    <3>2. x \in Rows /\ x.revision = row[m].revision /\ x.text = row[m].text BY <3>1 DEF Rows
    <3>3. row' = [row EXCEPT ![m] = x] BY <2>2, Zenon DEF ApproveProcessedNote
    <3> HIDE DEF x
    <3>4. x # absent BY <3>2, AbsentIsNone
    <3> QED BY <1>1, <1>2, <3>1, <3>2, <3>3, <3>4, OutputsAreNotes, Typed DEF SameNote
  <2> QED BY <2>1, <2>2 DEF Approve, ApproveCrossing
<1> QED BY <1>2, <1>3 DEF NotesIdle, Stays

LEMMA RefineNotes ==
  ASSUME Base, Refine
  PROVE  NotesIdle
<1>1. AuthoredTypes /\ lineage' = lineage BY DEF Base, Refine
<1>2. UNCHANGED <<crashed, disturbed>>
    BY DEF Refine, ComposeCandidate, PersistCandidate, RefuseCandidate, CommitCandidate,
     WriteCandidate, IdentifyCandidate, ReadSnapshots, EvaluatePair, Promote, CheckPromotion,
     CopyPromoted, IdentifyPromoted, ReleaseCandidate, vault
<1>3. ASSUME NEW n \in ToSet(Outputs) PROVE SameNote(n)
  <2>1. n \in Notes /\ n # Source /\ n # Candidate /\ n # Promoted BY OutputsAreNotes
  <2>2. lock'[n] = lock[n]
    BY <1>1, <2>1, Typed DEF Refine, ComposeCandidate, PersistCandidate, RefuseCandidate, CommitCandidate,
     WriteCandidate, IdentifyCandidate, ReadSnapshots, EvaluatePair, Promote, CheckPromotion,
     CopyPromoted, IdentifyPromoted, ReleaseCandidate, vault, Takes, Unlocked
  <2>3. files'[n] = files[n]
    BY <1>1, <2>1, Typed DEF Refine, ComposeCandidate, PersistCandidate, RefuseCandidate, CommitCandidate,
     WriteCandidate, IdentifyCandidate, ReadSnapshots, EvaluatePair, Promote, CheckPromotion,
     CopyPromoted, IdentifyPromoted, ReleaseCandidate, vault
  <2>4. row'[n] = row[n]
    BY <1>1, <2>1, Typed DEF Refine, ComposeCandidate, PersistCandidate, RefuseCandidate, CommitCandidate,
     WriteCandidate, IdentifyCandidate, ReadSnapshots, EvaluatePair, Promote, CheckPromotion,
     CopyPromoted, IdentifyPromoted, ReleaseCandidate, vault
  <2> QED BY <2>2, <2>3, <2>4 DEF SameNote
<1>4. \A u \in Threads : Stays(u) \/ (/\ ~Generating(u) /\ ~Generating(u)'
                                       /\ pc[u] \notin {"created", "edit", "record"})
    BY RefineMoves DEF Moves, RefinerPositions, Empty, Generating
<1> QED BY <1>1, <1>2, <1>3, <1>4 DEF NotesIdle

\* Of the threads only t moves, and it has nothing to do with note n before or after.
Apart(t, n) == Moves(t) /\ ~Placing(t, n) /\ ~Placing(t, n)' /\ lock[n] # t

LEMMA KeptApart ==
  ASSUME Base, NEW n \in ToSet(Outputs), Kept(n), SameNote(n), lineage \subseteq lineage', TextsStay,
         NEW t, Apart(t, n)
  PROVE  Kept(n)'
BY KeptStays DEF Apart, Moves

LEMMA AuthorNotes ==
  ASSUME Base, NotesKept, TextsStay, LocksAreHeld, Author
  PROVE  NotesKept'
<1>1. AuthoredTypes /\ (\A u \in Threads : InHands(u)) BY DEF Base
<1>2. ASSUME NEW t \in Threads, NEW m \in ToSet(Outputs), NEW base \in Nat \cup {absent}, NewNote(t, m, base),
             NEW n \in ToSet(Outputs), n \notin disturbed', ~crashed'
      PROVE  Kept(n)'
  <2>1. /\ pc[t] = "idle" /\ pc'[t] = "created" /\ Moves(t) /\ lineage' = lineage
        /\ local'[t] = [Nothing EXCEPT !.note = m, !.text = Fresh]
      BY <1>1, <1>2, Starting DEF NewNote
  <2>2. local'[t].note = m /\ local'[t].text = Fresh BY <2>1 DEF Nothing
  <2>3. Kept(n) BY <1>2 DEF NewNote, NotesKept
  <2>4. m \in Notes /\ n \in Notes BY OutputsAreNotes
  <2>5. CASE n # m
    <3>1. SameNote(n) BY <1>1, <1>2, <2>4, <2>5, Typed DEF NewNote, SameNote
    <3>2. Apart(t, n) BY <2>1, <2>3, NobodyHolds DEF Apart, Placing, Generating
    <3> QED BY <2>1, <2>3, <3>1, <3>2, KeptApart
  <2>6. CASE n = m
    <3>1. lock'[n] = t /\ files'[n] = Fresh /\ row'[n] = row[n] /\ row[n] = absent /\ files[n] = absent
        BY <1>1, <1>2, <2>4, <2>6, Typed DEF NewNote
    <3>2. \A u \in Threads : ~Placing(u, n)
      <4>1. ASSUME NEW u \in Threads, Placing(u, n) PROVE FALSE
        <5>1. Placed(u, n) BY <2>3, <4>1 DEF Kept
        <5>2. local[u].first + local[u].item \in Nat BY <1>1, Typed
        <5> QED BY <3>1, <5>1, <5>2, AbsentIsNone DEF Placed
      <4> QED BY <4>1
    <3>3. \A u \in Threads : ~Placing(u, n)'
        BY <2>1, <3>2 DEF Placing, Generating, Current, On, Moves, Stays
    <3>4. HeldBy(t, n)' BY <2>1, <2>2, <2>6, <3>1 DEF HeldBy, On
    <3>5. t # absent BY AuthoringAssumption
    <3> QED BY <3>1, <3>3, <3>4, <3>5 DEF Kept
  <2> QED BY <2>5, <2>6
<1>3. ASSUME NEW t \in Threads, RegisterNote(t),
             NEW n \in ToSet(Outputs), n \notin disturbed', ~crashed'
      PROVE  Kept(n)'
  <2> DEFINE m == local[t].note
  <2>1. pc[t] = "created" /\ pc'[t] = "idle" /\ Moves(t) /\ lineage' = lineage
      BY <1>1, <1>3, Finishing DEF RegisterNote, On
  <2>2. m \in ToSet(Outputs) /\ local[t].text \in Texts /\ made[local[t].text].by = "person"
      BY <1>1, <2>1 DEF InHands, EditorHas
  <2>3. Kept(n) BY <1>3 DEF RegisterNote, NotesKept
  <2>4. m \in Notes /\ n \in Notes BY <2>2, OutputsAreNotes
  <2>5. CASE n # m
    <3>1. SameNote(n) BY <1>1, <1>3, <2>4, <2>5, Typed DEF RegisterNote, SameNote
    <3>2. Apart(t, n)
        BY <2>1, <2>3, <2>5, OnlyThisNote DEF Apart, Placing, Generating
    <3> QED BY <2>1, <2>3, <3>1, <3>2, KeptApart
  <2>6. CASE n = m
    <3>1. HeldBy(t, n) /\ \A u \in Threads : ~Placing(u, n)
        BY <2>1, <2>3, <2>6, Holder DEF LocksAreHeld, HoldsLock
    <3>2. row[n] = absent /\ files[n] \in {absent, local[t].text} BY <2>1, <3>1 DEF HeldBy, On
    <3>3. \A u \in Threads : ~Placing(u, n)'
        BY <2>1, <3>1 DEF Placing, Generating, Current, On, Moves, Stays
    <3>4. lock'[n] = absent BY <1>1, <1>3, <2>4, <2>6, Typed DEF RegisterNote
    <3>5. Sound(n)'
      <4>1. CASE files'[n] = absent BY <4>1 DEF Sound
      <4>2. CASE files'[n] # absent
        <5>1. files' = files /\ row' = [row EXCEPT ![m] = NewRow(local[t].text)]
            BY <1>1, <1>3, <2>4, <2>6, <4>2, Typed DEF RegisterNote
        <5>2. row'[n] = NewRow(local[t].text) /\ files'[n] = local[t].text
            BY <1>1, <2>4, <2>6, <3>2, <4>2, <5>1, Typed
        <5>3. NewRow(local[t].text) # absent /\ NewRow(local[t].text).text = local[t].text
          <6>1. NewRow(local[t].text) \in Rows BY <1>1, <2>2, <2>4, RowShape DEF Texts
          <6> QED BY <6>1, AbsentIsNone DEF NewRow
        <5>4. made'[files'[n]].by = "person" BY <2>2, <5>2 DEF TextsStay
        <5> QED BY <5>2, <5>3, <5>4 DEF Sound, Agrees
      <4> QED BY <4>1, <4>2
    <3> QED BY <3>3, <3>4, <3>5 DEF Kept
  <2> QED BY <2>5, <2>6
<1>4. \A m \in Notes : files[m] \in Nat \cup {absent} BY <1>1, Typed DEF Texts
<1>5. PICK t \in Threads :
        \/ RegisterNote(t)
        \/ \E m \in ToSet(Outputs), base \in Nat \cup {absent} : NewNote(t, m, base)
    BY <1>4, OutputsAreNotes DEF Author, CreateMergedNote, CreateAssistantNote, CreateManualNote
<1> QED BY <1>2, <1>3, <1>5 DEF NotesKept

LEMMA EditNotesKept ==
  ASSUME Base, NotesKept, TextsStay, LocksAreHeld, Edit
  PROVE  NotesKept'
<1>1. AuthoredTypes /\ (\A u \in Threads : InHands(u)) /\ lineage' = lineage
    BY DEF Base, Edit
<1>2. PICK t \in Threads :
        \/ \E b \in Batches : EditNotes(t, b)
        \/ BeginEdit(t, {n \in Notes : BeingReplaced(n)}) \/ SkipEdit(t) \/ WriteEdit(t)
        \/ RecordEdit(t) \/ EditsDone(t)
    BY DEF Edit
<1>3. CASE (\E b \in Batches : EditNotes(t, b)) \/ SkipEdit(t) \/ EditsDone(t)
  <2>1. UNCHANGED vault BY <1>3 DEF EditNotes, SkipEdit, EditsDone
  <2>2. Moves(t) /\ pc[t] \in {"idle", "next"} /\ pc'[t] \in {"idle", "next"}
    <3>1. CASE \E b \in Batches : EditNotes(t, b) BY <1>1, <3>1, Starting DEF EditNotes
    <3>2. CASE SkipEdit(t) BY <1>1, <3>2, Proceeding DEF SkipEdit, On
    <3>3. CASE EditsDone(t) BY <1>1, <3>3, Finishing DEF EditsDone, On
    <3> QED BY <1>3, <3>1, <3>2, <3>3
  <2>3. NotesIdle BY <1>1, <2>1, <2>2 DEF NotesIdle, SameNote, Moves, Generating, vault
  <2> QED BY <2>3, NotesKeptIdle
<1>4. ASSUME NEW n \in ToSet(Outputs), n \notin disturbed', ~crashed',
             BeginEdit(t, {x \in Notes : BeingReplaced(x)})
      PROVE  Kept(n)'
  <2> DEFINE m == Head(local[t].todo)
             r == [local[t] EXCEPT !.expected = row[m], !.before = files[m]]
  <2>1. /\ pc[t] = "next" /\ pc'[t] = "edit" /\ local'[t] = r /\ Moves(t)
        /\ UNCHANGED <<files, row>>
      BY <1>1, <1>4, Proceeding DEF BeginEdit, On
  <2>2. Kept(n) BY <1>4 DEF BeginEdit, NotesKept
  <2>3. n \in Notes /\ m \in Notes BY <1>1, <1>4, HasNote, OutputsAreNotes DEF BeginEdit
  <2>4. CASE n # m
    <3>1. SameNote(n) BY <1>1, <1>4, <2>1, <2>3, <2>4, Typed DEF BeginEdit, SameNote
    <3>2. Apart(t, n) BY <2>1, <2>2, NobodyHolds DEF Apart, Placing, Generating
    <3> QED BY <1>1, <2>2, <3>1, <3>2, KeptApart
  <2>5. CASE n = m
    <3>1. lock'[n] = t /\ row[n] # absent BY <1>1, <1>4, <2>3, <2>5, Typed DEF BeginEdit, Editable
    <3>2. ~BeingReplaced(n) BY <1>4, <2>3, <2>5 DEF BeginEdit
    <3>3. \A u \in Threads : ~Placing(u, n)'
        BY <2>1, <3>2 DEF BeingReplaced, Placing, Generating, Current, On, Moves, Stays
    <3>4. r.todo = local[t].todo /\ r.expected = row[m] BY <1>1, Typed DEF Hands
    <3>5. HeldBy(t, n)' BY <2>1, <2>5, <3>1, <3>4 DEF HeldBy, On
    <3> QED BY <3>1, <3>3, <3>5, AuthoringAssumption DEF Kept
  <2> QED BY <2>4, <2>5
<1>5. ASSUME NEW n \in ToSet(Outputs), n \notin disturbed', ~crashed', WriteEdit(t)
      PROVE  Kept(n)'
  <2> DEFINE m == Head(local[t].todo)
             r == [local[t] EXCEPT !.text = Fresh]
  <2>1. /\ pc[t] = "edit" /\ pc'[t] = "record" /\ local'[t] = r /\ Moves(t)
        /\ UNCHANGED <<lock, row>> /\ files' = [files EXCEPT ![m] = Fresh]
      BY <1>1, <1>5, Proceeding DEF WriteEdit, On
  <2>2. Kept(n) BY <1>5 DEF WriteEdit, NotesKept
  <2>3. n \in Notes /\ m \in Notes
      BY <1>1, <2>1, HasNote, OutputsAreNotes DEF InHands, EditorHas
  <2>4. CASE n # m
    <3>1. SameNote(n) BY <1>1, <2>1, <2>3, <2>4, Typed DEF SameNote
    <3>2. Apart(t, n) BY <2>1, <2>2, <2>4, OnlyThisNote DEF Apart, Placing, Generating
    <3> QED BY <1>1, <2>2, <3>1, <3>2, KeptApart
  <2>5. CASE n = m
    <3>1. lock[n] = t BY <2>1, <2>5 DEF LocksAreHeld, HoldsLock
    <3>2. HeldBy(t, n) /\ \A u \in Threads : ~Placing(u, n) BY <2>2, <3>1, Holder
    <3>3. \A u \in Threads : ~Placing(u, n)'
        BY <2>1, <3>2 DEF Placing, Generating, Current, On, Moves, Stays
    <3>4. r.todo = local[t].todo /\ r.expected = local[t].expected /\ r.text = Fresh
        BY <1>1, Typed DEF Hands
    <3>5. files'[n] = Fresh /\ row'[n] = row[n] BY <1>1, <2>1, <2>3, <2>5, Typed
    <3>6. HeldBy(t, n)' BY <2>1, <2>5, <3>2, <3>4, <3>5 DEF HeldBy, On
    <3>7. lock'[n] = t /\ t # absent BY <2>1, <3>1, AuthoringAssumption
    <3> QED BY <3>3, <3>6, <3>7 DEF Kept
  <2> QED BY <2>4, <2>5
<1>6. ASSUME NEW n \in ToSet(Outputs), n \notin disturbed', ~crashed', RecordEdit(t)
      PROVE  Kept(n)'
  <2> DEFINE m == Head(local[t].todo)
             x == local[t].text
  <2>1. pc[t] = "record" /\ pc'[t] = "next" /\ Moves(t)
      BY <1>1, <1>6, Proceeding DEF RecordEdit, On
  <2>2. Kept(n) BY <1>6 DEF RecordEdit, NotesKept
  <2>3. n \in Notes /\ m \in Notes
      BY <1>1, <2>1, HasNote, OutputsAreNotes DEF InHands, EditorHas
  <2>4. CASE n # m
    <3>1. SameNote(n) BY <1>1, <1>6, <2>3, <2>4, Typed DEF RecordEdit, SameNote
    <3>2. Apart(t, n) BY <2>1, <2>2, <2>4, OnlyThisNote DEF Apart, Placing, Generating
    <3> QED BY <1>1, <2>2, <3>1, <3>2, KeptApart
  <2>5. CASE n = m
    <3>1. lock[n] = t BY <2>1, <2>5 DEF LocksAreHeld, HoldsLock
    <3>2. HeldBy(t, n) /\ \A u \in Threads : ~Placing(u, n) BY <2>2, <3>1, Holder
    <3>3. \A u \in Threads : ~Placing(u, n)'
        BY <2>1, <3>2 DEF Placing, Generating, Current, On, Moves, Stays
    <3>4. /\ row[n] # absent /\ StillThere(m, local[t].expected) /\ files[n] \in {absent, x}
        BY <2>1, <2>5, <3>2 DEF HeldBy, On, StillThere
    <3>5. row' = [row EXCEPT ![m] = Revised(m, x)] /\ files' = files
        BY <1>6, <3>4 DEF RecordEdit
    <3>6. x \in Texts /\ made[x].by = "person" /\ x \in Nat
        BY <1>1, <2>1 DEF InHands, EditorHas, Texts
    <3>7. Revised(n, x) # absent /\ Revised(n, x).text = x
      <4>1. Revised(n, x) \in Rows BY <1>1, <2>3, <3>4, <3>6, RowShape
      <4> QED BY <4>1, AbsentIsNone DEF Revised
    <3>8. row'[n] = Revised(n, x) BY <1>1, <2>3, <2>5, <3>5, Typed
    <3>9. Sound(n)' BY <3>4, <3>5, <3>6, <3>7, <3>8 DEF Sound, Agrees, TextsStay
    <3>10. lock'[n] = absent BY <1>1, <1>6, <2>3, <2>5, Typed DEF RecordEdit
    <3> QED BY <3>3, <3>9, <3>10 DEF Kept
  <2> QED BY <2>4, <2>5
<1> QED BY <1>2, <1>3, <1>4, <1>5, <1>6 DEF NotesKept

\* The one generator in the middle of its plan.
LEMMA OnlyOnePlaces ==
  ASSUME Base, NEW t \in Threads, role[t] = "generator", pc[t] # "idle"
  PROVE  \A u \in Threads : Generating(u) => u = t
<1>1. ASSUME NEW u \in Threads, Generating(u) PROVE u = t
  <2>1. role[u] = "generator" /\ pc[u] # "idle" BY <1>1, HasPlan DEF Generating, WhileReplacing
  <2> QED BY <2>1 DEF Base, OneGenerator
<1> QED BY <1>1

LEMMA OthersNotPlacing ==
  ASSUME Base, NEW t \in Threads, role[t] = "generator", pc[t] # "idle", Moves(t), NEW n
  PROVE  \A u \in Threads : u # t => ~Placing(u, n) /\ ~Placing(u, n)'
<1>1. \A u \in Threads : u # t => ~Generating(u) /\ ~Generating(u)'
    BY OnlyOnePlaces DEF Generating, Moves, Stays
<1> QED BY <1>1 DEF Placing

\* A note that is placed stays so as long as the generator is at it.
LEMMA PlacedStays ==
  ASSUME Base, NEW t \in Threads, role[t] = "generator", pc[t] # "idle", Moves(t),
         NEW n \in ToSet(Outputs), Kept(n), Placing(t, n), Placing(t, n)',
         files'[n] = files[n], lock'[n] = lock[n],
         local'[t].first = local[t].first, local'[t].item = local[t].item,
         pc'[t] = "lineage" => row'[n] # absent /\ row'[n].text = local[t].first + local[t].item
  PROVE  Kept(n)'
<1>1. Placed(t, n) BY DEF Kept
<1>2. Placed(t, n)' BY <1>1 DEF Placed, On
<1> QED BY <1>2, OthersNotPlacing DEF Kept

LEMMA GeneratorRests ==
  ASSUME Base, NEW t \in Threads, NEW n \in ToSet(Outputs), Kept(n), Moves(t), SameNote(n),
         lineage \subseteq lineage', TextsStay, pc[t] \in GeneratorPlaces \cup Loads,
         ~Placing(t, n), ~Placing(t, n)'
  PROVE  Kept(n)'
<1>1. pc[t] \notin {"created", "edit", "record"} BY DEF GeneratorPlaces, Loads, WhileReplacing
<1>2. Apart(t, n) BY <1>1, NobodyHolds DEF Apart
<1> QED BY <1>2, KeptApart

LEMMA GenerateNotesKept ==
  ASSUME Base, NotesKept, TextsStay, GenerateNotes
  PROVE  NotesKept'
<1>1. AuthoredTypes /\ (\A u \in Threads : InHands(u)) BY DEF Base
<1>2. PICK t \in Threads :
        \/ Generate(t) \/ ReadBundle(t) \/ AskModel(t) \/ Stage(t) \/ InvalidateGreen(t)
        \/ UnlinkOld(t) \/ MoveStaged(t) \/ ReadRow(t) \/ RegisterCatalog(t)
        \/ RegisterRefused(t) \/ SaveLineage(t) \/ GenerationFails(t) \/ UndoGeneration(t)
    BY DEF GenerateNotes
<1>3. lock' = lock /\ role' = role /\ crashed' = crashed BY GenerateMoves DEF LocksIdle
<1>4. disturbed \subseteq disturbed' /\ lineage \subseteq lineage'
    BY <1>2 DEF Generate, ReadBundle, ReadTemplate, AskModel, Stage, InvalidateGreen, Disturb,
       UnlinkOld, MoveStaged, ReadRow, RegisterCatalog, RegisterRefused, SaveLineage, GenerationFails,
       UndoGeneration, vault
<1>5. SUFFICES ASSUME NEW n \in ToSet(Outputs), n \notin disturbed', ~crashed'
               PROVE  Kept(n)'
    BY DEF NotesKept
<1>6. Kept(n) /\ n \in Notes BY <1>3, <1>4, <1>5, OutputsAreNotes DEF NotesKept
<1>7. CASE Generate(t) \/ ReadBundle(t) \/ AskModel(t)
  <2>1. /\ pc[t] \in {"idle", "read template", "ask"} /\ pc'[t] \in {"load", "ask", "stage"}
        /\ Moves(t) /\ UNCHANGED vault
    <3>1. CASE Generate(t)
      <4>1. PICK r : Start(t, "generator", "load", r) /\ UNCHANGED vault BY <3>1 DEF Generate
      <4> QED BY <1>1, <4>1, Starting
    <3>2. CASE ReadBundle(t) BY <1>1, <3>2, Proceeding DEF ReadBundle, ReadTemplate, On
    <3>3. CASE AskModel(t) BY <1>1, <3>3, Proceeding DEF AskModel, On
    <3> QED BY <1>7, <3>1, <3>2, <3>3
  <2>2. SameNote(n) BY <2>1 DEF SameNote, vault
  <2> QED BY <1>4, <1>6, <2>1, <2>2, GeneratorRests DEF GeneratorPlaces, Loads, Placing, Generating
<1>8. CASE Stage(t)
  <2>1. /\ pc[t] = "stage" /\ pc'[t] = "invalidate" /\ Moves(t) /\ UNCHANGED <<files, row>>
      BY <1>1, <1>8, Proceeding DEF Stage, On
  <2>2. SameNote(n) BY <1>3, <2>1 DEF SameNote
  <2>3. ~Placing(t, n)'
    <3>1. Base' BY <1>8, StageBase DEF GenerateNotes
    <3>2. Current(t)' \notin local'[t].moved BY <2>1, <3>1 DEF Base, InHands, GeneratorHas, WhileReplacing
    <3> QED BY <3>2 DEF Placing
  <2> QED BY <1>4, <1>6, <2>1, <2>2, <2>3, GeneratorRests DEF GeneratorPlaces, Loads, Placing, Generating
<1>9. CASE InvalidateGreen(t)
  <2>1. /\ pc[t] = "invalidate" /\ pc'[t] = "unlink" /\ local'[t] = local[t] /\ Moves(t)
        /\ UNCHANGED <<files, row>>
      BY <1>1, <1>9, Proceeding DEF InvalidateGreen, On
  <2>2. SameNote(n) BY <1>3, <2>1 DEF SameNote
  <2>3. Current(t) \notin local[t].moved BY <2>1, HasPlan DEF WhileReplacing
  <2>4. ~Placing(t, n) /\ ~Placing(t, n)' BY <2>1, <2>3 DEF Placing, Current
  <2> QED BY <1>4, <1>6, <2>1, <2>2, <2>4, GeneratorRests DEF GeneratorPlaces, WhileReplacing
<1>10. CASE UnlinkOld(t) \/ MoveStaged(t)
  <2> DEFINE m == Current(t)
  <2>1. /\ pc[t] \in {"unlink", "move"} /\ pc'[t] = (IF pc[t] = "unlink" THEN "move" ELSE "register")
        /\ local'[t] = (IF pc[t] = "unlink" THEN local[t] ELSE [local[t] EXCEPT !.moved = @ \cup {m}])
        /\ Moves(t) /\ row' = row /\ Disturb(m)
        /\ files' = [files EXCEPT ![m] = IF pc[t] = "unlink" THEN absent
                                         ELSE local[t].first + local[t].item]
      BY <1>1, <1>10, Proceeding DEF UnlinkOld, MoveStaged, On
  <2>2. m \in Notes /\ m \notin local[t].moved /\ role[t] = "generator" /\ pc[t] # "idle"
      BY <2>1, HasPlan DEF WhileReplacing
  <2>3. local'[t].first = local[t].first /\ local'[t].item = local[t].item /\ Current(t)' = m
        /\ local'[t].moved \subseteq local[t].moved \cup {m}
      BY <1>1, <2>1, Typed DEF Hands, Current
  <2>4. CASE n # m
    <3>1. SameNote(n) BY <1>1, <1>3, <1>6, <2>1, <2>2, <2>4, Typed DEF SameNote
    <3>2. ~Placing(t, n) /\ ~Placing(t, n)' BY <2>3, <2>4 DEF Placing
    <3> QED BY <1>4, <1>6, <2>1, <3>1, <3>2, GeneratorRests DEF GeneratorPlaces, WhileReplacing
  <2>5. CASE n = m
    <3>1. lock'[n] = absent BY <1>3, <1>5, <2>1, <2>5 DEF Disturb
    <3>2. CASE pc[t] = "unlink"
      <4>1. files'[n] = absent BY <1>1, <2>1, <2>2, <2>5, <3>2, Typed
      <4>2. \A u \in Threads : ~Placing(u, n)'
        <5>1. ~Placing(t, n)' BY <2>1, <2>2, <2>3, <2>5, <3>2 DEF Placing
        <5> QED BY <2>1, <2>2, <5>1, OthersNotPlacing
      <4> QED BY <3>1, <4>1, <4>2 DEF Kept, Sound
    <3>3. CASE pc[t] = "move"
      <4>1. files'[n] = local'[t].first + local'[t].item BY <1>1, <2>1, <2>2, <2>3, <2>5, <3>3, Typed
      <4>2. Placed(t, n)' BY <2>1, <3>1, <3>3, <4>1 DEF Placed, On
      <4>3. Placing(t, n)'
        <5>1. n \in local'[t].moved BY <1>1, <2>1, <2>5, <3>3, Typed DEF Hands
        <5> QED BY <2>1, <2>3, <2>5, <3>3, <5>1 DEF Placing, Generating
      <4> QED BY <2>1, <2>2, <4>2, <4>3, OthersNotPlacing DEF Kept
    <3> QED BY <2>1, <3>2, <3>3
  <2> QED BY <2>4, <2>5
<1>11. CASE ReadRow(t) \/ RegisterRefused(t) \/ (GenerationFails(t) /\ pc'[t] = "undo")
  <2>1. /\ pc[t] \in {"invalidate", "unlink", "move", "register", "revise", "lineage"}
        /\ pc'[t] \in {"revise", "undo"} /\ Moves(t) /\ UNCHANGED vault
        /\ local'[t] \in {local[t], [local[t] EXCEPT !.expected = row[Current(t)]]}
      BY <1>1, <1>11, Proceeding, Finishing DEF ReadRow, RegisterRefused, GenerationFails, On
  <2>2. role[t] = "generator" /\ pc[t] # "idle" BY <2>1, HasPlan DEF WhileReplacing
  <2>3. /\ local'[t].first = local[t].first /\ local'[t].item = local[t].item
        /\ local'[t].moved = local[t].moved
      BY <1>1, <2>1, Typed DEF Hands
  <2>4. Placing(t, n)' <=> Placing(t, n) BY <2>1, <2>3 DEF Placing, Generating, Current
  <2>5. CASE Placing(t, n) BY <1>3, <1>6, <2>1, <2>2, <2>3, <2>4, <2>5, PlacedStays DEF vault
  <2>6. CASE ~Placing(t, n)
    <3>1. SameNote(n) BY <1>3, <2>1 DEF SameNote, vault
    <3> QED BY <1>4, <1>6, <2>1, <2>4, <2>6, <3>1, GeneratorRests DEF GeneratorPlaces, WhileReplacing
  <2> QED BY <2>5, <2>6
<1>12. CASE GenerationFails(t) /\ pc'[t] # "undo"
  <2>1. /\ pc[t] \in {"load", "register template", "read template", "ask", "stage"}
        /\ pc'[t] = "idle" /\ Moves(t) /\ UNCHANGED vault
      BY <1>1, <1>12, Proceeding, Finishing DEF GenerationFails
  <2>2. SameNote(n) BY <2>1 DEF SameNote, vault
  <2> QED BY <1>4, <1>6, <2>1, <2>2, GeneratorRests DEF GeneratorPlaces, Loads, Placing, Generating
<1>13. CASE RegisterCatalog(t)
  <2> DEFINE m == Current(t)
             x == local[t].first + local[t].item
             y == IF row[m] = absent THEN NewRow(x) ELSE Revised(m, x)
  <2>1. /\ pc[t] = "revise" /\ pc'[t] = "lineage" /\ local'[t] = local[t] /\ Moves(t) /\ files' = files
        /\ row' = [row EXCEPT ![m] = y]
      BY <1>1, <1>13, Proceeding DEF RegisterCatalog, On
  <2>2. /\ m \in Notes /\ m \in local[t].moved /\ x \in Nat /\ role[t] = "generator" /\ pc[t] # "idle"
      BY <2>1, HasPlan DEF WhileReplacing
  <2>3. y # absent /\ y.text = x
    <3>1. NewRow(x) \in Rows /\ (row[m] # absent => Revised(m, x) \in Rows) BY <1>1, <2>2, RowShape
    <3> QED BY <3>1, AbsentIsNone DEF NewRow, Revised
  <2> HIDE DEF y
  <2>4. CASE n # m
    <3>1. SameNote(n) BY <1>1, <1>3, <1>6, <2>1, <2>2, <2>4, Typed DEF SameNote
    <3>2. ~Placing(t, n) /\ ~Placing(t, n)' BY <2>1, <2>4 DEF Placing, Current
    <3> QED BY <1>4, <1>6, <2>1, <3>1, <3>2, GeneratorRests DEF GeneratorPlaces, WhileReplacing
  <2>5. CASE n = m
    <3>1. Placing(t, n) /\ Placing(t, n)' BY <2>1, <2>2, <2>5 DEF Placing, Generating, Current
    <3>2. row'[n] = y BY <1>1, <2>1, <2>2, <2>5, Typed
    <3> QED BY <1>3, <1>6, <2>1, <2>2, <2>3, <3>1, <3>2, PlacedStays
  <2> QED BY <2>4, <2>5
<1>14. CASE SaveLineage(t)
  <2> DEFINE m == Current(t)
             x == local[t].first + local[t].item
  <2>1. /\ pc[t] = "lineage" /\ pc'[t] \in {"invalidate", "idle"} /\ Moves(t) /\ UNCHANGED vault
      BY <1>1, <1>14, Proceeding, Finishing DEF SaveLineage, On
  <2>2. m \in Notes /\ m \in local[t].moved /\ x \in Nat /\ role[t] = "generator" /\ pc[t] # "idle"
      BY <2>1, HasPlan DEF WhileReplacing
  <2>3. ~Placing(t, n)'
    <3>1. Base' BY <1>14, SaveLineageBase DEF GenerateNotes
    <3>2. pc'[t] = "invalidate" => Current(t)' \notin local'[t].moved
        BY <3>1 DEF Base, InHands, GeneratorHas, WhileReplacing
    <3> QED BY <2>1, <3>2 DEF Placing, Generating
  <2>4. SameNote(n) BY <2>1 DEF SameNote, vault
  <2>5. CASE n # m
    <3>1. ~Placing(t, n) BY <2>5 DEF Placing
    <3> QED BY <1>4, <1>6, <2>1, <2>3, <2>4, <3>1, GeneratorRests DEF GeneratorPlaces, WhileReplacing
  <2>6. CASE n = m
    <3>1. Placing(t, n) BY <2>1, <2>2, <2>6 DEF Placing, Generating
    <3>2. lock[n] = absent /\ files[n] = x /\ row[n] # absent /\ row[n].text = files[n]
        BY <1>6, <2>1, <3>1 DEF Kept, Placed, On
    <3>3. \E l \in lineage' : l.note = n /\ l.text = x
      <4> DEFINE b == [revision |-> local[t].bundle.revision, template |-> local[t].bundle.template,
                       agents |-> local[t].bundle.agents]
      <4>1. lineage' = lineage \cup {[note |-> m, text |-> x, bundle |-> b]} BY <1>14 DEF SaveLineage
      <4> DEFINE l == [note |-> m, text |-> x, bundle |-> b]
      <4>2. l.note = m /\ l.text = x OBVIOUS
      <4>3. l \in lineage' BY <4>1
      <4> HIDE DEF b, l
      <4> QED BY <2>6, <4>2, <4>3
    <3>4. Sound(n)' BY <2>1, <3>2, <3>3 DEF Sound, Agrees, vault
    <3>5. \A u \in Threads : ~Placing(u, n)' BY <2>1, <2>2, <2>3, OthersNotPlacing
    <3> QED BY <1>3, <3>2, <3>4, <3>5 DEF Kept
  <2> QED BY <2>5, <2>6
<1>15. CASE UndoGeneration(t)
  <2>1. /\ pc[t] = "undo" /\ pc'[t] = "idle" /\ Moves(t) /\ row' = row
        /\ files' = [x \in Notes |-> IF x \in local[t].moved THEN absent ELSE files[x]]
      BY <1>1, <1>15, Finishing DEF UndoGeneration, On
  <2>2. role[t] = "generator" /\ pc[t] # "idle" BY <2>1, HasPlan DEF WhileReplacing
  <2>3. ~Placing(t, n)' BY <2>1 DEF Placing, Generating
  <2>4. \A u \in Threads : ~Placing(u, n)' BY <2>1, <2>2, <2>3, OthersNotPlacing
  <2>5. CASE n \in local[t].moved
    <3>1. files'[n] = absent BY <1>6, <2>1, <2>5
    <3>2. CASE lock[n] = absent BY <1>3, <2>4, <3>1, <3>2 DEF Kept, Sound
    <3>3. CASE lock[n] # absent
      <4>1. PICK u \in Threads : u = lock[n] BY <1>1, <1>6, <3>3, Typed
      <4>2. HeldBy(u, n) BY <1>6, <4>1, Holder
      <4>3. u # t BY <1>6, <2>1, <4>1, NobodyHolds
      <4>4. HeldBy(u, n)' BY <2>1, <3>1, <4>2, <4>3 DEF HeldBy, On, Moves, Stays
      <4>5. lock'[n] = u /\ u # absent BY <1>3, <4>1, AuthoringAssumption
      <4> QED BY <2>4, <4>4, <4>5 DEF Kept
    <3> QED BY <3>2, <3>3
  <2>6. CASE n \notin local[t].moved
    <3>1. ~Placing(t, n) BY <2>6 DEF Placing
    <3>2. SameNote(n) BY <1>3, <1>6, <2>1, <2>6 DEF SameNote
    <3> QED BY <1>4, <1>6, <2>1, <2>3, <3>1, <3>2, GeneratorRests DEF GeneratorPlaces, WhileReplacing
  <2> QED BY <2>5, <2>6
<1> QED BY <1>2, <1>7, <1>8, <1>9, <1>10, <1>11, <1>12, <1>13, <1>14, <1>15

LEMMA NextNotesKept ==
  ASSUME Base, NotesKept, LocksAreHeld, AuthoringNext
  PROVE  NotesKept'
<1>1. TextsStay BY TextsGrow DEF Base
<1>2. CASE Tailor \/ Approve \/ Refine
    BY <1>1, <1>2, TailorNotes, ApproveNotes, RefineNotes, NotesKeptIdle
<1>3. CASE Die BY <1>3 DEF Die, ProcessDies, NotesKept
<1> QED BY <1>1, <1>2, <1>3, AuthorNotes, EditNotesKept, GenerateNotesKept DEF AuthoringNext

LEMMA KeptIsAccounted ==
  ASSUME AuthoredTypes, NotesKept
  PROVE  Accounted
<1>1. SUFFICES ASSUME NEW n \in ToSet(Outputs), ~crashed, n \notin disturbed, ~InHand(n), files[n] # absent
               PROVE  Sound(n)
    BY DEF Accounted, Sound
<1>2. Kept(n) BY <1>1 DEF NotesKept
<1>3. lock[n] = absent BY <1>1, OutputsAreNotes, Typed DEF InHand
<1>4. \A t \in Threads : ~Placing(t, n) BY <1>1 DEF InHand, Placing
<1> QED BY <1>2, <1>3, <1>4 DEF Kept

-----------------------------------------------------------------------------
(* Templates: what a load read is what is there, and what a generation used. *)

TemplatesKept == LoadsAreTrue /\ SavesAreTrue

\* Two people do not save templates at once: with two, the first save's files
\* may be the second's.
OneTailor == \A cast \in Casts : \A t, u \in Threads :
                 cast[t] = "tailor" /\ cast[u] = "tailor" => t = u

LEMMA CrashStays ==
  ASSUME AuthoringNext, crashed
  PROVE  crashed'
<1>1. CASE Author
  BY <1>1 DEF Author, CreateMergedNote, CreateAssistantNote, CreateManualNote, NewNote, RegisterNote
<1>2. CASE Edit
  BY <1>2 DEF Edit, EditNotes, BeginEdit, SkipEdit, WriteEdit, RecordEdit, EditsDone, vault
<1>3. CASE Approve \/ Die
  BY <1>3 DEF Approve, Die, ApproveCrossing, ApproveProcessedNote, ProcessDies
<1>4. CASE Tailor
  BY <1>4 DEF Tailor, SaveTemplate, SaveFirst, EnsureFiles, UpsertTemplate, WriteTemplate,
     WriteAgents, SaveReturns, vault
<1>5. CASE GenerateNotes
  BY <1>5 DEF GenerateNotes, Generate, ReadBundle, ReadTemplate, AskModel, Stage, InvalidateGreen,
     UnlinkOld, MoveStaged, ReadRow, RegisterCatalog, RegisterRefused, SaveLineage, GenerationFails,
     UndoGeneration, vault
<1>6. CASE Refine
  BY <1>6 DEF Refine, ComposeCandidate, PersistCandidate, RefuseCandidate, CommitCandidate,
     WriteCandidate, IdentifyCandidate, ReadSnapshots, EvaluatePair, Promote, CheckPromotion,
     CopyPromoted, IdentifyPromoted, ReleaseCandidate, vault
<1> QED BY <1>1, <1>2, <1>3, <1>4, <1>5, <1>6 DEF AuthoringNext

LEMMA LineageStays ==
  ASSUME LineageIsTrue, TextsStay,
         \A l \in lineage' : l \in lineage \/ (l.text \in Texts' /\ Names(l.bundle, made'[l.text]))
  PROVE  LineageIsTrue'
BY DEF LineageIsTrue, TextsStay, Names, SamePair, Follows

(* What a model was told stays true while the revision does not go back, and *)
(* while it stays the files keep their AGENTS.md.                            *)
LEMMA TellsStay ==
  ASSUME Base, TellsAreTrue, NEW t \in Threads, Moves(t), trow # absent => trow' # absent,
         AuthoredTypes', trow # absent => trow.revision <= trow'.revision,
         trow # absent /\ trow'.revision = trow.revision /\ Saving = {} /\ template \in WholePairs =>
             Saving' = {} /\ template' \in WholePairs /\ template'.agents = template.agents,
         On(t, "ask")' => Told(local[t].bundle.revision, local[t].pair.agents)',
         pc'[t] \in Loads \cup Planning /\ local'[t].told # absent =>
             \/ pc[t] \in Loads \cup Planning /\ local'[t].told = local[t].told
             \/ On(t, "ask") /\ local'[t].told = [revision |-> local[t].bundle.revision,
                                                  agents |-> local[t].pair.agents]
  PROVE  TellsAreTrue'
<1> DEFINE New(revision, agents) ==
             /\ trow' # absent /\ revision <= trow'.revision
             /\ revision = trow'.revision =>
                   Saving' = {} /\ template' \in WholePairs /\ template'.agents = agents
<1>1. AuthoredTypes /\ (\A u \in Threads : InHands(u)) /\ (\A u \in Threads : local[u] \in Hands)
  BY Typed DEF Base
<1>2. /\ trow # absent => trow.revision \in Nat
      /\ trow' # absent => trow'.revision \in Nat
  BY <1>1 DEF AuthoredTypes, Bundles
<1>3. ASSUME NEW revision \in Nat, NEW agents, Told(revision, agents)
      PROVE  New(revision, agents)
  <2>1. trow # absent /\ trow' # absent /\ revision <= trow.revision /\ trow.revision <= trow'.revision
    BY <1>3 DEF Told
  <2>2. revision <= trow'.revision BY <1>2, <2>1
  <2>3. ASSUME revision = trow'.revision
        PROVE  Saving' = {} /\ template' \in WholePairs /\ template'.agents = agents
    <3>1. revision = trow.revision BY <1>2, <2>1, <2>3
    <3>2. Saving = {} /\ template \in WholePairs /\ template.agents = agents BY <1>3, <3>1 DEF Told
    <3> QED BY <2>1, <2>3, <3>1, <3>2
  <2> QED BY <2>1, <2>2, <2>3
<1>4. ASSUME NEW u \in Threads, On(u, "ask")
      PROVE  /\ local[u].bundle.revision \in Nat
             /\ Told(local[u].bundle.revision, local[u].pair.agents)
  <2>1. local[u].bundle \in Bundles
    BY <1>1, <1>4 DEF On, InHands, LoaderHas, Hands
  <2> QED BY <1>4, <2>1 DEF Bundles, TellsAreTrue, ToldOK
<1>5. ASSUME NEW u \in Threads, pc[u] \in Loads \cup Planning, local[u].told # absent
      PROVE  local[u].told.revision \in Nat /\ Told(local[u].told.revision, local[u].told.agents)
  <2>1. local[u].told \in Tolds BY <1>1, <1>5 DEF Hands
  <2> QED BY <1>5, <2>1 DEF Tolds, TellsAreTrue, ToldOK
<1>6. ASSUME NEW u \in Threads, u # t PROVE ToldOK(u)'
  <2>1. pc'[u] = pc[u] /\ local'[u] = local[u] BY <1>6 DEF Moves, Stays
  <2>2. On(u, "ask") => New(local[u].bundle.revision, local[u].pair.agents) BY <1>3, <1>4
  <2>3. pc[u] \in Loads \cup Planning /\ local[u].told # absent
        => New(local[u].told.revision, local[u].told.agents)
    BY <1>3, <1>5
  <2> QED BY <2>1, <2>2, <2>3 DEF ToldOK, On, Told
<1>7. ToldOK(t)'
  <2>1. On(t, "ask") => New(local[t].bundle.revision, local[t].pair.agents) BY <1>3, <1>4
  <2>2. pc[t] \in Loads \cup Planning /\ local[t].told # absent
        => New(local[t].told.revision, local[t].told.agents)
    BY <1>3, <1>5
  <2>3. ASSUME pc'[t] \in Loads \cup Planning, local'[t].told # absent
        PROVE  New(local'[t].told.revision, local'[t].told.agents)
    BY <2>1, <2>2, <2>3
  <2> QED BY <2>3 DEF ToldOK, On, Told
<1> QED BY <1>6, <1>7 DEF TellsAreTrue

LEMMA TemplatesElsewhere ==
  ASSUME Base, TemplatesKept, TextsStay, Elsewhere, crashed => crashed'
  PROVE  TemplatesKept'
<1>1. \A u \in Threads : Reading(u)' => Reading(u) /\ Stays(u) BY DEF Elsewhere, TemplatePlaces, Reading, Loads, Stays
<1>2. Saving' = Saving BY DEF Elsewhere, TemplatePlaces, Saving, Stays
<1>3. \A u \in Threads : On(u, "load")' => On(u, "load") BY DEF Elsewhere, TemplatePlaces, On, Loads, Stays
<1>4. \A u \in Threads : pc'[u] \in Planning => pc[u] \in Planning /\ Stays(u)
    BY DEF Elsewhere, TemplatePlaces, Planning, Stays
<1>5. \A u \in Threads : On(u, "agents")' => On(u, "agents") /\ Stays(u)
    BY DEF Elsewhere, TemplatePlaces, On, Stays
<1>6. ASSUME ~raced' PROVE ReadsAreTrue' /\ LoadsAlone' /\ PlansAreTrue' /\ LineageIsTrue' /\ TellsAreTrue'
  <2>1. ~raced /\ ReadsAreTrue /\ LoadsAlone /\ PlansAreTrue /\ LineageIsTrue /\ TellsAreTrue
      BY <1>6 DEF TemplatesKept, LoadsAreTrue, Elsewhere
  <2>2. ReadsAreTrue' BY <1>1, <1>2, <2>1 DEF ReadsAreTrue, Elsewhere, On, SamePair, Stays
  <2>3. LoadsAlone' BY <1>2, <1>3, <2>1 DEF LoadsAlone, Elsewhere
  <2>4. PlansAreTrue' BY <1>4, <2>1 DEF PlansAreTrue, PlanOK, Stays, SamePair, Follows
  <2>5. LineageIsTrue' BY <2>1, LineageStays DEF Elsewhere
  <2>6. TellsAreTrue'
    <3>1. SUFFICES ASSUME NEW u \in Threads PROVE ToldOK(u)' BY DEF TellsAreTrue
    <3>2. CASE Stays(u)
      <4>1. ToldOK(u) BY <2>1 DEF TellsAreTrue
      <4> QED BY <1>2, <3>2, <4>1 DEF ToldOK, Told, Elsewhere, Stays, On
    <3>3. CASE pc'[u] \notin TemplatePlaces
      BY <3>3 DEF ToldOK, On, TemplatePlaces, Planning, Loads
    <3> QED BY <3>2, <3>3 DEF Elsewhere
  <2> QED BY <2>2, <2>3, <2>4, <2>5, <2>6
<1>7. SavesAreTrue' BY <1>2, <1>5 DEF TemplatesKept, SavesAreTrue, Elsewhere, Stays
<1> QED BY <1>6, <1>7 DEF TemplatesKept, LoadsAreTrue

(* A call that has its template, or gives up, leaves the template alone. *)
LEMMA PlanGoesOn ==
  ASSUME Base, AuthoredTypes', TemplatesKept, TextsStay, NEW t, Moves(t), UNCHANGED <<registry, role, crashed>>,
         pc[t] \notin {"template", "agents", "first"}, pc'[t] \in Planning \cup {"idle"},
         ~raced /\ pc'[t] \in Planning => PlanOK(t)',
         ~raced /\ pc'[t] = "ask" => Told(local[t].bundle.revision, local[t].pair.agents)',
         pc'[t] \in Planning => pc[t] \in Loads \cup Planning /\ local'[t].told = local[t].told,
         \A l \in lineage' : \/ l \in lineage
                             \/ ~raced => l.text \in Texts' /\ Names(l.bundle, made'[l.text])
  PROVE  TemplatesKept'
<1>1. UNCHANGED <<template, trow, promised, raced, role, crashed>> BY DEF registry
<1>2. /\ \A u \in Threads : Reading(u)' => Reading(u) /\ Stays(u)
      /\ \A u \in Threads : On(u, "load")' => On(u, "load")
      /\ \A u \in Threads : On(u, "agents")' => On(u, "agents") /\ Stays(u)
    BY DEF Moves, Planning, WhileReplacing, Reading, On, Stays
<1>3. Saving' = Saving BY DEF Moves, Planning, WhileReplacing, Saving, Stays
<1>4. ASSUME ~raced' PROVE ReadsAreTrue' /\ LoadsAlone' /\ PlansAreTrue' /\ LineageIsTrue' /\ TellsAreTrue'
  <2>1. ~raced /\ ReadsAreTrue /\ LoadsAlone /\ PlansAreTrue /\ LineageIsTrue /\ TellsAreTrue
      BY <1>1, <1>4 DEF TemplatesKept, LoadsAreTrue
  <2>2. ReadsAreTrue'
    <3>1. SUFFICES ASSUME NEW u \in Threads, Reading(u)'
                   PROVE  /\ Saving' = {} /\ template' \in WholePairs
                          /\ On(u, "register template")' => local'[u].found = template'
                          /\ On(u, "read template")' =>
                               /\ SamePair(local'[u].bundle, template') /\ trow' # absent
                               /\ local'[u].bundle.revision = trow'.revision
        BY DEF ReadsAreTrue, SamePair
    <3>2. Reading(u) /\ pc'[u] = pc[u] /\ local'[u] = local[u] BY <1>2, <3>1 DEF Stays
    <3>3. /\ Saving = {} /\ template \in WholePairs
          /\ On(u, "register template") => local[u].found = template
          /\ On(u, "read template") =>
               SamePair(local[u].bundle, template) /\ trow # absent /\ local[u].bundle.revision = trow.revision
        BY <2>1, <3>2 DEF ReadsAreTrue
    <3> QED BY <1>1, <1>3, <3>2, <3>3 DEF On, SamePair
  <2>3. LoadsAlone' BY <1>1, <1>2, <1>3, <2>1 DEF LoadsAlone
  <2>4. PlansAreTrue'
    <3>1. SUFFICES ASSUME NEW u \in Threads, pc'[u] \in Planning PROVE PlanOK(u)' BY DEF PlansAreTrue
    <3>2. CASE u = t BY <1>1, <2>1, <3>1, <3>2
    <3>3. CASE u # t
      <4>1. pc'[u] = pc[u] /\ local'[u] = local[u] BY <3>3 DEF Moves, Stays
      <4>2. PlanOK(u) BY <2>1, <3>1, <4>1 DEF PlansAreTrue
      <4> QED BY <4>1, <4>2 DEF PlanOK, SamePair, Follows
    <3> QED BY <3>2, <3>3
  <2>5. LineageIsTrue' BY <2>1, LineageStays
  <2>6. TellsAreTrue'
    <3>1. t \in Threads BY DEF Moves
    <3>2. pc'[t] \in Loads \cup Planning => pc[t] \in Loads \cup Planning /\ local'[t].told = local[t].told
      BY DEF Planning, WhileReplacing, Loads
    <3>3. On(t, "ask")' => Told(local[t].bundle.revision, local[t].pair.agents)'
      BY <1>1, <2>1 DEF On
    <3>4. trow # absent => trow.revision <= trow'.revision
      <4>1. trow # absent => trow.revision \in Nat BY DEF Base, AuthoredTypes, Bundles
      <4> QED BY <1>1, <4>1
    <3> QED BY <1>1, <1>3, <2>1, <3>1, <3>2, <3>3, <3>4, TellsStay
  <2> QED BY <2>2, <2>3, <2>4, <2>5, <2>6
<1>5. SavesAreTrue' BY <1>1, <1>2, <1>3 DEF TemplatesKept, SavesAreTrue, Stays
<1> QED BY <1>4, <1>5 DEF TemplatesKept, LoadsAreTrue

LEMMA GenerateTemplates ==
  ASSUME Base, AuthoredTypes', TemplateThere, TemplatesKept, TextsStay, GenerateNotes
  PROVE  TemplatesKept'
<1>1. AuthoredTypes /\ (\A u \in Threads : InHands(u)) BY DEF Base
<1>2. PICK t \in Threads :
        \/ Generate(t) \/ ReadBundle(t) \/ AskModel(t) \/ Stage(t) \/ InvalidateGreen(t)
        \/ UnlinkOld(t) \/ MoveStaged(t) \/ ReadRow(t) \/ RegisterCatalog(t)
        \/ RegisterRefused(t) \/ SaveLineage(t) \/ GenerationFails(t) \/ UndoGeneration(t)
    BY DEF GenerateNotes
<1>3. role' = role /\ crashed' = crashed BY GenerateMoves
<1>4. ~raced => ReadsAreTrue /\ LoadsAlone /\ PlansAreTrue /\ LineageIsTrue /\ TellsAreTrue
    BY DEF TemplatesKept, LoadsAreTrue
<1>5. CASE Generate(t) \/ AskModel(t)
  <2>1. /\ pc[t] \in {"idle", "ask"} /\ pc'[t] = "load" /\ Moves(t) /\ raced' = (raced \/ Saving # {})
        /\ UNCHANGED <<template, trow, version, promised, lineage>>
    <3>1. CASE Generate(t)
      <4>1. PICK r : Start(t, "generator", "load", r) BY <3>1 DEF Generate
      <4> QED BY <1>1, <3>1, <4>1, Starting DEF Generate
    <3>2. CASE AskModel(t)
      <4>1. PICK r : Proceed(t, "load", r) BY <3>2 DEF AskModel
      <4> QED BY <1>1, <3>2, <4>1, Proceeding DEF AskModel, On
    <3> QED BY <1>5, <3>1, <3>2
  <2>2. /\ \A u \in Threads : Reading(u)' => Reading(u) /\ Stays(u)
        /\ \A u \in Threads : pc'[u] \in Planning => pc[u] \in Planning /\ Stays(u)
        /\ \A u \in Threads : On(u, "agents")' => On(u, "agents") /\ Stays(u)
      BY <2>1 DEF Moves, Planning, WhileReplacing, Reading, On, Stays
  <2>3. Saving' = Saving BY <2>1 DEF Moves, Saving, Stays
  <2>4. ASSUME ~raced' PROVE ReadsAreTrue' /\ LoadsAlone' /\ PlansAreTrue' /\ LineageIsTrue' /\ TellsAreTrue'
    <3>1. ~raced /\ Saving = {} BY <2>1, <2>4
    <3>2. ReadsAreTrue' BY <1>4, <2>1, <2>2, <2>3, <3>1 DEF ReadsAreTrue, On, SamePair, Stays
    <3>3. LoadsAlone' BY <2>3, <3>1 DEF LoadsAlone
    <3>4. PlansAreTrue' BY <1>4, <2>2, <3>1 DEF PlansAreTrue, PlanOK, Stays, SamePair, Follows
    <3>5. LineageIsTrue' BY <1>4, <2>1, <3>1, LineageStays
    <3>6. local'[t].told # absent =>
            On(t, "ask") /\ local'[t].told = [revision |-> local[t].bundle.revision, agents |-> local[t].pair.agents]
      <4>1. CASE Generate(t)
        <5>1. local'[t] = [Nothing EXCEPT !.origin = row[Source].text]
          BY <1>1, <4>1, Starting DEF Generate
        <5> QED BY <5>1 DEF Nothing
      <4>2. CASE AskModel(t)
        <5> DEFINE told == [revision |-> local[t].bundle.revision, agents |-> local[t].pair.agents]
        <5>1. On(t, "ask") /\ local'[t] = [local[t] EXCEPT !.told = told]
          BY <1>1, <4>2, Proceeding DEF AskModel
        <5>2. local[t] \in Hands BY <1>1, Typed
        <5> HIDE DEF told
        <5>3. local'[t].told = told BY <5>1, <5>2 DEF Hands
        <5> QED BY <5>1, <5>3 DEF told
      <4> QED BY <1>5, <4>1, <4>2
    <3>7. trow # absent => trow.revision <= trow'.revision
      <4>1. trow # absent => trow.revision \in Nat BY <1>1 DEF AuthoredTypes, Bundles
      <4> QED BY <2>1, <4>1
    <3>8. t \in Threads /\ ~On(t, "ask")' BY <2>1 DEF On, Moves
    <3>9. TellsAreTrue' BY <1>4, <2>1, <2>3, <3>1, <3>6, <3>7, <3>8, TellsStay
    <3> QED BY <3>2, <3>3, <3>4, <3>5, <3>9
  <2>5. SavesAreTrue' BY <1>3, <2>1, <2>2, <2>3 DEF TemplatesKept, SavesAreTrue, Stays
  <2> QED BY <2>4, <2>5 DEF TemplatesKept, LoadsAreTrue
<1>6. CASE ReadBundle(t)
  <2>1. /\ pc[t] = "read template" /\ Moves(t) /\ UNCHANGED <<registry, lineage>>
        /\ pc'[t] = IF local[t].told = absent THEN "ask" ELSE "stage"
        /\ local'[t] = [local[t] EXCEPT !.pair = template]
      BY <1>1, <1>6, Proceeding DEF ReadBundle, ReadTemplate, On
  <2>2. /\ local'[t].pair = template /\ local'[t].bundle = local[t].bundle
        /\ local'[t].told = local[t].told
      BY <1>1, <2>1, Typed DEF Hands
  <2>3. ~raced => /\ Saving = {} /\ template \in WholePairs /\ SamePair(local[t].bundle, template)
                  /\ trow # absent /\ local[t].bundle.revision = trow.revision
      BY <1>4, <2>1 DEF ReadsAreTrue, Reading, On
  <2>4. pc'[t] \in {"ask", "stage"} /\ (pc'[t] # "ask" => local[t].told # absent) BY <2>1
  <2>5. UNCHANGED <<template, trow, raced>> /\ Saving' = Saving
      BY <2>1, <2>4 DEF registry, Saving, Moves, Stays
  <2>6. ~raced /\ local[t].told # absent => Follows(local[t].bundle, local[t].told)
    <3>1. SUFFICES ASSUME ~raced, local[t].told # absent PROVE Follows(local[t].bundle, local[t].told)
      OBVIOUS
    <3>2. Told(local[t].told.revision, local[t].told.agents)
      <4>1. t \in Threads /\ pc[t] \in Loads BY <2>1 DEF Loads, Moves
      <4> QED BY <1>4, <3>1, <4>1 DEF TellsAreTrue, ToldOK
    <3>3. trow # absent /\ trow.revision \in Nat /\ local[t].told.revision \in Nat
      <4>1. local[t].told \in Tolds BY <1>1, <2>1, <3>1, Typed DEF Hands, Moves
      <4> QED BY <1>1, <3>2, <4>1 DEF Told, Tolds, AuthoredTypes, Bundles
    <3>4. \/ local[t].told.revision < trow.revision
          \/ template.agents = local[t].told.agents
      BY <3>2, <3>3 DEF Told
    <3> QED BY <2>3, <3>1, <3>4 DEF Follows, SamePair
  <2>7. ~raced => PlanOK(t)'
    <3>1. ~raced => template # absent BY <2>3, AbsentIsNone
    <3> QED BY <2>2, <2>3, <2>4, <2>6, <3>1 DEF PlanOK, Follows, SamePair
  <2>8. ~raced => Told(local[t].bundle.revision, local[t].pair.agents)'
    <3>1. trow # absent => trow.revision \in Nat BY <1>1 DEF AuthoredTypes, Bundles
    <3> QED BY <2>2, <2>3, <2>5, <3>1 DEF Told
  <2>9. pc[t] \in Loads /\ pc[t] \notin {"template", "agents", "first"} /\ pc'[t] \in Planning
    BY <2>1, <2>4 DEF Loads, Planning
  <2> QED BY <1>3, <2>1, <2>2, <2>7, <2>8, <2>9, PlanGoesOn
<1>7. CASE Stage(t) \/ InvalidateGreen(t) \/ UnlinkOld(t) \/ MoveStaged(t) \/ ReadRow(t)
           \/ RegisterCatalog(t) \/ RegisterRefused(t)
  <2>1. /\ pc[t] \in Planning /\ pc'[t] \in Planning /\ Moves(t) /\ UNCHANGED <<registry, lineage>>
        /\ local'[t].pair = local[t].pair /\ local'[t].bundle = local[t].bundle
        /\ local'[t].told = local[t].told /\ pc'[t] # "ask" /\ pc[t] # "ask"
    <3> USE Typed DEF On, Planning, WhileReplacing, Hands
    <3>2. CASE Stage(t)
      <4>1. /\ pc[t] = "stage" /\ pc'[t] = "invalidate" /\ Moves(t) /\ UNCHANGED <<registry, lineage>>
            /\ local'[t] = [local[t] EXCEPT !.item = 1, !.first = Len(made)]
          BY <1>1, <3>2, Proceeding DEF Stage
      <4> QED BY <1>1, <4>1
    <3>3. CASE InvalidateGreen(t) BY <1>1, <3>3, Proceeding DEF InvalidateGreen
    <3>4. CASE UnlinkOld(t) BY <1>1, <3>4, Proceeding DEF UnlinkOld
    <3>5. CASE MoveStaged(t) BY <1>1, <3>5, Proceeding DEF MoveStaged
    <3>6. CASE ReadRow(t) BY <1>1, <3>6, Proceeding DEF ReadRow
    <3>7. CASE RegisterCatalog(t) BY <1>1, <3>7, Proceeding DEF RegisterCatalog
    <3>8. CASE RegisterRefused(t) BY <1>1, <3>8, Proceeding DEF RegisterRefused
    <3> QED BY <1>7, <3>2, <3>3, <3>4, <3>5, <3>6, <3>7, <3>8
  <2>2. pc[t] \notin {"template", "agents", "first"} BY <2>1 DEF Planning, WhileReplacing
  <2>3. ~raced => PlanOK(t)
      BY <1>4, <2>1 DEF PlansAreTrue, Moves
  <2>4. ~raced => PlanOK(t)' BY <2>1, <2>3 DEF PlanOK, SamePair, Follows
  <2> QED BY <1>3, <2>1, <2>2, <2>4, PlanGoesOn
<1>8. CASE SaveLineage(t)
  <2> DEFINE b == [revision |-> local[t].bundle.revision, template |-> local[t].bundle.template,
                   agents |-> local[t].bundle.agents]
             x == local[t].first + local[t].item
             l == [note |-> Current(t), text |-> x, bundle |-> b]
  <2>1. /\ pc[t] = "lineage" /\ pc'[t] \in {"invalidate", "idle"} /\ Moves(t) /\ UNCHANGED registry
        /\ local'[t] \in {[local[t] EXCEPT !.item = @ + 1], Nothing}
        /\ pc'[t] = "invalidate" => local'[t] = [local[t] EXCEPT !.item = @ + 1]
      BY <1>1, <1>8, Proceeding DEF SaveLineage, Finish, On
  <2>2. pc'[t] = "invalidate" =>
          local'[t].pair = local[t].pair /\ local'[t].bundle = local[t].bundle /\ local'[t].told = local[t].told
      BY <1>1, <2>1, Typed DEF Hands
  <2>3. ~raced => PlanOK(t)
      BY <1>4, <2>1 DEF PlansAreTrue, Planning, WhileReplacing, Moves
  <2>4. x \in Texts /\ made[x].template = local[t].pair /\ made[x].told = local[t].told BY <2>1, HasPlan DEF WhileReplacing
  <2>5. lineage' = lineage \cup {l} BY <1>8 DEF SaveLineage
  <2>6. l.text = x /\ l.bundle.template = local[t].bundle.template
        /\ l.bundle.agents = local[t].bundle.agents /\ l.bundle.revision = local[t].bundle.revision
      OBVIOUS
  <2>7. ~raced => l.text \in Texts' /\ Names(l.bundle, made'[l.text])
      BY <2>1, <2>3, <2>4, <2>6 DEF TextsStay, Names, PlanOK, SamePair, Follows
  <2> HIDE DEF l
  <2>8. ~raced /\ pc'[t] \in Planning => PlanOK(t)'
      BY <2>1, <2>2, <2>3 DEF PlanOK, SamePair, Follows, Planning, WhileReplacing
  <2> QED BY <1>3, <2>1, <2>2, <2>5, <2>7, <2>8, PlanGoesOn DEF Planning, WhileReplacing
<1>9. CASE GenerationFails(t) \/ UndoGeneration(t)
  <2>1. /\ pc[t] \in Planning \cup Loads /\ pc'[t] \in {"undo", "idle"} /\ Moves(t)
        /\ UNCHANGED <<registry, lineage>>
        /\ pc'[t] = "undo" => pc[t] \in Planning /\ pc[t] # "ask" /\ local'[t] = local[t]
      BY <1>1, <1>9, Proceeding, Finishing
         DEF GenerationFails, UndoGeneration, On, Planning, WhileReplacing, Loads
  <2>2. pc[t] \notin {"template", "agents", "first"} /\ pc'[t] \in Planning \cup {"idle"}
      BY <2>1 DEF Planning, WhileReplacing, Loads
  <2>3. ~raced /\ pc'[t] \in Planning => PlanOK(t)'
    <3>1. ~raced /\ pc'[t] \in Planning => PlanOK(t) BY <1>4, <2>1 DEF PlansAreTrue, Planning, WhileReplacing, Moves
    <3>2. pc'[t] \in Planning => pc[t] # "ask" /\ local'[t] = local[t]
      BY <2>1 DEF Planning, WhileReplacing
    <3> QED BY <3>1, <3>2 DEF PlanOK, SamePair, Follows
  <2>4. pc'[t] # "ask" /\ (pc'[t] \in Planning => pc[t] \in Planning /\ local'[t].told = local[t].told)
    BY <2>1 DEF Planning, WhileReplacing
  <2> QED BY <1>3, <2>1, <2>2, <2>3, <2>4, PlanGoesOn
<1> QED BY <1>2, <1>5, <1>6, <1>7, <1>8, <1>9

LEMMA OnlyOneSaves ==
  ASSUME OneTailor, Base, NEW t \in Threads, NEW u \in Threads, t \in Saving, u \in Saving
  PROVE  t = u
<1>1. role[t] = "tailor" /\ role[u] = "tailor" BY DEF Base, InHands, LoaderHas, Saving
<1>2. role \in Casts BY DEF Base, AuthoredTypes
<1> QED BY <1>1, <1>2 DEF OneTailor

LEMMA TailorTemplates ==
  ASSUME OneTailor, Base, AuthoredTypes', TemplateThere, TemplatesKept, TextsStay, Tailor
  PROVE  TemplatesKept'
<1>1. AuthoredTypes /\ (\A u \in Threads : InHands(u)) BY DEF Base
<1>2. PICK t \in Threads :
        \/ \E pair \in Given : SaveTemplate(t, pair) \/ SaveFirst(t, pair)
        \/ EnsureFiles(t) \/ UpsertTemplate(t)
        \/ WriteTemplate(t) \/ WriteAgents(t) \/ SaveReturns(t)
    BY DEF Tailor
<1>3. UNCHANGED <<role, crashed, lineage>> BY TailorMoves
<1>4. ~raced => ReadsAreTrue /\ LoadsAlone /\ PlansAreTrue /\ LineageIsTrue /\ TellsAreTrue
    BY DEF TemplatesKept, LoadsAreTrue
<1>t. \A u \in Threads : Stays(u) => local'[u].told = local[u].told BY DEF Stays
<1>r. trow # absent => trow.revision \in Nat BY <1>1 DEF AuthoredTypes, Bundles
<1>5. CASE SaveReturns(t)
  <2>1. pc[t] = "read template" /\ pc'[t] = "idle" /\ Moves(t) /\ UNCHANGED registry
      BY <1>1, <1>5, Finishing DEF SaveReturns, On
  <2> QED BY <1>3, <2>1, PlanGoesOn DEF Planning, WhileReplacing
<1>6. ASSUME NEW q, pc'[t] = q, Moves(t), q \notin Planning,
             ~raced' => ~raced,
             q \in Loads => \/ pc[t] \in Loads \cup Planning /\ local'[t].told = local[t].told
                          \/ local'[t].told = absent,
             trow # absent => trow' # absent /\ trow.revision <= trow'.revision,
             trow # absent /\ trow'.revision = trow.revision /\ Saving = {} /\ template \in WholePairs =>
                 Saving' = {} /\ template' \in WholePairs /\ template'.agents = template.agents
      PROVE  ~raced' => PlansAreTrue' /\ LineageIsTrue' /\ TellsAreTrue'
  <2>1. ~raced => PlansAreTrue'
    <3>1. ASSUME NEW u \in Threads, pc'[u] \in Planning
          PROVE  pc[u] = pc'[u] /\ local[u] = local'[u]
      BY <1>6, <3>1 DEF Moves, Stays
    <3> QED BY <1>4, <3>1 DEF PlansAreTrue, PlanOK, SamePair, Follows
  <2>2. ~raced => LineageIsTrue' BY <1>3, <1>4, LineageStays
  <2>3. ~raced => TellsAreTrue'
    <3>1. t \in Threads /\ ~On(t, "ask")' /\ pc'[t] \notin Planning BY <1>6 DEF On, Moves, Planning
    <3>2. pc'[t] \in Loads \cup Planning /\ local'[t].told # absent =>
            pc[t] \in Loads \cup Planning /\ local'[t].told = local[t].told
      BY <1>6, <3>1
    <3> QED BY <1>4, <1>6, <3>1, <3>2, TellsStay
  <2> QED BY <1>6, <2>1, <2>2, <2>3
<1>7. CASE \E pair \in Given : SaveTemplate(t, pair) \/ SaveFirst(t, pair)
  <2>1. PICK pair \in Given : SaveTemplate(t, pair) \/ SaveFirst(t, pair) BY <1>7
  <2>2. PICK q \in {"template", "first"} : Start(t, "tailor", q, [Nothing EXCEPT !.pair = pair])
    <3>1. CASE SaveTemplate(t, pair) BY <3>1 DEF SaveTemplate
    <3>2. CASE SaveFirst(t, pair) BY <3>2 DEF SaveFirst
    <3> QED BY <2>1, <3>1, <3>2
  <2>3. pc[t] = "idle" /\ pc'[t] = q /\ Moves(t) BY <1>1, <2>2, Starting
  <2>4. template' = template /\ promised' = promised /\ raced' = (raced \/ Loading # {})
      BY <2>1 DEF SaveTemplate, SaveFirst
  <2>5. t \in Saving' BY <2>3 DEF Saving, Moves
  <2>6. ASSUME ~raced' PROVE ReadsAreTrue' /\ LoadsAlone'
    <3>1. Loading = {} BY <2>4, <2>6
    <3>2. \A u \in Threads : pc'[u] \notin Loads BY <2>3, <3>1 DEF Loading, Loads, Moves, Stays
    <3> QED BY <3>2 DEF ReadsAreTrue, LoadsAlone, Reading, On, Loads
  <2>7. \A u \in Threads : On(u, "agents")' => On(u, "agents") /\ Stays(u)
      BY <2>3 DEF On, Moves, Stays
  <2>8. SavesAreTrue' BY <1>3, <2>4, <2>5, <2>7 DEF TemplatesKept, SavesAreTrue, Stays
  <2>9. q \notin Planning /\ q \notin Loads BY DEF Planning, WhileReplacing, Loads
  <2>10. trow # absent => trow' # absent /\ trow.revision < trow'.revision
    <3>1. CASE SaveFirst(t, pair) BY <3>1 DEF SaveFirst
    <3>2. CASE SaveTemplate(t, pair)
      <4>1. trow' = Registered(trow.revision + 1, pair) /\ trow # absent BY <3>2 DEF SaveTemplate
      <4>2. trow'.revision = trow.revision + 1 BY <4>1 DEF Registered
      <4>3. trow' # absent
        <5>1. pair \in WholePairs /\ trow.revision + 1 \in Nat BY <1>1, <1>r, <2>1, <4>1, Stored
        <5> QED BY <1>1, <4>1, <5>1, Stored, AbsentIsNoBundle
      <4> QED BY <1>r, <4>1, <4>2, <4>3
    <3> QED BY <2>1, <3>1, <3>2
  <2>11. /\ trow # absent => trow' # absent /\ trow.revision <= trow'.revision
         /\ ~(trow # absent /\ trow'.revision = trow.revision)
    <3>1. trow # absent => trow.revision \in Nat /\ trow'.revision \in Nat
      BY <1>r, <2>10 DEF AuthoredTypes, Bundles
    <3> QED BY <2>10, <3>1
  <2>12. ~raced' => ~raced BY <2>4
  <2> HIDE DEF Moves
  <2> QED BY <1>6, <2>3, <2>6, <2>8, <2>9, <2>11, <2>12 DEF TemplatesKept, LoadsAreTrue
<1>8. CASE EnsureFiles(t)
  <2>1. /\ pc[t] = "load" /\ pc'[t] = "register template" /\ Moves(t)
        /\ local'[t] = [local[t] EXCEPT !.found = template']
      BY <1>1, <1>8, Proceeding DEF EnsureFiles, On
  <2>2. promised' = promised /\ raced' = (raced \/ Saving # {}) /\ trow' = trow
        /\ template' = IF template = absent \/ template.agents = absent THEN Packaged ELSE template
      BY <1>8 DEF EnsureFiles
  <2>3. local'[t].found = template' BY <1>1, <2>1, Typed DEF Hands
  <2>4. template' \in WholePairs BY <1>8, EnsureFilesBase DEF Tailor
  <2>5. Saving' = Saving BY <2>1 DEF Saving, Moves, Stays
  <2>6. template \in WholePairs => template' = template
      BY <2>2, AbsentIsNone DEF WholePairs
  <2>7. ASSUME ~raced' PROVE ReadsAreTrue' /\ LoadsAlone'
    <3>1. ~raced /\ Saving = {} BY <2>2, <2>7
    <3>2. ASSUME NEW u \in Threads, u # t, Reading(u)'
          PROVE  Reading(u) /\ Stays(u) /\ template' = template
      <4>1. Stays(u) BY <2>1, <3>2 DEF Moves
      <4>2. Reading(u) BY <3>2, <4>1 DEF Reading, Stays
      <4>3. template \in WholePairs BY <1>4, <3>1, <4>2 DEF ReadsAreTrue
      <4> QED BY <2>6, <4>1, <4>2, <4>3
    <3>3. ReadsAreTrue'
      <4>1. SUFFICES ASSUME NEW u \in Threads, Reading(u)'
                     PROVE  /\ On(u, "register template")' => local'[u].found = template'
                            /\ On(u, "read template")' =>
                                 /\ SamePair(local'[u].bundle, template') /\ trow' # absent
                                 /\ local'[u].bundle.revision = trow'.revision
          BY <2>4, <2>5, <3>1 DEF ReadsAreTrue, SamePair, On
      <4>2. CASE u = t BY <2>1, <2>3, <4>2 DEF On
      <4>3. CASE u # t
        <5>1. Reading(u) /\ Stays(u) /\ template' = template BY <3>2, <4>1, <4>3
        <5> QED BY <1>4, <2>2, <3>1, <5>1 DEF ReadsAreTrue, On, Stays
      <4> QED BY <4>2, <4>3
    <3>4. LoadsAlone' BY <2>5, <3>1 DEF LoadsAlone
    <3> QED BY <3>3, <3>4
  <2>8. SavesAreTrue'
    <3>1. SUFFICES ASSUME ~raced', ~crashed' PROVE /\ Saving' = {}
                          /\ template' = promised'
                          /\ \A u \in Threads : ~On(u, "agents")'
        BY <2>4, AbsentIsNone DEF SavesAreTrue
    <3>2. ~raced /\ Saving = {} /\ ~crashed BY <1>3, <2>2, <3>1
    <3>3. \A u \in Threads : ~On(u, "agents")' BY <2>5, <3>2 DEF Saving, On
    <3>4. IF template = absent THEN promised = Packaged ELSE template = promised
        BY <3>2 DEF TemplatesKept, SavesAreTrue
    <3>5. promised \in WholePairs BY <1>1, Stored
    <3>6. template' = promised BY <2>2, <2>6, <3>4, <3>5
    <3> QED BY <2>2, <2>5, <3>2, <3>3, <3>6
  <2>9. "register template" \notin Planning BY DEF Planning, WhileReplacing
  <2>10. pc[t] \in Loads /\ local'[t].told = local[t].told BY <1>1, <2>1, Typed DEF Hands, Loads
  <2>11. /\ trow # absent => trow' # absent /\ trow.revision <= trow'.revision
         /\ Saving = {} /\ template \in WholePairs =>
              Saving' = {} /\ template' \in WholePairs /\ template'.agents = template.agents
    BY <1>r, <2>2, <2>5, <2>6
  <2>12. ~raced' => ~raced BY <2>2
  <2> QED BY <1>6, <2>1, <2>7, <2>8, <2>9, <2>10, <2>11, <2>12 DEF TemplatesKept, LoadsAreTrue
<1>9. CASE UpsertTemplate(t)
  <2>1. /\ pc[t] = "register template" /\ pc'[t] = "read template" /\ Moves(t)
        /\ local'[t] = [local[t] EXCEPT !.bundle = trow']
      BY <1>1, <1>9, Proceeding DEF UpsertTemplate, On
  <2>2. UNCHANGED <<template, promised, raced>>
      /\ trow' \in {Registered(1, local[t].found), Registered(trow.revision, local[t].found)}
      BY <1>9 DEF UpsertTemplate
  <2>a. trow' # absent /\ (trow # absent => trow'.revision = trow.revision)
    <3>1. local[t].found \in WholePairs
      BY <1>1, <2>1, Typed DEF Hands, InHands, LoaderHas, Moves
    <3>2. trow' \in Bundles BY <1>1, <1>9, <3>1, <1>r, Stored DEF UpsertTemplate
    <3>3. trow # absent => trow' = Registered(trow.revision, local[t].found) BY <1>9 DEF UpsertTemplate
    <3> QED BY <3>2, <3>3, AbsentIsNoBundle DEF Registered
  <2>3. local'[t].bundle = trow' BY <1>1, <2>1, Typed DEF Hands
  <2>4. Saving' = Saving BY <2>1 DEF Saving, Moves, Stays
  <2>5. SamePair(trow', local[t].found) BY <2>2 DEF SamePair, Registered
  <2>6. ASSUME ~raced' PROVE ReadsAreTrue' /\ LoadsAlone'
    <3>1. ~raced /\ Reading(t) BY <2>1, <2>2, <2>6 DEF Reading
    <3>2. Saving = {} /\ template \in WholePairs /\ local[t].found = template
        BY <1>4, <2>1, <3>1 DEF ReadsAreTrue, On
    <3>3. ReadsAreTrue'
      <4>1. SUFFICES ASSUME NEW u \in Threads, Reading(u)'
                     PROVE  /\ On(u, "register template")' => local'[u].found = template'
                            /\ On(u, "read template")' =>
                                 /\ SamePair(local'[u].bundle, template') /\ trow' # absent
                                 /\ local'[u].bundle.revision = trow'.revision
          BY <2>2, <2>4, <3>2 DEF ReadsAreTrue, SamePair, On
      <4>2. CASE u = t BY <2>a, <2>1, <2>2, <2>3, <2>5, <3>2, <4>2 DEF On
      <4>3. CASE u # t
        <5>1. Reading(u) /\ Stays(u) BY <2>1, <4>1, <4>3 DEF Moves, Stays, Reading
        <5> QED BY <1>4, <2>a, <2>2, <3>1, <5>1 DEF ReadsAreTrue, On, Stays
      <4> QED BY <4>2, <4>3
    <3>4. LoadsAlone' BY <2>4, <3>2 DEF LoadsAlone
    <3> QED BY <3>3, <3>4
  <2>7. \A u \in Threads : On(u, "agents")' => On(u, "agents") /\ Stays(u)
      BY <2>1 DEF On, Moves, Stays
  <2>8. SavesAreTrue' BY <1>3, <2>2, <2>4, <2>7 DEF TemplatesKept, SavesAreTrue, Stays
  <2>9. "read template" \notin Planning BY DEF Planning, WhileReplacing
  <2>10. pc[t] \in Loads /\ local'[t].told = local[t].told BY <1>1, <2>1, Typed DEF Hands, Loads
  <2>11. /\ trow # absent => trow' # absent /\ trow.revision <= trow'.revision
         /\ Saving = {} /\ template \in WholePairs =>
              Saving' = {} /\ template' \in WholePairs /\ template'.agents = template.agents
    BY <1>r, <2>a, <2>2, <2>4
  <2> QED BY <1>6, <2>1, <2>2, <2>6, <2>8, <2>9, <2>10, <2>11 DEF TemplatesKept, LoadsAreTrue
<1>10. CASE WriteTemplate(t)
  <2>1. /\ pc[t] \in {"template", "first"} /\ pc'[t] = "agents" /\ local'[t] = local[t] /\ Moves(t)
        /\ UNCHANGED <<promised, raced>> /\ template'.template = local[t].pair.template
        /\ template' # absent
    <3>1. local[t].pair \in WholePairs BY <1>1, <1>10 DEF InHands, LoaderHas, WriteTemplate
    <3>2. template' \in Pairs BY <1>1, <1>10, <3>1, Stored DEF WriteTemplate, Pairs, WholePairs
    <3> QED BY <1>1, <1>10, <3>2, Proceeding, AbsentIsNone DEF WriteTemplate
  <2>2. t \in Saving /\ t \in Saving' BY <2>1 DEF Saving, Moves
  <2>3. ASSUME ~raced' PROVE ReadsAreTrue' /\ LoadsAlone'
    <3>1. \A u \in Threads : ~Reading(u) BY <1>4, <2>1, <2>2, <2>3 DEF ReadsAreTrue
    <3>2. \A u \in Threads : ~Reading(u)' BY <2>1, <3>1 DEF Reading, Moves, Stays
    <3>3. \A u \in Threads : On(u, "load")' => On(u, "load") BY <2>1 DEF On, Moves, Stays
    <3>4. LoadsAlone' BY <1>3, <1>4, <2>1, <2>2, <2>3, <3>3 DEF LoadsAlone
    <3> QED BY <3>2, <3>4 DEF ReadsAreTrue
  <2>4. \A u \in Threads : On(u, "agents")' => u = t
    <3>1. ASSUME NEW u \in Threads, u # t, On(u, "agents")' PROVE FALSE
      <4>1. u \in Saving BY <2>1, <3>1 DEF On, Saving, Moves, Stays
      <4> QED BY <2>2, <3>1, <4>1, OnlyOneSaves
    <3> QED BY <3>1
  <2>5. SavesAreTrue' BY <2>1, <2>2, <2>4 DEF SavesAreTrue
  <2>6. "agents" \notin Planning \cup Loads BY DEF Planning, WhileReplacing, Loads
  <2>7. trow' = trow /\ (trow # absent => trow' # absent /\ trow.revision <= trow'.revision)
    BY <1>r, <1>10 DEF WriteTemplate
  <2>8. Saving # {} BY <2>2
  <2> QED BY <1>6, <2>1, <2>3, <2>5, <2>6, <2>7, <2>8 DEF TemplatesKept, LoadsAreTrue
<1>11. CASE WriteAgents(t)
  <2>1. /\ pc[t] = "agents" /\ pc'[t] = "load" /\ local'[t] = local[t] /\ Moves(t)
        /\ raced' = raced /\ promised' = local[t].pair
        /\ template' = [template EXCEPT !.agents = local[t].pair.agents]
      BY <1>1, <1>11, Proceeding DEF WriteAgents, On
  <2>2. t \in Saving /\ role[t] = "tailor" /\ local[t].pair \in WholePairs
      BY <1>1, <2>1 DEF Saving, Moves, InHands, LoaderHas
  <2>3. template \in Pairs BY <1>1, <2>1, <2>2, Stored DEF TemplateThere
  <2>4. ASSUME ~raced' PROVE ReadsAreTrue' /\ LoadsAlone'
    <3>1. \A u \in Threads : ~Reading(u) BY <1>4, <2>1, <2>2, <2>4 DEF ReadsAreTrue
    <3>2. \A u \in Threads : ~Reading(u)' BY <2>1, <3>1 DEF Reading, Moves, Stays
    <3>3. \A u \in Threads : On(u, "load")' => On(u, "load") \/ u = t BY <2>1 DEF On, Moves, Stays
    <3>4. \A u \in Threads : On(u, "load") => role[u] = "tailor"
        BY <1>4, <2>1, <2>2, <2>4 DEF LoadsAlone
    <3>5. LoadsAlone' BY <1>3, <2>2, <3>3, <3>4 DEF LoadsAlone
    <3> QED BY <3>2, <3>5 DEF ReadsAreTrue
  <2>5. \A u \in Threads : ~On(u, "agents")'
    <3>1. ASSUME NEW u \in Threads, On(u, "agents")' PROVE FALSE
      <4>1. u # t /\ u \in Saving BY <2>1, <3>1 DEF On, Saving, Moves, Stays
      <4> QED BY <2>2, <4>1, OnlyOneSaves
    <3> QED BY <3>1
  <2>6. ASSUME ~raced', ~crashed' PROVE template' # absent /\ template' = promised'
    <3>1. template.template = local[t].pair.template
        BY <1>3, <2>1, <2>2, <2>6 DEF TemplatesKept, SavesAreTrue, On
    <3>2. local[t].pair.agents \in Nat BY <2>2 DEF WholePairs
    <3>3. template' = local[t].pair BY <2>1, <2>2, <2>3, <3>1, <3>2 DEF Pairs, WholePairs
    <3> QED BY <2>1, <2>2, <3>3, AbsentIsNone
  <2>7. SavesAreTrue' BY <2>5, <2>6 DEF SavesAreTrue
  <2>8. "load" \notin Planning BY DEF Planning, WhileReplacing
  <2>9. trow' = trow /\ (trow # absent => trow' # absent /\ trow.revision <= trow'.revision)
    BY <1>r, <1>11 DEF WriteAgents
  <2>10. Saving # {} BY <2>2
  <2>11. local[t].told = absent /\ local'[t].told = absent BY <1>1, <2>1 DEF InHands, LoaderHas, Moves
  <2> QED BY <1>6, <2>1, <2>4, <2>7, <2>8, <2>9, <2>10, <2>11 DEF TemplatesKept, LoadsAreTrue
<1> QED BY <1>2, <1>5, <1>7, <1>8, <1>9, <1>10, <1>11

LEMMA NextTemplates ==
  ASSUME OneTailor, Base, TemplateThere, TemplatesKept, AuthoringNext
  PROVE  TemplatesKept'
<1>1. TextsStay /\ (crashed => crashed') /\ AuthoredTypes' BY TextsGrow, CrashStays, NextBase DEF Base
<1>2. CASE Author \/ Edit \/ Approve \/ Refine
    BY <1>1, <1>2, AuthorMoves, EditMoves, ApproveMoves, RefineMoves, TemplatesElsewhere
<1>3. CASE Die
  <2>1. UNCHANGED <<template, raced, lineage>> /\ crashed' BY <1>3 DEF Die, ProcessDies, registry
  <2>2. \A u \in Threads : pc'[u] = "idle" BY <1>3 DEF Die, ProcessDies
  <2>3. ~raced => LineageIsTrue' BY <1>1, <2>1, LineageStays DEF TemplatesKept, LoadsAreTrue
  <2>4. ReadsAreTrue' /\ LoadsAlone' /\ PlansAreTrue' /\ TellsAreTrue'
      BY <2>2 DEF ReadsAreTrue, LoadsAlone, PlansAreTrue, TellsAreTrue, ToldOK, Loads, Reading, On, Planning, WhileReplacing
  <2> QED BY <2>1, <2>3, <2>4 DEF TemplatesKept, LoadsAreTrue, SavesAreTrue
<1> QED BY <1>1, <1>2, <1>3, TailorTemplates, GenerateTemplates DEF AuthoringNext

LEMMA KeptTemplatesAreTrue ==
  ASSUME TemplatesKept
  PROVE  TemplatesAreTrue
BY DEF TemplatesKept, LoadsAreTrue, SavesAreTrue, LineageIsTrue, Names, SamePair, Follows, TemplatesAreTrue

-----------------------------------------------------------------------------
(* Refinement: once there is a candidate it is that one, and what was judged *)
(* or approved stays so.                                                     *)

RefinementGrows ==
    /\ TextsStay /\ judged \subseteq judged' /\ crossed \subseteq crossed'
    /\ candidate # absent => candidate' = candidate

LEMMA CandidateThere ==
  ASSUME NEW x \in Nat
  PROVE  CandidateRow(x) \in Identities /\ CandidateRow(x) # absent
<1>1. CandidateRow(x) \in Identities BY DEF CandidateRow, Identities
<1> QED BY <1>1, AbsentIsNone

LEMMA StillJudged ==
  ASSUME RefinementGrows
  PROVE  \A x \in Texts : (Judged(x) => Judged(x)') /\ (Committed(x) => Committed(x)')
<1>1. SUFFICES ASSUME NEW x \in Texts
               PROVE  (Judged(x) => Judged(x)') /\ (Committed(x) => Committed(x)')
    OBVIOUS
<1>2. made'[x] = made[x] BY DEF RefinementGrows, TextsStay
<1>3. CandidateRow(x) # absent BY CandidateThere DEF Texts
<1>4. Committed(x) => Committed(x)' BY <1>2, <1>3 DEF Committed, CandidateRow, RefinementGrows
<1> QED BY <1>2, <1>4 DEF Judged, RefinementGrows

LEMMA MiddleStays ==
  ASSUME Base, RefinementGrows, NEW u \in Threads, InTheMiddle(u), Stays(u)
  PROVE  InTheMiddle(u)'
<1>1. EditorHas(u) /\ RefinerHas(u) BY DEF Base, InHands
<1>2. pc[u] \in {"edit", "record"} => local[u].before \in Texts BY <1>1 DEF EditorHas
<1>3. pc[u] \in {"copy", "identity"} => local[u].text \in Texts
        /\ (local[u].before # absent => local[u].before \in Texts)
    BY <1>1 DEF RefinerHas
<1>4. pc[u] \in {"write", "identify"} => local[u].text \in Nat BY <1>1 DEF RefinerHas, Texts
<1>5. pc[u] \in {"write", "identify"} => candidate' = CandidateRow(local[u].text)
    BY <1>4, CandidateThere DEF RefinementGrows, InTheMiddle
<1>6. pc[u] = "verify" => candidate' # absent BY DEF InTheMiddle, RefinementGrows
<1>7. pc[u] \in {"edit", "record"} =>
        \A x : x = local[u].before =>
            /\ Head(local[u].todo) = Promoted => Judged(x)'
            /\ Head(local[u].todo) = Candidate => Committed(x)'
    BY <1>2, StillJudged DEF InTheMiddle
<1>8. pc[u] \in {"copy", "identity"} =>
        \A x : x = local[u].text \/ (x = local[u].before /\ x # absent) => Judged(x)'
    BY <1>3, StillJudged DEF InTheMiddle
<1> QED BY <1>5, <1>6, <1>7, <1>8 DEF InTheMiddle, Stays, CandidateRow, Judged, Committed

LEMMA CopiesStay ==
  ASSUME Base, RefinementGrows, CopiesAreTrue,
         \A x : x = files'[Promoted] => x \in {files[Promoted], absent} \/ Judged(x)',
         \A x : x = files'[Candidate] => x \in {files[Candidate], absent} \/ Committed(x)',
         \/ row'[Candidate] = row[Candidate]
         \/ candidate' # absent /\ (row'[Candidate].revision = 1 => candidate' = CandidateRow(row'[Candidate].text))
  PROVE  CopiesAreTrue'
<1>1. AuthoredTypes /\ Promoted \in Notes /\ Candidate \in Notes BY DEF Base, Notes
<1>2. /\ files[Promoted] # absent => files[Promoted] \in Texts
      /\ files[Candidate] # absent => files[Candidate] \in Texts
    BY <1>1, Typed
<1>3. \A x : x = files'[Promoted] /\ x # absent => Judged(x)'
    BY <1>2, StillJudged DEF CopiesAreTrue
<1>4. \A x : x = files'[Candidate] /\ x # absent => Committed(x)'
    BY <1>2, StillJudged DEF CopiesAreTrue
<1>5. row'[Candidate] # absent =>
         /\ candidate' # absent
         /\ row'[Candidate].revision = 1 => candidate' = CandidateRow(row'[Candidate].text)
    BY DEF CopiesAreTrue, RefinementGrows
<1> QED BY <1>3, <1>4, <1>5 DEF CopiesAreTrue, Judged, Committed, CandidateRow

LEMMA RefinementIdles ==
  ASSUME Base, RefinementKept, TextsStay, RefinementIdle
  PROVE  RefinementKept'
<1>1. RefinementGrows BY DEF RefinementIdle, RefinementGrows
<1>2. CopiesAreTrue' BY <1>1, CopiesStay DEF RefinementKept, RefinementIdle
<1>3. \A u \in Threads : InTheMiddle(u)'
  <2>1. ASSUME NEW u \in Threads, pc'[u] \notin RefinementPlaces PROVE InTheMiddle(u)'
      BY <2>1 DEF RefinementPlaces, InTheMiddle
  <2> QED BY <1>1, <2>1, MiddleStays DEF RefinementIdle, RefinementKept
<1>4. VerdictIsTrue' BY DEF RefinementKept, RefinementIdle, VerdictIsTrue
<1> QED BY <1>2, <1>3, <1>4 DEF RefinementKept

LEMMA ApproveRefinement ==
  ASSUME Base, RefinementKept, TextsStay, Approve
  PROVE  RefinementKept'
<1>1. AuthoredTypes /\ UNCHANGED <<candidate, verdict, judged>> /\ UNCHANGED <<files, pc, local>>
    BY DEF Base, Approve, refinement, ApproveCrossing, ApproveProcessedNote
<1>2. crossed \subseteq crossed' BY DEF Approve, ApproveCrossing, ApproveProcessedNote
<1>3. RefinementGrows BY <1>1, <1>2 DEF RefinementGrows
<1>4. row'[Candidate] = row[Candidate]
  <2>1. ASSUME NEW n \in ToSet(Outputs), ApproveProcessedNote(n) PROVE row'[Candidate] = row[Candidate]
    BY <1>1, <2>1, OutputsAreNotes DEF ApproveProcessedNote, AuthoredTypes, Notes
  <2> QED BY <2>1 DEF Approve, ApproveCrossing
<1>5. \A n \in Notes : crossing'[n] # absent => crossing'[n].text \in crossed'
  <2>1. ASSUME NEW m \in {Source, Candidate}, ApproveCrossing(m)
        PROVE  \A n \in Notes : crossing'[n] # absent => crossing'[n].text \in crossed'
    <3>1. /\ crossing' = [crossing EXCEPT ![m] = [revision |-> row[m].revision, text |-> row[m].text]]
          /\ crossed' = crossed \cup {row[m].text}
        BY <2>1 DEF ApproveCrossing
    <3> QED BY <1>1, <3>1 DEF RefinementKept, VerdictIsTrue, AuthoredTypes
  <2>2. ASSUME NEW n \in ToSet(Outputs), ApproveProcessedNote(n) PROVE UNCHANGED <<crossing, crossed>>
      BY <2>2 DEF ApproveProcessedNote
  <2> QED BY <2>1, <2>2 DEF Approve, RefinementKept, VerdictIsTrue
<1>6. CopiesAreTrue' BY <1>1, <1>3, <1>4, CopiesStay DEF RefinementKept
<1>7. \A u \in Threads : InTheMiddle(u)' BY <1>1, <1>3, MiddleStays DEF RefinementKept, Stays
<1> QED BY <1>1, <1>5, <1>6, <1>7 DEF RefinementKept, VerdictIsTrue

\* A step of thread t that judges and approves nothing.
Working(t) == Moves(t) /\ UNCHANGED <<crossing, crossed, candidate, verdict, judged>>

LEMMA Works ==
  ASSUME Base, RefinementKept, TextsStay, NEW t, Working(t), InTheMiddle(t)', CopiesAreTrue'
  PROVE  RefinementKept'
<1>1. RefinementGrows BY DEF RefinementGrows, Working
<1>2. \A u \in Threads : InTheMiddle(u)' BY <1>1, MiddleStays DEF RefinementKept, Working, Moves
<1>3. VerdictIsTrue' BY DEF RefinementKept, VerdictIsTrue, Working
<1> QED BY <1>2, <1>3 DEF RefinementKept

LEMMA EditRefinement ==
  ASSUME Base, RefinementKept, TextsStay, Edit
  PROVE  RefinementKept'
<1>1. AuthoredTypes /\ (\A u \in Threads : InHands(u)) /\ UNCHANGED <<candidate, verdict, judged>>
      /\ Promoted \in Notes /\ Candidate \in Notes /\ Promoted # Candidate
    BY AuthoringAssumption DEF Base, Edit, refinement, Notes
<1>2. PICK t \in Threads :
        \/ \E b \in Batches : EditNotes(t, b)
        \/ BeginEdit(t, {n \in Notes : BeingReplaced(n)}) \/ SkipEdit(t) \/ WriteEdit(t)
        \/ RecordEdit(t) \/ EditsDone(t)
    BY DEF Edit
<1> DEFINE m == Head(local[t].todo)
<1>3. UNCHANGED <<crossing, crossed>>
    BY <1>2 DEF EditNotes, BeginEdit, SkipEdit, WriteEdit, RecordEdit, EditsDone, vault
<1>4. RefinementGrows BY <1>1, <1>3 DEF RefinementGrows
<1>5. CASE (\E b \in Batches : EditNotes(t, b)) \/ SkipEdit(t) \/ EditsDone(t)
  <2>1. UNCHANGED vault BY <1>5 DEF EditNotes, SkipEdit, EditsDone
  <2>2. Moves(t) /\ pc'[t] \in {"idle", "next"}
    <3>1. CASE \E b \in Batches : EditNotes(t, b) BY <1>1, <3>1, Starting DEF EditNotes
    <3>2. CASE SkipEdit(t) BY <1>1, <3>2, Proceeding DEF SkipEdit, On
    <3>3. CASE EditsDone(t) BY <1>1, <3>3, Finishing DEF EditsDone, On
    <3> QED BY <1>5, <3>1, <3>2, <3>3
  <2>3. RefinementIdle BY <1>1, <1>3, <2>1, <2>2 DEF RefinementIdle, RefinementPlaces, Moves, vault
  <2> QED BY <2>3, RefinementIdles
<1>6. CASE BeginEdit(t, {n \in Notes : BeingReplaced(n)})
  <2> DEFINE r == [local[t] EXCEPT !.expected = row[m], !.before = files[m]]
  <2>1. /\ pc'[t] = "edit" /\ local'[t] = r /\ Moves(t) /\ UNCHANGED <<files, row>>
      BY <1>1, <1>6, Proceeding DEF BeginEdit
  <2>2. r.todo = local[t].todo /\ r.before = files[m] BY <1>1, Typed DEF Hands
  <2>3. m \in Notes /\ files[m] \in Texts BY <1>1, <1>6, HasNote, Typed DEF BeginEdit, Editable
  <2>4. CopiesAreTrue' BY <1>4, <2>1, CopiesStay DEF RefinementKept
  <2>5. files[m] # absent BY <1>6 DEF BeginEdit, Editable
  <2>6. \A x : x = files[m] => /\ m = Promoted => Judged(x)'
                               /\ m = Candidate => Committed(x)'
      BY <1>4, <2>3, <2>5, StillJudged DEF RefinementKept, CopiesAreTrue
  <2>7. InTheMiddle(t)' BY <2>1, <2>2, <2>6 DEF InTheMiddle, Judged, Committed, CandidateRow
  <2> QED BY <1>1, <1>3, <2>1, <2>4, <2>7, Works DEF Working
<1>7. CASE WriteEdit(t)
  <2> DEFINE r == [local[t] EXCEPT !.text = Fresh]
  <2>1. /\ pc[t] = "edit" /\ pc'[t] = "record" /\ local'[t] = r /\ Moves(t) /\ row' = row
        /\ files' = [files EXCEPT ![m] = Fresh]
      BY <1>1, <1>7, Proceeding DEF WriteEdit, On
  <2>2. r.todo = local[t].todo /\ r.before = local[t].before BY <1>1, Typed DEF Hands
  <2>3. m \in Notes /\ local[t].before \in Texts BY <1>1, <2>1, HasNote DEF InHands, EditorHas
  <2>4. PICK x : x = Fresh /\ made'[x].by = "person"
    <3>1. files[m] \in Nat \cup {absent} BY <1>1, <2>3, Typed DEF Texts
    <3>2. Made("person", files[m], absent) BY <1>7 DEF WriteEdit
    <3> QED BY <1>1, <3>1, <3>2, WrittenText
  <2>5. Judged(x)' /\ Committed(x)' BY <2>4 DEF Judged, Committed
  <2>6. files'[Promoted] \in {files[Promoted], x} /\ files'[Candidate] \in {files[Candidate], x}
      BY <1>1, <2>1, <2>3, <2>4, Typed
  <2>7. CopiesAreTrue' BY <1>4, <2>1, <2>5, <2>6, CopiesStay DEF RefinementKept
  <2>8. \A y : y = local[t].before => /\ m = Promoted => Judged(y)'
                                      /\ m = Candidate => Committed(y)'
      BY <1>4, <2>1, <2>3, StillJudged DEF RefinementKept, InTheMiddle
  <2>9. InTheMiddle(t)' BY <2>1, <2>2, <2>8 DEF InTheMiddle, Judged, Committed, CandidateRow
  <2> QED BY <1>1, <1>3, <2>1, <2>7, <2>9, Works DEF Working
<1>8. CASE RecordEdit(t)
  <2>1. pc[t] = "record" /\ pc'[t] = "next" /\ Moves(t) BY <1>1, <1>8, Proceeding DEF RecordEdit, On
  <2>2. /\ m \in Notes /\ local[t].before \in Texts /\ row[m] # absent
      BY <1>1, <2>1, HasNote DEF InHands, EditorHas
  <2>3. PICK x : x = local[t].before OBVIOUS
  <2>4. /\ files'[Promoted] = files[Promoted] \/ (m = Promoted /\ files'[Promoted] = x)
        /\ files'[Candidate] = files[Candidate] \/ (m = Candidate /\ files'[Candidate] = x)
      BY <1>1, <1>8, <2>2, <2>3, Typed DEF RecordEdit
  <2>5. (m = Promoted => Judged(x)') /\ (m = Candidate => Committed(x)')
      BY <1>4, <2>1, <2>2, <2>3, StillJudged DEF RefinementKept, InTheMiddle
  <2>6. \/ row'[Candidate] = row[Candidate]
        \/ candidate' # absent /\ row'[Candidate].revision # 1
    <3>1. CASE row'[Candidate] = row[Candidate] BY <3>1
    <3>2. CASE row'[Candidate] # row[Candidate]
      <4>1. m = Candidate /\ row'[Candidate] = Revised(m, local[t].text)
          BY <1>1, <1>8, <2>2, <3>2, Typed DEF RecordEdit
      <4>2. row[Candidate].revision \in Nat \ {0} BY <1>1, <2>2, <4>1, Typed
      <4>3. Revised(m, local[t].text).revision = row[Candidate].revision + 1 BY <4>1 DEF Revised
      <4>4. candidate # absent BY <2>2, <4>1 DEF RefinementKept, CopiesAreTrue
      <4> QED BY <1>1, <4>1, <4>2, <4>3, <4>4
    <3> QED BY <3>1, <3>2
  <2>7. CopiesAreTrue' BY <1>4, <2>4, <2>5, <2>6, CopiesStay DEF RefinementKept
  <2>8. InTheMiddle(t)' BY <2>1 DEF InTheMiddle
  <2> QED BY <1>1, <1>3, <2>1, <2>7, <2>8, Works DEF Working
<1> QED BY <1>2, <1>5, <1>6, <1>7, <1>8

LEMMA RefineRefinement ==
  ASSUME Base, RefinementKept, TextsStay, Refine
  PROVE  RefinementKept'
<1>1. AuthoredTypes /\ (\A u \in Threads : InHands(u)) /\ Source \in Notes
      /\ Promoted \in Notes /\ Candidate \in Notes /\ Promoted # Candidate
    BY AuthoringAssumption DEF Base, Notes
<1>2. PICK t \in Threads :
        \/ ComposeCandidate(t) \/ PersistCandidate(t) \/ RefuseCandidate(t)
        \/ CommitCandidate(t) \/ WriteCandidate(t) \/ IdentifyCandidate(t)
        \/ ReadSnapshots(t)
        \/ \E d \in {"accepted", "rejected", "needs_human_review"} : EvaluatePair(t, d)
        \/ Promote(t) \/ CheckPromotion(t) \/ CopyPromoted(t)
        \/ IdentifyPromoted(t) \/ ReleaseCandidate(t)
    BY DEF Refine
<1>3. VerdictIsTrue /\ CopiesAreTrue /\ InTheMiddle(t) BY DEF RefinementKept
<1>4. ASSUME UNCHANGED <<files, row>>, UNCHANGED refinement, UNCHANGED <<crossing, crossed>>,
             Moves(t), InTheMiddle(t)'
      PROVE  RefinementKept'
  <2>1. RefinementGrows BY <1>4 DEF RefinementGrows, refinement
  <2>2. CopiesAreTrue' BY <1>3, <1>4, <2>1, CopiesStay
  <2> QED BY <1>4, <2>2, Works DEF Working, refinement
<1>5. CASE ComposeCandidate(t)
  <2>1. PICK r : Start(t, "refiner", "persist", r) BY <1>5 DEF ComposeCandidate
  <2>2. pc'[t] = "persist" /\ Moves(t) BY <1>1, <2>1, Starting
  <2>3. InTheMiddle(t)' BY <2>2 DEF InTheMiddle
  <2> QED BY <1>4, <1>5, <2>2, <2>3 DEF ComposeCandidate
<1>6. CASE PersistCandidate(t) \/ RefuseCandidate(t) \/ ReleaseCandidate(t)
  <2>1. pc'[t] \in {"commit", "refuse", "idle"} /\ Moves(t)
      BY <1>1, <1>6, Proceeding, Finishing DEF PersistCandidate, RefuseCandidate, ReleaseCandidate
  <2>2. InTheMiddle(t)' BY <2>1 DEF InTheMiddle
  <2> QED BY <1>4, <1>6, <2>1, <2>2 DEF PersistCandidate, RefuseCandidate, ReleaseCandidate
<1>7. CASE CommitCandidate(t)
  <2> DEFINE x == local[t].text
  <2>1. /\ pc[t] = "commit" /\ pc'[t] \in {"refuse", "write", "identify"} /\ local'[t] = local[t]
        /\ Moves(t) /\ UNCHANGED <<files, row, crossing, crossed, verdict, judged>>
      BY <1>1, <1>7, Proceeding DEF CommitCandidate, On, vault
  <2>2. x \in Texts /\ x \in Nat BY <2>1, RefinerHolds
  <2>3. CASE candidate' = candidate /\ pc'[t] = "refuse"
    <3>1. InTheMiddle(t)' BY <2>3 DEF InTheMiddle
    <3> QED BY <1>4, <2>1, <2>3, <3>1 DEF refinement
  <2>4. CASE ~(candidate' = candidate /\ pc'[t] = "refuse")
    <3>1. /\ files[Candidate] \in {absent, x} /\ candidate \in {absent, CandidateRow(x)}
          /\ candidate' = CandidateRow(x)
          /\ Proceed(t, IF files[Candidate] = absent THEN "write" ELSE "identify", local[t])
      <4>1. CASE files[Candidate] \notin {absent, x} \/ candidate \notin {absent, CandidateRow(x)}
        <5>1. Proceed(t, "refuse", local[t]) /\ candidate' = candidate BY <1>7, <4>1 DEF CommitCandidate
        <5> QED BY <1>1, <2>4, <5>1, Proceeding
      <4>2. CASE ~(files[Candidate] \notin {absent, x} \/ candidate \notin {absent, CandidateRow(x)})
          BY <1>7, <4>2 DEF CommitCandidate
      <4> QED BY <4>1, <4>2
    <3>2. RefinementGrows BY <2>1, <3>1 DEF RefinementGrows
    <3>3. candidate' # absent BY <2>2, <3>1, CandidateThere
    <3>4. CopiesAreTrue'
      <4>1. \A y : y = files'[Candidate] => y \in {files[Candidate], absent} BY <2>1
      <4> QED BY <1>3, <2>1, <3>2, <4>1, CopiesStay
    <3>5. InTheMiddle(t)' BY <2>1, <3>1 DEF InTheMiddle, CandidateRow
    <3>6. \A u \in Threads : InTheMiddle(u)' BY <2>1, <3>2, <3>5, MiddleStays DEF RefinementKept, Moves
    <3>7. VerdictIsTrue'
      <4>1. verdict = "accepted" => verdict # absent BY AuthoringAssumption
      <4> QED BY <1>3, <2>1, <3>2, <3>3, <4>1 DEF VerdictIsTrue, RefinementGrows
    <3> QED BY <3>4, <3>6, <3>7 DEF RefinementKept
  <2> QED BY <2>3, <2>4
<1>8. CASE WriteCandidate(t)
  <2>1. /\ pc[t] = "write" /\ pc'[t] = "identify" /\ local'[t] = local[t] /\ Moves(t) /\ row' = row
        /\ files' = [files EXCEPT ![Candidate] = local[t].text]
        /\ UNCHANGED <<candidate, verdict, judged, crossing, crossed>>
      BY <1>1, <1>8, Proceeding DEF WriteCandidate, On, refinement
  <2>2. RefinementGrows BY <2>1 DEF RefinementGrows
  <2>3. candidate = CandidateRow(local[t].text) BY <1>3, <2>1 DEF InTheMiddle
  <2>4. \A x : x = files'[Candidate] => Committed(x)'
      BY <1>1, <2>1, <2>3, Typed DEF Committed, CandidateRow
  <2>5. files'[Promoted] = files[Promoted] BY <1>1, <2>1, Typed
  <2>6. CopiesAreTrue' BY <1>3, <2>1, <2>2, <2>4, <2>5, CopiesStay
  <2>7. InTheMiddle(t)' BY <2>1, <2>3 DEF InTheMiddle, CandidateRow
  <2> QED BY <2>1, <2>6, <2>7, Works DEF Working
<1>9. CASE IdentifyCandidate(t)
  <2>1. /\ pc[t] = "identify" /\ pc'[t] = "idle" /\ Moves(t) /\ files' = files
        /\ row' = IF row[Candidate] = absent THEN [row EXCEPT ![Candidate] = NewRow(local[t].text)] ELSE row
        /\ UNCHANGED <<candidate, verdict, judged, crossing, crossed>>
      BY <1>1, <1>9, Finishing DEF IdentifyCandidate, On, refinement
  <2>2. RefinementGrows BY <2>1 DEF RefinementGrows
  <2>3. candidate = CandidateRow(local[t].text) /\ local[t].text \in Nat
      BY <1>3, <2>1, RefinerHolds DEF InTheMiddle
  <2>4. \/ row'[Candidate] = row[Candidate]
        \/ candidate' # absent /\ candidate' = CandidateRow(row'[Candidate].text)
      BY <1>1, <2>1, <2>3, CandidateThere, Typed DEF NewRow
  <2>5. CopiesAreTrue' BY <1>3, <2>1, <2>2, <2>4, CopiesStay
  <2>6. InTheMiddle(t)' BY <2>1 DEF InTheMiddle
  <2> QED BY <2>1, <2>5, <2>6, Works DEF Working
<1>10. CASE ReadSnapshots(t)
  <2>1. pc'[t] = "verify" /\ Moves(t) /\ UNCHANGED <<files, row, crossing, crossed>> /\ UNCHANGED refinement
      BY <1>1, <1>10, Starting DEF ReadSnapshots, vault
  <2>2. candidate # absent BY <1>3, <1>10 DEF ReadSnapshots, CopiesAreTrue
  <2>3. InTheMiddle(t)' BY <2>1, <2>2 DEF InTheMiddle, refinement
  <2> QED BY <1>4, <2>1, <2>3
<1>11. ASSUME NEW d \in {"accepted", "rejected", "needs_human_review"}, EvaluatePair(t, d)
       PROVE  RefinementKept'
  <2>1. pc[t] = "verify" /\ pc'[t] = "idle" /\ Moves(t) /\ UNCHANGED <<files, row, crossing, crossed>>
      BY <1>1, <1>11, Finishing DEF EvaluatePair, On, vault
  <2>2. InTheMiddle(t)' BY <2>1 DEF InTheMiddle
  <2>3. CASE UNCHANGED refinement BY <1>4, <2>1, <2>2, <2>3
  <2>4. CASE ~(UNCHANGED refinement)
    <3>1. /\ candidate \in {absent, local[t].expected} /\ candidate' = local[t].expected /\ verdict' = d
          /\ judged' = IF d = "accepted" THEN judged \cup {local[t].expected.text} ELSE judged
      <4>1. CASE candidate \notin {absent, local[t].expected} \/ verdict \notin {absent, d}
          BY <1>11, <2>4, <4>1 DEF EvaluatePair
      <4>2. CASE ~(candidate \notin {absent, local[t].expected} \/ verdict \notin {absent, d})
          BY <1>11, <4>2 DEF EvaluatePair
      <4> QED BY <4>1, <4>2
    <3>2. candidate # absent BY <1>3, <2>1 DEF InTheMiddle
    <3>3. candidate' = candidate /\ judged \subseteq judged'
          /\ (d = "accepted" => candidate'.text \in judged')
        BY <3>1, <3>2
    <3>4. RefinementGrows BY <2>1, <3>3 DEF RefinementGrows
    <3>5. CopiesAreTrue' BY <1>3, <2>1, <3>4, CopiesStay
    <3>6. \A u \in Threads : InTheMiddle(u)' BY <2>1, <2>2, <3>4, MiddleStays DEF RefinementKept, Moves
    <3>7. VerdictIsTrue' BY <1>3, <2>1, <3>1, <3>2, <3>3 DEF VerdictIsTrue
    <3> QED BY <3>5, <3>6, <3>7 DEF RefinementKept
  <2> QED BY <2>3, <2>4
<1>12. CASE Promote(t)
  <2>1. pc'[t] = "promote" /\ Moves(t) BY <1>1, <1>12, Starting DEF Promote
  <2>2. InTheMiddle(t)' BY <2>1 DEF InTheMiddle
  <2> QED BY <1>4, <1>12, <2>1, <2>2 DEF Promote
<1>13. CASE CheckPromotion(t)
  <2>1. UNCHANGED <<files, row, crossing, crossed>> /\ UNCHANGED refinement
      BY <1>13 DEF CheckPromotion, vault
  <2>2. CASE Proceed(t, "released", local[t])
    <3>1. pc'[t] = "released" /\ Moves(t) BY <1>1, <2>2, Proceeding
    <3>2. InTheMiddle(t)' BY <3>1 DEF InTheMiddle
    <3> QED BY <1>4, <2>1, <3>1, <3>2
  <2>3. CASE /\ Promotable(local[t].revision)
             /\ Proceed(t, "copy", [Nothing EXCEPT !.text = files[Candidate], !.before = files[Promoted]])
    <3> DEFINE r == [Nothing EXCEPT !.text = files[Candidate], !.before = files[Promoted]]
    <3>1. pc'[t] = "copy" /\ local'[t] = r /\ Moves(t) BY <1>1, <2>3, Proceeding
    <3>2. r.text = files[Candidate] /\ r.before = files[Promoted] BY DEF Nothing
    <3>3. files[Candidate] \in Texts
      <4>1. candidate \in Identities BY <1>1, <2>3 DEF Promotable, AuthoredTypes
      <4>2. files[Candidate] # absent BY <2>3, <4>1, AbsentIsNone DEF Promotable, Identities
      <4> QED BY <1>1, <4>2, Typed
    <3>4. files[Candidate] \in judged BY <1>3, <2>3 DEF Promotable, VerdictIsTrue
    <3>5. files[Candidate] \in crossed
      <4>1. crossing[Candidate] = [revision |-> local[t].revision, text |-> files[Candidate]]
          BY <2>3 DEF Promotable, Crossed
      <4>2. crossing[Candidate].text = files[Candidate] BY <4>1
      <4>3. crossing[Candidate] # absent
        <5>1. local[t].revision \in Nat
          <6>1. candidate \in Identities BY <1>1, <2>3 DEF Promotable, AuthoredTypes
          <6> QED BY <2>3, <6>1 DEF Promotable, Identities
        <5>2. crossing[Candidate] \in Identities BY <3>3, <4>1, <5>1 DEF Identities, Texts
        <5> QED BY <5>2, AbsentIsNone
      <4> QED BY <1>1, <1>3, <4>2, <4>3 DEF VerdictIsTrue
    <3>6. files[Promoted] # absent => Judged(files[Promoted]) BY <1>3 DEF CopiesAreTrue
    <3>7. Judged(files[Candidate]) BY <3>4, <3>5 DEF Judged
    <3>8. RefinementGrows BY <2>1 DEF RefinementGrows, refinement
    <3>9. \A x : x = files[Candidate] \/ (x = files[Promoted] /\ x # absent) => Judged(x)'
        BY <1>1, <3>3, <3>6, <3>7, <3>8, StillJudged, Typed
    <3>10. InTheMiddle(t)' BY <3>1, <3>2, <3>9 DEF InTheMiddle, Judged
    <3> QED BY <1>4, <2>1, <3>1, <3>10
  <2> QED BY <1>13, <2>2, <2>3 DEF CheckPromotion
<1>14. CASE CopyPromoted(t) \/ IdentifyPromoted(t)
  <2>1. /\ pc[t] \in {"copy", "identity"} /\ pc'[t] \in {"identity", "released"}
        /\ local'[t] = local[t] /\ Moves(t) /\ (pc'[t] = "identity" => pc[t] = "copy")
        /\ UNCHANGED <<candidate, verdict, judged, crossing, crossed>>
      BY <1>1, <1>14, Proceeding DEF CopyPromoted, IdentifyPromoted, On, refinement
  <2>2. RefinementGrows BY <2>1 DEF RefinementGrows
  <2>3. local[t].text \in Texts /\ local[t].before \in Texts \cup {absent} BY <2>1, RefinerHolds
  <2>4. \A x : x = local[t].text \/ (x = local[t].before /\ x # absent) => Judged(x)'
      BY <1>3, <2>1, <2>2, <2>3, StillJudged DEF InTheMiddle
  <2>5. files'[Promoted] \in {files[Promoted], local[t].text, local[t].before}
        /\ files'[Candidate] = files[Candidate] /\ row'[Candidate] = row[Candidate]
      BY <1>1, <1>14, Typed DEF CopyPromoted, IdentifyPromoted
  <2>6. CopiesAreTrue' BY <1>3, <2>2, <2>4, <2>5, CopiesStay
  <2>7. InTheMiddle(t)' BY <2>1, <2>4 DEF InTheMiddle, Judged
  <2> QED BY <2>1, <2>6, <2>7, Works DEF Working
<1> QED BY <1>2, <1>5, <1>6, <1>7, <1>8, <1>9, <1>10, <1>11, <1>12, <1>13, <1>14

LEMMA NextRefinement ==
  ASSUME Base, RefinementKept, AuthoringNext
  PROVE  RefinementKept'
<1>1. TextsStay BY TextsGrow DEF Base
<1>2. CASE Author \/ Tailor \/ GenerateNotes
    BY <1>1, <1>2, AuthorMoves, TailorMoves, GenerateMoves, RefinementIdles
<1>3. CASE Die
  <2>1. RefinementIdle
    BY <1>3 DEF Die, ProcessDies, RefinementIdle, RefinementPlaces, refinement
  <2> QED BY <1>1, <2>1, RefinementIdles
<1> QED BY <1>1, <1>2, <1>3, ApproveRefinement, EditRefinement, RefineRefinement DEF AuthoringNext

LEMMA KeptRefinementIsTrue ==
  ASSUME RefinementKept
  PROVE  RefinementIsTrue
BY DEF RefinementKept, CopiesAreTrue, Judged, Committed, RefinementIsTrue, PromotedWasAccepted,
   CandidateIsCommitted

-----------------------------------------------------------------------------
(* Where it starts, and what a stutter leaves; the theorems. *)

LEMMA InitBase ==
  ASSUME AuthoringInit
  PROVE  Base
<1>1. made \in Seq(Makings) /\ Texts = {1}
  <2>1. [by |-> "person", base |-> absent, template |-> absent, told |-> absent] \in Makings BY DEF Makings
  <2> QED BY <2>1 DEF AuthoringInit, Texts
<1>2. /\ \A n \in Notes : files[n] \in {1, absent} /\ row[n] \in {NewRow(1), absent}
      /\ DOMAIN files = Notes /\ DOMAIN row = Notes
    BY DEF AuthoringInit
<1>3. NewRow(1) \in Rows BY DEF NewRow, Rows
<1>4. files \in [Notes -> Texts \cup {absent}] BY <1>1 DEF AuthoringInit
<1>5. row \in [Notes -> Rows \cup {absent}] BY <1>3 DEF AuthoringInit
<1>6. /\ crossing \in [Notes -> Identities \cup {absent}] /\ lock \in [Notes -> Threads \cup {absent}]
      /\ DOMAIN pc = Threads /\ \A t \in Threads : pc[t] = "idle" /\ local[t] = Nothing
    BY DEF AuthoringInit
<1>7. local \in [Threads -> Hands] BY NothingIsAHand DEF AuthoringInit
<1>8. /\ template \in Pairs \cup {absent} /\ trow \in Bundles \cup {absent}
      /\ version \in Nat /\ promised \in WholePairs
    BY DEF AuthoringInit, InitTemplates, Packaged, WholePairs
<1>9. AuthoredTypes
    BY <1>1, <1>4, <1>5, <1>6, <1>7, <1>8 DEF AuthoringInit, InitRefinement, AuthoredTypes
<1>10. \A t \in Threads : InHands(t)
    BY <1>6 DEF InHands, EditorHas, LoaderHas, GeneratorHas, RefinerHas, Loads, WhileReplacing
<1>11. OneGenerator BY <1>6 DEF OneGenerator
<1> QED BY <1>9, <1>10, <1>11 DEF Base

LEMMA InitKept ==
  ASSUME AuthoringInit
  PROVE  TemplateThere /\ LocksAreHeld /\ NotesKept /\ TemplatesKept /\ RefinementKept
<1>1. \A t \in Threads : pc[t] = "idle" BY DEF AuthoringInit
<1>2. TemplateThere /\ LocksAreHeld BY <1>1 DEF TemplateThere, LocksAreHeld, HoldsLock
<1>3. NotesKept
  <2>1. SUFFICES ASSUME NEW n \in ToSet(Outputs) PROVE Kept(n) BY DEF NotesKept
  <2>2. n \in Notes /\ n # Source BY AuthoringAssumption DEF Notes
  <2>3. files[n] = absent /\ lock[n] = absent BY <2>2 DEF AuthoringInit
  <2>4. \A t \in Threads : ~Placing(t, n) BY <1>1 DEF Placing, Generating, On
  <2> QED BY <2>3, <2>4 DEF Kept, Sound
<1>4. TemplatesKept
  <2>1. Saving = {} BY <1>1 DEF Saving
  <2>2. LoadsAreTrue
      BY <1>1, <2>1 DEF AuthoringInit, LoadsAreTrue, ReadsAreTrue, Reading, LoadsAlone, PlansAreTrue,
         TellsAreTrue, ToldOK, Loads,
         Planning, WhileReplacing, LineageIsTrue, On
  <2>3. SavesAreTrue BY <1>1, <2>1 DEF AuthoringInit, InitTemplates, SavesAreTrue, On
  <2> QED BY <2>2, <2>3 DEF TemplatesKept
<1>5. RefinementKept
  <2>1. Candidate \in Notes /\ Promoted \in Notes /\ Candidate # Source /\ Promoted # Source
      BY AuthoringAssumption DEF Notes
  <2>2. files[Candidate] = absent /\ files[Promoted] = absent /\ row[Candidate] = absent
        /\ \A n \in Notes : crossing[n] = absent
      BY <2>1 DEF AuthoringInit
  <2>3. VerdictIsTrue
      BY <2>2, AuthoringAssumption DEF AuthoringInit, InitRefinement, VerdictIsTrue
  <2>4. CopiesAreTrue BY <2>2 DEF CopiesAreTrue
  <2>5. \A t \in Threads : InTheMiddle(t) BY <1>1 DEF InTheMiddle
  <2> QED BY <2>3, <2>4, <2>5 DEF RefinementKept
<1> QED BY <1>2, <1>3, <1>4, <1>5

LEMMA StutterKept ==
  ASSUME UNCHANGED authoringVars
  PROVE  /\ TemplateThere => TemplateThere'
         /\ LocksAreHeld => LocksAreHeld'
         /\ NotesKept => NotesKept'
         /\ TemplatesKept => TemplatesKept'
         /\ RefinementKept => RefinementKept'
<1>1. UNCHANGED <<role, files, row, crossing, seal, lock, made, crossed, crashed, disturbed,
                  template, trow, version, promised, raced, lineage, candidate, verdict, judged,
                  pc, local, calls>>
    BY DEF authoringVars, vault, registry, refinement
<1>2. (TemplateThere => TemplateThere') /\ (LocksAreHeld => LocksAreHeld')
    BY <1>1 DEF TemplateThere, LocksAreHeld, HoldsLock
<1>3. \A n : Kept(n) => Kept(n)'
    BY <1>1 DEF Kept, Placing, Placed, Generating, Current, HeldBy, Sound, Agrees, On
<1>4. NotesKept => NotesKept' BY <1>1, <1>3 DEF NotesKept
<1>5. TemplatesKept => TemplatesKept'
  <2>1. Saving' = Saving BY <1>1 DEF Saving
  <2>2. ReadsAreTrue => ReadsAreTrue' BY <1>1, <2>1 DEF ReadsAreTrue, Reading, On
  <2>3. LoadsAlone => LoadsAlone' BY <1>1, <2>1 DEF LoadsAlone, On
  <2>4. PlansAreTrue => PlansAreTrue' BY <1>1 DEF PlansAreTrue, PlanOK, SamePair, Follows
  <2>5. LineageIsTrue => LineageIsTrue' BY <1>1 DEF LineageIsTrue, Texts, Names, SamePair, Follows
  <2>6. SavesAreTrue => SavesAreTrue' BY <1>1, <2>1 DEF SavesAreTrue, On
  <2>7. TellsAreTrue => TellsAreTrue' BY <1>1, <2>1 DEF TellsAreTrue, ToldOK, Told, On
  <2> QED BY <1>1, <2>2, <2>3, <2>4, <2>5, <2>6, <2>7 DEF TemplatesKept, LoadsAreTrue
<1>6. RefinementKept => RefinementKept'
  <2>1. \A x : (Judged(x) => Judged(x)') /\ (Committed(x) => Committed(x)')
      BY <1>1 DEF Judged, Committed
  <2>2. VerdictIsTrue => VerdictIsTrue' BY <1>1 DEF VerdictIsTrue
  <2>3. CopiesAreTrue => CopiesAreTrue'
      BY <1>1 DEF CopiesAreTrue, Judged, Committed
  <2>4. \A t \in Threads : InTheMiddle(t) => InTheMiddle(t)'
      BY <1>1 DEF InTheMiddle, Judged, Committed
  <2> QED BY <2>2, <2>3, <2>4 DEF RefinementKept
<1> QED BY <1>2, <1>4, <1>5, <1>6

LEMMA AlwaysBase == AuthoringSpec => [](Base /\ TemplateThere)
<1>1. AuthoringInit => Base /\ TemplateThere BY InitBase, InitKept
<1>2. Base /\ TemplateThere /\ [AuthoringNext]_authoringVars => (Base /\ TemplateThere)'
    BY NextBase, NextTemplateThere, StutterBase, StutterKept
<1> QED BY <1>1, <1>2, PTL DEF AuthoringSpec

\* Nobody works on a note, a source or a candidate without its lock, and what
\* is in hand is what the step needs, whatever the people, batches and texts.
THEOREM AuthoringTypesAndLocks == AuthoringSpec => [](AuthoredTypes /\ LocksAreHeld)
<1>1. AuthoringInit => LocksAreHeld BY InitKept
<1>2. Base /\ TemplateThere /\ LocksAreHeld /\ [AuthoringNext]_authoringVars => LocksAreHeld'
    BY NextLocks, StutterKept
<1>3. Base => AuthoredTypes BY DEF Base
<1> QED BY <1>1, <1>2, <1>3, AlwaysBase, PTL DEF AuthoringSpec

\* Every note the generator writes that nobody has in hand is the text its row
\* names, with the lineage of exactly that text (smart_notes.py:220-470), unless
\* the process died or a person edited the note while it was being replaced.
THEOREM NotesAreAccountedFor == AuthoringSpec => []Accounted
<1>1. AuthoringInit => NotesKept BY InitKept
<1>2. Base /\ LocksAreHeld /\ NotesKept /\ [AuthoringNext]_authoringVars => NotesKept'
    BY NextNotesKept, StutterKept
<1>3. AuthoredTypes /\ NotesKept => Accounted BY KeptIsAccounted
<1> QED BY <1>1, <1>2, <1>3, AlwaysBase, AuthoringTypesAndLocks, PTL DEF AuthoringSpec

\* With one person saving templates at a time, and any number of generations
\* and loads: a save that returned is what the files hold, and a lineage row
\* names the template its note was rendered from (templates.py:113-130).
THEOREM SavedTemplatesAreUsed ==
  ASSUME OneTailor
  PROVE  AuthoringSpec => []TemplatesAreTrue
<1>1. AuthoringInit => TemplatesKept BY InitKept
<1>2. Base /\ TemplateThere /\ TemplatesKept /\ [AuthoringNext]_authoringVars => TemplatesKept'
    BY OneTailor, NextTemplates, StutterKept
<1>3. TemplatesKept => TemplatesAreTrue BY KeptTemplatesAreTrue
<1> QED BY <1>1, <1>2, <1>3, AlwaysBase, PTL DEF AuthoringSpec

\* A refined text is in 4_procesado only after the verifier accepted it and a
\* person approved the crossing, and a candidate's file and identity never get
\* ahead of its refinement row (notes.py:994-1080), across a crash.
THEOREM RefinedTextsWereAccepted == AuthoringSpec => []RefinementIsTrue
<1>1. AuthoringInit => RefinementKept BY InitKept
<1>2. Base /\ RefinementKept /\ [AuthoringNext]_authoringVars => RefinementKept'
    BY NextRefinement, StutterKept
<1>3. RefinementKept => RefinementIsTrue BY KeptRefinementIsTrue
<1> QED BY <1>1, <1>2, <1>3, AlwaysBase, PTL DEF AuthoringSpec
=============================================================================
