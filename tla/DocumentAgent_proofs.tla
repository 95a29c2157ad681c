----------------------- MODULE DocumentAgent_proofs -----------------------
(* The audit trail, the settled work and the repairs of DocumentAgent for any
   notes, handlers, conflicts and bounds. *)
EXTENDS DocumentAgent, SequenceTheorems, TLAPS

Holds(q, e) == \E i \in DOMAIN q : q[i] = e
Unique(q) == \A i, j \in DOMAIN q : Same(q[i], q[j]) => i = j

-----------------------------------------------------------------------------
(* The request in progress, by its position. *)

Promising == {"reload", "publish", "delivered", "undelivered"}
Auditing == {"audit", "heard", "unheard"}
Disagreeing == {"conflict", "published", "unpublished"}
Syncing == {"drain", "replay", "replayed", "compare", "repair", "mend", "unmended"}
Places == {"idle", "act"} \cup Promising \cup Auditing \cup Disagreeing \cup Syncing
Ops == Answering \cup Publishing
       \cup {"caudal_review_captured_update", "sync_run", "sync_conflict_resolve", "sync_pending", none}

Calls == [op : Ops, at : Places, note : Notes \cup {none}, sending : Entry \cup {none},
          items : Seq(Entry), catalog : [Notes -> Revisions] \cup {none},
          todo : SUBSET Notes, unread : SUBSET Notes]

Catalogued(c, n) == [revision |-> c.catalog[n], text |-> c.catalog[n]]

(* What a request sends where, and that an audited request has been counted. *)
Formed(c) ==
  /\ c \in Calls
  /\ c.at \in Promising => /\ c.note \in Notes /\ c.sending.version \in Version
                           /\ c.sending = Metadata(c.note, c.sending.version)
  /\ c.at \in Auditing => c.sending.of \in Event /\ c.sending = Audit(c.sending.of)
  /\ c.at \in Disagreeing => c.sending.of \in Conflicts /\ c.sending = Disagreement(c.sending.of)
  /\ c.at \in {"replay", "replayed"} => c.sending \in Entry /\ c.items # <<>>
  /\ c.at \in {"mend", "unmended"} =>
       c.sending.of \in Notes /\ c.sending = Metadata(c.sending.of, Catalogued(c, c.sending.of))
  /\ c.at \in Syncing => c.catalog \in [Notes -> Revisions]
  /\ c.at \notin Syncing => c.items = <<>>

Counted(c) ==
  c.at \in Promising \cup Auditing \cup Disagreeing \/ (c.at = "act" /\ c.op # "sync_pending")
    => calls > 0

-----------------------------------------------------------------------------
(* What is settled, queued and on its way. *)

(* A version is settled only after the vault had it. *)
SettledBefore == \A n \in Notes : settled[n] # none => settled[n].revision <= local[n]

(* An entry about a note that nobody has edited since it was settled is what was settled. *)
Agrees(e) ==
  e.kind = "note_metadata" /\ settled[e.of] = Current(e.of) => e.version = settled[e.of]

(* A version is no newer than the vault and no older than what was settled. *)
Between(n, v) ==
  /\ v.text <= v.revision /\ v.revision <= local[n]
  /\ settled[n] # none => settled[n].revision <= v.text

Delivered(e) ==
  /\ e.kind = "note_metadata" => Has(e.of, e.version)
  /\ e.kind = "audit_event" => e.of \in events

QueueAgrees == \A e \in Entry : Holds(outbox, e) \/ Holds(call.items, e) => Agrees(e)

(* A note the running comparison is done with is as the catalogue has it. *)
Healed(c) ==
  \A n \in Notes :
    c.catalog[n] > 0 /\ n \notin c.todo /\ n \notin c.unread /\ (c.at = "mend" => n # c.sending.of)
      => Has(n, Catalogued(c, n))

Honest(c) ==
  /\ c.at \in Promising => Between(c.note, c.sending.version)
  /\ c.at \in {"replay", "replayed"} => Agrees(c.sending)
  /\ c.at \in Syncing => \A n \in Notes : Between(n, Catalogued(c, n))
  /\ c.at \in {"delivered", "heard", "replayed"} => Delivered(c.sending)
  /\ c.at \in {"repair", "mend"} => Healed(c)

IInv ==
  /\ TypeOK /\ Formed(call) /\ Counted(call)
  /\ SettledBefore /\ QueueAgrees /\ Honest(call)
  /\ AuditKept /\ WorkKept

-----------------------------------------------------------------------------
(* The outbox: what Upsert and Without leave in it. *)

LEMMA EntryFacts ==
  ASSUME NEW e \in Entry
  PROVE  /\ e.kind \in {"note_metadata", "audit_event", "document_conflict"}
         /\ e.kind = "note_metadata" => e.of \in Notes /\ e.version \in Version /\ e = Metadata(e.of, e.version)
         /\ e.kind = "audit_event" => e.of \in Event /\ e = Audit(e.of)
         /\ e.kind = "document_conflict" => e.of \in Conflicts /\ e = Disagreement(e.of)
BY DEF Entry, Metadata, Audit, Disagreement

LEMMA MadeEntries ==
  /\ \A n \in Notes, v \in Version : Metadata(n, v) \in Entry
  /\ \A x \in Event : Audit(x) \in Entry
  /\ \A x \in Conflicts : Disagreement(x) \in Entry
BY DEF Entry, Metadata, Audit, Disagreement

LEMMA UpsertOutbox ==
  ASSUME NEW e \in Entry, outbox \in Seq(Entry), Unique(outbox)
  PROVE  /\ Upsert(e) \in Seq(Entry) /\ Unique(Upsert(e))
         /\ \A x : Holds(Upsert(e), x) <=> x = e \/ (Holds(outbox, x) /\ ~ Same(x, e))
<1>1. CASE \E i \in DOMAIN outbox : Same(outbox[i], e)
  <2>1. PICK k \in DOMAIN outbox : Same(outbox[k], e)
    BY <1>1
  <2> DEFINE q == [i \in DOMAIN outbox |-> IF Same(outbox[i], e) THEN e ELSE outbox[i]]
  <2>2. Upsert(e) = q
    BY <1>1 DEF Upsert
  <2>3. \A i \in DOMAIN outbox : outbox[i] \in Entry
    OBVIOUS
  <2>4. q \in Seq(Entry)
    <3>1. DOMAIN outbox = 1 .. Len(outbox) /\ Len(outbox) \in Nat
      OBVIOUS
    <3>2. q \in [1 .. Len(outbox) -> Entry]
      BY <2>3, <3>1
    <3> QED BY <3>1, <3>2, IsASeq
  <2>5. DOMAIN q = DOMAIN outbox
    OBVIOUS
  <2>6. \A i \in DOMAIN q : Same(q[i], outbox[i])
    BY DEF Same
  <2>7. Unique(q)
    BY <2>5, <2>6 DEF Unique, Same
  <2>8. q[k] = e
    BY <2>1
  <2>9. \A i \in DOMAIN outbox : i # k => q[i] = outbox[i] /\ ~ Same(outbox[i], e)
    BY <2>1 DEF Unique, Same
  <2>10. \A x : Holds(q, x) <=> x = e \/ (Holds(outbox, x) /\ ~ Same(x, e))
    <3> HIDE DEF q
    <3> QED BY <2>1, <2>5, <2>8, <2>9 DEF Holds
  <2> QED BY <2>2, <2>4, <2>7, <2>10
<1>2. CASE ~ \E i \in DOMAIN outbox : Same(outbox[i], e)
  <2>1. Upsert(e) = Append(outbox, e)
    BY <1>2 DEF Upsert
  <2> DEFINE q == Append(outbox, e)
  <2>2. /\ q \in Seq(Entry) /\ Len(q) = Len(outbox) + 1
        /\ \A i \in 1 .. Len(outbox) : q[i] = outbox[i]
        /\ q[Len(outbox) + 1] = e
    BY AppendProperties
  <2> HIDE DEF q
  <2>3. /\ DOMAIN outbox = 1 .. Len(outbox) /\ Len(outbox) \in Nat
        /\ DOMAIN q = 1 .. Len(outbox) + 1
    BY <2>2
  <2>4. \A i \in DOMAIN q : i \in DOMAIN outbox \/ i = Len(outbox) + 1
    BY <2>3
  <2>5. Len(outbox) + 1 \in DOMAIN q
    BY <2>3
  <2>6. DOMAIN outbox \subseteq DOMAIN q
    BY <2>3
  <2>7. Unique(q)
    BY <1>2, <2>2, <2>3, <2>4 DEF Unique, Same
  <2>8. \A i \in DOMAIN outbox : q[i] = outbox[i] /\ ~ Same(outbox[i], e)
    BY <1>2, <2>2, <2>3
  <2>9. \A x : Holds(q, x) <=> x = e \/ (Holds(outbox, x) /\ ~ Same(x, e))
    BY <2>2, <2>4, <2>5, <2>6, <2>8 DEF Holds
  <2> QED BY <2>1, <2>2, <2>7, <2>9 DEF q
<1> QED BY <1>1, <1>2

(* RemoveAt of the community modules drops one position and closes the gap. *)
LEMMA RemoveAtProperties ==
  ASSUME NEW S, NEW seq \in Seq(S), NEW k \in 1 .. Len(seq)
  PROVE  /\ RemoveAt(seq, k) \in Seq(S) /\ Len(RemoveAt(seq, k)) = Len(seq) - 1
         /\ \A i \in 1 .. Len(seq) - 1 :
              RemoveAt(seq, k)[i] = IF i < k THEN seq[i] ELSE seq[i + 1]
<1>1. PICK m \in Nat : m = Len(seq)
  OBVIOUS
<1>2. \A i \in 1 .. m : seq[i] \in S
  BY <1>1
<1>3. k \in Nat /\ 1 <= k /\ k <= m
  BY <1>1
<1> DEFINE s == SubSeq(seq, 1, k - 1)
           t == SubSeq(seq, k + 1, Len(seq))
           q == s \o t
<1>4. /\ s \in Seq(S) /\ Len(s) = k - 1
      /\ \A i \in 1 .. k - 1 : s[i] = seq[i]
  <2>1. \A i \in 1 .. k - 1 : seq[i] \in S
    BY <1>2, <1>3
  <2>2. /\ s \in Seq(S) /\ Len(s) = IF 1 <= k - 1 THEN (k - 1) - 1 + 1 ELSE 0
        /\ \A i \in 1 .. (k - 1) - 1 + 1 : s[i] = seq[1 + i - 1]
    BY <1>3, <2>1, SubSeqProperties
  <2> HIDE DEF s
  <2>3. Len(s) = k - 1
    BY <1>3, <2>2
  <2>4. \A i \in 1 .. k - 1 : i \in 1 .. (k - 1) - 1 + 1 /\ 1 + i - 1 = i
    BY <1>3
  <2> QED BY <2>2, <2>3, <2>4
<1>5. /\ t \in Seq(S) /\ Len(t) = m - k
      /\ \A i \in 1 .. m - k : t[i] = seq[k + i]
  <2>1. \A i \in k + 1 .. m : seq[i] \in S
    BY <1>2, <1>3
  <2>2. /\ t \in Seq(S) /\ Len(t) = IF k + 1 <= m THEN m - (k + 1) + 1 ELSE 0
        /\ \A i \in 1 .. m - (k + 1) + 1 : t[i] = seq[k + 1 + i - 1]
    BY <1>1, <1>3, <2>1, SubSeqProperties
  <2> HIDE DEF s, t, q
  <2>3. Len(t) = IF k + 1 <= m THEN m - (k + 1) + 1 ELSE 0
    BY <2>2
  <2>4. Len(t) = m - k
    BY <1>3, <2>3
  <2>5. \A i \in 1 .. m - k : i \in 1 .. m - (k + 1) + 1 /\ k + 1 + i - 1 = k + i
    BY <1>3
  <2> QED BY <2>2, <2>4, <2>5
<1>6. q = RemoveAt(seq, k)
  BY DEF RemoveAt
<1> HIDE DEF s, t
<1>7. /\ q \in Seq(S) /\ Len(q) = Len(s) + Len(t)
      /\ \A i \in 1 .. Len(s) + Len(t) : q[i] = IF i <= Len(s) THEN s[i] ELSE t[i - Len(s)]
  BY <1>4, <1>5, ConcatProperties
<1> HIDE DEF q
<1>8. Len(s) + Len(t) = m - 1
  BY <1>3, <1>4, <1>5
<1>9. ASSUME NEW i \in 1 .. m - 1
      PROVE  q[i] = IF i < k THEN seq[i] ELSE seq[i + 1]
  <2>1. q[i] = IF i <= k - 1 THEN s[i] ELSE t[i - (k - 1)]
    BY <1>4, <1>7, <1>8
  <2>2. CASE i < k
    <3>1. i \in 1 .. k - 1 /\ i <= k - 1
      BY <1>3, <2>2
    <3> QED BY <1>4, <2>1, <2>2, <3>1
  <2>3. CASE ~ (i < k)
    <3>1. ~ (i <= k - 1) /\ i - (k - 1) \in 1 .. m - k /\ k + (i - (k - 1)) = i + 1
      BY <1>3, <2>3
    <3>2. t[i - (k - 1)] = seq[k + (i - (k - 1))]
      BY <1>5, <3>1
    <3> QED BY <2>1, <2>3, <3>1, <3>2
  <2> QED BY <2>2, <2>3
<1> QED BY <1>1, <1>6, <1>7, <1>8, <1>9

LEMMA WithoutOutbox ==
  ASSUME NEW e \in Entry, outbox \in Seq(Entry), Unique(outbox)
  PROVE  /\ Without(e) \in Seq(Entry) /\ Unique(Without(e))
         /\ \A x : Holds(Without(e), x) <=> Holds(outbox, x) /\ ~ Same(x, e)
<1>0. DOMAIN outbox = 1 .. Len(outbox) /\ Len(outbox) \in Nat
  OBVIOUS
<1>1. CASE \E i \in 1 .. Len(outbox) : Same(outbox[i], e)
  <2>1. PICK k \in 1 .. Len(outbox) : Same(outbox[k], e)
    BY <1>1
  <2>2. \A i \in 1 .. Len(outbox) : i # k => ~ Same(outbox[i], e)
    BY <1>0, <2>1 DEF Unique, Same
  <2>3. {i \in 1 .. Len(outbox) : Same(outbox[i], e)} = {k}
    BY <2>1, <2>2
  <2>4. Min({k}) = k
    BY DEF Min
  <2>5. Without(e) = RemoveAt(outbox, k)
    BY <1>1, <2>3, <2>4 DEF Without, RemoveFirstMatch, SelectInSeq
  <2> DEFINE q == RemoveAt(outbox, k)
  <2>8. /\ q \in Seq(Entry) /\ Len(q) = Len(outbox) - 1
        /\ \A i \in 1 .. Len(outbox) - 1 : q[i] = IF i < k THEN outbox[i] ELSE outbox[i + 1]
    BY RemoveAtProperties
  <2> HIDE DEF q
  <2>9. DOMAIN q = 1 .. Len(outbox) - 1
    BY <1>0, <2>8
  <2>10. \A i \in DOMAIN q : \E j \in 1 .. Len(outbox) :
           j # k /\ q[i] = outbox[j] /\ j = IF i < k THEN i ELSE i + 1
    BY <1>0, <2>8, <2>9
  <2>11. \A j \in 1 .. Len(outbox) : j # k => \E i \in DOMAIN q : q[i] = outbox[j]
    <3> SUFFICES ASSUME NEW j \in 1 .. Len(outbox), j # k
                 PROVE  \E i \in DOMAIN q : q[i] = outbox[j]
      OBVIOUS
    <3>1. CASE j < k
      <4>1. j \in DOMAIN q /\ q[j] = outbox[j]
        BY <1>0, <2>8, <2>9, <3>1
      <4> QED BY <4>1
    <3>2. CASE j > k
      <4>1. j - 1 \in DOMAIN q /\ q[j - 1] = outbox[j]
        BY <1>0, <2>8, <2>9, <3>2
      <4> QED BY <4>1
    <3> QED BY <1>0, <3>1, <3>2
  <2>12. Unique(q)
    <3> SUFFICES ASSUME NEW i \in DOMAIN q, NEW j \in DOMAIN q, Same(q[i], q[j])
                 PROVE  i = j
      BY DEF Unique
    <3>1. PICK x \in 1 .. Len(outbox) : q[i] = outbox[x] /\ x = IF i < k THEN i ELSE i + 1
      BY <2>10
    <3>2. PICK y \in 1 .. Len(outbox) : q[j] = outbox[y] /\ y = IF j < k THEN j ELSE j + 1
      BY <2>10
    <3>3. x = y
      BY <1>0, <3>1, <3>2 DEF Unique
    <3> QED BY <1>0, <2>9, <3>1, <3>2, <3>3
  <2>13. \A x : Holds(q, x) <=> Holds(outbox, x) /\ ~ Same(x, e)
    <3> TAKE x
    <3>1. ASSUME Holds(q, x) PROVE Holds(outbox, x) /\ ~ Same(x, e)
      <4>1. PICK i \in DOMAIN q : q[i] = x
        BY <3>1 DEF Holds
      <4>2. PICK j \in 1 .. Len(outbox) : j # k /\ x = outbox[j]
        BY <2>10, <4>1
      <4> QED BY <1>0, <2>2, <4>2 DEF Holds
    <3>2. ASSUME Holds(outbox, x), ~ Same(x, e) PROVE Holds(q, x)
      <4>1. PICK j \in 1 .. Len(outbox) : outbox[j] = x
        BY <1>0, <3>2 DEF Holds
      <4>2. j # k
        BY <2>1, <3>2, <4>1
      <4> QED BY <2>11, <4>1, <4>2 DEF Holds
    <3> QED BY <3>1, <3>2
  <2> QED BY <2>5, <2>8, <2>12, <2>13 DEF q
<1>2. CASE ~ \E i \in 1 .. Len(outbox) : Same(outbox[i], e)
  <2>1. Without(e) = outbox
    BY <1>2 DEF Without, RemoveFirstMatch
  <2> QED BY <1>0, <1>2, <2>1 DEF Holds, Same
<1> QED BY <1>1, <1>2

-----------------------------------------------------------------------------
(* The shape of the next call. *)

(* d is c with e sent from position p. *)
Sent(d, c, e, p) ==
  /\ d \in Calls /\ d.sending = e /\ d.at = p
  /\ d.op = c.op /\ d.note = c.note /\ d.items = c.items
  /\ d.catalog = c.catalog /\ d.todo = c.todo /\ d.unread = c.unread

LEMMA SendSent ==
  ASSUME NEW c \in Calls, NEW e \in Entry, NEW p \in Places
  PROVE  Sent([c EXCEPT !.sending = e, !.at = p], c, e, p)
<1> DEFINE d == [c EXCEPT !.sending = e, !.at = p]
<1>1. d \in Calls
  BY ZenonT(30) DEF Calls
<1>2. /\ d.sending = e /\ d.at = p /\ d.op = c.op /\ d.note = c.note /\ d.items = c.items
      /\ d.catalog = c.catalog /\ d.todo = c.todo /\ d.unread = c.unread
  BY DEF Calls
<1> QED BY <1>1, <1>2 DEF Sent

LEMMA GotoSent ==
  ASSUME NEW c \in Calls, NEW p \in Places
  PROVE  Sent([c EXCEPT !.at = p], c, c.sending, p)
<1> DEFINE d == [c EXCEPT !.at = p]
<1>1. d \in Calls
  BY ZenonT(30) DEF Calls
<1>2. /\ d.sending = c.sending /\ d.at = p /\ d.op = c.op /\ d.note = c.note /\ d.items = c.items
      /\ d.catalog = c.catalog /\ d.todo = c.todo /\ d.unread = c.unread
  BY DEF Calls
<1> QED BY <1>1, <1>2 DEF Sent

LEMMA PromisingFormed ==
  ASSUME NEW d, NEW c, NEW v \in Version, NEW p \in Promising, c.note \in Notes, c.items = <<>>,
         Sent(d, c, Metadata(c.note, v), p)
  PROVE  Formed(d)
BY DEF Formed, Sent, Promising, Auditing, Disagreeing, Syncing, Metadata

LEMMA AuditingFormed ==
  ASSUME NEW d, NEW c, NEW x \in Event, NEW p \in Auditing, c.items = <<>>, Sent(d, c, Audit(x), p)
  PROVE  Formed(d)
BY DEF Formed, Sent, Promising, Auditing, Disagreeing, Syncing, Audit

LEMMA DisagreeingFormed ==
  ASSUME NEW d, NEW c, NEW x \in Conflicts, NEW p \in Disagreeing, c.items = <<>>,
         Sent(d, c, Disagreement(x), p)
  PROVE  Formed(d)
BY DEF Formed, Sent, Promising, Auditing, Disagreeing, Syncing, Disagreement

LEMMA IdleFormed ==
  Formed(Idle) /\ Idle.at = "idle" /\ Idle.items = <<>> /\ Idle.op = none
BY DEF Formed, Idle, Calls, Ops, Places, Promising, Auditing, Disagreeing, Syncing

(* What IInv says of the request, for the steps below. *)
LEMMA CallFacts ==
  ASSUME IInv
  PROVE  /\ call \in Calls /\ call.at \in Places /\ call.items \in Seq(Entry)
         /\ call.todo \subseteq Notes /\ call.unread \subseteq Notes
         /\ outbox \in Seq(Entry) /\ Unique(outbox)
         /\ \A e : Holds(outbox, e) \/ Holds(call.items, e) => e \in Entry
         /\ calls > 0 => \A k \in {"sync_conflict_detect", "done"} : <<calls, k>> \in Event
<1>1. call \in Calls
  BY DEF IInv, Formed
<1>2. /\ call.at \in Places /\ call.items \in Seq(Entry)
      /\ call.todo \subseteq Notes /\ call.unread \subseteq Notes
  BY <1>1 DEF Calls
<1>3. outbox \in Seq(Entry) /\ Unique(outbox)
  BY DEF IInv, TypeOK, Unique
<1>4. \A e : Holds(outbox, e) \/ Holds(call.items, e) => e \in Entry
  BY <1>2, <1>3 DEF Holds
<1>5. calls > 0 => \A k \in {"sync_conflict_detect", "done"} : <<calls, k>> \in Event
  <2>1. calls > 0 => calls \in 1 .. MaxCalls
    BY AgentAssumption DEF IInv, TypeOK
  <2> QED BY <2>1 DEF Event
<1> QED BY <1>1, <1>2, <1>3, <1>4, <1>5

LEMMA BetweenAgrees ==
  ASSUME TypeOK, NEW n \in Notes, NEW v \in Version, Between(n, v)
  PROVE  Agrees(Metadata(n, v))
<1> SUFFICES ASSUME settled[n] = Current(n) PROVE v = Current(n)
  BY DEF Agrees, Metadata
<1>1. local[n] \in Nat /\ v.text \in Nat /\ v.revision \in Nat
  BY AgentAssumption DEF TypeOK, Version, Revisions
<1>2. settled[n] # none
  <2>1. Current(n) \in [revision : Nat, text : Nat]
    BY <1>1 DEF Current
  <2> QED BY <2>1, AgentAssumption
<1>3. local[n] <= v.text /\ v.text <= v.revision /\ v.revision <= local[n]
  BY <1>2 DEF Between, Current
<1>4. v.text = local[n] /\ v.revision = local[n]
  BY <1>1, <1>3
<1>5. v = [revision |-> v.revision, text |-> v.text]
  BY DEF Version
<1> QED BY <1>4, <1>5 DEF Current

(* A step of the request alone: nothing that is kept changes. *)
LEMMA RequestMoves ==
  ASSUME IInv, UNCHANGED <<local, cloud, turns, dropped, outbox, events, conflicts, recorded, settled>>,
         calls' \in 0 .. MaxCalls, routes' \subseteq Conflicts,
         Formed(call)', Counted(call)', Honest(call)',
         \A e \in Entry : Holds(call'.items, e) => Holds(outbox, e) \/ Holds(call.items, e)
  PROVE  IInv'
<1>1. TypeOK'
  BY DEF IInv, TypeOK
<1>2. SettledBefore'
  BY DEF IInv, SettledBefore
<1>3. QueueAgrees'
  <2>1. \A e \in Entry : Agrees(e)' <=> Agrees(e)
    BY DEF Agrees, Current
  <2> QED BY <2>1 DEF IInv, QueueAgrees, Holds
<1>4. AuditKept' /\ WorkKept'
  BY DEF IInv, AuditKept, WorkKept, Queued, Current, Has
<1> QED BY <1>1, <1>2, <1>3, <1>4 DEF IInv

-----------------------------------------------------------------------------
(* The steps that only move the request on. *)

(* A request that is over, or in the middle of which nothing is under way. *)
LEMMA Finishing ==
  ASSUME IInv, call' = Idle, UNCHANGED <<local, cloud, turns, dropped, outbox, events, conflicts, recorded, settled>>,
         calls' = calls, routes' = routes
  PROVE  IInv'
<1>1. Formed(call)' /\ call'.at = "idle" /\ call'.items = <<>>
  BY IdleFormed DEF Formed, Catalogued
<1>2. Counted(call)' /\ Honest(call)'
  BY <1>1 DEF Counted, Honest, Promising, Auditing, Disagreeing, Syncing
<1>3. calls' \in 0 .. MaxCalls /\ routes' \subseteq Conflicts
  BY DEF IInv, TypeOK
<1> QED BY <1>1, <1>2, <1>3, RequestMoves DEF Holds

LEMMA RequestStep ==
  ASSUME IInv, NEW op, NEW n, Request(op, n),
         op \in Ops \ {"sync_pending"}, n \in Notes \cup {none}
  PROVE  IInv'
<1>1. call' \in Calls /\ call'.at = "act" /\ call'.items = <<>> /\ call'.op = op
  <2>1. Idle \in Calls
    BY IdleFormed DEF Formed
  <2> DEFINE c == [Idle EXCEPT !.op = op, !.at = "act", !.note = n]
  <2>2. c \in Calls
    <3>1. op \in Ops /\ "act" \in Places
      BY DEF Places
    <3> QED BY <2>1, <3>1, ZenonT(30) DEF Calls
  <2>3. c.at = "act" /\ c.items = <<>> /\ c.op = op
    BY DEF Idle
  <2>4. call' = c
    BY DEF Request
  <2> QED BY <2>2, <2>3, <2>4
<1>2. calls' \in 0 .. MaxCalls /\ calls' > 0
  BY AgentAssumption DEF Request, IInv, TypeOK
<1>3. Formed(call)'
  BY <1>1 DEF Formed, Promising, Auditing, Disagreeing, Syncing
<1>4. Counted(call)' /\ Honest(call)'
  BY <1>1, <1>2 DEF Counted, Honest, Promising, Auditing, Disagreeing, Syncing
<1>5. routes' \subseteq Conflicts
  BY DEF Request, Vault, IInv, TypeOK
<1>6. UNCHANGED <<local, cloud, turns, dropped, outbox, events, conflicts, recorded, settled>>
  BY DEF Request, Vault, Remote, Known
<1> QED BY <1>1, <1>2, <1>3, <1>4, <1>5, <1>6, RequestMoves DEF Holds

LEMMA NamedHandlers ==
  /\ Answering \cup Publishing \subseteq Ops \ {"sync_pending"}
  /\ {"sync_run", "sync_conflict_resolve"} \subseteq Ops \ {"sync_pending"}
BY HandlersAssumption
   DEF Ops, AnswerCalls, PublishCalls, Rewrites, Creates, TaxonomyCalls, QuarantineCalls, FlowCalls,
       ReviewCalls, TemplateCalls, Organisation, NoteReads

LEMMA SyncPendingStep ==
  ASSUME IInv, SyncPending
  PROVE  IInv'
<1>1. call' \in Calls /\ call'.at = "act" /\ call'.items = <<>> /\ call'.op = "sync_pending"
  <2>1. Idle \in Calls
    BY IdleFormed DEF Formed
  <2> DEFINE c == [Idle EXCEPT !.op = "sync_pending", !.at = "act"]
  <2>2. c \in Calls
    <3>1. "sync_pending" \in Ops /\ "act" \in Places
      BY DEF Places, Ops
    <3> QED BY <2>1, <3>1, ZenonT(30) DEF Calls
  <2>3. c.at = "act" /\ c.items = <<>> /\ c.op = "sync_pending"
    BY DEF Idle
  <2>4. call' = c
    BY DEF SyncPending
  <2> QED BY <2>2, <2>3, <2>4
<1>2. Formed(call)'
  BY <1>1 DEF Formed, Promising, Auditing, Disagreeing, Syncing
<1>3. Counted(call)' /\ Honest(call)'
  BY <1>1 DEF Counted, Honest, Promising, Auditing, Disagreeing, Syncing
<1>4. /\ UNCHANGED <<local, cloud, turns, dropped, outbox, events, conflicts, recorded, settled>>
      /\ calls' \in 0 .. MaxCalls /\ routes' \subseteq Conflicts
  BY DEF SyncPending, Vault, Remote, Known, IInv, TypeOK
<1> QED BY <1>1, <1>2, <1>3, <1>4, RequestMoves DEF Holds

(* An audit is all that is left to do. *)
LEMMA AuditNext ==
  ASSUME IInv, NEW k \in {"sync_conflict_detect", "done"}, Audited(k), calls > 0, calls' = calls,
         call.items = <<>>
  PROVE  /\ Formed(call)' /\ Counted(call)' /\ Honest(call)' /\ call'.items = <<>>
         /\ call'.at = "audit"
<1>1. <<calls, k>> \in Event
  BY CallFacts
<1>2. Sent(call', call, Audit(<<calls, k>>), "audit")
  BY <1>1, CallFacts, MadeEntries, SendSent DEF Audited, Send, Places, Auditing
<1>3. Formed(call')
  BY <1>1, <1>2, AuditingFormed DEF Auditing
<1>4. call'.at = "audit" /\ call'.items = <<>>
  BY <1>2 DEF Sent
<1>5. Counted(call)' /\ Honest(call)'
  BY <1>4 DEF Counted, Honest, Promising, Auditing, Disagreeing, Syncing
<1>6. Formed(call)'
  BY <1>3 DEF Formed, Catalogued
<1> QED BY <1>4, <1>5, <1>6

LEMMA AnswerStep ==
  ASSUME IInv, At("act"), call.op # "sync_pending", Audited("done"),
         UNCHANGED <<local, routes, cloud, turns, dropped, events, conflicts, outbox, calls>>, Known
  PROVE  IInv'
<1>1. calls > 0 /\ call.items = <<>>
  BY DEF At, IInv, Counted, Formed, Syncing
<1>2. Formed(call)' /\ Counted(call)' /\ Honest(call)' /\ call'.items = <<>>
  BY <1>1, AuditNext
<1>3. calls' \in 0 .. MaxCalls /\ routes' \subseteq Conflicts
  BY DEF IInv, TypeOK
<1> QED BY <1>2, <1>3, RequestMoves DEF Known, Holds

(* The metadata of the request's note is what is sent next. *)
LEMMA PromiseNext ==
  ASSUME IInv, NEW n \in Notes, call.note = n, NEW v \in Version, NEW p \in Promising \ {"delivered"},
         call.items = <<>>, Send(Metadata(n, v), p), calls > 0, calls' = calls, Between(n, v)'
  PROVE  /\ Formed(call)' /\ Counted(call)' /\ Honest(call)' /\ call'.items = <<>>
<1>1. Sent(call', call, Metadata(n, v), p)
  <2>1. call \in Calls /\ p \in Places /\ Metadata(n, v) \in Entry
    BY CallFacts, MadeEntries DEF Places
  <2> QED BY <2>1, SendSent DEF Send
<1>2. Formed(call')
  BY <1>1, PromisingFormed
<1>3. /\ call'.at = p /\ call'.items = <<>> /\ call'.note = n
      /\ call'.sending.version = v
  BY <1>1 DEF Sent, Metadata
<1>4. Counted(call)'
  BY <1>3 DEF Counted
<1>5. Honest(call)'
  BY <1>3 DEF Honest, Promising, Syncing
<1>6. Formed(call)'
  BY <1>2 DEF Formed, Catalogued
<1> QED BY <1>3, <1>4, <1>5, <1>6

LEMMA CurrentVersion ==
  ASSUME IInv, NEW n \in Notes
  PROVE  Current(n) \in Version /\ Between(n, Current(n)) /\ local[n] \in Nat
BY AgentAssumption DEF IInv, TypeOK, Current, Version, Revisions, Between, SettledBefore

LEMMA ShareNoteStep ==
  ASSUME IInv, NEW n \in Notes, ShareNote(n)
  PROVE  IInv'
<1>1. call.note = n /\ calls > 0 /\ call.items = <<>> /\ calls' = calls
  BY DEF ShareNote, At, IInv, Counted, Formed, Syncing
<1>2. Between(n, Current(n))'
  BY CurrentVersion DEF ShareNote, Vault, Known, Between, Current
<1>3. UNCHANGED <<local, cloud, turns, dropped, outbox, events, conflicts, recorded, settled>>
  BY DEF ShareNote, Vault, Remote, Known
<1>4. Current(n) \in Version /\ Send(Metadata(n, Current(n)), "reload")
  BY CurrentVersion DEF ShareNote
<1>5. Between(n, Current(n))' <=> Between(n, Current(n))
  BY <1>3 DEF Between, Current
<1>6. Formed(call)' /\ Counted(call)' /\ Honest(call)' /\ call'.items = <<>>
  <2>1. PICK v \in Version : v = Current(n)
    BY <1>4
  <2>2. Between(n, v)'
    BY <1>3, <2>1, CurrentVersion DEF Between
  <2> QED BY <1>1, <1>4, <2>1, <2>2, PromiseNext DEF Promising
<1>7. calls' \in 0 .. MaxCalls /\ routes' \subseteq Conflicts
  BY DEF ShareNote, Vault, IInv, TypeOK
<1> QED BY <1>3, <1>6, <1>7, RequestMoves DEF Holds

LEMMA MoveNoteToThemeStep ==
  ASSUME IInv, NEW n \in Notes, MoveNoteToTheme(n)
  PROVE  IInv'
<1>1. call.note = n /\ calls > 0 /\ call.items = <<>> /\ calls' = calls
  BY DEF MoveNoteToTheme, At, IInv, Counted, Formed, Syncing, Promising
<1>2. UNCHANGED <<local, cloud, turns, dropped, outbox, events, conflicts, recorded, settled>>
  BY DEF MoveNoteToTheme, Vault, Remote, Known
<1>3. Current(n) \in Version /\ Send(Metadata(n, Current(n)), "publish")
  BY CurrentVersion DEF MoveNoteToTheme
<1>4. Formed(call)' /\ Counted(call)' /\ Honest(call)' /\ call'.items = <<>>
  <2>1. PICK v \in Version : v = Current(n)
    BY <1>3
  <2>2. Between(n, v)'
    BY <1>2, <2>1, CurrentVersion DEF Between
  <2> QED BY <1>1, <1>3, <2>1, <2>2, PromiseNext DEF Promising
<1>5. calls' \in 0 .. MaxCalls /\ routes' \subseteq Conflicts
  BY DEF MoveNoteToTheme, Vault, IInv, TypeOK
<1> QED BY <1>2, <1>4, <1>5, RequestMoves DEF Holds

LEMMA PublishShareStep ==
  ASSUME IInv, NEW n \in Notes, PublishShare(n)
  PROVE  IInv'
<1>1. call.note = n /\ calls > 0 /\ call.items = <<>> /\ calls' = calls
  BY DEF PublishShare, At, IInv, Counted, Formed, Syncing, Promising
<1>2. UNCHANGED <<local, cloud, turns, dropped, outbox, events, conflicts, recorded, settled>>
  BY DEF PublishShare, Vault, Remote, Known
<1>3. call.sending.version \in Version /\ Between(n, call.sending.version)
  BY <1>1 DEF PublishShare, At, IInv, Formed, Honest, Promising
<1>4. Formed(call)' /\ Counted(call)' /\ Honest(call)' /\ call'.items = <<>>
  <2>1. PICK w \in Version : w = call.sending.version
    BY <1>3
  <2> DEFINE u == [w EXCEPT !.revision = local[n]]
  <2>2. u \in Version /\ u.revision = local[n] /\ u.text = w.text
    BY DEF Version, IInv, TypeOK
  <2>3. Send(Metadata(n, u), "publish")
    BY <2>1 DEF PublishShare
  <2> HIDE DEF u
  <2>4. PICK v \in Version : v = u
    BY <2>2
  <2>5. Between(n, v)
    <3>1. local[n] \in Nat /\ w.text \in Nat /\ w.revision \in Nat
      BY AgentAssumption DEF IInv, TypeOK, Version, Revisions
    <3> QED BY <1>3, <2>1, <2>2, <2>4, <3>1 DEF Between
  <2>6. Between(n, v)'
    BY <1>2, <2>5 DEF Between
  <2> QED BY <1>1, <2>3, <2>4, <2>6, PromiseNext DEF Promising
<1>5. calls' \in 0 .. MaxCalls /\ routes' \subseteq Conflicts
  BY DEF PublishShare, Vault, IInv, TypeOK
<1> QED BY <1>2, <1>4, <1>5, RequestMoves DEF Holds

LEMMA ApproveProcessedNoteStep ==
  ASSUME IInv, NEW n \in Notes, ApproveProcessedNote(n)
  PROVE  IInv'
<1>1. call.note = n /\ calls > 0 /\ call.items = <<>> /\ calls' = calls
  BY DEF ApproveProcessedNote, At, IInv, Counted, Formed, Syncing, Promising
<1>2. UNCHANGED <<local, cloud, turns, dropped, outbox, events, conflicts, recorded, settled>>
  BY DEF ApproveProcessedNote, Vault, Remote, Known
<1>3. /\ call.sending = Metadata(n, call.sending.version) /\ call.sending.version \in Version
      /\ Between(n, call.sending.version)
  BY <1>1 DEF ApproveProcessedNote, At, IInv, Formed, Honest, Promising
<1>4. Sent(call', call, Metadata(n, call.sending.version), "publish")
  BY <1>3, CallFacts, GotoSent DEF ApproveProcessedNote, Goto, Places, Promising
<1>5. Formed(call')
  BY <1>1, <1>3, <1>4, PromisingFormed DEF Promising
<1>6. /\ call'.at = "publish" /\ call'.items = <<>> /\ call'.note = n
      /\ call'.sending.version = call.sending.version
  BY <1>1, <1>3, <1>4 DEF Sent
<1>7. Counted(call)' /\ Honest(call)'
  BY <1>1, <1>2, <1>3, <1>6 DEF Counted, Honest, Promising, Syncing, Between
<1>8. Formed(call)'
  BY <1>5 DEF Formed, Catalogued
<1>9. calls' \in 0 .. MaxCalls /\ routes' \subseteq Conflicts
  BY DEF ApproveProcessedNote, Vault, IInv, TypeOK
<1> QED BY <1>2, <1>6, <1>7, <1>8, <1>9, RequestMoves DEF Holds

LEMMA RunSyncStep ==
  ASSUME IInv, NEW c \in Conflicts, RunSync(c)
  PROVE  IInv'
<1>1. calls > 0 /\ call.items = <<>> /\ calls' = calls
  BY DEF RunSync, At, IInv, Counted, Formed, Syncing
<1>2. UNCHANGED <<local, cloud, turns, dropped, outbox, events, conflicts, recorded, settled>>
  BY DEF RunSync, Remote, Known
<1>3. Sent(call', call, Disagreement(c), "conflict")
  <2>1. call \in Calls /\ "conflict" \in Places /\ Disagreement(c) \in Entry
    BY CallFacts, MadeEntries DEF Places, Disagreeing
  <2> QED BY <2>1, SendSent DEF RunSync, Send
<1>4. Formed(call')
  BY <1>1, <1>3, DisagreeingFormed DEF Disagreeing
<1>5. call'.at = "conflict" /\ call'.items = <<>>
  BY <1>1, <1>3 DEF Sent
<1>6. Counted(call)' /\ Honest(call)'
  BY <1>1, <1>5 DEF Counted, Honest, Promising, Syncing
<1>7. Formed(call)'
  BY <1>4 DEF Formed, Catalogued
<1>8. calls' \in 0 .. MaxCalls /\ routes' \subseteq Conflicts
  BY DEF RunSync, IInv, TypeOK
<1> QED BY <1>2, <1>5, <1>6, <1>7, <1>8, RequestMoves DEF Holds

-----------------------------------------------------------------------------
(* sync_pending(), while it only reads and compares. *)

LEMMA OldestEntries ==
  ASSUME IInv
  PROVE  Oldest \in Seq(Entry) /\ \A e : Holds(Oldest, e) => Holds(outbox, e)
<1> DEFINE k == IF Len(outbox) < Batch THEN Len(outbox) ELSE Batch
<1>1. DOMAIN outbox = 1 .. Len(outbox) /\ Len(outbox) \in Nat
  BY CallFacts
<1>2. k \in Nat /\ k <= Len(outbox)
  BY <1>1, AgentAssumption
<1> HIDE DEF k
<1>3. \A i \in 1 .. k : outbox[i] \in Entry
  BY <1>1, <1>2, CallFacts
<1> DEFINE q == SubSeq(outbox, 1, k)
<1>4. q \in Seq(Entry) /\ Len(q) = (IF 1 <= k THEN k - 1 + 1 ELSE 0)
      /\ \A i \in 1 .. k - 1 + 1 : q[i] = outbox[1 + i - 1]
  BY <1>2, <1>3, SubSeqProperties
<1>5. q = Oldest
  BY DEF Oldest, k
<1> HIDE DEF q
<1>6. DOMAIN q = 1 .. k
  BY <1>2, <1>4
<1>7. ASSUME NEW i \in DOMAIN q PROVE i \in DOMAIN outbox /\ q[i] = outbox[i]
  <2>1. i \in 1 .. k - 1 + 1 /\ 1 + i - 1 = i
    BY <1>2, <1>6
  <2> QED BY <1>1, <1>2, <1>4, <1>6, <2>1
<1>8. \A e : Holds(q, e) => Holds(outbox, e)
  BY <1>7 DEF Holds
<1> QED BY <1>4, <1>5, <1>8

LEMMA ReadOutboxStep ==
  ASSUME IInv, ReadOutbox
  PROVE  IInv'
<1>1. UNCHANGED <<local, cloud, turns, dropped, outbox, events, conflicts, recorded, settled>>
  BY DEF ReadOutbox, Vault, Remote, Known
<1>2. call' \in Calls /\ call'.at = "drain" /\ call'.items = Oldest /\ call'.catalog = local
  <2> DEFINE c == [call EXCEPT !.at = "drain", !.catalog = local, !.items = Oldest]
  <2>1. "drain" \in Places /\ Oldest \in Seq(Entry) /\ local \in [Notes -> Revisions] /\ call \in Calls
    BY OldestEntries, CallFacts DEF Places, Syncing, IInv, TypeOK
  <2>2. c \in Calls
    BY <2>1, ZenonT(30) DEF Calls
  <2>3. c.at = "drain" /\ c.items = Oldest /\ c.catalog = local
    BY <2>1 DEF Calls
  <2>4. call' = c
    BY DEF ReadOutbox
  <2> QED BY <2>2, <2>3, <2>4
<1>3. Formed(call')
  BY <1>2 DEF Formed, Promising, Auditing, Disagreeing, Syncing, IInv, TypeOK
<1>4. Counted(call)'
  BY <1>2 DEF Counted, Promising, Auditing, Disagreeing
<1>5. Honest(call)'
  <2>1. \A n \in Notes : Between(n, Current(n))'
    <3>1. \A n \in Notes : Between(n, Current(n))
      BY CurrentVersion
    <3> QED BY <1>1, <3>1 DEF Between, Current
  <2>2. \A n \in Notes : Between(n, Catalogued(call, n))'
    BY <1>1, <1>2, <2>1 DEF Between, Current, Catalogued
  <2> QED BY <1>2, <2>2 DEF Honest, Promising, Syncing
<1>6. Formed(call)'
  BY <1>3 DEF Formed, Catalogued
<1>7. calls' \in 0 .. MaxCalls /\ routes' \subseteq Conflicts
  BY DEF ReadOutbox, Vault, IInv, TypeOK
<1> QED BY <1>1, <1>2, <1>4, <1>5, <1>6, <1>7, OldestEntries, RequestMoves

LEMMA ReplayNextStep ==
  ASSUME IInv, ReplayNext
  PROVE  IInv'
<1>1. UNCHANGED <<local, cloud, turns, dropped, outbox, events, conflicts, recorded, settled>>
  BY DEF ReplayNext, Vault, Remote, Known
<1>2. call.at = "drain" /\ call.items # <<>> /\ call.items \in Seq(Entry)
  BY CallFacts DEF ReplayNext, At
<1>3. Head(call.items) \in Entry /\ Holds(call.items, Head(call.items))
  <2>1. Head(call.items) \in Entry /\ Len(call.items) \in Nat /\ Len(call.items) # 0
    BY <1>2, HeadTailProperties, EmptySeq
  <2>2. 1 \in DOMAIN call.items /\ Head(call.items) = call.items[1]
    BY <1>2, <2>1
  <2> QED BY <2>1, <2>2 DEF Holds
<1>4. Sent(call', call, Head(call.items), "replay")
  <2>1. call \in Calls /\ "replay" \in Places
    BY CallFacts DEF Places, Syncing
  <2> QED BY <1>3, <2>1, SendSent DEF ReplayNext, Send
<1>5. /\ call' \in Calls /\ call'.at = "replay" /\ call'.sending = Head(call.items)
      /\ call'.items = call.items /\ call'.catalog = call.catalog
  BY <1>4 DEF Sent
<1>6. call.catalog \in [Notes -> Revisions] /\ \A n \in Notes : Between(n, Catalogued(call, n))
  BY <1>2 DEF IInv, Formed, Honest, Syncing
<1>7. Formed(call')
  BY <1>2, <1>3, <1>5, <1>6 DEF Formed, Promising, Auditing, Disagreeing, Syncing
<1>8. Counted(call)'
  BY <1>5 DEF Counted, Promising, Auditing, Disagreeing
<1>9. Honest(call)'
  <2>1. \A n \in Notes : Between(n, Catalogued(call, n))'
    BY <1>1, <1>5, <1>6 DEF Between, Catalogued
  <2>2. Agrees(call.sending)'
    <3>1. Agrees(Head(call.items))
      BY <1>3 DEF IInv, QueueAgrees
    <3> QED BY <1>1, <1>5, <3>1 DEF Agrees, Current
  <2> QED BY <1>5, <2>1, <2>2 DEF Honest, Promising, Syncing
<1>10. Formed(call)'
  BY <1>7 DEF Formed, Catalogued
<1>11. calls' \in 0 .. MaxCalls /\ routes' \subseteq Conflicts
  BY DEF ReplayNext, Vault, IInv, TypeOK
<1> QED BY <1>1, <1>5, <1>8, <1>9, <1>10, <1>11, RequestMoves

LEMMA CompareCatalogsStep ==
  ASSUME IInv, CompareCatalogs
  PROVE  IInv'
<1>1. UNCHANGED <<local, cloud, turns, dropped, outbox, events, conflicts, recorded, settled>>
  BY DEF CompareCatalogs, Vault, Remote, Known
<1>2. call.at \in Syncing
  BY DEF CompareCatalogs, At, Syncing
<1>3. call.catalog \in [Notes -> Revisions] /\ \A n \in Notes : Between(n, Catalogued(call, n))
  BY <1>2 DEF IInv, Formed, Honest
<1>4. /\ call' \in Calls /\ call'.at = "repair" /\ call'.items = call.items
      /\ call'.catalog = call.catalog /\ call'.todo = Differing(call.catalog)
  <2> DEFINE c == [call EXCEPT !.at = "repair", !.sending = none, !.todo = Differing(call.catalog)]
  <2>1. "repair" \in Places /\ Differing(call.catalog) \in SUBSET Notes /\ call \in Calls
    BY CallFacts DEF Places, Syncing, Differing
  <2>2. c \in Calls
    BY <2>1, ZenonT(30) DEF Calls
  <2>3. /\ c.at = "repair" /\ c.items = call.items /\ c.catalog = call.catalog
        /\ c.todo = Differing(call.catalog)
    BY <2>1 DEF Calls
  <2>4. call' = c
    BY DEF CompareCatalogs
  <2> QED BY <2>2, <2>3, <2>4
<1>5. Formed(call')
  BY <1>3, <1>4 DEF Formed, Promising, Auditing, Disagreeing, Syncing
<1>6. Counted(call)'
  BY <1>4 DEF Counted, Promising, Auditing, Disagreeing
<1>7. Honest(call)'
  <2>1. \A n \in Notes : Between(n, Catalogued(call, n))'
    BY <1>1, <1>3, <1>4 DEF Between, Catalogued
  <2>2. Healed(call)'
    BY <1>1, <1>4 DEF Healed, Catalogued, Differing, Has
  <2> QED BY <1>4, <2>1, <2>2 DEF Honest, Promising, Syncing
<1>8. Formed(call)'
  BY <1>5 DEF Formed, Catalogued
<1>9. calls' \in 0 .. MaxCalls /\ routes' \subseteq Conflicts
  BY DEF CompareCatalogs, Vault, IInv, TypeOK
<1> QED BY <1>1, <1>4, <1>6, <1>7, <1>8, <1>9, RequestMoves

LEMMA RepairStep ==
  ASSUME IInv, NEW n \in Notes, Repair(n)
  PROVE  IInv'
<1>1. UNCHANGED <<local, cloud, turns, dropped, outbox, events, conflicts, recorded, settled>>
  BY DEF Repair, Vault, Remote, Known
<1>2. call.at = "repair"
  BY DEF Repair, At
<1>3. /\ call.catalog \in [Notes -> Revisions] /\ Healed(call)
      /\ \A m \in Notes : Between(m, Catalogued(call, m))
  BY <1>2 DEF IInv, Formed, Honest, Syncing
<1>4. /\ call' \in Calls /\ call'.at = "mend" /\ call'.items = call.items
      /\ call'.catalog = call.catalog /\ call'.todo = call.todo \ {n} /\ call'.unread = call.unread
      /\ call'.sending = Metadata(n, Catalogued(call, n))
  <2> DEFINE e == Metadata(n, Catalogued(call, n))
             c == [call EXCEPT !.at = "mend", !.todo = @ \ {n}, !.sending = e]
  <2>1. Catalogued(call, n) \in Version
    BY <1>3 DEF Catalogued, Version
  <2>2. /\ "mend" \in Places /\ call.todo \ {n} \in SUBSET Notes /\ call \in Calls
        /\ e \in Entry
    BY <2>1, CallFacts, MadeEntries DEF Places, Syncing
  <2>3. call' = c
    BY DEF Repair, Catalogued
  <2> HIDE DEF e
  <2>4. c \in Calls
    BY <2>2, ZenonT(30) DEF Calls
  <2>5. /\ c.at = "mend" /\ c.items = call.items /\ c.catalog = call.catalog
        /\ c.todo = call.todo \ {n} /\ c.unread = call.unread /\ c.sending = e
    BY <2>2 DEF Calls
  <2> QED BY <2>3, <2>4, <2>5 DEF e
<1>5. Formed(call')
  BY <1>3, <1>4 DEF Formed, Promising, Auditing, Disagreeing, Syncing, Metadata, Catalogued
<1>6. Counted(call)'
  BY <1>4 DEF Counted, Promising, Auditing, Disagreeing
<1>7. Honest(call)'
  <2>1. \A m \in Notes : Between(m, Catalogued(call, m))'
    BY <1>1, <1>3, <1>4 DEF Between, Catalogued
  <2>2. Healed(call)'
    BY <1>1, <1>2, <1>3, <1>4 DEF Healed, Catalogued, Metadata, Has
  <2> QED BY <1>4, <2>1, <2>2 DEF Honest, Promising, Syncing
<1>8. Formed(call)'
  BY <1>5 DEF Formed, Catalogued
<1>9. calls' \in 0 .. MaxCalls /\ routes' \subseteq Conflicts
  BY DEF Repair, Vault, IInv, TypeOK
<1> QED BY <1>1, <1>4, <1>6, <1>7, <1>8, <1>9, RequestMoves

LEMMA PassOverStep ==
  ASSUME IInv, NEW n \in Notes, PassOver(n)
  PROVE  IInv'
<1>1. UNCHANGED <<local, cloud, turns, dropped, outbox, events, conflicts, recorded, settled>>
  BY DEF PassOver, Vault, Remote, Known
<1>2. call.at = "repair"
  BY DEF PassOver, At
<1>3. /\ call.catalog \in [Notes -> Revisions] /\ Healed(call)
      /\ \A m \in Notes : Between(m, Catalogued(call, m))
  BY <1>2 DEF IInv, Formed, Honest, Syncing
<1>4. /\ call' \in Calls /\ call'.at = "repair" /\ call'.items = call.items
      /\ call'.catalog = call.catalog /\ call'.todo = call.todo \ {n}
      /\ call'.unread = call.unread \cup {n}
  <2> DEFINE c == [call EXCEPT !.todo = @ \ {n}, !.unread = @ \cup {n}]
  <2>1. call.todo \ {n} \in SUBSET Notes /\ call.unread \cup {n} \in SUBSET Notes /\ call \in Calls
    BY CallFacts
  <2>2. c \in Calls
    BY <2>1, ZenonT(30) DEF Calls
  <2>3. /\ c.at = "repair" /\ c.items = call.items /\ c.catalog = call.catalog
        /\ c.todo = call.todo \ {n} /\ c.unread = call.unread \cup {n}
    BY <1>2, <2>1 DEF Calls
  <2>4. call' = c
    BY DEF PassOver
  <2> QED BY <2>2, <2>3, <2>4
<1>5. Formed(call')
  BY <1>3, <1>4 DEF Formed, Promising, Auditing, Disagreeing, Syncing
<1>6. Counted(call)'
  BY <1>4 DEF Counted, Promising, Auditing, Disagreeing
<1>7. Honest(call)'
  <2>1. \A m \in Notes : Between(m, Catalogued(call, m))'
    BY <1>1, <1>3, <1>4 DEF Between, Catalogued
  <2>2. Healed(call)'
    BY <1>1, <1>2, <1>3, <1>4 DEF Healed, Catalogued, Has
  <2> QED BY <1>4, <2>1, <2>2 DEF Honest, Promising, Syncing
<1>8. Formed(call)'
  BY <1>5 DEF Formed, Catalogued
<1>9. calls' \in 0 .. MaxCalls /\ routes' \subseteq Conflicts
  BY DEF PassOver, Vault, IInv, TypeOK
<1> QED BY <1>1, <1>4, <1>6, <1>7, <1>8, <1>9, RequestMoves

-----------------------------------------------------------------------------
(* A publication: the cloud receives what is sent, or does not. *)

LEMMA ReceivedFacts ==
  ASSUME IInv, NEW e \in Entry, Agrees(e), Received(e) \/ Ignored(e) \/ UNCHANGED Remote,
         UNCHANGED <<local, routes, outbox, calls, recorded, settled>>
  PROVE  /\ TypeOK' /\ SettledBefore' /\ AuditKept' /\ WorkKept'
         /\ Received(e) \/ Ignored(e) => Delivered(e)'
         /\ \A n \in Notes : \A v : Has(n, v) => Has(n, v)' \/ (e.kind = "note_metadata" /\ e.of = n)
<1>1. /\ cloud \in [Notes -> Version] /\ events \subseteq Event /\ conflicts \subseteq Conflicts
      /\ recorded \subseteq Event /\ settled \in [Notes -> Version \cup {none}]
      /\ turns \in [Notes -> 0 .. MaxTurns] /\ dropped \subseteq Notes
  BY DEF IInv, TypeOK
<1>2. /\ e.kind = "note_metadata" => e.of \in Notes /\ e.version \in Version
      /\ e.kind = "audit_event" => e.of \in Event
      /\ e.kind = "document_conflict" => e.of \in Conflicts
  BY EntryFacts
<1>3. /\ cloud' \in [Notes -> Version]
      /\ \A n \in Notes : cloud'[n] = cloud[n] \/ (e.kind = "note_metadata" /\ e.of = n)
      /\ Received(e) /\ e.kind = "note_metadata" => cloud'[e.of] = e.version
  <2>1. CASE Received(e) /\ e.kind = "note_metadata"
    <3>1. cloud' = [cloud EXCEPT ![e.of] = e.version]
      BY <2>1 DEF Received
    <3> QED BY <1>1, <1>2, <2>1, <3>1
  <2>2. CASE Received(e) /\ e.kind # "note_metadata"
    <3>1. cloud' = cloud
      BY <2>2 DEF Received
    <3> QED BY <1>1, <2>2, <3>1
  <2>3. CASE ~ Received(e)
    <3>1. cloud' = cloud
      BY <2>3 DEF Remote, Ignored
    <3> QED BY <1>1, <2>3, <3>1
  <2> QED BY <2>1, <2>2, <2>3
<1>d. /\ dropped' \subseteq Notes /\ turns' = turns
      /\ \A n \in dropped : n \in dropped' \/ (e.kind = "note_metadata" /\ e.of = n)
      /\ Ignored(e) => e.kind = "note_metadata" /\ e.of \in dropped'
  BY <1>1, <1>2 DEF Received, Ignored, Remote
<1>4. /\ events \subseteq events' /\ events' \subseteq Event
      /\ Received(e) /\ e.kind = "audit_event" => e.of \in events'
  BY <1>1, <1>2 DEF Received, Ignored, Remote
<1>5. conflicts' \subseteq Conflicts
  BY <1>1, <1>2 DEF Received, Ignored, Remote
<1>6. TypeOK'
  BY <1>1, <1>3, <1>4, <1>5, <1>d DEF IInv, TypeOK
<1>7. SettledBefore'
  BY DEF IInv, SettledBefore
<1>8. AuditKept'
  BY <1>4 DEF IInv, AuditKept, Queued
<1>10. Received(e) \/ Ignored(e) => Delivered(e)'
  BY <1>3, <1>4, <1>d DEF Delivered, Has
<1>11. \A n \in Notes : \A v : Has(n, v) => Has(n, v)' \/ (e.kind = "note_metadata" /\ e.of = n)
  BY <1>3, <1>d DEF Has
<1>9. WorkKept'
  <2> SUFFICES ASSUME NEW n \in Notes, settled[n] = Current(n)
               PROVE  Has(n, settled[n])' \/ Queued(Metadata(n, settled[n]))
    BY DEF WorkKept, Current, Queued, Has
  <2>1. CASE ~ (e.kind = "note_metadata" /\ e.of = n) \/ UNCHANGED Remote
    <3>1. Has(n, settled[n]) => Has(n, settled[n])'
      BY <1>11, <2>1 DEF Remote, Has
    <3> QED BY <3>1 DEF IInv, WorkKept
  <2>2. CASE e.kind = "note_metadata" /\ e.of = n /\ (Received(e) \/ Ignored(e))
    <3>1. e.version = settled[n]
      BY <2>2 DEF Agrees
    <3> QED BY <1>10, <2>2, <3>1 DEF Delivered, Has
  <2> QED BY <2>1, <2>2
<1> QED BY <1>6, <1>7, <1>8, <1>9, <1>10, <1>11

(* What the position after a publication has to promise besides. *)
LEMMA PublicationStep ==
  ASSUME IInv, NEW p \in Places, NEW acknowledged \in Places, NEW failed \in Places,
         Publish(p, acknowledged, failed), call.sending \in Entry, Agrees(call.sending),
         Formed(call)', Counted(call)',
         call'.at \in Promising => p \in Promising,
         call'.at \in {"replay", "replayed"} => p \in {"replay", "replayed"},
         call'.at \in Syncing => p \in Syncing,
         failed \notin {"delivered", "heard", "replayed", "repair", "mend"},
         acknowledged # "mend",
         acknowledged = "repair" => p = "mend"
  PROVE  IInv'
<1>1. /\ At(p) /\ UNCHANGED <<local, routes, outbox, calls, recorded, settled>>
      /\ Received(call.sending) \/ Ignored(call.sending) \/ UNCHANGED Remote
      /\ \/ (Received(call.sending) \/ Ignored(call.sending)) /\ Goto(acknowledged)
         \/ Goto(failed)
  BY DEF Publish, Vault
<1>2. PICK q \in Places :
        Goto(q) /\ (q = failed \/ (q = acknowledged /\ (Received(call.sending) \/ Ignored(call.sending))))
  BY <1>1
<1>3. Sent(call', call, call.sending, q)
  BY <1>2, CallFacts, GotoSent DEF Goto
<1>4. /\ call'.at = q /\ call'.sending = call.sending /\ call'.note = call.note
      /\ call'.items = call.items /\ call'.catalog = call.catalog
      /\ call'.todo = call.todo /\ call'.unread = call.unread
  BY <1>3 DEF Sent
<1>5. PICK e \in Entry : e = call.sending
  OBVIOUS
<1>6. /\ TypeOK' /\ SettledBefore' /\ AuditKept' /\ WorkKept'
      /\ Received(e) \/ Ignored(e) => Delivered(e)'
      /\ \A n \in Notes : \A v : Has(n, v) => Has(n, v)' \/ (e.kind = "note_metadata" /\ e.of = n)
  BY <1>1, <1>5, ReceivedFacts
<1>7. \A x \in Entry : Agrees(x)' <=> Agrees(x)
  BY <1>1 DEF Agrees, Current
<1>8. QueueAgrees'
  BY <1>1, <1>4, <1>7 DEF IInv, QueueAgrees, Holds
<1>9. Honest(call)'
  <2>1. call'.at \in Promising => Between(call.note, call.sending.version)'
    BY <1>1, <1>4 DEF At, IInv, Honest, Between
  <2>2. call'.at \in {"replay", "replayed"} => Agrees(call.sending)'
    BY <1>4, <1>5, <1>7
  <2>3. call'.at \in Syncing => \A n \in Notes : Between(n, Catalogued(call, n))'
    BY <1>1, <1>4 DEF At, IInv, Honest, Between, Catalogued
  <2>4. call'.at \in {"delivered", "heard", "replayed"} => Delivered(call.sending)'
    <3>1. q # failed => Delivered(e)'
      BY <1>2, <1>5, <1>6
    <3> QED BY <1>4, <1>5, <3>1 DEF Delivered, Has
  <2>5. call'.at \in {"repair", "mend"} => Healed(call)'
    <3> SUFFICES ASSUME q = "repair" PROVE Healed(call)'
      BY <1>2, <1>4
    <3>1. p = "mend" /\ (Received(e) \/ Ignored(e))
      BY <1>2, <1>5
    <3>2. /\ e.of \in Notes /\ e = Metadata(e.of, Catalogued(call, e.of)) /\ Healed(call)
          /\ call.at = "mend"
      BY <1>1, <1>5, <3>1 DEF At, IInv, Formed, Honest
    <3>3. Has(e.of, Catalogued(call, e.of))'
      <4>1. e.kind = "note_metadata" /\ e.version = Catalogued(call, e.of)
        BY <3>2 DEF Metadata
      <4>2. Catalogued(call, e.of)' = Catalogued(call, e.of)
        BY <1>4 DEF Catalogued
      <4> QED BY <1>6, <3>1, <4>1, <4>2 DEF Delivered, Has
    <3>4. \A n \in Notes : Catalogued(call, n)' = Catalogued(call, n)
      BY <1>4 DEF Catalogued
    <3>5. \A n \in Notes : n # e.of /\ Has(n, Catalogued(call, n)) => Has(n, Catalogued(call, n))'
      <4> TAKE n \in Notes
      <4>1. \A v : n # e.of /\ Has(n, v) => Has(n, v)'
        BY <1>6
      <4>2. n # e.of /\ Has(n, Catalogued(call, n)) => cloud'[n] = Catalogued(call, n) \/ n \in dropped'
        BY <4>1 DEF Has
      <4> QED BY <3>4, <4>2 DEF Has
    <3> SUFFICES ASSUME NEW n \in Notes, call'.catalog[n] > 0, n \notin call'.todo,
                        n \notin call'.unread
                 PROVE  Has(n, Catalogued(call, n))'
      BY DEF Healed
    <3>6. CASE n = e.of
      BY <3>3, <3>6
    <3>7. CASE n # e.of
      <4>1. Has(n, Catalogued(call, n))
        BY <1>4, <1>5, <3>2, <3>7 DEF Healed
      <4> QED BY <3>5, <3>7, <4>1
    <3> QED BY <3>6, <3>7
  <2> QED BY <2>1, <2>2, <2>3, <2>4, <2>5 DEF Honest
<1> QED BY <1>6, <1>8, <1>9 DEF IInv

LEMMA PublishNoteMetadataStep ==
  ASSUME IInv, PublishNoteMetadata
  PROVE  IInv'
<1>1. /\ call.at = "publish" /\ call.note \in Notes /\ call.sending.version \in Version
      /\ call.sending = Metadata(call.note, call.sending.version) /\ call.items = <<>>
      /\ Between(call.note, call.sending.version) /\ calls > 0 /\ calls' = calls
  BY DEF PublishNoteMetadata, Publish, At, IInv, Formed, Honest, Counted, Promising, Syncing
<1>2. PICK v \in Version : v = call.sending.version
  BY <1>1
<1>3. call.sending \in Entry /\ Agrees(call.sending)
  BY <1>1, <1>2, MadeEntries, BetweenAgrees DEF IInv
<1>4. PICK q \in {"delivered", "undelivered"} : Goto(q)
  BY DEF PublishNoteMetadata, Publish
<1>5. Sent(call', call, Metadata(call.note, v), q)
  BY <1>1, <1>2, <1>4, CallFacts, GotoSent DEF Goto, Places, Promising
<1>6. Formed(call')
  BY <1>1, <1>5, PromisingFormed DEF Promising
<1>7. Formed(call)'
  BY <1>6 DEF Formed, Catalogued
<1>8. call'.at = q /\ q \in Promising
  BY <1>5 DEF Sent, Promising
<1>9. Counted(call)'
  BY <1>1, <1>8 DEF Counted
<1>10. call'.at \notin Syncing \cup {"replay", "replayed"} /\ "publish" \in Promising
  BY <1>8 DEF Syncing, Promising
<1>11. {"publish", "delivered", "undelivered"} \subseteq Places
  BY DEF Places, Promising
<1> QED BY <1>3, <1>7, <1>9, <1>10, <1>11, PublicationStep DEF PublishNoteMetadata

LEMMA PublishAuditStep ==
  ASSUME IInv, PublishAudit
  PROVE  IInv'
<1>1. /\ call.at = "audit" /\ call.sending.of \in Event
      /\ call.sending = Audit(call.sending.of) /\ call.items = <<>>
      /\ calls > 0 /\ calls' = calls
  BY DEF PublishAudit, Publish, At, IInv, Formed, Honest, Counted, Auditing, Syncing
<1>2. call.sending \in Entry /\ Agrees(call.sending)
  <2>1. call.sending.kind = "audit_event"
    BY <1>1 DEF Audit
  <2> QED BY <1>1, <2>1, MadeEntries DEF Agrees
<1>3. PICK q \in {"heard", "unheard"} : Goto(q)
  BY DEF PublishAudit, Publish
<1>4. Sent(call', call, call.sending, q)
  BY <1>3, CallFacts, GotoSent DEF Goto, Places, Auditing
<1>5. Formed(call')
  BY <1>1, <1>4, AuditingFormed DEF Auditing
<1>6. Formed(call)'
  BY <1>5 DEF Formed, Catalogued
<1>7. call'.at = q
  BY <1>4 DEF Sent
<1>8. Counted(call)'
  BY <1>1, <1>7 DEF Counted
<1>9. call'.at \notin Syncing \cup {"replay", "replayed"} \cup Promising
  BY <1>7 DEF Syncing, Promising
<1>10. {"audit", "heard", "unheard"} \subseteq Places
  BY DEF Places, Auditing
<1> QED BY <1>2, <1>6, <1>8, <1>9, <1>10, PublicationStep DEF PublishAudit

LEMMA PublishConflictStep ==
  ASSUME IInv, PublishConflict
  PROVE  IInv'
<1>1. /\ call.at = "conflict" /\ call.sending.of \in Conflicts
      /\ call.sending = Disagreement(call.sending.of) /\ call.items = <<>>
      /\ calls > 0 /\ calls' = calls
  BY DEF PublishConflict, Publish, At, IInv, Formed, Honest, Counted, Disagreeing, Syncing
<1>2. call.sending \in Entry /\ Agrees(call.sending)
  <2>1. call.sending.kind = "document_conflict"
    BY <1>1 DEF Disagreement
  <2> QED BY <1>1, <2>1, MadeEntries DEF Agrees
<1>3. PICK q \in {"published", "unpublished"} : Goto(q)
  BY DEF PublishConflict, Publish
<1>4. Sent(call', call, call.sending, q)
  BY <1>3, CallFacts, GotoSent DEF Goto, Places, Disagreeing
<1>5. Formed(call')
  BY <1>1, <1>4, DisagreeingFormed DEF Disagreeing
<1>6. Formed(call)'
  BY <1>5 DEF Formed, Catalogued
<1>7. call'.at = q
  BY <1>4 DEF Sent
<1>8. Counted(call)'
  BY <1>1, <1>7 DEF Counted
<1>9. call'.at \notin Syncing \cup {"replay", "replayed"} \cup Promising
  BY <1>7 DEF Syncing, Promising
<1>10. {"conflict", "published", "unpublished"} \subseteq Places
  BY DEF Places, Disagreeing
<1> QED BY <1>2, <1>6, <1>8, <1>9, <1>10, PublicationStep DEF PublishConflict

LEMMA ReplayStep ==
  ASSUME IInv, Replay
  PROVE  IInv'
<1>1. /\ call.at = "replay" /\ call.sending \in Entry /\ Agrees(call.sending)
      /\ call.items # <<>> /\ call.catalog \in [Notes -> Revisions]
  BY DEF Replay, Publish, At, IInv, Formed, Honest, Syncing
<1>2. PICK q \in {"replayed", "compare"} : Goto(q)
  BY DEF Replay, Publish
<1>3. Sent(call', call, call.sending, q)
  BY <1>2, CallFacts, GotoSent DEF Goto, Places, Syncing
<1>4. /\ call' \in Calls /\ call'.at = q /\ call'.sending = call.sending
      /\ call'.items = call.items /\ call'.catalog = call.catalog
  BY <1>3 DEF Sent
<1>5. Formed(call')
  BY <1>1, <1>4 DEF Formed, Promising, Auditing, Disagreeing, Syncing
<1>6. Formed(call)'
  BY <1>5 DEF Formed, Catalogued
<1>7. Counted(call)'
  BY <1>4 DEF Counted, Promising, Auditing, Disagreeing
<1>8. call'.at \notin Promising /\ "replay" \in Syncing
  BY <1>4 DEF Syncing, Promising
<1>9. {"replay", "replayed", "compare"} \subseteq Places
  BY DEF Places, Syncing
<1> QED BY <1>1, <1>6, <1>7, <1>8, <1>9, PublicationStep DEF Replay

LEMMA MendStep ==
  ASSUME IInv, Mend
  PROVE  IInv'
<1>1. /\ call.at = "mend" /\ call.sending.of \in Notes
      /\ call.sending = Metadata(call.sending.of, Catalogued(call, call.sending.of))
      /\ call.catalog \in [Notes -> Revisions]
      /\ Between(call.sending.of, Catalogued(call, call.sending.of))
  BY DEF Mend, Publish, At, IInv, Formed, Honest, Syncing
<1>2. call.sending \in Entry /\ Agrees(call.sending)
  <2>1. PICK n \in Notes, v \in Version : n = call.sending.of /\ v = Catalogued(call, n)
    BY <1>1 DEF Catalogued, Version
  <2> QED BY <1>1, <2>1, MadeEntries, BetweenAgrees DEF IInv
<1>3. PICK q \in {"repair", "unmended"} : Goto(q)
  BY DEF Mend, Publish
<1>4. Sent(call', call, call.sending, q)
  BY <1>3, CallFacts, GotoSent DEF Goto, Places, Syncing
<1>5. /\ call' \in Calls /\ call'.at = q /\ call'.sending = call.sending
      /\ call'.items = call.items /\ call'.catalog = call.catalog
  BY <1>4 DEF Sent
<1>6. Formed(call')
  BY <1>1, <1>5 DEF Formed, Promising, Auditing, Disagreeing, Syncing, Catalogued
<1>7. Formed(call)'
  BY <1>6 DEF Formed, Catalogued
<1>8. Counted(call)'
  BY <1>5 DEF Counted, Promising, Auditing, Disagreeing
<1>9. call'.at \notin Promising \cup {"replay", "replayed"} /\ "mend" \in Syncing
  BY <1>5 DEF Syncing, Promising
<1>10. {"mend", "repair", "unmended"} \subseteq Places
  BY DEF Places, Syncing
<1> QED BY <1>2, <1>7, <1>8, <1>9, <1>10, PublicationStep DEF Mend

-----------------------------------------------------------------------------
(* The steps that change the outbox. *)

LEMMA OutboxTyped ==
  ASSUME IInv, NEW e \in Entry, outbox' \in {outbox, Upsert(e), Without(e)},
         UNCHANGED <<local, cloud, turns, dropped, events, conflicts, routes, calls>>,
         recorded' \subseteq Event, settled' \in [Notes -> Version \cup {none}]
  PROVE  TypeOK'
<1>1. outbox \in Seq(Entry) /\ Unique(outbox)
  BY CallFacts
<1>2. outbox' \in Seq(Entry) /\ Unique(outbox')
  BY <1>1, UpsertOutbox, WithoutOutbox
<1>3. \A i, j \in DOMAIN outbox' : Same(outbox'[i], outbox'[j]) => i = j
  BY <1>2 DEF Unique
<1> QED BY <1>2, <1>3 DEF IInv, TypeOK, Revisions, Version, Entry, Event

(* Whatever is queued afterwards was queued before, or is e. *)
LEMMA OutboxAfter ==
  ASSUME IInv, NEW e \in Entry
  PROVE  /\ outbox' = Upsert(e) =>
              \A x : Holds(outbox', x) <=> x = e \/ (Holds(outbox, x) /\ ~ Same(x, e))
         /\ outbox' = Without(e) =>
              \A x : Holds(outbox', x) <=> Holds(outbox, x) /\ ~ Same(x, e)
BY CallFacts, UpsertOutbox, WithoutOutbox

LEMMA SameAudits ==
  \A x, y : Same(Audit(x), Audit(y)) => x = y
BY DEF Same, Audit

LEMMA QueuedHolds ==
  \A e : Queued(e) <=> Holds(outbox, e)
BY DEF Queued, Holds

(* Replacing or adding an entry loses neither an audit nor work that agrees. *)
LEMMA UpsertKeeps ==
  ASSUME IInv, NEW e \in Entry, Agrees(e), outbox' = Upsert(e),
         UNCHANGED <<local, cloud, turns, dropped, events, settled>>
  PROVE  /\ \A x \in recorded : x \in events' \/ Queued(Audit(x))'
         /\ WorkKept'
<1>1. \A x : Holds(outbox', x) <=> x = e \/ (Holds(outbox, x) /\ ~ Same(x, e))
  BY OutboxAfter
<1>2. \A x \in recorded : x \in events' \/ Queued(Audit(x))'
  <2> SUFFICES ASSUME NEW x \in recorded, x \notin events
               PROVE  Holds(outbox', Audit(x))
    BY DEF Queued, Holds
  <2>1. Holds(outbox, Audit(x))
    BY DEF IInv, AuditKept, Queued, Holds
  <2>2. Same(Audit(x), e) => e = Audit(x)
    BY EntryFacts DEF Same, Audit, Metadata, Disagreement
  <2> QED BY <1>1, <2>1, <2>2
<1>3. WorkKept'
  <2> SUFFICES ASSUME NEW n \in Notes, settled[n] = Current(n), ~ Has(n, settled[n])
               PROVE  Holds(outbox', Metadata(n, settled[n]))
    BY DEF WorkKept, Current, Queued, Holds, Has
  <2>1. Holds(outbox, Metadata(n, settled[n]))
    BY DEF IInv, WorkKept, Queued, Holds
  <2>2. Same(Metadata(n, settled[n]), e) => e = Metadata(n, settled[n])
    BY EntryFacts DEF Same, Audit, Metadata, Disagreement, Agrees
  <2> QED BY <1>1, <2>1, <2>2
<1> QED BY <1>2, <1>3

(* Neither does dropping one the cloud has received. *)
LEMMA WithoutKeeps ==
  ASSUME IInv, NEW e \in Entry, Delivered(e), Agrees(e), outbox' = Without(e),
         UNCHANGED <<local, cloud, turns, dropped, events, recorded, settled>>
  PROVE  AuditKept' /\ WorkKept'
<1>1. \A x : Holds(outbox', x) <=> Holds(outbox, x) /\ ~ Same(x, e)
  BY OutboxAfter
<1>2. AuditKept'
  <2> SUFFICES ASSUME NEW x \in recorded, x \notin events
               PROVE  Holds(outbox', Audit(x))
    BY DEF AuditKept, Queued, Holds
  <2>1. Holds(outbox, Audit(x))
    BY DEF IInv, AuditKept, Queued, Holds
  <2>2. ~ Same(Audit(x), e)
    BY EntryFacts DEF Same, Audit, Metadata, Disagreement, Delivered
  <2> QED BY <1>1, <2>1, <2>2
<1>3. WorkKept'
  <2> SUFFICES ASSUME NEW n \in Notes, settled[n] = Current(n), ~ Has(n, settled[n])
               PROVE  Holds(outbox', Metadata(n, settled[n]))
    BY DEF WorkKept, Current, Queued, Holds, Has
  <2>1. Holds(outbox, Metadata(n, settled[n]))
    BY DEF IInv, WorkKept, Queued, Holds
  <2>2. ~ Same(Metadata(n, settled[n]), e)
    BY EntryFacts DEF Same, Audit, Metadata, Disagreement, Delivered, Agrees
  <2> QED BY <1>1, <2>1, <2>2
<1> QED BY <1>2, <1>3

LEMMA RecordAuditStep ==
  ASSUME IInv, RecordAudit
  PROVE  IInv'
<1>1. /\ call.at \in {"heard", "unheard"} /\ call.sending.of \in Event
      /\ call.sending = Audit(call.sending.of) /\ call.items = <<>>
      /\ calls > 0 /\ calls' = calls /\ settled' = settled
      /\ UNCHANGED <<local, routes, cloud, turns, dropped, events, conflicts>>
      /\ recorded' = recorded \cup {call.sending.of}
  BY DEF RecordAudit, IInv, Formed, Honest, Counted, Auditing, Syncing, Vault, Remote
<1>2. PICK x \in Event : x = call.sending.of
  BY <1>1
<1>3. Audit(x) \in Entry /\ Agrees(Audit(x)) /\ call.sending = Audit(x)
  BY <1>1, <1>2, MadeEntries DEF Agrees, Audit
<1>4. \/ call.at = "heard" /\ outbox' = outbox /\ x \in events
      \/ call.at = "unheard" /\ outbox' = Upsert(Audit(x))
  <2>1. call.at = "heard" => x \in events
    BY <1>2, <1>3 DEF IInv, Honest, Delivered, Audit
  <2> QED BY <1>1, <1>3, <2>1 DEF RecordAudit, At
<1>5. TypeOK'
  BY <1>1, <1>2, <1>3, <1>4, OutboxTyped DEF IInv, TypeOK
<1>6. /\ \A y \in recorded : y \in events' \/ Queued(Audit(y))'
      /\ WorkKept'
  <2>1. CASE outbox' = outbox
    BY <1>1, <2>1 DEF IInv, AuditKept, WorkKept, Queued, Current, Has
  <2>2. CASE outbox' = Upsert(Audit(x))
    BY <1>1, <1>3, <2>2, UpsertKeeps
  <2> QED BY <1>4, <2>1, <2>2
<1>7. x \in events' \/ Queued(Audit(x))'
  <2>1. outbox' = Upsert(Audit(x)) => Holds(outbox', Audit(x))
    BY <1>3, OutboxAfter
  <2> QED BY <1>1, <1>4, <2>1 DEF Queued, Holds
<1>8. AuditKept'
  BY <1>1, <1>2, <1>6, <1>7 DEF AuditKept
<1>9. /\ Formed(call)' /\ Counted(call)' /\ Honest(call)' /\ call'.items = <<>>
  <2>1. CASE Audited("done")
    BY <1>1, <2>1, AuditNext
  <2>2. CASE Finish
    <3>1. Formed(call)' /\ call'.at = "idle" /\ call'.items = <<>>
      BY <2>2, IdleFormed DEF Finish, Formed, Catalogued
    <3> QED BY <3>1 DEF Counted, Honest, Promising, Auditing, Disagreeing, Syncing
  <2> QED BY <2>1, <2>2 DEF RecordAudit
<1>10. QueueAgrees'
  <2>1. \A y \in Entry : Agrees(y)' <=> Agrees(y)
    BY <1>1 DEF Agrees, Current
  <2>2. \A y : Holds(outbox', y) => Holds(outbox, y) \/ y = Audit(x)
    BY <1>3, <1>4, OutboxAfter
  <2>3. \A y : ~ Holds(call'.items, y)
    BY <1>9 DEF Holds
  <2> QED BY <1>3, <2>1, <2>2, <2>3 DEF IInv, QueueAgrees
<1>11. SettledBefore'
  BY <1>1 DEF IInv, SettledBefore
<1> QED BY <1>5, <1>6, <1>8, <1>9, <1>10, <1>11 DEF IInv

LEMMA SettleConflictStep ==
  ASSUME IInv, SettleConflict
  PROVE  IInv'
<1>1. /\ call.at \in {"published", "unpublished"} /\ call.sending.of \in Conflicts
      /\ call.sending = Disagreement(call.sending.of) /\ call.items = <<>>
      /\ calls > 0 /\ UNCHANGED <<local, routes, cloud, turns, dropped, events, conflicts, calls, recorded, settled>>
  BY DEF SettleConflict, IInv, Formed, Counted, Disagreeing, Syncing, Vault, Remote, Known
<1>2. PICK e \in Entry : e = call.sending
  BY <1>1, MadeEntries
<1>3. Agrees(e) /\ Delivered(e)
  BY <1>1, <1>2 DEF Agrees, Delivered, Disagreement
<1>4. outbox' = Without(e) \/ outbox' = Upsert(e)
  BY <1>2 DEF SettleConflict
<1>5. TypeOK'
  BY <1>1, <1>4, OutboxTyped DEF IInv, TypeOK
<1>6. AuditKept' /\ WorkKept'
  <2>1. CASE outbox' = Without(e)
    BY <1>1, <1>3, <2>1, WithoutKeeps
  <2>2. CASE outbox' = Upsert(e)
    <3>1. (\A x \in recorded : x \in events' \/ Queued(Audit(x))') /\ WorkKept'
      BY <1>1, <1>3, <2>2, UpsertKeeps
    <3> QED BY <1>1, <3>1 DEF AuditKept
  <2> QED BY <1>4, <2>1, <2>2
<1>7. Formed(call)' /\ Counted(call)' /\ Honest(call)' /\ call'.items = <<>>
  BY <1>1, AuditNext DEF SettleConflict
<1>8. QueueAgrees'
  <2>1. \A y \in Entry : Agrees(y)' <=> Agrees(y)
    BY <1>1 DEF Agrees, Current
  <2>2. \A y : Holds(outbox', y) => Holds(outbox, y) \/ y = e
    BY <1>4, OutboxAfter
  <2>3. \A y : ~ Holds(call'.items, y)
    BY <1>7 DEF Holds
  <2> QED BY <1>3, <2>1, <2>2, <2>3 DEF IInv, QueueAgrees
<1>9. SettledBefore'
  BY <1>1 DEF IInv, SettledBefore
<1> QED BY <1>5, <1>6, <1>7, <1>8, <1>9 DEF IInv

LEMMA SettleStep ==
  ASSUME IInv, Settle
  PROVE  IInv'
<1>1. /\ call.at \in {"delivered", "undelivered"} /\ call.note \in Notes
      /\ call.sending.version \in Version
      /\ call.sending = Metadata(call.note, call.sending.version) /\ call.items = <<>>
      /\ Between(call.note, call.sending.version)
      /\ calls > 0 /\ UNCHANGED <<local, routes, cloud, turns, dropped, events, conflicts, calls, recorded>>
  BY DEF Settle, IInv, Formed, Honest, Counted, Promising, Syncing, Vault, Remote
<1>2. PICK n \in Notes, v \in Version : n = call.note /\ v = call.sending.version
  BY <1>1
<1> DEFINE e == Metadata(n, v)
<1>3. /\ e \in Entry /\ call.sending = e /\ Between(n, v)
      /\ e.kind = "note_metadata" /\ e.of = n /\ e.version = v
  BY <1>1, <1>2, MadeEntries DEF Metadata
<1> HIDE DEF e
<1>4. settled' = [settled EXCEPT ![n] = v]
  BY <1>2 DEF Settle
<1>5. /\ settled' \in [Notes -> Version \cup {none}] /\ settled'[n] = v
      /\ \A m \in Notes : m # n => settled'[m] = settled[m]
  BY <1>4 DEF IInv, TypeOK
<1>6. \/ call.at = "delivered" /\ outbox' = Without(e) /\ Has(n, v)
      \/ call.at = "undelivered" /\ outbox' = Upsert(e)
  <2>1. call.at = "delivered" => Has(n, v)
    BY <1>3 DEF IInv, Honest, Delivered
  <2> QED BY <1>1, <1>3, <2>1 DEF Settle, At
<1>7. TypeOK'
  BY <1>1, <1>3, <1>5, <1>6, OutboxTyped DEF IInv, TypeOK
<1>8. SettledBefore'
  <2>1. v.revision <= local[n]
    BY <1>3 DEF Between
  <2> QED BY <1>1, <1>5, <2>1 DEF IInv, SettledBefore
<1>9. \A x : Holds(outbox', x) => (x = e \/ (Holds(outbox, x) /\ ~ Same(x, e)))
  BY <1>3, <1>6, OutboxAfter
<1>10. \A x : Holds(outbox, x) /\ ~ Same(x, e) => Holds(outbox', x)
  BY <1>3, <1>6, OutboxAfter
<1>11. AuditKept'
  <2> SUFFICES ASSUME NEW x \in recorded, x \notin events
               PROVE  Holds(outbox', Audit(x))
    BY <1>1 DEF AuditKept, Queued, Holds
  <2>1. Holds(outbox, Audit(x))
    BY DEF IInv, AuditKept, Queued, Holds
  <2>2. ~ Same(Audit(x), e)
    BY <1>3 DEF Same, Audit
  <2> QED BY <1>10, <2>1, <2>2
<1>12. WorkKept'
  <2> SUFFICES ASSUME NEW m \in Notes, settled'[m] = Current(m), ~ Has(m, settled'[m])
               PROVE  Holds(outbox', Metadata(m, settled'[m]))
    BY <1>1 DEF WorkKept, Current, Queued, Holds, Has
  <2>1. CASE m = n
    <3>1. outbox' = Upsert(e)
      BY <1>5, <1>6, <2>1
    <3>2. Holds(outbox', e)
      BY <1>3, <3>1, OutboxAfter
    <3> QED BY <1>5, <2>1, <3>2 DEF e
  <2>2. CASE m # n
    <3>1. Holds(outbox, Metadata(m, settled[m]))
      BY <1>5, <2>2 DEF IInv, WorkKept, Queued, Holds
    <3>2. ~ Same(Metadata(m, settled[m]), e)
      BY <1>3, <2>2 DEF Same, Metadata
    <3> QED BY <1>5, <1>10, <2>2, <3>1, <3>2
  <2> QED BY <2>1, <2>2
<1>13. Formed(call)' /\ Counted(call)' /\ Honest(call)' /\ call'.items = <<>>
  BY <1>1, AuditNext DEF Settle
<1>14. QueueAgrees'
  <2> SUFFICES ASSUME NEW x \in Entry, Holds(outbox', x), x.kind = "note_metadata",
                      settled'[x.of] = Current(x.of)
               PROVE  x.version = settled'[x.of]
    <3>1. \A y : ~ Holds(call'.items, y)
      BY <1>13 DEF Holds
    <3> QED BY <1>1, <3>1 DEF QueueAgrees, Agrees, Current
  <2>1. CASE x = e
    BY <1>3, <1>5, <2>1
  <2>2. CASE x # e
    <3>1. Holds(outbox, x) /\ ~ Same(x, e)
      BY <1>9, <2>2
    <3>2. x.of \in Notes /\ x.of # n
      BY <1>3, <3>1, EntryFacts DEF Same
    <3>3. Agrees(x)
      BY <3>1 DEF IInv, QueueAgrees
    <3> QED BY <1>5, <3>2, <3>3 DEF Agrees
  <2> QED BY <2>1, <2>2
<1> QED BY <1>7, <1>8, <1>11, <1>12, <1>13, <1>14 DEF IInv

LEMMA ReplayedStep ==
  ASSUME IInv, Replayed
  PROVE  IInv'
<1>1. /\ call.at = "replayed" /\ call.sending \in Entry /\ Agrees(call.sending)
      /\ Delivered(call.sending) /\ call.items # <<>> /\ call.catalog \in [Notes -> Revisions]
      /\ \A n \in Notes : Between(n, Catalogued(call, n))
      /\ UNCHANGED <<local, routes, cloud, turns, dropped, events, conflicts, calls, recorded, settled>>
  BY DEF Replayed, At, IInv, Formed, Honest, Syncing, Vault, Remote, Known
<1>2. PICK e \in Entry : e = call.sending
  BY <1>1
<1>3. outbox' = Without(e)
  BY <1>2 DEF Replayed
<1>4. TypeOK'
  BY <1>1, <1>3, OutboxTyped DEF IInv, TypeOK
<1>5. AuditKept' /\ WorkKept'
  BY <1>1, <1>2, <1>3, WithoutKeeps
<1>6. Tail(call.items) \in Seq(Entry) /\ \A x : Holds(Tail(call.items), x) => Holds(call.items, x)
  <2>1. call.items \in Seq(Entry)
    BY CallFacts
  <2>2. /\ Tail(call.items) \in Seq(Entry) /\ Len(Tail(call.items)) = Len(call.items) - 1
        /\ \A i \in 1 .. Len(Tail(call.items)) : Tail(call.items)[i] = call.items[i + 1]
    BY <1>1, <2>1, HeadTailProperties
  <2>3. \A i \in DOMAIN Tail(call.items) : i + 1 \in DOMAIN call.items
    BY <2>1, <2>2
  <2>4. DOMAIN Tail(call.items) = 1 .. Len(Tail(call.items))
    BY <2>2
  <2> QED BY <2>2, <2>3, <2>4 DEF Holds
<1>7. /\ call' \in Calls /\ call'.at = "drain" /\ call'.items = Tail(call.items)
      /\ call'.catalog = call.catalog
  <2> DEFINE t == Tail(call.items)
             c == [call EXCEPT !.at = "drain", !.items = t]
  <2>1. call' = c
    BY DEF Replayed
  <2>2. "drain" \in Places /\ t \in Seq(Entry) /\ call \in Calls
    BY <1>6, CallFacts DEF Places, Syncing
  <2> HIDE DEF t
  <2>3. c \in Calls
    BY <2>2, ZenonT(30) DEF Calls
  <2>4. c.at = "drain" /\ c.items = t /\ c.catalog = call.catalog
    BY <2>2 DEF Calls
  <2> QED BY <2>1, <2>3, <2>4 DEF t
<1>8. Formed(call')
  BY <1>1, <1>7 DEF Formed, Promising, Auditing, Disagreeing, Syncing
<1>9. Formed(call)'
  BY <1>8 DEF Formed, Catalogued
<1>10. Counted(call)'
  BY <1>7 DEF Counted, Promising, Auditing, Disagreeing
<1>11. Honest(call)'
  <2>1. \A n \in Notes : Between(n, Catalogued(call, n))'
    BY <1>1, <1>7 DEF Between, Catalogued
  <2> QED BY <1>7, <2>1 DEF Honest, Promising, Syncing
<1>12. QueueAgrees'
  <2>1. \A y \in Entry : Agrees(y)' <=> Agrees(y)
    BY <1>1 DEF Agrees, Current
  <2>2. \A y : Holds(outbox', y) => Holds(outbox, y)
    BY <1>3, OutboxAfter
  <2> QED BY <1>6, <1>7, <2>1, <2>2 DEF IInv, QueueAgrees
<1>13. SettledBefore'
  BY <1>1 DEF IInv, SettledBefore
<1> QED BY <1>4, <1>5, <1>9, <1>10, <1>11, <1>12, <1>13 DEF IInv

LEMMA UnmendedStep ==
  ASSUME IInv, Unmended
  PROVE  IInv'
<1>1. /\ call.at = "unmended" /\ call.sending.of \in Notes
      /\ call.sending = Metadata(call.sending.of, Catalogued(call, call.sending.of))
      /\ call.catalog \in [Notes -> Revisions]
      /\ Between(call.sending.of, Catalogued(call, call.sending.of))
      /\ UNCHANGED <<local, routes, cloud, turns, dropped, events, conflicts, calls, recorded, settled>>
  BY DEF Unmended, At, IInv, Formed, Honest, Syncing, Vault, Remote, Known
<1>2. PICK e \in Entry : e = call.sending /\ Agrees(e)
  <2>1. PICK n \in Notes, v \in Version : n = call.sending.of /\ v = Catalogued(call, n)
    BY <1>1 DEF Catalogued, Version
  <2> QED BY <1>1, <2>1, MadeEntries, BetweenAgrees DEF IInv
<1>3. outbox' = Upsert(e)
  BY <1>2 DEF Unmended
<1>4. TypeOK'
  BY <1>1, <1>3, OutboxTyped DEF IInv, TypeOK
<1>5. AuditKept' /\ WorkKept'
  <2>1. (\A x \in recorded : x \in events' \/ Queued(Audit(x))') /\ WorkKept'
    BY <1>1, <1>2, <1>3, UpsertKeeps
  <2> QED BY <1>1, <2>1 DEF AuditKept
<1>6. Formed(call)' /\ call'.at = "idle" /\ call'.items = <<>>
  BY IdleFormed DEF Unmended, Finish, Formed, Catalogued
<1>7. Counted(call)' /\ Honest(call)'
  BY <1>6 DEF Counted, Honest, Promising, Auditing, Disagreeing, Syncing
<1>8. QueueAgrees'
  <2>1. \A y \in Entry : Agrees(y)' <=> Agrees(y)
    BY <1>1 DEF Agrees, Current
  <2>2. \A y : Holds(outbox', y) => Holds(outbox, y) \/ y = e
    BY <1>3, OutboxAfter
  <2>3. \A y : ~ Holds(call'.items, y)
    BY <1>6 DEF Holds
  <2> QED BY <1>2, <2>1, <2>2, <2>3 DEF IInv, QueueAgrees
<1>9. SettledBefore'
  BY <1>1 DEF IInv, SettledBefore
<1> QED BY <1>4, <1>5, <1>6, <1>7, <1>8, <1>9 DEF IInv

-----------------------------------------------------------------------------
(* The steps that give a note its next revision. *)

LEMMA NoteGrows ==
  ASSUME IInv, NEW n \in Notes, NEW k \in Revisions, k > local[n],
         local' = [local EXCEPT ![n] = k],
         UNCHANGED <<routes, cloud, turns, dropped, outbox, events, conflicts, calls, recorded, settled>>
  PROVE  /\ TypeOK' /\ SettledBefore' /\ AuditKept' /\ WorkKept'
         /\ \A e \in Entry : Agrees(e) => Agrees(e)'
         /\ \A m \in Notes, v \in Version : Between(m, v) => Between(m, v)'
<1>1. /\ local \in [Notes -> Revisions] /\ settled \in [Notes -> Version \cup {none}]
      /\ Revisions \subseteq Int /\ k \in Int
  BY DEF IInv, TypeOK, Revisions
<1>2. /\ local' \in [Notes -> Revisions] /\ local'[n] = k
      /\ \A m \in Notes : m # n => local'[m] = local[m]
  BY <1>1
<1>3. \A m \in Notes : local[m] \in Int /\ local'[m] \in Int /\ local[m] <= local'[m]
  <2> TAKE m \in Notes
  <2>1. local[m] \in Int /\ local'[m] \in Int
    BY <1>1, <1>2
  <2>2. CASE m = n
    BY <1>2, <2>1, <2>2
  <2>3. CASE m # n
    BY <1>2, <2>1, <2>3
  <2> QED BY <2>1, <2>2, <2>3
<1>4. TypeOK'
  BY <1>2 DEF IInv, TypeOK
<1>5. \A v \in Version : v.revision \in Int /\ v.text \in Int
  BY <1>1 DEF Version
<1>6. SettledBefore'
  BY <1>1, <1>3, <1>5 DEF IInv, SettledBefore
<1>7. AuditKept'
  BY DEF IInv, AuditKept, Queued
<1>8. \A m \in Notes : settled[m] = Current(m)' => settled[m] = Current(m)
  <2> SUFFICES ASSUME NEW m \in Notes, settled[m] = [revision |-> local'[m], text |-> local'[m]]
               PROVE  m # n
    BY <1>2 DEF Current
  <2>1. settled[m] # none
    <3>1. [revision |-> local'[m], text |-> local'[m]] \in [revision : Nat, text : Nat]
      BY <1>2, AgentAssumption DEF Revisions
    <3> QED BY <3>1, AgentAssumption
  <2>2. settled[m].revision = local'[m] /\ settled[m].revision <= local[m]
    BY <2>1 DEF IInv, SettledBefore
  <2> QED BY <1>1, <1>2, <1>3, <2>2
<1>9. WorkKept'
  BY <1>8 DEF IInv, WorkKept, Queued, Has
<1>10. \A e \in Entry : Agrees(e) => Agrees(e)'
  BY <1>8, EntryFacts DEF Agrees
<1>11. \A m \in Notes, v \in Version : Between(m, v) => Between(m, v)'
  BY <1>3, <1>5 DEF Between
<1> QED BY <1>4, <1>6, <1>7, <1>9, <1>10, <1>11

LEMMA EditNoteStep ==
  ASSUME IInv, NEW n \in Notes, EditNote(n)
  PROVE  IInv'
<1>1. /\ local[n] + 1 \in Revisions /\ local[n] + 1 > local[n]
      /\ local' = [local EXCEPT ![n] = local[n] + 1]
      /\ UNCHANGED <<routes, cloud, turns, dropped, outbox, events, conflicts, calls, recorded, settled, call>>
  BY AgentAssumption DEF EditNote, IInv, TypeOK, Revisions, Remote, Known
<1>2. PICK k \in Revisions : k = local[n] + 1
  BY <1>1
<1>3. /\ TypeOK' /\ SettledBefore' /\ AuditKept' /\ WorkKept'
      /\ \A e \in Entry : Agrees(e) => Agrees(e)'
      /\ \A m \in Notes, v \in Version : Between(m, v) => Between(m, v)'
  BY <1>1, <1>2, NoteGrows
<1>4. Formed(call)' /\ Counted(call)'
  BY <1>1 DEF IInv, Counted, Formed, Catalogued
<1>5. QueueAgrees'
  BY <1>1, <1>3 DEF IInv, QueueAgrees, Holds
<1>6. Honest(call)'
  <2>1. call.at \in Promising => Between(call.note, call.sending.version)'
    <3> SUFFICES ASSUME call.at \in Promising PROVE Between(call.note, call.sending.version)'
      OBVIOUS
    <3>1. PICK m \in Notes, v \in Version :
            m = call.note /\ v = call.sending.version /\ Between(m, v)
      BY DEF IInv, Honest, Formed
    <3>2. Between(m, v)'
      BY <1>3, <3>1
    <3> QED BY <1>1, <3>1, <3>2 DEF Between
  <2>2. call.at \in {"replay", "replayed"} => Agrees(call.sending)'
    <3> SUFFICES ASSUME call.at \in {"replay", "replayed"} PROVE Agrees(call.sending)'
      OBVIOUS
    <3>1. PICK e \in Entry : e = call.sending /\ Agrees(e)
      BY DEF IInv, Honest, Formed
    <3>2. Agrees(e)'
      BY <1>3, <3>1
    <3> QED BY <1>1, <3>1, <3>2 DEF Agrees
  <2>3. call.at \in Syncing => \A m \in Notes : Between(m, Catalogued(call, m))'
    <3> SUFFICES ASSUME call.at \in Syncing, NEW m \in Notes
                 PROVE  Between(m, Catalogued(call, m))'
      OBVIOUS
    <3>1. Catalogued(call, m) \in Version /\ Between(m, Catalogued(call, m))
      BY DEF IInv, Honest, Formed, Catalogued, Version
    <3>2. PICK v \in Version : v = Catalogued(call, m)
      BY <3>1
    <3>3. Between(m, v)'
      BY <1>3, <3>1, <3>2
    <3>4. v = Catalogued(call, m)'
      BY <1>1, <3>2 DEF Catalogued
    <3> QED BY <3>3, <3>4 DEF Between
  <2>4. call.at \in {"delivered", "heard", "replayed"} => Delivered(call.sending)'
    BY <1>1 DEF IInv, Honest, Delivered, Has
  <2>5. call.at \in {"repair", "mend"} => Healed(call)'
    BY <1>1 DEF IInv, Honest, Healed, Catalogued, Has
  <2> QED BY <1>1, <2>1, <2>2, <2>3, <2>4, <2>5 DEF Honest
<1> QED BY <1>3, <1>4, <1>5, <1>6 DEF IInv

(* An edit of a captured note under review is only audited. *)
LEMMA UpdateFlowReviewCapturedStep ==
  ASSUME IInv, NEW n \in Notes, UpdateFlowReviewCaptured(n)
  PROVE  IInv'
<1>1. /\ local[n] + 1 \in Revisions /\ local[n] + 1 > local[n]
      /\ At("act") /\ call.op # "sync_pending"
      /\ local' = [local EXCEPT ![n] = local[n] + 1] /\ Audited("done")
      /\ UNCHANGED <<routes, cloud, turns, dropped, outbox, events, conflicts, calls, recorded, settled>>
  BY AgentAssumption DEF UpdateFlowReviewCaptured, IInv, TypeOK, Revisions, Remote, Known
<1>2. PICK k \in Revisions : k = local[n] + 1
  BY <1>1
<1>3. /\ TypeOK' /\ SettledBefore' /\ AuditKept' /\ WorkKept'
      /\ \A e \in Entry : Agrees(e) => Agrees(e)'
  BY <1>1, <1>2, NoteGrows
<1>4. calls > 0 /\ call.items = <<>>
  BY <1>1 DEF At, IInv, Counted, Formed, Syncing
<1>5. Formed(call)' /\ Counted(call)' /\ Honest(call)' /\ call'.items = <<>>
  BY <1>1, <1>4, AuditNext
<1>6. QueueAgrees'
  <2>1. \A e \in Entry : Holds(outbox', e) \/ Holds(call'.items, e) => Holds(outbox, e)
    BY <1>1, <1>5 DEF Holds
  <2> QED BY <1>3, <2>1 DEF IInv, QueueAgrees
<1> QED BY <1>3, <1>5, <1>6 DEF IInv

(* Who may write a row is nothing the vault's side knows. *)
LEMMA ChangeRightsStep ==
  ASSUME IInv, NEW n \in Notes, ChangeRights(n)
  PROVE  IInv'
<1>1. UNCHANGED <<local, cloud, dropped, outbox, events, conflicts, routes, call, calls, recorded,
                  settled>>
  BY DEF ChangeRights, Vault, Known
<1>2. turns' \in [Notes -> 0 .. MaxTurns]
  <2>1. turns \in [Notes -> 0 .. MaxTurns] /\ MaxTurns \in Nat
    BY AgentAssumption DEF IInv, TypeOK
  <2>2. turns[n] \in 0 .. MaxTurns /\ turns[n] < MaxTurns
    BY <2>1 DEF ChangeRights
  <2>3. turns[n] + 1 \in 0 .. MaxTurns
    BY <2>1, <2>2
  <2> QED BY <2>1, <2>3 DEF ChangeRights
<1>3. TypeOK'
  BY <1>1, <1>2 DEF IInv, TypeOK
<1>4. Formed(call)' /\ Counted(call)'
  BY <1>1 DEF IInv, Counted, Formed, Catalogued
<1>5. SettledBefore' /\ QueueAgrees' /\ AuditKept' /\ WorkKept'
  BY <1>1 DEF IInv, SettledBefore, QueueAgrees, AuditKept, WorkKept, Holds, Agrees, Current, Queued,
     Has
<1>6. Honest(call)'
  BY <1>1 DEF IInv, Honest, Between, Agrees, Current, Catalogued, Delivered, Healed, Has
<1> QED BY <1>3, <1>4, <1>5, <1>6 DEF IInv

(* A request that makes a new revision sends that one. *)
LEMMA RevisionMade ==
  ASSUME IInv, NEW n \in Notes, NEW k \in Revisions, NEW p \in {"publish", "reload"},
         At("act"), call.op # "sync_pending", call.note = n, k > local[n],
         local' = [local EXCEPT ![n] = k],
         Send(Metadata(n, [revision |-> k, text |-> k]), p),
         UNCHANGED <<routes, cloud, turns, dropped, outbox, events, conflicts, calls, recorded, settled>>
  PROVE  IInv'
<1>1. calls > 0 /\ call.items = <<>>
  BY DEF At, IInv, Counted, Formed, Syncing
<1>2. /\ TypeOK' /\ SettledBefore' /\ AuditKept' /\ WorkKept'
      /\ \A e \in Entry : Agrees(e) => Agrees(e)'
  BY NoteGrows
<1>3. PICK v \in Version : v = [revision |-> k, text |-> k]
  BY DEF Version
<1>4. Between(n, v)'
  <2>1. v.text = k /\ v.revision = k /\ k \in Int /\ local[n] \in Int
    BY <1>3 DEF Revisions, IInv, TypeOK
  <2>2. local'[n] = k
    BY DEF IInv, TypeOK
  <2>3. settled[n] # none => settled[n].revision <= local[n] /\ settled[n].revision \in Int
    <3>1. settled[n] \in Version \cup {none}
      BY DEF IInv, TypeOK
    <3>2. settled[n] \in Version => settled[n].revision \in Int
      BY DEF Version, Revisions
    <3> QED BY <3>1, <3>2 DEF IInv, SettledBefore
  <2> QED BY <2>1, <2>2, <2>3 DEF Between
<1>5. Formed(call)' /\ Counted(call)' /\ Honest(call)' /\ call'.items = <<>>
  BY <1>1, <1>3, <1>4, PromiseNext DEF Promising
<1>6. QueueAgrees'
  <2>1. \A e \in Entry : Holds(outbox', e) \/ Holds(call'.items, e) => Holds(outbox, e)
    BY <1>5 DEF Holds
  <2> QED BY <1>2, <2>1 DEF IInv, QueueAgrees
<1> QED BY <1>2, <1>5, <1>6 DEF IInv

LEMMA RewriteStep ==
  ASSUME IInv, NEW n \in Notes, Rewrite(n)
  PROVE  IInv'
<1>1. /\ local[n] + 1 \in Revisions /\ local[n] + 1 > local[n]
      /\ At("act") /\ call.note = n
      /\ local' = [local EXCEPT ![n] = local[n] + 1]
      /\ UNCHANGED <<routes, cloud, turns, dropped, outbox, events, conflicts, calls, recorded, settled>>
  BY AgentAssumption DEF Rewrite, IInv, TypeOK, Revisions, Remote, Known
<1>2. call.op # "sync_pending"
  BY DEF Rewrite, Rewrites
<1>3. PICK k \in Revisions : k = local[n] + 1
  BY <1>1
<1>4. PICK p \in {"publish", "reload"} : Send(Metadata(n, [revision |-> k, text |-> k]), p)
  BY <1>3 DEF Rewrite
<1> QED BY <1>1, <1>2, <1>3, <1>4, RevisionMade

LEMMA CreateNoteStep ==
  ASSUME IInv, NEW n \in Notes, CreateNote(n)
  PROVE  IInv'
<1>1. /\ 1 \in Revisions /\ 1 > local[n]
      /\ At("act") /\ call.note = n
      /\ local' = [local EXCEPT ![n] = 1]
      /\ Send(Metadata(n, [revision |-> 1, text |-> 1]), "publish")
      /\ UNCHANGED <<routes, cloud, turns, dropped, outbox, events, conflicts, calls, recorded, settled>>
  BY AgentAssumption DEF CreateNote, IInv, TypeOK, Revisions, Remote, Known
<1>2. call.op # "sync_pending"
  BY DEF CreateNote, Creates
<1> QED BY <1>1, <1>2, RevisionMade

-----------------------------------------------------------------------------
(* The specification. *)

LEMMA Initially ==
  Init => IInv
<1> SUFFICES ASSUME Init PROVE IInv
  OBVIOUS
<1>1. Formed(call) /\ call.at = "idle" /\ call.items = <<>>
  BY IdleFormed DEF Init
<1>2. Counted(call) /\ Honest(call)
  BY <1>1 DEF Counted, Honest, Promising, Auditing, Disagreeing, Syncing
<1>3. TypeOK
  <2>1. local \in [Notes -> Revisions]
    BY AgentAssumption DEF Init, Revisions
  <2>2. cloud \in [Notes -> Version]
    BY AgentAssumption DEF Init, Unregistered, Version, Revisions
  <2>3. outbox \in Seq(Entry) /\ \A i, j \in DOMAIN outbox : Same(outbox[i], outbox[j]) => i = j
    BY DEF Init
  <2>4. settled \in [Notes -> Version \cup {none}]
    BY DEF Init
  <2>5. calls \in 0 .. MaxCalls
    BY AgentAssumption DEF Init
  <2>6. turns \in [Notes -> 0 .. MaxTurns]
    BY AgentAssumption DEF Init
  <2> QED BY <2>1, <2>2, <2>3, <2>4, <2>5, <2>6 DEF Init, TypeOK
<1>4. SettledBefore
  BY DEF Init, SettledBefore
<1>5. QueueAgrees
  BY <1>1 DEF Init, QueueAgrees, Holds
<1>6. AuditKept
  BY DEF Init, AuditKept
<1>7. WorkKept
  <2>1. \A n \in Notes : settled[n] # Current(n)
    <3> TAKE n \in Notes
    <3>1. Current(n) \in [revision : Nat, text : Nat]
      BY DEF Init, Current
    <3> QED BY <3>1, AgentAssumption DEF Init
  <2> QED BY <2>1 DEF WorkKept
<1> QED BY <1>1, <1>2, <1>3, <1>4, <1>5, <1>6, <1>7 DEF IInv

LEMMA RequestsServed ==
  ASSUME IInv, Handled
  PROVE  IInv'
<1>1. \A op \in (Answering \cap NoteReads) \cup Publishing \cup {"caudal_review_captured_update"},
        n \in Notes : Request(op, n) => IInv'
  <2>1. Answering \cup Publishing \cup {"caudal_review_captured_update"}
          \subseteq Ops \ {"sync_pending"}
    <3>1. "caudal_review_captured_update" \in Ops \ {"sync_pending"}
      BY DEF Ops
    <3> QED BY <3>1, NamedHandlers
  <2> QED BY <2>1, RequestStep
<1>2. \A op \in Answering \ NoteReads : Request(op, none) => IInv'
  <2>1. Answering \cup Publishing \subseteq Ops \ {"sync_pending"}
    BY NamedHandlers
  <2> QED BY <2>1, RequestStep
<1>3. \A op \in {"sync_run", "sync_conflict_resolve"} : Request(op, none) => IInv'
  <2>1. {"sync_run", "sync_conflict_resolve"} \subseteq Ops \ {"sync_pending"}
    BY NamedHandlers
  <2> QED BY <2>1, RequestStep
<1>4. Refuse => IInv'
  BY Finishing DEF Refuse, Finish, Vault, Remote, Known
<1>5. Answer => IInv'
  <2>1. "sync_pending" \notin Answering
    BY NamedHandlers
  <2> QED BY <2>1, AnswerStep DEF Answer, Vault, Remote
<1>6. RunSyncAgreed => IInv'
  BY AnswerStep DEF RunSyncAgreed, Vault, Remote
<1>7. \A c \in conflicts : ResolveConflict(c) => IInv'
  BY AnswerStep DEF ResolveConflict, Vault, Remote
<1> QED
  BY <1>1, <1>2, <1>3, <1>4, <1>5, <1>6, <1>7, SyncPendingStep, RewriteStep, CreateNoteStep,
     UpdateFlowReviewCapturedStep,
     ShareNoteStep, MoveNoteToThemeStep, ApproveProcessedNoteStep, PublishShareStep,
     PublishNoteMetadataStep, SettleStep, PublishAuditStep, RecordAuditStep, RunSyncStep,
     PublishConflictStep, SettleConflictStep DEF Handled

LEMMA OutboxSynchronised ==
  ASSUME IInv, Synchronised
  PROVE  IInv'
<1>1. CatalogUnread => IInv'
  BY Finishing DEF CatalogUnread, Finish, Vault, Remote, Known
<1>2. Synced => IInv'
  BY Finishing DEF Synced, Finish, Vault, Remote, Known
<1> QED
  BY <1>1, <1>2, ReadOutboxStep, ReplayNextStep, ReplayStep, ReplayedStep, CompareCatalogsStep,
     RepairStep, PassOverStep, MendStep, UnmendedStep DEF Synchronised

LEMMA Inductive ==
  IInv /\ [Next]_vars => IInv'
<1> SUFFICES ASSUME IInv, [Next]_vars PROVE IInv'
  OBVIOUS
<1>1. CASE Handled
  BY <1>1, RequestsServed
<1>2. CASE Synchronised
  BY <1>2, OutboxSynchronised
<1>3. CASE Die
  BY <1>3, Finishing DEF Die, Finish, Vault, Remote, Known
<1>4. CASE \E n \in Notes : EditNote(n) \/ ChangeRights(n)
  BY <1>4, EditNoteStep, ChangeRightsStep
<1>5. CASE UNCHANGED vars
  <2>1. UNCHANGED <<local, cloud, turns, dropped, outbox, events, conflicts, routes, call, calls, recorded, settled>>
    BY <1>5 DEF vars
  <2>2. TypeOK' /\ Formed(call)' /\ Counted(call)'
    BY <2>1 DEF IInv, TypeOK, Counted, Formed, Catalogued
  <2>3. SettledBefore' /\ QueueAgrees' /\ AuditKept' /\ WorkKept'
    BY <2>1 DEF IInv, SettledBefore, QueueAgrees, AuditKept, WorkKept, Holds, Agrees, Current, Queued,
       Has
  <2>4. Honest(call)'
    BY <2>1 DEF IInv, Honest, Between, Agrees, Current, Catalogued, Delivered, Healed, Has
  <2> QED BY <2>2, <2>3, <2>4 DEF IInv
<1> QED BY <1>1, <1>2, <1>3, <1>4, <1>5 DEF Next

LEMMA Invariance ==
  Spec => []IInv
BY Initially, Inductive, PTL DEF Spec

(* The state is well typed, and every outbox_id is queued once: the upsert of
   the store finds the row it replaces, and its delete leaves no second one. *)
THEOREM TypeCorrect ==
  Spec => []TypeOK
<1>1. IInv => TypeOK
  BY DEF IInv
<1> QED BY <1>1, Invariance, PTL

(* No audit event is lost, for any handlers, notes, network failures and deaths:
   an entry leaves the outbox only after the cloud has received it. *)
THEOREM AuditsAreKept ==
  Spec => []AuditKept
<1>1. IInv => AuditKept
  BY DEF IInv
<1> QED BY <1>1, Invariance, PTL

(* What was settled and not edited since is in the cloud or queued: nothing that
   is queued, replayed, shared late or repaired carries anything else of it. *)
THEOREM WorkIsKept ==
  Spec => []WorkKept
<1>1. IInv => WorkKept
  BY DEF IInv
<1> QED BY <1>1, Invariance, PTL

(* sync_pending() that comes to its end leaves the cloud with the catalogue it
   read, for any catalogue, cloud and outbox it found. *)
THEOREM SynchronisingHeals ==
  Spec => []SyncHeals
<1>1. IInv => SyncHeals
  BY DEF IInv, Honest, Healed, SyncHeals, At, Catalogued
<1> QED BY <1>1, Invariance, PTL
=============================================================================
