------------------------- MODULE SearchIndex_proofs -------------------------
(***************************************************************************)
(* Theorems about SearchIndex, for any number of notes, threads, chunks    *)
(* and revisions.                                                          *)
(***************************************************************************)
EXTENDS SearchIndex, TLAPS

\* The text a chunk was cut from, which its note has had while its file said approved.
Cut(c) == [note |-> c.note, rev |-> c.rev]
Approved(c) == Cut(c) \in once

\* No chunk is ever kept of a text that was never approved.
OnlyApproved ==
    /\ \A c \in vectors \cup rows \cup cache.docs : Approved(c)
    /\ \A n \in Notes : note[n].status = "approved" => [note |-> n, rev |-> note[n].rev] \in once
    /\ \A c \in Chunk : Approved(c) => c.rev <= note[c.note].rev

\* A publication works on the chunks of an approved text and on older ones;
\* that text is the one of the note while nothing changes it without a word.
IsNew(c) == c \in call[c.note].chunks
Earlier(c) == c \in call[c.note].published
Latest(c) == c.rev = note[c.note].rev

PublicationOK(n) ==
    call[n] # Idle =>
      /\ call[n].todo \subseteq call[n].chunks
      /\ \A c \in call[n].chunks : c.note = n /\ Approved(c) /\ c \notin call[n].published
      /\ \A c \in call[n].published : c.note = n /\ Approved(c)
      /\ n \notin missed \cup torn => \A c \in Chunk : c.note = n => (c \in call[n].chunks <=> Latest(c))

\* Where a chunk of a note is at each step of the publication of that note.
VectorOK(c) ==
    LET pc == call[c.note].pc IN
    /\ pc \in {"embed", "unpublish"} => (c \in vectors <=> Earlier(c))
    /\ pc \in {"publish", "withdraw", "clean"} => (c \in vectors <=> Earlier(c) \/ IsNew(c))
    /\ pc \in {"forget", "notify"} => (c \in vectors <=> IsNew(c))

RowOK(c) ==
    LET pc == call[c.note].pc IN
    /\ pc = "embed" => (c \in rows <=> Earlier(c)) /\ (c \in call[c.note].todo <=> IsNew(c))
    /\ pc \in {"publish", "withdraw", "unpublish"} =>
         (c \in rows <=> Earlier(c) \/ (IsNew(c) /\ c \notin call[c.note].todo))
    /\ pc \in {"clean", "forget"} => (c \in rows <=> Earlier(c) \/ IsNew(c))
    /\ pc = "notify" => (c \in rows <=> IsNew(c))

SettledOK(c) ==
    At(c.note, "idle") =>
      /\ c \in rows <=> c \in vectors
      /\ note[c.note].status = "approved" /\ c.note \notin missed => (c \in rows <=> Latest(c))

ChunkOK(c) == c.note \notin torn => VectorOK(c) /\ RowOK(c) /\ SettledOK(c)

\* A question has seen every note that is publishable now, and of what it took
\* each chunk was approved, and its note publishable since the question was put.
Seen(t, chunks) == \A c \in chunks : Approved(c) /\ c.note \in ask[t].since
AskOK(t) ==
    /\ ask[t] \in Question \cup Evidence => Seen(t, ask[t].kept)
    /\ ask[t] \in Question =>
         /\ \A c \in ask[t].todo : Approved(c)
         /\ \A n \in Notes : Publishable(n) => n \in ask[t].since

\* No publication has touched LanceDB that was not announced to an idle cache.
Quiet ==
    /\ mode = "hybrid" /\ ~swallowed
    /\ \A n \in Notes : At(n, "idle") \/ At(n, "embed")

\* Then whoever refills the cache has it all to add, or what is missing still.
Filling == \E t \in Threads : Asks(t, "fill")
LoadedOK == \A t \in Threads : Asks(t, "index") => ask[t].todo = vectors
NothingElse ==
    /\ \A t \in Threads : Asks(t, "fill") => ask[t].todo \subseteq vectors
    /\ Filling \/ Warm => cache.docs \subseteq vectors
NothingMissing ==
    Filling \/ Warm =>
        \A c \in vectors : c \in cache.docs \/ \E t \in Threads : Asks(t, "fill") /\ c \in ask[t].todo
CacheOK == Quiet => LoadedOK /\ NothingElse /\ NothingMissing

IInv ==
    /\ TypeOK
    /\ OnlyApproved
    /\ \A n \in Notes : PublicationOK(n)
    /\ \A c \in Chunk : ChunkOK(c)
    /\ \A t \in Threads : AskOK(t)
    /\ CacheOK

-----------------------------------------------------------------------------
(* Shapes.                                                                   *)

LEMMA CallShape ==
    ASSUME TypeOK, NEW n \in Notes
    PROVE  /\ At(n, "idle") <=> call[n] = Idle
           /\ ~At(n, "idle") => call[n] \in Publication
<1>1. call[n] \in {Idle} \cup Publication
  BY DEF TypeOK
<1>2. Idle.pc = "idle"
  BY DEF Idle
<1>3. \A p \in Publication : p.pc # "idle"
  BY DEF Publication
<1> QED BY <1>1, <1>2, <1>3 DEF At

LEMMA Kinds ==
    /\ Idle.pc = "idle" /\ Idle \notin Publication
    /\ \A q \in Question : q.pc \notin {"idle", "answer"}
    /\ \A q \in Evidence : q.pc = "answer"
    /\ Idle \notin Question \cup Evidence
    /\ \A q \in Question : q \notin Evidence
<1>1. Idle.pc = "idle" /\ \A p \in Publication : p.pc # "idle"
  BY DEF Idle, Publication
<1>2. \A q \in Question : q.pc \notin {"idle", "answer"}
  BY DEF Question
<1>3. \A q \in Evidence : q.pc = "answer"
  BY DEF Evidence
<1> QED BY <1>1, <1>2, <1>3

LEMMA AskShape ==
    ASSUME TypeOK, NEW t \in Threads
    PROVE  /\ Asks(t, "idle") <=> ask[t] = Idle
           /\ Asks(t, "answer") <=> ask[t] \in Evidence
           /\ ~Asks(t, "idle") /\ ~Asks(t, "answer") <=> ask[t] \in Question
<1>1. ask[t] \in {Idle} \cup Question \cup Evidence
  BY DEF TypeOK
<1> QED BY <1>1, Kinds DEF Asks

-----------------------------------------------------------------------------
LEMMA InitHolds == Init => IInv
<1> SUFFICES ASSUME NEW published \in SUBSET Notes, InitWith(published)
             PROVE  IInv
  BY DEF Init
<1> USE SearchAssumption
<1>r. 1 \in Revision
  BY DEF Revision
<1>n. \A n \in Notes : /\ note[n].rev = 1 /\ note[n].eligible = TRUE
                       /\ note[n].status = IF n \in published THEN "approved" ELSE "pending_review"
  BY DEF InitWith
<1>c. \A n \in Notes : call[n] = Idle
  BY DEF InitWith
<1>a. \A t \in Threads : ask[t] = Idle
  BY DEF InitWith
<1>i. \A c \in rows : c \in Chunk /\ c.rev = 1 /\ c.note \in published
  BY DEF InitWith
<1>1. TypeOK
  <2>1. note \in [Notes -> [rev : Revision, status : {"pending_review", "approved", "gone"},
                           eligible : BOOLEAN]]
    BY <1>r DEF InitWith
  <2>2. cache \in [docs : SUBSET Chunk, warm : BOOLEAN]
    BY DEF InitWith, Cold
  <2>3. once \subseteq [note : Notes, rev : Revision]
    BY <1>r DEF InitWith
  <2>4. call \in [Notes -> {Idle} \cup Publication]
    BY DEF InitWith
  <2>5. ask \in [Threads -> {Idle} \cup Question \cup Evidence]
    BY DEF InitWith
  <2> QED BY <2>1, <2>2, <2>3, <2>4, <2>5, <1>i DEF InitWith, TypeOK
<1>2. OnlyApproved
  <2>1. \A n \in published : [note |-> n, rev |-> 1] \in once
    BY DEF InitWith
  <2>2. \A c \in vectors \cup rows \cup cache.docs : Approved(c)
    BY <2>1, <1>i DEF InitWith, Cold, Approved, Cut
  <2>3. \A c \in Chunk : Approved(c) => c.rev <= note[c.note].rev
    <3> SUFFICES ASSUME NEW c \in Chunk, Approved(c) PROVE c.rev <= note[c.note].rev
      OBVIOUS
    <3>1. PICK n \in published : [note |-> c.note, rev |-> c.rev] = [note |-> n, rev |-> 1]
      BY DEF InitWith, Approved, Cut
    <3>2. c.rev = 1 /\ c.note \in Notes
      BY <3>1 DEF Chunk
    <3> QED BY <3>2, <1>n
  <2> QED BY <2>1, <2>2, <2>3, <1>n DEF OnlyApproved
<1>3. \A n \in Notes : PublicationOK(n)
  BY <1>c DEF PublicationOK
<1>4. \A c \in Chunk : ChunkOK(c)
  <2> SUFFICES ASSUME NEW c \in Chunk PROVE ChunkOK(c)
    OBVIOUS
  <2>1. c.note \in Notes
    BY DEF Chunk
  <2>2. call[c.note].pc = "idle"
    BY <2>1, <1>c DEF Idle
  <2>3. c \in rows <=> c \in vectors
    BY DEF InitWith
  <2>4. c \in rows <=> c.rev = 1 /\ c.note \in published
    BY DEF InitWith
  <2>5. note[c.note].rev = 1 /\ (note[c.note].status = "approved" => c.note \in published)
    BY <2>1, <1>n
  <2> QED BY <2>2, <2>3, <2>4, <2>5 DEF ChunkOK, VectorOK, RowOK, SettledOK, Latest
<1>5. \A t \in Threads : AskOK(t)
  BY <1>a, Kinds DEF AskOK, Seen
<1>6. CacheOK
  <2>1. ~cache.warm
    BY DEF InitWith, Cold
  <2>2. \A t \in Threads : ~Asks(t, "index") /\ ~Asks(t, "fill")
    BY <1>a DEF Asks, Idle
  <2> QED BY <2>1, <2>2 DEF CacheOK, Warm, LoadedOK, NothingElse, NothingMissing, Filling
<1> QED BY <1>1, <1>2, <1>3, <1>4, <1>5, <1>6 DEF IInv

-----------------------------------------------------------------------------
(* A step of a question changes nothing else but the cache.                  *)

\* What the new place q of a question must satisfy.
Sees(q) ==
    /\ q \in {Idle} \cup Question \cup Evidence
    /\ q \in Question \cup Evidence => \A c \in q.kept : Approved(c) /\ c.note \in q.since
    /\ q \in Question =>
         /\ \A c \in q.todo : Approved(c)
         /\ \A n \in Notes : Publishable(n) => n \in q.since

LEMMA AskChanges ==
    ASSUME IInv, NEW t \in Threads, NEW q, ask' = [ask EXCEPT ![t] = q], Sees(q),
           UNCHANGED <<mode, note, vectors, rows, call, once, torn, missed>>,
           failed' \in BOOLEAN, swallowed' \in BOOLEAN,
           cache' \in [docs : SUBSET Chunk, warm : BOOLEAN],
           \A c \in cache'.docs : Approved(c),
           CacheOK'
    PROVE  IInv'
<1>t. TypeOK
  BY DEF IInv
<1>a. /\ ask'[t] = q
      /\ \A u \in Threads : u # t => ask'[u] = ask[u]
  BY <1>t DEF TypeOK
<1>p. \A n \in Notes : Publishable(n)' <=> Publishable(n)
  BY DEF Publishable
<1>o. \A c : Approved(c)' <=> Approved(c)
  BY DEF Approved, Cut
<1>1. TypeOK'
  <2>1. ask' \in [Threads -> {Idle} \cup Question \cup Evidence]
    BY <1>t DEF TypeOK, Sees
  <2> QED BY <2>1, <1>t DEF TypeOK
<1>2. OnlyApproved'
  BY <1>o DEF IInv, OnlyApproved
<1>3. \A n \in Notes : PublicationOK(n)'
  BY <1>o DEF IInv, PublicationOK, Latest
<1>4. \A c \in Chunk : ChunkOK(c)'
  BY DEF IInv, ChunkOK, VectorOK, RowOK, SettledOK, IsNew, Earlier, Latest, At
<1>5. \A u \in Threads : AskOK(u)'
  <2>1. AskOK(t)'
    BY <1>a, <1>o, <1>p DEF Sees, AskOK, Seen
  <2>2. ASSUME NEW u \in Threads, u # t PROVE AskOK(u)'
    <3>1. AskOK(u)
      BY DEF IInv
    <3> QED BY <2>2, <3>1, <1>a, <1>o, <1>p DEF AskOK, Seen
  <2> QED BY <2>1, <2>2
<1> QED BY <1>1, <1>2, <1>3, <1>4, <1>5 DEF IInv

\* A step that neither loads the cache nor fills it.
LEMMA AskKeeps ==
    ASSUME IInv, NEW t \in Threads, NEW q, ask' = [ask EXCEPT ![t] = q], Sees(q),
           UNCHANGED <<mode, note, vectors, rows, call, cache, once, torn, missed>>,
           failed' \in BOOLEAN,
           swallowed' = swallowed \/ swallowed' = TRUE,
           ~Asks(t, "fill"), q.pc # "fill",
           q.pc = "index" => swallowed' = TRUE \/ q.todo = Corpus
    PROVE  IInv'
<1>t. TypeOK
  BY DEF IInv
<1>a. /\ ask'[t] = q
      /\ \A u \in Threads : u # t => ask'[u] = ask[u]
  BY <1>t DEF TypeOK
<1>1. CacheOK'
  <2> SUFFICES ASSUME Quiet' PROVE LoadedOK' /\ NothingElse' /\ NothingMissing'
    BY DEF CacheOK
  <2>1. Quiet /\ ~swallowed' /\ mode = "hybrid"
    BY <1>t DEF Quiet, At, TypeOK
  <2>2. LoadedOK /\ NothingElse /\ NothingMissing
    BY <2>1 DEF IInv, CacheOK
  <2>3. LoadedOK'
    BY <2>1, <2>2, <1>a DEF LoadedOK, Asks, Corpus
  <2>4. \A u \in Threads : /\ Asks(u, "fill")' <=> Asks(u, "fill")
                           /\ Asks(u, "fill") => ask'[u] = ask[u]
    BY <1>a DEF Asks
  <2>5. NothingElse'
    BY <2>2, <2>4 DEF NothingElse, Filling, Warm
  <2>6. NothingMissing'
    BY <2>2, <2>4 DEF NothingMissing, Filling, Warm
  <2> QED BY <2>3, <2>5, <2>6
<1>2. cache' \in [docs : SUBSET Chunk, warm : BOOLEAN] /\ \A c \in cache'.docs : Approved(c)
  BY DEF IInv, TypeOK, OnlyApproved
<1>3. swallowed' \in BOOLEAN
  BY <1>t DEF TypeOK
<1> QED BY <1>1, <1>2, <1>3, AskChanges

-----------------------------------------------------------------------------
(* The steps of a question.                                                  *)

LEMMA AskKept ==
    ASSUME IInv, NEW t \in Threads, Ask(t)
    PROVE  IInv'
<1> DEFINE q == [pc |-> IF mode = "hybrid" THEN "vectors" ELSE "cache", next |-> "hits",
                 todo |-> {}, kept |-> {}, since |-> {n \in Notes : Publishable(n)}]
<1>1. q \in Question /\ q.pc \notin {"fill", "index"}
  BY DEF Question
<1>2. Sees(q)
  BY <1>1, Kinds DEF Sees
<1>3. /\ ask' = [ask EXCEPT ![t] = q] /\ ~Asks(t, "fill")
      /\ UNCHANGED <<mode, note, vectors, rows, failed, call, cache, once, torn, missed, swallowed>>
  BY DEF Ask, Set, Asks, index, history
<1>4. failed' \in BOOLEAN
  BY <1>3 DEF IInv, TypeOK
<1> HIDE DEF q
<1> QED BY <1>1, <1>2, <1>3, <1>4, AskKeeps

LEMMA DraftKept ==
    ASSUME IInv, NEW t \in Threads, AskAboutDraft(t)
    PROVE  IInv'
<1> DEFINE q == [pc |-> "answer", kept |-> {}, since |-> {}]
<1>1. q \in Evidence /\ q.pc \notin {"fill", "index"} /\ q.kept = {}
  BY DEF Evidence
<1>2. q \notin Question
  <2> HIDE DEF q
  <2> QED BY <1>1, Kinds
<1>3. Sees(q)
  BY <1>1, <1>2 DEF Sees
<1>4. /\ ask' = [ask EXCEPT ![t] = q] /\ ~Asks(t, "fill")
      /\ UNCHANGED <<mode, note, vectors, rows, failed, call, cache, once, torn, missed, swallowed>>
  BY DEF AskAboutDraft, Set, Asks, index, history
<1>5. failed' \in BOOLEAN
  BY <1>4 DEF IInv, TypeOK
<1> HIDE DEF q
<1> QED BY <1>1, <1>3, <1>4, <1>5, AskKeeps

\* What holds of a question wherever it is before its answer.
LEMMA Underway ==
    ASSUME IInv, NEW t \in Threads, ~Asks(t, "idle"), ~Asks(t, "answer")
    PROVE  /\ ask[t] \in Question
           /\ ask[t].next \in {"hits", "more"}
           /\ ask[t].todo \subseteq Chunk /\ ask[t].kept \subseteq Chunk /\ ask[t].since \subseteq Notes
           /\ \A c \in ask[t].kept : Approved(c) /\ c.note \in ask[t].since
           /\ \A c \in ask[t].todo : Approved(c)
           /\ \A n \in Notes : Publishable(n) => n \in ask[t].since
<1>1. ask[t] \in Question
  BY AskShape DEF IInv
<1>2. AskOK(t)
  BY DEF IInv
<1> QED BY <1>1, <1>2 DEF AskOK, Seen, Question

\* A question that goes on with other chunks.
LEMMA GoesOn ==
    ASSUME IInv, NEW t \in Threads, ~Asks(t, "idle"), ~Asks(t, "answer"),
           NEW pc \in {"vectors", "cache", "index", "fill", "hits", "check", "more"},
           NEW next \in {"hits", "more"},
           NEW todo \in SUBSET Chunk, NEW kept \in SUBSET Chunk,
           \A c \in todo : Approved(c),
           \A c \in kept : Approved(c) /\ c.note \in ask[t].since,
           NEW q, q = [ask[t] EXCEPT !.pc = pc, !.next = next, !.todo = todo, !.kept = kept]
    PROVE  Sees(q)
<1>1. /\ ask[t] \in Question
      /\ \A n \in Notes : Publishable(n) => n \in ask[t].since
  BY Underway
<1>2. q \in Question
  BY <1>1 DEF Question
<1>3. q.pc = pc /\ q.next = next /\ q.todo = todo /\ q.kept = kept /\ q.since = ask[t].since
  BY <1>1 DEF Question
<1> QED BY <1>1, <1>2, <1>3, Kinds DEF Sees

\* Where a corpus comes from: it holds approved text only.
LEMMA CorpusApproved ==
    ASSUME IInv
    PROVE  Corpus \in SUBSET Chunk /\ \A c \in Corpus : Approved(c)
<1>1. \A n \in Notes : note[n].rev \in Revision
  BY DEF IInv, TypeOK
<1>2. PublishedNow \in SUBSET Chunk
  BY <1>1 DEF PublishedNow, Current, Of, Chunk
<1>3. ASSUME NEW c \in PublishedNow PROVE Approved(c)
  <2>1. PICK n \in Notes : Publishable(n) /\ c.note = n /\ c.rev = note[n].rev
    BY DEF PublishedNow, Current, Of
  <2> QED BY <2>1 DEF IInv, OnlyApproved, Publishable, Approved, Cut
<1> QED BY <1>2, <1>3 DEF IInv, TypeOK, OnlyApproved, Corpus

\* A step that takes some chunks to check.
LEMMA Takes ==
    ASSUME IInv, NEW t \in Threads, ~Asks(t, "idle"), ~Asks(t, "answer"), ~Asks(t, "fill"),
           NEW pc \in {"vectors", "cache", "index", "hits", "check", "more"},
           NEW todo \in SUBSET Chunk, \A c \in todo : Approved(c),
           ask' = [ask EXCEPT ![t] = [ask[t] EXCEPT !.pc = pc, !.todo = todo]],
           UNCHANGED <<mode, note, vectors, rows, call, cache, once, torn, missed>>,
           failed' \in BOOLEAN,
           swallowed' = swallowed \/ swallowed' = TRUE,
           pc = "index" => swallowed' = TRUE \/ todo = Corpus
    PROVE  IInv'
<1> DEFINE q == [ask[t] EXCEPT !.pc = pc, !.todo = todo]
<1>1. q = [ask[t] EXCEPT !.pc = pc, !.next = ask[t].next, !.todo = todo, !.kept = ask[t].kept]
  BY Underway DEF Question
<1> HIDE DEF q
<1>p. q.pc = pc /\ q.todo = todo
  BY Underway DEF Question, q
<1>2. Sees(q)
  <2>1. /\ ask[t].next \in {"hits", "more"} /\ ask[t].kept \in SUBSET Chunk
        /\ \A c \in ask[t].kept : Approved(c) /\ c.note \in ask[t].since
        /\ pc \in {"vectors", "cache", "index", "fill", "hits", "check", "more"}
        /\ \A c \in todo : Approved(c)
    BY Underway
  <2> QED BY <1>1, <2>1, GoesOn
<1>3. ask' = [ask EXCEPT ![t] = q]
  BY DEF q
<1> QED BY <1>p, <1>2, <1>3, AskKeeps

LEMMA SearchKept ==
    ASSUME IInv, NEW t \in Threads,
           SearchVectors(t) \/ SearchBm25(t) \/ Augment(t)
    PROVE  IInv'
<1>1. PICK hits \in SUBSET (vectors \cup cache.docs \cup Corpus) :
        Set(t, [ask[t] EXCEPT !.pc = "check", !.todo = hits])
  BY DEF SearchVectors, SearchBm25, Augment, Documents
<1>2. /\ ~Asks(t, "idle") /\ ~Asks(t, "answer") /\ ~Asks(t, "fill")
      /\ UNCHANGED <<mode, note, vectors, rows, failed, call, cache, once, torn, missed, swallowed>>
  BY DEF SearchVectors, SearchBm25, Augment, Asks, index, history
<1>3. hits \in SUBSET Chunk /\ \A c \in hits : Approved(c)
  BY CorpusApproved DEF IInv, TypeOK, OnlyApproved
<1>4. failed' \in BOOLEAN
  BY <1>2 DEF IInv, TypeOK
<1> QED BY <1>1, <1>2, <1>3, <1>4, Takes DEF Set

LEMMA LoadKept ==
    ASSUME IInv, NEW t \in Threads, LoadCorpus(t)
    PROVE  IInv'
<1>1. /\ ~Asks(t, "idle") /\ ~Asks(t, "answer") /\ ~Asks(t, "fill")
      /\ UNCHANGED <<mode, note, vectors, rows, failed, call, cache, once, torn, missed, swallowed>>
      /\ ask' = [ask EXCEPT ![t] = [ask[t] EXCEPT !.pc = "index", !.todo = Corpus]]
  BY DEF LoadCorpus, Asks, index, history, Set
<1>2. failed' \in BOOLEAN
  BY <1>1 DEF IInv, TypeOK
<1> DEFINE corpus == Corpus
<1>3. /\ corpus \in SUBSET Chunk /\ \A c \in corpus : Approved(c)
      /\ ask' = [ask EXCEPT ![t] = [ask[t] EXCEPT !.pc = "index", !.todo = corpus]]
      /\ corpus = Corpus
  BY <1>1, CorpusApproved
<1> HIDE DEF corpus
<1> QED BY <1>1, <1>2, <1>3, Takes

LEMMA LoadNothingKept ==
    ASSUME IInv, NEW t \in Threads, LoadNothing(t)
    PROVE  IInv'
<1>1. /\ ~Asks(t, "idle") /\ ~Asks(t, "answer") /\ ~Asks(t, "fill")
      /\ UNCHANGED <<mode, note, vectors, rows, failed, call, cache, once, torn, missed>>
      /\ swallowed' = TRUE
      /\ ask' = [ask EXCEPT ![t] = [ask[t] EXCEPT !.pc = "index", !.todo = {}]]
  BY DEF LoadNothing, Asks, index, Set
<1>2. failed' \in BOOLEAN
  BY <1>1 DEF IInv, TypeOK
<1>3. {} \in SUBSET Chunk /\ \A c \in {} : Approved(c)
  OBVIOUS
<1> QED BY <1>1, <1>2, <1>3, Takes

LEMMA LoadFailsKept ==
    ASSUME IInv, NEW t \in Threads, LoadFails(t)
    PROVE  IInv'
<1>1. /\ ~Asks(t, "idle") /\ ~Asks(t, "answer") /\ ~Asks(t, "fill")
      /\ UNCHANGED <<mode, note, vectors, rows, failed, call, cache, once, torn, missed, swallowed>>
      /\ \/ ask' = [ask EXCEPT ![t] = [ask[t] EXCEPT !.pc = "check", !.todo = {}]]
         \/ ask' = [ask EXCEPT ![t] = Idle]
  BY DEF LoadFails, Asks, index, Set, history
<1>2. failed' \in BOOLEAN
  BY <1>1 DEF IInv, TypeOK
<1>3. CASE ask' = [ask EXCEPT ![t] = [ask[t] EXCEPT !.pc = "check", !.todo = {}]]
  <2>1. {} \in SUBSET Chunk /\ \A c \in {} : Approved(c)
    OBVIOUS
  <2> QED BY <1>1, <1>2, <1>3, <2>1, Takes
<1>4. CASE ask' = [ask EXCEPT ![t] = Idle]
  <2>1. Sees(Idle) /\ Idle.pc \notin {"fill", "index"}
    BY Kinds DEF Sees
  <2> QED BY <1>1, <1>2, <1>4, <2>1, AskKeeps
<1> QED BY <1>1, <1>3, <1>4

LEMMA SearchFailsKept ==
    ASSUME IInv, NEW t \in Threads, SearchFails(t)
    PROVE  IInv'
<1>1. /\ ~Asks(t, "idle") /\ ~Asks(t, "answer") /\ ~Asks(t, "fill")
      /\ UNCHANGED <<mode, note, vectors, rows, call, cache, once, torn, missed, swallowed>>
      /\ failed' \in BOOLEAN
      /\ ask' = [ask EXCEPT ![t] = [ask[t] EXCEPT !.pc = "cache"]]
  BY DEF SearchFails, Asks, Set, history
<1>2. ask' = [ask EXCEPT ![t] = [ask[t] EXCEPT !.pc = "cache", !.todo = ask[t].todo]]
  BY <1>1, Underway DEF Question
<1> QED BY <1>1, <1>2, Underway, Takes

LEMMA UseKept ==
    ASSUME IInv, NEW t \in Threads, UseCache(t)
    PROVE  IInv'
<1>1. /\ ~Asks(t, "idle") /\ ~Asks(t, "answer") /\ ~Asks(t, "fill")
      /\ UNCHANGED <<mode, note, vectors, rows, failed, call, cache, once, torn, missed, swallowed>>
      /\ ask' = [ask EXCEPT ![t] = [ask[t] EXCEPT !.pc = ask[t].next]]
  BY DEF UseCache, Asks, Set, index, history
<1>2. ask' = [ask EXCEPT ![t] = [ask[t] EXCEPT !.pc = ask[t].next, !.todo = ask[t].todo]]
  BY <1>1, Underway DEF Question
<1>3. failed' \in BOOLEAN
  BY <1>1 DEF IInv, TypeOK
<1>4. /\ ask[t].next \in {"vectors", "cache", "index", "hits", "check", "more"} /\ ask[t].next # "index"
      /\ ask[t].todo \in SUBSET Chunk /\ \A c \in ask[t].todo : Approved(c)
  BY <1>1, Underway
<1> QED BY <1>1, <1>2, <1>3, <1>4, Takes

\* A question that goes on with fewer chunks.
LEMMA Refilling ==
    ASSUME IInv, NEW t \in Threads, ~Asks(t, "idle"), ~Asks(t, "answer"),
           NEW pc \in {"vectors", "cache", "index", "fill", "hits", "check", "more"},
           NEW todo \in SUBSET Chunk, todo \subseteq ask[t].todo
    PROVE  LET q == [ask[t] EXCEPT !.pc = pc, !.todo = todo] IN
           Sees(q) /\ q.pc = pc /\ q.todo = todo
<1> DEFINE q == [ask[t] EXCEPT !.pc = pc, !.todo = todo]
<1>1. q = [ask[t] EXCEPT !.pc = pc, !.next = ask[t].next, !.todo = todo, !.kept = ask[t].kept]
  BY Underway DEF Question
<1>2. q.pc = pc /\ q.todo = todo
  BY Underway DEF Question
<1> HIDE DEF q
<1>3. /\ ask[t].next \in {"hits", "more"} /\ ask[t].kept \in SUBSET Chunk
      /\ \A c \in ask[t].kept : Approved(c) /\ c.note \in ask[t].since
      /\ \A c \in todo : Approved(c)
  BY Underway
<1>4. Sees(q)
  BY <1>1, <1>3, GoesOn
<1> QED BY <1>2, <1>4 DEF q

\* A step of a refill: the cache changes under every other question.
LEMMA Refills ==
    ASSUME IInv, NEW t \in Threads, ~Asks(t, "idle"), ~Asks(t, "answer"),
           NEW q, Sees(q), q.pc # "index", ask' = [ask EXCEPT ![t] = q],
           UNCHANGED <<mode, note, vectors, rows, failed, call, once, torn, missed, swallowed>>,
           cache' \in [docs : SUBSET Chunk, warm : BOOLEAN],
           cache'.docs \subseteq cache.docs \cup ask[t].todo,
           Quiet => (LoadedOK /\ NothingElse /\ NothingMissing => NothingElse' /\ NothingMissing')
    PROVE  IInv'
<1>t. TypeOK
  BY DEF IInv
<1>4. /\ ask'[t] = q
      /\ \A u \in Threads : u # t => ask'[u] = ask[u]
  BY <1>t DEF TypeOK
<1>5. CacheOK'
  <2> SUFFICES ASSUME Quiet' PROVE LoadedOK' /\ NothingElse' /\ NothingMissing'
    BY DEF CacheOK
  <2>1. Quiet
    BY DEF Quiet, At
  <2>2. LoadedOK /\ NothingElse /\ NothingMissing
    BY <2>1 DEF IInv, CacheOK
  <2>3. LoadedOK'
    BY <2>2, <1>4 DEF LoadedOK, Asks
  <2> QED BY <2>1, <2>2, <2>3
<1>6. \A c \in cache'.docs : Approved(c)
  BY Underway DEF IInv, OnlyApproved
<1>7. failed' \in BOOLEAN /\ swallowed' \in BOOLEAN
  BY <1>t DEF TypeOK
<1> QED BY <1>5, <1>6, <1>7, AskChanges

LEMMA ClearKept ==
    ASSUME IInv, NEW t \in Threads, ClearCache(t)
    PROVE  IInv'
<1>t. TypeOK
  BY DEF IInv
<1>1. /\ Asks(t, "index") /\ ~Asks(t, "idle") /\ ~Asks(t, "answer")
      /\ UNCHANGED <<mode, note, vectors, rows, failed, call, once, torn, missed, swallowed>>
      /\ ask' = [ask EXCEPT ![t] = [ask[t] EXCEPT !.pc = "fill"]]
      /\ cache' = [cache EXCEPT !.docs = {}]
  BY DEF ClearCache, Asks, Set, index, history
<1>2. ask' = [ask EXCEPT ![t] = [ask[t] EXCEPT !.pc = "fill", !.todo = ask[t].todo]]
  BY <1>1, Underway DEF Question
<1>3. cache' \in [docs : SUBSET Chunk, warm : BOOLEAN] /\ cache'.docs = {}
  BY <1>1, <1>t DEF TypeOK
<1>4. ask'[t].todo = ask[t].todo /\ ask'[t].pc = "fill" /\ \A u \in Threads : u # t => ask'[u] = ask[u]
  BY <1>1, <1>2, <1>t, Underway DEF TypeOK, Question
<1>5. ASSUME LoadedOK, NothingElse, NothingMissing PROVE NothingElse' /\ NothingMissing'
  <2>1. ask[t].todo = vectors
    BY <1>1, <1>5 DEF LoadedOK
  <2>2. NothingElse'
    BY <1>1, <1>3, <1>4, <1>5, <2>1 DEF NothingElse, Asks
  <2>3. NothingMissing'
    BY <1>1, <1>3, <1>4, <2>1 DEF NothingMissing, Asks
  <2> QED BY <2>2, <2>3
<1>6. ask[t].todo \in SUBSET Chunk
  BY <1>1, Underway
<1>7. cache'.docs \subseteq cache.docs \cup ask[t].todo
  BY <1>3
<1> DEFINE todo == ask[t].todo
           q == [ask[t] EXCEPT !.pc = "fill", !.todo = todo]
<1>9. ask' = [ask EXCEPT ![t] = q]
  BY <1>2
<1>8. Sees(q) /\ q.pc # "index"
  <2>1. todo \in SUBSET Chunk /\ todo \subseteq ask[t].todo
    BY <1>6
  <2> HIDE DEF todo
  <2> QED BY <1>1, <2>1, Refilling
<1> HIDE DEF q
<1> QED BY <1>1, <1>3, <1>5, <1>7, <1>8, <1>9, Refills

LEMMA FillKept ==
    ASSUME IInv, NEW t \in Threads, FillCache(t)
    PROVE  IInv'
<1>t. TypeOK
  BY DEF IInv
<1>1. /\ Asks(t, "fill") /\ ~Asks(t, "idle") /\ ~Asks(t, "answer") /\ ask[t].pc = "fill"
      /\ UNCHANGED <<mode, note, vectors, rows, failed, call, once, torn, missed, swallowed>>
  BY DEF FillCache, Asks, index, history
<1>2. PICK c \in ask[t].todo :
        /\ cache' = [cache EXCEPT !.docs = cache.docs \cup {c}]
        /\ ask' = [ask EXCEPT ![t] = [ask[t] EXCEPT !.todo = ask[t].todo \ {c}]]
  BY DEF FillCache, Set
<1> DEFINE todo == ask[t].todo \ {c}
<1>3. ask' = [ask EXCEPT ![t] = [ask[t] EXCEPT !.pc = "fill", !.todo = todo]]
  BY <1>1, <1>2, Underway DEF Question
<1>4. /\ cache' \in [docs : SUBSET Chunk, warm : BOOLEAN]
      /\ cache'.docs = cache.docs \cup {c} /\ cache'.warm = cache.warm
  BY <1>1, <1>2, <1>t, Underway DEF TypeOK
<1>5. ask'[t].todo = todo /\ ask'[t].pc = "fill" /\ \A u \in Threads : u # t => ask'[u] = ask[u]
  BY <1>1, <1>3, <1>t, Underway DEF TypeOK, Question
<1>6. ASSUME NothingElse, NothingMissing PROVE NothingElse' /\ NothingMissing'
  <2>1. Filling /\ ask[t].todo \subseteq vectors
    BY <1>1, <1>6 DEF Filling, NothingElse
  <2>2. cache'.docs \subseteq vectors
    BY <1>4, <1>6, <2>1 DEF NothingElse
  <2>3. NothingElse'
    BY <1>1, <1>5, <1>6, <2>1, <2>2 DEF NothingElse, Asks
  <2>4. ASSUME NEW d \in vectors
        PROVE  d \in cache'.docs \/ \E u \in Threads : Asks(u, "fill")' /\ d \in ask'[u].todo
    <3>1. d \in cache.docs \/ \E u \in Threads : Asks(u, "fill") /\ d \in ask[u].todo
      BY <1>6, <2>1 DEF NothingMissing
    <3>2. CASE d \in cache.docs
      BY <3>2, <1>4
    <3>3. ASSUME NEW u \in Threads, Asks(u, "fill"), d \in ask[u].todo
          PROVE  d \in cache'.docs \/ \E w \in Threads : Asks(w, "fill")' /\ d \in ask'[w].todo
      BY <3>3, <1>4, <1>5 DEF Asks
    <3> QED BY <3>1, <3>2, <3>3
  <2>5. NothingMissing'
    BY <1>1, <2>4 DEF NothingMissing
  <2> QED BY <2>3, <2>5
<1>7. todo \in SUBSET Chunk /\ todo \subseteq ask[t].todo
  BY <1>1, Underway
<1>10. cache'.docs \subseteq cache.docs \cup ask[t].todo
  BY <1>4
<1> HIDE DEF todo
<1> DEFINE q == [ask[t] EXCEPT !.pc = "fill", !.todo = todo]
<1>8. Sees(q) /\ q.pc = "fill"
  BY <1>1, <1>3, <1>7, Refilling
<1>9. ask' = [ask EXCEPT ![t] = q] /\ q.pc # "index"
  BY <1>1, <1>3, <1>7, <1>8
<1> HIDE DEF q
<1> QED BY <1>1, <1>4, <1>6, <1>8, <1>9, <1>10, Refills

LEMMA MarkKept ==
    ASSUME IInv, NEW t \in Threads, MarkBuilt(t)
    PROVE  IInv'
<1>t. TypeOK
  BY DEF IInv
<1>1. /\ Asks(t, "fill") /\ ~Asks(t, "idle") /\ ~Asks(t, "answer") /\ ask[t].todo = {}
      /\ UNCHANGED <<mode, note, vectors, rows, failed, call, once, torn, missed, swallowed>>
      /\ cache' = [cache EXCEPT !.warm = TRUE]
      /\ ask' = [ask EXCEPT ![t] = [ask[t] EXCEPT !.pc = ask[t].next]]
  BY DEF MarkBuilt, Asks, Set, index, history
<1>2. ask' = [ask EXCEPT ![t] = [ask[t] EXCEPT !.pc = ask[t].next, !.todo = {}]]
  BY <1>1, Underway DEF Question
<1>3. cache' \in [docs : SUBSET Chunk, warm : BOOLEAN] /\ cache'.docs = cache.docs
  BY <1>1, <1>t DEF TypeOK
<1>4. /\ ask[t].next \in {"vectors", "cache", "index", "fill", "hits", "check", "more"}
      /\ ask[t].next # "index" /\ ask[t].next # "fill"
  BY <1>1, Underway
<1>5. ask'[t].pc # "fill" /\ \A u \in Threads : u # t => ask'[u] = ask[u]
  BY <1>1, <1>2, <1>4, <1>t, Underway DEF TypeOK, Question
<1>6. ASSUME NothingElse, NothingMissing PROVE NothingElse' /\ NothingMissing'
  <2>1. Filling
    BY <1>1 DEF Filling
  <2>2. cache'.docs \subseteq vectors
    BY <1>3, <1>6, <2>1 DEF NothingElse
  <2>3. NothingElse'
    BY <1>1, <1>5, <1>6, <2>2 DEF NothingElse, Asks
  <2>4. ASSUME NEW d \in vectors
        PROVE  d \in cache'.docs \/ \E u \in Threads : Asks(u, "fill")' /\ d \in ask'[u].todo
    <3>1. d \in cache.docs \/ \E u \in Threads : Asks(u, "fill") /\ d \in ask[u].todo
      BY <1>6, <2>1 DEF NothingMissing
    <3>2. CASE d \in cache.docs
      BY <3>2, <1>3
    <3>3. ASSUME NEW u \in Threads, Asks(u, "fill"), d \in ask[u].todo
          PROVE  \E w \in Threads : Asks(w, "fill")' /\ d \in ask'[w].todo
      BY <3>3, <1>1, <1>5 DEF Asks
    <3> QED BY <3>1, <3>2, <3>3
  <2>5. NothingMissing'
    BY <1>1, <2>4 DEF NothingMissing
  <2> QED BY <2>3, <2>5
<1>7. cache'.docs \subseteq cache.docs \cup ask[t].todo /\ {} \in SUBSET Chunk /\ {} \subseteq ask[t].todo
  BY <1>3
<1> DEFINE next == ask[t].next
           todo == {}
           q == [ask[t] EXCEPT !.pc = next, !.todo = todo]
<1>9. ask' = [ask EXCEPT ![t] = q]
  BY <1>2
<1>8. Sees(q) /\ q.pc # "index"
  <2>1. /\ next \in {"vectors", "cache", "index", "fill", "hits", "check", "more"} /\ next # "index"
        /\ todo \in SUBSET Chunk /\ todo \subseteq ask[t].todo
    BY <1>4
  <2> HIDE DEF next, todo
  <2> QED BY <1>1, <2>1, Refilling
<1> HIDE DEF q
<1> QED BY <1>1, <1>3, <1>6, <1>7, <1>8, <1>9, Refills

LEMMA CheckKept ==
    ASSUME IInv, NEW t \in Threads, Check(t)
    PROVE  IInv'
<1>1. /\ ~Asks(t, "idle") /\ ~Asks(t, "answer") /\ ~Asks(t, "fill") /\ ask[t].pc = "check"
      /\ UNCHANGED <<mode, note, vectors, rows, failed, call, cache, once, torn, missed, swallowed>>
  BY DEF Check, Asks, index, history
<1>2. PICK c \in ask[t].todo :
        Set(t, [ask[t] EXCEPT !.todo = ask[t].todo \ {c},
                              !.kept = IF Eligible(c) THEN ask[t].kept \cup {c} ELSE ask[t].kept])
  BY DEF Check
<1> DEFINE todo == ask[t].todo \ {c}
           kept == IF Eligible(c) THEN ask[t].kept \cup {c} ELSE ask[t].kept
           q == [ask[t] EXCEPT !.todo = todo, !.kept = kept]
<1>3. todo \in SUBSET Chunk /\ kept \in SUBSET Chunk /\ \A d \in todo : Approved(d)
  BY <1>1, Underway
<1>4. \A d \in kept : Approved(d) /\ d.note \in ask[t].since
  <2>1. c \in Chunk /\ c.note \in Notes
    BY <1>1, Underway DEF Chunk
  <2>2. Eligible(c) => c.note \in ask[t].since
    BY <2>1, <1>1, Underway DEF Eligible
  <2> QED BY <2>2, <1>1, Underway
<1>5. q = [ask[t] EXCEPT !.pc = "check", !.next = ask[t].next, !.todo = todo, !.kept = kept]
  BY <1>1, Underway DEF Question
<1>6. ask' = [ask EXCEPT ![t] = q]
  BY <1>2 DEF Set
<1>p. q.pc = "check"
  BY <1>1, Underway DEF Question
<1> HIDE DEF q, todo, kept
<1>7. ask[t].next \in {"hits", "more"}
  BY <1>1, Underway
<1>8. Sees(q)
  <2>1. "check" \in {"vectors", "cache", "index", "fill", "hits", "check", "more"}
    OBVIOUS
  <2> QED BY <1>1, <1>3, <1>4, <1>5, <1>7, <2>1, GoesOn
<1>9. failed' \in BOOLEAN
  BY <1>1 DEF IInv, TypeOK
<1> QED BY <1>1, <1>p, <1>6, <1>8, <1>9, AskKeeps

LEMMA MoreKept ==
    ASSUME IInv, NEW t \in Threads, AskForMore(t)
    PROVE  IInv'
<1>1. /\ ~Asks(t, "idle") /\ ~Asks(t, "answer") /\ ~Asks(t, "fill")
      /\ UNCHANGED <<mode, note, vectors, rows, failed, call, cache, once, torn, missed, swallowed>>
  BY DEF AskForMore, Asks, index, history
<1> DEFINE q == [ask[t] EXCEPT !.pc = "cache", !.next = "more"]
<1>2. q = [ask[t] EXCEPT !.pc = "cache", !.next = "more", !.todo = ask[t].todo, !.kept = ask[t].kept]
  BY <1>1, Underway DEF Question
<1>3. ask' = [ask EXCEPT ![t] = q]
  BY DEF AskForMore, Set
<1>p. q.pc = "cache"
  BY <1>1, Underway DEF Question
<1> HIDE DEF q
<1>4. Sees(q)
  <2>1. /\ ask[t].kept \in SUBSET Chunk /\ ask[t].todo \in SUBSET Chunk
        /\ \A c \in ask[t].kept : Approved(c) /\ c.note \in ask[t].since
        /\ \A c \in ask[t].todo : Approved(c)
    BY <1>1, Underway
  <2>2. "cache" \in {"vectors", "cache", "index", "fill", "hits", "check", "more"} /\ "more" \in {"hits", "more"}
    OBVIOUS
  <2> QED BY <1>1, <1>2, <2>1, <2>2, GoesOn
<1>5. failed' \in BOOLEAN
  BY <1>1 DEF IInv, TypeOK
<1> QED BY <1>1, <1>p, <1>3, <1>4, <1>5, AskKeeps

LEMMA BoundKept ==
    ASSUME IInv, NEW t \in Threads, Bound(t)
    PROVE  IInv'
<1>1. /\ ~Asks(t, "idle") /\ ~Asks(t, "answer") /\ ~Asks(t, "fill")
      /\ UNCHANGED <<mode, note, vectors, rows, failed, call, cache, once, torn, missed, swallowed>>
  BY DEF Bound, Asks, index, history
<1>2. PICK chosen \in SUBSET ask[t].kept :
        Set(t, [pc |-> "answer", kept |-> chosen, since |-> ask[t].since])
  BY DEF Bound
<1> DEFINE q == [pc |-> "answer", kept |-> chosen, since |-> ask[t].since]
<1>3. q \in Evidence /\ q.pc = "answer" /\ q.kept = chosen /\ q.since = ask[t].since
  BY <1>1, Underway DEF Evidence
<1>4. ask' = [ask EXCEPT ![t] = q]
  BY <1>2 DEF Set
<1> HIDE DEF q
<1>5. Sees(q)
  BY <1>1, <1>3, Underway, Kinds DEF Sees
<1>6. failed' \in BOOLEAN
  BY <1>1 DEF IInv, TypeOK
<1> QED BY <1>1, <1>3, <1>4, <1>5, <1>6, AskKeeps

LEMMA ReplyKept ==
    ASSUME IInv, NEW t \in Threads, Reply(t)
    PROVE  IInv'
<1>1. /\ ask' = [ask EXCEPT ![t] = Idle] /\ ~Asks(t, "fill")
      /\ UNCHANGED <<mode, note, vectors, rows, failed, call, cache, once, torn, missed, swallowed>>
  BY DEF Reply, Asks, Set, index, history
<1>2. Sees(Idle) /\ Idle.pc \notin {"fill", "index"}
  BY Kinds DEF Sees
<1>3. failed' \in BOOLEAN
  BY <1>1 DEF IInv, TypeOK
<1> QED BY <1>1, <1>2, <1>3, AskKeeps

LEMMA AskingKeeps ==
    ASSUME IInv, NEW t \in Threads, Asking(t)
    PROVE  IInv'
BY AskKept, DraftKept, SearchKept, SearchFailsKept, LoadKept, LoadNothingKept, LoadFailsKept,
   ClearKept, FillKept, MarkKept, UseKept, CheckKept, MoreKept, BoundKept, ReplyKept DEF Asking

-----------------------------------------------------------------------------
(* A step of a publication changes the chunks of its note and nothing else.  *)
LEMMA PublicationKeeps ==
    ASSUME IInv, NEW n \in Notes, NEW next \in {Idle} \cup Publication,
           call' = [call EXCEPT ![n] = next],
           UNCHANGED <<mode, note, ask, cache, once>>,
           vectors' \subseteq Chunk, rows' \subseteq Chunk, failed' \in BOOLEAN, swallowed' \in BOOLEAN,
           \A c \in Chunk : c.note # n => (c \in vectors' <=> c \in vectors)
                                       /\ (c \in rows' <=> c \in rows),
           \A c \in vectors' \cup rows' : Approved(c),
           torn \subseteq torn', torn' \subseteq torn \cup {n}, missed' \subseteq Notes,
           \A m \in Notes : m # n => (m \in missed' <=> m \in missed),
           PublicationOK(n)',
           \A c \in Chunk : c.note = n => ChunkOK(c)',
           Quiet' => Quiet /\ vectors' = vectors
    PROVE  IInv'
<1>t. TypeOK
  BY DEF IInv
<1>a. /\ call'[n] = next
      /\ \A m \in Notes : m # n => call'[m] = call[m]
  BY <1>t DEF TypeOK
<1>o. \A c : Approved(c)' <=> Approved(c)
  BY DEF Approved, Cut
<1>1. TypeOK'
  <2>1. call' \in [Notes -> {Idle} \cup Publication]
    BY <1>t DEF TypeOK
  <2> QED BY <2>1, <1>t DEF TypeOK
<1>2. OnlyApproved'
  BY <1>o DEF IInv, OnlyApproved
<1>3. \A m \in Notes : PublicationOK(m)'
  <2>1. ASSUME NEW m \in Notes, m # n PROVE PublicationOK(m)'
    <3>1. call'[m] = call[m] /\ (m \in missed' \cup torn' <=> m \in missed \cup torn)
      BY <2>1, <1>a
    <3>2. PublicationOK(m)
      BY DEF IInv
    <3> QED BY <3>1, <3>2, <1>o DEF PublicationOK, Latest
  <2> QED BY <2>1
<1>4. \A c \in Chunk : ChunkOK(c)'
  <2>1. ASSUME NEW c \in Chunk, c.note # n PROVE ChunkOK(c)'
    <3>1. c.note \in Notes
      BY DEF Chunk
    <3>2. call'[c.note] = call[c.note]
      BY <1>a, <2>1, <3>1
    <3>3. /\ c \in vectors' <=> c \in vectors
          /\ c \in rows' <=> c \in rows
          /\ c.note \in torn' <=> c.note \in torn
          /\ c.note \in missed' <=> c.note \in missed
      BY <2>1, <3>1
    <3>4. ChunkOK(c)
      BY DEF IInv
    <3> QED BY <3>2, <3>3, <3>4 DEF ChunkOK, VectorOK, RowOK, SettledOK, IsNew, Earlier, Latest, At
  <2> QED BY <2>1
<1>5. \A t \in Threads : AskOK(t)'
  BY <1>o DEF IInv, AskOK, Seen, Publishable
<1>6. CacheOK'
  <2> SUFFICES ASSUME Quiet' PROVE LoadedOK' /\ NothingElse' /\ NothingMissing'
    BY DEF CacheOK
  <2>1. LoadedOK /\ NothingElse /\ NothingMissing /\ vectors' = vectors
    BY DEF IInv, CacheOK
  <2> QED BY <2>1 DEF LoadedOK, NothingElse, NothingMissing, Filling, Warm, Asks
<1> QED BY <1>1, <1>2, <1>3, <1>4, <1>5, <1>6 DEF IInv

\* What holds of a publication under way, chunk by chunk.
LEMMA Publishes ==
    ASSUME IInv, NEW n \in Notes, ~At(n, "idle")
    PROVE  /\ call[n] \in Publication
           /\ call[n].todo \subseteq Chunk /\ call[n].chunks \subseteq Chunk /\ call[n].published \subseteq Chunk
           /\ call[n].todo \subseteq call[n].chunks
           /\ \A c \in call[n].chunks : c.note = n /\ Approved(c) /\ c \notin call[n].published
           /\ \A c \in call[n].published : c.note = n /\ Approved(c)
<1>1. call[n] \in Publication /\ call[n] # Idle
  BY CallShape, Kinds DEF IInv
<1>2. PublicationOK(n)
  BY DEF IInv
<1> QED BY <1>1, <1>2 DEF PublicationOK, Publication

\* A publication that goes on.
LEMMA Moved ==
    ASSUME NEW p \in Publication, NEW pc \in {"embed", "publish", "withdraw", "unpublish", "clean", "forget", "notify"}
    PROVE  LET q == [p EXCEPT !.pc = pc] IN
           /\ q \in Publication /\ q # Idle /\ q.pc = pc
           /\ q.todo = p.todo /\ q.chunks = p.chunks /\ q.published = p.published
<1> DEFINE q == [p EXCEPT !.pc = pc]
<1>1. /\ q \in Publication /\ q.pc = pc
      /\ q.todo = p.todo /\ q.chunks = p.chunks /\ q.published = p.published
  BY DEF Publication
<1>2. q # Idle
  <2> HIDE DEF q
  <2> QED BY <1>1, Kinds
<1> QED BY <1>1, <1>2

\* So it does, its chunks where the next step expects them.
LEMMA StepKeeps ==
    ASSUME IInv, NEW n \in Notes, ~At(n, "idle"),
           NEW pc \in {"publish", "withdraw", "unpublish", "clean", "forget", "notify"}, Goto(n, pc),
           UNCHANGED <<mode, note, failed, ask, cache, once, torn, missed, swallowed>>,
           \A c \in vectors' : c \in vectors \/ c \in call[n].chunks,
           \A c \in vectors : c.note # n => c \in vectors',
           \A c \in rows' : c \in rows,
           \A c \in rows : c.note # n => c \in rows',
           \A c \in Chunk : c.note = n /\ n \notin torn =>
               (VectorOK(c) /\ RowOK(c) /\ call'[n].pc = pc => VectorOK(c)' /\ RowOK(c)')
    PROVE  IInv'
<1>t. TypeOK
  BY DEF IInv
<1> DEFINE next == [call[n] EXCEPT !.pc = pc]
<1>1. /\ next \in Publication /\ next # Idle /\ next.pc = pc
      /\ next.todo = call[n].todo /\ next.chunks = call[n].chunks /\ next.published = call[n].published
  <2>1. pc \in {"embed", "publish", "withdraw", "unpublish", "clean", "forget", "notify"} /\ call[n] \in Publication
    BY Publishes
  <2> QED BY <2>1, Moved
<1>2. call' = [call EXCEPT ![n] = next]
  BY DEF Goto
<1> HIDE DEF next
<1>3. call'[n] = next
  BY <1>2, <1>t DEF TypeOK
<1>4. /\ vectors' \subseteq Chunk /\ rows' \subseteq Chunk
      /\ \A c \in vectors' \cup rows' : Approved(c)
  BY Publishes, <1>t DEF IInv, TypeOK, OnlyApproved
<1>5. ASSUME NEW c \in Chunk, c.note # n
      PROVE  (c \in vectors' <=> c \in vectors) /\ (c \in rows' <=> c \in rows)
  BY <1>5, Publishes
<1>6. PublicationOK(n)'
  <2>1. PublicationOK(n) /\ call[n] # Idle
    BY Kinds, Publishes DEF IInv
  <2>2. \A c : (Approved(c)' <=> Approved(c)) /\ (Latest(c)' <=> Latest(c))
    BY DEF Approved, Cut, Latest
  <2> QED BY <1>1, <1>3, <2>1, <2>2 DEF PublicationOK
<1>7. ASSUME NEW c \in Chunk, c.note = n PROVE ChunkOK(c)'
  <2>1. ChunkOK(c)
    BY DEF IInv
  <2>2. call'[n].pc = pc /\ call'[n].pc # "idle"
    BY <1>1, <1>3
  <2> QED BY <2>1, <2>2, <1>7 DEF ChunkOK, SettledOK, At
<1>8. ~Quiet'
  BY <1>1, <1>3 DEF Quiet, At
<1>9. failed' \in BOOLEAN /\ swallowed' \in BOOLEAN /\ missed' \subseteq Notes
  BY <1>t DEF TypeOK
<1> QED BY <1>1, <1>2, <1>4, <1>5, <1>6, <1>7, <1>8, <1>9, PublicationKeeps

LEMMA EmbedKept ==
    ASSUME IInv, NEW n \in Notes, Embed(n)
    PROVE  IInv'
<1>1. /\ ~At(n, "idle") /\ call[n].pc = "embed" /\ Goto(n, "publish")
      /\ UNCHANGED <<mode, note, failed, ask, cache, once, torn, missed, swallowed>>
      /\ vectors' = vectors \cup call[n].todo /\ rows' = rows
  BY DEF Embed, At, index, history
<1>2. /\ call'[n] = [call[n] EXCEPT !.pc = "publish"]
      /\ call'[n].todo = call[n].todo /\ call'[n].chunks = call[n].chunks
      /\ call'[n].published = call[n].published
  BY <1>1, Publishes DEF Goto, IInv, TypeOK, Publication
<1>3. ASSUME NEW c \in Chunk, c.note = n, VectorOK(c), RowOK(c), call'[n].pc = "publish"
      PROVE  VectorOK(c)' /\ RowOK(c)'
  <2>1. /\ IsNew(c) <=> c \in call[n].chunks
        /\ Earlier(c) <=> c \in call[n].published
        /\ IsNew(c)' <=> IsNew(c)
        /\ Earlier(c)' <=> Earlier(c)
        /\ c \in call[n].todo => IsNew(c)
        /\ Earlier(c) => ~IsNew(c)
    BY <1>1, <1>2, <1>3, Publishes DEF IsNew, Earlier
  <2> QED BY <1>1, <1>2, <1>3, <2>1 DEF VectorOK, RowOK
<1> QED BY <1>1, <1>3, Publishes, StepKeeps

LEMMA PublishFailsKept ==
    ASSUME IInv, NEW n \in Notes, PublishFails(n)
    PROVE  IInv'
<1>1. /\ ~At(n, "idle") /\ call[n].pc = "publish" /\ Goto(n, "withdraw")
      /\ UNCHANGED <<mode, note, failed, ask, cache, once, torn, missed, swallowed>>
      /\ vectors' = vectors /\ rows' = rows
  BY DEF PublishFails, At, index, history
<1>2. /\ call'[n] = [call[n] EXCEPT !.pc = "withdraw"]
      /\ call'[n].todo = call[n].todo /\ call'[n].chunks = call[n].chunks
      /\ call'[n].published = call[n].published
  BY <1>1, Publishes DEF Goto, IInv, TypeOK, Publication
<1>3. ASSUME NEW c \in Chunk, c.note = n, VectorOK(c), RowOK(c), call'[n].pc = "withdraw"
      PROVE  VectorOK(c)' /\ RowOK(c)'
  <2>1. /\ IsNew(c) <=> c \in call[n].chunks
        /\ Earlier(c) <=> c \in call[n].published
        /\ IsNew(c)' <=> IsNew(c)
        /\ Earlier(c)' <=> Earlier(c)
        /\ c \in call[n].todo => IsNew(c)
        /\ Earlier(c) => ~IsNew(c)
    BY <1>1, <1>2, <1>3, Publishes DEF IsNew, Earlier
  <2> QED BY <1>1, <1>2, <1>3, <2>1 DEF VectorOK, RowOK
<1> QED BY <1>1, <1>3, Publishes, StepKeeps

LEMMA WithdrawKept ==
    ASSUME IInv, NEW n \in Notes, Withdraw(n)
    PROVE  IInv'
<1>1. /\ ~At(n, "idle") /\ call[n].pc = "withdraw" /\ Goto(n, "unpublish")
      /\ UNCHANGED <<mode, note, failed, ask, cache, once, torn, missed, swallowed>>
      /\ vectors' = vectors \ (call[n].chunks \ call[n].published) /\ rows' = rows
  BY DEF Withdraw, At, index, history, New
<1>2. /\ call'[n] = [call[n] EXCEPT !.pc = "unpublish"]
      /\ call'[n].todo = call[n].todo /\ call'[n].chunks = call[n].chunks
      /\ call'[n].published = call[n].published
  BY <1>1, Publishes DEF Goto, IInv, TypeOK, Publication
<1>3. ASSUME NEW c \in Chunk, c.note = n, VectorOK(c), RowOK(c), call'[n].pc = "unpublish"
      PROVE  VectorOK(c)' /\ RowOK(c)'
  <2>1. /\ IsNew(c) <=> c \in call[n].chunks
        /\ Earlier(c) <=> c \in call[n].published
        /\ IsNew(c)' <=> IsNew(c)
        /\ Earlier(c)' <=> Earlier(c)
        /\ c \in call[n].todo => IsNew(c)
        /\ Earlier(c) => ~IsNew(c)
    BY <1>1, <1>2, <1>3, Publishes DEF IsNew, Earlier
  <2> QED BY <1>1, <1>2, <1>3, <2>1 DEF VectorOK, RowOK
<1> QED BY <1>1, <1>3, Publishes, StepKeeps

LEMMA CleanKept ==
    ASSUME IInv, NEW n \in Notes, Clean(n)
    PROVE  IInv'
<1>1. /\ ~At(n, "idle") /\ call[n].pc = "clean" /\ Goto(n, "forget")
      /\ UNCHANGED <<mode, note, failed, ask, cache, once, torn, missed, swallowed>>
      /\ vectors' = vectors \ call[n].published /\ rows' = rows
  BY DEF Clean, At, index, history
<1>2. /\ call'[n] = [call[n] EXCEPT !.pc = "forget"]
      /\ call'[n].todo = call[n].todo /\ call'[n].chunks = call[n].chunks
      /\ call'[n].published = call[n].published
  BY <1>1, Publishes DEF Goto, IInv, TypeOK, Publication
<1>3. ASSUME NEW c \in Chunk, c.note = n, VectorOK(c), RowOK(c), call'[n].pc = "forget"
      PROVE  VectorOK(c)' /\ RowOK(c)'
  <2>1. /\ IsNew(c) <=> c \in call[n].chunks
        /\ Earlier(c) <=> c \in call[n].published
        /\ IsNew(c)' <=> IsNew(c)
        /\ Earlier(c)' <=> Earlier(c)
        /\ c \in call[n].todo => IsNew(c)
        /\ Earlier(c) => ~IsNew(c)
    BY <1>1, <1>2, <1>3, Publishes DEF IsNew, Earlier
  <2> QED BY <1>1, <1>2, <1>3, <2>1 DEF VectorOK, RowOK
<1> QED BY <1>1, <1>3, Publishes, StepKeeps

LEMMA ForgetKept ==
    ASSUME IInv, NEW n \in Notes, Forget(n)
    PROVE  IInv'
<1>1. /\ ~At(n, "idle") /\ call[n].pc = "forget" /\ Goto(n, "notify")
      /\ UNCHANGED <<mode, note, failed, ask, cache, once, torn, missed, swallowed>>
      /\ vectors' = vectors /\ rows' = rows \ call[n].published
  BY DEF Forget, At, index, history
<1>2. /\ call'[n] = [call[n] EXCEPT !.pc = "notify"]
      /\ call'[n].todo = call[n].todo /\ call'[n].chunks = call[n].chunks
      /\ call'[n].published = call[n].published
  BY <1>1, Publishes DEF Goto, IInv, TypeOK, Publication
<1>3. ASSUME NEW c \in Chunk, c.note = n, VectorOK(c), RowOK(c), call'[n].pc = "notify"
      PROVE  VectorOK(c)' /\ RowOK(c)'
  <2>1. /\ IsNew(c) <=> c \in call[n].chunks
        /\ Earlier(c) <=> c \in call[n].published
        /\ IsNew(c)' <=> IsNew(c)
        /\ Earlier(c)' <=> Earlier(c)
        /\ c \in call[n].todo => IsNew(c)
        /\ Earlier(c) => ~IsNew(c)
    BY <1>1, <1>2, <1>3, Publishes DEF IsNew, Earlier
  <2> QED BY <1>1, <1>2, <1>3, <2>1 DEF VectorOK, RowOK
<1> QED BY <1>1, <1>3, Publishes, StepKeeps

LEMMA PublishKept ==
    ASSUME IInv, NEW n \in Notes, Publish(n)
    PROVE  IInv'
<1>t. TypeOK
  BY DEF IInv
<1>1. ~At(n, "idle") /\ call[n].pc = "publish"
  BY DEF Publish, At
<1>2. PICK d \in call[n].todo :
        /\ rows' = rows \cup {d}
        /\ call' = [call EXCEPT ![n].todo = @ \ {d},
                      ![n].pc = IF call[n].todo # {d} THEN "publish"
                                ELSE IF call[n].published = {} THEN "notify" ELSE "clean"]
  BY DEF Publish
<1> DEFINE pc == IF call[n].todo # {d} THEN "publish"
                 ELSE IF call[n].published = {} THEN "notify" ELSE "clean"
           next == [call[n] EXCEPT !.todo = call[n].todo \ {d}, !.pc = pc]
<1>3. /\ next \in Publication /\ next.pc = pc
      /\ next.todo = call[n].todo \ {d} /\ next.chunks = call[n].chunks
      /\ next.published = call[n].published
  <2>1. call[n] \in Publication /\ call[n].todo \ {d} \in SUBSET Chunk
    BY <1>1, Publishes
  <2>2. pc \in {"embed", "publish", "withdraw", "unpublish", "clean", "forget", "notify"}
    OBVIOUS
  <2> HIDE DEF pc
  <2> QED BY <2>1, <2>2 DEF Publication
<1>4. call' = [call EXCEPT ![n] = next]
  BY <1>2, <1>t DEF TypeOK
<1>5. pc \notin {"idle", "embed"} /\ next # Idle
  <2> HIDE DEF next
  <2> QED BY <1>3, Kinds
<1>6. d \in Chunk /\ d.note = n /\ Approved(d) /\ d \in call[n].chunks
  BY <1>1, Publishes
<1>7. /\ UNCHANGED <<mode, note, ask, cache, once, swallowed, torn, missed, vectors, failed>>
      /\ vectors' \subseteq Chunk /\ rows' \subseteq Chunk /\ failed' \in BOOLEAN
      /\ swallowed' \in BOOLEAN /\ missed' \subseteq Notes
      /\ \A c \in vectors' \cup rows' : Approved(c)
  BY <1>2, <1>6, <1>t DEF Publish, IInv, TypeOK, OnlyApproved, history
<1> HIDE DEF next
<1>8. call'[n] = next
  BY <1>4, <1>t DEF TypeOK
<1>9. \A c \in Chunk : c.note # n => (c \in vectors' <=> c \in vectors) /\ (c \in rows' <=> c \in rows)
  BY <1>2, <1>6, <1>7
<1>10. PublicationOK(n)'
  <2>1. PublicationOK(n) /\ call[n] # Idle
    BY <1>1, Kinds, Publishes DEF IInv
  <2>2. \A c : (Approved(c)' <=> Approved(c)) /\ (Latest(c)' <=> Latest(c))
    BY <1>7 DEF Approved, Cut, Latest
  <2> QED BY <1>3, <1>7, <1>8, <2>1, <2>2 DEF PublicationOK
<1>11. ASSUME NEW c \in Chunk, c.note = n PROVE ChunkOK(c)'
  <2>1. ChunkOK(c)
    BY DEF IInv
  <2>2. /\ IsNew(c) <=> c \in call[n].chunks
        /\ Earlier(c) <=> c \in call[n].published
        /\ IsNew(c)' <=> IsNew(c)
        /\ Earlier(c)' <=> Earlier(c)
        /\ c \in call[n].todo => IsNew(c)
        /\ Earlier(c) => ~IsNew(c)
    BY <1>1, <1>3, <1>8, <1>11, Publishes DEF IsNew, Earlier
  <2>4. /\ c \in vectors' <=> c \in vectors
        /\ c \in rows' <=> c \in rows \/ c = d
        /\ c.note \in torn' <=> c.note \in torn
    BY <1>2, <1>7
  <2>5. call'[c.note].pc = pc /\ call[c.note].pc = "publish"
        /\ call'[c.note].todo = call[n].todo \ {d} /\ call[c.note].todo = call[n].todo
    BY <1>1, <1>3, <1>8, <1>11
  <2>6. CASE pc = "publish"
    <3> HIDE DEF pc
    <3> QED BY <1>2, <1>11, <2>1, <2>2, <2>4, <2>5, <2>6 DEF ChunkOK, VectorOK, RowOK, SettledOK, At
  <2>7. CASE pc = "clean"
    <3>1. call[n].todo = {d}
      BY <2>7
    <3> HIDE DEF pc
    <3> QED BY <3>1, <1>11, <2>1, <2>2, <2>4, <2>5, <2>7 DEF ChunkOK, VectorOK, RowOK, SettledOK, At
  <2>8. CASE pc = "notify"
    <3>1. call[n].todo = {d} /\ call[n].published = {}
      BY <2>8
    <3> HIDE DEF pc
    <3> QED BY <3>1, <1>11, <2>1, <2>2, <2>4, <2>5, <2>8 DEF ChunkOK, VectorOK, RowOK, SettledOK, At
  <2> QED BY <2>6, <2>7, <2>8
<1>12. ~Quiet'
  BY <1>3, <1>5, <1>8 DEF Quiet, At
<1> QED BY <1>3, <1>4, <1>5, <1>7, <1>9, <1>10, <1>11, <1>12, PublicationKeeps

\* A publication that ends without its announcement.
LEMMA BrokenOff ==
    ASSUME IInv, NEW n \in Notes, ~At(n, "idle"), End(n),
           UNCHANGED <<mode, note, vectors, ask, cache, once>>, failed' \in BOOLEAN,
           rows' \subseteq Chunk,
           \A c \in Chunk : c.note # n => (c \in rows' <=> c \in rows),
           \A c \in rows' : c \in rows \/ c \in call[n].published,
           \/ Breaks(n)
           \/ /\ torn' = torn /\ missed' = missed \cup ({n} \ torn)
              /\ swallowed' = TRUE \/ (swallowed' = swallowed /\ At(n, "embed"))
              /\ n \notin torn => \A c \in Chunk : c.note = n => (c \in rows' <=> c \in vectors)
    PROVE  IInv'
<1>t. TypeOK
  BY DEF IInv
<1>1. /\ call' = [call EXCEPT ![n] = Idle] /\ call'[n] = Idle
      /\ \A m \in Notes : m # n => call'[m] = call[m]
  BY <1>t DEF End, TypeOK
<1>2. /\ torn \subseteq torn' /\ torn' \subseteq torn \cup {n}
      /\ \A m \in Notes : m # n => (m \in missed' <=> m \in missed)
      /\ missed' \subseteq Notes /\ swallowed' \in BOOLEAN
  BY <1>t DEF Breaks, TypeOK
<1>3. vectors' \subseteq Chunk /\ \A c \in vectors' \cup rows' : Approved(c)
  BY Publishes DEF IInv, TypeOK, OnlyApproved
<1>4. PublicationOK(n)'
  BY <1>1 DEF PublicationOK
<1>5. ASSUME NEW c \in Chunk, c.note = n PROVE ChunkOK(c)'
  <2>1. call'[c.note].pc = "idle"
    BY <1>1, <1>5 DEF Idle
  <2>2. CASE Breaks(n)
    BY <2>2, <1>5 DEF Breaks, ChunkOK
  <2>3. CASE /\ torn' = torn /\ missed' = missed \cup ({n} \ torn)
             /\ n \notin torn => \A e \in Chunk : e.note = n => (e \in rows' <=> e \in vectors)
    BY <2>1, <2>3, <1>5 DEF ChunkOK, VectorOK, RowOK, SettledOK
  <2> QED BY <2>2, <2>3
<1>6. Quiet' => Quiet /\ vectors' = vectors
  <2> SUFFICES ASSUME Quiet' PROVE Quiet
    OBVIOUS
  <2>1. ~swallowed' /\ swallowed' # TRUE /\ \A m \in Notes : At(m, "idle")' \/ At(m, "embed")'
    BY DEF Quiet
  <2>2. swallowed' = swallowed /\ At(n, "embed")
    BY <2>1 DEF Breaks
  <2>3. \A m \in Notes : At(m, "idle") \/ At(m, "embed")
    BY <2>1, <2>2, <1>1 DEF At
  <2> QED BY <2>1, <2>2, <2>3 DEF Quiet
<1> QED BY <1>1, <1>2, <1>3, <1>4, <1>5, <1>6, PublicationKeeps

LEMMA EmbedFailsKept ==
    ASSUME IInv, NEW n \in Notes, EmbedFails(n)
    PROVE  IInv'
<1>1. /\ ~At(n, "idle") /\ At(n, "embed") /\ call[n].pc = "embed" /\ End(n)
      /\ UNCHANGED <<mode, note, vectors, rows, ask, cache, once, torn, swallowed>> /\ failed' \in BOOLEAN
      /\ missed' = missed \cup ({n} \ torn)
  BY DEF EmbedFails, At, Misses
<1>2. ASSUME n \notin torn, NEW c \in Chunk, c.note = n PROVE c \in rows' <=> c \in vectors
  BY <1>1, <1>2 DEF IInv, ChunkOK, VectorOK, RowOK
<1>3. rows' \subseteq Chunk /\ \A c : c \in rows' <=> c \in rows
  BY <1>1 DEF IInv, TypeOK
<1> QED BY <1>1, <1>2, <1>3, BrokenOff

LEMMA UnpublishKept ==
    ASSUME IInv, NEW n \in Notes, Unpublish(n)
    PROVE  IInv'
<1>1. /\ ~At(n, "idle") /\ call[n].pc = "unpublish" /\ End(n)
      /\ UNCHANGED <<mode, note, vectors, ask, cache, once, torn>> /\ failed' \in BOOLEAN
      /\ missed' = missed \cup ({n} \ torn) /\ swallowed' = TRUE
      /\ rows' = (rows \ call[n].chunks) \cup call[n].published
  BY DEF Unpublish, At, IInv, TypeOK
<1>2. ASSUME NEW c \in Chunk, c.note # n PROVE c \in rows' <=> c \in rows
  BY <1>1, <1>2, Publishes
<1>3. ASSUME n \notin torn, NEW c \in Chunk, c.note = n PROVE c \in rows' <=> c \in vectors
  <2>1. /\ IsNew(c) <=> c \in call[n].chunks
        /\ Earlier(c) <=> c \in call[n].published
    BY <1>1, <1>3 DEF IsNew, Earlier
  <2>2. VectorOK(c) /\ RowOK(c)
    BY <1>3 DEF IInv, ChunkOK
  <2> QED BY <1>1, <1>3, <2>1, <2>2 DEF VectorOK, RowOK
<1>4. rows' \subseteq Chunk /\ \A c \in rows' : c \in rows \/ c \in call[n].published
  BY <1>1, Publishes DEF IInv, TypeOK
<1> QED BY <1>1, <1>2, <1>3, <1>4, BrokenOff

LEMMA IndexFailsKept ==
    ASSUME IInv, NEW n \in Notes, IndexFails(n)
    PROVE  IInv'
<1>1. /\ ~At(n, "idle") /\ End(n) /\ Breaks(n)
      /\ UNCHANGED <<mode, note, vectors, rows, ask, cache, once>> /\ failed' \in BOOLEAN
  BY DEF IndexFails, At, IInv, TypeOK, index, Breaks
<1>2. rows' \subseteq Chunk /\ \A c : c \in rows' <=> c \in rows
  BY <1>1 DEF IInv, TypeOK
<1> QED BY <1>1, <1>2, BrokenOff

LEMMA DeleteMissedKept ==
    ASSUME IInv, NEW n \in Notes, DeleteMissed(n)
    PROVE  IInv'
<1>t. TypeOK
  BY DEF IInv
<1> DEFINE pc == IF call[n].pc = "clean" THEN "forget" ELSE "unpublish"
           next == [call[n] EXCEPT !.pc = pc]
<1>1. /\ ~At(n, "idle") /\ call' = [call EXCEPT ![n] = next] /\ Breaks(n)
      /\ UNCHANGED <<mode, note, vectors, rows, failed, ask, cache, once>>
  BY DEF DeleteMissed, At, index, Breaks, Goto
<1>2. /\ next \in Publication /\ next # Idle /\ next.pc = pc
      /\ next.todo = call[n].todo /\ next.chunks = call[n].chunks /\ next.published = call[n].published
  <2>1. pc \in {"embed", "publish", "withdraw", "unpublish", "clean", "forget", "notify"} /\ call[n] \in Publication
    BY <1>1, Publishes
  <2> HIDE DEF pc
  <2> QED BY <2>1, Moved
<1> HIDE DEF pc, next
<1>3. call'[n] = next
  BY <1>1, <1>t DEF TypeOK
<1>4. /\ n \in torn' /\ torn \subseteq torn' /\ torn' \subseteq torn \cup {n} /\ missed' \subseteq Notes
      /\ \A m \in Notes : m # n => (m \in missed' <=> m \in missed)
      /\ swallowed' = TRUE /\ swallowed' \in BOOLEAN /\ failed' \in BOOLEAN
  BY <1>1, <1>t DEF Breaks, TypeOK
<1>5. PublicationOK(n)'
  <2>1. PublicationOK(n) /\ call[n] # Idle
    BY <1>1, Kinds, Publishes DEF IInv
  <2>2. \A c : Approved(c)' <=> Approved(c)
    BY <1>1 DEF Approved, Cut
  <2> QED BY <1>2, <1>3, <1>4, <2>1, <2>2 DEF PublicationOK
<1>6. \A c \in Chunk : c.note = n => ChunkOK(c)'
  BY <1>4 DEF ChunkOK
<1>7. ~Quiet'
  BY <1>4 DEF Quiet
<1>8. vectors' \subseteq Chunk /\ rows' \subseteq Chunk /\ \A c \in vectors' \cup rows' : Approved(c)
  BY <1>1, <1>t DEF IInv, TypeOK, OnlyApproved
<1>9. \A c \in Chunk : c.note # n => (c \in vectors' <=> c \in vectors) /\ (c \in rows' <=> c \in rows)
  BY <1>1
<1> QED BY <1>1, <1>2, <1>4, <1>5, <1>6, <1>7, <1>8, <1>9, PublicationKeeps

LEMMA NotifyKept ==
    ASSUME IInv, NEW n \in Notes, Notify(n)
    PROVE  IInv'
<1>t. TypeOK
  BY DEF IInv
<1>1. /\ ~At(n, "idle") /\ call[n].pc = "notify"
      /\ UNCHANGED <<mode, note, vectors, rows, failed, ask, once, torn, missed>>
      /\ cache' = [cache EXCEPT !.warm = FALSE]
      /\ swallowed' = Loading
      /\ call' = [call EXCEPT ![n] = Idle]
  BY DEF Notify, At, index, End
<1>a. /\ call'[n] = Idle
      /\ \A m \in Notes : m # n => call'[m] = call[m]
  BY <1>1, <1>t DEF TypeOK
<1>c. /\ cache' \in [docs : SUBSET Chunk, warm : BOOLEAN]
      /\ cache'.docs = cache.docs /\ ~cache'.warm
  BY <1>1, <1>t DEF TypeOK
<1>o. \A c : Approved(c)' <=> Approved(c)
  BY <1>1 DEF Approved, Cut
<1>2. TypeOK'
  <2>1. call' \in [Notes -> {Idle} \cup Publication]
    BY <1>1, <1>t DEF TypeOK
  <2>2. swallowed' \in BOOLEAN
    BY <1>1 DEF Loading
  <2> QED BY <2>1, <2>2, <1>1, <1>c, <1>t DEF TypeOK
<1>3. OnlyApproved'
  BY <1>1, <1>c, <1>o DEF IInv, OnlyApproved
<1>4. ASSUME NEW m \in Notes PROVE PublicationOK(m)'
  <2>1. PublicationOK(m)
    BY DEF IInv
  <2>2. CASE m = n
    BY <2>2, <1>a DEF PublicationOK
  <2>3. CASE m # n
    BY <2>1, <2>3, <1>1, <1>a, <1>o DEF PublicationOK, Latest
  <2> QED BY <2>2, <2>3
<1>5. ASSUME NEW c \in Chunk PROVE ChunkOK(c)'
  <2>1. ChunkOK(c) /\ c.note \in Notes
    BY DEF IInv, Chunk
  <2>2. CASE c.note # n
    BY <1>1, <1>a, <2>1, <2>2 DEF ChunkOK, VectorOK, RowOK, SettledOK, IsNew, Earlier, Latest, At
  <2>3. CASE c.note = n
    <3>1. n \notin missed \cup torn => (IsNew(c) <=> Latest(c))
      BY <1>1, <2>3, Publishes, Kinds DEF IInv, PublicationOK, IsNew
    <3> QED BY <1>1, <1>a, <2>1, <2>3, <3>1 DEF ChunkOK, VectorOK, RowOK, SettledOK, Latest, Idle
  <2> QED BY <2>2, <2>3
<1>6. \A t \in Threads : AskOK(t)'
  BY <1>1, <1>o DEF IInv, AskOK, Seen, Publishable
<1>7. CacheOK'
  <2>1. Quiet' => \A t \in Threads : ~Asks(t, "index")' /\ ~Asks(t, "fill")'
    BY <1>1 DEF Quiet, Loading, Asks
  <2> QED BY <2>1, <1>c DEF CacheOK, LoadedOK, NothingElse, NothingMissing, Filling, Warm
<1> QED BY <1>2, <1>3, <1>4, <1>5, <1>6, <1>7 DEF IInv

-----------------------------------------------------------------------------
(* The steps that change a note.                                             *)

\* Every question under way sees n as publishable, and keeps what it has.
LEMMA Witnessed ==
    ASSUME TypeOK, NEW n \in Notes, ask' = Witness(n)
    PROVE  /\ ask' \in [Threads -> {Idle} \cup Question \cup Evidence]
           /\ \A t \in Threads :
                /\ ask[t] = Idle => ask'[t] = Idle
                /\ ask[t] \in Question => /\ ask'[t] \in Question /\ ask'[t].pc = ask[t].pc
                                          /\ ask'[t].todo = ask[t].todo /\ ask'[t].kept = ask[t].kept
                                          /\ ask'[t].since = ask[t].since \cup {n}
                /\ ask[t] \in Evidence => /\ ask'[t] \in Evidence /\ ask'[t].pc = ask[t].pc
                                          /\ ask'[t].kept = ask[t].kept
                                          /\ ask'[t].since = ask[t].since \cup {n}
<1>1. \A t \in Threads : ask'[t] = IF Asks(t, "idle") THEN Idle ELSE [ask[t] EXCEPT !.since = ask[t].since \cup {n}]
  BY DEF Witness
<1>2. ASSUME NEW t \in Threads, ask[t] = Idle PROVE ask'[t] = Idle
  BY <1>1, <1>2, AskShape
<1>3. ASSUME NEW t \in Threads, ask[t] \in Question
      PROVE  /\ ask'[t] \in Question /\ ask'[t].pc = ask[t].pc
             /\ ask'[t].todo = ask[t].todo /\ ask'[t].kept = ask[t].kept
             /\ ask'[t].since = ask[t].since \cup {n}
  <2>1. ask'[t] = [ask[t] EXCEPT !.since = ask[t].since \cup {n}]
    BY <1>1, <1>3, AskShape, Kinds
  <2> QED BY <1>3, <2>1 DEF Question
<1>4. ASSUME NEW t \in Threads, ask[t] \in Evidence
      PROVE  /\ ask'[t] \in Evidence /\ ask'[t].pc = ask[t].pc
             /\ ask'[t].kept = ask[t].kept
             /\ ask'[t].since = ask[t].since \cup {n}
  <2>1. ask'[t] = [ask[t] EXCEPT !.since = ask[t].since \cup {n}]
    BY <1>1, <1>4, AskShape, Kinds
  <2> QED BY <1>4, <2>1 DEF Evidence
<1>5. \A t \in Threads : ask'[t] \in {Idle} \cup Question \cup Evidence
  BY <1>2, <1>3, <1>4 DEF TypeOK
<1>6. DOMAIN ask' = Threads /\ ask' = [t \in Threads |-> ask'[t]]
  BY DEF Witness
<1> QED BY <1>2, <1>3, <1>4, <1>5, <1>6

\* What a change of a note does to the questions: it is publishable before, or they are told.
LEMMA AsksKeep ==
    ASSUME IInv, NEW n \in Notes, ask' = ask \/ ask' = Witness(n),
           once \subseteq once',
           \A m \in Notes : m # n => (Publishable(m)' => Publishable(m)),
           ask' # Witness(n) => (Publishable(n)' => Publishable(n))
    PROVE  /\ ask' \in [Threads -> {Idle} \cup Question \cup Evidence]
           /\ \A t \in Threads : AskOK(t)'
           /\ \A t \in Threads, pc \in {"index", "fill"} : Asks(t, pc)' <=> Asks(t, pc)
           /\ \A t \in Threads : Asks(t, "index") \/ Asks(t, "fill") => ask'[t].todo = ask[t].todo
<1>t. TypeOK
  BY DEF IInv
<1>o. \A c : Approved(c) => Approved(c)'
  BY DEF Approved, Cut
<1>1. CASE ask' = Witness(n)
  <2>1. /\ ask' \in [Threads -> {Idle} \cup Question \cup Evidence]
        /\ \A t \in Threads : ask[t] = Idle => ask'[t] = Idle
    BY <1>1, <1>t, Witnessed
  <2>2. ASSUME NEW t \in Threads, ask[t] \in Question
        PROVE  /\ ask'[t] \in Question /\ ask'[t].pc = ask[t].pc
               /\ ask'[t].todo = ask[t].todo /\ ask'[t].kept = ask[t].kept
               /\ ask'[t].since = ask[t].since \cup {n}
    BY <1>1, <1>t, <2>2, Witnessed
  <2>3. ASSUME NEW t \in Threads, ask[t] \in Evidence
        PROVE  /\ ask'[t] \in Evidence /\ ask'[t].pc = ask[t].pc
               /\ ask'[t].kept = ask[t].kept /\ ask'[t].since = ask[t].since \cup {n}
    BY <1>1, <1>t, <2>3, Witnessed
  <2>4. \A t \in Threads : ask[t] \in {Idle} \cup Question \cup Evidence
    BY <1>t DEF TypeOK
  <2>5. ASSUME NEW t \in Threads PROVE AskOK(t)'
    <3>1. AskOK(t)
      BY DEF IInv
    <3>2. CASE ask[t] = Idle
      BY <2>1, <3>2, Kinds DEF AskOK
    <3>3. CASE ask[t] \in Question
      <4>1. Seen(t, ask[t].kept)'
        BY <3>1, <3>3, <2>2, <1>o DEF AskOK, Seen
      <4>2. \A c \in ask'[t].todo : Approved(c)'
        BY <3>1, <3>3, <2>2, <1>o DEF AskOK
      <4>3. \A m \in Notes : Publishable(m)' => m \in ask'[t].since
        BY <3>1, <3>3, <2>2 DEF AskOK
      <4>4. ask'[t].kept = ask[t].kept
        BY <3>3, <2>2
      <4> QED BY <4>1, <4>2, <4>3, <4>4 DEF AskOK, Seen
    <3>4. CASE ask[t] \in Evidence
      <4>1. ask'[t] \in Evidence /\ ask'[t] \notin Question
        BY <3>4, <2>3, Kinds
      <4>2. ask'[t].kept = ask[t].kept /\ ask'[t].since = ask[t].since \cup {n}
        BY <3>4, <2>3
      <4> QED BY <3>1, <3>4, <4>1, <4>2, <1>o DEF AskOK, Seen
    <3> QED BY <2>4, <3>2, <3>3, <3>4
  <2>6. ASSUME NEW t \in Threads PROVE ask'[t].pc = ask[t].pc
    BY <2>1, <2>2, <2>3, <2>4, <2>6
  <2>7. ASSUME NEW t \in Threads, Asks(t, "index") \/ Asks(t, "fill") PROVE ask'[t].todo = ask[t].todo
    <3>1. ask[t] \in Question
      BY <2>7, <1>t, AskShape DEF Asks
    <3> QED BY <3>1, <2>2
  <2> QED BY <2>1, <2>5, <2>6, <2>7 DEF Asks
<1>2. CASE ask' = ask /\ ask' # Witness(n)
  <2>1. ASSUME NEW t \in Threads PROVE AskOK(t)'
    <3>1. AskOK(t)
      BY DEF IInv
    <3>2. \A m \in Notes : Publishable(m)' => Publishable(m)
      BY <1>2
    <3> QED BY <3>1, <3>2, <1>2, <1>o DEF AskOK, Seen
  <2> QED BY <2>1, <1>2, <1>t DEF TypeOK, Asks
<1> QED BY <1>1, <1>2

LEMMA CacheKeeps ==
    ASSUME IInv, UNCHANGED <<mode, vectors, cache, swallowed>>, Quiet' => Quiet,
           \A t \in Threads, pc \in {"index", "fill"} : Asks(t, pc)' <=> Asks(t, pc),
           \A t \in Threads : Asks(t, "index") \/ Asks(t, "fill") => ask'[t].todo = ask[t].todo
    PROVE  CacheOK'
<1> SUFFICES ASSUME Quiet' PROVE LoadedOK' /\ NothingElse' /\ NothingMissing'
  BY DEF CacheOK
<1>1. LoadedOK /\ NothingElse /\ NothingMissing
  BY DEF IInv, CacheOK
<1>2. \A t \in Threads : /\ Asks(t, "index")' <=> Asks(t, "index")
                         /\ Asks(t, "fill")' <=> Asks(t, "fill")
  OBVIOUS
<1>3. LoadedOK'
  BY <1>1, <1>2 DEF LoadedOK
<1>4. NothingElse'
  BY <1>1, <1>2 DEF NothingElse, Filling, Warm
<1>5. NothingMissing'
  BY <1>1, <1>2 DEF NothingMissing, Filling, Warm
<1> QED BY <1>3, <1>4, <1>5

Row == [rev : Revision, status : {"pending_review", "approved", "gone"}, eligible : BOOLEAN]

\* A note changes while none of its chunks moves.
LEMMA NoteChanges ==
    ASSUME IInv, NEW n \in Notes, NEW row \in Row,
           note' = [note EXCEPT ![n] = row], note[n].rev <= row.rev,
           UNCHANGED <<mode, vectors, rows, failed, call, cache, torn, swallowed>>,
           \/ once' = once
           \/ once' = once \cup {[note |-> n, rev |-> row.rev]},
           row.status = "approved" => [note |-> n, rev |-> row.rev] \in once',
           ask' = ask \/ ask' = Witness(n),
           row.status = "approved" /\ row.eligible => ask' = Witness(n) \/ Publishable(n),
           missed \subseteq missed', missed' \subseteq missed \cup {n},
           \/ n \in missed' \cup torn
           \/ row.rev = note[n].rev /\ (row.status = "approved" => note[n].status = "approved")
           \/ At(n, "idle") /\ row.status # "approved"
    PROVE  IInv'
<1>t. TypeOK
  BY DEF IInv
<1>n. /\ note'[n] = row /\ note' \in [Notes -> Row]
      /\ \A m \in Notes : m # n => note'[m] = note[m]
  BY <1>t DEF TypeOK, Row
<1>r. \A r \in Revision : r \in Int
  BY SearchAssumption DEF Revision
<1>o. \A c : Approved(c) => Approved(c)'
  BY DEF Approved, Cut
<1>i. At(n, "idle") => call[n] = Idle
  BY <1>t, CallShape
<1>k. /\ ask' \in [Threads -> {Idle} \cup Question \cup Evidence]
      /\ \A t \in Threads : AskOK(t)'
      /\ \A t \in Threads, pc \in {"index", "fill"} : Asks(t, pc)' <=> Asks(t, pc)
      /\ \A t \in Threads : Asks(t, "index") \/ Asks(t, "fill") => ask'[t].todo = ask[t].todo
  <2>1. once \subseteq once'
    OBVIOUS
  <2>2. \A m \in Notes : m # n => (Publishable(m)' => Publishable(m))
    BY <1>n DEF Publishable
  <2>3. ask' # Witness(n) => (Publishable(n)' => Publishable(n))
    BY <1>n DEF Publishable
  <2> QED BY <2>1, <2>2, <2>3, AsksKeep
<1>1. TypeOK'
  <2>1. row.rev \in Revision
    BY DEF Row
  <2> QED BY <2>1, <1>n, <1>k, <1>t DEF TypeOK, Row
<1>2. OnlyApproved'
  <2>1. \A m \in Notes : note'[m].status = "approved" => [note |-> m, rev |-> note'[m].rev] \in once'
    <3>1. ASSUME NEW m \in Notes, m # n, note'[m].status = "approved"
          PROVE  [note |-> m, rev |-> note'[m].rev] \in once'
      BY <1>n, <3>1 DEF IInv, OnlyApproved
    <3> QED BY <3>1, <1>n
  <2>2. ASSUME NEW c \in Chunk, Approved(c)' PROVE c.rev <= note'[c.note].rev
    <3>1. c.note \in Notes /\ c.rev \in Int /\ note[n].rev \in Int /\ row.rev \in Int
      BY <1>r, <1>t DEF Chunk, TypeOK, Row
    <3>2. CASE Approved(c) /\ c.note # n
      BY <3>1, <3>2, <1>n DEF IInv, OnlyApproved
    <3>3. CASE Approved(c) /\ c.note = n
      <4>1. c.rev <= note[n].rev
        BY <3>3 DEF IInv, OnlyApproved
      <4>2. c.rev <= row.rev
        BY <4>1, <3>1
      <4> QED BY <4>2, <3>3, <1>n
    <3>4. CASE ~Approved(c)
      <4>1. [note |-> c.note, rev |-> c.rev] = [note |-> n, rev |-> row.rev]
        BY <2>2, <3>4 DEF Approved, Cut
      <4>2. c.note = n /\ c.rev = row.rev
        BY <4>1
      <4> QED BY <4>2, <3>1, <1>n
    <3> QED BY <3>2, <3>3, <3>4
  <2>3. \A c \in vectors' \cup rows' \cup cache'.docs : Approved(c)'
    BY <1>o DEF IInv, OnlyApproved
  <2> QED BY <2>1, <2>2, <2>3 DEF OnlyApproved
<1>3. ASSUME NEW m \in Notes PROVE PublicationOK(m)'
  <2>1. PublicationOK(m)
    BY DEF IInv
  <2>2. CASE m # n
    <3>1. m \in missed' <=> m \in missed
      BY <2>2
    <3> QED BY <2>1, <2>2, <3>1, <1>n, <1>o DEF PublicationOK, Latest
  <2>3. CASE m = n
    <3>1. CASE At(n, "idle")
      BY <2>3, <3>1, <1>i DEF PublicationOK
    <3>2. CASE n \in missed' \cup torn
      BY <2>1, <2>3, <3>2, <1>o DEF PublicationOK
    <3>3. CASE row.rev = note[n].rev
      <4>1. \A c \in Chunk : c.note = n => (Latest(c)' <=> Latest(c))
        BY <3>3, <1>n DEF Latest
      <4> QED BY <2>1, <2>3, <4>1, <1>o DEF PublicationOK
    <3> QED BY <3>1, <3>2, <3>3
  <2> QED BY <2>2, <2>3
<1>4. ASSUME NEW c \in Chunk PROVE ChunkOK(c)'
  <2>1. ChunkOK(c) /\ c.note \in Notes
    BY DEF IInv, Chunk
  <2>2. (VectorOK(c)' <=> VectorOK(c)) /\ (RowOK(c)' <=> RowOK(c))
    BY DEF VectorOK, RowOK, IsNew, Earlier
  <2>3. ASSUME SettledOK(c), c.note \notin torn PROVE SettledOK(c)'
    <3>1. CASE c.note # n
      <4>1. c.note \in missed' <=> c.note \in missed
        BY <3>1
      <4> QED BY <2>1, <2>3, <3>1, <4>1, <1>n DEF SettledOK, Latest, At
    <3>2. CASE c.note = n
      <4>1. CASE n \in missed'
        BY <2>3, <3>2, <4>1 DEF SettledOK, At
      <4>2. CASE row.status # "approved"
        BY <2>3, <3>2, <4>2, <1>n DEF SettledOK, At
      <4>3. CASE row.rev = note[n].rev /\ (row.status = "approved" => note[n].status = "approved")
        BY <2>3, <3>2, <4>3, <1>n DEF SettledOK, Latest, At
      <4> QED BY <2>3, <3>2, <4>1, <4>2, <4>3
    <3> QED BY <3>1, <3>2
  <2> QED BY <2>1, <2>2, <2>3 DEF ChunkOK
<1>5. CacheOK'
  <2>1. Quiet' => Quiet
    BY DEF Quiet, At
  <2> QED BY <2>1, <1>k, CacheKeeps
<1> QED BY <1>1, <1>2, <1>3, <1>4, <1>5, <1>k DEF IInv

\* The rows of the notes, and the revision after the last one.
LEMMA Rows ==
    ASSUME IInv, NEW n \in Notes
    PROVE  /\ note[n] \in Row /\ note[n].rev \in Int /\ note[n].rev \in Revision
           /\ note[n].rev <= note[n].rev /\ note[n].rev <= note[n].rev + 1
           /\ note[n].rev < MaxRevision => note[n].rev + 1 \in Revision
<1>1. note[n] \in Row
  BY DEF IInv, TypeOK, Row
<1>2. note[n].rev \in Revision
  BY <1>1 DEF Row
<1>3. note[n].rev \in Int /\ 1 <= note[n].rev /\ MaxRevision \in Int
  BY <1>2, SearchAssumption DEF Revision
<1> DEFINE r == note[n].rev
<1> HIDE DEF r
<1>4. r \in Int /\ 1 <= r => r <= r /\ r <= r + 1 /\ (r < MaxRevision => r + 1 \in 1 .. MaxRevision)
  BY <1>3
<1> QED BY <1>1, <1>2, <1>3, <1>4 DEF r, Revision

\* A note gets another text, which the index does not.
LEMMA HasKept ==
    ASSUME IInv, NEW n \in Notes, note[n].rev < MaxRevision,
           NEW status \in {"pending_review", "approved", "gone"}, Has(n, note[n].rev + 1, status),
           ask' = ask \/ ask' = Witness(n),
           status = "approved" /\ note[n].eligible => ask' = Witness(n) \/ Publishable(n)
    PROVE  IInv'
<1> DEFINE rev == note[n].rev + 1
           row == [note[n] EXCEPT !.rev = rev, !.status = status]
<1>1. /\ row \in Row /\ row.rev = rev /\ row.status = status /\ row.eligible = note[n].eligible
      /\ note[n].rev <= rev
  <2>1. rev \in Revision /\ note[n] \in Row /\ note[n].rev <= rev
    BY Rows
  <2> HIDE DEF rev
  <2> QED BY <2>1 DEF Row
<1>2. /\ note' = [note EXCEPT ![n] = row]
      /\ once' = IF status = "approved" THEN once \cup {[note |-> n, rev |-> rev]} ELSE once
      /\ missed' = missed \cup ({n} \ torn)
      /\ UNCHANGED <<mode, vectors, rows, failed, call, cache, torn, swallowed>>
  BY DEF Has, index, IInv, TypeOK
<1> HIDE DEF rev, row
<1>3. /\ once' = once \/ once' = once \cup {[note |-> n, rev |-> row.rev]}
      /\ row.status = "approved" => [note |-> n, rev |-> row.rev] \in once'
  BY <1>1, <1>2
<1>4. missed \subseteq missed' /\ missed' \subseteq missed \cup {n} /\ n \in missed' \cup torn
  BY <1>2
<1> QED BY <1>1, <1>2, <1>3, <1>4, NoteChanges

LEMMA RethemeKept ==
    ASSUME IInv, NEW n \in Notes, Retheme(n)
    PROVE  IInv'
<1> DEFINE status == note[n].status
<1>1. /\ status \in {"pending_review", "approved", "gone"} /\ note[n].rev < MaxRevision
      /\ Has(n, note[n].rev + 1, status) /\ ask' = ask
      /\ status = "approved" /\ note[n].eligible => Publishable(n)
  BY DEF Retheme, IInv, TypeOK, Publishable
<1> HIDE DEF status
<1> QED BY <1>1, HasKept

LEMMA RewriteKept ==
    ASSUME IInv, NEW n \in Notes, Rewrite(n)
    PROVE  IInv'
<1>1. PICK status \in {"pending_review", "approved"} :
        /\ Has(n, note[n].rev + 1, status)
        /\ ask' = IF status = "approved" /\ note[n].eligible THEN Witness(n) ELSE ask
  BY DEF Rewrite
<1>2. /\ status \in {"pending_review", "approved", "gone"} /\ note[n].rev < MaxRevision
      /\ ask' = ask \/ ask' = Witness(n)
      /\ status = "approved" /\ note[n].eligible => ask' = Witness(n) \/ Publishable(n)
  BY <1>1 DEF Rewrite
<1> QED BY <1>1, <1>2, HasKept

LEMMA NoteKept ==
    ASSUME IInv, NEW n \in Notes, Edit(n) \/ OriginsRevoked(n) \/ Discard(n)
    PROVE  IInv'
<1>1. PICK row \in Row :
        /\ note' = [note EXCEPT ![n] = row] /\ note[n].rev <= row.rev
        /\ row.status = "approved" => row.rev = note[n].rev /\ note[n].status = "approved"
        /\ row.eligible => note[n].eligible
        /\ row.rev = note[n].rev \/ (At(n, "idle") /\ row.status # "approved")
  <2>1. CASE Edit(n)
    <3> DEFINE row == [note[n] EXCEPT !.rev = note[n].rev + 1, !.status = "pending_review"]
    <3>1. note[n] \in Row /\ note[n].rev + 1 \in Revision /\ note[n].rev <= note[n].rev + 1
      BY <2>1, Rows DEF Edit
    <3>2. row \in Row /\ row.rev = note[n].rev + 1 /\ row.status = "pending_review"
          /\ row.eligible = note[n].eligible
      BY <3>1 DEF Row
    <3>3. note' = [note EXCEPT ![n] = row] /\ At(n, "idle")
      BY <2>1 DEF Edit, IInv, TypeOK
    <3> HIDE DEF row
    <3> QED BY <3>1, <3>2, <3>3
  <2>2. CASE OriginsRevoked(n)
    <3> DEFINE row == [note[n] EXCEPT !.eligible = FALSE]
    <3>1. note[n] \in Row /\ note[n].rev <= note[n].rev
      BY Rows
    <3>2. row \in Row /\ row.rev = note[n].rev /\ row.status = note[n].status /\ ~row.eligible
      BY <3>1 DEF Row
    <3>3. note' = [note EXCEPT ![n] = row]
      BY <2>2 DEF OriginsRevoked, Change
    <3> HIDE DEF row
    <3> QED BY <3>1, <3>2, <3>3
  <2>3. CASE Discard(n)
    <3> DEFINE row == [note[n] EXCEPT !.status = "gone"]
    <3>1. note[n] \in Row /\ note[n].rev <= note[n].rev
      BY Rows
    <3>2. row \in Row /\ row.rev = note[n].rev /\ row.status = "gone" /\ row.eligible = note[n].eligible
      BY <3>1 DEF Row
    <3>3. note' = [note EXCEPT ![n] = row] /\ At(n, "idle")
      BY <2>3 DEF Discard, Change
    <3> HIDE DEF row
    <3> QED BY <3>1, <3>2, <3>3
  <2> QED BY <2>1, <2>2, <2>3
<1>2. /\ UNCHANGED <<mode, vectors, rows, failed, call, cache, torn, swallowed>>
      /\ once' = once /\ ask' = ask /\ missed' = missed
  BY DEF Edit, OriginsRevoked, Discard, Change, index, history
<1>3. row.status = "approved" => [note |-> n, rev |-> row.rev] \in once'
  BY <1>1, <1>2 DEF IInv, OnlyApproved
<1>4. row.status = "approved" /\ row.eligible => Publishable(n)
  BY <1>1 DEF Publishable
<1>5. /\ missed \subseteq missed' /\ missed' \subseteq missed \cup {n}
      /\ \/ row.rev = note[n].rev /\ (row.status = "approved" => note[n].status = "approved")
         \/ At(n, "idle") /\ row.status # "approved"
  BY <1>1, <1>2
<1> QED BY <1>1, <1>2, <1>3, <1>4, <1>5, NoteChanges

\* An approval that finds no index, or begins to publish.
LEMMA ApproveKept ==
    ASSUME IInv, NEW n \in Notes, Approve(n)
    PROVE  IInv'
<1>t. TypeOK
  BY DEF IInv
<1> DEFINE rev == note[n].rev + 1
           row == [note[n] EXCEPT !.status = "approved", !.rev = rev]
           next == [pc |-> "embed", todo |-> Of(n, rev), chunks |-> Of(n, rev), published |-> About(rows, n)]
<1>1. /\ call[n] = Idle /\ At(n, "idle") /\ note[n].rev < MaxRevision
      /\ UNCHANGED <<mode, vectors, rows, failed, cache, torn, swallowed>>
      /\ note' = [note EXCEPT ![n] = row]
      /\ once' = once \cup {[note |-> n, rev |-> rev]}
      /\ ask' = Witness(n)
      /\ \/ call' = [call EXCEPT ![n] = next] /\ missed' = missed \ {n}
         \/ call' = call /\ missed' = missed \cup ({n} \ torn)
  BY <1>t, CallShape DEF Approve, index, TypeOK
<1>b. /\ rev \in Revision /\ rev \in Int /\ note[n].rev \in Int /\ note[n] \in Row
      /\ note[n].rev <= rev /\ note[n].rev < rev
  <2>1. rev \in Revision /\ note[n].rev \in Int /\ note[n] \in Row
    BY <1>1, Rows
  <2> QED BY <2>1
<1>n. row \in Row /\ row.rev = rev /\ row.status = "approved"
  <2> HIDE DEF rev
  <2> QED BY <1>b DEF Row
<1>2. CASE call' = call /\ missed' = missed \cup ({n} \ torn)
  <2>1. missed \subseteq missed' /\ missed' \subseteq missed \cup {n} /\ n \in missed' \cup torn
    BY <1>2
  <2> HIDE DEF rev, row, next
  <2> QED BY <1>1, <1>2, <1>b, <1>n, <2>1, NoteChanges
<1>3. CASE call' = [call EXCEPT ![n] = next] /\ missed' = missed \ {n}
  <2>o. \A c : Approved(c) => Approved(c)'
    BY <1>1 DEF Approved, Cut
  <2>n. /\ note'[n] = row /\ note' \in [Notes -> Row]
        /\ \A m \in Notes : m # n => note'[m] = note[m]
    BY <1>1, <1>n, <1>t DEF TypeOK, Row
  <2>r. \A r \in Revision : r \in Int
    BY SearchAssumption DEF Revision
  <2>e. ASSUME NEW c \in Chunk, c.note = n, Approved(c) PROVE c.rev < rev
    <3>1. c.rev <= note[n].rev
      BY <2>e DEF IInv, OnlyApproved
    <3>2. c.rev \in Int
      BY <2>r DEF Chunk
    <3> HIDE DEF rev
    <3> QED BY <3>1, <3>2, <1>b
  <2>c. \A c : c \in Of(n, rev) <=> c \in Chunk /\ c.note = n /\ c.rev = rev
    <3> HIDE DEF rev
    <3> QED BY <1>b DEF Of, Chunk
  <2>d. \A c : c \in About(rows, n) <=> c \in rows /\ c.note = n
    BY DEF About
  <2>p. next \in Publication /\ next.pc = "embed" /\ next.todo = Of(n, rev) /\ next.chunks = Of(n, rev)
        /\ next.published = About(rows, n)
    <3>1. Of(n, rev) \in SUBSET Chunk /\ About(rows, n) \in SUBSET Chunk
      BY <2>c, <2>d, <1>t DEF TypeOK
    <3> HIDE DEF rev
    <3> QED BY <3>1 DEF Publication
  <2>m. /\ call'[n] = next /\ \A m \in Notes : m # n => call'[m] = call[m]
        /\ n \notin missed' /\ \A m \in Notes : m # n => (m \in missed' <=> m \in missed)
        /\ missed' \subseteq Notes
    BY <1>3, <1>t DEF TypeOK
  <2> HIDE DEF rev, row, next
  <2>k. /\ ask' \in [Threads -> {Idle} \cup Question \cup Evidence]
        /\ \A t \in Threads : AskOK(t)'
        /\ \A t \in Threads, pc \in {"index", "fill"} : Asks(t, pc)' <=> Asks(t, pc)
        /\ \A t \in Threads : Asks(t, "index") \/ Asks(t, "fill") => ask'[t].todo = ask[t].todo
    <3>1. \A m \in Notes : m # n => (Publishable(m)' => Publishable(m))
      BY <2>n DEF Publishable
    <3>2. once \subseteq once'
      BY <1>1
    <3> QED BY <1>1, <3>1, <3>2, AsksKeep
  <2>1. TypeOK'
    <3>1. call' \in [Notes -> {Idle} \cup Publication]
      BY <1>3, <2>p, <1>t DEF TypeOK
    <3>2. once' \subseteq [note : Notes, rev : Revision]
      BY <1>1, <1>b, <1>t DEF TypeOK
    <3> QED BY <3>1, <3>2, <1>1, <2>n, <2>m, <2>k, <1>t DEF TypeOK, Row
  <2>2. OnlyApproved'
    <3>1. \A m \in Notes : note'[m].status = "approved" => [note |-> m, rev |-> note'[m].rev] \in once'
      <4>1. ASSUME NEW m \in Notes, m # n, note'[m].status = "approved"
            PROVE  [note |-> m, rev |-> note'[m].rev] \in once'
        BY <1>1, <2>n, <4>1 DEF IInv, OnlyApproved
      <4> QED BY <4>1, <1>1, <1>n, <2>n
    <3>2. ASSUME NEW c \in Chunk, Approved(c)' PROVE c.rev <= note'[c.note].rev
      <4>1. c.note \in Notes /\ c.rev \in Int
        BY <2>r DEF Chunk
      <4>2. CASE Approved(c) /\ c.note # n
        BY <4>1, <4>2, <2>n DEF IInv, OnlyApproved
      <4>3. CASE Approved(c) /\ c.note = n
        <5>1. c.rev < rev
          BY <4>3, <2>e
        <5> QED BY <5>1, <4>1, <4>3, <1>b, <1>n, <2>n
      <4>4. CASE ~Approved(c)
        <5>1. [note |-> c.note, rev |-> c.rev] = [note |-> n, rev |-> rev]
          BY <3>2, <4>4, <1>1 DEF Approved, Cut
        <5>2. c.note = n /\ c.rev = rev
          BY <5>1
        <5> QED BY <5>2, <1>b, <1>n, <2>n
      <4> QED BY <4>2, <4>3, <4>4
    <3>3. \A c \in vectors' \cup rows' \cup cache'.docs : Approved(c)'
      BY <1>1, <2>o DEF IInv, OnlyApproved
    <3> QED BY <3>1, <3>2, <3>3 DEF OnlyApproved
  <2>3. ASSUME NEW m \in Notes PROVE PublicationOK(m)'
    <3>1. PublicationOK(m)
      BY DEF IInv
    <3>2. CASE m # n
      <4>1. m \in missed' <=> m \in missed
        BY <3>2, <2>m
      <4> QED BY <3>1, <3>2, <4>1, <1>1, <2>m, <2>n, <2>o DEF PublicationOK, Latest
    <3>3. CASE m = n
      <4>1. ASSUME NEW c \in Of(n, rev) PROVE c.note = n /\ Approved(c)' /\ c \notin About(rows, n)
        <5>1. c \in Chunk /\ c.note = n /\ c.rev = rev
          BY <2>c
        <5>2. Approved(c)'
          BY <5>1, <1>1 DEF Approved, Cut
        <5>3. ASSUME c \in rows PROVE FALSE
          <6>1. c.rev < rev
            BY <5>1, <5>3, <2>e DEF IInv, OnlyApproved
          <6>2. \A i \in Int : ~(i < i)
            OBVIOUS
          <6> QED BY <5>1, <6>1, <6>2, <1>b
        <5> QED BY <5>1, <5>2, <5>3, <2>d
      <4>2. ASSUME NEW c \in About(rows, n) PROVE c.note = n /\ Approved(c)'
        BY <2>d, <2>o DEF IInv, OnlyApproved
      <4>3. \A c \in Chunk : c.note = n => (c \in Of(n, rev) <=> Latest(c)')
        BY <2>c, <2>n, <1>n DEF Latest
      <4> QED BY <3>3, <4>1, <4>2, <4>3, <2>m, <2>p DEF PublicationOK
    <3> QED BY <3>2, <3>3
  <2>4. ASSUME NEW c \in Chunk PROVE ChunkOK(c)'
    <3>1. ChunkOK(c) /\ c.note \in Notes
      BY DEF IInv, Chunk
    <3>2. CASE c.note # n
      BY <1>1, <2>m, <2>n, <3>1, <3>2 DEF ChunkOK, VectorOK, RowOK, SettledOK, IsNew, Earlier, Latest, At
    <3>3. CASE c.note = n
      <4>1. /\ call'[c.note].pc = "embed" /\ call'[c.note].todo = call'[c.note].chunks
            /\ call'[c.note].published = About(rows, n)
        BY <3>3, <2>m, <2>p
      <4>2. (c \in rows <=> c \in vectors) \/ n \in torn
        BY <1>1, <3>1, <3>3 DEF ChunkOK, SettledOK, At, Idle
      <4>3. c \in About(rows, n) <=> c \in rows
        BY <3>3, <2>d
      <4> QED BY <4>1, <4>2, <4>3, <1>1, <3>3 DEF ChunkOK, VectorOK, RowOK, SettledOK, IsNew, Earlier, At
    <3> QED BY <3>2, <3>3
  <2>5. CacheOK'
    <3>1. Quiet' => Quiet
      BY <1>1, <2>m DEF Quiet, At
    <3> QED BY <3>1, <1>1, <2>k, CacheKeeps
  <2> QED BY <2>1, <2>2, <2>3, <2>4, <2>5, <2>k DEF IInv
<1> QED BY <1>1, <1>2, <1>3

-----------------------------------------------------------------------------
(* The other steps.                                                          *)

LEMMA PolicyKept ==
    ASSUME IInv, NEW to \in Modes, SetRuntimePolicy(to)
    PROVE  IInv'
<1>1. /\ \A n \in Notes : At(n, "idle")
      /\ \A t \in Threads : Asks(t, "idle")
      /\ mode' = to /\ cache' = Cold /\ failed' = FALSE /\ swallowed' = FALSE
      /\ UNCHANGED <<note, vectors, rows, call, ask, once, torn, missed>>
  BY DEF SetRuntimePolicy
<1>c. Cold.docs = {} /\ ~Cold.warm /\ Cold \in [docs : SUBSET Chunk, warm : BOOLEAN]
  BY DEF Cold
<1>o. \A c : Approved(c)' <=> Approved(c)
  BY <1>1 DEF Approved, Cut
<1>2. TypeOK'
  BY <1>1, <1>c, SearchAssumption DEF IInv, TypeOK
<1>3. OnlyApproved'
  BY <1>1, <1>c, <1>o DEF IInv, OnlyApproved
<1>4. \A n \in Notes : PublicationOK(n)'
  BY <1>1, <1>o DEF IInv, PublicationOK, Latest
<1>5. \A c \in Chunk : ChunkOK(c)'
  BY <1>1 DEF IInv, ChunkOK, VectorOK, RowOK, SettledOK, IsNew, Earlier, Latest, At
<1>6. \A t \in Threads : AskOK(t)'
  BY <1>1, <1>o DEF IInv, AskOK, Seen, Publishable
<1>7. CacheOK'
  <2>1. \A t \in Threads : ~Asks(t, "index")' /\ ~Asks(t, "fill")'
    BY <1>1 DEF Asks
  <2> QED BY <2>1, <1>1, <1>c DEF CacheOK, LoadedOK, NothingElse, NothingMissing, Filling, Warm
<1> QED BY <1>2, <1>3, <1>4, <1>5, <1>6, <1>7 DEF IInv

LEMMA CrashKept ==
    ASSUME IInv, Crash
    PROVE  IInv'
<1>1. /\ \A n \in Notes : call'[n] = Idle
      /\ \A t \in Threads : ask'[t] = Idle
      /\ torn' = torn \cup {n \in Notes : ~At(n, "idle") /\ ~At(n, "notify")}
      /\ missed' = {n \in missed : n \notin torn'}
      /\ cache' = Cold /\ failed' = FALSE /\ swallowed' = FALSE
      /\ UNCHANGED <<mode, note, vectors, rows, once>>
  BY DEF Crash
<1>c. Cold.docs = {} /\ ~Cold.warm /\ Cold \in [docs : SUBSET Chunk, warm : BOOLEAN]
  BY DEF Cold
<1>o. \A c : Approved(c)' <=> Approved(c)
  BY <1>1 DEF Approved, Cut
<1>2. TypeOK'
  <2>1. call' \in [Notes -> {Idle} \cup Publication]
    BY DEF Crash
  <2>2. ask' \in [Threads -> {Idle} \cup Question \cup Evidence]
    BY DEF Crash
  <2>3. torn' \subseteq Notes /\ missed' \subseteq Notes
    BY <1>1 DEF IInv, TypeOK
  <2> QED BY <2>1, <2>2, <2>3, <1>1, <1>c DEF IInv, TypeOK
<1>3. OnlyApproved'
  BY <1>1, <1>c, <1>o DEF IInv, OnlyApproved
<1>4. \A n \in Notes : PublicationOK(n)'
  BY <1>1 DEF PublicationOK
<1>5. ASSUME NEW c \in Chunk, c.note \notin torn' PROVE VectorOK(c)' /\ RowOK(c)' /\ SettledOK(c)'
  <2>1. ChunkOK(c) /\ c.note \in Notes
    BY DEF IInv, Chunk
  <2>2. c.note \notin torn /\ (call[c.note].pc = "idle" \/ call[c.note].pc = "notify")
        /\ (c.note \in missed' <=> c.note \in missed)
    BY <1>1, <1>5, <2>1 DEF At
  <2>3. call'[c.note].pc = "idle"
    BY <1>1, <2>1 DEF Idle
  <2>4. VectorOK(c)' /\ RowOK(c)'
    BY <2>3 DEF VectorOK, RowOK
  <2>5. CASE call[c.note].pc = "idle"
    BY <1>1, <2>1, <2>2, <2>4, <2>5 DEF ChunkOK, SettledOK, Latest, At
  <2>6. CASE call[c.note].pc = "notify"
    <3>1. c.note \notin missed \cup torn => (IsNew(c) <=> Latest(c))
      <4>1. ~At(c.note, "idle")
        BY <2>6 DEF At
      <4> QED BY <4>1, <2>1, Publishes, Kinds DEF IInv, PublicationOK, IsNew
    <3> QED BY <1>1, <2>1, <2>2, <2>4, <2>6, <3>1 DEF ChunkOK, VectorOK, RowOK, SettledOK, Latest
  <2> QED BY <2>2, <2>5, <2>6
<1>6. \A t \in Threads : AskOK(t)'
  BY <1>1, Kinds DEF AskOK
<1>7. CacheOK'
  <2>1. \A t \in Threads : ~Asks(t, "index")' /\ ~Asks(t, "fill")'
    BY <1>1 DEF Asks, Idle
  <2> QED BY <2>1, <1>1, <1>c DEF CacheOK, LoadedOK, NothingElse, NothingMissing, Filling, Warm
<1> QED BY <1>2, <1>3, <1>4, <1>5, <1>6, <1>7 DEF IInv, ChunkOK

-----------------------------------------------------------------------------
LEMMA NextKeeps ==
    ASSUME IInv, [Next]_vars
    PROVE  IInv'
<1>1. ASSUME NEW n \in Notes, Publishing(n) PROVE IInv'
  BY <1>1, ApproveKept, EmbedKept, PublishKept, CleanKept, ForgetKept, NotifyKept, EmbedFailsKept,
     PublishFailsKept, WithdrawKept, UnpublishKept, DeleteMissedKept, IndexFailsKept DEF Publishing
<1>2. ASSUME NEW n \in Notes, Edit(n) \/ Retheme(n) \/ Rewrite(n) \/ OriginsRevoked(n) \/ Discard(n)
      PROVE  IInv'
  BY <1>2, NoteKept, RethemeKept, RewriteKept
<1>3. ASSUME UNCHANGED vars PROVE IInv'
  <2>1. UNCHANGED <<mode, note, vectors, rows, failed, call, cache, ask, once, torn, missed, swallowed>>
    BY <1>3 DEF vars
  <2>o. \A c : Approved(c)' <=> Approved(c)
    BY <2>1 DEF Approved, Cut
  <2>2. TypeOK'
    BY <2>1 DEF IInv, TypeOK
  <2>3. OnlyApproved'
    BY <2>1, <2>o DEF IInv, OnlyApproved
  <2>4. \A n \in Notes : PublicationOK(n)'
    BY <2>1, <2>o DEF IInv, PublicationOK, Latest
  <2>5. \A c \in Chunk : ChunkOK(c)'
    BY <2>1 DEF IInv, ChunkOK, VectorOK, RowOK, SettledOK, IsNew, Earlier, Latest, At
  <2>6. \A t \in Threads : AskOK(t)'
    BY <2>1, <2>o DEF IInv, AskOK, Seen, Publishable
  <2>7. CacheOK'
    BY <2>1 DEF IInv, CacheOK, LoadedOK, NothingElse, NothingMissing, Filling, Quiet, Asks, Warm, At
  <2> QED BY <2>2, <2>3, <2>4, <2>5, <2>6, <2>7 DEF IInv
<1> QED BY <1>1, <1>2, <1>3, AskingKeeps, PolicyKept, CrashKept DEF Next

LEMMA Inductive == Spec => []IInv
<1>1. Init => IInv
  BY InitHolds
<1>2. IInv /\ [Next]_vars => IInv'
  BY NextKeeps
<1> QED BY <1>1, <1>2, PTL DEF Spec

(* Every variable, every publication and every question keeps its shape.     *)
THEOREM TypeCorrect == Spec => []TypeOK
<1>1. IInv => TypeOK
  BY DEF IInv
<1> QED BY <1>1, Inductive, PTL

(* RetrievalApplicationService: whatever a question is answered from was,    *)
(* text for text, in its note while the file said approved, and the note was *)
(* publishable at some moment after the question was put, whatever is        *)
(* published, edited, rethemed or rewritten outside meanwhile, and however   *)
(* many questions refill the cache side by side.                             *)
THEOREM AnswersFromApproved == Spec => []ServedWasApproved
<1>1. IInv => ServedWasApproved
  <2> SUFFICES ASSUME IInv, NEW t \in Threads, Asks(t, "answer"), NEW c \in ask[t].kept
               PROVE  [note |-> c.note, rev |-> c.rev] \in once /\ c.note \in ask[t].since
    BY DEF ServedWasApproved
  <2>1. ask[t] \in Evidence /\ AskOK(t)
    BY AskShape DEF IInv
  <2> QED BY <2>1 DEF AskOK, Seen, Approved, Cut
<1> QED BY <1>1, Inductive, PTL

(* _reindex_after_approval() and its compensation leave the chunks of a note *)
(* the same in LanceDB and in index_artifacts, and of an approved note its   *)
(* current text, unless a delete went wrong or nobody told the index.        *)
THEOREM StoresAgree == Spec => []IndexMatches
<1>1. IInv => IndexMatches
  <2> SUFFICES ASSUME IInv, NEW n \in Notes \ torn, At(n, "idle")
               PROVE  /\ About(rows, n) = About(vectors, n)
                      /\ note[n].status = "approved" /\ n \notin missed => About(rows, n) = Current(n)
    BY DEF IndexMatches
  <2>1. \A c \in Chunk : c.note = n => SettledOK(c)
    BY DEF IInv, ChunkOK
  <2>2. rows \subseteq Chunk /\ vectors \subseteq Chunk /\ note[n].rev \in Revision
    BY DEF IInv, TypeOK
  <2>3. \A c \in Chunk : c.note = n => (c \in rows <=> c \in vectors)
    BY <2>1 DEF SettledOK
  <2>4. About(rows, n) = About(vectors, n)
    BY <2>2, <2>3 DEF About
  <2>5. ASSUME note[n].status = "approved", n \notin missed PROVE About(rows, n) = Current(n)
    <3>1. \A c \in Chunk : c.note = n => (c \in rows <=> c.rev = note[n].rev)
      BY <2>1, <2>5 DEF SettledOK, Latest
    <3>2. \A c : c \in Current(n) <=> c \in Chunk /\ c.note = n /\ c.rev = note[n].rev
      BY <2>2 DEF Current, Of, Chunk
    <3>3. \A c : c \in About(rows, n) <=> c \in Chunk /\ c.note = n /\ c \in rows
      BY <2>2 DEF About
    <3>4. \A c : c \in About(rows, n) <=> c \in Current(n)
      BY <3>1, <3>2, <3>3
    <3>5. /\ \A c \in About(rows, n) : c \in Current(n)
          /\ \A c \in Current(n) : c \in About(rows, n)
      BY <3>4
    <3> QED BY <3>5, Zenon
  <2> QED BY <2>4, <2>5
<1> QED BY <1>1, Inductive, PTL

(* HybridSearcher: a cache taken for warm that nobody is refilling holds     *)
(* what LanceDB holds, however many questions refilled it side by side, with *)
(* every publication over and announced while nobody was loading it.         *)
THEOREM CacheIsCurrent == Spec => []CacheFollowsIndex
<1>1. IInv => CacheFollowsIndex
  <2> SUFFICES ASSUME IInv, mode = "hybrid", Warm, ~swallowed,
                      \A t \in Threads : ~Asks(t, "fill"), \A n \in Notes : At(n, "idle")
               PROVE  cache.docs = vectors
    BY DEF CacheFollowsIndex
  <2>1. NothingElse /\ NothingMissing
    BY DEF IInv, CacheOK, Quiet
  <2> QED BY <2>1 DEF NothingElse, NothingMissing
<1> QED BY <1>1, Inductive, PTL

=============================================================================
