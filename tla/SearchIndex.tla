----------------------------- MODULE SearchIndex ----------------------------
(***************************************************************************)
(* The search index of the approved notes and the questions put to it.     *)
(* NotesApplicationService publishes the chunks of a note it has just      *)
(* approved: vectors to LanceDB, one row per chunk to SQLite, then the     *)
(* chunks of earlier revisions go.  RetrievalApplicationService answers    *)
(* from LanceDB, or from a BM25 cache over LanceDB or over the vault, which *)
(* every question may refill chunk by chunk beside the others, and         *)
(* ChatApplicationService writes an answer from what it found.             *)
(***************************************************************************)
EXTENDS Integers, FiniteSets

CONSTANTS
    Notes,        \* notes of 4_procesado
    Threads,      \* threads that ask, one question each at a time
    Parts,        \* the chunks a text is cut into
    Limit,        \* how many chunks a context holds
    MaxRevision,  \* bound of the revisions of a note
    Modes,        \* retrieval modes the settings choose between
    Failing       \* what may go wrong besides the questions

ASSUME SearchAssumption ==
    /\ Limit \in Nat \ {0} /\ MaxRevision \in Nat \ {0}
    /\ Modes \subseteq {"hybrid", "bm25_vault"}

VARIABLES
    mode,      \* RuntimePolicy.retrieval_mode
    note,      \* file and row of every note: revision, status, eligible origins
    vectors,   \* the chunks in LanceDB
    rows,      \* index_artifacts
    failed,    \* LanceDBStore.failed
    call,      \* the approval of every note that is publishing its chunks
    cache,     \* HybridSearcher: its documents, built in the generation it is at
    ask,       \* the question of every thread
    once,      \* history: texts a note has had while its file said approved
    torn,      \* history: notes with a publication that broke off, or a delete
               \* that was reported and not done
    missed,    \* history: the others whose last text was not given to the index
    swallowed  \* history: a change of the index the cache was not told of, was
               \* told of while it was loaded, or could not read

vars == <<mode, note, vectors, rows, failed, call, cache, ask, once, torn, missed, swallowed>>
index == <<vectors, rows, failed>>
history == <<once, torn, missed, swallowed>>

Revision == 1 .. MaxRevision
\* make_chunk_id: the hash of the file, which its revision stands for, and a number.
Chunk == [note : Notes, rev : Revision, part : Parts]
Of(n, rev) == {[note |-> n, rev |-> rev, part |-> p] : p \in Parts}
Current(n) == Of(n, note[n].rev)
About(chunks, n) == {c \in chunks : c.note = n}

\* _is_retrieval_hit_eligible looks at the note as it is now, not at its revision.
Publishable(n) == note[n].status = "approved" /\ note[n].eligible
Eligible(c) == Publishable(c.note)

Idle == [pc |-> "idle"]
At(n, pc) == call[n].pc = pc
Goto(n, pc) == call' = [call EXCEPT ![n].pc = pc]
End(n) == call' = [call EXCEPT ![n] = Idle]
Asks(t, pc) == ask[t].pc = pc
Cold == [docs |-> {}, warm |-> FALSE]

\* What a publication and a question keep.
Publication == [pc : {"embed", "publish", "withdraw", "unpublish", "clean", "forget", "notify"},
                todo : SUBSET Chunk, chunks : SUBSET Chunk, published : SUBSET Chunk]
Question == [pc : {"vectors", "cache", "index", "fill", "hits", "check", "more"},
             next : {"hits", "more"}, todo : SUBSET Chunk, kept : SUBSET Chunk,
             since : SUBSET Notes]
Evidence == [pc : {"answer"}, kept : SUBSET Chunk, since : SUBSET Notes]

TypeOK ==
    /\ mode \in {"hybrid", "bm25_vault"}
    /\ note \in [Notes -> [rev : Revision, status : {"pending_review", "approved", "gone"},
                           eligible : BOOLEAN]]
    /\ vectors \subseteq Chunk /\ rows \subseteq Chunk /\ failed \in BOOLEAN
    /\ call \in [Notes -> {Idle} \cup Publication]
    /\ ask \in [Threads -> {Idle} \cup Question \cup Evidence]
    /\ cache \in [docs : SUBSET Chunk, warm : BOOLEAN]
    /\ once \subseteq [note : Notes, rev : Revision]
    /\ torn \subseteq Notes /\ missed \subseteq Notes /\ swallowed \in BOOLEAN

\* Some notes have been approved and published before.
InitWith(published) ==
    /\ mode \in Modes
    /\ note = [n \in Notes |-> [rev |-> 1, eligible |-> TRUE, status |->
                 IF n \in published THEN "approved" ELSE "pending_review"]]
    /\ rows = {c \in Chunk : c.rev = 1 /\ c.note \in published}
    /\ vectors = rows /\ failed = FALSE
    /\ call = [n \in Notes |-> Idle]
    /\ cache = Cold
    /\ ask = [t \in Threads |-> Idle]
    /\ once = {[note |-> n, rev |-> 1] : n \in published}
    /\ torn = {} /\ missed = {} /\ swallowed = FALSE

Init == \E published \in SUBSET Notes : InitWith(published)

-----------------------------------------------------------------------------
(* Approval and publication, under the lock of the note all along.           *)
\* A question under way has seen n publishable from now on.
Witness(n) ==
    [t \in Threads |-> IF Asks(t, "idle") THEN Idle ELSE [ask[t] EXCEPT !.since = @ \cup {n}]]

(* approve(): the approval is durable before the index is touched; with the  *)
(* index disabled or failed it stays without one.                            *)
Approve(n) ==
    /\ At(n, "idle")
    /\ note[n].status = "pending_review" /\ note[n].eligible
    /\ note[n].rev < MaxRevision
    /\ note' = [note EXCEPT ![n].status = "approved", ![n].rev = @ + 1]
    /\ once' = once \cup {[note |-> n, rev |-> note[n].rev + 1]}
    /\ ask' = Witness(n)
    /\ IF mode = "hybrid" /\ ~failed
       THEN /\ call' = [call EXCEPT ![n] = [pc |-> "embed", todo |-> Of(n, note[n].rev + 1),
                                            chunks |-> Of(n, note[n].rev + 1),
                                            published |-> About(rows, n)]]
            /\ missed' = missed \ {n}
       ELSE UNCHANGED call /\ missed' = missed \cup ({n} \ torn)
    /\ UNCHANGED <<mode, index, cache, torn, swallowed>>

Breaks(n) == torn' = torn \cup {n} /\ missed' = missed \ {n} /\ swallowed' = TRUE /\ UNCHANGED once
Misses(n) == missed' = missed \cup ({n} \ torn) /\ UNCHANGED <<once, torn, swallowed>>

\* merge_insert of the vectors of all its chunks.
Embed(n) ==
    /\ At(n, "embed")
    /\ vectors' = vectors \cup call[n].todo
    /\ Goto(n, "publish")
    /\ UNCHANGED <<mode, note, rows, failed, cache, ask, history>>

\* Ollama or LanceDB is away: a warning, and the approval stands.
EmbedFails(n) ==
    /\ At(n, "embed") /\ "lancedb" \in Failing
    /\ failed' = TRUE
    /\ End(n) /\ Misses(n)
    /\ UNCHANGED <<mode, note, vectors, rows, cache, ask>>

\* add_index_artifact, chunk by chunk.
Publish(n) ==
    /\ At(n, "publish")
    /\ \E c \in call[n].todo :
         /\ rows' = rows \cup {c}
         /\ call' = [call EXCEPT ![n].todo = @ \ {c},
                       ![n].pc = IF call[n].todo # {c} THEN "publish"
                                 ELSE IF call[n].published = {} THEN "notify" ELSE "clean"]
    /\ UNCHANGED <<mode, note, vectors, failed, cache, ask, history>>

\* SQLite refuses a row: the new vectors go, then the rows that were new.
PublishFails(n) ==
    /\ At(n, "publish") /\ "sqlite" \in Failing
    /\ Goto(n, "withdraw")
    /\ UNCHANGED <<mode, note, index, cache, ask, history>>

New(n) == call[n].chunks \ call[n].published

\* As if only the chunks without a row were withdrawn.
WithdrawRest(n) ==
    /\ At(n, "withdraw")
    /\ vectors' = vectors \ call[n].todo
    /\ Goto(n, "unpublish")
    /\ UNCHANGED <<mode, note, rows, failed, cache, ask, history>>

Withdraw(n) ==
    /\ At(n, "withdraw")
    /\ vectors' = vectors \ New(n)
    /\ Goto(n, "unpublish")
    /\ UNCHANGED <<mode, note, rows, failed, cache, ask, history>>

Unpublish(n) ==
    /\ At(n, "unpublish")
    /\ rows' = (rows \ call[n].chunks) \cup call[n].published
    /\ End(n)
    /\ missed' = missed \cup ({n} \ torn) /\ swallowed' = TRUE
    /\ UNCHANGED <<mode, note, vectors, failed, cache, ask, once, torn>>

(* The chunks of earlier revisions, from LanceDB first.                      *)
Clean(n) ==
    /\ At(n, "clean")
    /\ vectors' = vectors \ call[n].published
    /\ Goto(n, "forget")
    /\ UNCHANGED <<mode, note, rows, failed, cache, ask, history>>

(* Not the code: only a note without earlier chunks is announced.            *)
ForgetQuietly(n) ==
    /\ At(n, "forget")
    /\ rows' = rows \ call[n].published
    /\ End(n)
    /\ UNCHANGED <<mode, note, vectors, failed, cache, ask, history>>

Forget(n) ==
    /\ At(n, "forget")
    /\ rows' = rows \ call[n].published
    /\ Goto(n, "notify")
    /\ UNCHANGED <<mode, note, vectors, failed, cache, ask, history>>

\* _table() cannot open the table and says so to nobody: delete() answers True.
DeleteMissed(n) ==
    /\ call[n].pc \in {"withdraw", "clean"} /\ "lancedb" \in Failing
    /\ Goto(n, IF call[n].pc = "clean" THEN "forget" ELSE "unpublish")
    /\ Breaks(n)
    /\ UNCHANGED <<mode, note, index, cache, ask>>

\* delete() raises, it never answers False; nothing after it is done.
IndexFails(n) ==
    \/ /\ call[n].pc \in {"withdraw", "clean"} /\ "lancedb" \in Failing
       /\ failed' = TRUE
       /\ End(n) /\ Breaks(n)
       /\ UNCHANGED <<mode, note, vectors, rows, cache, ask>>
    \/ /\ call[n].pc \in {"unpublish", "forget"} /\ "sqlite" \in Failing
       /\ End(n) /\ Breaks(n)
       /\ UNCHANGED <<mode, note, index, cache, ask>>

Loading == \E t \in Threads : ask[t].pc \in {"index", "fill"}

\* notify_index_changed: the next question rebuilds the BM25 cache.
Notify(n) ==
    /\ At(n, "notify")
    /\ cache' = [cache EXCEPT !.warm = FALSE]
    /\ swallowed' = Loading
    /\ End(n)
    /\ UNCHANGED <<mode, note, index, ask, once, torn, missed>>

-----------------------------------------------------------------------------
(* What else happens to a note: an edit sends it back to review, its         *)
(* capture loses its approval, it is thrown away.  The index keeps it.  Nor  *)
(* is the index told of a theme, which leaves the status as it is, or of     *)
(* what another program writes, which may say approved of any text.          *)
Edit(n) ==
    /\ At(n, "idle")
    /\ note[n].status # "gone" /\ note[n].rev < MaxRevision
    /\ note' = [note EXCEPT ![n].rev = @ + 1, ![n].status = "pending_review"]
    /\ UNCHANGED <<mode, index, call, cache, ask, history>>

\* The file says approved, or not, of a text the index does not have.
Has(n, rev, status) ==
    /\ note' = [note EXCEPT ![n].rev = rev, ![n].status = status]
    /\ once' = IF status = "approved" THEN once \cup {[note |-> n, rev |-> rev]} ELSE once
    /\ missed' = missed \cup ({n} \ torn)
    /\ UNCHANGED <<mode, index, call, cache, torn, swallowed>>

Retheme(n) ==
    /\ At(n, "idle")
    /\ note[n].status # "gone" /\ note[n].rev < MaxRevision
    /\ Has(n, note[n].rev + 1, note[n].status)
    /\ UNCHANGED ask

Rewrite(n) ==
    /\ note[n].status # "gone" /\ note[n].rev < MaxRevision
    /\ \E status \in {"pending_review", "approved"} :
         /\ Has(n, note[n].rev + 1, status)
         /\ ask' = IF status = "approved" /\ note[n].eligible THEN Witness(n) ELSE ask

Change(n, changed) ==
    /\ note' = [note EXCEPT ![n] = changed]
    /\ UNCHANGED <<mode, index, call, cache, ask, history>>

OriginsRevoked(n) == note[n].eligible /\ note[n].status # "gone" /\ Change(n, [note[n] EXCEPT !.eligible = FALSE])
Discard(n) == At(n, "idle") /\ note[n].status # "gone" /\ Change(n, [note[n] EXCEPT !.status = "gone"])

(* save_settings with another policy: the services are built anew.           *)
SetRuntimePolicy(to) ==
    /\ mode # to
    /\ \A n \in Notes : At(n, "idle")
    /\ \A t \in Threads : Asks(t, "idle")
    /\ mode' = to
    /\ cache' = Cold /\ failed' = FALSE /\ swallowed' = FALSE
    /\ UNCHANGED <<note, vectors, rows, call, ask, once, torn, missed>>

Crash ==
    /\ "crash" \in Failing
    /\ call' = [n \in Notes |-> Idle]
    /\ torn' = torn \cup {n \in Notes : ~At(n, "idle") /\ ~At(n, "notify")}
    /\ ask' = [t \in Threads |-> Idle]
    /\ cache' = Cold /\ failed' = FALSE /\ swallowed' = FALSE
    /\ missed' = {n \in missed : n \notin torn'}
    /\ UNCHANGED <<mode, note, vectors, rows, once>>

-----------------------------------------------------------------------------
(* A question.  "next" says what the cache is wanted for: "hits" for a       *)
(* lexical search, "more" to fill the slots a first round left empty.        *)
Set(t, q) == ask' = [ask EXCEPT ![t] = q]

Ask(t) ==
    /\ Asks(t, "idle")
    /\ Set(t, [pc |-> IF mode = "hybrid" THEN "vectors" ELSE "cache", next |-> "hits",
               todo |-> {}, kept |-> {}, since |-> {n \in Notes : Publishable(n)}])
    /\ UNCHANGED <<mode, note, index, call, cache, history>>

\* The nearest of the chunks, which may be any.
SearchVectors(t) ==
    /\ Asks(t, "vectors")
    /\ \E hits \in SUBSET vectors :
         /\ Cardinality(hits) <= Limit
         /\ Set(t, [ask[t] EXCEPT !.pc = "check", !.todo = hits])
    /\ UNCHANGED <<mode, note, index, call, cache, history>>

\* An error of LanceDB marks the store as failed; BM25 answers instead.
SearchFails(t) ==
    /\ Asks(t, "vectors") /\ "lancedb" \in Failing
    /\ failed' = TRUE
    /\ Set(t, [ask[t] EXCEPT !.pc = "cache"])
    /\ UNCHANGED <<mode, note, vectors, rows, call, cache, history>>

\* The chunks of LanceDB, or of the publishable notes as their files are now.
PublishedNow == UNION {Current(n) : n \in {m \in Notes : Publishable(m)}}
Corpus == IF mode = "hybrid" THEN vectors ELSE PublishedNow

\* Generations are only compared, and each is a new one.
Warm == cache.warm

LoadCorpus(t) ==
    /\ Asks(t, "cache") /\ ~Warm
    /\ Set(t, [ask[t] EXCEPT !.pc = "index", !.todo = Corpus])
    /\ UNCHANGED <<mode, note, index, call, cache, history>>

NoLanceDB == mode = "hybrid" /\ "lancedb" \in Failing

\* get_all_chunks: a table that cannot be opened holds nothing.
LoadNothing(t) ==
    /\ Asks(t, "cache") /\ ~Warm /\ NoLanceDB
    /\ Set(t, [ask[t] EXCEPT !.pc = "index", !.todo = {}])
    /\ swallowed' = TRUE
    /\ UNCHANGED <<mode, note, index, call, cache, once, torn, missed>>

\* The first round finds nothing then; the second one fails the question.
LoadFails(t) ==
    /\ NoLanceDB
    /\ \/ /\ Asks(t, "cache") /\ ~Warm /\ ask[t].next = "hits"
          /\ Set(t, [ask[t] EXCEPT !.pc = "check", !.todo = {}])
       \/ /\ \/ Asks(t, "cache") /\ ~Warm /\ ask[t].next = "more"
             \/ Asks(t, "more") /\ cache.docs = {}
          /\ Set(t, Idle)
    /\ UNCHANGED <<mode, note, index, call, cache, history>>

(* The documents are those loaded, one after the other, in the dictionaries  *)
(* every thread reads and refills; the generation is the one of this moment. *)
ClearCache(t) ==
    /\ Asks(t, "index")
    /\ cache' = [cache EXCEPT !.docs = {}]
    /\ Set(t, [ask[t] EXCEPT !.pc = "fill"])
    /\ UNCHANGED <<mode, note, index, call, history>>

FillCache(t) ==
    /\ Asks(t, "fill")
    /\ \E c \in ask[t].todo :
         /\ cache' = [cache EXCEPT !.docs = @ \cup {c}]
         /\ Set(t, [ask[t] EXCEPT !.todo = @ \ {c}])
    /\ UNCHANGED <<mode, note, index, call, history>>

MarkBuilt(t) ==
    /\ Asks(t, "fill") /\ ask[t].todo = {}
    /\ cache' = [cache EXCEPT !.warm = TRUE]
    /\ Set(t, [ask[t] EXCEPT !.pc = ask[t].next])
    /\ UNCHANGED <<mode, note, index, call, history>>

UseCache(t) ==
    /\ Asks(t, "cache") /\ Warm
    /\ Set(t, [ask[t] EXCEPT !.pc = ask[t].next])
    /\ UNCHANGED <<mode, note, index, call, cache, history>>

SearchBm25(t) ==
    /\ Asks(t, "hits")
    /\ \E hits \in SUBSET cache.docs :
         /\ Cardinality(hits) <= Limit
         /\ Set(t, [ask[t] EXCEPT !.pc = "check", !.todo = hits])
    /\ UNCHANGED <<mode, note, index, call, cache, history>>

\* The documents of the cache, or the corpus itself where these are none.
Documents == IF cache.docs = {} THEN Corpus ELSE cache.docs

(* Not the code: what the first round did not find is taken as it is.        *)
AugmentUnchecked(t) ==
    /\ Asks(t, "more")
    /\ \E hits \in SUBSET (Documents \ ask[t].kept) :
         /\ Cardinality(hits) <= Limit
         /\ Set(t, [ask[t] EXCEPT !.pc = "check", !.kept = @ \cup hits])
    /\ UNCHANGED <<mode, note, index, call, cache, history>>

Augment(t) ==
    /\ Asks(t, "more")
    /\ \E hits \in SUBSET (Documents \ ask[t].kept) :
         /\ Cardinality(hits) <= Limit
         /\ Set(t, [ask[t] EXCEPT !.pc = "check", !.todo = hits])
    /\ UNCHANGED <<mode, note, index, call, cache, history>>

\* The guard reads the note of one hit after the other.
Check(t) ==
    /\ Asks(t, "check")
    /\ \E c \in ask[t].todo :
         Set(t, [ask[t] EXCEPT !.todo = @ \ {c},
                               !.kept = IF Eligible(c) THEN @ \cup {c} ELSE @])
    /\ UNCHANGED <<mode, note, index, call, cache, history>>

AskForMore(t) ==
    /\ Asks(t, "check") /\ ask[t].todo = {}
    /\ ask[t].next = "hits" /\ Cardinality(ask[t].kept) < Limit
    /\ Set(t, [ask[t] EXCEPT !.pc = "cache", !.next = "more"])
    /\ UNCHANGED <<mode, note, index, call, cache, history>>

\* _bound_hits: so many chunks.
Bound(t) ==
    /\ Asks(t, "check") /\ ask[t].todo = {}
    /\ ask[t].next = "more" \/ Cardinality(ask[t].kept) >= Limit
    /\ \E chosen \in SUBSET ask[t].kept :
         /\ Cardinality(chosen) <= Limit
         /\ Set(t, [pc |-> "answer", kept |-> chosen, since |-> ask[t].since])
    /\ UNCHANGED <<mode, note, index, call, cache, history>>

\* A question about the drafts on the screen takes these for its evidence.
AskAboutDraft(t) ==
    /\ Asks(t, "idle")
    /\ Set(t, [pc |-> "answer", kept |-> {}, since |-> {}])
    /\ UNCHANGED <<mode, note, index, call, cache, history>>

(* The answer names as its sources what the prompt was made of, and is       *)
(* written by the model, however long it takes; the evidence itself when the *)
(* policy or the budget leaves no model; an error when the provider fails.   *)
Reply(t) ==
    /\ Asks(t, "answer")
    /\ Set(t, Idle)
    /\ UNCHANGED <<mode, note, index, call, cache, history>>

-----------------------------------------------------------------------------
Publishing(n) ==
    \/ Approve(n) \/ Embed(n) \/ Publish(n) \/ Clean(n) \/ Forget(n) \/ Notify(n)
    \/ EmbedFails(n) \/ PublishFails(n) \/ Withdraw(n) \/ Unpublish(n) \/ DeleteMissed(n)
    \/ IndexFails(n)

Asking(t) ==
    \/ Ask(t) \/ AskAboutDraft(t) \/ SearchVectors(t) \/ SearchFails(t) \/ UseCache(t)
    \/ LoadCorpus(t) \/ LoadNothing(t) \/ LoadFails(t) \/ ClearCache(t) \/ FillCache(t) \/ MarkBuilt(t)
    \/ SearchBm25(t) \/ Augment(t) \/ Check(t) \/ AskForMore(t) \/ Bound(t)
    \/ Reply(t)

Next ==
    \/ \E n \in Notes : Publishing(n) \/ Edit(n) \/ Retheme(n) \/ Rewrite(n)
                      \/ OriginsRevoked(n) \/ Discard(n)
    \/ \E t \in Threads : Asking(t)
    \/ \E to \in Modes : SetRuntimePolicy(to)
    \/ Crash

Spec == Init /\ [][Next]_vars

-----------------------------------------------------------------------------
(* Whatever a question is answered from was, text for text, in its note      *)
(* while the file said approved, and the note was approved, with approved    *)
(* origins, at some moment after the question was put: no chunk an edit, a   *)
(* withdrawn capture, a failed publication or a half-filled cache left       *)
(* behind reaches a prompt, and no draft.                                    *)
ServedWasApproved ==
    \A t \in Threads : Asks(t, "answer") =>
        \A c \in ask[t].kept : [note |-> c.note, rev |-> c.rev] \in once
                             /\ c.note \in ask[t].since

(* Between publications LanceDB and index_artifacts tell the same of every   *)
(* note, also after a refused row was compensated, and of an approved note   *)
(* they hold its current revision and no other: unless a delete went wrong   *)
(* before, or the note changed without a word to the index.                  *)
IndexMatches ==
    \A n \in Notes \ torn : At(n, "idle") =>
        /\ About(rows, n) = About(vectors, n)
        /\ note[n].status = "approved" /\ n \notin missed => About(rows, n) = Current(n)

(* A cache taken for warm that nobody is refilling holds what LanceDB holds, *)
(* however many questions filled it side by side, once every publication is  *)
(* over; an announcement it did not get, or got while it was loaded, and a   *)
(* load that found the table closed are the exceptions.                      *)
CacheFollowsIndex ==
    /\ mode = "hybrid" /\ Warm /\ ~swallowed
    /\ \A t \in Threads : ~Asks(t, "fill")
    /\ \A n \in Notes : At(n, "idle")
    => cache.docs = vectors
=============================================================================
