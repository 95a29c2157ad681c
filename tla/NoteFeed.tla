------------------------------- MODULE NoteFeed -------------------------------
(* Reading a list page by page while it changes: the feed of notes
   (application/feed.py), read by the window or, through the agent, by a member of
   the organization, and the queue of jobs (application/job_control.py). A page is
   one query; a cursor names the last row of the page before. *)
EXTENDS FiniteSets, Naturals, Sequences

CONSTANTS
  Rows,        \* note_id or job_id, in the order SQLite gives them: 1 .. n
  Urgent,      \* notes whose text says they are urgent; the others are of another urgency
  Limit,       \* rows of a page
  Overfetch,   \* rows fetched when the feed is filtered by urgency
  MaxEvents    \* bound: changes while the list is read

VARIABLES
  table,   \* the rows of note_catalog with their claims, or of jobs
  clock,   \* the latest updated_at
  walk,    \* what the reader has asked for and has seen
  steady,  \* not in the program: rows of the list nothing has happened to meanwhile
  events   \* bound

feedVars == <<table, clock, walk, steady, events>>

-----------------------------------------------------------------------------
Row == [at : {0, 1}, approved : BOOLEAN, claimed : BOOLEAN,
        gone : BOOLEAN, visible : BOOLEAN]

Seals == {"approved", "in_review", "pending_review"}
Urgencies == {"urgent", "calm"}
FeedFilters == Seals \union Urgencies \union {"none"}
QueueFilters == {"none", "status"}

Closed == [reader |-> "nobody", filter |-> "none", cursor |-> <<>>, page |-> {},
           more |-> FALSE, seen |-> <<>>, pc |-> "closed"]

Init ==
  /\ table \in [Rows -> {r \in Row : ~r.gone /\ r.visible /\ (r.claimed => ~r.approved)}]
  /\ clock = 1
  /\ walk = Closed
  /\ steady = {} /\ events = MaxEvents

(* The clauses of list_feed_page() *)
SealOf(r) == IF r.approved THEN "approved" ELSE IF r.claimed THEN "in_review" ELSE "pending_review"

InFeed(r, filter) == ~r.gone /\ (filter \in Seals => SealOf(r) = filter)

(* ... and of list_jobs_page(): "approved" stands for the status asked for. *)
InQueue(r, filter) == filter = "status" => r.approved

Listed(reader, r, filter) == IF reader = "queue" THEN InQueue(r, filter) ELSE InFeed(r, filter)

(* Newest first, the id deciding between rows of one moment. *)
Precedes(a, b) == a[1] > b[1] \/ (a[1] = b[1] /\ a[2] > b[2])

Key(n) == <<table[n].at, n>>

(* Not the code: rows of the moment the page before ended at are passed over. *)
BeyondMoment(cursor, n) == cursor = <<>> \/ cursor[1] > table[n].at

Beyond(cursor, n) == cursor = <<>> \/ Precedes(cursor, Key(n))

Newer(m, n) == Precedes(Key(m), Key(n))

(* ORDER BY and LIMIT: a page is the set of its rows, which are shown newest first. *)
Front(rows, count) == {n \in rows : Cardinality({m \in rows : Newer(m, n)}) < count}

Fetched(w, count) ==
  Front({n \in Rows : Listed(w.reader, table[n], w.filter) /\ Beyond(w.cursor, n)}, count)

FetchLimit(filter) == IF filter \in Urgencies THEN Overfetch ELSE Limit + 1

Wanted(filter, n) ==
  (filter = "urgent" => n \in Urgent) /\ (filter = "calm" => n \notin Urgent)

Oldest(rows) == CHOOSE n \in rows : \A m \in rows : ~Newer(n, m)

(* list_feed(), list_jobs(): urgency is read from the note itself. A row more than
   the page shows that there is another page; a page without rows has no cursor. *)
Query(w) ==
  LET count == FetchLimit(w.filter)
      rows == Fetched(w, count)
      items == {n \in rows : Wanted(w.filter, n)}
      shown == Front(items, Limit)
      more == Cardinality(items) > Limit \/ (w.reader # "queue" /\ Cardinality(rows) >= count)
  IN [w EXCEPT !.page = shown, !.more = more, !.pc = "page",
               !.cursor = IF more /\ shown # {} THEN Key(Oldest(shown)) ELSE <<>>]

-----------------------------------------------------------------------------
Open ==
  /\ walk.pc = "closed"
  /\ \E reader \in {"window", "agent", "queue"},
        filter \in FeedFilters \union QueueFilters :
       /\ filter \in (IF reader = "queue" THEN QueueFilters
                      ELSE IF reader = "agent" THEN {"none"} ELSE FeedFilters)
       /\ walk' = Query([Closed EXCEPT !.reader = reader, !.filter = filter])
       /\ steady' = {n \in Rows : /\ Listed(reader, table[n], filter)
                                  /\ Wanted(filter, n)
                                  /\ reader = "agent" => table[n].visible}
  /\ UNCHANGED <<table, clock, events>>

(* The page reaches the reader; the agent leaves out what is not shared with it. A
   page that promises more and names no cursor leaves him without a way on. *)
Deliver ==
  LET Visible(n) == walk.reader = "agent" => table[n].visible IN
  /\ walk.pc = "page"
  /\ walk' = [walk EXCEPT !.seen = Append(@, {n \in walk.page : Visible(n)}), !.page = {},
                          !.pc = IF ~walk.more THEN "done"
                                 ELSE IF walk.cursor = <<>> THEN "lost" ELSE "ask"]
  /\ UNCHANGED <<table, clock, steady, events>>

More ==
  /\ walk.pc = "ask" /\ walk' = Query(walk)
  /\ UNCHANGED <<table, clock, steady, events>>

(* Something happens to a row: while the list is read, and only that matters. *)
Happens(n, row) ==
  /\ walk.pc \in {"page", "ask"} /\ events > 0 /\ events' = events - 1
  /\ table' = [table EXCEPT ![n] = row]
  /\ steady' = steady \ {n}
  /\ UNCHANGED walk

(* A note is edited or approved, a job moves on: a new moment, or the same one. *)
Update(n) ==
  \E row \in Row :
    /\ row.at = 1 /\ row.gone = table[n].gone /\ row.visible = table[n].visible
    /\ row.claimed = table[n].claimed /\ ~table[n].gone
    /\ \E now \in {clock, clock + 1} : Happens(n, [row EXCEPT !.at = now]) /\ clock' = now

(* It is claimed or its claim expires, buried, shared or no longer shared. *)
Mark(n) ==
  /\ walk.reader # "queue"
  /\ \E what \in {"claimed", "gone", "visible"} :
       Happens(n, [table[n] EXCEPT ![what] = ~@]) /\ (table[n].gone => what # "gone")
  /\ UNCHANGED clock

Next == Open \/ Deliver \/ More \/ \E n \in Rows : Update(n) \/ Mark(n)

Spec == Init /\ [][Next]_feedVars

-----------------------------------------------------------------------------
(* Properties *)

(* Whoever is told that there is no more has seen every row that was in the list and
   to which nothing happened meanwhile on exactly one page, newest first, however the
   other rows moved between the pages. *)
PagesAreComplete ==
  walk.pc = "done" =>
    /\ \A n \in steady : \E i \in DOMAIN walk.seen :
         /\ n \in walk.seen[i]
         /\ \A j \in DOMAIN walk.seen \ {i} : n \notin walk.seen[j]
    /\ \A i, j \in DOMAIN walk.seen : i < j =>
         \A m \in walk.seen[i] \intersect steady, n \in walk.seen[j] \intersect steady : Newer(m, n)
=============================================================================
