------------------------------ MODULE FolderSync ------------------------------
(* core/folder_sync.py for the files of one relative path: several connected
   folders offer a file of that name, and a pass copies at most one of them to
   its destination in the vault. Ownership of the destination is a row of the
   sync_manifest table. The console, the bridge and the agent server start
   passes at any time, from any thread; hashing, copying and recording are
   separate steps, and people, providers and the ingestion change the same
   files meanwhile. *)
EXTENDS Naturals

CONSTANTS
  Sources,     \* connected folders holding the path, numbered in sync order
  Versions,    \* what a file may contain
  Places,      \* destinations of that name: "volcado", "comun"
  Syncers,     \* threads that run a pass
  nothing      \* no file, no row, no source

ASSUME SyncAssumption ==
  /\ Sources \subseteq Nat
  /\ Places \subseteq {"volcado", "comun"}
  /\ nothing \notin Versions \union Sources

VARIABLES
  provider,  \* the file in each connected folder
  input,     \* the file at each destination below 1_volcado
  dirty,     \* a file of that name in 2_copiado
  entries,   \* the sync_manifest row of each source
  sync,      \* each thread's pass
  quiet      \* not in the program: passes nobody has interfered with

syncVars == <<provider, input, dirty, entries, sync, quiet>>

Files == Versions \union {nothing}

Rows == [hash : Versions, place : Places, status : {"copied", "unchanged", "conflict"}]

Positions == {"idle", "scan", "compare", "copy", "record"}

Passes == [pc : Positions, place : Places \union {nothing}, left : SUBSET Sources,
           seen : [Sources -> Files], row : Rows \union {nothing}]

NoPass == [pc |-> "idle", place |-> nothing, left |-> {},
            seen |-> [s \in Sources |-> nothing], row |-> nothing]

SyncInit ==
  /\ provider \in [Sources -> Files]
  /\ input = [p \in Places |-> nothing]
  /\ dirty \in Files
  /\ entries = [s \in Sources |-> nothing]
  /\ sync = [y \in Syncers |-> NoPass]
  /\ quiet = {}

-----------------------------------------------------------------------------
PassAt(y, pc) == sync[y].pc = pc

Becomes(y, pass) == sync' = [sync EXCEPT ![y] = pass]

First(S) == CHOOSE s \in S : \A t \in S : s <= t

(* sync_to_input() takes the connections it was asked for; sync_connection(),
   and sync_output() with the direction reversed, one. *)
Selections(p) ==
  IF p = "volcado" THEN (SUBSET Sources) \ {{}} ELSE {{s} : s \in Sources}

Begin(y) ==
  /\ PassAt(y, "idle")
  /\ \E p \in Places : \E chosen \in Selections(p) :
       Becomes(y, [NoPass EXCEPT !.pc = "scan", !.place = p, !.left = chosen])
  /\ quiet' = quiet \union {y}
  /\ UNCHANGED <<provider, input, dirty, entries>>

(* The pass goes on with the sources that are left, or it returns its report. *)
Continue(y, pass) ==
  Becomes(y, IF pass.left = {} THEN NoPass ELSE [pass EXCEPT !.pc = "compare"])

Found(seen) == {s \in Sources : seen[s] # nothing}

(* scan_connection(): all folders are hashed before anything is compared; a file
   that cannot be read is reported and left out. *)
Scan(y) ==
  LET pass == sync[y] IN
  /\ PassAt(y, "scan")
  /\ \E s \in pass.left : \E content \in {provider[s], nothing} :
       LET seen == [pass.seen EXCEPT ![s] = content] IN
       IF pass.left = {s}
         THEN Continue(y, [pass EXCEPT !.seen = seen, !.left = Found(seen)])
         ELSE Becomes(y, [pass EXCEPT !.seen = seen, !.left = @ \ {s}])
  /\ UNCHANGED <<provider, input, dirty, entries, quiet>>

-----------------------------------------------------------------------------
(* One source of the group: _reconcile_source() *)

Winner(pass) == First(Found(pass.seen))

Loses(pass, s) == pass.seen[s] # pass.seen[Winner(pass)]

(* owns_destination: a row of the source names this destination; what the row
   says happened there is not asked. *)
Owns(s, p) == entries[s] # nothing /\ entries[s].place = p

(* The file of 2_copiado is only looked at by sync_to_input(). *)
DirtyBlocks(s, p, content) ==
  p = "volcado" /\ input[p] = nothing /\ dirty \notin {nothing, content} /\ ~Owns(s, p)

(* Not the code: the scan is trusted where the row says it was copied. *)
InPlaceByRow(s, p, content) ==
  input[p] = content \/ (entries[s] # nothing /\ entries[s].hash = content)

InPlace(s, p, content) == input[p] = content

Verdict(pass, s) ==
  LET p == pass.place
      content == pass.seen[s] IN
  IF Loses(pass, s) THEN "conflict"
  ELSE IF InPlace(s, p, content) THEN "unchanged"
  ELSE IF ~Owns(s, p) /\ (input[p] # nothing \/ DirtyBlocks(s, p, content)) THEN "conflict"
  ELSE "copied"

Entry(pass, s) == [hash |-> pass.seen[s], place |-> pass.place, status |-> Verdict(pass, s)]

(* The row already says so; its modification time, which is not modelled, may
   still differ. *)
Known(entry, s) ==
  /\ entry.status = "unchanged" /\ entries[s] # nothing /\ entries[s].status # "conflict"
  /\ entries[s].hash = entry.hash /\ entries[s].place = entry.place

Skipped(pass) == [pass EXCEPT !.left = @ \ {First(@)}, !.row = nothing]

(* What stands is compared by hash, and the row that will be written is decided. *)
Compare(y) ==
  LET pass == sync[y]
      s == First(pass.left)
      entry == Entry(pass, s) IN
  /\ PassAt(y, "compare")
  /\ \/ Becomes(y, [pass EXCEPT
          !.pc = IF entry.status = "copied" THEN "copy" ELSE "record", !.row = entry])
     \/ Known(entry, s) /\ Continue(y, Skipped(pass))
  /\ UNCHANGED <<provider, input, dirty, entries, quiet>>

(* atomic_copy(): the bytes the provider holds now replace the destination. *)
Copy(y) ==
  LET pass == sync[y]
      s == First(pass.left) IN
  /\ PassAt(y, "copy")
  /\ provider[s] # nothing
  /\ input' = [input EXCEPT ![pass.place] = provider[s]]
  /\ Becomes(y, [pass EXCEPT !.pc = "record"])
  /\ quiet' = quiet \intersect {y}
  /\ UNCHANGED <<provider, dirty, entries>>

(* A file that cannot be read or written is reported and skipped, without a row;
   a manifest that cannot be read or written ends the pass, and so does a loser's
   destination that cannot be read. *)
Fail(y) ==
  /\ sync[y].pc \in {"compare", "copy", "record"}
  /\ \/ /\ sync[y].pc # "record" /\ ~Loses(sync[y], First(sync[y].left))
        /\ Continue(y, Skipped(sync[y]))
     \/ sync[y].pc # "copy" /\ Becomes(y, NoPass)
  /\ quiet' = quiet \ {y}
  /\ UNCHANGED <<provider, input, dirty, entries>>

(* _manifest_update(), then the next source. *)
Record(y) ==
  LET pass == sync[y]
      s == First(pass.left) IN
  /\ PassAt(y, "record")
  /\ entries' = [entries EXCEPT ![s] = pass.row]
  /\ Continue(y, Skipped(pass))
  /\ quiet' = IF entries' = entries THEN quiet ELSE quiet \intersect {y}
  /\ UNCHANGED <<provider, input, dirty>>

-----------------------------------------------------------------------------
(* Everybody else *)

(* The owner of a connected folder edits, adds or removes the file. *)
ProviderChanges(s) ==
  /\ \E content \in Files \ {provider[s]} : provider' = [provider EXCEPT ![s] = content]
  /\ quiet' = {}
  /\ UNCHANGED <<input, dirty, entries, sync>>

(* A person saves a file of that name below 1_volcado, or it is taken away: by
   its person, by a failure that quarantines it, or after its note was made. *)
InputChanges(p) ==
  /\ \E content \in Files \ {input[p]} : input' = [input EXCEPT ![p] = content]
  /\ quiet' = {}
  /\ UNCHANGED <<provider, dirty, entries, sync>>

(* Somebody saves or removes a file of that name in 2_copiado. *)
DirtyChanges ==
  /\ dirty' \in Files \ {dirty}
  /\ quiet' = {}
  /\ UNCHANGED <<provider, input, entries, sync>>

(* The process dies, in the middle of any pass, and restarts. *)
SyncRestart ==
  /\ sync' = [y \in Syncers |-> NoPass]
  /\ quiet' = {}
  /\ UNCHANGED <<provider, input, dirty, entries>>

SyncStep(y) == Begin(y) \/ Scan(y) \/ Compare(y) \/ Copy(y) \/ Fail(y) \/ Record(y)

SyncNext ==
  \/ \E y \in Syncers : SyncStep(y)
  \/ \E s \in Sources : ProviderChanges(s)
  \/ \E p \in Places : InputChanges(p)
  \/ DirtyChanges
  \/ SyncRestart

SyncSpec == SyncInit /\ [][SyncNext]_syncVars

-----------------------------------------------------------------------------
(* Properties *)

(* Every variable has the shape of its file, row or call stack. *)
TypeOK ==
  /\ provider \in [Sources -> Files]
  /\ input \in [Places -> Files]
  /\ dirty \in Files
  /\ entries \in [Sources -> Rows \union {nothing}]
  /\ sync \in [Syncers -> Passes]
  /\ quiet \subseteq Syncers

Returns(y) == sync[y].pc \in {"compare", "record"} /\ sync'[y].pc = "idle"

(* What sync_to_input() reports of a pass nobody interfered with is true when it
   returns, whatever earlier passes, restarts and other threads left behind:
   each file it found is in place, or recorded as a conflict with something that
   stands there. *)
QuietPassSettles ==
  [][\A y \in quiet \intersect quiet' : Returns(y) =>
       \A s \in Found(sync[y].seen) :
         /\ entries'[s].hash = sync[y].seen[s]
         /\ entries'[s].place = sync[y].place
         /\ IF entries'[s].status = "conflict"
              THEN input[sync[y].place] # nothing \/ dirty # nothing
              ELSE input[sync[y].place] = sync[y].seen[s]]_syncVars
=============================================================================
