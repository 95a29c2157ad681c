---------------------------- MODULE MigratedVault ----------------------------
(***************************************************************************)
(* What the migrations of scripts/migrate_vault.py share: notes on disk,   *)
(* their catalog rows and approvals, a manifest on disk that is loaded,    *)
(* carried along in memory and written back, one call at a time, and the   *)
(* people who go on working.  Each tool has its actions in a module of its *)
(* own; VaultMigrations puts them together.                                *)
(***************************************************************************)
EXTENDS Integers, FiniteSets

CONSTANTS
    Notes,        \* numbers: the manifest lists its entries by path
    Owner,        \* a note with a wikilink to another; no tool has an entry for it
    Bodies,       \* contents below the frontmatter
    Tools,        \* "v3", "sumarios", "taxonomy", "schema", "identity"
    MaxTouched,   \* bound of the notes people change
    MaxRevision,  \* bound of the revisions a run makes
    missing

ASSUME NotesAssumption == Notes \subseteq Nat /\ Owner \in Notes
ASSUME ToolsAssumption == Tools \subseteq {"v3", "sumarios", "taxonomy", "schema", "identity"}

VARIABLES
    tool,      \* the migration of this vault
    file,      \* note -> place -> Markdown or missing
    cat,       \* note_catalog: note -> row or missing
    seals,     \* note_approvals: note -> approved versions
    journal,   \* the manifest on disk
    mem,       \* the manifest of the running call
    call,      \* the running call
    backup,    \* backup files: note -> Markdown or missing
    snapshot,  \* copy of state.db, or missing
    touched,   \* history: notes people changed since the plan
    left,      \* history: note -> the body a person left last, until a tool
               \* writes over what it has not read
    torn       \* history: the kind of call that has died halfway

rows == <<cat, seals>>
copies == <<backup, snapshot>>
history == <<touched, left, torn>>
migrationVars == <<tool, file, rows, journal, mem, call, copies, history>>

Entries == Notes \ {Owner}
Places == {"old", "new"}
Revision == Nat \ {0}
\* "before" and "after" stand for the frontmatter the tool rewrites.
Text == [body : Bodies, form : {"before", "after"}, link : Places]
CatalogRow == [place : Places, rev : Revision, text : Text]
Version == [rev : Revision, text : Text]
Phase == {"planned", "frontmatter_written", "catalog_committed", "derived_marked",
          "file_moved", "identity_committed", "completed"}
ManifestEntry == [phase : Phase, applied : BOOLEAN, skipped : BOOLEAN, pre : Text,
          post : Text \union {missing}, rev : Revision, existed : BOOLEAN]
Change == [pre : Text, post : Text, targets : SUBSET Entries]
Manifest == [status : {"planned", "approved", "completed", "rolled_back"},
             entry : [Entries -> ManifestEntry], change : Change \union {missing}]
RuntimeCopy == [cat : [Notes -> CatalogRow \union {missing}], seals : [Notes -> SUBSET Version]]
ASSUME MissingAssumption ==
    missing \notin Text \union CatalogRow \union Change \union Manifest \union RuntimeCopy
CallPoint == {"next", "entry", "journal", "phase", "committed", "restore", "restored",
          "rename", "journal_move", "relocate", "moved", "relink", "link", "linked",
          "unrelink", "unlink", "finish", "rewrite", "register", "record", "runtime",
          "write", "unwrite", "bring"}
NoCall == [op |-> "idle", pc |-> "next", todo |-> {}, note |-> Owner, saw |-> missing,
         row |-> missing, moved |-> {}]
CallRecord == [op : {"idle", "apply", "rollback"}, pc : CallPoint, todo : SUBSET Entries,
         note : Notes, saw : Text \union {missing}, row : CatalogRow \union {missing},
         moved : SUBSET Entries]

MigrationTypeOK ==
    /\ tool \in Tools
    /\ file \in [Notes -> [Places -> Text \union {missing}]]
    /\ cat \in [Notes -> CatalogRow \union {missing}]
    /\ seals \in [Notes -> SUBSET Version]
    /\ journal \in Manifest
    /\ mem \in Manifest \union {missing}
    /\ call \in CallRecord
    /\ backup \in [Notes -> Text \union {missing}]
    /\ snapshot \in RuntimeCopy \union {missing}
    /\ touched \subseteq Notes
    /\ left \in [Notes -> Bodies]
    /\ torn \in {"no", "apply", "rollback"}

-----------------------------------------------------------------------------
(* What a plan writes down of a note; v3 and sumarios know what it will be.  *)
Listed(n, post) ==
    [phase |-> "planned", applied |-> FALSE, skipped |-> FALSE,
     pre |-> file[n].old, post |-> post, rev |-> 1, existed |-> cat[n] # missing]

Migrated(text) == [text EXCEPT !.form = "after"]

V3Entry(n) == Listed(n, Migrated(file[n].old))

\* A move leaves the text alone.
SumariosEntry(n) == Listed(n, file[n].old)

TaxonomyEntry(n) == Listed(n, missing)

\* The two tools of vault_migration.py keep no revision and no hash.
SchemaEntry(n) == Listed(n, missing)

IdentityEntry(n) == Listed(n, missing)

Planned ==
    [status |-> "planned", change |-> missing,
     entry |-> [n \in Entries |->
        CASE tool = "v3" -> V3Entry(n)
          [] tool = "sumarios" -> SumariosEntry(n)
          [] tool = "taxonomy" -> TaxonomyEntry(n)
          [] tool = "schema" -> SchemaEntry(n)
          [] tool = "identity" -> IdentityEntry(n)]]

\* sumarios plans only notes with a row, identity_backfill notes in the form
\* of before there were rows.
MigrationInit ==
    /\ tool \in Tools
    /\ file \in [Notes -> [old : [body : Bodies, form : {"before"}, link : {"old"}],
                           new : {missing}]]
    /\ \A n, m \in Notes : file[n] = file[m]
    /\ cat \in [Notes -> {missing, [place |-> "old", rev |-> 1, text |-> file[Owner].old]}]
    /\ tool = "sumarios" => \A n \in Entries : cat[n] # missing
    /\ tool = "identity" => \A n \in Entries : cat[n] = missing
    /\ seals \in [Notes -> {{}, {[rev |-> 1, text |-> file[Owner].old]}}]
    /\ \A n \in Notes : cat[n] = missing => seals[n] = {}
    /\ cat[Owner] # missing /\ seals[Owner] = {}
    /\ journal = Planned
    /\ mem = missing /\ call = NoCall
    /\ backup = [n \in Notes |-> missing] /\ snapshot = missing
    /\ touched = {} /\ left = [n \in Notes |-> file[n].old.body] /\ torn = "no"

-----------------------------------------------------------------------------
Running(op) == call.op = op
AtPoint(point) == call.op # "idle" /\ call.pc = point
Onward(point) == call' = [call EXCEPT !.pc = point]
E == mem.entry[call.note]
F == file[call.note]

BeginCall(op, manifest, todo) ==
    /\ call.op = "idle"
    /\ \A n \in Notes : cat[n] # missing => cat[n].rev <= MaxRevision
    /\ mem' = manifest
    /\ call' = [NoCall EXCEPT !.op = op, !.todo = todo]

Return == call' = NoCall /\ mem' = missing

\* Entries are applied in the order of the manifest and rolled back against it.
Turn(n) ==
    \A m \in call.todo : IF Running("apply") THEN n <= m ELSE m <= n

TakeEntry ==
    /\ AtPoint("next")
    /\ \E n \in call.todo :
         /\ Turn(n)
         /\ call' = [call EXCEPT !.pc = "entry", !.note = n, !.todo = @ \ {n}]
    /\ UNCHANGED <<tool, file, rows, journal, mem, copies, history>>

Drained == AtPoint("next") /\ call.todo = {}

\* Memory and disk are the same after a persist.
Annotated(entry) == [mem EXCEPT !.entry[call.note] = entry]
Noted(entry) == mem' = Annotated(entry)
Persist == journal' = mem'

SetFile(n, place, text) == file' = [file EXCEPT ![n][place] = text]

(* atomic_write_text does not look at what it replaces: "seen" is the text   *)
(* the tool has read, and what a person has saved since is gone.             *)
Overwrite(n, seen, text) ==
    /\ SetFile(n, "old", text)
    /\ left' = IF file[n].old = seen THEN left ELSE [left EXCEPT ![n] = text.body]

\* Reading the text of a note before the decision that the next step carries out.
Read(point) == call' = [call EXCEPT !.pc = point, !.saw = F.old]

\* update_note_cas of a row read just before.
Recorded(row, place, text) == [row EXCEPT !.place = place, !.rev = @ + 1, !.text = text]

\* The call dies or raises what nobody catches, a busy database for instance.
CallDies ==
    /\ call.op # "idle"
    /\ torn' = IF Running("rollback") THEN "rollback"
               ELSE IF torn = "no" THEN "apply" ELSE torn
    /\ Return
    /\ UNCHANGED <<tool, file, rows, journal, copies, touched, left>>

-----------------------------------------------------------------------------
(* People, who save at any moment.                                           *)
Work(n, body) ==
    /\ touched' = touched \union {n} /\ Cardinality(touched') <= MaxTouched
    /\ left' = [left EXCEPT ![n] = body]
    /\ UNCHANGED <<tool, seals, journal, mem, call, copies, torn>>

SaveOutside(n, place, body) ==
    /\ file[n][place] # missing
    /\ body # file[n][place].body
    /\ SetFile(n, place, [file[n][place] EXCEPT !.body = body])
    /\ Work(n, body)
    /\ UNCHANGED cat

\* The editor of the application: the file must be what the row says.
SaveInside(n, body) ==
    /\ cat[n] # missing /\ cat[n].rev < MaxRevision
    /\ file[n][cat[n].place] = cat[n].text
    /\ body # cat[n].text.body
    /\ LET text == [cat[n].text EXCEPT !.body = body]
       IN  /\ SetFile(n, cat[n].place, text)
           /\ cat' = [cat EXCEPT ![n] = Recorded(@, @.place, text)]
    /\ Work(n, body)

PeopleWork ==
    \E n \in Notes, body \in Bodies :
       \/ \E place \in Places : SaveOutside(n, place, body)
       \/ SaveInside(n, body)
=============================================================================
