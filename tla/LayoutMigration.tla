--------------------------- MODULE LayoutMigration ---------------------------
(***************************************************************************)
(* VaultLayoutMigrator, infrastructure/vault_layout_migration.py: the      *)
(* files of a theme are moved from 4_salida ("src") to 4_procesado ("dst") *)
(* by making a second hard link and removing the first, with a journal     *)
(* row per file in SQLite, and moved back the same way.                    *)
(*                                                                         *)
(* A file system entry is the number of an inode; people replace entries   *)
(* (editors save by renaming a new file over the old one), write into an   *)
(* inode, and remove entries.  apply() and rollback() run under a file     *)
(* lock the system frees when the process dies: one call runs at a time,   *)
(* and every step between two system calls may be its last.                *)
(***************************************************************************)
EXTENDS Naturals

CONSTANTS
    Files,      \* relative paths below the output root
    Inodes,     \* inode numbers; a number is free again when no entry names it
    Texts,      \* contents, as their SHA-256
    Plans,      \* plan ids
    BothSides,  \* people also touch the side a running call moves files to
    none        \* no entry, no row, no inode

ASSUME NoneAssumption == none \notin Inodes \union Files
ASSUME BothSidesAssumption == BothSides \in BOOLEAN

VARIABLES
    entry,  \* the two directories: side -> file -> inode or none
    text,   \* content of every inode
    row,    \* vault_layout_migration_items: plan -> file -> row or none
    run,    \* the call that holds the migration lock
    kept    \* history: inodes holding the last version a person left of a file

vars == <<entry, text, row, run, kept>>

Sides == {"src", "dst"}
Other(s) == IF s = "src" THEN "dst" ELSE "src"
MaybeInode == Inodes \union {none}
Status == {"planned", "linked", "applied", "rolled_back"}
Row == [status : Status, sha : Texts, ino : MaybeInode]

ASSUME RowAssumption == none \notin Row

\* Where a call stands: between two files, or at the system call it makes
\* next for the file "cur".
Point == {"next", "link", "stat", "journal", "check", "drop", "unlink",
          "undo", "unmake", "replan", "finish"}
Call == [op : {"apply", "rollback"}, plan : Plans, todo : SUBSET Files,
         cur : Files \union {none}, pc : Point,
         seen : MaybeInode, there : MaybeInode]
Idle == [op |-> "idle"]

Entry == [Files -> MaybeInode]

TypeOK ==
    /\ entry \in [Sides -> Entry]
    /\ text \in [Inodes -> Texts]
    /\ row \in [Plans -> [Files -> Row \union {none}]]
    /\ run \in Call \union {Idle}
    /\ kept \in [Files -> SUBSET Inodes]

Init ==
    /\ entry \in [Sides -> Entry]
    /\ \A f \in Files : entry["src"][f] # none /\ entry["dst"][f] = none
    /\ \A f, g \in Files : f # g => entry["src"][f] # entry["src"][g]
    /\ text \in [Inodes -> Texts]
    /\ row = [p \in Plans |-> [f \in Files |-> none]]
    /\ run = Idle
    /\ kept = [f \in Files |-> {entry["src"][f]}]

-----------------------------------------------------------------------------
(* The side a call moves files from and the side it moves them to.         *)
From(op) == IF op = "apply" THEN "src" ELSE "dst"
To(op) == Other(From(op))

Busy == run # Idle
At(point) == Busy /\ run.pc = point
Here == entry[From(run.op)][run.cur]
There == entry[To(run.op)][run.cur]
Item == row[run.plan][run.cur]

Goto(point) == run' = [run EXCEPT !.pc = point]
\* The next file of the loop, or the report.
NextFile ==
    run' = IF run.todo = {} THEN Idle
           ELSE [run EXCEPT !.pc = "next", !.cur = none, !.seen = none,
                            !.there = none]
\* An exception ends the call and frees the lock.
Raise == run' = Idle /\ UNCHANGED <<entry, text, row, kept>>
\* SQLite commits one statement: a crash falls before or after it.
Record(status, ino) ==
    row' = [row EXCEPT ![run.plan][run.cur] =
               [status |-> status, sha |-> Item.sha, ino |-> ino]]
PutEntry(s, f, i) == entry' = [entry EXCEPT ![s][f] = i]

(* plan(): an inventory of 4_salida with the content of every file.        *)
Plan(p) ==
    /\ row[p] = [f \in Files |-> none]
    /\ row' = [row EXCEPT ![p] = [f \in Files |->
                  IF entry["src"][f] = none THEN none
                  ELSE [status |-> "planned", sha |-> text[entry["src"][f]],
                        ino |-> none]]]
    /\ UNCHANGED <<entry, text, run, kept>>

Items(p) == {f \in Files : row[p][f] # none}

(* _preflight_apply: every file that is left must be as it was planned and *)
(* its destination free, or already be both names of the linked inode.     *)
MayApply(p) ==
    \A f \in Items(p) :
        LET item == row[p][f]
            source == entry["src"][f]
            target == entry["dst"][f]
        IN  item.status \in {"planned", "linked"} =>
              /\ source # none
              /\ text[source] = item.sha
              /\ item.status = "planned" => target = none
              /\ item.status = "linked" => target = item.ino /\ source = item.ino

(* _preflight_rollback: every applied file must still be the linked inode  *)
(* with the planned content, and its old place free.                       *)
MayRollback(p) ==
    \A f \in Items(p) :
        LET item == row[p][f] IN
        item.status = "applied" =>
            /\ entry["src"][f] = none
            /\ entry["dst"][f] # none
            /\ entry["dst"][f] = item.ino
            /\ text[entry["dst"][f]] = item.sha

Begin(op, p, todo) ==
    /\ ~Busy
    /\ run' = [op |-> op, plan |-> p, todo |-> todo, cur |-> none,
               pc |-> "next", seen |-> none, there |-> none]
    /\ UNCHANGED <<entry, text, row, kept>>

\* Rows already applied or rolled back are skipped by the loop.
Apply(p) ==
    LET todo == {f \in Items(p) : row[p][f].status \in {"planned", "linked"}}
    IN  todo # {} /\ MayApply(p) /\ Begin("apply", p, todo)

Rollback(p) ==
    LET todo == {f \in Items(p) : row[p][f].status = "applied"}
    IN  todo # {} /\ MayRollback(p) /\ Begin("rollback", p, todo)

Take(f) ==
    /\ run' = [run EXCEPT !.todo = @ \ {f}, !.cur = f,
                  !.pc = IF row[run.plan][f].status = "linked" THEN "drop" ELSE "link",
                  !.seen = entry[From(run.op)][f]]
    /\ UNCHANGED <<entry, text, row, kept>>

(* Not the code: the inode is not compared. *)
AsPlannedByText(f) ==
    LET source == entry[From(run.op)][f]
    IN  source # none /\ text[source] = row[run.plan][f].sha

(* The file is opened and hashed before anything is done to it.  apply()   *)
(* raises when the content is not the planned one or, for a linked row,    *)
(* when the entry is not its inode; rollback() notes a conflict instead.   *)
AsPlanned(f) ==
    LET source == entry[From(run.op)][f]
        item == row[run.plan][f]
    IN  /\ source # none
        /\ text[source] = item.sha
        /\ item.status # "planned" => source = item.ino

Open(f) ==
    /\ At("next")
    /\ f \in run.todo
    /\ AsPlanned(f)
    /\ Take(f)

OpenFails(f) ==
    /\ At("next")
    /\ f \in run.todo
    /\ ~AsPlanned(f)
    /\ run.op = "rollback" => entry["dst"][f] = none
    /\ Raise

OpenConflict(f) ==
    /\ At("next")
    /\ run.op = "rollback"
    /\ f \in run.todo
    /\ entry["dst"][f] # none
    /\ ~AsPlanned(f)
    /\ run' = IF run.todo = {f} THEN Idle ELSE [run EXCEPT !.todo = @ \ {f}]
    /\ UNCHANGED <<entry, text, row, kept>>

(* os.link by name: whatever the entry names now, not what was opened.  It *)
(* fails when the entry is gone or the other side is occupied.             *)
Link ==
    /\ At("link")
    /\ Here # none /\ There = none
    /\ PutEntry(To(run.op), run.cur, Here)
    /\ Goto("stat")
    /\ UNCHANGED <<text, row, kept>>

LinkFails ==
    /\ At("link")
    /\ Here = none \/ There # none
    /\ Raise

(* The identity of the new entry; rollback() compares it at once.          *)
Stat ==
    /\ At("stat")
    /\ There # none
    /\ run' = [run EXCEPT !.there = There,
                 !.pc = IF run.op = "apply" THEN "journal"
                        ELSE IF There = run.seen THEN "drop" ELSE "undo"]
    /\ UNCHANGED <<entry, text, row, kept>>

Journal ==
    /\ At("journal")
    /\ Record("linked", run.seen)
    /\ Goto("check")
    /\ UNCHANGED <<entry, text, kept>>

(* Are both names still the inode that was opened, with its content?       *)
Check ==
    /\ At("check")
    /\ Here # none /\ There # none
    /\ Goto(IF /\ Here = run.seen /\ run.there = run.seen
               /\ text[There] = Item.sha /\ text[run.seen] = Item.sha
            THEN "drop" ELSE "undo")
    /\ UNCHANGED <<entry, text, row, kept>>

CheckFails == At("check") /\ (Here = none \/ There = none) /\ Raise

(* Not the code: the identity is what the name has now. *)
DropByName ==
    /\ At("drop")
    /\ Here # none
    /\ run' = [run EXCEPT !.pc = "unlink", !.seen = Here]
    /\ UNCHANGED <<entry, text, row, kept>>

(* _unlink_if_identity of the old name: its identity is compared, and then *)
(* the name is unlinked, whatever it names by then.                        *)
Drop ==
    /\ At("drop")
    /\ Here # none
    /\ Goto(IF Here = run.seen THEN "unlink" ELSE "undo")
    /\ UNCHANGED <<entry, text, row, kept>>

\* History: a file put at the name after it was compared goes with it.
Lose(s, seen) ==
    kept' = IF entry[s][run.cur] = seen THEN kept
            ELSE [kept EXCEPT ![run.cur] = @ \ {entry[s][run.cur]}]

Unlink ==
    /\ At("unlink")
    /\ Here # none
    /\ PutEntry(From(run.op), run.cur, none)
    /\ Lose(From(run.op), run.seen)
    /\ Goto("finish")
    /\ UNCHANGED <<text, row>>

DropFails == (At("drop") \/ At("unlink")) /\ Here = none /\ Raise

Finish ==
    /\ At("finish")
    /\ Record(IF run.op = "apply" THEN "applied" ELSE "rolled_back", Item.ino)
    /\ NextFile
    /\ UNCHANGED <<entry, text, kept>>

(* _unlink_if_identity of the new name after something changed.  A resumed *)
(* row raises instead: its call never made the second name.                *)
Undo ==
    /\ At("undo")
    /\ run.there # none
    /\ There # none
    /\ IF There = run.there THEN Goto("unmake") ELSE NextFile
    /\ UNCHANGED <<entry, text, row, kept>>

Unmake ==
    /\ At("unmake")
    /\ There # none
    /\ PutEntry(To(run.op), run.cur, none)
    /\ Lose(To(run.op), run.there)
    /\ IF run.op = "apply" THEN Goto("replan") ELSE NextFile
    /\ UNCHANGED <<text, row>>

UndoFails ==
    /\ \/ At("undo") /\ run.there = none
       \/ (At("undo") \/ At("unmake")) /\ There = none
    /\ Raise

Replan ==
    /\ At("replan")
    /\ Record("planned", Item.ino)
    /\ NextFile
    /\ UNCHANGED <<entry, text, kept>>

(* The process dies, or an exception of SQLite or the system ends the call: the *)
(* stat of a name just linked that is gone again is one of them.           *)
Crash == Busy /\ Raise

-----------------------------------------------------------------------------
(* People and other programs.                                              *)
Free(i) ==
    /\ \A s \in Sides, f \in Files : entry[s][f] # i
    /\ Busy => run.seen # i

Touches(s) == Busy => BothSides \/ s = From(run.op)

Without(f, i) == kept[f] \ {i}

\* A new file is put at a name, or renamed over the one that is there.
Save(s, f, i, t) ==
    /\ Touches(s)
    /\ Free(i)
    /\ PutEntry(s, f, i)
    /\ text' = [text EXCEPT ![i] = t]
    /\ kept' = [kept EXCEPT ![f] = Without(f, entry[s][f]) \union {i}]
    /\ UNCHANGED <<row, run>>

Edit(s, f, t) ==
    /\ entry[s][f] # none
    /\ text' = [text EXCEPT ![entry[s][f]] = t]
    /\ UNCHANGED <<entry, row, run, kept>>

\* Removing one of two visible names of a file does not give the file up.
Remove(s, f) ==
    /\ Touches(s)
    /\ entry[s][f] # none
    /\ PutEntry(s, f, none)
    /\ kept' = IF ~Busy /\ entry[Other(s)][f] = entry[s][f] THEN kept
               ELSE [kept EXCEPT ![f] = Without(f, entry[s][f])]
    /\ UNCHANGED <<text, row, run>>

-----------------------------------------------------------------------------
Migrator ==
    \/ \E p \in Plans : Plan(p) \/ Apply(p) \/ Rollback(p)
    \/ \E f \in Files : Open(f) \/ OpenFails(f) \/ OpenConflict(f)
    \/ Link \/ LinkFails \/ Stat \/ Journal
    \/ Check \/ CheckFails \/ Drop \/ Unlink \/ DropFails \/ Finish
    \/ Undo \/ Unmake \/ UndoFails \/ Replan \/ Crash

People ==
    \E s \in Sides, f \in Files :
        \/ \E i \in Inodes, t \in Texts : Save(s, f, i, t)
        \/ \E t \in Texts : Edit(s, f, t)
        \/ Remove(s, f)

Next == Migrator \/ People

Spec == Init /\ [][Next]_vars

-----------------------------------------------------------------------------
(* The last version a person left of a file is always under one of its two *)
(* names, wherever a call is interrupted and whatever changed under it:    *)
(* links are removed only after the identity checks of apply() and         *)
(* rollback().  Only a file put at the name between the stat and the unlink *)
(* of one _unlink_if_identity may go (Lose); nothing else ever does.       *)
NothingLost ==
    \A f \in Files : \A i \in kept[f] :
        \E s \in Sides : entry[s][f] = i

(* A row says "applied" only of a file whose old name is gone and whose new  *)
(* name is the inode that was journalled, and "rolled_back" only of the      *)
(* reverse, also when the call resumes what an interrupted one began.        *)
RecordedAfterMove ==
    [][\A p \in Plans : \A f \in Items(p) :
         row'[p][f].status # row[p][f].status =>
           /\ row'[p][f].status = "applied" =>
                /\ entry["dst"][f] = row[p][f].ino
                /\ entry["src"][f] # row[p][f].ino
           /\ row'[p][f].status = "rolled_back" =>
                /\ entry["src"][f] = row[p][f].ino
                /\ entry["dst"][f] # row[p][f].ino]_vars
===============================================================================
