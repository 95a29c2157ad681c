-------------------------- MODULE Migrations_proofs --------------------------
(***************************************************************************)
(* Theorems about the migrations. LayoutMigration, for any number of files, *)
(* plans, inodes and contents, when people leave alone the side a running   *)
(* call moves files to (BothSides = FALSE); VaultMigrations, for any notes, *)
(* contents and tools, however often calls die, are repeated or undone and  *)
(* whatever people change meanwhile.                                        *)
(***************************************************************************)
EXTENDS LayoutMigration, VaultMigrations, TLAPS

\* The second name exists, or existed a moment ago.
Doubled ==
    \/ run.pc \in {"stat", "journal", "check"}
    \/ run.pc \in {"drop", "unlink", "undo", "unmake"} /\ run.there # none

\* What a call still has to do, and what the rows say of it.
LoopInv ==
    /\ run.todo \subseteq Items(run.plan)
    /\ run.cur \notin run.todo
    /\ run.pc # "next" => run.cur \in Items(run.plan) /\ run.seen # none
    /\ run.pc \in {"next", "link"} => run.there = none
    /\ run.op = "apply" =>
         \A f \in run.todo : row[run.plan][f].status = "linked"
                               => entry["dst"][f] = row[run.plan][f].ino
    /\ run.op = "rollback" =>
         \A f \in run.todo : row[run.plan][f].status = "applied"

\* Where the names of the file in hand are.
NameInv ==
    /\ run.pc \in {"journal", "check", "replan"} => run.op = "apply"
    /\ Doubled => There = none \/ Here = There \/ There \notin kept[run.cur]
    /\ run.pc \in {"journal", "check", "drop", "unlink", "undo", "unmake"} /\ run.there # none
         => There = run.there
    /\ run.pc \in {"drop", "unlink"} => There = run.seen
    /\ run.pc = "unmake" => run.there # none
    /\ run.pc = "finish" => There = run.seen /\ Here # run.seen
    /\ run.pc \in {"check", "drop", "unlink", "finish"} => Item.ino = run.seen
    /\ run.op = "rollback" /\ run.pc # "next" => Item.ino = run.seen

RunInv == Busy => LoopInv /\ NameInv

IInv == TypeOK /\ NothingLost /\ RunInv

-----------------------------------------------------------------------------
LEMMA CallTyped == ASSUME TypeOK, Busy PROVE run \in Call
BY DEF TypeOK, Busy

LEMMA PutFacts ==
    ASSUME entry \in [Sides -> Entry], NEW s \in Sides, NEW f \in Files,
           NEW i \in MaybeInode, PutEntry(s, f, i)
    PROVE  /\ entry' \in [Sides -> Entry]
           /\ entry'[s][f] = i
           /\ \A t \in Sides, g \in Files :
                t # s \/ g # f => entry'[t][g] = entry[t][g]
<1> DEFINE line == [entry[s] EXCEPT ![f] = i]
<1>1. entry' = [entry EXCEPT ![s] = line]
  BY DEF PutEntry
<1>2. entry[s] \in Entry
  OBVIOUS
<1>3. line \in Entry /\ line[f] = i /\ \A g \in Files : g # f => line[g] = entry[s][g]
  BY <1>2 DEF Entry
<1> HIDE DEF line
<1>4. /\ entry' \in [Sides -> Entry]
      /\ entry'[s] = line
      /\ \A t \in Sides : t # s => entry'[t] = entry[t]
  BY <1>1, <1>3
<1> QED BY <1>3, <1>4

LEMMA RecordFacts ==
    ASSUME row \in [Plans -> [Files -> Row \union {none}]],
           run.plan \in Plans, run.cur \in Items(run.plan),
           NEW st \in Status, NEW i \in MaybeInode, Record(st, i)
    PROVE  /\ row' \in [Plans -> [Files -> Row \union {none}]]
           /\ row[run.plan][run.cur] \in Row
           /\ row'[run.plan][run.cur]
                = [status |-> st, sha |-> row[run.plan][run.cur].sha, ino |-> i]
           /\ row'[run.plan][run.cur] # none
           /\ \A p \in Plans, g \in Files :
                p # run.plan \/ g # run.cur => row'[p][g] = row[p][g]
<1> DEFINE p == run.plan
           c == run.cur
           item == [status |-> st, sha |-> row[p][c].sha, ino |-> i]
           line == [row[p] EXCEPT ![c] = item]
<1>1. p \in Plans /\ c \in Files /\ row[p][c] \in Row
  BY DEF Items
<1>2. item \in Row /\ item # none
  BY <1>1, RowAssumption DEF Row
<1>3. row' = [row EXCEPT ![p] = line]
  BY DEF Record, Item
<1>4. row[p] \in [Files -> Row \union {none}]
  BY <1>1
<1> HIDE DEF item
<1>5. /\ line \in [Files -> Row \union {none}]
      /\ line[c] = item
      /\ \A g \in Files : g # c => line[g] = row[p][g]
  BY <1>1, <1>2, <1>4
<1> HIDE DEF line
<1>6. /\ row' \in [Plans -> [Files -> Row \union {none}]]
      /\ row'[p] = line
      /\ \A q \in Plans : q # p => row'[q] = row[q]
  BY <1>1, <1>3, <1>5
<1>7. /\ row'[p][c] = item /\ row'[p][c] # none
      /\ \A q \in Plans, g \in Files :
           q # p \/ g # c => row'[q][g] = row[q][g]
  BY <1>2, <1>5, <1>6
<1> QED BY <1>1, <1>6, <1>7 DEF item

-----------------------------------------------------------------------------
LEMMA InitKeeps == ASSUME Init PROVE IInv
<1>1. \A f \in Files : entry["src"][f] \in Inodes
  BY DEF Init, Entry, Sides, MaybeInode
<1>2. /\ row \in [Plans -> [Files -> Row \union {none}]]
      /\ kept \in [Files -> SUBSET Inodes]
  BY <1>1 DEF Init
<1>4. TypeOK
  BY <1>2 DEF Init, TypeOK
<1>5. NothingLost
  BY DEF Init, NothingLost, Sides
<1>3. ~Busy
  BY DEF Init, Busy
<1> QED BY <1>3, <1>4, <1>5 DEF IInv, RunInv

LEMMA RaiseKeeps == ASSUME IInv, Raise PROVE IInv'
<1>1. TypeOK'
  BY DEF IInv, Raise, TypeOK
<1>2. NothingLost'
  BY DEF IInv, Raise, NothingLost
<1>3. ~Busy'
  BY DEF Raise, Busy
<1> QED BY <1>1, <1>2, <1>3 DEF IInv, RunInv

\* Nothing but the call's own record changes.
LEMMA RunOnly ==
    ASSUME IInv, UNCHANGED <<entry, text, row, kept>>,
           run' \in Call \union {Idle}, RunInv'
    PROVE  IInv'
<1>1. TypeOK'
  BY DEF IInv, TypeOK
<1>2. NothingLost'
  BY DEF IInv, NothingLost
<1> QED BY <1>1, <1>2 DEF IInv

LEMMA PlanKeeps == ASSUME IInv, NEW p \in Plans, Plan(p) PROVE IInv'
<1>1. TypeOK /\ UNCHANGED <<entry, text, run, kept>>
  BY DEF IInv, Plan
<1>2. row' \in [Plans -> [Files -> Row \union {none}]]
  <2> DEFINE inventory == [f \in Files |->
                  IF entry["src"][f] = none THEN none
                  ELSE [status |-> "planned", sha |-> text[entry["src"][f]],
                        ino |-> none]]
  <2>1. inventory \in [Files -> Row \union {none}]
    BY <1>1 DEF TypeOK, Sides, Entry, MaybeInode, Row, Status
  <2>2. row' = [row EXCEPT ![p] = inventory]
    BY DEF Plan
  <2> HIDE DEF inventory
  <2> QED BY <1>1, <2>1, <2>2 DEF TypeOK
<1>3. \A q \in Plans : q # p => row'[q] = row[q]
  BY <1>1 DEF Plan, TypeOK
<1>4. Busy => run \in Call /\ run.cur \notin run.todo
  BY CallTyped DEF IInv, RunInv, LoopInv
<1>5. ASSUME Busy PROVE (LoopInv /\ NameInv)'
  <2>1. run \in Call /\ LoopInv /\ NameInv
    BY <1>5, CallTyped DEF IInv, RunInv
  <2>2. CASE run.plan # p
    BY <2>1, <2>2, <1>1, <1>3 DEF Call, LoopInv, NameInv, Doubled, Items, Here,
       There, Item
  <2>3. CASE run.plan = p
    <3>1. run.todo = {} /\ run.pc = "next"
      BY <2>1, <2>3 DEF LoopInv, Items, Plan, Call
    <3> QED BY <2>1, <3>1, <1>1 DEF LoopInv, NameInv, Doubled
  <2> QED BY <2>2, <2>3
<1>6. TypeOK'
  BY <1>1, <1>2 DEF TypeOK
<1>7. NothingLost'
  BY <1>1 DEF IInv, NothingLost
<1> QED BY <1>1, <1>5, <1>6, <1>7 DEF IInv, RunInv, Busy

LEMMA BeginKeeps ==
    ASSUME IInv, NEW p \in Plans, Apply(p) \/ Rollback(p) PROVE IInv'
<1> DEFINE todo(op) == {f \in Items(p) : row[p][f].status \in
               IF op = "apply" THEN {"planned", "linked"} ELSE {"applied"}}
<1>1. PICK op \in {"apply", "rollback"} :
        /\ run' = [op |-> op, plan |-> p, todo |-> todo(op), cur |-> none,
                   pc |-> "next", seen |-> none, there |-> none]
        /\ op = "apply" => MayApply(p)
  BY DEF Apply, Rollback, Begin
<1>2. UNCHANGED <<entry, text, row, kept>>
  BY DEF Apply, Rollback, Begin
<1>3. todo(op) \subseteq Files
  BY DEF Items
<1>4. run' \in Call
  BY <1>1, <1>3 DEF Call, Point, MaybeInode
<1>5. LoopInv'
  BY <1>1, <1>2, <1>3, NoneAssumption DEF LoopInv, MayApply, Items
<1>6. NameInv'
  BY <1>1 DEF NameInv, Doubled
<1> QED BY <1>2, <1>4, <1>5, <1>6, RunOnly DEF RunInv

LEMMA OpenKeeps == ASSUME IInv, NEW f \in Files, Open(f) PROVE IInv'
<1>1. run \in Call /\ TypeOK /\ LoopInv /\ f \in run.todo /\ AsPlanned(f)
  BY CallTyped DEF IInv, RunInv, Open, At
<1>2. UNCHANGED <<entry, text, row, kept>>
  BY DEF Open, Take
<1>3. run' = [run EXCEPT !.todo = @ \ {f}, !.cur = f,
                !.pc = IF row[run.plan][f].status = "linked" THEN "drop" ELSE "link",
                !.seen = entry[From(run.op)][f]]
  BY DEF Open, Take
<1>4. entry[From(run.op)][f] \in MaybeInode
  BY <1>1 DEF Call, TypeOK, Sides, From, Entry
<1>5. run' \in Call
  BY <1>1, <1>3, <1>4 DEF Call, Point
<1>6. /\ run'.op = run.op /\ run'.plan = run.plan /\ run'.cur = f
      /\ run'.todo = run.todo \ {f} /\ run'.seen = entry[From(run.op)][f]
      /\ run'.pc = IF row[run.plan][f].status = "linked" THEN "drop" ELSE "link"
      /\ run'.there = run.there
  BY <1>1, <1>3 DEF Call
<1>7. LoopInv'
  <2>1. f \in Items(run.plan) /\ run.there = none /\ run'.seen # none
    BY <1>1, <1>6 DEF LoopInv, Open, At, AsPlanned
  <2>2. /\ run'.todo \subseteq run.todo /\ run'.cur \notin run'.todo
        /\ row' = row /\ entry' = entry
    BY <1>2, <1>6
  <2> QED BY <1>1, <1>6, <2>1, <2>2 DEF LoopInv, Items
<1>8. NameInv'
  <2>1. run.there = none
    BY <1>1 DEF LoopInv, Open, At
  <2>2. run'.there = none /\ run'.pc \in {"link", "drop"}
    BY <1>6, <2>1
  <2>3. row[run.plan][f] \in Row /\ f \in Files
    BY <1>1 DEF Call, LoopInv, Items, TypeOK
  <2>4. CASE run.op = "apply"
    <3>1. row[run.plan][f].status = "linked" =>
            There' = run'.seen /\ Item'.ino = run'.seen
      BY <1>1, <1>2, <1>6, <2>4 DEF LoopInv, AsPlanned, Item, There, From, To, Other
    <3> QED BY <1>6, <2>2, <2>4, <3>1 DEF NameInv, Doubled
  <2>5. CASE run.op = "rollback"
    <3>1. row[run.plan][f].status = "applied"
      BY <1>1, <2>5 DEF LoopInv
    <3>2. run'.pc = "link" /\ Item'.ino = run'.seen
      BY <1>1, <1>2, <1>6, <2>5, <3>1 DEF AsPlanned, Item, From, To, Other
    <3> QED BY <1>6, <2>2, <3>2 DEF NameInv, Doubled
  <2> QED BY <1>1, <2>4, <2>5 DEF Call
<1> QED BY <1>2, <1>5, <1>7, <1>8, RunOnly DEF RunInv

LEMMA OpenConflictKeeps == ASSUME IInv, NEW f \in Files, OpenConflict(f) PROVE IInv'
<1>1. /\ run \in Call /\ LoopInv /\ NameInv /\ run.pc = "next"
      /\ UNCHANGED <<entry, text, row, kept>>
  BY CallTyped DEF IInv, RunInv, OpenConflict, At
<1>2. CASE run' = Idle
  BY <1>1, <1>2, RunOnly DEF RunInv, Busy
<1>3. CASE run' = [run EXCEPT !.todo = @ \ {f}]
  <2>1. run' \in Call /\ run'.pc = "next" /\ run'.todo = run.todo \ {f}
        /\ run'.op = run.op /\ run'.plan = run.plan /\ run'.cur = run.cur
        /\ run'.there = run.there
    BY <1>1, <1>3 DEF Call
  <2>2. LoopInv'
    BY <1>1, <2>1 DEF LoopInv, Items
  <2>3. NameInv'
    BY <1>1, <2>1 DEF NameInv, Doubled, LoopInv
  <2> QED BY <1>1, <2>1, <2>2, <2>3, RunOnly DEF RunInv
<1> QED BY <1>2, <1>3 DEF OpenConflict

\* Only the point and the identity of the second name change in the call.
LEMMA StepLoop ==
    ASSUME LoopInv, run \in Call, NEW pt \in Point \ {"next", "link"},
           NEW th \in MaybeInode,
           run' = [run EXCEPT !.pc = pt, !.there = th],
           run.pc # "next", UNCHANGED row,
           \A f \in run.todo : entry'["dst"][f] = entry["dst"][f]
    PROVE  /\ LoopInv'
           /\ run' \in Call /\ run'.pc = pt /\ run'.there = th
           /\ run'.op = run.op /\ run'.plan = run.plan /\ run'.cur = run.cur
           /\ run'.todo = run.todo /\ run'.seen = run.seen
<1>1. /\ run' \in Call /\ run'.pc = pt /\ run'.there = th
      /\ run'.op = run.op /\ run'.plan = run.plan /\ run'.cur = run.cur
      /\ run'.todo = run.todo /\ run'.seen = run.seen
  BY DEF Call
<1>2. LoopInv'
  BY <1>1 DEF LoopInv, Items
<1> QED BY <1>1, <1>2

LEMMA GotoIsStep ==
    ASSUME run \in Call, NEW pt, Goto(pt)
    PROVE  run' = [run EXCEPT !.pc = pt, !.there = run.there]
BY DEF Goto, Call

LEMMA StatKeeps == ASSUME IInv, Stat PROVE IInv'
<1>1. /\ run \in Call /\ LoopInv /\ NameInv /\ run.pc = "stat" /\ There # none
      /\ UNCHANGED <<entry, text, row, kept>> /\ TypeOK
  BY CallTyped DEF IInv, RunInv, Stat, At
<1> DEFINE pt == IF run.op = "apply" THEN "journal"
                 ELSE IF There = run.seen THEN "drop" ELSE "undo"
<1>2. There \in MaybeInode
  BY <1>1 DEF TypeOK, There, Entry, Sides, To, From, Other, Call, LoopInv, Items
<1>3. pt \in Point \ {"next", "link"} /\ run' = [run EXCEPT !.pc = pt, !.there = There]
  <2>1. run' = [run EXCEPT !.there = There, !.pc = pt]
    BY DEF Stat
  <2> QED BY <1>1, <2>1 DEF Point, Call
<1> HIDE DEF pt
<1>4. /\ LoopInv'
      /\ run' \in Call /\ run'.pc = pt /\ run'.there = There
      /\ run'.op = run.op /\ run'.plan = run.plan /\ run'.cur = run.cur
      /\ run'.todo = run.todo /\ run'.seen = run.seen
  BY <1>1, <1>2, <1>3, StepLoop
<1>5. There' = There /\ Here' = Here /\ Item' = Item
  BY <1>1, <1>4 DEF There, Here, Item
<1>6. NameInv'
  BY <1>1, <1>4, <1>5 DEF NameInv, Doubled, pt, Call
<1> QED BY <1>1, <1>4, <1>6, RunOnly DEF RunInv

LEMMA CheckKeeps == ASSUME IInv, Check PROVE IInv'
<1>1. /\ run \in Call /\ LoopInv /\ NameInv /\ run.pc = "check"
      /\ UNCHANGED <<entry, text, row, kept>>
  BY CallTyped DEF IInv, RunInv, Check, At
<1>2. PICK pt \in {"drop", "undo"} :
        /\ Goto(pt)
        /\ pt = "drop" => Here = run.seen /\ run.there = run.seen
  BY DEF Check
<1>3. run' = [run EXCEPT !.pc = pt, !.there = run.there]
  BY <1>1, <1>2, GotoIsStep
<1>4. /\ LoopInv'
      /\ run' \in Call /\ run'.pc = pt /\ run'.there = run.there
      /\ run'.op = run.op /\ run'.plan = run.plan /\ run'.cur = run.cur
      /\ run'.todo = run.todo /\ run'.seen = run.seen
  BY <1>1, <1>2, <1>3, StepLoop DEF Point, Call
<1>5. There' = There /\ Here' = Here /\ Item' = Item
  BY <1>1, <1>4 DEF There, Here, Item
<1>6. Here # none /\ There # none
  BY DEF Check
<1>7. NameInv'
  BY <1>1, <1>2, <1>4, <1>5, <1>6 DEF NameInv, Doubled
<1> QED BY <1>1, <1>4, <1>7, RunOnly DEF RunInv

\* The two names of the file in hand.
LEMMA Names ==
    ASSUME TypeOK, run \in Call, LoopInv, run.pc # "next"
    PROVE  /\ run.cur \in Files /\ run.cur # none /\ run.plan \in Plans
           /\ From(run.op) \in Sides /\ To(run.op) \in Sides
           /\ From(run.op) # To(run.op)
           /\ Sides = {From(run.op), To(run.op)}
           /\ Here \in MaybeInode /\ There \in MaybeInode
<1>1. run.cur \in Files /\ run.cur # none /\ run.plan \in Plans
  BY NoneAssumption DEF LoopInv, Items, Call
<1>2. /\ From(run.op) \in Sides /\ To(run.op) \in Sides
      /\ From(run.op) # To(run.op)
      /\ Sides = {From(run.op), To(run.op)}
  BY DEF Call, From, To, Other, Sides
<1>3. Here \in MaybeInode /\ There \in MaybeInode
  BY <1>1, <1>2 DEF TypeOK, Entry, Here, There
<1> QED BY <1>1, <1>2, <1>3

\* The call turns to its next file, or ends.
LEMMA NextFileKeeps ==
    ASSUME run \in Call, LoopInv, NextFile,
           \A f \in run.todo : /\ row'[run.plan][f] = row[run.plan][f]
                               /\ entry'["dst"][f] = entry["dst"][f]
    PROVE  run' \in Call \union {Idle} /\ RunInv'
<1>1. CASE run' = Idle
  BY <1>1 DEF RunInv, Busy
<1>2. CASE run' = [run EXCEPT !.pc = "next", !.cur = none, !.seen = none,
                              !.there = none]
  <2>1. /\ run' \in Call /\ run'.pc = "next" /\ run'.cur = none
        /\ run'.there = none /\ run'.todo = run.todo /\ run'.op = run.op
        /\ run'.plan = run.plan
    BY <1>2 DEF Call, Point, MaybeInode
  <2>2. none \notin run.todo /\ run.todo \subseteq Files
    BY NoneAssumption DEF Call
  <2>3. LoopInv'
    BY <2>1, <2>2 DEF LoopInv, Items
  <2>4. NameInv'
    BY <2>1 DEF NameInv, Doubled
  <2> QED BY <2>1, <2>3, <2>4 DEF RunInv
<1> QED BY <1>1, <1>2 DEF NextFile

\* A directory entry of the file in hand changes; what the others name stays.
LEMMA OneEntryLess ==
    ASSUME IInv, run \in Call, LoopInv, run.pc # "next", NEW s \in Sides,
           NEW i \in MaybeInode, PutEntry(s, run.cur, i),
           UNCHANGED <<text, row>>, kept' \in [Files -> SUBSET Inodes],
           \A g \in Files : kept'[g] \subseteq kept[g],
           run' \in Call \union {Idle}, RunInv',
           \A j \in kept'[run.cur] : \E t \in Sides : entry'[t][run.cur] = j
    PROVE  IInv'
<1>1. TypeOK /\ run.cur \in Files
  BY Names DEF IInv
<1>2. /\ entry' \in [Sides -> Entry]
      /\ \A t \in Sides, g \in Files : t # s \/ g # run.cur => entry'[t][g] = entry[t][g]
  BY <1>1, PutFacts DEF TypeOK
<1>3. TypeOK'
  BY <1>1, <1>2 DEF TypeOK
<1>4. NothingLost'
  <2> SUFFICES ASSUME NEW g \in Files, NEW j \in kept'[g]
               PROVE  \E t \in Sides : entry'[t][g] = j
    BY DEF NothingLost
  <2>1. CASE g = run.cur
    BY <2>1
  <2>2. CASE g # run.cur
    <3>1. PICK t \in Sides : entry[t][g] = j
      BY DEF IInv, NothingLost
    <3> QED BY <1>2, <2>2, <3>1
  <2> QED BY <2>1, <2>2
<1> QED BY <1>3, <1>4 DEF IInv

LEMMA OneEntry ==
    ASSUME IInv, run \in Call, LoopInv, run.pc # "next", NEW s \in Sides,
           NEW i \in MaybeInode, PutEntry(s, run.cur, i),
           UNCHANGED <<text, row, kept>>,
           run' \in Call \union {Idle}, RunInv',
           \A j \in kept[run.cur] : \E t \in Sides : entry'[t][run.cur] = j
    PROVE  IInv'
<1>1. kept' \in [Files -> SUBSET Inodes] /\ \A g \in Files : kept'[g] \subseteq kept[g]
  BY DEF IInv, TypeOK
<1> QED BY <1>1, OneEntryLess

LEMMA LinkKeeps == ASSUME IInv, Link PROVE IInv'
<1>1. /\ run \in Call /\ TypeOK /\ LoopInv /\ NameInv /\ run.pc = "link"
      /\ Here # none /\ There = none /\ UNCHANGED <<text, row, kept>>
      /\ PutEntry(To(run.op), run.cur, Here) /\ Goto("stat")
  BY CallTyped DEF IInv, RunInv, Link, At
<1>2. /\ run.cur \in Files /\ From(run.op) \in Sides /\ To(run.op) \in Sides
      /\ From(run.op) # To(run.op) /\ Here \in MaybeInode
      /\ Sides = {From(run.op), To(run.op)}
  BY <1>1, Names
<1>3. /\ entry'[To(run.op)][run.cur] = Here
      /\ \A t \in Sides, g \in Files :
           t # To(run.op) \/ g # run.cur => entry'[t][g] = entry[t][g]
  BY <1>1, <1>2, PutFacts DEF TypeOK
<1>4. run' = [run EXCEPT !.pc = "stat", !.there = run.there]
  BY <1>1, GotoIsStep
<1>5. \A f \in run.todo : entry'["dst"][f] = entry["dst"][f]
  BY <1>1, <1>3 DEF LoopInv, Call, Sides
<1>6. /\ LoopInv'
      /\ run' \in Call /\ run'.pc = "stat"
      /\ run'.op = run.op /\ run'.plan = run.plan /\ run'.cur = run.cur
      /\ run'.seen = run.seen
  BY <1>1, <1>4, <1>5, StepLoop DEF Point, Call
<1>7. Here' = Here /\ There' = Here /\ Item' = Item
  BY <1>1, <1>2, <1>3, <1>6 DEF Here, There, Item
<1>8. NameInv'
  BY <1>1, <1>6, <1>7 DEF NameInv, Doubled
<1>9. ASSUME NEW j \in kept[run.cur] PROVE \E t \in Sides : entry'[t][run.cur] = j
  <2>1. j # none
    BY <1>1, <1>2, NoneAssumption DEF TypeOK
  <2>2. entry[From(run.op)][run.cur] = j
    BY <1>1, <1>2, <2>1 DEF IInv, NothingLost, There
  <2> QED BY <1>2, <1>3, <2>2
<1> QED BY <1>1, <1>2, <1>6, <1>8, <1>9, OneEntry DEF RunInv

\* A row of the file in hand is written; no directory entry changes.
LEMMA OneRow ==
    ASSUME IInv, run \in Call, LoopInv, run.pc # "next",
           NEW st \in Status, NEW i \in MaybeInode, Record(st, i),
           UNCHANGED <<entry, text, kept>>,
           run' \in Call \union {Idle}, RunInv'
    PROVE  IInv'
<1>1. TypeOK /\ run.plan \in Plans /\ run.cur \in Items(run.plan)
  BY DEF IInv, Call, LoopInv
<1>2. row' \in [Plans -> [Files -> Row \union {none}]]
  BY <1>1, RecordFacts DEF TypeOK
<1>3. TypeOK'
  BY <1>1, <1>2 DEF TypeOK
<1>4. NothingLost'
  BY DEF IInv, NothingLost
<1> QED BY <1>3, <1>4 DEF IInv

LEMMA JournalKeeps == ASSUME IInv, Journal PROVE IInv'
<1>1. /\ run \in Call /\ TypeOK /\ LoopInv /\ NameInv /\ run.pc = "journal"
      /\ UNCHANGED <<entry, text, kept>>
      /\ Record("linked", run.seen) /\ Goto("check")
  BY CallTyped DEF IInv, RunInv, Journal, At
<1>2. run.plan \in Plans /\ run.cur \in Items(run.plan) /\ run.seen \in MaybeInode
      /\ "linked" \in Status
  BY <1>1 DEF Call, LoopInv, Status
<1>3. /\ row'[run.plan][run.cur].ino = run.seen
      /\ row'[run.plan][run.cur] # none
      /\ \A p \in Plans, g \in Files :
            p # run.plan \/ g # run.cur => row'[p][g] = row[p][g]
  <2>1. row \in [Plans -> [Files -> Row \union {none}]] /\ Record("linked", run.seen)
    BY <1>1 DEF TypeOK
  <2>2. /\ row'[run.plan][run.cur]
              = [status |-> "linked", sha |-> row[run.plan][run.cur].sha, ino |-> run.seen]
        /\ row'[run.plan][run.cur] # none
        /\ \A p \in Plans, g \in Files :
              p # run.plan \/ g # run.cur => row'[p][g] = row[p][g]
    BY <1>2, <2>1, RecordFacts
  <2> QED BY <2>2
<1>4. /\ run' \in Call /\ run'.pc = "check" /\ run'.there = run.there
      /\ run'.op = run.op /\ run'.plan = run.plan /\ run'.cur = run.cur
      /\ run'.todo = run.todo /\ run'.seen = run.seen
  BY <1>1 DEF Goto, Call, Point
<1>5. LoopInv'
  <2>1. \A g \in run.todo : row'[run.plan][g] = row[run.plan][g]
    BY <1>1, <1>2, <1>3 DEF LoopInv, Call
  <2>2. run'.todo \subseteq Items(run.plan)' /\ run'.cur \in Items(run.plan)'
    BY <1>1, <1>2, <1>3, <1>4, <2>1 DEF LoopInv, Items
  <2> QED BY <1>1, <1>4, <2>1, <2>2 DEF LoopInv
<1>6. There' = There /\ Here' = Here /\ Item'.ino = run.seen
  BY <1>1, <1>3, <1>4 DEF There, Here, Item
<1>7. NameInv'
  BY <1>1, <1>4, <1>6 DEF NameInv, Doubled
<1> QED BY <1>1, <1>2, <1>4, <1>5, <1>7, OneRow DEF RunInv

LEMMA DropKeeps == ASSUME IInv, Drop PROVE IInv'
<1>1. /\ run \in Call /\ TypeOK /\ LoopInv /\ NameInv /\ run.pc = "drop"
      /\ Here # none /\ There = run.seen /\ UNCHANGED <<entry, text, row, kept>>
  BY CallTyped DEF IInv, RunInv, Drop, At, NameInv
<1> DEFINE pt == IF Here = run.seen THEN "unlink" ELSE "undo"
<1>2. Goto(pt) /\ pt \in {"unlink", "undo"}
  BY DEF Drop
<1> HIDE DEF pt
<1>3. run' = [run EXCEPT !.pc = pt, !.there = run.there]
  BY <1>1, <1>2, GotoIsStep
<1>4. /\ LoopInv'
      /\ run' \in Call /\ run'.pc = pt /\ run'.there = run.there
      /\ run'.op = run.op /\ run'.plan = run.plan /\ run'.cur = run.cur
      /\ run'.seen = run.seen
  BY <1>1, <1>2, <1>3, StepLoop DEF Point, Call
<1>5. Here' = Here /\ There' = There /\ Item' = Item
  BY <1>1, <1>4 DEF Here, There, Item
<1>6. NameInv'
  BY <1>1, <1>2, <1>4, <1>5 DEF NameInv, Doubled
<1> QED BY <1>1, <1>4, <1>6, RunOnly DEF RunInv

\* What a removal gives up is what came to the name after it was compared.
LEMMA LoseFacts ==
    ASSUME TypeOK, run.cur \in Files, NEW s \in Sides, NEW seen, Lose(s, seen)
    PROVE  /\ kept' \in [Files -> SUBSET Inodes]
           /\ \A g \in Files : kept'[g] \subseteq kept[g]
           /\ entry[s][run.cur] \in kept'[run.cur] => entry[s][run.cur] = seen
           /\ entry[s][run.cur] = seen => kept' = kept
<1>1. CASE entry[s][run.cur] = seen
  BY <1>1 DEF Lose, TypeOK
<1>2. CASE entry[s][run.cur] # seen
  BY <1>2 DEF Lose, TypeOK
<1> QED BY <1>1, <1>2

LEMMA UnlinkKeeps == ASSUME IInv, Unlink PROVE IInv'
<1>1. /\ run \in Call /\ TypeOK /\ LoopInv /\ NameInv /\ run.pc = "unlink"
      /\ Here # none /\ There = run.seen /\ UNCHANGED <<text, row>>
      /\ run.seen # none
  BY CallTyped DEF IInv, RunInv, Unlink, At, NameInv, LoopInv
<1>2. /\ run.cur \in Files /\ From(run.op) \in Sides /\ To(run.op) \in Sides
      /\ From(run.op) # To(run.op) /\ Sides = {From(run.op), To(run.op)}
  BY <1>1, Names
<1>3. PutEntry(From(run.op), run.cur, none) /\ Goto("finish")
      /\ Lose(From(run.op), run.seen) /\ none \in MaybeInode
  BY DEF Unlink, MaybeInode
<1>4. /\ entry'[From(run.op)][run.cur] = none
      /\ \A t \in Sides, g \in Files :
           t # From(run.op) \/ g # run.cur => entry'[t][g] = entry[t][g]
  BY <1>1, <1>2, <1>3, PutFacts DEF TypeOK
<1>5. run' = [run EXCEPT !.pc = "finish", !.there = run.there]
  BY <1>1, <1>3, GotoIsStep
<1>6. \A f \in run.todo : entry'["dst"][f] = entry["dst"][f]
  BY <1>1, <1>4 DEF LoopInv, Call, Sides
<1>7. /\ LoopInv'
      /\ run' \in Call /\ run'.pc = "finish" /\ run'.there = run.there
      /\ run'.op = run.op /\ run'.plan = run.plan /\ run'.cur = run.cur
      /\ run'.seen = run.seen
  BY <1>1, <1>5, <1>6, StepLoop DEF Point, Call
<1>8. Here' = none /\ There' = There /\ Item' = Item
  BY <1>1, <1>2, <1>4, <1>7 DEF Here, There, Item
<1>9. NameInv'
  BY <1>1, <1>7, <1>8 DEF NameInv, Doubled
<1>l. /\ kept' \in [Files -> SUBSET Inodes]
      /\ \A g \in Files : kept'[g] \subseteq kept[g]
      /\ Here \in kept'[run.cur] => Here = run.seen
  BY <1>1, <1>2, <1>3, LoseFacts DEF Here
<1>a. ASSUME NEW j \in kept'[run.cur] PROVE \E t \in Sides : entry'[t][run.cur] = j
  <2>1. \E t \in Sides : entry[t][run.cur] = j
    BY <1>2, <1>l DEF IInv, NothingLost
  <2>2. Here = j \/ There = j
    BY <1>2, <2>1 DEF Here, There
  <2>3. There = j
    BY <1>1, <1>l, <2>2
  <2> QED BY <1>2, <1>4, <2>3 DEF There
<1> QED BY <1>1, <1>2, <1>3, <1>7, <1>9, <1>l, <1>a, OneEntryLess DEF RunInv

\* A row is closed or taken back and the loop goes on.
LEMMA CloseKeeps ==
    ASSUME IInv, Busy, run.pc # "next", NEW st \in Status, NEW i \in MaybeInode,
           Record(st, i), NextFile, UNCHANGED <<entry, text, kept>>
    PROVE  IInv'
<1>1. run \in Call /\ TypeOK /\ LoopInv
  BY CallTyped DEF IInv, RunInv
<1>2. run.plan \in Plans /\ run.cur \in Items(run.plan)
  BY <1>1 DEF Call, LoopInv
<1>3. \A g \in Files : g # run.cur => row'[run.plan][g] = row[run.plan][g]
  BY <1>1, <1>2, RecordFacts DEF TypeOK
<1>4. \A f \in run.todo : /\ row'[run.plan][f] = row[run.plan][f]
                          /\ entry'["dst"][f] = entry["dst"][f]
  BY <1>1, <1>3 DEF Call, LoopInv
<1>5. run' \in Call \union {Idle} /\ RunInv'
  BY <1>1, <1>4, NextFileKeeps
<1> QED BY <1>1, <1>5, OneRow

LEMMA FinishKeeps == ASSUME IInv, Finish \/ Replan PROVE IInv'
<1>1. run \in Call /\ TypeOK /\ LoopInv /\ Busy /\ run.pc # "next"
  BY CallTyped DEF IInv, RunInv, Finish, Replan, At
<1>2. Item.ino \in MaybeInode
  BY <1>1 DEF TypeOK, Item, Call, LoopInv, Items, Row
<1>3. PICK st \in Status : Record(st, Item.ino)
  BY DEF Finish, Replan, Status
<1> QED BY <1>1, <1>2, <1>3, CloseKeeps DEF Finish, Replan

LEMMA UndoKeeps == ASSUME IInv, Undo PROVE IInv'
<1>1. /\ run \in Call /\ TypeOK /\ LoopInv /\ NameInv /\ run.pc = "undo"
      /\ run.there # none /\ There = run.there /\ UNCHANGED <<entry, text, row, kept>>
  BY CallTyped DEF IInv, RunInv, Undo, At, NameInv
<1>2. Goto("unmake")
  BY <1>1 DEF Undo
<1>3. run' = [run EXCEPT !.pc = "unmake", !.there = run.there]
  BY <1>1, <1>2, GotoIsStep
<1>4. /\ LoopInv'
      /\ run' \in Call /\ run'.pc = "unmake" /\ run'.there = run.there
      /\ run'.op = run.op /\ run'.plan = run.plan /\ run'.cur = run.cur
      /\ run'.seen = run.seen
  BY <1>1, <1>3, StepLoop DEF Point, Call
<1>5. Here' = Here /\ There' = There /\ Item' = Item
  BY <1>1, <1>4 DEF Here, There, Item
<1>6. NameInv'
  BY <1>1, <1>4, <1>5 DEF NameInv, Doubled
<1> QED BY <1>1, <1>4, <1>6, RunOnly DEF RunInv

LEMMA UnmakeKeeps == ASSUME IInv, Unmake PROVE IInv'
<1>1. /\ run \in Call /\ TypeOK /\ LoopInv /\ NameInv /\ run.pc = "unmake"
      /\ run.there # none /\ There # none /\ There = run.there
      /\ UNCHANGED <<text, row>>
  BY CallTyped DEF IInv, RunInv, Unmake, At, NameInv
<1>2. /\ run.cur \in Files /\ From(run.op) \in Sides /\ To(run.op) \in Sides
      /\ From(run.op) # To(run.op) /\ Sides = {From(run.op), To(run.op)}
  BY <1>1, Names
<1>3. /\ PutEntry(To(run.op), run.cur, none)
      /\ IF run.op = "apply" THEN Goto("replan") ELSE NextFile
  BY <1>1 DEF Unmake
<1>l. kept' = kept
  BY <1>1, <1>2, LoseFacts DEF Unmake, There
<1>4. none \in MaybeInode
  BY DEF MaybeInode
<1>5. \A t \in Sides, g \in Files :
           t # To(run.op) \/ g # run.cur => entry'[t][g] = entry[t][g]
  BY <1>1, <1>2, <1>3, <1>4, PutFacts DEF TypeOK
<1>6. \A f \in run.todo : entry'["dst"][f] = entry["dst"][f]
  BY <1>1, <1>5 DEF LoopInv, Call, Sides
<1>7. run' \in Call \union {Idle} /\ RunInv'
  <2>1. CASE run.op = "apply"
    <3>1. run' = [run EXCEPT !.pc = "replan", !.there = run.there]
      BY <1>1, <1>3, <2>1, GotoIsStep
    <3>2. /\ LoopInv'
          /\ run' \in Call /\ run'.pc = "replan" /\ run'.op = run.op
      BY <1>1, <1>6, <3>1, StepLoop DEF Point, Call
    <3>3. NameInv'
      BY <2>1, <3>2 DEF NameInv, Doubled
    <3> QED BY <3>2, <3>3 DEF RunInv
  <2>2. CASE run.op # "apply"
    BY <1>1, <1>3, <1>6, <2>2, NextFileKeeps
  <2> QED BY <2>1, <2>2
<1>8. ASSUME NEW j \in kept[run.cur] PROVE \E t \in Sides : entry'[t][run.cur] = j
  <2>1. \E t \in Sides : entry[t][run.cur] = j
    BY <1>2 DEF IInv, NothingLost
  <2>2. Here = There \/ There \notin kept[run.cur]
    BY <1>1 DEF NameInv, Doubled
  <2>3. entry[From(run.op)][run.cur] = j
    BY <1>2, <2>1, <2>2 DEF Here, There
  <2> QED BY <1>2, <1>5, <2>3
<1> QED BY <1>1, <1>2, <1>3, <1>4, <1>l, <1>7, <1>8, OneEntry

-----------------------------------------------------------------------------
(* People.  What they do to the side a call moves files from leaves every   *)
(* fact about the other side alone.                                         *)
LEMMA EditKeeps ==
    ASSUME IInv, NEW s \in Sides, NEW f \in Files, NEW t \in Texts, Edit(s, f, t)
    PROVE  IInv'
<1>1. UNCHANGED <<entry, row, run, kept>> /\ TypeOK
  BY DEF Edit, IInv
<1>2. text' \in [Inodes -> Texts]
  BY <1>1 DEF Edit, TypeOK
<1>3. TypeOK' /\ NothingLost'
  BY <1>1, <1>2 DEF IInv, TypeOK, NothingLost
<1>4. RunInv'
  BY <1>1 DEF IInv, RunInv, Busy, LoopInv, NameInv, Doubled, Items, Here, There, Item
<1> QED BY <1>3, <1>4 DEF IInv

LEMMA KeptFacts ==
    ASSUME kept \in [Files -> SUBSET Inodes], NEW f \in Files,
           NEW new \in SUBSET Inodes, kept' = [kept EXCEPT ![f] = new]
    PROVE  /\ kept' \in [Files -> SUBSET Inodes]
           /\ kept'[f] = new
           /\ \A g \in Files : g # f => kept'[g] = kept[g]
OBVIOUS

\* A person changes one entry of a file whose other name stays.
LEMMA PersonKeeps ==
    ASSUME IInv, BothSides = FALSE, NEW s \in Sides, NEW f \in Files,
           NEW i \in MaybeInode, Touches(s), PutEntry(s, f, i),
           \* the new inode is one nobody names or has opened
           i # none => Free(i),
           kept' = [kept EXCEPT ![f] = Without(f, entry[s][f]) \union ({i} \ {none})],
           UNCHANGED <<row, run>>, text' \in [Inodes -> Texts]
    PROVE  IInv'
<1>1. TypeOK /\ RunInv /\ NothingLost
  BY DEF IInv
<1>2. /\ entry' \in [Sides -> Entry]
      /\ entry'[s][f] = i
      /\ \A t \in Sides, g \in Files : t # s \/ g # f => entry'[t][g] = entry[t][g]
  BY <1>1, PutFacts DEF TypeOK
<1> DEFINE new == Without(f, entry[s][f]) \union ({i} \ {none})
<1>3. new \subseteq Inodes
  BY <1>1 DEF TypeOK, Without, MaybeInode
<1>4. /\ kept' \in [Files -> SUBSET Inodes]
      /\ kept'[f] = new
      /\ \A g \in Files : g # f => kept'[g] = kept[g]
  BY <1>1, <1>3, KeptFacts DEF TypeOK
<1>5. TypeOK'
  BY <1>1, <1>2, <1>4 DEF TypeOK
<1>6. NothingLost'
  <2>1. ASSUME NEW g \in Files, NEW j \in kept'[g]
        PROVE  \E t \in Sides : entry'[t][g] = j
    <3>1. CASE g # f
      BY <1>1, <1>2, <1>4, <2>1, <3>1 DEF NothingLost
    <3>2. CASE g = f /\ j = i
      BY <1>2, <3>2
    <3>3. CASE g = f /\ j # i
      <4>1. j \in kept[f] /\ j # entry[s][f]
        BY <1>4, <2>1, <3>3 DEF Without
      <4>2. PICK t \in Sides : entry[t][f] = j
        BY <1>1, <4>1 DEF NothingLost
      <4> QED BY <1>2, <3>3, <4>1, <4>2
    <3> QED BY <3>1, <3>2, <3>3
  <2> QED BY <2>1 DEF NothingLost
<1>7. ASSUME Busy PROVE (LoopInv /\ NameInv)'
  <2>1. run \in Call /\ LoopInv /\ NameInv /\ s = From(run.op)
    BY <1>1, <1>7, CallTyped DEF RunInv, Touches
  <2>2. LoopInv'
    BY <1>2, <2>1 DEF LoopInv, Items, From, Call, Sides
  <2>3. CASE run.pc = "next"
    BY <2>1, <2>2, <2>3 DEF NameInv, Doubled
  <2>4. CASE run.pc # "next"
    <3>1. /\ run.cur \in Files /\ From(run.op) \in Sides /\ To(run.op) \in Sides
          /\ From(run.op) # To(run.op) /\ There \in MaybeInode
          /\ Sides = {From(run.op), To(run.op)} /\ run.seen # none
      BY <1>1, <2>1, <2>4, Names DEF LoopInv
    <3>2. There' = There /\ Item' = Item
      BY <1>2, <2>1, <3>1 DEF There, Item
    <3>3. CASE run.cur # f
      <4>1. Here' = Here /\ kept'[run.cur] = kept[run.cur]
        BY <1>2, <1>4, <2>1, <3>1, <3>3 DEF Here
      <4> QED BY <2>1, <2>2, <3>2, <4>1 DEF NameInv, Doubled
    <3>4. CASE run.cur = f
      <4>1. Here' = i /\ Here = entry[s][f]
        BY <1>2, <2>1, <3>1, <3>4 DEF Here
      <4>2. i # none => There # i /\ run.seen # i
        BY <1>7, <3>1, <3>4 DEF Free, There
      <4>3. Doubled => There = none \/ There \notin new
        BY <2>1, <4>1, <4>2, <3>4 DEF NameInv, Without
      <4> HIDE DEF new
      <4>4. Here' # run.seen
        BY <3>1, <4>1, <4>2
      <4>5. Doubled' = Doubled /\ kept'[run.cur] = new
        BY <1>4, <3>4 DEF Doubled
      <4> QED BY <2>1, <2>2, <3>2, <4>3, <4>4, <4>5 DEF NameInv
    <3> QED BY <3>3, <3>4
  <2> QED BY <2>2, <2>3, <2>4
<1> QED BY <1>5, <1>6, <1>7 DEF IInv, RunInv, Busy

LEMMA SaveKeeps ==
    ASSUME IInv, BothSides = FALSE, NEW s \in Sides, NEW f \in Files,
           NEW i \in Inodes, NEW t \in Texts, Save(s, f, i, t)
    PROVE  IInv'
<1>1. i \in MaybeInode /\ i # none /\ {i} \ {none} = {i}
  BY NoneAssumption DEF MaybeInode
<1>2. text' \in [Inodes -> Texts]
  BY DEF IInv, TypeOK, Save
<1>3. /\ Touches(s) /\ PutEntry(s, f, i) /\ Free(i) /\ UNCHANGED <<row, run>>
      /\ kept' = [kept EXCEPT ![f] = Without(f, entry[s][f]) \union ({i} \ {none})]
  BY <1>1 DEF Save
<1> QED BY <1>1, <1>2, <1>3, PersonKeeps

LEMMA RemoveKeeps ==
    ASSUME IInv, BothSides = FALSE, NEW s \in Sides, NEW f \in Files, Remove(s, f)
    PROVE  IInv'
<1>1. /\ Touches(s) /\ PutEntry(s, f, none) /\ UNCHANGED <<text, row, run>>
      /\ none \in MaybeInode /\ text' \in [Inodes -> Texts]
  BY DEF Remove, MaybeInode, IInv, TypeOK
<1>2. CASE ~Busy /\ entry[Other(s)][f] = entry[s][f]
  <2>1. kept' = kept
    BY <1>2 DEF Remove
  <2>2. /\ entry' \in [Sides -> Entry]
        /\ entry'[s][f] = none
        /\ \A t \in Sides, g \in Files : t # s \/ g # f => entry'[t][g] = entry[t][g]
    BY <1>1, PutFacts DEF IInv, TypeOK
  <2>3. Other(s) \in Sides /\ Other(s) # s /\ Sides = {s, Other(s)}
    BY DEF Other, Sides
  <2>4. TypeOK'
    BY <1>1, <2>1, <2>2 DEF IInv, TypeOK
  <2>5. NothingLost'
    <3>1. ASSUME NEW g \in Files, NEW j \in kept[g]
          PROVE  \E t \in Sides : entry'[t][g] = j
      <4>1. PICK t \in Sides : entry[t][g] = j
        BY <3>1 DEF IInv, NothingLost
      <4>2. CASE t = s /\ g = f
        BY <1>2, <2>2, <2>3, <4>1, <4>2
      <4>3. CASE ~(t = s /\ g = f)
        BY <2>2, <4>1, <4>3
      <4> QED BY <4>2, <4>3
    <3> QED BY <2>1, <3>1 DEF NothingLost
  <2> QED BY <1>1, <1>2, <2>4, <2>5 DEF IInv, RunInv, Busy
<1>3. CASE ~(~Busy /\ entry[Other(s)][f] = entry[s][f])
  <2>1. kept' = [kept EXCEPT ![f] = Without(f, entry[s][f]) \union ({none} \ {none})]
    <3>1. {none} \ {none} = {}
      OBVIOUS
    <3>2. kept' = [kept EXCEPT ![f] = Without(f, entry[s][f])]
      BY <1>3 DEF Remove
    <3>3. Without(f, entry[s][f]) \union {} = Without(f, entry[s][f])
      OBVIOUS
    <3> QED BY <3>1, <3>2, <3>3
  <2> QED BY <1>1, <2>1, PersonKeeps
<1> QED BY <1>2, <1>3

-----------------------------------------------------------------------------
LEMMA MigratorKeeps == ASSUME IInv, Migrator PROVE IInv'
<1>1. CASE \E p \in Plans : Plan(p) \/ Apply(p) \/ Rollback(p)
  BY <1>1, PlanKeeps, BeginKeeps
<1>2. CASE \E f \in Files : Open(f) \/ OpenFails(f) \/ OpenConflict(f)
  BY <1>2, OpenKeeps, OpenConflictKeeps, RaiseKeeps DEF OpenFails
<1>3. CASE Link \/ Stat \/ Journal \/ Check \/ Drop \/ Unlink \/ Undo \/ Unmake
  BY <1>3, LinkKeeps, StatKeeps, JournalKeeps, CheckKeeps, DropKeeps, UnlinkKeeps,
     UndoKeeps, UnmakeKeeps
<1>4. CASE Finish \/ Replan
  BY <1>4, FinishKeeps
<1>5. CASE LinkFails \/ CheckFails \/ DropFails \/ UndoFails \/ Crash
  BY <1>5, RaiseKeeps DEF LinkFails, CheckFails, DropFails, UndoFails, Crash
<1> QED BY <1>1, <1>2, <1>3, <1>4, <1>5 DEF Migrator

LEMMA PeopleKeep == ASSUME IInv, BothSides = FALSE, People PROVE IInv'
BY SaveKeeps, EditKeeps, RemoveKeeps DEF People

LEMMA StutterKeeps == ASSUME IInv, UNCHANGED vars PROVE IInv'
BY DEF vars, IInv, TypeOK, NothingLost, RunInv, Busy, LoopInv, NameInv, Doubled,
       Items, Here, There, Item

LEMMA Inductive == ASSUME IInv, BothSides = FALSE, [Next]_vars PROVE IInv'
BY MigratorKeeps, PeopleKeep, StutterKeeps DEF Next

\* The inductive invariant holds while people keep to the side files come from.
LEMMA Invariance == ASSUME BothSides = FALSE PROVE Spec => []IInv
<1>1. Init => IInv
  BY InitKeeps
<1>2. IInv /\ [Next]_vars => IInv'
  BY Inductive
<1> QED BY <1>1, <1>2, PTL DEF Spec

(* The variables keep their types: entries name inodes, rows are rows.      *)
THEOREM TypeCorrect == ASSUME BothSides = FALSE PROVE Spec => []TypeOK
<1>1. IInv => TypeOK
  BY DEF IInv
<1> QED BY <1>1, Invariance, PTL

(* No interruption and no change of the old side loses the last version a   *)
(* person left of a file, but for one put at the old name between the       *)
(* comparison of its identity and its removal.                              *)
THEOREM MigrationLosesNothing == ASSUME BothSides = FALSE PROVE Spec => []NothingLost
<1>1. IInv => NothingLost
  BY DEF IInv
<1> QED BY <1>1, Invariance, PTL

\* What a row's change of status says of the two directories.
MoveRecorded ==
    \A p \in Plans : \A f \in Items(p) :
         row'[p][f].status # row[p][f].status =>
           /\ row'[p][f].status = "applied" =>
                /\ entry["dst"][f] = row[p][f].ino
                /\ entry["src"][f] # row[p][f].ino
           /\ row'[p][f].status = "rolled_back" =>
                /\ entry["src"][f] = row[p][f].ino
                /\ entry["dst"][f] # row[p][f].ino

LEMMA RecordMoves ==
    ASSUME IInv, At(run.pc), run.pc # "next", NEW st \in Status, NEW i \in MaybeInode,
           Record(st, i),
           st \in {"linked", "planned"}
             \/ /\ run.pc = "finish"
                /\ st = (IF run.op = "apply" THEN "applied" ELSE "rolled_back")
    PROVE  MoveRecorded
<1>1. run \in Call /\ TypeOK /\ LoopInv /\ NameInv
  BY CallTyped DEF IInv, RunInv, At
<1>2. run.plan \in Plans /\ run.cur \in Items(run.plan)
  BY <1>1 DEF Call, LoopInv
<1>3. row \in [Plans -> [Files -> Row \union {none}]]
  BY <1>1 DEF TypeOK
<1>4. /\ row'[run.plan][run.cur]
            = [status |-> st, sha |-> row[run.plan][run.cur].sha, ino |-> i]
      /\ \A p \in Plans, g \in Files :
            p # run.plan \/ g # run.cur => row'[p][g] = row[p][g]
  BY <1>2, <1>3, RecordFacts
<1>5. row'[run.plan][run.cur].status = st
  BY <1>4
<1>6. CASE st \in {"linked", "planned"}
  BY <1>4, <1>5, <1>6 DEF MoveRecorded, Items
<1>7. CASE run.pc = "finish" /\ st = (IF run.op = "apply" THEN "applied" ELSE "rolled_back")
  <2>1. There = Item.ino /\ Here # Item.ino
    BY <1>1, <1>7 DEF NameInv
  <2>2. /\ st = "applied" => /\ entry["dst"][run.cur] = row[run.plan][run.cur].ino
                             /\ entry["src"][run.cur] # row[run.plan][run.cur].ino
        /\ st = "rolled_back" => /\ entry["src"][run.cur] = row[run.plan][run.cur].ino
                                 /\ entry["dst"][run.cur] # row[run.plan][run.cur].ino
    BY <1>1, <1>7, <2>1 DEF There, Here, Item, From, To, Other, Call
  <2> QED BY <1>4, <1>5, <2>2 DEF MoveRecorded, Items
<1> QED BY <1>6, <1>7

LEMMA StepRecordsMoves == ASSUME IInv, [Next]_vars PROVE MoveRecorded
<1>1. CASE UNCHANGED row
  BY <1>1 DEF MoveRecorded
<1>2. ASSUME NEW p \in Plans, Plan(p) PROVE MoveRecorded
  <2>1. Items(p) = {} /\ \A q \in Plans : q # p => row'[q] = row[q]
    BY <1>2 DEF Plan, Items, IInv, TypeOK
  <2> QED BY <2>1 DEF MoveRecorded
<1>3. CASE Journal
  <2>1. run.seen \in MaybeInode /\ "linked" \in Status
    BY <1>3, CallTyped DEF Journal, At, IInv, Call, Status
  <2> QED BY <1>3, <2>1, RecordMoves DEF Journal, At
<1>4. CASE Finish \/ Replan
  <2>1. Item.ino \in MaybeInode
    BY <1>4, CallTyped DEF Finish, Replan, At, IInv, RunInv, TypeOK, Item, Call,
       LoopInv, Items, Row
  <2>2. CASE Finish
    BY <2>1, <2>2, RecordMoves DEF Finish, At, Status
  <2>3. CASE Replan
    BY <2>1, <2>3, RecordMoves DEF Replan, At, Status
  <2> QED BY <1>4, <2>2, <2>3
<1>5. CASE UNCHANGED vars \/ People
  BY <1>1, <1>5 DEF vars, People, Save, Edit, Remove
<1>6. CASE Migrator
  <2>1. CASE \E p \in Plans : Plan(p) \/ Apply(p) \/ Rollback(p)
    BY <1>1, <1>2, <2>1 DEF Apply, Rollback, Begin
  <2>2. CASE \E f \in Files : Open(f) \/ OpenFails(f) \/ OpenConflict(f)
    BY <1>1, <2>2 DEF Open, Take, OpenFails, OpenConflict, Raise
  <2>3. CASE Link \/ Stat \/ Check \/ Drop \/ Unlink \/ Undo \/ Unmake
    BY <1>1, <2>3 DEF Link, Stat, Check, Drop, Unlink, Undo, Unmake
  <2>4. CASE LinkFails \/ CheckFails \/ DropFails \/ UndoFails \/ Crash
    BY <1>1, <2>4 DEF LinkFails, CheckFails, DropFails, UndoFails, Crash, Raise
  <2> QED BY <1>3, <1>4, <1>6, <2>1, <2>2, <2>3, <2>4 DEF Migrator
<1> QED BY <1>5, <1>6 DEF Next

(* The journal never reports a move that the directories do not show.       *)
THEOREM JournalTellsTheTruth == ASSUME BothSides = FALSE PROVE Spec => RecordedAfterMove
<1>1. IInv /\ [Next]_vars => MoveRecorded
  BY StepRecordsMoves
<1>2. RecordedAfterMove <=> [][MoveRecorded]_vars
  BY PTL DEF RecordedAfterMove, MoveRecorded
<1> QED BY <1>1, <1>2, Invariance, PTL DEF Spec

-----------------------------------------------------------------------------
(* VaultMigrations: the inductive invariant. Base are the types and where  *)
(* the files lie at each point of a call; TextsKept, ApprovalsKept and the  *)
(* four families of the journals follow, each kept on the ones before it.   *)

Told == IF mem = missing THEN journal ELSE mem

\* A note is one file, and its last text is in it.
InOld(n) == file[n].old # missing /\ file[n].new = missing
InNew(n) == file[n].old = missing /\ file[n].new # missing
OneFile(n) == \/ InOld(n) /\ file[n].old.body = left[n]
              \/ InNew(n) /\ file[n].new.body = left[n]

NoNote == {"next", "relink", "link", "linked", "unrelink", "unlink", "finish", "runtime"}
Seeing == {"write", "unwrite", "restore", "relink", "link", "linked", "unrelink", "unlink",
           "rewrite", "register", "record", "bring"}
InPlace ==
    /\ mem = missing <=> call.op = "idle"
    /\ call.op = "idle" => call = NoCall
    /\ call.pc \notin NoNote => call.note \in Entries \ call.todo
    /\ ~Moving => \A n \in Notes : InOld(n)
    /\ InOld(Owner)
    /\ Moving /\ Running("apply") =>
         /\ AtPoint("rename") => InOld(call.note)
         /\ call.pc \in {"journal_move", "relocate", "moved"} => InNew(call.note)
    /\ Moving /\ Running("rollback") =>
         /\ AtPoint("rename") => InNew(call.note)
         /\ AtPoint("relocate") => InOld(call.note)
    /\ call.pc \in Seeing => call.saw # missing
    /\ AtPoint("write") => call.saw = E.pre
    /\ AtPoint("bring") => backup[call.note] # missing /\ (E.post # missing => call.saw = E.post)
    /\ call.pc \in {"relink", "link", "linked"} => Target \in Entries
    /\ call.pc \in {"unrelink", "unlink"} => mem.change # missing /\ call.saw = mem.change.post

\* What a manifest says of the texts before and after.
PlansBodies(m) ==
    /\ tool = "v3" => \A n \in Entries : m.entry[n].post = Migrated(m.entry[n].pre)
    /\ tool = "sumarios" => \A n \in Entries : m.entry[n].post # missing
    /\ m.change # missing => m.change.pre.body = m.change.post.body

OneFiles == \A n \in Notes : OneFile(n)
PlansKept == PlansBodies(journal) /\ (mem # missing => PlansBodies(mem))
TextsKept == OneFiles /\ PlansKept

\* What an approval is bound to.
Bound(n) ==
    IF cat[n] = missing THEN seals[n] = {}
    ELSE cat[n].rev = 1 /\ seals[n] \subseteq {[rev |-> 1, text |-> cat[n].text]}
FirstRevision(m) == \A n \in Entries : m.entry[n].rev = 1
ApprovalsKept ==
    tool \in {"v3", "sumarios"} =>
      /\ FirstRevision(journal) /\ (mem # missing => FirstRevision(mem))
      /\ \A n \in Entries : n \notin touched => Bound(n)

\* The journal of the vocabulary.
RowBefore(e) == IF e.existed THEN [place |-> "old", rev |-> e.rev, text |-> e.pre] ELSE missing
RowAfter(e) == [place |-> "old", rev |-> e.rev, text |-> e.post]
Committed == {"catalog_committed", "derived_marked", "completed"}
Written == Committed \union {"frontmatter_written"}
Handling(n, points) == call.op # "idle" /\ call.note = n /\ call.pc \in points

VocabularyEntry(n) == LET e == journal.entry[n] IN
    /\ file[n].old \in {e.pre, e.post}
    /\ cat[n] \in {RowBefore(e), RowAfter(e)}
    /\ torn # "rollback" =>
         /\ e.phase \in Written /\ ~Handling(n, {"restore", "restored"}) => file[n].old = e.post
         /\ e.phase \in Committed /\ ~Handling(n, {"restored"}) => cat[n] = RowAfter(e)
    /\ torn = "no" /\ e.phase = "planned" /\ ~Handling(n, {"journal"}) =>
         file[n].old = e.pre /\ cat[n] = RowBefore(e)
    /\ Handling(n, {"journal"}) => file[n].old = e.post
    /\ Handling(n, {"unwrite"}) => file[n].old = call.saw
    /\ Handling(n, {"committed"}) => cat[n] = RowAfter(e)
    /\ Handling(n, {"restore", "restored"}) => file[n].old = e.pre
    /\ Handling(n, {"restore"}) /\ torn # "rollback" => call.saw = e.post
    /\ Handling(n, {"restored"}) => cat[n] = RowBefore(e)

VocabularyCall ==
    /\ mem # missing => mem.entry = journal.entry /\ mem.status # "rolled_back"
    /\ journal.status = "rolled_back" => \A n \in Entries : journal.entry[n].phase = "planned"
    /\ call.pc \in {"unwrite", "restore", "restored"} => Running("rollback")
    /\ Running("rollback") =>
         \A n \in Entries : journal.entry[n].phase # "planned" <=>
             n \in call.todo \/ Handling(n, {"entry", "unwrite", "restore", "restored"})
VocabularyPhase(e) == e.pre.form = "before" /\ e.phase \in Written \union {"planned"}

VocabularyKept ==
    tool = "v3" =>
      /\ VocabularyCall
      /\ \A n \in Entries : VocabularyPhase(journal.entry[n])
      /\ \A n \in Entries : Untouched(n) => VocabularyEntry(n)

\* The journal of the moves.
Placed(n, place) == cat[n] # missing => cat[n].place = place
MoveEntry(n) == LET e == Told.entry[n] IN
    /\ InOld(n) => file[n].old = e.pre
    /\ InNew(n) => file[n].new = e.pre
    /\ tool = "sumarios" => e.post = e.pre
    /\ cat[n] = missing <=> ~e.existed
    /\ cat[n] # missing => cat[n].text = e.pre
    /\ torn # "rollback" /\ e.applied =>
         /\ Placed(n, "new")
         /\ ~(Running("rollback") /\ Handling(n, {"relocate"})) => InNew(n)
    /\ torn = "no" /\ ~e.applied /\ ~(Running("apply") /\ Handling(n, {"journal_move", "relocate", "moved"})) =>
         InOld(n) /\ Placed(n, "old")
    /\ Running("apply") =>
         /\ torn # "rollback" /\ Handling(n, {"rename", "journal_move", "relocate", "moved"}) => ~e.applied
         /\ torn = "no" /\ Handling(n, {"journal_move", "relocate"}) => Placed(n, "old")
         /\ Handling(n, {"moved"}) => Placed(n, "new")

MoveCall ==
    /\ AtPoint("journal_move") => tool = "taxonomy"
    /\ Running("apply") => mem = journal /\ \A n \in call.moved : mem.entry[n].applied
    /\ Running("rollback") =>
         /\ \A n \in call.todo : mem.entry[n].applied
         /\ call.pc \in {"entry", "rename", "relocate"} => E.applied
MoveListed(n) ==
    /\ journal.entry[n].pre.form = "before"
    /\ mem # missing => /\ mem.entry[n].pre = journal.entry[n].pre
                        /\ mem.entry[n].post = journal.entry[n].post
                        /\ mem.entry[n].existed = journal.entry[n].existed
    /\ tool = "sumarios" =>
         /\ ~journal.entry[n].applied => journal.entry[n].phase = "planned"
         /\ mem # missing /\ ~mem.entry[n].applied => mem.entry[n].phase = "planned"

MovesKept ==
    Moving =>
      /\ MoveCall
      /\ \A n \in Entries : MoveListed(n)
      /\ \A n \in Entries : Untouched(n) => MoveEntry(n)

\* The links to what moved.
Rewritten(m) ==
    /\ m.change # missing /\ m.change.post = file[Owner].old
    /\ m.change.targets = {Target}
LinkPlans(m) == m.change # missing => tool # "taxonomy" /\ m.change.pre.link = "old"
LinkCall ==
    /\ LinkPlans(journal) /\ (mem # missing => LinkPlans(mem))
    /\ Moving /\ call.pc \in {"relink", "link", "linked"} =>
         tool = "sumarios" /\ call.saw.link = "old" /\ Running("apply")
    /\ tool = "sumarios" => cat[Owner] # missing
    /\ tool = "sumarios" /\ journal.status = "rolled_back" => call.op = "idle"

LinkEntry ==
    /\ file[Owner].old.link = "new" /\ call.pc \notin {"link", "linked"} => Rewritten(Told)
    /\ call.pc = "relink" => file[Owner].old = call.saw
    /\ call.pc \in {"link", "linked"} => file[Owner].old = [call.saw EXCEPT !.link = "new"]
    /\ call.pc \in {"relink", "link", "unrelink", "unlink"} => cat[Owner] = call.row
    /\ call.pc \notin {"link", "unlink"} => RowAgrees(Owner)
    /\ call.pc \in {"unlink", "finish"} => file[Owner].old = mem.change.pre
    /\ journal.status = "rolled_back" /\ Target \notin touched /\ Target \in Entries
         /\ ~journal.entry[Target].applied /\ ~journal.entry[Target].skipped
       => file[Owner].old.link = "old"

LinksKept ==
    /\ tool # "sumarios" => file[Owner].old.link = "old"
    /\ LinkCall
    /\ tool = "sumarios" /\ torn = "no" /\ Owner \notin touched => LinkEntry

\* The journal of the two tools with backups.
Same(x, y) == Migrated(x) = Migrated(y)
SchemaRow(r, n) ==
    /\ r = missing <=> ~journal.entry[n].existed
    /\ r # missing => r.place = "old" /\ r.text.form = "before" /\ Same(r.text, file[n].old)
IdentityRow(r, n) == r # missing => r.place = "old" /\ r.text = Migrated(file[n].old)

BackupEntry(n) == LET e == Told.entry[n] IN
    /\ backup[n] # missing => Same(backup[n], file[n].old)
    /\ file[n].old.form = "after" \/ Handling(n, {"rewrite"}) => backup[n] # missing
    /\ e.post # missing => e.post = Migrated(file[n].old)
    /\ torn # "rollback" /\ (e.applied \/ (Running("apply") /\ journal.entry[n].applied)) =>
         /\ e.applied
         /\ file[n].old.form = "after"
         /\ tool = "identity" => e.post # missing
    /\ torn = "no" =>
         /\ Same(e.pre, file[n].old) /\ e.pre.form = "before"
         /\ ~e.applied /\ ~Handling(n, {"register", "record"}) => file[n].old.form = "before"
         /\ Handling(n, {"rewrite", "register", "record"}) => call.saw.form = "before"
    /\ Handling(n, {"rewrite", "register", "record"}) => Same(call.saw, file[n].old)
    /\ Handling(n, {"register", "record"}) => file[n].old.form = "after"

SchemaEntryKept(n) ==
    /\ SchemaRow(cat[n], n)
    /\ snapshot # missing => SchemaRow(snapshot.cat[n], n)

IdentityEntryKept(n) == LET e == Told.entry[n] IN
    /\ ~e.existed
    /\ IdentityRow(cat[n], n)
    /\ snapshot # missing => IdentityRow(snapshot.cat[n], n)
    /\ torn # "rollback" /\ (e.applied \/ Handling(n, {"record"})) /\ ~Running("rollback") => cat[n] # missing
    /\ torn # "rollback" /\ Running("rollback") /\ e.applied =>
          cat[n] # missing /\ (n \in call.todo \/ Handling(n, {"entry", "bring"}))
    /\ torn = "no" =>
         /\ (call.op = "idle" /\ journal.status # "completed") \/ AtPoint("runtime") => ~e.applied
         /\ ~e.applied /\ ~Running("rollback") /\ ~Handling(n, {"record"}) => cat[n] = missing
         /\ IF snapshot = missing THEN cat[n] = missing ELSE snapshot.cat[n] = missing

BackupCall ==
    /\ AtPoint("runtime") => mem = journal /\ Running("rollback") /\ call.todo = {}
    /\ Running("apply") => snapshot # missing
    /\ AtPoint("register") => tool = "identity"
    /\ \A n \in Entries : backup[n] # missing => backup[n].form = "before"
    /\ mem # missing => \A n \in Entries :
         /\ mem.entry[n].existed = journal.entry[n].existed
         /\ mem.entry[n].post = journal.entry[n].post
    /\ Running("apply") =>
         /\ \A n \in call.todo : ~mem.entry[n].applied
         /\ call.pc \in {"entry", "rewrite", "register", "record"} => ~E.applied

BackupNote(n) ==
    /\ BackupEntry(n)
    /\ tool = "schema" => SchemaEntryKept(n)
    /\ tool = "identity" => IdentityEntryKept(n)

BackupsKept ==
    Backing => BackupCall /\ \A n \in Entries : Untouched(n) => BackupNote(n)

Base == MigrationTypeOK /\ InPlace

-----------------------------------------------------------------------------
(* What the parts of an action do. *)

LEMMA NotesThere ==
  /\ Owner \in Notes /\ Owner \notin Entries /\ \A n \in Entries : n \in Notes /\ n # Owner
  /\ Places = {"old", "new"} /\ "old" # "new"
BY NotesAssumption DEF Entries, Places

LEMMA Missing ==
  /\ missing \notin Text /\ missing \notin CatalogRow /\ missing \notin Change
  /\ missing \notin Manifest /\ missing \notin RuntimeCopy
BY MissingAssumption

LEMMA Listings ==
  ASSUME MigrationTypeOK
  PROVE  /\ journal # missing /\ journal.entry \in [Entries -> ManifestEntry]
         /\ journal.change \in Change \union {missing}
         /\ mem # missing => /\ mem \in Manifest /\ mem.entry \in [Entries -> ManifestEntry]
                             /\ mem.change \in Change \union {missing}
BY Missing DEF MigrationTypeOK, Manifest

LEMMA FileAt ==
  ASSUME MigrationTypeOK, NEW n \in Notes
  PROVE  /\ file[n].old \in Text \union {missing} /\ file[n].new \in Text \union {missing}
         /\ file[n].old = file[n]["old"] /\ file[n].new = file[n]["new"]
         /\ cat[n] \in CatalogRow \union {missing} /\ left[n] \in Bodies
         /\ backup[n] \in Text \union {missing} /\ seals[n] \subseteq Version
BY DEF MigrationTypeOK, Places

LEMMA Saves ==
  ASSUME MigrationTypeOK, NEW n \in Notes, NEW p \in Places, NEW x \in Text, SetFile(n, p, x)
  PROVE  /\ file' \in [Notes -> [Places -> Text \union {missing}]]
         /\ file'[n][p] = x /\ \A q \in Places \ {p} : file'[n][q] = file[n][q]
         /\ \A m \in Notes \ {n} : file'[m] = file[m]
BY DEF MigrationTypeOK, SetFile

LEMMA SavesOld ==
  ASSUME MigrationTypeOK, NEW n \in Notes, NEW x \in Text, SetFile(n, "old", x)
  PROVE  /\ file' \in [Notes -> [Places -> Text \union {missing}]]
         /\ file'[n].old = x /\ file'[n].new = file[n].new
         /\ \A m \in Notes \ {n} : file'[m] = file[m]
BY Saves, NotesThere

LEMMA Moves ==
  ASSUME MigrationTypeOK, NEW n \in Notes, NEW p \in Places, NEW q \in Places, p # q, MoveFile(n, p, q)
  PROVE  /\ file' \in [Notes -> [Places -> Text \union {missing}]]
         /\ file'[n][q] = file[n][p] /\ file'[n][p] = missing
         /\ \A m \in Notes \ {n} : file'[m] = file[m]
BY DEF MigrationTypeOK, MoveFile

LEMMA EntryIn ==
  ASSUME MigrationTypeOK, mem # missing, call.note \in Entries, NEW e \in ManifestEntry
  PROVE  /\ Annotated(e) \in Manifest /\ Annotated(e) # missing
         /\ Annotated(e).status = mem.status /\ Annotated(e).change = mem.change
         /\ Annotated(e).entry[call.note] = e /\ Annotated(e).entry \in [Entries -> ManifestEntry]
         /\ \A n \in Entries \ {call.note} : Annotated(e).entry[n] = mem.entry[n]
<1>1. mem \in Manifest BY Listings
<1>2. /\ mem.status \in {"planned", "approved", "completed", "rolled_back"}
      /\ mem.entry \in [Entries -> ManifestEntry] /\ mem.change \in Change \union {missing}
    BY <1>1 DEF Manifest
<1> DEFINE f == [mem.entry EXCEPT ![call.note] = e]
<1>3. f \in [Entries -> ManifestEntry] /\ f[call.note] = e
      /\ \A n \in Entries \ {call.note} : f[n] = mem.entry[n]
    BY <1>2
<1>4. Annotated(e) = [mem EXCEPT !.entry = f] BY DEF Annotated
<1> HIDE DEF f
<1>5. Annotated(e) \in Manifest BY <1>1, <1>2, <1>3, <1>4 DEF Manifest
<1>6. Annotated(e).status = mem.status /\ Annotated(e).change = mem.change /\ Annotated(e).entry = f
    BY <1>1, <1>4 DEF Manifest
<1> QED BY <1>3, <1>5, <1>6, Missing

LEMMA EntryNoted ==
  ASSUME MigrationTypeOK, mem # missing, call.note \in Entries, NEW e \in ManifestEntry, Noted(e)
  PROVE  /\ mem' \in Manifest /\ mem' # missing
         /\ mem'.status = mem.status /\ mem'.change = mem.change
         /\ mem'.entry[call.note] = e /\ mem'.entry \in [Entries -> ManifestEntry]
         /\ \A n \in Entries \ {call.note} : mem'.entry[n] = mem.entry[n]
BY EntryIn DEF Noted

LEMMA Calls ==
  ASSUME MigrationTypeOK
  PROVE  /\ call \in CallRecord /\ call.op \in {"idle", "apply", "rollback"} /\ call.pc \in CallPoint
         /\ call.todo \subseteq Entries /\ call.note \in Notes /\ call.saw \in Text \union {missing}
         /\ call.moved \subseteq Entries /\ call.row \in CatalogRow \union {missing}
BY DEF MigrationTypeOK, CallRecord

LEMMA Onwards ==
  ASSUME MigrationTypeOK, NEW p \in CallPoint, Onward(p)
  PROVE  /\ call' \in CallRecord /\ call'.pc = p
         /\ call'.op = call.op /\ call'.todo = call.todo /\ call'.note = call.note
         /\ call'.saw = call.saw /\ call'.moved = call.moved /\ call'.row = call.row
BY Calls DEF Onward, CallRecord

LEMMA OnwardsSeeing ==
  ASSUME MigrationTypeOK, NEW p \in CallPoint, NEW x \in Text \union {missing},
         call' = [call EXCEPT !.pc = p, !.saw = x]
  PROVE  /\ call' \in CallRecord /\ call'.pc = p
         /\ call'.op = call.op /\ call'.todo = call.todo /\ call'.note = call.note
         /\ call'.saw = x /\ call'.moved = call.moved /\ call'.row = call.row
BY Calls DEF CallRecord

LEMMA Begins ==
  ASSUME MigrationTypeOK, NEW op \in {"apply", "rollback"}, NEW m \in Manifest, NEW s \in SUBSET Entries,
         BeginCall(op, m, s)
  PROVE  /\ call.op = "idle" /\ call' \in CallRecord /\ call'.op = op /\ call'.pc = "next" /\ call'.todo = s
         /\ call'.note = Owner /\ call'.saw = missing /\ call'.row = missing /\ call'.moved = {}
         /\ mem' = m /\ mem' # missing
BY Missing, NotesThere DEF BeginCall, NoCall, CallRecord, CallPoint

LEMMA Returns ==
  ASSUME Return
  PROVE  /\ call' = NoCall /\ call' \in CallRecord /\ call'.op = "idle" /\ call'.pc = "next" /\ call'.todo = {}
         /\ call'.note = Owner /\ call'.saw = missing /\ call'.moved = {} /\ mem' = missing
BY NotesThere DEF Return, NoCall, CallRecord, CallPoint

LEMMA Rewrites ==
  ASSUME NEW x \in Text
  PROVE  /\ Migrated(x) \in Text /\ Migrated(x).body = x.body /\ Migrated(x).form = "after"
         /\ Migrated(x).link = x.link /\ Migrated(Migrated(x)) = Migrated(x)
<1>1. /\ Migrated(x) \in Text /\ Migrated(x).body = x.body /\ Migrated(x).form = "after"
      /\ Migrated(x).link = x.link
    BY DEF Migrated, Text
<1> QED BY <1>1 DEF Migrated, Text

LEMMA Begun ==
  ASSUME Base, tool' = tool, file' = file, call'.op # "idle", call'.pc = "next", mem' # missing
  PROVE  InPlace'
BY DEF Base, InPlace, NoNote, Seeing, Moving, Running, AtPoint, InOld

LEMMA Ended ==
  ASSUME tool' = tool, Return, InOld(Owner)', ~Moving => \A n \in Notes : InOld(n)'
  PROVE  InPlace'
BY Returns DEF InPlace, NoNote, Seeing, Moving, Running, AtPoint, InOld

\* A step within an entry that leaves the file where it is.
LEMMA InEntry ==
  ASSUME Base, tool' = tool, ~Moving, call.op # "idle", call'.op = call.op, call'.note = call.note,
         call'.todo = call.todo, mem' # missing, call.pc \notin NoNote \/ call'.pc \in {"next", "runtime"},
         call'.pc \notin {"relink", "link", "linked", "unrelink", "unlink"},
         call'.pc \in {"write", "unwrite", "restore", "rewrite", "register", "record", "bring"} =>
           call'.saw # missing,
         call'.pc = "write" => call'.saw = E'.pre,
         call'.pc = "bring" => /\ backup'[call'.note] # missing
                               /\ E'.post # missing => call'.saw = E'.post,
         \A n \in Notes : InOld(n)'
  PROVE  InPlace'
BY NotesThere DEF Base, InPlace, NoNote, Seeing, Moving, Running, AtPoint

LEMMA EntryTyped ==
  ASSUME MigrationTypeOK, mem # missing, call.note \in Entries
  PROVE  E \in ManifestEntry
BY Listings DEF E

LEMMA EntryFields ==
  ASSUME NEW e \in ManifestEntry
  PROVE  /\ e.phase \in Phase /\ e.applied \in BOOLEAN /\ e.skipped \in BOOLEAN /\ e.pre \in Text
         /\ e.post \in Text \union {missing} /\ e.rev \in Revision /\ e.existed \in BOOLEAN
BY DEF ManifestEntry

LEMMA WithPhase ==
  ASSUME NEW e \in ManifestEntry, NEW p \in Phase
  PROVE  LET f == [e EXCEPT !.phase = p] IN
         /\ f \in ManifestEntry /\ f.phase = p /\ f.applied = e.applied /\ f.skipped = e.skipped
         /\ f.pre = e.pre /\ f.post = e.post /\ f.rev = e.rev /\ f.existed = e.existed
BY DEF ManifestEntry

LEMMA WithSkipped ==
  ASSUME NEW e \in ManifestEntry, NEW s \in BOOLEAN
  PROVE  LET f == [e EXCEPT !.skipped = s] IN
         /\ f \in ManifestEntry /\ f.phase = e.phase /\ f.applied = e.applied /\ f.skipped = s
         /\ f.pre = e.pre /\ f.post = e.post /\ f.rev = e.rev /\ f.existed = e.existed
BY DEF ManifestEntry

LEMMA WithApplied ==
  ASSUME NEW e \in ManifestEntry, NEW s \in BOOLEAN
  PROVE  LET f == [e EXCEPT !.applied = s] IN
         /\ f \in ManifestEntry /\ f.phase = e.phase /\ f.applied = s /\ f.skipped = e.skipped
         /\ f.pre = e.pre /\ f.post = e.post /\ f.rev = e.rev /\ f.existed = e.existed
BY DEF ManifestEntry

LEMMA Kept ==
  ASSUME NEW e \in ManifestEntry
  PROVE  LET f == [e EXCEPT !.applied = TRUE, !.skipped = TRUE] IN
         /\ f \in ManifestEntry /\ f.phase = e.phase /\ f.applied = TRUE /\ f.skipped = TRUE
         /\ f.pre = e.pre /\ f.post = e.post /\ f.rev = e.rev /\ f.existed = e.existed
BY DEF ManifestEntry

LEMMA WithTexts ==
  ASSUME NEW e \in ManifestEntry, NEW x \in Text, NEW y \in Text
  PROVE  LET f == [e EXCEPT !.applied = TRUE, !.pre = x, !.post = y] IN
         /\ f \in ManifestEntry /\ f.phase = e.phase /\ f.applied = TRUE /\ f.skipped = e.skipped
         /\ f.pre = x /\ f.post = y /\ f.rev = e.rev /\ f.existed = e.existed
BY DEF ManifestEntry

LEMMA Done1 ==
  ASSUME NEW e \in ManifestEntry, NEW p \in Phase
  PROVE  LET f == [e EXCEPT !.phase = p, !.applied = TRUE] IN
         /\ f \in ManifestEntry /\ f.phase = p /\ f.applied = TRUE /\ f.skipped = e.skipped
         /\ f.pre = e.pre /\ f.post = e.post /\ f.rev = e.rev /\ f.existed = e.existed
BY DEF ManifestEntry

LEMMA DoneAs ==
  ASSUME NEW e \in ManifestEntry, NEW p \in Phase, NEW y \in Text
  PROVE  LET f == [e EXCEPT !.phase = p, !.applied = TRUE, !.post = y] IN
         /\ f \in ManifestEntry /\ f.phase = p /\ f.applied = TRUE /\ f.skipped = e.skipped
         /\ f.pre = e.pre /\ f.post = y /\ f.rev = e.rev /\ f.existed = e.existed
BY DEF ManifestEntry

LEMMA Refused ==
  ASSUME NEW e \in ManifestEntry
  PROVE  LET f == [e EXCEPT !.phase = "planned", !.skipped = TRUE] IN
         /\ f \in ManifestEntry /\ f.phase = "planned" /\ f.applied = e.applied /\ f.skipped = TRUE
         /\ f.pre = e.pre /\ f.post = e.post /\ f.rev = e.rev /\ f.existed = e.existed
BY DEF ManifestEntry, Phase

LEMMA Undone ==
  ASSUME NEW e \in ManifestEntry, NEW p \in Phase, NEW s \in BOOLEAN
  PROVE  LET f == [e EXCEPT !.phase = p, !.applied = FALSE, !.skipped = s] IN
         /\ f \in ManifestEntry /\ f.phase = p /\ f.applied = FALSE /\ f.skipped = s
         /\ f.pre = e.pre /\ f.post = e.post /\ f.rev = e.rev /\ f.existed = e.existed
BY DEF ManifestEntry

LEMMA StatusKept ==
  ASSUME NEW m \in Manifest, NEW s \in {"planned", "approved", "completed", "rolled_back"}
  PROVE  LET w == [m EXCEPT !.status = s] IN
         /\ w \in Manifest /\ w.status = s /\ w.entry = m.entry /\ w.change = m.change
BY DEF Manifest

-----------------------------------------------------------------------------
(* What each action does: to the call, the manifest and the files. *)

ToPoint(p) == /\ call'.pc = p /\ call'.op = call.op /\ call'.todo = call.todo /\ call'.note = call.note
              /\ call'.moved = call.moved
FromPoint(p, op) == /\ call.op = op /\ call.pc = p /\ call.op # "idle" /\ mem # missing
               /\ (p \notin NoNote => call.note \in Entries /\ call.note \notin call.todo)
Becomes(f) == /\ mem' # missing /\ mem'.status = mem.status /\ mem'.change = mem.change
              /\ mem'.entry[call.note] = f
              /\ \A n \in Entries \ {call.note} : mem'.entry[n] = mem.entry[n]
FileBecomes(n, x) == /\ file'[n].old = x /\ file'[n].new = file[n].new
                     /\ \A m \in Notes \ {n} : file'[m] = file[m]
Closed == call' = NoCall /\ mem' = missing

LEMMA AtFrom ==
  ASSUME Base, NEW p, NEW op, AtPoint(p), Running(op)
  PROVE  FromPoint(p, op)
BY DEF Base, InPlace, AtPoint, Running, FromPoint

LEMMA KeepCanonicalDoes ==
  ASSUME Base, KeepCanonical
  PROVE  /\ Base' /\ tool = "schema" /\ ~Moving /\ FromPoint("entry", "apply") /\ ToPoint("next")
         /\ call'.saw = call.saw /\ F.old.form = "after"
         /\ Becomes([E EXCEPT !.applied = TRUE, !.skipped = TRUE])
         /\ E \in ManifestEntry
         /\ UNCHANGED <<tool, file, cat, seals, journal, backup, snapshot, touched, left, torn>>
<1>1. FromPoint("entry", "apply") /\ MigrationTypeOK /\ InPlace
    BY AtFrom DEF KeepCanonical, AtBackup, Base
<1>2. call.note \in Entries BY <1>1 DEF FromPoint, NoNote
<1>3. E \in ManifestEntry BY <1>1, <1>2, EntryTyped DEF FromPoint
<1> DEFINE f == [E EXCEPT !.applied = TRUE, !.skipped = TRUE]
<1>4. f \in ManifestEntry BY <1>3, Kept
<1>5. Noted(f) /\ Onward("next") BY DEF KeepCanonical
<1> HIDE DEF f
<1>6. mem' \in Manifest /\ Becomes(f) BY <1>1, <1>2, <1>4, <1>5, EntryNoted DEF FromPoint, Becomes
<1>7. call' \in CallRecord /\ ToPoint("next") /\ call'.saw = call.saw
    BY <1>1, <1>5, Onwards DEF ToPoint, CallPoint
<1>8. UNCHANGED <<tool, file, cat, seals, journal, backup, snapshot, touched, left, torn>>
    BY DEF KeepCanonical, rows, copies, history
<1>9. MigrationTypeOK' BY <1>1, <1>6, <1>7, <1>8 DEF MigrationTypeOK
<1>10. ~Moving /\ tool = "schema" /\ F.old.form = "after" BY DEF KeepCanonical, Moving, Canonical
<1>11. \A n \in Notes : InOld(n)' BY <1>1, <1>8, <1>10 DEF InPlace, InOld
<1>12. InPlace' BY <1>1, <1>6, <1>7, <1>8, <1>10, <1>11, InEntry DEF FromPoint, Becomes, ToPoint, Base
<1> QED BY <1>1, <1>3, <1>6, <1>7, <1>8, <1>9, <1>10, <1>12 DEF Base, f

LEMMA ApplySchemaDoes ==
  ASSUME Base, ApplySchema
  PROVE  /\ Base' /\ Backing /\ ~Moving /\ call.op = "idle" /\ journal.status # "completed"
         /\ call'.op = "apply" /\ call'.pc = "next" /\ call'.todo = {n \in Entries : ~journal.entry[n].applied}
         /\ call'.note = Owner /\ mem' = journal /\ mem' # missing /\ mem = missing
         /\ snapshot' = [cat |-> cat, seals |-> seals] /\ snapshot' # missing
         /\ snapshot'.cat = cat /\ snapshot'.seals = seals
         /\ UNCHANGED <<tool, file, cat, seals, journal, backup, touched, left, torn>>
<1>1. MigrationTypeOK /\ InPlace BY DEF Base
<1> DEFINE s == {n \in Entries : ~journal.entry[n].applied}
<1>2. s \in SUBSET Entries /\ journal \in Manifest BY <1>1 DEF MigrationTypeOK
<1>3. BeginCall("apply", journal, s) /\ journal.status # "completed" /\ Backing BY DEF ApplySchema
<1> HIDE DEF s
<1>4. /\ call.op = "idle" /\ call' \in CallRecord /\ call'.op = "apply" /\ call'.pc = "next" /\ call'.todo = s
      /\ call'.note = Owner /\ mem' = journal /\ mem' # missing
    BY <1>1, <1>2, <1>3, Begins
<1>5. /\ UNCHANGED <<tool, file, cat, seals, journal, backup, touched, left, torn>>
      /\ snapshot' = [cat |-> cat, seals |-> seals]
    BY DEF ApplySchema, rows, history
<1>6. snapshot' \in RuntimeCopy /\ snapshot'.cat = cat /\ snapshot'.seals = seals
    BY <1>1, <1>5 DEF MigrationTypeOK, RuntimeCopy
<1>7. MigrationTypeOK' BY <1>1, <1>2, <1>4, <1>5, <1>6 DEF MigrationTypeOK
<1>8. InPlace' BY <1>4, <1>5, Begun
<1>9. ~Moving BY <1>3 DEF Moving, Backing
<1>10. mem = missing BY <1>1, <1>4 DEF InPlace
<1> QED BY <1>3, <1>4, <1>5, <1>6, <1>7, <1>8, <1>9, <1>10, Missing DEF Base, s

LEMMA KeepIdentifiedDoes ==
  ASSUME Base, KeepIdentified
  PROVE  /\ Base' /\ tool = "identity" /\ ~Moving /\ FromPoint("entry", "apply") /\ ToPoint("register")
         /\ call'.saw = F.old /\ F.old \in Text /\ F.old.form = "after"
         /\ UNCHANGED <<tool, file, cat, seals, journal, mem, backup, snapshot, touched, left, torn>>
<1>1. FromPoint("entry", "apply") /\ MigrationTypeOK /\ InPlace
    BY AtFrom DEF KeepIdentified, AtBackup, Base
<1>2. call.note \in Notes BY <1>1, Calls
<1>3. ~Moving /\ tool = "identity" /\ F.old.form = "after" BY DEF KeepIdentified, Moving, Canonical
<1>4. F.old \in Text BY <1>1, <1>2, <1>3, FileAt DEF InPlace, InOld, F
<1>5. call' \in CallRecord /\ ToPoint("register") /\ call'.saw = F.old
  <2>1. call' = [call EXCEPT !.pc = "register", !.saw = F.old] BY DEF KeepIdentified, Read
  <2> QED BY <1>1, <1>4, <2>1, OnwardsSeeing DEF CallPoint, ToPoint
<1>6. UNCHANGED <<tool, file, cat, seals, journal, mem, backup, snapshot, touched, left, torn>>
    BY DEF KeepIdentified, rows, copies, history
<1>7. MigrationTypeOK' BY <1>1, <1>5, <1>6 DEF MigrationTypeOK
<1>8. \A n \in Notes : InOld(n)' BY <1>1, <1>3, <1>6 DEF InPlace, InOld
<1>9. InPlace' BY <1>1, <1>3, <1>4, <1>5, <1>6, <1>8, InEntry, Missing DEF FromPoint, ToPoint, NoNote, Base
<1> QED BY <1>1, <1>3, <1>4, <1>5, <1>6, <1>7, <1>9 DEF Base

LEMMA BackUpDoes ==
  ASSUME Base, BackUp
  PROVE  /\ Base' /\ Backing /\ ~Moving /\ FromPoint("entry", "apply") /\ ToPoint("rewrite")
         /\ call'.saw = F.old /\ F.old \in Text /\ F.old.form = "before"
         /\ backup'[call.note] = IF backup[call.note] = missing THEN F.old ELSE backup[call.note]
         /\ \A n \in Notes \ {call.note} : backup'[n] = backup[n]
         /\ UNCHANGED <<tool, file, cat, seals, journal, mem, snapshot, touched, left, torn>>
<1>1. FromPoint("entry", "apply") /\ MigrationTypeOK /\ InPlace
    BY AtFrom DEF BackUp, AtBackup, Base
<1>2. call.note \in Notes BY <1>1, Calls
<1>3. ~Moving /\ Backing BY DEF BackUp, AtBackup, Moving, Backing
<1>4. F.old \in Text /\ F.old.form = "before"
  <2>1. F.old \in Text BY <1>1, <1>2, <1>3, FileAt DEF InPlace, InOld, F
  <2> QED BY <2>1 DEF BackUp, Canonical, Text
<1>5. call' \in CallRecord /\ ToPoint("rewrite") /\ call'.saw = F.old
  <2>1. call' = [call EXCEPT !.pc = "rewrite", !.saw = F.old] BY DEF BackUp, Read
  <2> QED BY <1>1, <1>4, <2>1, OnwardsSeeing DEF CallPoint, ToPoint
<1>6. UNCHANGED <<tool, file, cat, seals, journal, mem, snapshot, touched, left, torn>>
    BY DEF BackUp, rows, history
<1>7. /\ backup' \in [Notes -> Text \union {missing}]
      /\ backup'[call.note] = IF backup[call.note] = missing THEN F.old ELSE backup[call.note]
      /\ \A n \in Notes \ {call.note} : backup'[n] = backup[n]
  <2>1. backup' = [backup EXCEPT ![call.note] = IF backup[call.note] = missing THEN F.old ELSE backup[call.note]]
      BY DEF BackUp
  <2> QED BY <1>1, <1>2, <1>4, <2>1 DEF MigrationTypeOK
<1>8. MigrationTypeOK' BY <1>1, <1>5, <1>6, <1>7 DEF MigrationTypeOK
<1>9. \A n \in Notes : InOld(n)' BY <1>1, <1>3, <1>6 DEF InPlace, InOld
<1>10. InPlace' BY <1>1, <1>3, <1>4, <1>5, <1>6, <1>9, InEntry, Missing DEF FromPoint, ToPoint, NoNote, Base
<1> QED BY <1>1, <1>3, <1>4, <1>5, <1>6, <1>7, <1>8, <1>10 DEF Base

\* A text is written over another, which may not be the one that was read.
LeftAs(n, seen, x) ==
    /\ file[n].old = seen => left' = left
    /\ left'[n] = IF file[n].old = seen THEN left[n] ELSE x.body
    /\ \A m \in Notes \ {n} : left'[m] = left[m]

LEMMA WritesOver ==
  ASSUME Base, NEW n \in Notes, NEW seen, NEW x \in Text, Overwrite(n, seen, x)
  PROVE  /\ SetFile(n, "old", x) /\ LeftAs(n, seen, x) /\ left' \in [Notes -> Bodies]
<1>1. x.body \in Bodies /\ left \in [Notes -> Bodies] BY DEF Text, Base, MigrationTypeOK
<1> QED BY <1>1 DEF Overwrite, LeftAs

\* A call that writes one text in the old place.
LEMMA WritesInPlace ==
  ASSUME Base, NEW n \in Notes, NEW x \in Text, SetFile(n, "old", x), InOld(n)
  PROVE  /\ file' \in [Notes -> [Places -> Text \union {missing}]] /\ FileBecomes(n, x)
         /\ \A m \in Notes : InOld(m) => InOld(m)'
<1>1. /\ file' \in [Notes -> [Places -> Text \union {missing}]]
      /\ file'[n].old = x /\ file'[n].new = file[n].new
      /\ \A m \in Notes \ {n} : file'[m] = file[m]
    BY SavesOld DEF Base
<1>2. ASSUME NEW m \in Notes, InOld(m) PROVE InOld(m)'
  <2>1. CASE m = n BY <1>1, <1>2, <2>1, Missing DEF InOld
  <2>2. CASE m # n BY <1>1, <1>2, <2>2 DEF InOld
  <2> QED BY <2>1, <2>2
<1> QED BY <1>1, <1>2 DEF FileBecomes

LEMMA RewriteDoes ==
  ASSUME Base, Rewrite
  PROVE  /\ Base' /\ Backing /\ ~Moving /\ FromPoint("rewrite", "apply")
         /\ ToPoint(IF tool = "identity" THEN "register" ELSE "record") /\ call'.saw = call.saw
         /\ call.saw \in Text /\ FileBecomes(call.note, Migrated(call.saw))
         /\ LeftAs(call.note, call.saw, Migrated(call.saw))
         /\ UNCHANGED <<tool, cat, seals, journal, mem, backup, snapshot, touched, torn>>
<1>1. FromPoint("rewrite", "apply") /\ MigrationTypeOK /\ InPlace
    BY AtFrom DEF Rewrite, AtBackup, Base
<1>2. call.note \in Notes /\ call.saw \in Text BY <1>1, Calls DEF InPlace, FromPoint, Seeing
<1>3. ~Moving /\ Backing BY DEF Rewrite, AtBackup, Moving, Backing
<1>4. Migrated(call.saw) \in Text BY <1>2, Rewrites
<1>5. /\ call' \in CallRecord /\ ToPoint(IF tool = "identity" THEN "register" ELSE "record")
      /\ call'.saw = call.saw
    BY <1>1, Onwards DEF Rewrite, CallPoint, ToPoint
<1>6. UNCHANGED <<tool, cat, seals, journal, mem, backup, snapshot, touched, torn>>
    BY DEF Rewrite, rows, copies
<1> DEFINE x == Migrated(call.saw)
<1>10. Overwrite(call.note, call.saw, x) BY DEF Rewrite
<1> HIDE DEF x
<1>11. /\ SetFile(call.note, "old", x) /\ LeftAs(call.note, call.saw, x)
       /\ left' \in [Notes -> Bodies]
    BY <1>2, <1>4, <1>10, WritesOver DEF x
<1>7. /\ file' \in [Notes -> [Places -> Text \union {missing}]]
      /\ FileBecomes(call.note, Migrated(call.saw)) /\ \A m \in Notes : InOld(m)'
  <2>1. \A m \in Notes : InOld(m) BY <1>1, <1>3 DEF InPlace
  <2>2. SetFile(call.note, "old", Migrated(call.saw)) BY <1>11 DEF x
  <2> QED BY <1>2, <1>4, <2>1, <2>2, WritesInPlace
<1>8. MigrationTypeOK' BY <1>1, <1>5, <1>6, <1>7, <1>11 DEF MigrationTypeOK
<1>9. InPlace' BY <1>1, <1>2, <1>3, <1>5, <1>6, <1>7, InEntry, Missing DEF FromPoint, ToPoint, NoNote, Base
<1> QED BY <1>1, <1>2, <1>3, <1>5, <1>6, <1>7, <1>8, <1>9, <1>11 DEF Base, x

LEMMA RegisterDoes ==
  ASSUME Base, Register
  PROVE  /\ Base' /\ Backing /\ ~Moving /\ FromPoint("register", "apply") /\ ToPoint("record")
         /\ call'.saw = call.saw /\ call.saw \in Text
         /\ cat'[call.note] = IF cat[call.note] # missing THEN cat[call.note]
                              ELSE [place |-> "old", rev |-> 1, text |-> Migrated(call.saw)]
         /\ \A n \in Notes \ {call.note} : cat'[n] = cat[n]
         /\ UNCHANGED <<tool, file, seals, journal, mem, backup, snapshot, touched, left, torn>>
<1>1. FromPoint("register", "apply") /\ MigrationTypeOK /\ InPlace
    BY AtFrom DEF Register, AtBackup, Base
<1>2. call.note \in Notes /\ call.saw \in Text BY <1>1, Calls DEF InPlace, FromPoint, Seeing
<1>3. ~Moving /\ Backing BY DEF Register, AtBackup, Moving, Backing
<1> DEFINE r == [place |-> "old", rev |-> 1, text |-> Migrated(call.saw)]
<1>4. r \in CatalogRow BY <1>2, Rewrites DEF CatalogRow, Places, Revision
<1>5. /\ cat' \in [Notes -> CatalogRow \union {missing}]
      /\ cat'[call.note] = IF cat[call.note] # missing THEN cat[call.note] ELSE r
      /\ \A n \in Notes \ {call.note} : cat'[n] = cat[n]
  <2>1. cat' = IF cat[call.note] # missing THEN cat ELSE [cat EXCEPT ![call.note] = r] BY DEF Register
  <2> HIDE DEF r
  <2> QED BY <1>1, <1>2, <1>4, <2>1 DEF MigrationTypeOK
<1>6. call' \in CallRecord /\ ToPoint("record") /\ call'.saw = call.saw
    BY <1>1, Onwards DEF Register, CallPoint, ToPoint
<1>7. UNCHANGED <<tool, file, seals, journal, mem, backup, snapshot, touched, left, torn>>
    BY DEF Register, copies, history
<1>8. MigrationTypeOK' BY <1>1, <1>5, <1>6, <1>7 DEF MigrationTypeOK
<1>9. \A n \in Notes : InOld(n)' BY <1>1, <1>3, <1>7 DEF InPlace, InOld
<1>10. InPlace' BY <1>1, <1>2, <1>3, <1>6, <1>7, <1>9, InEntry, Missing DEF FromPoint, ToPoint, NoNote, Base
<1> QED BY <1>1, <1>2, <1>3, <1>5, <1>6, <1>7, <1>8, <1>10 DEF Base

LEMMA RecordEntryDoes ==
  ASSUME Base, RecordEntry
  PROVE  /\ Base' /\ Backing /\ ~Moving /\ FromPoint("record", "apply") /\ ToPoint("next")
         /\ call.saw \in Text /\ E \in ManifestEntry /\ journal' = mem'
         /\ Becomes([E EXCEPT !.applied = TRUE, !.pre = call.saw, !.post = Migrated(call.saw)])
         /\ UNCHANGED <<tool, file, cat, seals, backup, snapshot, touched, left, torn>>
<1>1. FromPoint("record", "apply") /\ MigrationTypeOK /\ InPlace
    BY AtFrom DEF RecordEntry, AtBackup, Base
<1>2. call.note \in Entries /\ call.saw \in Text BY <1>1, Calls DEF InPlace, FromPoint, NoNote, Seeing
<1>3. E \in ManifestEntry BY <1>1, <1>2, EntryTyped DEF FromPoint
<1> DEFINE f == [E EXCEPT !.applied = TRUE, !.pre = call.saw, !.post = Migrated(call.saw)]
<1>4. f \in ManifestEntry BY <1>2, <1>3, WithTexts, Rewrites
<1>5. Noted(f) /\ Onward("next") BY DEF RecordEntry
<1> HIDE DEF f
<1>6. mem' \in Manifest /\ Becomes(f) BY <1>1, <1>2, <1>4, <1>5, EntryNoted DEF FromPoint, Becomes
<1>7. call' \in CallRecord /\ ToPoint("next") /\ call'.saw = call.saw
    BY <1>1, <1>5, Onwards DEF ToPoint, CallPoint
<1>8. UNCHANGED <<tool, file, cat, seals, backup, snapshot, touched, left, torn>> /\ journal' = mem'
    BY DEF RecordEntry, rows, copies, history, Persist
<1>9. MigrationTypeOK' BY <1>1, <1>6, <1>7, <1>8 DEF MigrationTypeOK
<1>10. ~Moving /\ Backing BY DEF RecordEntry, AtBackup, Moving, Backing
<1>11. \A n \in Notes : InOld(n)' BY <1>1, <1>8, <1>10 DEF InPlace, InOld
<1>12. InPlace' BY <1>1, <1>6, <1>7, <1>8, <1>10, <1>11, InEntry DEF FromPoint, Becomes, ToPoint, NoNote, Base
<1> QED BY <1>1, <1>2, <1>3, <1>6, <1>7, <1>8, <1>9, <1>10, <1>12 DEF Base, f

LEMMA FinishSchemaDoes ==
  ASSUME Base, FinishSchema
  PROVE  /\ Base' /\ Backing /\ ~Moving /\ FromPoint("next", "apply") /\ call.todo = {} /\ Closed
         /\ journal'.entry = mem.entry /\ journal'.change = mem.change /\ journal'.status = "completed"
         /\ UNCHANGED <<tool, file, cat, seals, backup, snapshot, touched, left, torn>>
<1>1. FromPoint("next", "apply") /\ MigrationTypeOK /\ InPlace /\ call.todo = {}
    BY AtFrom DEF FinishSchema, Drained, Base
<1>2. mem \in Manifest BY <1>1, Listings DEF FromPoint
<1>3. /\ journal' \in Manifest /\ journal'.entry = mem.entry /\ journal'.change = mem.change
      /\ journal'.status = "completed"
    BY <1>2, StatusKept DEF FinishSchema
<1>4. Closed /\ call' \in CallRecord BY Returns DEF FinishSchema, Closed
<1>5. UNCHANGED <<tool, file, cat, seals, backup, snapshot, touched, left, torn>>
    BY DEF FinishSchema, rows, copies, history
<1>6. MigrationTypeOK' BY <1>1, <1>3, <1>4, <1>5 DEF MigrationTypeOK, Closed
<1>7. ~Moving /\ Backing BY DEF FinishSchema, Moving, Backing
<1>8. InPlace' BY <1>1, <1>5, Ended DEF FinishSchema, InPlace, InOld
<1> QED BY <1>1, <1>3, <1>4, <1>5, <1>6, <1>7, <1>8 DEF Base

LEMMA RollbackSchemaDoes ==
  ASSUME Base, RollbackSchema
  PROVE  /\ Base' /\ Backing /\ ~Moving /\ call.op = "idle"
         /\ call'.op = "rollback" /\ call'.pc = "next" /\ call'.todo = {n \in Entries : journal.entry[n].applied}
         /\ call'.note = Owner /\ mem' = journal /\ mem' # missing /\ mem = missing
         /\ UNCHANGED <<tool, file, cat, seals, journal, backup, snapshot, touched, left, torn>>
<1>1. MigrationTypeOK /\ InPlace BY DEF Base
<1> DEFINE s == {n \in Entries : journal.entry[n].applied}
<1>2. s \in SUBSET Entries /\ journal \in Manifest BY <1>1 DEF MigrationTypeOK
<1>3. BeginCall("rollback", journal, s) /\ Backing BY DEF RollbackSchema
<1> HIDE DEF s
<1>4. /\ call.op = "idle" /\ call' \in CallRecord /\ call'.op = "rollback" /\ call'.pc = "next" /\ call'.todo = s
      /\ call'.note = Owner /\ mem' = journal /\ mem' # missing
    BY <1>1, <1>2, <1>3, Begins
<1>5. UNCHANGED <<tool, file, cat, seals, journal, backup, snapshot, touched, left, torn>>
    BY DEF RollbackSchema, rows, copies, history
<1>6. MigrationTypeOK' BY <1>1, <1>2, <1>4, <1>5 DEF MigrationTypeOK
<1>7. InPlace' BY <1>4, <1>5, Begun
<1>8. ~Moving BY <1>3 DEF Moving, Backing
<1>9. mem = missing BY <1>1, <1>4 DEF InPlace
<1> QED BY <1>3, <1>4, <1>5, <1>6, <1>7, <1>8, <1>9 DEF Base, s

LEMMA CheckRestoreDoes ==
  ASSUME Base, CheckRestore
  PROVE  /\ Base' /\ Backing /\ ~Moving /\ FromPoint("entry", "rollback") /\ ToPoint("bring")
         /\ UNCHANGED <<tool, file, cat, seals, journal, mem, backup, snapshot, touched, left, torn>>
<1>1. FromPoint("entry", "rollback") /\ MigrationTypeOK /\ InPlace
    BY AtFrom DEF CheckRestore, AtBackup, Base
<1>2. call.note \in Notes BY <1>1, Calls
<1>3. ~Moving /\ Backing /\ backup[call.note] # missing /\ (E.post # missing => F.old = E.post)
    BY DEF CheckRestore, AtBackup, Moving, Backing, Restorable
<1>4. F.old \in Text BY <1>1, <1>2, <1>3, FileAt DEF InPlace, InOld, F
<1>5. call' \in CallRecord /\ ToPoint("bring") /\ call'.saw = F.old
  <2>1. call' = [call EXCEPT !.pc = "bring", !.saw = F.old] BY DEF CheckRestore, Read
  <2> QED BY <1>1, <1>4, <2>1, OnwardsSeeing DEF CallPoint, ToPoint
<1>6. UNCHANGED <<tool, file, cat, seals, journal, mem, backup, snapshot, touched, left, torn>>
    BY DEF CheckRestore, rows, copies, history
<1>7. MigrationTypeOK' BY <1>1, <1>5, <1>6 DEF MigrationTypeOK
<1>8. \A n \in Notes : InOld(n)' BY <1>1, <1>3, <1>6 DEF InPlace, InOld
<1>9. E' = E BY <1>5, <1>6 DEF E, ToPoint
<1>10. InPlace' BY <1>1, <1>3, <1>4, <1>5, <1>6, <1>8, <1>9, InEntry, Missing DEF FromPoint, ToPoint, NoNote, Base
<1> QED BY <1>1, <1>3, <1>5, <1>6, <1>7, <1>10 DEF Base

LEMMA RestoreBackupDoes ==
  ASSUME Base, RestoreBackup
  PROVE  /\ Base' /\ Backing /\ ~Moving /\ FromPoint("bring", "rollback") /\ ToPoint("next")
         /\ backup[call.note] \in Text /\ FileBecomes(call.note, backup[call.note])
         /\ LeftAs(call.note, IF Compared THEN call.saw ELSE missing, backup[call.note])
         /\ E.post # missing => call.saw = E.post
         /\ E \in ManifestEntry /\ Becomes([E EXCEPT !.applied = FALSE])
         /\ UNCHANGED <<tool, cat, seals, journal, backup, snapshot, touched, torn>>
<1>1. FromPoint("bring", "rollback") /\ MigrationTypeOK /\ InPlace
    BY AtFrom DEF RestoreBackup, AtBackup, Base
<1>2. call.note \in Entries /\ call.note \in Notes BY <1>1, Calls DEF FromPoint, NoNote
<1>3. E \in ManifestEntry BY <1>1, <1>2, EntryTyped DEF FromPoint
<1>4. backup[call.note] \in Text /\ (E.post # missing => call.saw = E.post)
    BY <1>1, <1>2, FileAt DEF InPlace, AtPoint, FromPoint
<1> DEFINE f == [E EXCEPT !.applied = FALSE]
<1>5. f \in ManifestEntry BY <1>3, WithApplied
<1>6. Noted(f) /\ Onward("next") BY DEF RestoreBackup
<1> HIDE DEF f
<1>7. mem' \in Manifest /\ Becomes(f) BY <1>1, <1>2, <1>5, <1>6, EntryNoted DEF FromPoint, Becomes
<1>8. call' \in CallRecord /\ ToPoint("next") /\ call'.saw = call.saw
    BY <1>1, <1>6, Onwards DEF ToPoint, CallPoint
<1>9. UNCHANGED <<tool, cat, seals, journal, backup, snapshot, touched, torn>>
    BY DEF RestoreBackup, rows, copies
<1> DEFINE seen == IF Compared THEN call.saw ELSE missing
<1>14. Overwrite(call.note, seen, backup[call.note]) BY DEF RestoreBackup
<1> HIDE DEF seen
<1>15. /\ SetFile(call.note, "old", backup[call.note]) /\ LeftAs(call.note, seen, backup[call.note])
       /\ left' \in [Notes -> Bodies]
    BY <1>2, <1>4, <1>14, WritesOver
<1>10. ~Moving /\ Backing BY DEF RestoreBackup, AtBackup, Moving, Backing
<1>11. /\ file' \in [Notes -> [Places -> Text \union {missing}]]
       /\ FileBecomes(call.note, backup[call.note]) /\ \A m \in Notes : InOld(m)'
  <2>1. \A m \in Notes : InOld(m) BY <1>1, <1>10 DEF InPlace
  <2> QED BY <1>2, <1>4, <1>15, <2>1, WritesInPlace
<1>12. MigrationTypeOK' BY <1>1, <1>7, <1>8, <1>9, <1>11, <1>15 DEF MigrationTypeOK
<1>13. InPlace' BY <1>1, <1>7, <1>8, <1>9, <1>10, <1>11, InEntry DEF FromPoint, Becomes, ToPoint, NoNote, Base
<1> QED BY <1>1, <1>3, <1>4, <1>7, <1>8, <1>9, <1>10, <1>11, <1>12, <1>13, <1>15 DEF Base, f, seen

LEMMA SkipRestoreDoes ==
  ASSUME Base, SkipRestore
  PROVE  /\ Base' /\ Backing /\ ~Moving /\ FromPoint("entry", "rollback") /\ ToPoint("next") /\ ~Restorable
         /\ E \in ManifestEntry /\ Becomes([E EXCEPT !.skipped = TRUE])
         /\ UNCHANGED <<tool, file, cat, seals, journal, backup, snapshot, touched, left, torn>>
<1>1. FromPoint("entry", "rollback") /\ MigrationTypeOK /\ InPlace
    BY AtFrom DEF SkipRestore, AtBackup, Base
<1>2. call.note \in Entries BY <1>1 DEF FromPoint, NoNote
<1>3. E \in ManifestEntry BY <1>1, <1>2, EntryTyped DEF FromPoint
<1> DEFINE f == [E EXCEPT !.skipped = TRUE]
<1>4. f \in ManifestEntry BY <1>3, WithSkipped
<1>5. Noted(f) /\ Onward("next") BY DEF SkipRestore
<1> HIDE DEF f
<1>6. mem' \in Manifest /\ Becomes(f) BY <1>1, <1>2, <1>4, <1>5, EntryNoted DEF FromPoint, Becomes
<1>7. call' \in CallRecord /\ ToPoint("next") /\ call'.saw = call.saw
    BY <1>1, <1>5, Onwards DEF ToPoint, CallPoint
<1>8. UNCHANGED <<tool, file, cat, seals, journal, backup, snapshot, touched, left, torn>>
    BY DEF SkipRestore, rows, copies, history
<1>9. MigrationTypeOK' BY <1>1, <1>6, <1>7, <1>8 DEF MigrationTypeOK
<1>10. ~Moving /\ Backing /\ ~Restorable BY DEF SkipRestore, AtBackup, Moving, Backing
<1>11. \A n \in Notes : InOld(n)' BY <1>1, <1>8, <1>10 DEF InPlace, InOld
<1>12. InPlace' BY <1>1, <1>6, <1>7, <1>8, <1>10, <1>11, InEntry DEF FromPoint, Becomes, ToPoint, NoNote, Base
<1> QED BY <1>1, <1>3, <1>6, <1>7, <1>8, <1>9, <1>10, <1>12 DEF Base, f

LEMMA JournalRollbackDoes ==
  ASSUME Base, JournalRollback
  PROVE  /\ Base' /\ Backing /\ ~Moving /\ FromPoint("next", "rollback") /\ call.todo = {} /\ ToPoint("runtime")
         /\ mem' # missing /\ journal' = mem' /\ mem'.entry = mem.entry /\ mem'.change = mem.change
         /\ mem'.status = "rolled_back"
         /\ UNCHANGED <<tool, file, cat, seals, backup, snapshot, touched, left, torn>>
<1>1. FromPoint("next", "rollback") /\ MigrationTypeOK /\ InPlace /\ call.todo = {}
    BY AtFrom DEF JournalRollback, Drained, Base
<1>2. mem \in Manifest BY <1>1, Listings DEF FromPoint
<1>3. /\ mem' \in Manifest /\ mem' # missing /\ mem'.entry = mem.entry /\ mem'.change = mem.change
      /\ mem'.status = "rolled_back"
    BY <1>2, StatusKept, Missing DEF JournalRollback
<1>4. call' \in CallRecord /\ ToPoint("runtime") /\ call'.saw = call.saw
    BY <1>1, Onwards DEF JournalRollback, CallPoint, ToPoint
<1>5. UNCHANGED <<tool, file, cat, seals, backup, snapshot, touched, left, torn>> /\ journal' = mem'
    BY DEF JournalRollback, rows, copies, history, Persist
<1>6. MigrationTypeOK' BY <1>1, <1>3, <1>4, <1>5 DEF MigrationTypeOK
<1>7. ~Moving /\ Backing BY DEF JournalRollback, Moving, Backing
<1>8. \A n \in Notes : InOld(n)' BY <1>1, <1>5, <1>7 DEF InPlace, InOld
<1>9. InPlace' BY <1>1, <1>3, <1>4, <1>5, <1>7, <1>8, InEntry DEF FromPoint, ToPoint, NoNote, Base
<1> QED BY <1>1, <1>3, <1>4, <1>5, <1>6, <1>7, <1>9 DEF Base

LEMMA RestoreRuntimeDoes ==
  ASSUME Base, RestoreRuntime
  PROVE  /\ Base' /\ Backing /\ ~Moving /\ FromPoint("runtime", "rollback") /\ Closed
         /\ cat' = IF snapshot = missing THEN cat ELSE snapshot.cat
         /\ seals' = IF snapshot = missing THEN seals ELSE snapshot.seals
         /\ UNCHANGED <<tool, file, journal, backup, snapshot, touched, left, torn>>
<1>1. FromPoint("runtime", "rollback") /\ MigrationTypeOK /\ InPlace
    BY AtFrom DEF RestoreRuntime, AtBackup, Base
<1>2. Closed /\ call' \in CallRecord BY Returns DEF RestoreRuntime, Closed
<1>3. UNCHANGED <<tool, file, journal, backup, snapshot, touched, left, torn>>
    BY DEF RestoreRuntime, copies, history
<1>4. /\ cat' = IF snapshot = missing THEN cat ELSE snapshot.cat
      /\ seals' = IF snapshot = missing THEN seals ELSE snapshot.seals
    BY DEF RestoreRuntime, rows
<1>5. MigrationTypeOK'
  <2>1. snapshot # missing => snapshot \in RuntimeCopy BY <1>1 DEF MigrationTypeOK
  <2>2. cat' \in [Notes -> CatalogRow \union {missing}] /\ seals' \in [Notes -> SUBSET Version]
      BY <1>1, <1>4, <2>1 DEF MigrationTypeOK, RuntimeCopy
  <2> QED BY <1>1, <1>2, <1>3, <2>2 DEF MigrationTypeOK, Closed
<1>6. ~Moving /\ Backing BY DEF RestoreRuntime, AtBackup, Moving, Backing
<1>7. InPlace' BY <1>1, <1>3, Ended DEF RestoreRuntime, InPlace, InOld
<1> QED BY <1>1, <1>2, <1>3, <1>4, <1>5, <1>6, <1>7 DEF Base
\* What the vocabulary writes is written in the manifest.
Post == E.post # missing

LEMMA ApplyVocabularyDoes ==
  ASSUME Base, ApplyVocabulary
  PROVE  /\ Base' /\ tool = "v3" /\ ~Moving /\ call.op = "idle" /\ mem = missing
         /\ \A n \in Entries : AsListed(n)
         /\ ~(journal.status = "completed" /\ \A n \in Entries : journal.entry[n].phase = "completed")
         /\ call'.op = "apply" /\ call'.pc = "next" /\ call'.todo = Entries
         /\ call'.note = Owner /\ mem' # missing
         /\ mem'.entry = journal.entry /\ mem'.change = journal.change /\ mem'.status # "rolled_back"
         /\ UNCHANGED <<tool, file, cat, seals, journal, backup, snapshot, touched, left, torn>>
<1>1. MigrationTypeOK /\ InPlace /\ journal \in Manifest BY DEF Base, MigrationTypeOK
<1> DEFINE s == IF journal.status = "rolled_back" THEN "planned" ELSE journal.status
<1> DEFINE m == [journal EXCEPT !.status = s]
<1>2. s \in {"planned", "approved", "completed", "rolled_back"} BY <1>1 DEF Manifest
<1>3. m \in Manifest /\ m.entry = journal.entry /\ m.change = journal.change /\ m.status # "rolled_back"
  <2>1. s # "rolled_back" OBVIOUS
  <2> HIDE DEF s
  <2> QED BY <1>1, <1>2, <2>1, StatusKept
<1>4. BeginCall("apply", m, Entries) /\ tool = "v3" BY DEF ApplyVocabulary
<1> HIDE DEF m
<1>5. /\ call.op = "idle" /\ call' \in CallRecord /\ call'.op = "apply" /\ call'.pc = "next" /\ call'.todo = Entries
      /\ call'.note = Owner /\ mem' = m /\ mem' # missing
    BY <1>1, <1>3, <1>4, Begins
<1>6. UNCHANGED <<tool, file, cat, seals, journal, backup, snapshot, touched, left, torn>>
    BY DEF ApplyVocabulary, rows, copies, history
<1>7. MigrationTypeOK' BY <1>1, <1>3, <1>5, <1>6 DEF MigrationTypeOK
<1>8. InPlace' BY <1>5, <1>6, Begun
<1>9. ~Moving BY <1>4 DEF Moving
<1>10. mem = missing BY <1>1, <1>5 DEF InPlace
<1>11. /\ \A n \in Entries : AsListed(n)
       /\ ~(journal.status = "completed" /\ \A n \in Entries : journal.entry[n].phase = "completed")
    BY DEF ApplyVocabulary
<1> QED BY <1>3, <1>4, <1>5, <1>6, <1>7, <1>8, <1>9, <1>10, <1>11 DEF Base

LEMMA RollbackVocabularyDoes ==
  ASSUME Base, RollbackVocabulary
  PROVE  /\ Base' /\ tool = "v3" /\ ~Moving /\ call.op = "idle" /\ mem = missing
         /\ \A n \in Entries : journal.entry[n].phase # "planned" => AsListed(n)
         /\ call'.op = "rollback" /\ call'.pc = "next" /\ call'.todo = {n \in Entries : journal.entry[n].phase # "planned"}
         /\ call'.note = Owner /\ call'.moved = {} /\ mem' # missing
         /\ mem' = journal /\ journal.status # "rolled_back"
         /\ UNCHANGED <<tool, file, cat, seals, journal, backup, snapshot, touched, left, torn>>
<1>1. MigrationTypeOK /\ InPlace BY DEF Base
<1> DEFINE s == {n \in Entries : journal.entry[n].phase # "planned"}
<1> DEFINE m == journal
<1>2. s \in SUBSET Entries BY <1>1 DEF MigrationTypeOK
<1>3. m \in Manifest /\ m = journal BY <1>1, StatusKept DEF MigrationTypeOK
<1>4. BeginCall("rollback", m, s) /\ tool = "v3" /\ journal.status # "rolled_back"
      /\ \A n \in Entries : journal.entry[n].phase # "planned" => AsListed(n)
    BY DEF RollbackVocabulary
<1> HIDE DEF s, m
<1>5. /\ call.op = "idle" /\ call' \in CallRecord /\ call'.op = "rollback" /\ call'.pc = "next" /\ call'.todo = s
      /\ call'.note = Owner /\ call'.moved = {} /\ mem' = m /\ mem' # missing
    BY <1>1, <1>2, <1>3, <1>4, Begins
<1>6. UNCHANGED <<tool, file, cat, seals, journal, backup, snapshot, touched, left, torn>>
    BY DEF RollbackVocabulary, rows, copies, history
<1>7. MigrationTypeOK' BY <1>1, <1>3, <1>5, <1>6 DEF MigrationTypeOK
<1>8. InPlace' BY <1>5, <1>6, Begun
<1>9. ~Moving BY <1>4 DEF Moving
<1>10. mem = missing BY <1>1, <1>5 DEF InPlace
<1> QED BY <1>3, <1>4, <1>5, <1>6, <1>7, <1>8, <1>9, <1>10 DEF Base, s

LEMMA ReadFrontmatterDoes ==
  ASSUME Base, ReadFrontmatter
  PROVE  /\ Base' /\ tool = "v3" /\ ~Moving /\ FromPoint("entry", "apply") /\ ToPoint("write")
         /\ UNCHANGED <<tool, file, cat, seals, journal, mem, backup, snapshot, touched, left, torn>>
<1>1. FromPoint("entry", "apply") /\ MigrationTypeOK /\ InPlace
    BY AtFrom DEF ReadFrontmatter, AtV3, Base
<1>2. call.note \in Notes BY <1>1, Calls
<1>3. ~Moving /\ tool = "v3" /\ F.old = E.pre BY DEF ReadFrontmatter, AtV3, Moving
<1>4. F.old \in Text BY <1>1, <1>2, <1>3, FileAt DEF InPlace, InOld, F
<1>5. call' \in CallRecord /\ ToPoint("write") /\ call'.saw = F.old
  <2>1. call' = [call EXCEPT !.pc = "write", !.saw = F.old] BY DEF ReadFrontmatter, Read
  <2> QED BY <1>1, <1>4, <2>1, OnwardsSeeing DEF CallPoint, ToPoint
<1>6. UNCHANGED <<tool, file, cat, seals, journal, mem, backup, snapshot, touched, left, torn>>
    BY DEF ReadFrontmatter, rows, copies, history
<1>7. MigrationTypeOK' BY <1>1, <1>5, <1>6 DEF MigrationTypeOK
<1>8. \A n \in Notes : InOld(n)' BY <1>1, <1>3, <1>6 DEF InPlace, InOld
<1>9. E' = E BY <1>5, <1>6 DEF E, ToPoint
<1>10. InPlace' BY <1>1, <1>3, <1>4, <1>5, <1>6, <1>8, <1>9, InEntry, Missing DEF FromPoint, ToPoint, NoNote, Base
<1> QED BY <1>1, <1>3, <1>5, <1>6, <1>7, <1>10 DEF Base

LEMMA WriteFrontmatterDoes ==
  ASSUME Base, Post, WriteFrontmatter
  PROVE  /\ Base' /\ tool = "v3" /\ ~Moving /\ FromPoint("write", "apply") /\ ToPoint("journal") /\ call'.saw = call.saw
         /\ call.saw = E.pre /\ E \in ManifestEntry /\ E.post \in Text /\ FileBecomes(call.note, E.post)
         /\ LeftAs(call.note, call.saw, E.post)
         /\ UNCHANGED <<tool, cat, seals, journal, mem, backup, snapshot, touched, torn>>
<1>1. FromPoint("write", "apply") /\ MigrationTypeOK /\ InPlace
    BY AtFrom DEF WriteFrontmatter, AtV3, Base
<1>2. call.note \in Entries /\ call.note \in Notes BY <1>1, Calls DEF FromPoint, NoNote
<1>3. E \in ManifestEntry BY <1>1, <1>2, EntryTyped DEF FromPoint
<1>4. E.post \in Text /\ call.saw = E.pre
    BY <1>1, <1>3, EntryFields DEF Post, InPlace, AtPoint, FromPoint
<1>5. ~Moving /\ tool = "v3" BY DEF WriteFrontmatter, AtV3, Moving
<1>6. call' \in CallRecord /\ ToPoint("journal") /\ call'.saw = call.saw
    BY <1>1, Onwards DEF WriteFrontmatter, CallPoint, ToPoint
<1>7. UNCHANGED <<tool, cat, seals, journal, mem, backup, snapshot, touched, torn>>
    BY DEF WriteFrontmatter, rows, copies
<1>11. /\ SetFile(call.note, "old", E.post) /\ LeftAs(call.note, call.saw, E.post)
       /\ left' \in [Notes -> Bodies]
    BY <1>2, <1>4, WritesOver DEF WriteFrontmatter
<1>8. /\ file' \in [Notes -> [Places -> Text \union {missing}]]
      /\ FileBecomes(call.note, E.post) /\ \A m \in Notes : InOld(m)'
  <2>1. \A m \in Notes : InOld(m) BY <1>1, <1>5 DEF InPlace
  <2> QED BY <1>2, <1>4, <1>11, <2>1, WritesInPlace
<1>9. MigrationTypeOK' BY <1>1, <1>6, <1>7, <1>8, <1>11 DEF MigrationTypeOK
<1>10. InPlace' BY <1>1, <1>5, <1>6, <1>7, <1>8, InEntry DEF FromPoint, ToPoint, NoNote, Base
<1> QED BY <1>1, <1>3, <1>4, <1>5, <1>6, <1>7, <1>8, <1>9, <1>10, <1>11 DEF Base

LEMMA KeepFrontmatterDoes ==
  ASSUME Base, KeepFrontmatter
  PROVE  /\ Base' /\ tool = "v3" /\ ~Moving /\ FromPoint("entry", "apply") /\ ToPoint(IF F.old = E.post /\ E.phase = "planned" THEN "journal" ELSE "phase")
         /\ call'.saw = call.saw /\ F.old # E.pre
         /\ UNCHANGED <<tool, file, cat, seals, journal, mem, backup, snapshot, touched, left, torn>>
<1>1. FromPoint("entry", "apply") /\ MigrationTypeOK /\ InPlace
    BY AtFrom DEF KeepFrontmatter, AtV3, Base
<1>2. ~Moving /\ tool = "v3" /\ F.old # E.pre BY DEF KeepFrontmatter, AtV3, Moving
<1>3. call' \in CallRecord /\ ToPoint(IF F.old = E.post /\ E.phase = "planned" THEN "journal" ELSE "phase") /\ call'.saw = call.saw
    BY <1>1, Onwards DEF KeepFrontmatter, CallPoint, ToPoint
<1>4. UNCHANGED <<tool, file, cat, seals, journal, mem, backup, snapshot, touched, left, torn>>
    BY DEF KeepFrontmatter, rows, copies, history
<1>5. MigrationTypeOK' BY <1>1, <1>3, <1>4 DEF MigrationTypeOK
<1>6. \A n \in Notes : InOld(n)' BY <1>1, <1>2, <1>4 DEF InPlace, InOld
<1>7. InPlace' BY <1>1, <1>2, <1>3, <1>4, <1>6, InEntry DEF FromPoint, ToPoint, NoNote, Base
<1> QED BY <1>1, <1>2, <1>3, <1>4, <1>5, <1>7 DEF Base

LEMMA JournalFrontmatterDoes ==
  ASSUME Base, JournalFrontmatter
  PROVE  /\ Base' /\ tool = "v3" /\ ~Moving /\ FromPoint("journal", "apply") /\ ToPoint("phase")
         /\ E \in ManifestEntry /\ journal' = mem' /\ Becomes([E EXCEPT !.phase = "frontmatter_written"])
         /\ UNCHANGED <<tool, file, cat, seals, backup, snapshot, touched, left, torn>>
<1>1. FromPoint("journal", "apply") /\ MigrationTypeOK /\ InPlace
    BY AtFrom DEF JournalFrontmatter, AtV3, Base
<1>2. call.note \in Entries BY <1>1 DEF FromPoint, NoNote
<1>3. E \in ManifestEntry BY <1>1, <1>2, EntryTyped DEF FromPoint
<1> DEFINE f == [E EXCEPT !.phase = "frontmatter_written"]
<1>4. f \in ManifestEntry BY <1>3, WithPhase DEF Phase
<1>5. Noted(f) /\ Onward("phase") BY DEF JournalFrontmatter
<1> HIDE DEF f
<1>6. mem' \in Manifest /\ Becomes(f) BY <1>1, <1>2, <1>4, <1>5, EntryNoted DEF FromPoint, Becomes
<1>7. call' \in CallRecord /\ ToPoint("phase") /\ call'.saw = call.saw
    BY <1>1, <1>5, Onwards DEF ToPoint, CallPoint
<1>8. UNCHANGED <<tool, file, cat, seals, backup, snapshot, touched, left, torn>> /\ journal' = mem'
    BY DEF JournalFrontmatter, rows, copies, history, Persist
<1>9. MigrationTypeOK' BY <1>1, <1>6, <1>7, <1>8 DEF MigrationTypeOK
<1>10. ~Moving /\ tool = "v3" BY DEF JournalFrontmatter, AtV3, Moving
<1>11. \A n \in Notes : InOld(n)' BY <1>1, <1>8, <1>10 DEF InPlace, InOld
<1>12. InPlace' BY <1>1, <1>6, <1>7, <1>8, <1>10, <1>11, InEntry DEF FromPoint, Becomes, ToPoint, NoNote, Base
<1> QED BY <1>1, <1>3, <1>6, <1>7, <1>8, <1>9, <1>10, <1>12 DEF Base, f

LEMMA MovedVersions ==
  ASSUME NEW v \in SUBSET Version, NEW r \in Revision, NEW x \in Text, NEW y \in Text
  PROVE  Moved(v, r, x, y) \in SUBSET Version
<1>1. ASSUME NEW w \in Version PROVE [w EXCEPT !.text = y] \in Version BY DEF Version
<1> QED BY <1>1 DEF Moved

LEMMA MigrateNoteVocabularyDoes ==
  ASSUME Base, Post, MigrateNoteVocabulary
  PROVE  /\ Base' /\ tool = "v3" /\ ~Moving /\ FromPoint("phase", "apply") /\ ToPoint("committed") /\ call'.saw = call.saw
         /\ E \in ManifestEntry /\ E.post \in Text /\ E.phase = "frontmatter_written" /\ Migratable
         /\ cat'[call.note] = [place |-> "old", rev |-> E.rev, text |-> E.post]
         /\ \A n \in Notes \ {call.note} : cat'[n] = cat[n] /\ seals'[n] = seals[n]
         /\ seals'[call.note] = IF cat[call.note] # missing /\ cat[call.note].text = E.pre
                                THEN Moved(seals[call.note], E.rev, E.pre, E.post)
                                ELSE seals[call.note]
         /\ UNCHANGED <<tool, file, journal, mem, backup, snapshot, touched, left, torn>>
<1>1. FromPoint("phase", "apply") /\ MigrationTypeOK /\ InPlace
    BY AtFrom DEF MigrateNoteVocabulary, AtV3, Base
<1>2. call.note \in Entries /\ call.note \in Notes BY <1>1, Calls DEF FromPoint, NoNote
<1>3. E \in ManifestEntry BY <1>1, <1>2, EntryTyped DEF FromPoint
<1>4. E.post \in Text /\ E.pre \in Text /\ E.rev \in Revision BY <1>3, EntryFields DEF Post
<1>5. ~Moving /\ tool = "v3" /\ E.phase = "frontmatter_written" /\ Migratable
    BY DEF MigrateNoteVocabulary, AtV3, Moving
<1>6. call' \in CallRecord /\ ToPoint("committed") /\ call'.saw = call.saw
    BY <1>1, Onwards DEF MigrateNoteVocabulary, CallPoint, ToPoint
<1>7. UNCHANGED <<tool, file, journal, mem, backup, snapshot, touched, left, torn>>
    BY DEF MigrateNoteVocabulary, copies, history
<1> DEFINE r == [place |-> "old", rev |-> E.rev, text |-> E.post]
<1> DEFINE v == Moved(seals[call.note], E.rev, E.pre, E.post)
<1>8. r \in CatalogRow BY <1>4 DEF CatalogRow, Places
<1>9. v \in SUBSET Version BY <1>1, <1>2, <1>4, MovedVersions DEF MigrationTypeOK
<1>10. /\ cat' = [cat EXCEPT ![call.note] = r]
       /\ seals' = IF cat[call.note] # missing /\ cat[call.note].text = E.pre
                   THEN [seals EXCEPT ![call.note] = v] ELSE seals
    BY DEF MigrateNoteVocabulary
<1> HIDE DEF r, v
<1>11. /\ cat' \in [Notes -> CatalogRow \union {missing}] /\ cat'[call.note] = r
       /\ seals' \in [Notes -> SUBSET Version]
       /\ \A n \in Notes \ {call.note} : cat'[n] = cat[n] /\ seals'[n] = seals[n]
       /\ seals'[call.note] = IF cat[call.note] # missing /\ cat[call.note].text = E.pre
                              THEN v ELSE seals[call.note]
    BY <1>1, <1>2, <1>8, <1>9, <1>10 DEF MigrationTypeOK
<1>12. MigrationTypeOK' BY <1>1, <1>6, <1>7, <1>11 DEF MigrationTypeOK
<1>13. \A n \in Notes : InOld(n)' BY <1>1, <1>5, <1>7 DEF InPlace, InOld
<1>14. InPlace' BY <1>1, <1>5, <1>6, <1>7, <1>13, InEntry DEF FromPoint, ToPoint, NoNote, Base
<1> QED BY <1>1, <1>3, <1>4, <1>5, <1>6, <1>7, <1>11, <1>12, <1>14 DEF Base, r, v

LEMMA VocabularyConflictDoes ==
  ASSUME Base, VocabularyConflict
  PROVE  /\ Base' /\ tool = "v3" /\ ~Moving /\ FromPoint("phase", "apply") /\ Closed
         /\ UNCHANGED <<tool, file, cat, seals, journal, backup, snapshot, touched, left, torn>>
<1>1. FromPoint("phase", "apply") /\ MigrationTypeOK /\ InPlace
    BY AtFrom DEF VocabularyConflict, AtV3, Base
<1>2. Closed /\ call' \in CallRecord BY Returns DEF VocabularyConflict, Closed
<1>3. UNCHANGED <<tool, file, cat, seals, journal, backup, snapshot, touched, left, torn>>
    BY DEF VocabularyConflict, rows, copies, history
<1>4. MigrationTypeOK' BY <1>1, <1>2, <1>3 DEF MigrationTypeOK, Closed
<1>5. ~Moving /\ tool = "v3" BY DEF VocabularyConflict, AtV3, Moving
<1>6. InPlace' BY <1>1, <1>3, Ended DEF VocabularyConflict, InPlace, InOld
<1> QED BY <1>1, <1>2, <1>3, <1>4, <1>5, <1>6 DEF Base

LEMMA JournalPhaseDoes ==
  ASSUME Base, JournalPhase
  PROVE  /\ Base' /\ tool = "v3" /\ ~Moving /\ E \in ManifestEntry /\ journal' = mem' /\ ToPoint("phase")
         /\ \/ /\ FromPoint("committed", "apply") /\ E.phase = "frontmatter_written"
               /\ Becomes([E EXCEPT !.phase = "catalog_committed"])
            \/ /\ FromPoint("phase", "apply") /\ E.phase = "catalog_committed"
               /\ Becomes([E EXCEPT !.phase = "derived_marked"])
            \/ /\ FromPoint("phase", "apply") /\ E.phase = "derived_marked"
               /\ Becomes([E EXCEPT !.phase = "completed"])
         /\ UNCHANGED <<tool, file, cat, seals, backup, snapshot, touched, left, torn>>
<1>1. ASSUME NEW p \in {"committed", "phase"}, NEW b \in Phase, NEW t \in Phase,
             AtV3(p, "apply"), E.phase = b, Noted([E EXCEPT !.phase = t]), Persist, Onward("phase"),
             UNCHANGED <<tool, file, rows, copies, history>>
      PROVE  /\ Base' /\ tool = "v3" /\ ~Moving /\ E \in ManifestEntry /\ journal' = mem' /\ ToPoint("phase")
             /\ FromPoint(p, "apply") /\ Becomes([E EXCEPT !.phase = t])
             /\ UNCHANGED <<tool, file, cat, seals, backup, snapshot, touched, left, torn>>
  <2>1. FromPoint(p, "apply") /\ MigrationTypeOK /\ InPlace BY <1>1, AtFrom DEF AtV3, Base
  <2>2. call.note \in Entries BY <1>1, <2>1 DEF FromPoint, NoNote
  <2>3. E \in ManifestEntry BY <2>1, <2>2, EntryTyped DEF FromPoint
  <2> DEFINE f == [E EXCEPT !.phase = t]
  <2>4. f \in ManifestEntry BY <1>1, <2>3, WithPhase
  <2>5. Noted(f) /\ Onward("phase") BY <1>1
  <2> HIDE DEF f
  <2>6. mem' \in Manifest /\ Becomes(f) BY <2>1, <2>2, <2>4, <2>5, EntryNoted DEF FromPoint, Becomes
  <2>7. call' \in CallRecord /\ ToPoint("phase") /\ call'.saw = call.saw
      BY <2>1, <2>5, Onwards DEF ToPoint, CallPoint
  <2>8. UNCHANGED <<tool, file, cat, seals, backup, snapshot, touched, left, torn>> /\ journal' = mem'
      BY <1>1 DEF rows, copies, history, Persist
  <2>9. MigrationTypeOK' BY <2>1, <2>6, <2>7, <2>8 DEF MigrationTypeOK
  <2>10. ~Moving /\ tool = "v3" BY <1>1 DEF AtV3, Moving
  <2>11. \A n \in Notes : InOld(n)' BY <2>1, <2>8, <2>10 DEF InPlace, InOld
  <2>12. InPlace' BY <1>1, <2>1, <2>6, <2>7, <2>8, <2>10, <2>11, InEntry DEF FromPoint, Becomes, ToPoint, NoNote, Base
  <2> QED BY <2>1, <2>3, <2>6, <2>7, <2>8, <2>9, <2>10, <2>12 DEF Base, f
<1>2. PICK step \in {<<"committed", "frontmatter_written", "catalog_committed">>,
                     <<"phase", "catalog_committed", "derived_marked">>,
                     <<"phase", "derived_marked", "completed">>} :
        /\ AtV3(step[1], "apply") /\ E.phase = step[2]
        /\ Noted([E EXCEPT !.phase = step[3]]) /\ Persist
        /\ Onward("phase")
        /\ UNCHANGED <<tool, file, rows, copies, history>>
    BY DEF JournalPhase
<1>3. CASE step = <<"committed", "frontmatter_written", "catalog_committed">>
  <2>1. /\ AtV3("committed", "apply") /\ E.phase = "frontmatter_written"
        /\ Noted([E EXCEPT !.phase = "catalog_committed"])
      BY <1>2, <1>3
  <2>2. "frontmatter_written" \in Phase /\ "catalog_committed" \in Phase BY DEF Phase
  <2> QED BY <1>1, <1>2, <2>1, <2>2
<1>4. CASE step = <<"phase", "catalog_committed", "derived_marked">>
  <2>1. /\ AtV3("phase", "apply") /\ E.phase = "catalog_committed"
        /\ Noted([E EXCEPT !.phase = "derived_marked"])
      BY <1>2, <1>4
  <2>2. "catalog_committed" \in Phase /\ "derived_marked" \in Phase BY DEF Phase
  <2> QED BY <1>1, <1>2, <2>1, <2>2
<1>5. CASE step = <<"phase", "derived_marked", "completed">>
  <2>1. /\ AtV3("phase", "apply") /\ E.phase = "derived_marked"
        /\ Noted([E EXCEPT !.phase = "completed"])
      BY <1>2, <1>5
  <2>2. "derived_marked" \in Phase /\ "completed" \in Phase BY DEF Phase
  <2> QED BY <1>1, <1>2, <2>1, <2>2
<1> QED BY <1>2, <1>3, <1>4, <1>5

LEMMA EntryDoneDoes ==
  ASSUME Base, EntryDone
  PROVE  /\ Base' /\ tool = "v3" /\ ~Moving /\ FromPoint("phase", "apply") /\ ToPoint("next")
         /\ call'.saw = call.saw /\ E.phase \in {"planned", "completed"}
         /\ UNCHANGED <<tool, file, cat, seals, journal, mem, backup, snapshot, touched, left, torn>>
<1>1. FromPoint("phase", "apply") /\ MigrationTypeOK /\ InPlace
    BY AtFrom DEF EntryDone, AtV3, Base
<1>2. ~Moving /\ tool = "v3" /\ E.phase \in {"planned", "completed"} BY DEF EntryDone, AtV3, Moving
<1>3. call' \in CallRecord /\ ToPoint("next") /\ call'.saw = call.saw
    BY <1>1, Onwards DEF EntryDone, CallPoint, ToPoint
<1>4. UNCHANGED <<tool, file, cat, seals, journal, mem, backup, snapshot, touched, left, torn>>
    BY DEF EntryDone, rows, copies, history
<1>5. MigrationTypeOK' BY <1>1, <1>3, <1>4 DEF MigrationTypeOK
<1>6. \A n \in Notes : InOld(n)' BY <1>1, <1>2, <1>4 DEF InPlace, InOld
<1>7. InPlace' BY <1>1, <1>2, <1>3, <1>4, <1>6, InEntry DEF FromPoint, ToPoint, NoNote, Base
<1> QED BY <1>1, <1>2, <1>3, <1>4, <1>5, <1>7 DEF Base

LEMMA ReadRestoredDoes ==
  ASSUME Base, ReadRestored
  PROVE  /\ Base' /\ tool = "v3" /\ ~Moving /\ FromPoint("entry", "rollback") /\ ToPoint("unwrite")
         /\ call'.saw = F.old
         /\ UNCHANGED <<tool, file, cat, seals, journal, mem, backup, snapshot, touched, left, torn>>
<1>1. FromPoint("entry", "rollback") /\ MigrationTypeOK /\ InPlace
    BY AtFrom DEF ReadRestored, AtV3, Base
<1>2. call.note \in Notes BY <1>1, Calls
<1>3. ~Moving /\ tool = "v3" BY DEF ReadRestored, AtV3, Moving
<1>4. F.old \in Text BY <1>1, <1>2, <1>3, FileAt DEF InPlace, InOld, F
<1>5. call' \in CallRecord /\ ToPoint("unwrite") /\ call'.saw = F.old
  <2>1. call' = [call EXCEPT !.pc = "unwrite", !.saw = F.old] BY DEF ReadRestored, Read
  <2> QED BY <1>1, <1>4, <2>1, OnwardsSeeing DEF CallPoint, ToPoint
<1>6. UNCHANGED <<tool, file, cat, seals, journal, mem, backup, snapshot, touched, left, torn>>
    BY DEF ReadRestored, rows, copies, history
<1>7. MigrationTypeOK' BY <1>1, <1>5, <1>6 DEF MigrationTypeOK
<1>8. \A n \in Notes : InOld(n)' BY <1>1, <1>3, <1>6 DEF InPlace, InOld
<1>9. InPlace' BY <1>1, <1>3, <1>4, <1>5, <1>6, <1>8, InEntry, Missing DEF FromPoint, ToPoint, NoNote, Base
<1> QED BY <1>1, <1>3, <1>5, <1>6, <1>7, <1>9 DEF Base

LEMMA RestoreFrontmatterDoes ==
  ASSUME Base, RestoreFrontmatter
  PROVE  /\ Base' /\ tool = "v3" /\ ~Moving /\ FromPoint("unwrite", "rollback") /\ ToPoint("restore")
         /\ call'.saw = call.saw /\ call.saw \in Text /\ E \in ManifestEntry
         /\ FileBecomes(call.note, IF call.saw = E.post THEN E.pre ELSE F.old)
         /\ IF call.saw = E.post THEN LeftAs(call.note, call.saw, E.pre) ELSE left' = left
         /\ UNCHANGED <<tool, cat, seals, journal, mem, backup, snapshot, touched, torn>>
<1>1. FromPoint("unwrite", "rollback") /\ MigrationTypeOK /\ InPlace
    BY AtFrom DEF RestoreFrontmatter, AtV3, Base
<1>2. call.note \in Entries /\ call.note \in Notes BY <1>1, Calls DEF FromPoint, NoNote
<1>3. E \in ManifestEntry /\ E.pre \in Text BY <1>1, <1>2, EntryTyped, EntryFields DEF FromPoint
<1>4. ~Moving /\ tool = "v3" BY DEF RestoreFrontmatter, AtV3, Moving
<1>5. call.saw \in Text BY <1>1, Calls DEF InPlace, Seeing, FromPoint
<1>6. call' \in CallRecord /\ ToPoint("restore") /\ call'.saw = call.saw
    BY <1>1, Onwards DEF RestoreFrontmatter, CallPoint, ToPoint
<1>7. UNCHANGED <<tool, cat, seals, journal, mem, backup, snapshot, touched, torn>>
    BY DEF RestoreFrontmatter, rows, copies
<1>8. /\ file' \in [Notes -> [Places -> Text \union {missing}]]
      /\ FileBecomes(call.note, IF call.saw = E.post THEN E.pre ELSE F.old) /\ \A m \in Notes : InOld(m)'
      /\ IF call.saw = E.post THEN LeftAs(call.note, call.saw, E.pre) ELSE left' = left
      /\ left' \in [Notes -> Bodies]
  <2>1. \A m \in Notes : InOld(m) BY <1>1, <1>4 DEF InPlace
  <2>2. CASE call.saw = E.post
    <3>1. Overwrite(call.note, call.saw, E.pre) BY <2>2 DEF RestoreFrontmatter
    <3>2. /\ SetFile(call.note, "old", E.pre) /\ LeftAs(call.note, call.saw, E.pre)
          /\ left' \in [Notes -> Bodies]
        BY <1>2, <1>3, <3>1, WritesOver
    <3> QED BY <1>2, <1>3, <2>1, <2>2, <3>2, WritesInPlace
  <2>3. CASE call.saw # E.post
    <3>1. file' = file /\ left' = left BY <2>3 DEF RestoreFrontmatter
    <3> QED BY <1>1, <2>1, <2>3, <3>1 DEF MigrationTypeOK, FileBecomes, InOld, F
  <2> QED BY <2>2, <2>3
<1>9. MigrationTypeOK' BY <1>1, <1>6, <1>7, <1>8 DEF MigrationTypeOK
<1>10. InPlace' BY <1>1, <1>4, <1>5, <1>6, <1>7, <1>8, InEntry, Missing DEF FromPoint, ToPoint, NoNote, Base
<1> QED BY <1>1, <1>3, <1>4, <1>5, <1>6, <1>7, <1>8, <1>9, <1>10 DEF Base

LEMMA RollbackNoteVocabularyDoes ==
  ASSUME Base, Post, RollbackNoteVocabulary
  PROVE  /\ Base' /\ tool = "v3" /\ ~Moving /\ FromPoint("restore", "rollback") /\ ToPoint("restored")
         /\ call'.saw = call.saw /\ E \in ManifestEntry /\ E.post \in Text /\ Unmigratable
         /\ cat'[call.note] = IF E.existed THEN [place |-> "old", rev |-> E.rev, text |-> E.pre] ELSE missing
         /\ \A n \in Notes \ {call.note} : cat'[n] = cat[n] /\ seals'[n] = seals[n]
         /\ seals'[call.note] = IF E.existed /\ cat[call.note].text = E.post
                                THEN Moved(seals[call.note], E.rev, E.post, E.pre)
                                ELSE seals[call.note]
         /\ UNCHANGED <<tool, file, journal, mem, backup, snapshot, touched, left, torn>>
<1>1. FromPoint("restore", "rollback") /\ MigrationTypeOK /\ InPlace
    BY AtFrom DEF RollbackNoteVocabulary, AtV3, Base
<1>2. call.note \in Entries /\ call.note \in Notes BY <1>1, Calls DEF FromPoint, NoNote
<1>3. E \in ManifestEntry BY <1>1, <1>2, EntryTyped DEF FromPoint
<1>4. E.post \in Text /\ E.pre \in Text /\ E.rev \in Revision BY <1>3, EntryFields DEF Post
<1>5. ~Moving /\ tool = "v3" /\ Unmigratable BY DEF RollbackNoteVocabulary, AtV3, Moving
<1>6. call' \in CallRecord /\ ToPoint("restored") /\ call'.saw = call.saw
    BY <1>1, Onwards DEF RollbackNoteVocabulary, CallPoint, ToPoint
<1>7. UNCHANGED <<tool, file, journal, mem, backup, snapshot, touched, left, torn>>
    BY DEF RollbackNoteVocabulary, copies, history
<1> DEFINE r == IF E.existed THEN [place |-> "old", rev |-> E.rev, text |-> E.pre] ELSE missing
<1> DEFINE v == Moved(seals[call.note], E.rev, E.post, E.pre)
<1>8. r \in CatalogRow \union {missing} BY <1>4 DEF CatalogRow, Places
<1>9. v \in SUBSET Version BY <1>1, <1>2, <1>4, MovedVersions DEF MigrationTypeOK
<1>10. /\ cat' = [cat EXCEPT ![call.note] = r]
       /\ seals' = IF E.existed /\ cat[call.note].text = E.post
                   THEN [seals EXCEPT ![call.note] = v] ELSE seals
    BY DEF RollbackNoteVocabulary
<1> HIDE DEF r, v
<1>11. /\ cat' \in [Notes -> CatalogRow \union {missing}] /\ cat'[call.note] = r
       /\ seals' \in [Notes -> SUBSET Version]
       /\ \A n \in Notes \ {call.note} : cat'[n] = cat[n] /\ seals'[n] = seals[n]
       /\ seals'[call.note] = IF E.existed /\ cat[call.note].text = E.post
                              THEN v ELSE seals[call.note]
    BY <1>1, <1>2, <1>8, <1>9, <1>10 DEF MigrationTypeOK
<1>12. MigrationTypeOK' BY <1>1, <1>6, <1>7, <1>11 DEF MigrationTypeOK
<1>13. \A n \in Notes : InOld(n)' BY <1>1, <1>5, <1>7 DEF InPlace, InOld
<1>14. InPlace' BY <1>1, <1>5, <1>6, <1>7, <1>13, InEntry DEF FromPoint, ToPoint, NoNote, Base
<1> QED BY <1>1, <1>3, <1>4, <1>5, <1>6, <1>7, <1>11, <1>12, <1>14 DEF Base, r, v

LEMMA RollbackConflictDoes ==
  ASSUME Base, Post, RollbackConflict
  PROVE  /\ Base' /\ tool = "v3" /\ ~Moving /\ FromPoint("restore", "rollback") /\ Closed
         /\ E \in ManifestEntry /\ E.post \in Text
         /\ FileBecomes(call.note, IF call.saw = E.post THEN E.post ELSE F.old)
         /\ IF call.saw = E.post THEN LeftAs(call.note, E.pre, E.post) ELSE left' = left
         /\ UNCHANGED <<tool, cat, seals, journal, backup, snapshot, touched, torn>>
<1>1. FromPoint("restore", "rollback") /\ MigrationTypeOK /\ InPlace
    BY AtFrom DEF RollbackConflict, AtV3, Base
<1>2. call.note \in Entries /\ call.note \in Notes BY <1>1, Calls DEF FromPoint, NoNote
<1>3. E \in ManifestEntry BY <1>1, <1>2, EntryTyped DEF FromPoint
<1>4. E.post \in Text BY <1>3, EntryFields DEF Post
<1>5. ~Moving /\ tool = "v3" BY DEF RollbackConflict, AtV3, Moving
<1>6. Closed /\ call' \in CallRecord BY Returns DEF RollbackConflict, Closed
<1>7. UNCHANGED <<tool, cat, seals, journal, backup, snapshot, touched, torn>>
    BY DEF RollbackConflict, rows, copies
<1>8. /\ file' \in [Notes -> [Places -> Text \union {missing}]]
      /\ FileBecomes(call.note, IF call.saw = E.post THEN E.post ELSE F.old) /\ \A m \in Notes : InOld(m)'
      /\ IF call.saw = E.post THEN LeftAs(call.note, E.pre, E.post) ELSE left' = left
      /\ left' \in [Notes -> Bodies]
  <2>1. \A m \in Notes : InOld(m) BY <1>1, <1>5 DEF InPlace
  <2>2. CASE call.saw = E.post
    <3>1. Overwrite(call.note, E.pre, E.post) BY <2>2 DEF RollbackConflict
    <3>2. /\ SetFile(call.note, "old", E.post) /\ LeftAs(call.note, E.pre, E.post)
          /\ left' \in [Notes -> Bodies]
        BY <1>2, <1>4, <3>1, WritesOver
    <3> QED BY <1>2, <1>4, <2>1, <2>2, <3>2, WritesInPlace
  <2>3. CASE call.saw # E.post
    <3>1. file' = file /\ left' = left BY <2>3 DEF RollbackConflict
    <3> QED BY <1>1, <2>1, <2>3, <3>1 DEF MigrationTypeOK, FileBecomes, InOld, F
  <2> QED BY <2>2, <2>3
<1>9. MigrationTypeOK' BY <1>1, <1>6, <1>7, <1>8 DEF MigrationTypeOK, Closed
<1>10. InPlace' BY <1>2, <1>7, <1>8, NotesThere, Ended DEF RollbackConflict
<1> QED BY <1>1, <1>3, <1>4, <1>5, <1>6, <1>7, <1>8, <1>9, <1>10 DEF Base

LEMMA JournalRestoredDoes ==
  ASSUME Base, JournalRestored
  PROVE  /\ Base' /\ tool = "v3" /\ ~Moving /\ FromPoint("restored", "rollback") /\ ToPoint("next")
         /\ E \in ManifestEntry /\ journal' = mem' /\ Becomes([E EXCEPT !.phase = "planned"])
         /\ UNCHANGED <<tool, file, cat, seals, backup, snapshot, touched, left, torn>>
<1>1. FromPoint("restored", "rollback") /\ MigrationTypeOK /\ InPlace
    BY AtFrom DEF JournalRestored, AtV3, Base
<1>2. call.note \in Entries BY <1>1 DEF FromPoint, NoNote
<1>3. E \in ManifestEntry BY <1>1, <1>2, EntryTyped DEF FromPoint
<1> DEFINE f == [E EXCEPT !.phase = "planned"]
<1>4. f \in ManifestEntry BY <1>3, WithPhase DEF Phase
<1>5. Noted(f) /\ Onward("next") BY DEF JournalRestored
<1> HIDE DEF f
<1>6. mem' \in Manifest /\ Becomes(f) BY <1>1, <1>2, <1>4, <1>5, EntryNoted DEF FromPoint, Becomes
<1>7. call' \in CallRecord /\ ToPoint("next") /\ call'.saw = call.saw
    BY <1>1, <1>5, Onwards DEF ToPoint, CallPoint
<1>8. UNCHANGED <<tool, file, cat, seals, backup, snapshot, touched, left, torn>> /\ journal' = mem'
    BY DEF JournalRestored, rows, copies, history, Persist
<1>9. MigrationTypeOK' BY <1>1, <1>6, <1>7, <1>8 DEF MigrationTypeOK
<1>10. ~Moving /\ tool = "v3" BY DEF JournalRestored, AtV3, Moving
<1>11. \A n \in Notes : InOld(n)' BY <1>1, <1>8, <1>10 DEF InPlace, InOld
<1>12. InPlace' BY <1>1, <1>6, <1>7, <1>8, <1>10, <1>11, InEntry DEF FromPoint, Becomes, ToPoint, NoNote, Base
<1> QED BY <1>1, <1>3, <1>6, <1>7, <1>8, <1>9, <1>10, <1>12 DEF Base, f

LEMMA FinishVocabularyDoes ==
  ASSUME Base, FinishVocabulary
  PROVE  /\ Base' /\ tool = "v3" /\ ~Moving /\ AtPoint("next") /\ call.todo = {} /\ mem # missing /\ Closed
         /\ journal'.entry = mem.entry /\ journal'.change = mem.change
         /\ journal'.status = IF Running("apply") THEN "completed" ELSE "rolled_back"
         /\ UNCHANGED <<tool, file, cat, seals, backup, snapshot, touched, left, torn>>
<1>1. MigrationTypeOK /\ InPlace /\ AtPoint("next") /\ call.todo = {} /\ mem # missing
    BY DEF FinishVocabulary, Drained, Base, InPlace, AtPoint
<1>2. mem \in Manifest BY <1>1, Listings
<1> DEFINE s == IF Running("apply") THEN "completed" ELSE "rolled_back"
<1>3. s \in {"planned", "approved", "completed", "rolled_back"} /\ journal' = [mem EXCEPT !.status = s]
    BY DEF FinishVocabulary
<1> HIDE DEF s
<1>4. /\ journal' \in Manifest /\ journal'.entry = mem.entry /\ journal'.change = mem.change
      /\ journal'.status = s
    BY <1>2, <1>3, StatusKept
<1>5. Closed /\ call' \in CallRecord BY Returns DEF FinishVocabulary, Closed
<1>6. UNCHANGED <<tool, file, cat, seals, backup, snapshot, touched, left, torn>>
    BY DEF FinishVocabulary, rows, copies, history
<1>7. MigrationTypeOK' BY <1>1, <1>4, <1>5, <1>6 DEF MigrationTypeOK, Closed
<1>8. ~Moving /\ tool = "v3" BY DEF FinishVocabulary, Moving
<1>9. InPlace' BY <1>1, <1>6, Ended DEF FinishVocabulary, InPlace, InOld
<1> QED BY <1>1, <1>4, <1>5, <1>6, <1>7, <1>8, <1>9 DEF Base, s

\* A note is carried to its new place, or brought back.
Carried(n) == /\ file'[n].new = file[n].old /\ file'[n].old = missing
              /\ \A m \in Notes \ {n} : file'[m] = file[m]
Brought(n) == /\ file'[n].old = file[n].new /\ file'[n].new = missing
              /\ \A m \in Notes \ {n} : file'[m] = file[m]

LEMMA Carries ==
  ASSUME Base, NEW n \in Entries, InOld(n), MoveFile(n, "old", "new")
  PROVE  /\ file' \in [Notes -> [Places -> Text \union {missing}]] /\ Carried(n) /\ InNew(n)' /\ InOld(Owner)'
         /\ \A m \in Notes \ {n} : (InOld(m) <=> InOld(m)') /\ (InNew(m) <=> InNew(m)')
<1>1. /\ file' \in [Notes -> [Places -> Text \union {missing}]]
      /\ file'[n].new = file[n].old /\ file'[n].old = missing
      /\ \A m \in Notes \ {n} : file'[m] = file[m]
    BY Moves, NotesThere DEF Base
<1> QED BY <1>1, NotesThere DEF Carried, InOld, InNew, Base, InPlace

LEMMA Brings ==
  ASSUME Base, NEW n \in Entries, InNew(n), MoveFile(n, "new", "old")
  PROVE  /\ file' \in [Notes -> [Places -> Text \union {missing}]] /\ Brought(n) /\ InOld(n)' /\ InOld(Owner)'
         /\ \A m \in Notes \ {n} : (InOld(m) <=> InOld(m)') /\ (InNew(m) <=> InNew(m)')
<1>1. /\ file' \in [Notes -> [Places -> Text \union {missing}]]
      /\ file'[n].old = file[n].new /\ file'[n].new = missing
      /\ \A m \in Notes \ {n} : file'[m] = file[m]
    BY Moves, NotesThere DEF Base
<1> QED BY <1>1, NotesThere DEF Brought, InOld, InNew, Base, InPlace

LEMMA InRoute ==
  ASSUME Base, tool' = tool, Moving, call.op # "idle", call'.op = call.op, call'.note = call.note,
         call'.todo = call.todo, mem' # missing, call.pc \notin NoNote \/ call'.pc \in NoNote, InOld(Owner)',
         call'.pc \in {"relink", "link", "linked"} => call'.saw # missing /\ Target \in Entries,
         call'.pc \notin {"write", "unwrite", "restore", "rewrite", "register", "record", "bring"},
         call'.pc \in {"unrelink", "unlink"} =>
           call'.saw # missing /\ mem'.change # missing /\ call'.saw = mem'.change.post,
         call'.pc = "rename" => IF call.op = "apply" THEN InOld(call.note)' ELSE InNew(call.note)',
         call'.pc = "relocate" => IF call.op = "apply" THEN InNew(call.note)' ELSE InOld(call.note)',
         call'.pc \in {"journal_move", "moved"} => call.op = "apply" /\ InNew(call.note)'
  PROVE  InPlace'
BY DEF Base, InPlace, NoNote, Seeing, Moving, Running, AtPoint, InOld, InNew

LEMMA ApproveManifestDoes ==
  ASSUME Base, ApproveManifest
  PROVE  /\ Base' /\ Moving /\ tool = "sumarios" /\ call.op = "idle" /\ mem = missing
         /\ journal'.status = "approved" /\ journal'.entry = journal.entry /\ journal'.change = journal.change
         /\ UNCHANGED <<tool, file, cat, seals, mem, call, backup, snapshot, touched, left, torn>>
<1>1. MigrationTypeOK /\ InPlace /\ journal \in Manifest BY DEF Base, MigrationTypeOK
<1>2. /\ journal' \in Manifest /\ journal'.status = "approved" /\ journal'.entry = journal.entry
      /\ journal'.change = journal.change
    BY <1>1, StatusKept DEF ApproveManifest
<1>3. /\ UNCHANGED <<tool, file, cat, seals, mem, call, backup, snapshot, touched, left, torn>>
      /\ tool = "sumarios" /\ call.op = "idle" /\ Moving
    BY DEF ApproveManifest, rows, copies, history, Moving
<1>4. MigrationTypeOK' BY <1>1, <1>2, <1>3 DEF MigrationTypeOK
<1>5. InPlace' BY <1>1, <1>3 DEF InPlace, Moving, Running, AtPoint, InOld, InNew
<1>6. mem = missing BY <1>1, <1>3 DEF InPlace
<1> QED BY <1>2, <1>3, <1>4, <1>5, <1>6 DEF Base

LEMMA ApplyMovesDoes ==
  ASSUME Base, ApplyMoves
  PROVE  /\ Base' /\ Moving /\ call.op = "idle" /\ mem = missing
         /\ tool = "sumarios" => journal.status = "approved"
         /\ call'.op = "apply" /\ call'.pc = "next" /\ call'.todo = Entries
         /\ call'.note = Owner /\ call'.moved = {} /\ mem' # missing /\ mem' = journal
         /\ UNCHANGED <<tool, file, cat, seals, journal, backup, snapshot, touched, left, torn>>
<1>1. MigrationTypeOK /\ InPlace /\ journal \in Manifest BY DEF Base, MigrationTypeOK
<1> DEFINE s == Entries
<1>2. s \in SUBSET Entries OBVIOUS
<1>3. BeginCall("apply", journal, s) /\ Moving /\ (tool = "sumarios" => journal.status = "approved") BY DEF ApplyMoves
<1> HIDE DEF s
<1>4. /\ call.op = "idle" /\ call' \in CallRecord /\ call'.op = "apply" /\ call'.pc = "next" /\ call'.todo = s
      /\ call'.note = Owner /\ call'.moved = {} /\ mem' = journal /\ mem' # missing
    BY <1>1, <1>2, <1>3, Begins
<1>5. UNCHANGED <<tool, file, cat, seals, journal, backup, snapshot, touched, left, torn>>
    BY DEF ApplyMoves, rows, copies, history
<1>6. MigrationTypeOK' BY <1>1, <1>4, <1>5 DEF MigrationTypeOK
<1>7. InPlace' BY <1>4, <1>5, Begun
<1>8. mem = missing BY <1>1, <1>4 DEF InPlace
<1> QED BY <1>3, <1>4, <1>5, <1>6, <1>7, <1>8 DEF Base, s

LEMMA CheckMoveDoes ==
  ASSUME Base, CheckMove
  PROVE  /\ Base' /\ Moving /\ FromPoint("entry", "apply") /\ ToPoint("rename") /\ call'.saw = call.saw
         /\ E \in ManifestEntry /\ Movable /\ InOld(call.note)
         /\ UNCHANGED <<tool, file, cat, seals, journal, mem, backup, snapshot, touched, left, torn>>
<1>1. FromPoint("entry", "apply") /\ MigrationTypeOK /\ InPlace /\ Moving /\ InOld(Owner)
    BY AtFrom DEF CheckMove, AtMove, Base, InPlace
<1>2. call.note \in Entries BY <1>1 DEF FromPoint, NoNote
<1>3. E \in ManifestEntry BY <1>1, <1>2, EntryTyped DEF FromPoint
<1>4. Movable /\ InOld(call.note)
  <2>1. Movable BY DEF CheckMove
  <2> QED BY <1>1, <1>3, <2>1, EntryFields, Missing DEF Movable, InOld, F
<1>5. call' \in CallRecord /\ ToPoint("rename") /\ call'.saw = call.saw
    BY <1>1, Onwards DEF CheckMove, CallPoint, ToPoint
<1>6. UNCHANGED <<tool, file, cat, seals, journal, mem, backup, snapshot, touched, left, torn>>
    BY DEF CheckMove, rows, copies, history
<1>7. MigrationTypeOK' BY <1>1, <1>5, <1>6 DEF MigrationTypeOK
<1>8. InOld(Owner)' /\ InOld(call.note)' BY <1>1, <1>4, <1>5, <1>6 DEF InOld, InNew, ToPoint
<1>9. InPlace' BY <1>1, <1>5, <1>6, <1>8, InRoute DEF FromPoint, ToPoint, NoNote, Base
<1> QED BY <1>1, <1>3, <1>4, <1>5, <1>6, <1>7, <1>9 DEF Base

LEMMA RefuseMoveDoes ==
  ASSUME Base, RefuseMove
  PROVE  /\ Base' /\ Moving /\ FromPoint("entry", "apply") /\ Closed /\ E \in ManifestEntry
         /\ \/ tool = "taxonomy" /\ journal' = journal
            \/ /\ tool = "sumarios" /\ journal'.status = mem.status /\ journal'.change = mem.change
               /\ journal'.entry[call.note] = [E EXCEPT !.skipped = TRUE]
               /\ \A n \in Entries \ {call.note} : journal'.entry[n] = mem.entry[n]
         /\ UNCHANGED <<tool, file, cat, seals, backup, snapshot, touched, left, torn>>
<1>1. FromPoint("entry", "apply") /\ MigrationTypeOK /\ InPlace /\ Moving /\ InOld(Owner)
    BY AtFrom DEF RefuseMove, AtMove, Base, InPlace
<1>2. call.note \in Entries BY <1>1 DEF FromPoint, NoNote
<1>3. E \in ManifestEntry BY <1>1, <1>2, EntryTyped DEF FromPoint
<1> DEFINE e == [E EXCEPT !.skipped = TRUE]
<1>4. e \in ManifestEntry BY <1>3, WithSkipped
<1>5. journal' = IF tool = "sumarios" THEN Annotated(e) ELSE journal BY DEF RefuseMove
<1> HIDE DEF e
<1>6. /\ journal' \in Manifest
      /\ \/ tool = "taxonomy" /\ journal' = journal
         \/ /\ tool = "sumarios" /\ journal'.status = mem.status /\ journal'.change = mem.change
            /\ journal'.entry[call.note] = e
            /\ \A n \in Entries \ {call.note} : journal'.entry[n] = mem.entry[n]
    BY <1>1, <1>2, <1>4, <1>5, EntryIn DEF FromPoint, Moving, MigrationTypeOK
<1>7. Closed /\ call' \in CallRecord BY Returns DEF RefuseMove, Closed
<1>8. UNCHANGED <<tool, file, cat, seals, backup, snapshot, touched, left, torn>>
    BY DEF RefuseMove, rows, copies, history
<1>9. MigrationTypeOK' BY <1>1, <1>6, <1>7, <1>8 DEF MigrationTypeOK, Closed
<1>10. InPlace' BY <1>1, <1>8, Ended DEF RefuseMove, InOld
<1> QED BY <1>1, <1>3, <1>6, <1>7, <1>8, <1>9, <1>10 DEF Base, e

LEMMA RenameDoes ==
  ASSUME Base, Rename
  PROVE  /\ Base' /\ Moving /\ FromPoint("rename", "apply") /\ call'.saw = call.saw
         /\ ToPoint(IF tool = "taxonomy" THEN "journal_move" ELSE "relocate")
         /\ InOld(call.note) /\ Carried(call.note) /\ InNew(call.note)'
         /\ \A m \in Notes \ {call.note} : (InOld(m) <=> InOld(m)') /\ (InNew(m) <=> InNew(m)')
         /\ UNCHANGED <<tool, cat, seals, journal, mem, backup, snapshot, touched, left, torn>>
<1>1. FromPoint("rename", "apply") /\ MigrationTypeOK /\ InPlace /\ Moving /\ InOld(Owner)
    BY AtFrom DEF Rename, AtMove, Base, InPlace
<1>2. call.note \in Entries BY <1>1 DEF FromPoint, NoNote
<1>3. InOld(call.note) BY <1>1 DEF InPlace, FromPoint, Running, AtPoint
<1>4. MoveFile(call.note, "old", "new") BY DEF Rename
<1>5. /\ file' \in [Notes -> [Places -> Text \union {missing}]] /\ Carried(call.note)
      /\ InNew(call.note)' /\ InOld(Owner)'
      /\ \A m \in Notes \ {call.note} : (InOld(m) <=> InOld(m)') /\ (InNew(m) <=> InNew(m)')
  <2>1. \A n \in Entries : InOld(n) /\ MoveFile(n, "old", "new") =>
           /\ file' \in [Notes -> [Places -> Text \union {missing}]] /\ Carried(n)
           /\ file'[n].old = missing /\ file'[n].new # missing /\ InOld(Owner)'
           /\ \A m \in Notes \ {n} : (InOld(m) <=> InOld(m)') /\ (InNew(m) <=> InNew(m)')
      BY Carries DEF InNew
  <2>2. call'.note = call.note BY <1>1, Onwards DEF Rename, CallPoint
  <2> QED BY <1>2, <1>3, <1>4, <2>1, <2>2 DEF InNew
<1>6. /\ call' \in CallRecord /\ ToPoint(IF tool = "taxonomy" THEN "journal_move" ELSE "relocate")
      /\ call'.saw = call.saw
    BY <1>1, Onwards DEF Rename, CallPoint, ToPoint
<1>7. UNCHANGED <<tool, cat, seals, journal, mem, backup, snapshot, touched, left, torn>>
    BY DEF Rename, rows, copies, history
<1>8. MigrationTypeOK' BY <1>1, <1>5, <1>6, <1>7 DEF MigrationTypeOK
<1>9. InPlace' BY <1>1, <1>5, <1>6, <1>7, InRoute DEF FromPoint, ToPoint, NoNote, Base
<1> QED BY <1>1, <1>3, <1>5, <1>6, <1>7, <1>8, <1>9 DEF Base

LEMMA JournalMoveDoes ==
  ASSUME Base, JournalMove
  PROVE  /\ Base' /\ Moving /\ FromPoint("journal_move", "apply") /\ ToPoint("relocate") /\ InNew(call.note)
         /\ E \in ManifestEntry /\ journal' = mem' /\ Becomes([E EXCEPT !.phase = "file_moved"])
         /\ UNCHANGED <<tool, file, cat, seals, backup, snapshot, touched, left, torn>>
<1>1. FromPoint("journal_move", "apply") /\ MigrationTypeOK /\ InPlace /\ Moving /\ InOld(Owner)
    BY AtFrom DEF JournalMove, AtMove, Base, InPlace
<1>2. call.note \in Entries BY <1>1 DEF FromPoint, NoNote
<1>3. E \in ManifestEntry BY <1>1, <1>2, EntryTyped DEF FromPoint
<1>4. InNew(call.note) BY <1>1 DEF InPlace, FromPoint, Running
<1> DEFINE f == [E EXCEPT !.phase = "file_moved"]
<1>5. f \in ManifestEntry BY <1>3, WithPhase DEF Phase
<1>6. Noted(f) /\ Onward("relocate") BY DEF JournalMove
<1> HIDE DEF f
<1>7. mem' \in Manifest /\ Becomes(f) BY <1>1, <1>2, <1>5, <1>6, EntryNoted DEF FromPoint, Becomes
<1>8. call' \in CallRecord /\ ToPoint("relocate") /\ call'.saw = call.saw
    BY <1>1, <1>6, Onwards DEF ToPoint, CallPoint
<1>9. UNCHANGED <<tool, file, cat, seals, backup, snapshot, touched, left, torn>> /\ journal' = mem'
    BY DEF JournalMove, rows, copies, history, Persist
<1>10. MigrationTypeOK' BY <1>1, <1>7, <1>8, <1>9 DEF MigrationTypeOK
<1>11. InOld(Owner)' /\ InNew(call.note)' BY <1>1, <1>4, <1>8, <1>9 DEF InOld, InNew, ToPoint
<1>12. InPlace' BY <1>1, <1>7, <1>8, <1>9, <1>11, InRoute DEF FromPoint, Becomes, ToPoint, NoNote, Base
<1> QED BY <1>1, <1>3, <1>4, <1>7, <1>8, <1>9, <1>10, <1>12 DEF Base, f

\* A row that follows its note.
LEMMA RowFollows ==
  ASSUME NEW r \in CatalogRow \union {missing}, NEW p \in Places
  PROVE  /\ Relocated(r, p) \in CatalogRow \union {missing}
         /\ r = missing => Relocated(r, p) = missing
         /\ r # missing =>
              /\ Relocated(r, p) # missing /\ Relocated(r, p).place = p /\ Relocated(r, p).text = r.text
              /\ Relocated(r, p).rev = IF tool = "sumarios" THEN r.rev ELSE r.rev + 1
<1>1. CASE r = missing BY <1>1 DEF Relocated
<1>2. CASE r # missing /\ tool = "sumarios"
  <2>1. r \in CatalogRow /\ Relocated(r, p) = [r EXCEPT !.place = p] BY <1>2 DEF Relocated
  <2>2. Relocated(r, p) \in CatalogRow BY <2>1 DEF CatalogRow
  <2> QED BY <1>2, <2>1, <2>2, Missing DEF CatalogRow
<1>3. CASE r # missing /\ tool # "sumarios"
  <2>1. r \in CatalogRow /\ Relocated(r, p) = [r EXCEPT !.place = p, !.rev = r.rev + 1, !.text = r.text]
      BY <1>3 DEF Relocated, Recorded
  <2>2. r.rev + 1 \in Revision BY <2>1 DEF CatalogRow, Revision
  <2>3. Relocated(r, p) \in CatalogRow BY <2>1, <2>2 DEF CatalogRow
  <2> QED BY <1>3, <2>1, <2>3, Missing DEF CatalogRow
<1> QED BY <1>1, <1>2, <1>3

LEMMA RelocateDoes ==
  ASSUME Base, Relocate
  PROVE  /\ Base' /\ Moving /\ FromPoint("relocate", "apply") /\ ToPoint("moved") /\ call'.saw = call.saw
         /\ InNew(call.note) /\ Relocatable /\ E \in ManifestEntry
         /\ cat'[call.note] = Relocated(cat[call.note], "new")
         /\ \A n \in Notes \ {call.note} : cat'[n] = cat[n]
         /\ UNCHANGED <<tool, file, seals, journal, mem, backup, snapshot, touched, left, torn>>
<1>1. FromPoint("relocate", "apply") /\ MigrationTypeOK /\ InPlace /\ Moving /\ InOld(Owner)
    BY AtFrom DEF Relocate, AtMove, Base, InPlace
<1>2. call.note \in Entries /\ call.note \in Notes BY <1>1, Calls DEF FromPoint, NoNote
<1>3. E \in ManifestEntry BY <1>1, <1>2, EntryTyped DEF FromPoint
<1>4. InNew(call.note) /\ Relocatable BY <1>1 DEF InPlace, FromPoint, Running, Relocate
<1> DEFINE r == Relocated(cat[call.note], "new")
<1>5. r \in CatalogRow \union {missing} BY <1>1, <1>2, FileAt, RowFollows DEF Places
<1>6. cat' = [cat EXCEPT ![call.note] = r] BY DEF Relocate
<1> HIDE DEF r
<1>7. /\ cat' \in [Notes -> CatalogRow \union {missing}] /\ cat'[call.note] = r
      /\ \A n \in Notes \ {call.note} : cat'[n] = cat[n]
    BY <1>1, <1>2, <1>5, <1>6 DEF MigrationTypeOK
<1>8. call' \in CallRecord /\ ToPoint("moved") /\ call'.saw = call.saw
    BY <1>1, Onwards DEF Relocate, CallPoint, ToPoint
<1>9. UNCHANGED <<tool, file, seals, journal, mem, backup, snapshot, touched, left, torn>>
    BY DEF Relocate, copies, history
<1>10. MigrationTypeOK' BY <1>1, <1>7, <1>8, <1>9 DEF MigrationTypeOK
<1>11. InOld(Owner)' /\ InNew(call.note)' BY <1>1, <1>4, <1>8, <1>9 DEF InOld, InNew, ToPoint
<1>12. InPlace' BY <1>1, <1>8, <1>9, <1>11, InRoute DEF FromPoint, ToPoint, NoNote, Base
<1> QED BY <1>1, <1>3, <1>4, <1>7, <1>8, <1>9, <1>10, <1>12 DEF Base, r

LEMMA RelocateRefusedDoes ==
  ASSUME Base, RelocateRefused
  PROVE  /\ Base' /\ Moving /\ FromPoint("relocate", "apply") /\ Closed /\ InNew(call.note) /\ Brought(call.note)
         /\ \A m \in Notes \ {call.note} : (InOld(m) <=> InOld(m)') /\ (InNew(m) <=> InNew(m)')
         /\ E \in ManifestEntry /\ journal'.status = mem.status /\ journal'.change = mem.change
         /\ journal'.entry[call.note] = [E EXCEPT !.phase = "planned", !.skipped = TRUE]
         /\ \A n \in Entries \ {call.note} : journal'.entry[n] = mem.entry[n]
         /\ UNCHANGED <<tool, cat, seals, backup, snapshot, touched, left, torn>>
<1>1. FromPoint("relocate", "apply") /\ MigrationTypeOK /\ InPlace /\ Moving /\ InOld(Owner)
    BY AtFrom DEF RelocateRefused, AtMove, Base, InPlace
<1>2. call.note \in Entries BY <1>1 DEF FromPoint, NoNote
<1>3. E \in ManifestEntry BY <1>1, <1>2, EntryTyped DEF FromPoint
<1>4. InNew(call.note) BY <1>1 DEF InPlace, FromPoint, Running
<1> DEFINE e == [E EXCEPT !.phase = "planned", !.skipped = TRUE]
<1>5. e \in ManifestEntry BY <1>3, Refused
<1>6. journal' = Annotated(e) /\ MoveFile(call.note, "new", "old") BY DEF RelocateRefused
<1> HIDE DEF e
<1>7. /\ journal' \in Manifest /\ journal'.status = mem.status /\ journal'.change = mem.change
      /\ journal'.entry[call.note] = e /\ \A n \in Entries \ {call.note} : journal'.entry[n] = mem.entry[n]
    BY <1>1, <1>2, <1>5, <1>6, EntryIn DEF FromPoint
<1>8. /\ file' \in [Notes -> [Places -> Text \union {missing}]] /\ Brought(call.note) /\ InOld(Owner)'
      /\ \A m \in Notes \ {call.note} : (InOld(m) <=> InOld(m)') /\ (InNew(m) <=> InNew(m)')
  <2>1. \A n \in Entries : InNew(n) /\ MoveFile(n, "new", "old") =>
           /\ file' \in [Notes -> [Places -> Text \union {missing}]] /\ Brought(n) /\ InOld(Owner)'
           /\ \A m \in Notes \ {n} : (InOld(m) <=> InOld(m)') /\ (InNew(m) <=> InNew(m)')
      BY Brings
  <2> QED BY <1>2, <1>4, <1>6, <2>1
<1>9. Closed /\ call' \in CallRecord BY Returns DEF RelocateRefused, Closed
<1>10. UNCHANGED <<tool, cat, seals, backup, snapshot, touched, left, torn>>
    BY DEF RelocateRefused, rows, copies, history
<1>11. MigrationTypeOK' BY <1>1, <1>7, <1>8, <1>9, <1>10 DEF MigrationTypeOK, Closed
<1>12. InPlace' BY <1>1, <1>8, <1>10, Ended DEF RelocateRefused
<1> QED BY <1>1, <1>3, <1>4, <1>7, <1>8, <1>9, <1>10, <1>11, <1>12 DEF Base, e

LEMMA JournalMovedDoes ==
  ASSUME Base, JournalMoved
  PROVE  /\ Base' /\ Moving /\ FromPoint("moved", "apply") /\ InNew(call.note)
         /\ call'.pc = "next" /\ call'.op = "apply" /\ call'.todo = call.todo /\ call'.note = call.note
         /\ call'.moved = call.moved \union {call.note}
         /\ E \in ManifestEntry /\ journal' = mem'
         /\ Becomes(IF tool = "sumarios"
                    THEN [E EXCEPT !.phase = "identity_committed", !.applied = TRUE, !.post = F.new]
                    ELSE [E EXCEPT !.phase = "completed", !.applied = TRUE])
         /\ F.new \in Text
         /\ UNCHANGED <<tool, file, cat, seals, backup, snapshot, touched, left, torn>>
<1>1. FromPoint("moved", "apply") /\ MigrationTypeOK /\ InPlace /\ Moving /\ InOld(Owner)
    BY AtFrom DEF JournalMoved, AtMove, Base, InPlace
<1>2. call.note \in Entries /\ call.note \in Notes BY <1>1, Calls DEF FromPoint, NoNote
<1>3. E \in ManifestEntry BY <1>1, <1>2, EntryTyped DEF FromPoint
<1>4. InNew(call.note) BY <1>1 DEF InPlace, FromPoint, Running
<1>5. F.new \in Text BY <1>1, <1>2, <1>4, FileAt DEF InNew, F
<1> DEFINE f == IF tool = "sumarios"
                THEN [E EXCEPT !.phase = "identity_committed", !.applied = TRUE, !.post = F.new]
                ELSE [E EXCEPT !.phase = "completed", !.applied = TRUE]
<1>6. f \in ManifestEntry
  <2>1. "identity_committed" \in Phase /\ "completed" \in Phase BY DEF Phase
  <2>2. [E EXCEPT !.phase = "identity_committed", !.applied = TRUE, !.post = F.new] \in ManifestEntry
      BY <1>3, <1>5, <2>1, DoneAs
  <2>3. [E EXCEPT !.phase = "completed", !.applied = TRUE] \in ManifestEntry BY <1>3, <2>1, Done1
  <2> QED BY <2>2, <2>3
<1>7. Noted(f) BY DEF JournalMoved
<1> HIDE DEF f
<1>8. mem' \in Manifest /\ Becomes(f) BY <1>1, <1>2, <1>6, <1>7, EntryNoted DEF FromPoint, Becomes
<1>9. /\ call' \in CallRecord /\ call'.pc = "next" /\ call'.op = "apply" /\ call'.todo = call.todo
      /\ call'.note = call.note /\ call'.moved = call.moved \union {call.note}
  <2>1. call' = [call EXCEPT !.pc = "next", !.moved = call.moved \union {call.note}] BY DEF JournalMoved
  <2>2. call.moved \union {call.note} \in SUBSET Entries BY <1>1, <1>2, Calls
  <2> HIDE DEF FromPoint
  <2>3. call \in CallRecord /\ call.op = "apply" BY <1>1, Calls DEF FromPoint
  <2> QED BY <2>1, <2>2, <2>3 DEF CallRecord, CallPoint
<1>10. UNCHANGED <<tool, file, cat, seals, backup, snapshot, touched, left, torn>> /\ journal' = mem'
    BY DEF JournalMoved, rows, copies, history, Persist
<1>11. MigrationTypeOK' BY <1>1, <1>8, <1>9, <1>10 DEF MigrationTypeOK
<1>12. InOld(Owner)' BY <1>1, <1>10 DEF InOld
<1>13. InPlace' BY <1>1, <1>8, <1>9, <1>10, <1>12, InRoute DEF FromPoint, Becomes, NoNote, Base
<1> QED BY <1>1, <1>3, <1>4, <1>5, <1>8, <1>9, <1>10, <1>11, <1>13 DEF Base, f

\* The note that links is read with its row, and written over.
LEMMA ReadsOwner ==
  ASSUME Base, NEW p \in CallPoint, ReadOwner(p)
  PROVE  /\ call' \in CallRecord /\ ToPoint(p) /\ file[Owner].old \in Text
         /\ call'.saw = file[Owner].old /\ call'.row = cat[Owner]
<1>1. file[Owner].old \in Text /\ cat[Owner] \in CatalogRow \union {missing}
    BY NotesThere, FileAt DEF InOld, Base, InPlace
<1>2. call \in CallRecord BY Calls DEF Base
<1>3. call' = [call EXCEPT !.pc = p, !.saw = file[Owner].old, !.row = cat[Owner]] BY DEF ReadOwner
<1> QED BY <1>1, <1>2, <1>3 DEF CallRecord, ToPoint

LEMMA OwnerWritten ==
  ASSUME Base, NEW seen, NEW x \in Text, Overwrite(Owner, seen, x)
  PROVE  /\ file' \in [Notes -> [Places -> Text \union {missing}]] /\ FileBecomes(Owner, x)
         /\ LeftAs(Owner, seen, x) /\ left' \in [Notes -> Bodies] /\ InOld(Owner)'
         /\ \A m \in Notes : (InOld(m) <=> InOld(m)') /\ (InNew(m) <=> InNew(m)')
<1>1. InOld(Owner) BY DEF Base, InPlace
<1>2. SetFile(Owner, "old", x) /\ LeftAs(Owner, seen, x) /\ left' \in [Notes -> Bodies]
    BY NotesThere, WritesOver
<1>3. /\ file' \in [Notes -> [Places -> Text \union {missing}]] /\ FileBecomes(Owner, x)
      /\ \A m \in Notes : InOld(m) => InOld(m)'
    BY <1>1, <1>2, NotesThere, WritesInPlace
<1>4. InOld(Owner)' /\ \A m \in Notes \ {Owner} : file'[m] = file[m] BY <1>1, <1>3, NotesThere DEF FileBecomes
<1> QED BY <1>1, <1>2, <1>3, <1>4 DEF InOld, InNew

LEMMA ReadLinksDoes ==
  ASSUME Base, ReadLinks
  PROVE  /\ Base' /\ Moving /\ tool = "sumarios" /\ FromPoint("next", "apply") /\ ToPoint("relink")
         /\ call.todo = {} /\ Linked /\ RowAgrees(Owner) /\ file[Owner].old \in Text
         /\ call'.saw = file[Owner].old /\ call'.row = cat[Owner]
         /\ UNCHANGED <<tool, file, cat, seals, journal, mem, backup, snapshot, touched, left, torn>>
<1>1. FromPoint("next", "apply") /\ MigrationTypeOK /\ InPlace /\ InOld(Owner) /\ call.todo = {}
    BY AtFrom DEF ReadLinks, Linked, Drained, Base, InPlace
<1>2. Moving /\ tool = "sumarios" /\ Linked /\ RowAgrees(Owner) BY DEF ReadLinks, Linked, Moving
<1>3. /\ call' \in CallRecord /\ ToPoint("relink") /\ file[Owner].old \in Text
      /\ call'.saw = file[Owner].old /\ call'.row = cat[Owner]
    BY ReadsOwner DEF ReadLinks, CallPoint
<1>4. UNCHANGED <<tool, file, cat, seals, journal, mem, backup, snapshot, touched, left, torn>>
    BY DEF ReadLinks, rows, copies, history
<1>5. MigrationTypeOK' BY <1>1, <1>3, <1>4 DEF MigrationTypeOK
<1>6. Target \in Entries BY <1>1, <1>2, Calls DEF Linked
<1>7. InOld(Owner)' BY <1>1, <1>4 DEF InOld
<1>8. InPlace' BY <1>1, <1>2, <1>3, <1>4, <1>6, <1>7, InRoute, Missing DEF FromPoint, ToPoint, NoNote, Base
<1> QED BY <1>1, <1>2, <1>3, <1>4, <1>5, <1>8 DEF Base

LEMMA RewriteLinksDoes ==
  ASSUME Base, RewriteLinks
  PROVE  /\ Base' /\ Moving /\ FromPoint("relink", "apply") /\ ToPoint("link")
         /\ call.saw \in Text /\ call'.saw = call.saw /\ call'.row = call.row
         /\ FileBecomes(Owner, [call.saw EXCEPT !.link = "new"])
         /\ LeftAs(Owner, call.saw, [call.saw EXCEPT !.link = "new"])
         /\ \A m \in Notes : (InOld(m) <=> InOld(m)') /\ (InNew(m) <=> InNew(m)')
         /\ UNCHANGED <<tool, cat, seals, journal, mem, backup, snapshot, touched, torn>>
<1>1. FromPoint("relink", "apply") /\ MigrationTypeOK /\ InPlace /\ Moving
    BY AtFrom DEF RewriteLinks, AtMove, Base
<1>2. call.saw \in Text /\ call.saw # missing /\ Target \in Entries
    BY <1>1, Calls DEF InPlace, FromPoint, Seeing
<1> DEFINE x == [call.saw EXCEPT !.link = "new"]
<1>3. x \in Text BY <1>2 DEF Text, Places
<1>4. Overwrite(Owner, call.saw, x) BY DEF RewriteLinks
<1> HIDE DEF x
<1>5. /\ file' \in [Notes -> [Places -> Text \union {missing}]] /\ FileBecomes(Owner, x)
      /\ LeftAs(Owner, call.saw, x) /\ left' \in [Notes -> Bodies] /\ InOld(Owner)'
      /\ \A m \in Notes : (InOld(m) <=> InOld(m)') /\ (InNew(m) <=> InNew(m)')
    BY <1>3, <1>4, OwnerWritten
<1>6. call' \in CallRecord /\ ToPoint("link") /\ call'.saw = call.saw /\ call'.row = call.row
    BY <1>1, Onwards DEF RewriteLinks, CallPoint, ToPoint
<1>7. UNCHANGED <<tool, cat, seals, journal, mem, backup, snapshot, touched, torn>>
    BY DEF RewriteLinks, rows, copies
<1>8. MigrationTypeOK' BY <1>1, <1>5, <1>6, <1>7 DEF MigrationTypeOK
<1>9. InPlace' BY <1>1, <1>2, <1>5, <1>6, <1>7, InRoute DEF FromPoint, ToPoint, NoNote, Base
<1> QED BY <1>1, <1>2, <1>5, <1>6, <1>7, <1>8, <1>9 DEF Base, x

LEMMA LinksConflictDoes ==
  ASSUME Base, LinksConflict
  PROVE  /\ Base' /\ Moving /\ FromPoint("link", "apply") /\ Closed
         /\ call.saw \in Text /\ cat[Owner] # call.row /\ FileBecomes(Owner, call.saw)
         /\ LeftAs(Owner, [call.saw EXCEPT !.link = "new"], call.saw)
         /\ \A m \in Notes : (InOld(m) <=> InOld(m)') /\ (InNew(m) <=> InNew(m)')
         /\ UNCHANGED <<tool, cat, seals, journal, backup, snapshot, touched, torn>>
<1>1. FromPoint("link", "apply") /\ MigrationTypeOK /\ InPlace /\ Moving /\ cat[Owner] # call.row
    BY AtFrom DEF LinksConflict, AtMove, Base
<1>2. call.saw \in Text BY <1>1, Calls DEF InPlace, FromPoint, Seeing
<1>3. /\ file' \in [Notes -> [Places -> Text \union {missing}]] /\ FileBecomes(Owner, call.saw)
      /\ LeftAs(Owner, [call.saw EXCEPT !.link = "new"], call.saw)
      /\ left' \in [Notes -> Bodies] /\ InOld(Owner)'
      /\ \A m \in Notes : (InOld(m) <=> InOld(m)') /\ (InNew(m) <=> InNew(m)')
    BY <1>2, OwnerWritten DEF LinksConflict
<1>4. Closed /\ call' \in CallRecord BY Returns DEF LinksConflict, Closed
<1>5. UNCHANGED <<tool, cat, seals, journal, backup, snapshot, touched, torn>>
    BY DEF LinksConflict, rows, copies
<1>6. MigrationTypeOK' BY <1>1, <1>3, <1>4, <1>5 DEF MigrationTypeOK, Closed
<1>7. InPlace' BY <1>1, <1>3, <1>5, Ended DEF LinksConflict
<1> QED BY <1>1, <1>2, <1>3, <1>4, <1>5, <1>6, <1>7 DEF Base

LEMMA RefuseLinksDoes ==
  ASSUME Base, RefuseLinks
  PROVE  /\ Base' /\ Moving /\ tool = "sumarios" /\ FromPoint("next", "apply") /\ Closed /\ ~RowAgrees(Owner)
         /\ UNCHANGED <<tool, file, cat, seals, journal, backup, snapshot, touched, left, torn>>
<1>1. FromPoint("next", "apply") /\ MigrationTypeOK /\ InPlace /\ InOld(Owner)
    BY AtFrom DEF RefuseLinks, Linked, Drained, Base, InPlace
<1>2. Moving /\ tool = "sumarios" /\ ~RowAgrees(Owner) BY DEF RefuseLinks, Linked, Moving
<1>3. Closed /\ call' \in CallRecord BY Returns DEF RefuseLinks, Closed
<1>4. UNCHANGED <<tool, file, cat, seals, journal, backup, snapshot, touched, left, torn>>
    BY DEF RefuseLinks, rows, copies, history
<1>5. MigrationTypeOK' BY <1>1, <1>3, <1>4 DEF MigrationTypeOK, Closed
<1>6. InPlace' BY <1>1, <1>2, <1>4, Ended DEF RefuseLinks, InOld
<1> QED BY <1>1, <1>2, <1>3, <1>4, <1>5, <1>6 DEF Base

\* The row of the note that links.
RowRewritten(x) ==
    /\ cat'[Owner] = IF cat[Owner] = missing THEN missing ELSE Recorded(cat[Owner], cat[Owner].place, x)
    /\ cat'[Owner] # missing => cat'[Owner].text = x
    /\ cat[Owner] = missing <=> cat'[Owner] = missing
    /\ \A n \in Notes \ {Owner} : cat'[n] = cat[n]

LEMMA RecordsLinks ==
  ASSUME Base, NEW p \in {"link", "unlink"}, NEW x \in Text, NEW q \in {"linked", "finish"},
         RecordLinks(p, x, q), q = "linked" => p = "link"
  PROVE  /\ Base' /\ Moving /\ FromPoint(p, call.op) /\ ToPoint(q) /\ call'.saw = call.saw /\ RowRewritten(x)
         /\ UNCHANGED <<tool, file, seals, journal, mem, backup, snapshot, touched, left, torn>>
<1>1. FromPoint(p, call.op) /\ MigrationTypeOK /\ InPlace /\ Moving /\ InOld(Owner)
    BY AtFrom DEF RecordLinks, AtMove, Base, InPlace
<1> DEFINE r == IF cat[Owner] = missing THEN missing ELSE Recorded(cat[Owner], cat[Owner].place, x)
<1>2. r \in CatalogRow \union {missing} /\ (r # missing => r.text = x) /\ (cat[Owner] = missing <=> r = missing)
  <2>1. CASE cat[Owner] = missing BY <2>1
  <2>2. CASE cat[Owner] # missing
    <3> DEFINE c == cat[Owner]
    <3>1. c \in CatalogRow BY <1>1, <2>2, NotesThere, FileAt
    <3>2. r = [c EXCEPT !.place = c.place, !.rev = c.rev + 1, !.text = x] BY <2>2 DEF Recorded
    <3> HIDE DEF c, r
    <3>3. c.rev + 1 \in Revision BY <3>1 DEF CatalogRow, Revision
    <3>4. r \in CatalogRow /\ r.text = x BY <3>1, <3>2, <3>3 DEF CatalogRow
    <3> QED BY <2>2, <3>4, Missing
  <2> QED BY <2>1, <2>2
<1>3. /\ cat' \in [Notes -> CatalogRow \union {missing}] /\ cat'[Owner] = r
      /\ \A n \in Notes \ {Owner} : cat'[n] = cat[n]
  <2>1. cat' = IF cat[Owner] = missing THEN cat ELSE [cat EXCEPT ![Owner] = r] BY DEF RecordLinks
  <2>2. cat[Owner] = missing => r = missing OBVIOUS
  <2> HIDE DEF r
  <2> QED BY <1>1, <1>2, <2>1, <2>2, NotesThere DEF MigrationTypeOK
<1>4. call' \in CallRecord /\ ToPoint(q) /\ call'.saw = call.saw
    BY <1>1, Onwards DEF RecordLinks, ToPoint, CallPoint
<1>5. UNCHANGED <<tool, file, seals, journal, mem, backup, snapshot, touched, left, torn>>
    BY DEF RecordLinks, copies, history
<1>6. MigrationTypeOK' BY <1>1, <1>3, <1>4, <1>5 DEF MigrationTypeOK
<1>7. InOld(Owner)' BY <1>1, <1>5 DEF InOld
<1>8. call'.pc \in {"relink", "link", "linked"} => call'.saw # missing /\ Target \in Entries
    BY <1>1, <1>4 DEF InPlace, FromPoint, ToPoint, Seeing
<1>9. InPlace' BY <1>1, <1>4, <1>5, <1>7, <1>8, InRoute DEF FromPoint, ToPoint, NoNote, Base
<1> QED BY <1>1, <1>2, <1>3, <1>4, <1>5, <1>6, <1>9 DEF Base, RowRewritten

LEMMA CommitLinksDoes ==
  ASSUME Base, CommitLinks
  PROVE  /\ Base' /\ Moving /\ FromPoint("link", call.op) /\ ToPoint("linked") /\ call'.saw = call.saw
         /\ call.saw \in Text /\ [call.saw EXCEPT !.link = "new"] \in Text
         /\ RowRewritten([call.saw EXCEPT !.link = "new"])
         /\ UNCHANGED <<tool, file, seals, journal, mem, backup, snapshot, touched, left, torn>>
<1>1. AtPoint("link") /\ RecordLinks("link", [call.saw EXCEPT !.link = "new"], "linked") BY DEF CommitLinks
<1>2. call.saw \in Text BY <1>1, Calls DEF Base, InPlace, AtPoint, Seeing
<1> DEFINE x == [call.saw EXCEPT !.link = "new"]
<1>3. x \in Text BY <1>2 DEF Text, Places
<1>4. RecordLinks("link", x, "linked") BY <1>1
<1> HIDE DEF x
<1> QED BY <1>2, <1>3, <1>4, RecordsLinks DEF x

LEMMA JournalLinksDoes ==
  ASSUME Base, JournalLinks
  PROVE  /\ Base' /\ Moving /\ FromPoint("linked", "apply") /\ ToPoint("next") /\ call.saw \in Text
         /\ mem' # missing /\ journal' = mem' /\ mem'.status = mem.status /\ mem'.entry = mem.entry
         /\ mem'.change # missing /\ mem'.change.pre = call.saw /\ mem'.change.targets = {Target}
         /\ mem'.change.post = [call.saw EXCEPT !.link = "new"]
         /\ UNCHANGED <<tool, file, cat, seals, backup, snapshot, touched, left, torn>>
<1>1. FromPoint("linked", "apply") /\ MigrationTypeOK /\ InPlace /\ Moving /\ InOld(Owner)
    BY AtFrom DEF JournalLinks, AtMove, Base, InPlace
<1>2. call.saw \in Text BY <1>1, Calls DEF FromPoint, InPlace, Seeing
<1> DEFINE x == [call.saw EXCEPT !.link = "new"]
<1>3. x \in Text BY <1>2 DEF Text, Places
<1> HIDE DEF x
<1> DEFINE c == [pre |-> call.saw, targets |-> {Target}, post |-> x]
<1>4. c \in Change /\ c.pre = call.saw /\ c.targets = {Target} /\ c.post = x
  <2>1. Target \in Entries BY <1>1 DEF FromPoint, InPlace
  <2> QED BY <1>2, <1>3, <2>1 DEF Change
<1>5. mem' = [mem EXCEPT !.change = c] /\ journal' = mem' BY DEF JournalLinks, Persist, x
<1> HIDE DEF c
<1>6. mem \in Manifest BY <1>1, Listings DEF FromPoint
<1>7. mem' \in Manifest /\ mem'.status = mem.status /\ mem'.entry = mem.entry /\ mem'.change = c
    BY <1>4, <1>5, <1>6 DEF Manifest
<1>8. mem' # missing /\ mem'.change # missing BY <1>4, <1>7, Missing
<1>9. call' \in CallRecord /\ ToPoint("next") /\ call'.saw = call.saw
    BY <1>1, Onwards DEF JournalLinks, ToPoint, CallPoint
<1>10. UNCHANGED <<tool, file, cat, seals, backup, snapshot, touched, left, torn>>
    BY DEF JournalLinks, rows, copies, history
<1>11. MigrationTypeOK' BY <1>1, <1>5, <1>7, <1>9, <1>10 DEF MigrationTypeOK
<1>12. InOld(Owner)' BY <1>1, <1>10 DEF InOld
<1>13. InPlace' BY <1>1, <1>8, <1>9, <1>10, <1>12, InRoute DEF FromPoint, ToPoint, NoNote, Base
<1> QED BY <1>1, <1>2, <1>4, <1>5, <1>7, <1>8, <1>9, <1>10, <1>11, <1>13 DEF Base, x

LEMMA FinishMovesDoes ==
  ASSUME Base, FinishMoves
  PROVE  /\ Base' /\ Moving /\ FromPoint("next", "apply") /\ call.todo = {} /\ ~Linked /\ Closed
         /\ journal'.status = "completed" /\ journal'.change = mem.change
         /\ \A n \in Entries : journal'.entry[n] =
              IF n \in call.moved THEN [mem.entry[n] EXCEPT !.phase = "completed"] ELSE mem.entry[n]
         /\ UNCHANGED <<tool, file, cat, seals, backup, snapshot, touched, left, torn>>
<1>1. FromPoint("next", "apply") /\ MigrationTypeOK /\ InPlace /\ Moving /\ InOld(Owner) /\ call.todo = {}
    BY AtFrom DEF FinishMoves, Drained, Base, InPlace
<1>2. mem \in Manifest /\ mem.entry \in [Entries -> ManifestEntry] BY <1>1, Listings DEF FromPoint
<1> DEFINE f == [n \in Entries |-> IF n \in call.moved
                                   THEN [mem.entry[n] EXCEPT !.phase = "completed"] ELSE mem.entry[n]]
<1>3. f \in [Entries -> ManifestEntry]
      /\ \A n \in Entries : f[n] =
           IF n \in call.moved THEN [mem.entry[n] EXCEPT !.phase = "completed"] ELSE mem.entry[n]
  <2>1. \A n \in Entries : [mem.entry[n] EXCEPT !.phase = "completed"] \in ManifestEntry
      BY <1>2, WithPhase DEF Phase
  <2> QED BY <1>2, <2>1
<1>4. journal' = [mem EXCEPT !.status = "completed", !.entry = f] BY <1>2 DEF FinishMoves, Manifest
<1> HIDE DEF f
<1>5. /\ journal' \in Manifest /\ journal'.status = "completed" /\ journal'.change = mem.change
      /\ journal'.entry = f
    BY <1>2, <1>3, <1>4 DEF Manifest
<1>6. Closed /\ call' \in CallRecord BY Returns DEF FinishMoves, Closed
<1>7. UNCHANGED <<tool, file, cat, seals, backup, snapshot, touched, left, torn>>
    BY DEF FinishMoves, rows, copies, history
<1>8. MigrationTypeOK' BY <1>1, <1>5, <1>6, <1>7 DEF MigrationTypeOK, Closed
<1>9. InPlace' BY <1>1, <1>7, Ended DEF FinishMoves, InOld
<1>10. ~Linked BY DEF FinishMoves
<1> QED BY <1>1, <1>3, <1>5, <1>6, <1>7, <1>8, <1>9, <1>10 DEF Base

LEMMA RollbackMovesDoes ==
  ASSUME Base, RollbackMoves
  PROVE  /\ Base' /\ Moving /\ call.op = "idle" /\ mem = missing
         /\ tool = "sumarios" => journal.status \in {"approved", "completed"}
         /\ call'.op = "rollback" /\ call'.pc = "next" /\ call'.todo = {n \in Entries : journal.entry[n].applied}
         /\ call'.note = Owner /\ call'.moved = {} /\ mem' # missing /\ mem' = journal
         /\ UNCHANGED <<tool, file, cat, seals, journal, backup, snapshot, touched, left, torn>>
<1>1. MigrationTypeOK /\ InPlace /\ journal \in Manifest BY DEF Base, MigrationTypeOK
<1> DEFINE s == {n \in Entries : journal.entry[n].applied}
<1>2. s \in SUBSET Entries OBVIOUS
<1>3. BeginCall("rollback", journal, s) /\ Moving /\ (tool = "sumarios" => journal.status \in {"approved", "completed"}) BY DEF RollbackMoves
<1> HIDE DEF s
<1>4. /\ call.op = "idle" /\ call' \in CallRecord /\ call'.op = "rollback" /\ call'.pc = "next" /\ call'.todo = s
      /\ call'.note = Owner /\ call'.moved = {} /\ mem' = journal /\ mem' # missing
    BY <1>1, <1>2, <1>3, Begins
<1>5. UNCHANGED <<tool, file, cat, seals, journal, backup, snapshot, touched, left, torn>>
    BY DEF RollbackMoves, rows, copies, history
<1>6. MigrationTypeOK' BY <1>1, <1>4, <1>5 DEF MigrationTypeOK
<1>7. InPlace' BY <1>4, <1>5, Begun
<1>8. mem = missing BY <1>1, <1>4 DEF InPlace
<1> QED BY <1>3, <1>4, <1>5, <1>6, <1>7, <1>8 DEF Base, s

LEMMA CheckUndoDoes ==
  ASSUME Base, tool = "sumarios" => Post, CheckUndo
  PROVE  /\ Base' /\ Moving /\ FromPoint("entry", "rollback") /\ ToPoint("rename") /\ call'.saw = call.saw
         /\ E \in ManifestEntry /\ Returnable /\ InNew(call.note)
         /\ UNCHANGED <<tool, file, cat, seals, journal, mem, backup, snapshot, touched, left, torn>>
<1>1. FromPoint("entry", "rollback") /\ MigrationTypeOK /\ InPlace /\ Moving /\ InOld(Owner)
    BY AtFrom DEF CheckUndo, AtMove, Base, InPlace
<1>2. call.note \in Entries BY <1>1 DEF FromPoint, NoNote
<1>3. E \in ManifestEntry BY <1>1, <1>2, EntryTyped DEF FromPoint
<1>4. Returnable /\ InNew(call.note)
  <2>1. Returnable BY DEF CheckUndo
  <2> QED BY <1>3, <2>1, EntryFields, Missing DEF Returnable, InNew, F, Post
<1>5. call' \in CallRecord /\ ToPoint("rename") /\ call'.saw = call.saw
    BY <1>1, Onwards DEF CheckUndo, CallPoint, ToPoint
<1>6. UNCHANGED <<tool, file, cat, seals, journal, mem, backup, snapshot, touched, left, torn>>
    BY DEF CheckUndo, rows, copies, history
<1>7. MigrationTypeOK' BY <1>1, <1>5, <1>6 DEF MigrationTypeOK
<1>8. InOld(Owner)' /\ InNew(call.note)' BY <1>1, <1>4, <1>5, <1>6 DEF InOld, InNew, ToPoint
<1>9. InPlace' BY <1>1, <1>5, <1>6, <1>8, InRoute DEF FromPoint, ToPoint, NoNote, Base
<1> QED BY <1>1, <1>3, <1>4, <1>5, <1>6, <1>7, <1>9 DEF Base

LEMMA UndoRenameDoes ==
  ASSUME Base, UndoRename
  PROVE  /\ Base' /\ Moving /\ FromPoint("rename", "rollback") /\ call'.saw = call.saw /\ ToPoint("relocate")
         /\ InNew(call.note) /\ Brought(call.note) /\ InOld(call.note)'
         /\ \A m \in Notes \ {call.note} : (InOld(m) <=> InOld(m)') /\ (InNew(m) <=> InNew(m)')
         /\ UNCHANGED <<tool, cat, seals, journal, mem, backup, snapshot, touched, left, torn>>
<1>1. FromPoint("rename", "rollback") /\ MigrationTypeOK /\ InPlace /\ Moving /\ InOld(Owner)
    BY AtFrom DEF UndoRename, AtMove, Base, InPlace
<1>2. call.note \in Entries BY <1>1 DEF FromPoint, NoNote
<1>3. InNew(call.note) BY <1>1 DEF InPlace, FromPoint, Running, AtPoint
<1>4. MoveFile(call.note, "new", "old") BY DEF UndoRename
<1>5. /\ file' \in [Notes -> [Places -> Text \union {missing}]] /\ Brought(call.note)
      /\ InOld(call.note)' /\ InOld(Owner)'
      /\ \A m \in Notes \ {call.note} : (InOld(m) <=> InOld(m)') /\ (InNew(m) <=> InNew(m)')
  <2>1. \A n \in Entries : InNew(n) /\ MoveFile(n, "new", "old") =>
           /\ file' \in [Notes -> [Places -> Text \union {missing}]] /\ Brought(n)
           /\ file'[n].old # missing /\ file'[n].new = missing /\ InOld(Owner)'
           /\ \A m \in Notes \ {n} : (InOld(m) <=> InOld(m)') /\ (InNew(m) <=> InNew(m)')
      BY Brings DEF InOld
  <2>2. call'.note = call.note BY <1>1, Onwards DEF UndoRename, CallPoint
  <2> QED BY <1>2, <1>3, <1>4, <2>1, <2>2 DEF InOld
<1>6. call' \in CallRecord /\ ToPoint("relocate") /\ call'.saw = call.saw
    BY <1>1, Onwards DEF UndoRename, CallPoint, ToPoint
<1>7. UNCHANGED <<tool, cat, seals, journal, mem, backup, snapshot, touched, left, torn>>
    BY DEF UndoRename, rows, copies, history
<1>8. MigrationTypeOK' BY <1>1, <1>5, <1>6, <1>7 DEF MigrationTypeOK
<1>9. InPlace' BY <1>1, <1>5, <1>6, <1>7, InRoute DEF FromPoint, ToPoint, NoNote, Base
<1> QED BY <1>1, <1>3, <1>5, <1>6, <1>7, <1>8, <1>9 DEF Base

LEMMA SkipUndoDoes ==
  ASSUME Base, SkipUndo
  PROVE  /\ Base' /\ Moving /\ FromPoint("entry", "rollback") /\ ToPoint("next") /\ ~Returnable
         /\ E \in ManifestEntry /\ Becomes([E EXCEPT !.skipped = TRUE])
         /\ UNCHANGED <<tool, file, cat, seals, journal, backup, snapshot, touched, left, torn>>
<1>1. FromPoint("entry", "rollback") /\ MigrationTypeOK /\ InPlace /\ Moving /\ InOld(Owner)
    BY AtFrom DEF SkipUndo, AtMove, Base, InPlace
<1>2. call.note \in Entries BY <1>1 DEF FromPoint, NoNote
<1>3. E \in ManifestEntry BY <1>1, <1>2, EntryTyped DEF FromPoint
<1> DEFINE f == [E EXCEPT !.skipped = TRUE]
<1>4. f \in ManifestEntry BY <1>3, WithSkipped
<1>5. Noted(f) /\ Onward("next") /\ ~Returnable BY DEF SkipUndo
<1> HIDE DEF f
<1>6. mem' \in Manifest /\ Becomes(f) BY <1>1, <1>2, <1>4, <1>5, EntryNoted DEF FromPoint, Becomes
<1>7. call' \in CallRecord /\ ToPoint("next") /\ call'.saw = call.saw
    BY <1>1, <1>5, Onwards DEF ToPoint, CallPoint
<1>8. UNCHANGED <<tool, file, cat, seals, journal, backup, snapshot, touched, left, torn>>
    BY DEF SkipUndo, rows, copies, history
<1>9. MigrationTypeOK' BY <1>1, <1>6, <1>7, <1>8 DEF MigrationTypeOK
<1>10. InOld(Owner)' BY <1>1, <1>8 DEF InOld
<1>11. InPlace' BY <1>1, <1>6, <1>7, <1>8, <1>10, InRoute DEF FromPoint, Becomes, ToPoint, NoNote, Base
<1> QED BY <1>1, <1>3, <1>5, <1>6, <1>7, <1>8, <1>9, <1>11 DEF Base, f

LEMMA UndoRelocateDoes ==
  ASSUME Base, UndoRelocate
  PROVE  /\ Base' /\ Moving /\ FromPoint("relocate", "rollback") /\ ToPoint("next") /\ InOld(call.note)
         /\ tool = "sumarios" => RowIs("new", E.post)
         /\ cat'[call.note] = IF cat[call.note] # missing /\ (tool = "sumarios" \/ cat[call.note].text = E.pre)
                              THEN Relocated(cat[call.note], "old") ELSE cat[call.note]
         /\ \A n \in Notes \ {call.note} : cat'[n] = cat[n]
         /\ E \in ManifestEntry
         /\ Becomes([E EXCEPT !.phase = "planned", !.applied = FALSE,
                              !.skipped = tool # "taxonomy" /\ E.skipped])
         /\ UNCHANGED <<tool, file, seals, journal, backup, snapshot, touched, left, torn>>
<1>1. FromPoint("relocate", "rollback") /\ MigrationTypeOK /\ InPlace /\ Moving /\ InOld(Owner)
    BY AtFrom DEF UndoRelocate, AtMove, Base, InPlace
<1>2. call.note \in Entries /\ call.note \in Notes BY <1>1, Calls DEF FromPoint, NoNote
<1>3. E \in ManifestEntry BY <1>1, <1>2, EntryTyped DEF FromPoint
<1>4. InOld(call.note) /\ (tool = "sumarios" => RowIs("new", E.post))
    BY <1>1 DEF InPlace, FromPoint, Running, AtPoint, UndoRelocate
<1> DEFINE f == [E EXCEPT !.phase = "planned", !.applied = FALSE, !.skipped = tool # "taxonomy" /\ E.skipped]
<1>5. f \in ManifestEntry
  <2>1. (tool # "taxonomy" /\ E.skipped) \in BOOLEAN /\ "planned" \in Phase BY DEF Phase
  <2> QED BY <1>3, <2>1, Undone
<1>6. Noted(f) /\ Onward("next") BY <1>3 DEF UndoRelocate, Returned, ManifestEntry
<1> HIDE DEF f
<1>7. mem' \in Manifest /\ Becomes(f) BY <1>1, <1>2, <1>5, <1>6, EntryNoted DEF FromPoint, Becomes
<1> DEFINE r == IF cat[call.note] # missing /\ (tool = "sumarios" \/ cat[call.note].text = E.pre)
                THEN Relocated(cat[call.note], "old") ELSE cat[call.note]
<1>8. r \in CatalogRow \union {missing} BY <1>1, <1>2, FileAt, RowFollows DEF Places
<1>9. /\ cat' \in [Notes -> CatalogRow \union {missing}] /\ cat'[call.note] = r
      /\ \A n \in Notes \ {call.note} : cat'[n] = cat[n]
  <2>1. cat' = [cat EXCEPT ![call.note] = r] \/ (cat' = cat /\ r = cat[call.note]) BY DEF UndoRelocate
  <2> HIDE DEF r
  <2> QED BY <1>1, <1>2, <1>8, <2>1 DEF MigrationTypeOK
<1>10. call' \in CallRecord /\ ToPoint("next") /\ call'.saw = call.saw
    BY <1>1, <1>6, Onwards DEF ToPoint, CallPoint
<1>11. UNCHANGED <<tool, file, seals, journal, backup, snapshot, touched, left, torn>>
    BY DEF UndoRelocate, copies, history
<1>12. MigrationTypeOK' BY <1>1, <1>7, <1>9, <1>10, <1>11 DEF MigrationTypeOK
<1>13. InOld(Owner)' BY <1>1, <1>11 DEF InOld
<1>14. InPlace' BY <1>1, <1>7, <1>10, <1>11, <1>13, InRoute DEF FromPoint, Becomes, ToPoint, NoNote, Base
<1> QED BY <1>1, <1>3, <1>4, <1>7, <1>9, <1>10, <1>11, <1>12, <1>14 DEF Base, f

LEMMA UndoRefusedDoes ==
  ASSUME Base, UndoRefused
  PROVE  /\ Base' /\ Moving /\ tool = "sumarios" /\ FromPoint("relocate", "rollback") /\ ToPoint("next")
         /\ InOld(call.note) /\ ~RowIs("new", E.post) /\ Carried(call.note) /\ InNew(call.note)'
         /\ \A m \in Notes \ {call.note} : (InOld(m) <=> InOld(m)') /\ (InNew(m) <=> InNew(m)')
         /\ E \in ManifestEntry /\ Becomes([E EXCEPT !.skipped = TRUE])
         /\ UNCHANGED <<tool, cat, seals, journal, backup, snapshot, touched, left, torn>>
<1>1. FromPoint("relocate", "rollback") /\ MigrationTypeOK /\ InPlace /\ Moving /\ InOld(Owner)
    BY AtFrom DEF UndoRefused, AtMove, Base, InPlace
<1>2. call.note \in Entries BY <1>1 DEF FromPoint, NoNote
<1>3. E \in ManifestEntry BY <1>1, <1>2, EntryTyped DEF FromPoint
<1>4. InOld(call.note) /\ tool = "sumarios" /\ ~RowIs("new", E.post)
    BY <1>1 DEF InPlace, FromPoint, Running, AtPoint, UndoRefused
<1> DEFINE f == [E EXCEPT !.skipped = TRUE]
<1>5. f \in ManifestEntry BY <1>3, WithSkipped
<1>6. Noted(f) /\ Onward("next") /\ MoveFile(call.note, "old", "new") BY DEF UndoRefused
<1> HIDE DEF f
<1>7. mem' \in Manifest /\ Becomes(f) BY <1>1, <1>2, <1>5, <1>6, EntryNoted DEF FromPoint, Becomes
<1>8. call' \in CallRecord /\ ToPoint("next") /\ call'.saw = call.saw
    BY <1>1, <1>6, Onwards DEF ToPoint, CallPoint
<1>9. /\ file' \in [Notes -> [Places -> Text \union {missing}]] /\ Carried(call.note)
      /\ InNew(call.note)' /\ InOld(Owner)'
      /\ \A m \in Notes \ {call.note} : (InOld(m) <=> InOld(m)') /\ (InNew(m) <=> InNew(m)')
  <2>1. \A n \in Entries : InOld(n) /\ MoveFile(n, "old", "new") =>
           /\ file' \in [Notes -> [Places -> Text \union {missing}]] /\ Carried(n)
           /\ file'[n].old = missing /\ file'[n].new # missing /\ InOld(Owner)'
           /\ \A m \in Notes \ {n} : (InOld(m) <=> InOld(m)') /\ (InNew(m) <=> InNew(m)')
      BY Carries DEF InNew
  <2>2. call'.note = call.note BY <1>8 DEF ToPoint
  <2> QED BY <1>2, <1>4, <1>6, <2>1, <2>2 DEF InNew
<1>10. UNCHANGED <<tool, cat, seals, journal, backup, snapshot, touched, left, torn>>
    BY DEF UndoRefused, rows, copies, history
<1>11. MigrationTypeOK' BY <1>1, <1>7, <1>8, <1>9, <1>10 DEF MigrationTypeOK
<1>12. InPlace' BY <1>1, <1>7, <1>8, <1>9, <1>10, InRoute DEF FromPoint, Becomes, ToPoint, NoNote, Base
<1> QED BY <1>1, <1>3, <1>4, <1>7, <1>8, <1>9, <1>10, <1>11, <1>12 DEF Base, f

LEMMA ReadUnlinkedDoes ==
  ASSUME Base, ReadUnlinked
  PROVE  /\ Base' /\ Moving /\ FromPoint("next", "rollback") /\ ToPoint("unrelink") /\ call.todo = {}
         /\ Unlinkable /\ call'.saw = file[Owner].old /\ call'.row = cat[Owner]
         /\ UNCHANGED <<tool, file, cat, seals, journal, mem, backup, snapshot, touched, left, torn>>
<1>1. FromPoint("next", "rollback") /\ MigrationTypeOK /\ InPlace /\ InOld(Owner) /\ call.todo = {} /\ Moving
    BY AtFrom DEF ReadUnlinked, Drained, Base, InPlace
<1>2. Unlinkable /\ mem.change # missing /\ file[Owner].old = mem.change.post BY DEF ReadUnlinked, Unlinkable
<1>3. /\ call' \in CallRecord /\ ToPoint("unrelink") /\ file[Owner].old \in Text
      /\ call'.saw = file[Owner].old /\ call'.row = cat[Owner]
    BY ReadsOwner DEF ReadUnlinked, CallPoint
<1>4. UNCHANGED <<tool, file, cat, seals, journal, mem, backup, snapshot, touched, left, torn>>
    BY DEF ReadUnlinked, rows, copies, history
<1>5. MigrationTypeOK' BY <1>1, <1>3, <1>4 DEF MigrationTypeOK
<1>6. InOld(Owner)' BY <1>1, <1>4 DEF InOld
<1>7. InPlace' BY <1>1, <1>2, <1>3, <1>4, <1>6, InRoute, Missing DEF FromPoint, ToPoint, NoNote, Base
<1> QED BY <1>1, <1>2, <1>3, <1>4, <1>5, <1>7 DEF Base

\* What the rollback of the links has in hand.
LEMMA InRollback ==
  ASSUME Base, call.pc \in {"unrelink", "unlink"}
  PROVE  /\ mem # missing /\ mem.change # missing /\ mem.change \in Change /\ mem.change.pre \in Text
         /\ call.saw \in Text /\ call.saw = mem.change.post
<1>1. mem.change # missing /\ call.saw = mem.change.post /\ call.saw # missing
    BY DEF Base, InPlace, Seeing
<1>2. mem # missing BY DEF Base, InPlace, NoCall
<1>3. mem.change \in Change BY <1>1, <1>2, Listings DEF Base
<1> QED BY <1>1, <1>2, <1>3, Calls DEF Change, Base

LEMMA UndoLinksDoes ==
  ASSUME Base, UndoLinks
  PROVE  /\ Base' /\ Moving /\ FromPoint("unrelink", "rollback") /\ ToPoint("unlink")
         /\ mem.change # missing /\ mem.change.pre \in Text /\ call'.saw = call.saw /\ call'.row = call.row
         /\ FileBecomes(Owner, mem.change.pre) /\ LeftAs(Owner, call.saw, mem.change.pre)
         /\ \A m \in Notes : (InOld(m) <=> InOld(m)') /\ (InNew(m) <=> InNew(m)')
         /\ UNCHANGED <<tool, cat, seals, journal, mem, backup, snapshot, touched, torn>>
<1>1. FromPoint("unrelink", "rollback") /\ MigrationTypeOK /\ InPlace /\ Moving
    BY AtFrom DEF UndoLinks, AtMove, Base
<1>2. /\ mem.change # missing /\ mem.change.pre \in Text /\ call.saw # missing
      /\ call.saw = mem.change.post
    BY <1>1, InRollback, Missing DEF FromPoint
<1>3. /\ file' \in [Notes -> [Places -> Text \union {missing}]] /\ FileBecomes(Owner, mem.change.pre)
      /\ LeftAs(Owner, call.saw, mem.change.pre) /\ left' \in [Notes -> Bodies] /\ InOld(Owner)'
      /\ \A m \in Notes : (InOld(m) <=> InOld(m)') /\ (InNew(m) <=> InNew(m)')
    BY <1>2, OwnerWritten DEF UndoLinks
<1>4. call' \in CallRecord /\ ToPoint("unlink") /\ call'.saw = call.saw /\ call'.row = call.row
    BY <1>1, Onwards DEF UndoLinks, CallPoint, ToPoint
<1>5. UNCHANGED <<tool, cat, seals, journal, mem, backup, snapshot, touched, torn>>
    BY DEF UndoLinks, rows, copies
<1>6. MigrationTypeOK' BY <1>1, <1>3, <1>4, <1>5 DEF MigrationTypeOK
<1>7. InPlace' BY <1>1, <1>2, <1>3, <1>4, <1>5, InRoute DEF FromPoint, ToPoint, NoNote, Base
<1> QED BY <1>1, <1>2, <1>3, <1>4, <1>5, <1>6, <1>7 DEF Base

LEMMA UnlinkConflictDoes ==
  ASSUME Base, UnlinkConflict
  PROVE  /\ Base' /\ Moving /\ FromPoint("unlink", "rollback") /\ ToPoint("finish")
         /\ file[Owner].old # mem.change.pre \/ cat[Owner] # call.row
         /\ mem.change # missing /\ call.saw \in Text /\ call.saw = mem.change.post
         /\ FileBecomes(Owner, call.saw) /\ LeftAs(Owner, mem.change.pre, call.saw)
         /\ \A m \in Notes : (InOld(m) <=> InOld(m)') /\ (InNew(m) <=> InNew(m)')
         /\ UNCHANGED <<tool, cat, seals, journal, mem, backup, snapshot, touched, torn>>
<1>1. FromPoint("unlink", "rollback") /\ MigrationTypeOK /\ InPlace /\ Moving
      /\ (file[Owner].old # mem.change.pre \/ cat[Owner] # call.row)
    BY AtFrom DEF UnlinkConflict, AtMove, Base
<1>2. mem.change # missing /\ call.saw \in Text /\ call.saw = mem.change.post
    BY <1>1, InRollback DEF FromPoint
<1>3. /\ file' \in [Notes -> [Places -> Text \union {missing}]] /\ FileBecomes(Owner, call.saw)
      /\ LeftAs(Owner, mem.change.pre, call.saw) /\ left' \in [Notes -> Bodies] /\ InOld(Owner)'
      /\ \A m \in Notes : (InOld(m) <=> InOld(m)') /\ (InNew(m) <=> InNew(m)')
    BY <1>2, OwnerWritten DEF UnlinkConflict
<1>4. call' \in CallRecord /\ ToPoint("finish")
    BY <1>1, Onwards DEF UnlinkConflict, CallPoint, ToPoint
<1>5. UNCHANGED <<tool, cat, seals, journal, mem, backup, snapshot, touched, torn>>
    BY DEF UnlinkConflict, rows, copies
<1>6. MigrationTypeOK' BY <1>1, <1>3, <1>4, <1>5 DEF MigrationTypeOK
<1>7. InPlace' BY <1>1, <1>3, <1>4, <1>5, InRoute DEF FromPoint, ToPoint, NoNote, Base
<1> QED BY <1>1, <1>2, <1>3, <1>4, <1>5, <1>6, <1>7 DEF Base

LEMMA CommitUnlinkedDoes ==
  ASSUME Base, CommitUnlinked
  PROVE  /\ Base' /\ Moving /\ FromPoint("unlink", call.op) /\ ToPoint("finish") /\ call'.saw = call.saw
         /\ mem.change # missing /\ mem.change.pre \in Text /\ RowRewritten(mem.change.pre)
         /\ file[Owner].old = mem.change.pre
         /\ UNCHANGED <<tool, file, seals, journal, mem, backup, snapshot, touched, left, torn>>
<1>1. /\ AtPoint("unlink") /\ RecordLinks("unlink", mem.change.pre, "finish")
      /\ file[Owner].old = mem.change.pre
    BY DEF CommitUnlinked
<1>2. mem.change # missing BY <1>1, InRollback DEF AtPoint
<1>3. mem.change.pre \in Text BY <1>1, InRollback DEF AtPoint
<1> DEFINE x == mem.change.pre
<1>5. x \in Text /\ RecordLinks("unlink", x, "finish") BY <1>1, <1>3
<1> HIDE DEF x
<1>6. /\ Base' /\ Moving /\ FromPoint("unlink", call.op) /\ ToPoint("finish") /\ call'.saw = call.saw /\ RowRewritten(x)
      /\ UNCHANGED <<tool, file, seals, journal, mem, backup, snapshot, touched, left, torn>>
    BY <1>5, RecordsLinks
<1> QED BY <1>1, <1>2, <1>3, <1>6 DEF x

LEMMA FinishReturnDoes ==
  ASSUME Base, FinishReturn
  PROVE  /\ Base' /\ Moving /\ call.op = "rollback" /\ mem # missing /\ Closed
         /\ (call.pc = "next" /\ call.todo = {} /\ ~Unlinkable) \/ call.pc = "finish"
         /\ journal'.entry = mem.entry /\ journal'.change = mem.change /\ journal'.status = "rolled_back"
         /\ UNCHANGED <<tool, file, cat, seals, backup, snapshot, touched, left, torn>>
<1>1. MigrationTypeOK /\ InPlace /\ InOld(Owner) /\ Moving /\ call.op = "rollback" /\ mem # missing
    BY DEF FinishReturn, Base, InPlace, Running
<1>2. (call.pc = "next" /\ call.todo = {} /\ ~Unlinkable) \/ call.pc = "finish"
    BY DEF FinishReturn, Drained, AtPoint
<1>3. mem \in Manifest BY <1>1, Listings
<1>4. /\ journal' \in Manifest /\ journal'.entry = mem.entry /\ journal'.change = mem.change
      /\ journal'.status = "rolled_back"
    BY <1>3, StatusKept DEF FinishReturn
<1>5. Closed /\ call' \in CallRecord BY Returns DEF FinishReturn, Closed
<1>6. UNCHANGED <<tool, file, cat, seals, backup, snapshot, touched, left, torn>>
    BY DEF FinishReturn, rows, copies, history
<1>7. MigrationTypeOK' BY <1>1, <1>4, <1>5, <1>6 DEF MigrationTypeOK, Closed
<1>8. InPlace' BY <1>1, <1>6, Ended DEF FinishReturn, InOld
<1> QED BY <1>1, <1>2, <1>4, <1>5, <1>6, <1>7, <1>8 DEF Base


LEMMA TakeEntryDoes ==
  ASSUME Base, TakeEntry
  PROVE  /\ Base' /\ call.op # "idle" /\ call.pc = "next" /\ mem # missing
         /\ call'.note \in call.todo /\ Turn(call'.note) /\ call'.todo = call.todo \ {call'.note}
         /\ call'.op = call.op /\ call'.pc = "entry" /\ call'.saw = call.saw /\ call'.moved = call.moved
         /\ UNCHANGED <<tool, file, cat, seals, journal, mem, backup, snapshot, touched, left, torn>>
<1>1. MigrationTypeOK /\ InPlace /\ call.op # "idle" /\ call.pc = "next" /\ mem # missing
    BY DEF TakeEntry, AtPoint, Base, InPlace
<1>2. PICK n \in call.todo : Turn(n) /\ call' = [call EXCEPT !.pc = "entry", !.note = n, !.todo = call.todo \ {n}]
    BY DEF TakeEntry
<1>3. n \in Entries /\ n \in Notes BY <1>1, Calls, NotesThere
<1>4. /\ call' \in CallRecord /\ call'.op = call.op /\ call'.pc = "entry" /\ call'.note = n
      /\ call'.todo = call.todo \ {n} /\ call'.saw = call.saw /\ call'.moved = call.moved
  <2>1. call \in CallRecord /\ call.todo \ {n} \in SUBSET Entries BY <1>1, Calls
  <2> QED BY <1>2, <1>3, <2>1 DEF CallRecord, CallPoint
<1>5. UNCHANGED <<tool, file, cat, seals, journal, mem, backup, snapshot, touched, left, torn>>
    BY DEF TakeEntry, rows, copies, history
<1>6. MigrationTypeOK' BY <1>1, <1>4, <1>5 DEF MigrationTypeOK
<1>7. InPlace' BY <1>1, <1>3, <1>4, <1>5 DEF InPlace, NoNote, Seeing, Moving, Running, AtPoint, InOld, InNew
<1> QED BY <1>1, <1>2, <1>4, <1>5, <1>6, <1>7 DEF Base

LEMMA CallDiesDoes ==
  ASSUME Base, CallDies
  PROVE  /\ Base' /\ call.op # "idle" /\ mem # missing /\ Closed
         /\ torn' = IF call.op = "rollback" THEN "rollback" ELSE IF torn = "no" THEN "apply" ELSE torn
         /\ UNCHANGED <<tool, file, cat, seals, journal, backup, snapshot, touched, left>>
<1>1. MigrationTypeOK /\ InPlace /\ call.op # "idle" /\ mem # missing BY DEF CallDies, Base, InPlace
<1>2. Closed /\ call' \in CallRecord BY Returns DEF CallDies, Closed
<1>3. UNCHANGED <<tool, file, cat, seals, journal, backup, snapshot, touched, left>>
    BY DEF CallDies, rows, copies
<1>4. torn' = IF call.op = "rollback" THEN "rollback" ELSE IF torn = "no" THEN "apply" ELSE torn
    BY DEF CallDies, Running
<1>5. MigrationTypeOK' BY <1>1, <1>2, <1>3, <1>4 DEF MigrationTypeOK, Closed
<1>6. InPlace' BY <1>1, <1>3, Ended DEF CallDies, InPlace, InOld
<1> QED BY <1>1, <1>2, <1>3, <1>4, <1>5, <1>6 DEF Base

\* A person leaves another body in a note.
Saved(n) ==
    /\ \E p \in Places : \E x \in Text :
         /\ file[n][p] # missing /\ x.form = file[n][p].form /\ x.link = file[n][p].link
         /\ file'[n][p] = x /\ (\A q \in Places \ {p} : file'[n][q] = file[n][q])
         /\ left'[n] = x.body
    /\ \A m \in Notes \ {n} : file'[m] = file[m] /\ cat'[m] = cat[m] /\ left'[m] = left[m]
    /\ cat'[n] = missing <=> cat[n] = missing
    /\ touched' = touched \union {n}
    /\ \A m \in Notes : (InOld(m) <=> InOld(m)') /\ (InNew(m) <=> InNew(m)')
    /\ UNCHANGED <<tool, seals, journal, mem, call, backup, snapshot, torn>>

LEMMA WorkSaves ==
  ASSUME Base, NEW n \in Notes, NEW p \in Places, NEW body \in Bodies, Work(n, body),
         file[n][p] # missing, SetFile(n, p, [file[n][p] EXCEPT !.body = body]),
         cat' \in [Notes -> CatalogRow \union {missing}],
         \A m \in Notes \ {n} : cat'[m] = cat[m], cat'[n] = missing <=> cat[n] = missing
  PROVE  Base' /\ Saved(n)
<1>1. MigrationTypeOK /\ InPlace BY DEF Base
<1>2. /\ touched' = touched \union {n}
      /\ left' = [left EXCEPT ![n] = body]
      /\ UNCHANGED <<tool, seals, journal, mem, call, backup, snapshot, torn>>
    BY DEF Work, copies
<1> DEFINE x == [file[n][p] EXCEPT !.body = body]
<1>3. file[n][p] \in Text BY <1>1 DEF MigrationTypeOK
<1>4. x \in Text /\ x.body = body /\ x.form = file[n][p].form /\ x.link = file[n][p].link
    BY <1>3 DEF Text
<1>5. SetFile(n, p, x) OBVIOUS
<1> HIDE DEF x
<1>6. /\ file' \in [Notes -> [Places -> Text \union {missing}]]
      /\ file'[n][p] = x /\ \A q \in Places \ {p} : file'[n][q] = file[n][q]
      /\ \A m \in Notes \ {n} : file'[m] = file[m]
    BY <1>1, <1>4, <1>5, Saves
<1>7. left' \in [Notes -> Bodies] /\ left'[n] = body /\ \A m \in Notes \ {n} : left'[m] = left[m]
    BY <1>1, <1>2 DEF MigrationTypeOK
<1>8. \A m \in Notes : (InOld(m) <=> InOld(m)') /\ (InNew(m) <=> InNew(m)')
  <2>1. ASSUME NEW m \in Notes PROVE (InOld(m) <=> InOld(m)') /\ (InNew(m) <=> InNew(m)')
    <3>1. CASE m = n /\ p = "old" BY <1>3, <1>4, <1>6, <3>1, NotesThere, Missing DEF InOld, InNew
    <3>2. CASE m = n /\ p = "new" BY <1>3, <1>4, <1>6, <3>2, NotesThere, Missing DEF InOld, InNew
    <3>3. CASE m # n BY <1>6, <3>3 DEF InOld, InNew
    <3> QED BY <3>1, <3>2, <3>3, NotesThere
  <2> QED BY <2>1
<1>9. MigrationTypeOK' BY <1>1, <1>2, <1>6, <1>7 DEF MigrationTypeOK
<1>10. InPlace' BY <1>1, <1>2, <1>8, NotesThere DEF InPlace, NoNote, Seeing, Moving, Running, AtPoint, E
<1> QED BY <1>2, <1>4, <1>3, <1>6, <1>7, <1>8, <1>9, <1>10 DEF Base, Saved

LEMMA PeopleWorkDoes ==
  ASSUME Base, PeopleWork
  PROVE  Base' /\ \E n \in Notes : Saved(n)
<1>1. ASSUME NEW n \in Notes, NEW body \in Bodies, NEW p \in Places, SaveOutside(n, p, body)
      PROVE  Base' /\ Saved(n)
  <2>1. /\ file[n][p] # missing /\ SetFile(n, p, [file[n][p] EXCEPT !.body = body]) /\ Work(n, body)
        /\ cat' = cat
      BY <1>1 DEF SaveOutside
  <2>2. cat \in [Notes -> CatalogRow \union {missing}] BY DEF Base, MigrationTypeOK
  <2> QED BY <2>1, <2>2, WorkSaves
<1>2. ASSUME NEW n \in Notes, NEW body \in Bodies, SaveInside(n, body)
      PROVE  Base' /\ Saved(n)
  <2>1. cat[n] \in CatalogRow /\ Work(n, body) /\ file[n][cat[n].place] = cat[n].text
      BY <1>2, FileAt DEF SaveInside, Base
  <2> DEFINE p == cat[n].place
  <2> DEFINE x == [cat[n].text EXCEPT !.body = body]
  <2> DEFINE r == [cat[n] EXCEPT !.place = p, !.rev = cat[n].rev + 1, !.text = x]
  <2>2. p \in Places /\ cat[n].text \in Text /\ cat[n].rev + 1 \in Revision
      BY <2>1 DEF CatalogRow, Revision
  <2>3. x \in Text BY <2>2 DEF Text
  <2>4. SetFile(n, p, x) /\ cat' = [cat EXCEPT ![n] = r] BY <1>2 DEF SaveInside, Recorded
  <2>5. x = [file[n][p] EXCEPT !.body = body] /\ file[n][p] # missing BY <2>1, <2>2, Missing
  <2> HIDE DEF p, x
  <2>6. r \in CatalogRow BY <2>1, <2>2, <2>3 DEF CatalogRow
  <2> HIDE DEF r
  <2>7. /\ cat' \in [Notes -> CatalogRow \union {missing}]
        /\ \A m \in Notes \ {n} : cat'[m] = cat[m]
        /\ cat'[n] = missing <=> cat[n] = missing
      BY <2>1, <2>4, <2>6, Missing DEF Base, MigrationTypeOK
  <2>8. SetFile(n, p, [file[n][p] EXCEPT !.body = body]) BY <2>4, <2>5
  <2> QED BY <2>1, <2>2, <2>5, <2>7, <2>8, WorkSaves
<1> QED BY <1>1, <1>2 DEF PeopleWork

-----------------------------------------------------------------------------
(* The texts. *)

SamePlan(w, m) == /\ w.change = m.change
                  /\ \A n \in Entries : w.entry[n].pre = m.entry[n].pre /\ w.entry[n].post = m.entry[n].post

LEMMA FilesSame ==
  ASSUME OneFiles, file' = file, left' = left
  PROVE  OneFiles'
BY DEF OneFiles, OneFile, InOld, InNew

\* A tool that finds what it has read keeps its body; or the person's is given up.
LEMMA FileRewritten ==
  ASSUME OneFiles, NEW n \in Notes, NEW x \in Text, NEW seen, FileBecomes(n, x), InOld(n),
         LeftAs(n, seen, x), file[n].old = seen => x.body = seen.body
  PROVE  OneFiles'
<1>1. OneFile(n)'
  <2>1. file'[n].old = x /\ x # missing /\ file'[n].new = missing BY Missing DEF FileBecomes, InOld
  <2>2. left'[n] = x.body
    <3>1. left[n] = file[n].old.body BY DEF OneFiles, OneFile, InOld, InNew
    <3> QED BY <3>1 DEF LeftAs
  <2> QED BY <2>1, <2>2 DEF OneFile, InOld
<1>2. ASSUME NEW m \in Notes, m # n PROVE OneFile(m)'
    BY <1>2 DEF OneFiles, OneFile, InOld, InNew, FileBecomes, LeftAs
<1> QED BY <1>1, <1>2 DEF OneFiles

LEMMA FileStays ==
  ASSUME OneFiles, NEW n \in Notes, FileBecomes(n, file[n].old), left' = left
  PROVE  OneFiles'
BY DEF OneFiles, OneFile, InOld, InNew, FileBecomes

LEMMA FileMoved ==
  ASSUME OneFiles, NEW n \in Notes, (InOld(n) /\ Carried(n)) \/ (InNew(n) /\ Brought(n)), left' = left
  PROVE  OneFiles'
<1>1. OneFile(n)' BY DEF OneFiles, OneFile, InOld, InNew, Carried, Brought
<1>2. ASSUME NEW m \in Notes, m # n PROVE OneFile(m)'
    BY <1>2 DEF OneFiles, OneFile, InOld, InNew, Carried, Brought
<1> QED BY <1>1, <1>2 DEF OneFiles

LEMMA PlansFollow ==
  ASSUME PlansKept, tool' = tool,
         SamePlan(journal', journal) \/ (mem # missing /\ SamePlan(journal', mem)),
         mem' # missing => SamePlan(mem', journal) \/ (mem # missing /\ SamePlan(mem', mem))
  PROVE  PlansKept'
<1>1. \/ PlansBodies(journal) /\ SamePlan(journal', journal)
      \/ PlansBodies(mem) /\ SamePlan(journal', mem)
    BY DEF PlansKept
<1>2. PlansBodies(journal)' BY <1>1 DEF PlansBodies, SamePlan
<1>3. mem' # missing => \/ PlansBodies(journal) /\ SamePlan(mem', journal)
                        \/ PlansBodies(mem) /\ SamePlan(mem', mem)
    BY DEF PlansKept
<1>4. mem' # missing => PlansBodies(mem)' BY <1>3 DEF PlansBodies, SamePlan
<1> QED BY <1>2, <1>4 DEF PlansKept

LEMMA SamePlans == \A m : SamePlan(m, m)
BY DEF SamePlan

LEMMA EntryKeepsPlan ==
  ASSUME NEW f, Becomes(f), f.pre = E.pre, f.post = E.post
  PROVE  SamePlan(mem', mem)
BY DEF Becomes, SamePlan, E

LEMMA PostPlanned ==
  ASSUME Base, PlansKept, mem # missing, call.note \in Entries, tool \in {"v3", "sumarios"}
  PROVE  /\ Post
         /\ tool = "v3" => E.post = Migrated(E.pre) /\ E.post.body = E.pre.body /\ E.post.form = "after"
<1>1. E \in ManifestEntry BY EntryTyped DEF Base
<1>2. E.pre \in Text BY <1>1, EntryFields
<1>3. tool = "v3" => E.post = Migrated(E.pre) BY DEF PlansKept, PlansBodies, E
<1>4. tool = "sumarios" => Post BY DEF PlansKept, PlansBodies, E, Post
<1> QED BY <1>2, <1>3, <1>4, Rewrites, Missing DEF Post

LEMMA VocabularyKeepsTexts ==
  ASSUME Base, TextsKept, Vocabulary
  PROVE  TextsKept'
<1> USE DEF TextsKept
<1>0. /\ OneFiles /\ PlansKept /\ MigrationTypeOK /\ InPlace
      /\ \A m : SamePlan(m, m)
    BY SamePlans DEF Base
<1>b. ASSUME NEW p, NEW op, FromPoint(p, op), p \notin NoNote, tool = "v3"
      PROVE  /\ Post /\ E.post = Migrated(E.pre) /\ E.post.body = E.pre.body
             /\ E.pre \in Text /\ E.post \in Text /\ call.note \in Entries /\ call.note \in Notes /\ InOld(call.note)
  <2>1. mem # missing /\ call.note \in Entries /\ call.note \in Notes BY <1>b, NotesThere DEF FromPoint
  <2>2. E \in ManifestEntry BY <1>0, <2>1, EntryTyped
  <2>3. InOld(call.note) BY <1>0, <1>b, <2>1 DEF InPlace, Moving
  <2> QED BY <1>0, <1>b, <2>1, <2>2, <2>3, PostPlanned, EntryFields DEF Post
<1>1. CASE ApplyVocabulary
  <2>1. SamePlan(mem', journal) BY <1>1, ApplyVocabularyDoes DEF SamePlan
  <2> QED BY <1>0, <1>1, <2>1, ApplyVocabularyDoes, FilesSame, PlansFollow DEF AtPoint
<1>2. CASE WriteFrontmatter
  <2>0. AtPoint("write") /\ Running("apply") /\ tool = "v3" BY <1>2 DEF WriteFrontmatter, AtV3
  <2>1. /\ Post /\ E.post.body = E.pre.body /\ E.post \in Text /\ call.note \in Notes /\ InOld(call.note)
      BY <1>b, <2>0, AtFrom DEF NoNote
  <2>2. /\ call.saw = E.pre /\ FileBecomes(call.note, E.post) /\ LeftAs(call.note, call.saw, E.post)
        /\ UNCHANGED <<tool, journal, mem>>
      BY <1>2, <2>1, WriteFrontmatterDoes
  <2>3. OneFiles' BY <1>0, <2>1, <2>2, FileRewritten
  <2> QED BY <1>0, <2>0, <2>2, <2>3, PlansFollow
<1>15. CASE ReadFrontmatter
    BY <1>0, <1>15, ReadFrontmatterDoes, FilesSame, PlansFollow
<1>3. CASE KeepFrontmatter
    BY <1>0, <1>3, KeepFrontmatterDoes, FilesSame, PlansFollow DEF AtPoint, ToPoint
<1>4. CASE JournalFrontmatter
  <2>1. SamePlan(mem', mem) BY <1>4, JournalFrontmatterDoes, EntryKeepsPlan, WithPhase DEF Phase
  <2> QED BY <1>0, <1>4, <2>1, JournalFrontmatterDoes, FilesSame, PlansFollow DEF AtPoint, ToPoint, FromPoint
<1>5. CASE MigrateNoteVocabulary
  <2>0. AtPoint("phase") /\ Running("apply") /\ tool = "v3" BY <1>5 DEF MigrateNoteVocabulary, AtV3
  <2>1. Post BY <1>b, <2>0, AtFrom DEF NoNote
  <2> QED BY <1>0, <1>5, <2>1, MigrateNoteVocabularyDoes, FilesSame, PlansFollow DEF AtPoint, ToPoint
<1>6. CASE VocabularyConflict
    BY <1>0, <1>6, VocabularyConflictDoes, FilesSame, PlansFollow DEF AtPoint, Closed, NoCall
<1>7. CASE JournalPhase
  <2>1. PICK t \in Phase : Becomes([E EXCEPT !.phase = t])
      BY <1>7, JournalPhaseDoes DEF Phase
  <2>2. E \in ManifestEntry /\ mem # missing BY <1>7, JournalPhaseDoes DEF FromPoint
  <2>3. SamePlan(mem', mem) BY <2>1, <2>2, EntryKeepsPlan, WithPhase
  <2> QED BY <1>0, <1>7, <2>2, <2>3, JournalPhaseDoes, FilesSame, PlansFollow DEF AtPoint, ToPoint
<1>8. CASE EntryDone
    BY <1>0, <1>8, EntryDoneDoes, FilesSame, PlansFollow DEF AtPoint, ToPoint
<1>9. CASE RollbackVocabulary
    BY <1>0, <1>9, RollbackVocabularyDoes, FilesSame, PlansFollow DEF AtPoint
<1>16. CASE ReadRestored
    BY <1>0, <1>16, ReadRestoredDoes, FilesSame, PlansFollow
<1>10. CASE RestoreFrontmatter
  <2>0. AtPoint("unwrite") /\ Running("rollback") /\ tool = "v3" BY <1>10 DEF RestoreFrontmatter, AtV3
  <2>1. /\ E.post.body = E.pre.body /\ E.pre \in Text /\ call.note \in Notes /\ InOld(call.note)
      BY <1>b, <2>0, AtFrom DEF NoNote
  <2>2. /\ FileBecomes(call.note, IF call.saw = E.post THEN E.pre ELSE F.old)
        /\ IF call.saw = E.post THEN LeftAs(call.note, call.saw, E.pre) ELSE left' = left
        /\ UNCHANGED <<tool, journal, mem>>
      BY <1>10, RestoreFrontmatterDoes
  <2>3. OneFiles'
    <3>1. CASE call.saw = E.post BY <1>0, <2>1, <2>2, <3>1, FileRewritten
    <3>2. CASE call.saw # E.post BY <1>0, <2>1, <2>2, <3>2, FileStays DEF F
    <3> QED BY <3>1, <3>2
  <2> QED BY <1>0, <2>0, <2>2, <2>3, PlansFollow
<1>11. CASE RollbackNoteVocabulary
  <2>0. AtPoint("restore") /\ Running("rollback") /\ tool = "v3" BY <1>11 DEF RollbackNoteVocabulary, AtV3
  <2>1. Post BY <1>b, <2>0, AtFrom DEF NoNote
  <2> QED BY <1>0, <1>11, <2>1, RollbackNoteVocabularyDoes, FilesSame, PlansFollow DEF AtPoint, ToPoint
<1>12. CASE RollbackConflict
  <2>0. AtPoint("restore") /\ Running("rollback") /\ tool = "v3" BY <1>12 DEF RollbackConflict, AtV3
  <2>1. /\ Post /\ E.post.body = E.pre.body /\ E.post \in Text /\ call.note \in Notes /\ InOld(call.note)
      BY <1>b, <2>0, AtFrom DEF NoNote
  <2>2. /\ FileBecomes(call.note, IF call.saw = E.post THEN E.post ELSE F.old) /\ Closed
        /\ IF call.saw = E.post THEN LeftAs(call.note, E.pre, E.post) ELSE left' = left
        /\ UNCHANGED <<tool, journal>>
      BY <1>12, <2>1, RollbackConflictDoes
  <2>3. OneFiles'
    <3>1. CASE call.saw = E.post BY <1>0, <2>1, <2>2, <3>1, FileRewritten
    <3>2. CASE call.saw # E.post BY <1>0, <2>1, <2>2, <3>2, FileStays DEF F
    <3> QED BY <3>1, <3>2
  <2> QED BY <1>0, <2>0, <2>2, <2>3, PlansFollow DEF Closed
<1>13. CASE JournalRestored
  <2>1. SamePlan(mem', mem) BY <1>13, JournalRestoredDoes, EntryKeepsPlan, WithPhase DEF Phase
  <2> QED BY <1>0, <1>13, <2>1, JournalRestoredDoes, FilesSame, PlansFollow DEF AtPoint, ToPoint, FromPoint
<1>14. CASE FinishVocabulary
  <2>1. SamePlan(journal', mem) BY <1>14, FinishVocabularyDoes DEF SamePlan
  <2> QED BY <1>0, <1>14, <2>1, FinishVocabularyDoes, FilesSame, PlansFollow DEF AtPoint, Closed, NoCall
<1> QED BY <1>1, <1>2, <1>3, <1>4, <1>5, <1>6, <1>7, <1>8, <1>9, <1>10, <1>11, <1>12, <1>13, <1>14,
           <1>15, <1>16 DEF Vocabulary

LEMMA RoutesKeepTexts ==
  ASSUME Base, TextsKept, Routes
  PROVE  TextsKept'
<1> USE DEF TextsKept
<1>0. /\ OneFiles /\ PlansKept /\ MigrationTypeOK /\ InPlace
      /\ \A m : SamePlan(m, m)
    BY SamePlans DEF Base
<1>b. ASSUME NEW p, NEW op, FromPoint(p, op), p \notin NoNote
      PROVE  mem # missing /\ call.note \in Entries /\ call.note \in Notes
    BY <1>b, NotesThere DEF FromPoint
<1>n. {"entry", "rename", "journal_move", "relocate", "moved"} \cap NoNote = {} BY DEF NoNote
<1>1. CASE ApproveManifest
  <2>1. SamePlan(journal', journal) /\ tool' = tool BY <1>1, ApproveManifestDoes DEF SamePlan
  <2> QED BY <1>0, <1>1, <2>1, ApproveManifestDoes, FilesSame, PlansFollow
<1>2. CASE ApplyMoves
    BY <1>0, <1>2, ApplyMovesDoes, FilesSame, PlansFollow
<1>3. CASE CheckMove
    BY <1>0, <1>3, CheckMoveDoes, FilesSame, PlansFollow
<1>4. CASE RefuseMove
  <2>1. /\ Moving /\ tool' = tool /\ file' = file /\ left' = left /\ mem # missing /\ mem' = missing
        /\ E \in ManifestEntry
      BY <1>4, RefuseMoveDoes DEF FromPoint, Closed
  <2> DEFINE e == [E EXCEPT !.skipped = TRUE]
  <2>2. e.pre = mem.entry[call.note].pre /\ e.post = mem.entry[call.note].post
    <3>1. e.pre = E.pre /\ e.post = E.post BY <2>1, WithSkipped
    <3> HIDE DEF e
    <3> QED BY <3>1 DEF E
  <2>3. \/ journal' = journal
        \/ /\ journal'.change = mem.change /\ journal'.entry[call.note] = e
           /\ \A n \in Entries \ {call.note} : journal'.entry[n] = mem.entry[n]
      BY <1>4, RefuseMoveDoes
  <2> HIDE DEF e
  <2>4. SamePlan(journal', journal) \/ SamePlan(journal', mem)
    <3>1. CASE journal' = journal BY <1>0, <3>1
    <3> QED BY <2>2, <2>3, <3>1 DEF SamePlan
  <2> QED BY <1>0, <2>1, <2>4, FilesSame, PlansFollow
<1>5. CASE Rename
  <2>1. /\ Moving /\ FromPoint("rename", "apply") /\ InOld(call.note) /\ Carried(call.note)
        /\ UNCHANGED <<tool, journal, mem, left>>
      BY <1>5, RenameDoes
  <2>2. OneFiles' BY <1>0, <1>b, <1>n, <2>1, FileMoved
  <2> QED BY <1>0, <2>1, <2>2, PlansFollow
<1>6. CASE JournalMove
  <2>1. SamePlan(mem', mem) BY <1>6, JournalMoveDoes, EntryKeepsPlan, WithPhase DEF Phase
  <2> QED BY <1>0, <1>6, <2>1, JournalMoveDoes, FilesSame, PlansFollow DEF FromPoint
<1>7. CASE Relocate
    BY <1>0, <1>7, RelocateDoes, FilesSame, PlansFollow
<1>8. CASE RelocateRefused
  <2> DEFINE e == [E EXCEPT !.phase = "planned", !.skipped = TRUE]
  <2>1. /\ Moving /\ FromPoint("relocate", "apply") /\ InNew(call.note) /\ Brought(call.note) /\ E \in ManifestEntry
        /\ journal'.change = mem.change /\ journal'.entry[call.note] = e
        /\ \A n \in Entries \ {call.note} : journal'.entry[n] = mem.entry[n]
        /\ UNCHANGED <<tool, left>> /\ mem' = missing /\ mem # missing
      BY <1>8, RelocateRefusedDoes DEF FromPoint, Closed
  <2>2. OneFiles' BY <1>0, <1>b, <1>n, <2>1, FileMoved
  <2>3. e.pre = mem.entry[call.note].pre /\ e.post = mem.entry[call.note].post
    <3>1. e.pre = E.pre /\ e.post = E.post BY <2>1, Refused
    <3> HIDE DEF e
    <3> QED BY <3>1 DEF E
  <2> HIDE DEF e
  <2>4. SamePlan(journal', mem) BY <2>1, <2>3 DEF SamePlan
  <2> QED BY <1>0, <2>1, <2>2, <2>4, PlansFollow
<1>9. CASE JournalMoved
  <2> DEFINE f == IF tool = "sumarios"
                  THEN [E EXCEPT !.phase = "identity_committed", !.applied = TRUE, !.post = F.new]
                  ELSE [E EXCEPT !.phase = "completed", !.applied = TRUE]
  <2>1. /\ Moving /\ FromPoint("moved", "apply") /\ E \in ManifestEntry /\ F.new \in Text /\ journal' = mem'
        /\ Becomes(f) /\ UNCHANGED <<tool, file, left>> /\ mem # missing
      BY <1>9, JournalMovedDoes DEF FromPoint
  <2>2. tool = "sumarios" => f.post # missing
    <3> DEFINE a == [E EXCEPT !.phase = "identity_committed", !.applied = TRUE, !.post = F.new]
    <3>1. a.post = F.new BY <2>1 DEF ManifestEntry
    <3>2. tool = "sumarios" => f = a OBVIOUS
    <3> HIDE DEF a, f
    <3> QED BY <2>1, <3>1, <3>2, Missing
  <2> HIDE DEF f
  <2>3. PlansBodies(mem)'
    <3>1. tool # "v3" BY <2>1 DEF Moving
    <3>2. PlansBodies(mem) BY <1>0, <2>1 DEF PlansKept
    <3> QED BY <2>1, <2>2, <3>1, <3>2 DEF PlansBodies, Becomes
  <2>4. PlansKept'
    <3>1. journal' = mem' BY <2>1
    <3> QED BY <2>3, <3>1 DEF PlansKept, PlansBodies
  <2> QED BY <1>0, <2>1, <2>4, FilesSame
<1>o. InOld(Owner) /\ Owner \in Notes BY <1>0, NotesThere DEF InPlace
<1>l. ASSUME call.saw \in Text
      PROVE  [call.saw EXCEPT !.link = "new"] \in Text /\ [call.saw EXCEPT !.link = "new"].body = call.saw.body
    BY <1>l DEF Text, Places
<1>24. CASE ReadLinks
    BY <1>0, <1>24, ReadLinksDoes, FilesSame, PlansFollow
<1>10. CASE RewriteLinks
  <2>1. /\ call.saw \in Text /\ FileBecomes(Owner, [call.saw EXCEPT !.link = "new"])
        /\ LeftAs(Owner, call.saw, [call.saw EXCEPT !.link = "new"])
        /\ UNCHANGED <<tool, journal, mem>>
      BY <1>10, RewriteLinksDoes
  <2>2. OneFiles' BY <1>0, <1>l, <1>o, <2>1, FileRewritten
  <2> QED BY <1>0, <2>1, <2>2, PlansFollow
<1>25. CASE LinksConflict
  <2>1. /\ call.saw \in Text /\ FileBecomes(Owner, call.saw) /\ Closed
        /\ LeftAs(Owner, [call.saw EXCEPT !.link = "new"], call.saw)
        /\ UNCHANGED <<tool, journal>>
      BY <1>25, LinksConflictDoes
  <2> DEFINE seen == [call.saw EXCEPT !.link = "new"]
  <2>2. seen.body = call.saw.body /\ LeftAs(Owner, seen, call.saw) BY <1>l, <2>1
  <2> HIDE DEF seen
  <2>3. OneFiles' BY <1>0, <1>o, <2>1, <2>2, FileRewritten
  <2> QED BY <1>0, <2>1, <2>3, PlansFollow DEF Closed
<1>11. CASE RefuseLinks
    BY <1>0, <1>11, RefuseLinksDoes, FilesSame, PlansFollow DEF Closed
<1>12. CASE CommitLinks
    BY <1>0, <1>12, CommitLinksDoes, FilesSame, PlansFollow
<1>13. CASE JournalLinks
  <2>1. /\ Moving /\ call.saw \in Text /\ mem # missing /\ journal' = mem' /\ mem'.entry = mem.entry
        /\ mem'.change.pre = call.saw /\ mem'.change.post = [call.saw EXCEPT !.link = "new"]
        /\ UNCHANGED <<tool, file, left>>
      BY <1>13, JournalLinksDoes DEF FromPoint
  <2>2. mem'.change.pre.body = mem'.change.post.body BY <2>1 DEF Text
  <2>3. PlansBodies(mem)'
    <3>1. PlansBodies(mem) BY <1>0, <2>1 DEF PlansKept
    <3> QED BY <2>1, <2>2, <3>1 DEF PlansBodies
  <2>4. PlansKept'
    <3>1. journal' = mem' BY <2>1
    <3> QED BY <2>3, <3>1 DEF PlansKept, PlansBodies
  <2> QED BY <1>0, <2>1, <2>4, FilesSame
<1>14. CASE FinishMoves
  <2>1. /\ Moving /\ FromPoint("next", "apply") /\ mem # missing /\ mem' = missing /\ journal'.change = mem.change
        /\ \A n \in Entries : journal'.entry[n] =
              IF n \in call.moved THEN [mem.entry[n] EXCEPT !.phase = "completed"] ELSE mem.entry[n]
        /\ UNCHANGED <<tool, file, left>>
      BY <1>14, FinishMovesDoes DEF FromPoint, Closed
  <2>2. mem.entry \in [Entries -> ManifestEntry] BY <1>0, <2>1, Listings
  <2>3. \A n \in Entries : LET f == [mem.entry[n] EXCEPT !.phase = "completed"] IN
              f.pre = mem.entry[n].pre /\ f.post = mem.entry[n].post
      BY <2>2, WithPhase DEF Phase
  <2>4. SamePlan(journal', mem) BY <2>1, <2>3 DEF SamePlan
  <2> QED BY <1>0, <2>1, <2>4, FilesSame, PlansFollow
<1>15. CASE RollbackMoves
    BY <1>0, <1>15, RollbackMovesDoes, FilesSame, PlansFollow
<1>16. CASE CheckUndo
  <2>1. tool = "sumarios" => Post
    <3>1. FromPoint("entry", "rollback") BY <1>16, AtFrom DEF CheckUndo, AtMove
    <3> QED BY <1>0, <1>b, <1>n, <3>1, PostPlanned
  <2> QED BY <1>0, <1>16, <2>1, CheckUndoDoes, FilesSame, PlansFollow
<1>17. CASE UndoRename
  <2>1. /\ Moving /\ FromPoint("rename", "rollback") /\ InNew(call.note) /\ Brought(call.note)
        /\ UNCHANGED <<tool, journal, mem, left>>
      BY <1>17, UndoRenameDoes
  <2>2. OneFiles' BY <1>0, <1>b, <1>n, <2>1, FileMoved
  <2> QED BY <1>0, <2>1, <2>2, PlansFollow
<1>18. CASE SkipUndo
  <2>1. SamePlan(mem', mem) BY <1>18, SkipUndoDoes, EntryKeepsPlan, WithSkipped
  <2> QED BY <1>0, <1>18, <2>1, SkipUndoDoes, FilesSame, PlansFollow DEF FromPoint
<1>19. CASE UndoRelocate
  <2>1. SamePlan(mem', mem)
    <3>1. (tool # "taxonomy" /\ E.skipped) \in BOOLEAN OBVIOUS
    <3> QED BY <1>19, <3>1, UndoRelocateDoes, EntryKeepsPlan, Undone DEF Phase
  <2> QED BY <1>0, <1>19, <2>1, UndoRelocateDoes, FilesSame, PlansFollow DEF FromPoint
<1>20. CASE UndoRefused
  <2>1. /\ Moving /\ FromPoint("relocate", "rollback") /\ InOld(call.note) /\ Carried(call.note)
        /\ UNCHANGED <<tool, journal, left>> /\ mem # missing /\ E \in ManifestEntry
      BY <1>20, UndoRefusedDoes DEF FromPoint
  <2>2. SamePlan(mem', mem) BY <1>20, UndoRefusedDoes, EntryKeepsPlan, WithSkipped
  <2>3. OneFiles' BY <1>0, <1>b, <1>n, <2>1, FileMoved
  <2> QED BY <1>0, <2>1, <2>2, <2>3, PlansFollow
<1>26. CASE ReadUnlinked
    BY <1>0, <1>26, ReadUnlinkedDoes, FilesSame, PlansFollow
<1>c. ASSUME call.pc \in {"unrelink", "unlink"}
      PROVE  call.saw \in Text /\ mem.change.pre \in Text /\ call.saw.body = mem.change.pre.body
  <2>1. /\ mem # missing /\ mem.change # missing /\ mem.change.pre \in Text /\ call.saw \in Text
        /\ call.saw = mem.change.post
      BY <1>c, InRollback
  <2> QED BY <1>0, <2>1 DEF PlansKept, PlansBodies
<1>21. CASE UndoLinks
  <2>1. /\ FileBecomes(Owner, mem.change.pre) /\ LeftAs(Owner, call.saw, mem.change.pre)
        /\ FromPoint("unrelink", "rollback") /\ UNCHANGED <<tool, journal, mem>>
      BY <1>21, UndoLinksDoes
  <2>2. call.saw.body = mem.change.pre.body /\ mem.change.pre \in Text BY <1>c, <2>1 DEF FromPoint
  <2>3. OneFiles' BY <1>0, <1>o, <2>1, <2>2, FileRewritten
  <2> QED BY <1>0, <2>1, <2>3, PlansFollow
<1>27. CASE UnlinkConflict
  <2>1. /\ FileBecomes(Owner, call.saw) /\ LeftAs(Owner, mem.change.pre, call.saw)
        /\ FromPoint("unlink", "rollback") /\ UNCHANGED <<tool, journal, mem>>
      BY <1>27, UnlinkConflictDoes
  <2>2. call.saw.body = mem.change.pre.body /\ call.saw \in Text BY <1>c, <2>1 DEF FromPoint
  <2>3. OneFiles' BY <1>0, <1>o, <2>1, <2>2, FileRewritten
  <2> QED BY <1>0, <2>1, <2>3, PlansFollow
<1>22. CASE CommitUnlinked
    BY <1>0, <1>22, CommitUnlinkedDoes, FilesSame, PlansFollow
<1>23. CASE FinishReturn
  <2>1. SamePlan(journal', mem) BY <1>23, FinishReturnDoes DEF SamePlan
  <2> QED BY <1>0, <1>23, <2>1, FinishReturnDoes, FilesSame, PlansFollow DEF Closed
<1> QED BY <1>1, <1>2, <1>3, <1>4, <1>5, <1>6, <1>7, <1>8, <1>9, <1>10, <1>11, <1>12, <1>13, <1>14, <1>15,
           <1>16, <1>17, <1>18, <1>19, <1>20, <1>21, <1>22, <1>23, <1>24, <1>25, <1>26, <1>27 DEF Routes

LEMMA SchemaKeepsTexts ==
  ASSUME Base, TextsKept, Schema
  PROVE  TextsKept'
<1> USE DEF TextsKept
<1>0. /\ OneFiles /\ PlansKept /\ MigrationTypeOK /\ InPlace
      /\ \A m : SamePlan(m, m)
    BY SamePlans DEF Base
<1>b. ASSUME NEW p, NEW op, FromPoint(p, op), p \notin NoNote, ~Moving
      PROVE  mem # missing /\ call.note \in Notes /\ InOld(call.note)
    BY <1>0, <1>b, NotesThere DEF FromPoint, InPlace
<1>1. CASE ApplySchema
    BY <1>0, <1>1, ApplySchemaDoes, FilesSame, PlansFollow
<1>2. CASE KeepCanonical
  <2>1. SamePlan(mem', mem) BY <1>2, KeepCanonicalDoes, EntryKeepsPlan, Kept
  <2> QED BY <1>0, <1>2, <2>1, KeepCanonicalDoes, FilesSame, PlansFollow DEF FromPoint
<1>3. CASE KeepIdentified
    BY <1>0, <1>3, KeepIdentifiedDoes, FilesSame, PlansFollow
<1>4. CASE BackUp
    BY <1>0, <1>4, BackUpDoes, FilesSame, PlansFollow
<1>5. CASE Rewrite
  <2>1. /\ ~Moving /\ FromPoint("rewrite", "apply") /\ call.saw \in Text
        /\ FileBecomes(call.note, Migrated(call.saw)) /\ LeftAs(call.note, call.saw, Migrated(call.saw))
        /\ UNCHANGED <<tool, journal, mem>>
      BY <1>5, RewriteDoes
  <2>2. call.note \in Notes /\ InOld(call.note) BY <1>b, <2>1 DEF NoNote
  <2>3. Migrated(call.saw) \in Text /\ Migrated(call.saw).body = call.saw.body BY <2>1, Rewrites
  <2>4. OneFiles' BY <1>0, <2>1, <2>2, <2>3, FileRewritten
  <2> QED BY <1>0, <2>1, <2>4, PlansFollow
<1>6. CASE Register
    BY <1>0, <1>6, RegisterDoes, FilesSame, PlansFollow
<1>7. CASE RecordEntry
  <2> DEFINE f == [E EXCEPT !.applied = TRUE, !.pre = call.saw, !.post = Migrated(call.saw)]
  <2>1. /\ Backing /\ FromPoint("record", "apply") /\ journal' = mem' /\ Becomes(f) /\ mem # missing
        /\ UNCHANGED <<tool, file, left>>
      BY <1>7, RecordEntryDoes DEF FromPoint
  <2> HIDE DEF f
  <2>2. OneFiles' BY <1>0, <2>1, FilesSame
  <2>3. PlansBodies(mem) /\ tool \notin {"v3", "sumarios"} BY <1>0, <2>1 DEF PlansKept, Backing
  <2>4. PlansBodies(mem)' BY <2>1, <2>3 DEF PlansBodies, Becomes
  <2>5. PlansKept'
    <3>1. journal' = mem' BY <2>1
    <3> QED BY <2>4, <3>1 DEF PlansKept, PlansBodies
  <2> QED BY <2>2, <2>5
<1>8. CASE FinishSchema
  <2>1. SamePlan(journal', mem) BY <1>8, FinishSchemaDoes DEF SamePlan
  <2> QED BY <1>0, <1>8, <2>1, FinishSchemaDoes, FilesSame, PlansFollow DEF FromPoint, Closed
<1>9. CASE RollbackSchema
    BY <1>0, <1>9, RollbackSchemaDoes, FilesSame, PlansFollow
<1>10. CASE CheckRestore
    BY <1>0, <1>10, CheckRestoreDoes, FilesSame, PlansFollow
<1>11. CASE RestoreBackup
  <2> DEFINE seen == IF Compared THEN call.saw ELSE missing
  <2>1. /\ ~Moving /\ FromPoint("bring", "rollback") /\ backup[call.note] \in Text
        /\ FileBecomes(call.note, backup[call.note]) /\ LeftAs(call.note, seen, backup[call.note])
        /\ E.post # missing => call.saw = E.post
        /\ E \in ManifestEntry /\ Becomes([E EXCEPT !.applied = FALSE])
        /\ UNCHANGED <<tool, journal>>
      BY <1>11, RestoreBackupDoes
  <2>2. mem # missing /\ call.note \in Notes /\ InOld(call.note) BY <1>b, <2>1 DEF NoNote
  <2>3. file[call.note].old = seen => backup[call.note].body = seen.body
    <3>1. file[call.note].old # missing BY <2>2 DEF InOld
    <3>2. Compared => backup[call.note].body = call.saw.body BY <2>1 DEF Compared
    <3> QED BY <3>1, <3>2
  <2> HIDE DEF seen
  <2>4. OneFiles' BY <1>0, <2>1, <2>2, <2>3, FileRewritten
  <2>5. SamePlan(mem', mem) BY <2>1, EntryKeepsPlan, WithApplied
  <2> QED BY <1>0, <2>1, <2>2, <2>4, <2>5, PlansFollow
<1>12. CASE SkipRestore
  <2>1. SamePlan(mem', mem) BY <1>12, SkipRestoreDoes, EntryKeepsPlan, WithSkipped
  <2> QED BY <1>0, <1>12, <2>1, SkipRestoreDoes, FilesSame, PlansFollow DEF FromPoint
<1>13. CASE JournalRollback
  <2>1. SamePlan(mem', mem) /\ SamePlan(journal', mem) BY <1>13, JournalRollbackDoes DEF SamePlan
  <2> QED BY <1>0, <1>13, <2>1, JournalRollbackDoes, FilesSame, PlansFollow DEF FromPoint
<1>14. CASE RestoreRuntime
    BY <1>0, <1>14, RestoreRuntimeDoes, FilesSame, PlansFollow DEF Closed
<1> QED BY <1>1, <1>2, <1>3, <1>4, <1>5, <1>6, <1>7, <1>8, <1>9, <1>10, <1>11, <1>12, <1>13, <1>14 DEF Schema

LEMMA TakingKeepsTexts ==
  ASSUME Base, TextsKept, TakeEntry
  PROVE  TextsKept'
<1> USE DEF TextsKept
<1>1. mem # missing /\ UNCHANGED <<tool, file, journal, mem, left>> BY TakeEntryDoes
<1>2. OneFiles' BY <1>1, FilesSame
<1>3. PlansKept' BY <1>1, SamePlans, PlansFollow
<1> QED BY <1>2, <1>3

LEMMA DyingKeepsTexts ==
  ASSUME Base, TextsKept, CallDies
  PROVE  TextsKept'
<1> USE DEF TextsKept
<1>1. mem' = missing /\ UNCHANGED <<tool, file, journal, left>> BY CallDiesDoes DEF Closed
<1>2. OneFiles' BY <1>1, FilesSame
<1>3. PlansKept' BY <1>1, SamePlans, PlansFollow
<1> QED BY <1>2, <1>3

LEMMA WorkKeepsTexts ==
  ASSUME Base, TextsKept, PeopleWork
  PROVE  TextsKept'
<1> USE DEF TextsKept
<1>1. PICK n \in Notes : Saved(n) BY PeopleWorkDoes
<1>2. PICK p \in Places : \E x \in Text :
         /\ file[n][p] # missing /\ x.form = file[n][p].form /\ x.link = file[n][p].link
         /\ file'[n][p] = x /\ (\A q \in Places \ {p} : file'[n][q] = file[n][q])
         /\ left'[n] = x.body
    BY <1>1 DEF Saved
<1>3. PICK x \in Text :
         /\ file[n][p] # missing /\ x.form = file[n][p].form /\ x.link = file[n][p].link
         /\ file'[n][p] = x /\ (\A q \in Places \ {p} : file'[n][q] = file[n][q])
         /\ left'[n] = x.body
    BY <1>2
<1>4. /\ \A m \in Notes \ {n} : file'[m] = file[m] /\ left'[m] = left[m]
      /\ \A m \in Notes : (InOld(m) <=> InOld(m)') /\ (InNew(m) <=> InNew(m)')
      /\ UNCHANGED <<tool, journal, mem, call, backup>>
    BY <1>1 DEF Saved
<1>5. OneFiles'
  <2>1. OneFile(n)'
    <3>1. OneFile(n) BY DEF OneFiles
    <3>2. CASE p = "old" BY <1>3, <1>4, <3>1, <3>2, NotesThere, Missing DEF OneFile, InOld, InNew
    <3>3. CASE p = "new" BY <1>3, <1>4, <3>1, <3>3, NotesThere, Missing DEF OneFile, InOld, InNew
    <3> QED BY <3>2, <3>3, NotesThere
  <2>2. ASSUME NEW m \in Notes, m # n PROVE OneFile(m)'
      BY <1>4, <2>2 DEF OneFiles, OneFile, InOld, InNew
  <2> QED BY <2>1, <2>2 DEF OneFiles
<1>6. PlansKept' BY <1>4, SamePlans, PlansFollow
<1> QED BY <1>5, <1>6

LEMMA BodiesInPlace ==
  ASSUME Base, OneFiles, Backing, NEW n \in Entries
  PROVE  InOld(n) /\ file[n].old \in Text /\ file[n].old.body = left[n] /\ n \in Notes
<1>1. InOld(n) /\ n \in Notes BY NotesThere DEF Base, InPlace, Moving, Backing
<1>2. OneFile(n) BY <1>1 DEF OneFiles
<1> QED BY <1>1, <1>2, FileAt DEF OneFile, InOld, InNew, Base

LEMMA PlannedEntries ==
  ASSUME MigrationInit, NEW n \in Entries
  PROVE  /\ n \in Notes
         /\ journal.entry[n] = Listed(n, IF tool = "v3" THEN Migrated(file[n].old)
                                         ELSE IF tool = "sumarios" THEN file[n].old ELSE missing)
         /\ journal.entry[n].phase = "planned" /\ journal.entry[n].applied = FALSE
         /\ journal.entry[n].skipped = FALSE /\ journal.entry[n].pre = file[n].old
         /\ journal.entry[n].rev = 1 /\ journal.entry[n].existed = (cat[n] # missing)
         /\ journal.entry[n].post = IF tool = "v3" THEN Migrated(file[n].old)
                                    ELSE IF tool = "sumarios" THEN file[n].old ELSE missing
<1>1. tool \in {"v3", "sumarios", "taxonomy", "schema", "identity"} BY ToolsAssumption DEF MigrationInit
<1>2. journal.entry[n] =
        CASE tool = "v3" -> V3Entry(n)
          [] tool = "sumarios" -> SumariosEntry(n)
          [] tool = "taxonomy" -> TaxonomyEntry(n)
          [] tool = "schema" -> SchemaEntry(n)
          [] tool = "identity" -> IdentityEntry(n)
    BY DEF MigrationInit, Planned
<1>3. journal.entry[n] = Listed(n, IF tool = "v3" THEN Migrated(file[n].old)
                                   ELSE IF tool = "sumarios" THEN file[n].old ELSE missing)
    BY <1>1, <1>2 DEF V3Entry, SumariosEntry, TaxonomyEntry, SchemaEntry, IdentityEntry
<1> QED BY <1>3, NotesThere DEF Listed

LEMMA MigrationStarts ==
  ASSUME MigrationInit
  PROVE  Base /\ TextsKept
<1>1. ASSUME NEW n \in Notes
      PROVE  /\ file[n].old \in Text /\ file[n].old.form = "before" /\ file[n].old.link = "old" /\ file[n].new = missing
             /\ file[n] \in [Places -> Text \union {missing}] /\ file[n].old # missing
  <2>1. file[n] \in [old : [body : Bodies, form : {"before"}, link : {"old"}], new : {missing}]
      BY DEF MigrationInit
  <2>2. /\ file[n].old \in Text /\ file[n].old.form = "before" /\ file[n].old.link = "old" /\ file[n].new = missing
      BY <2>1 DEF Text, Places
  <2>3. file[n] \in [Places -> Text \union {missing}]
      BY <2>1, <2>2 DEF Places
  <2> QED BY <2>2, <2>3, Missing
<1>2. \A n \in Entries : n \in Notes BY NotesThere
<1>3. [place |-> "old", rev |-> 1, text |-> file[Owner].old] \in CatalogRow
      /\ [rev |-> 1, text |-> file[Owner].old] \in Version
    BY <1>1, NotesThere DEF CatalogRow, Version, Places, Revision
<1>4. cat \in [Notes -> CatalogRow \union {missing}] /\ seals \in [Notes -> SUBSET Version]
  <2> DEFINE r == [place |-> "old", rev |-> 1, text |-> file[Owner].old]
  <2> DEFINE v == [rev |-> 1, text |-> file[Owner].old]
  <2>1. cat \in [Notes -> {missing, r}] /\ seals \in [Notes -> {{}, {v}}] BY DEF MigrationInit
  <2>2. r \in CatalogRow /\ v \in Version BY <1>3
  <2> HIDE DEF r, v
  <2> QED BY <2>1, <2>2
<1>5. journal \in Manifest
  <2>1. ASSUME NEW n \in Entries PROVE journal.entry[n] \in ManifestEntry
    <3> DEFINE p == IF tool = "v3" THEN Migrated(file[n].old) ELSE IF tool = "sumarios" THEN file[n].old ELSE missing
    <3>1. journal.entry[n] = Listed(n, p) BY <2>1, PlannedEntries
    <3>2. p \in Text \union {missing} /\ file[n].old \in Text BY <1>1, <1>2, Rewrites
    <3> HIDE DEF p
    <3> QED BY <3>1, <3>2 DEF Listed, ManifestEntry, Phase, Revision
  <2> DEFINE f == [n \in Entries |->
        CASE tool = "v3" -> V3Entry(n)
          [] tool = "sumarios" -> SumariosEntry(n)
          [] tool = "taxonomy" -> TaxonomyEntry(n)
          [] tool = "schema" -> SchemaEntry(n)
          [] tool = "identity" -> IdentityEntry(n)]
  <2>2. journal = [status |-> "planned", change |-> missing, entry |-> f] BY DEF MigrationInit, Planned
  <2>3. \A n \in Entries : f[n] = journal.entry[n] BY <2>2
  <2>4. f \in [Entries -> ManifestEntry] BY <2>1, <2>3
  <2> HIDE DEF f
  <2> QED BY <2>2, <2>4 DEF Manifest
<1>6. MigrationTypeOK
  <2>1. tool \in Tools /\ mem = missing /\ call = NoCall /\ touched = {} /\ torn = "no" /\ snapshot = missing
      BY DEF MigrationInit
  <2>2. file \in [Notes -> [Places -> Text \union {missing}]]
    <3>1. file = [n \in Notes |-> file[n]] BY DEF MigrationInit
    <3> QED BY <1>1, <3>1
  <2>3. left \in [Notes -> Bodies] /\ backup \in [Notes -> Text \union {missing}]
      BY <1>1 DEF MigrationInit, Text
  <2>4. call \in CallRecord BY <2>1, NotesThere DEF NoCall, CallRecord, CallPoint
  <2> QED BY <1>4, <1>5, <2>1, <2>2, <2>3, <2>4 DEF MigrationTypeOK
<1>7. InPlace
  <2>1. mem = missing /\ call = NoCall /\ call.op = "idle" /\ call.pc = "next" BY DEF MigrationInit, NoCall
  <2> QED BY <1>1, <2>1, NotesThere DEF InPlace, NoNote, Seeing, Running, AtPoint, InOld
<1>8. OneFiles
  <2>1. \A n \in Notes : left[n] = file[n].old.body BY DEF MigrationInit
  <2> QED BY <1>1, <2>1 DEF OneFiles, OneFile, InOld, InNew
<1>9. PlansKept
  <2>1. journal.change = missing /\ mem = missing BY DEF MigrationInit, Planned
  <2>2. tool = "v3" => \A n \in Entries : journal.entry[n].post = Migrated(journal.entry[n].pre)
      BY PlannedEntries
  <2>3. tool = "sumarios" => \A n \in Entries : journal.entry[n].post # missing
      BY <1>1, <1>2, PlannedEntries
  <2> QED BY <2>1, <2>2, <2>3 DEF PlansKept, PlansBodies
<1> QED BY <1>6, <1>7, <1>8, <1>9 DEF Base, TextsKept

LEMMA NothingMoves ==
  ASSUME Base, TextsKept, UNCHANGED migrationVars
  PROVE  Base' /\ TextsKept'
<1>1. UNCHANGED <<tool, file, cat, seals, journal, mem, call, backup, snapshot, touched, left, torn>>
    BY DEF migrationVars, rows, copies, history
<1>2. MigrationTypeOK' BY <1>1 DEF Base, MigrationTypeOK
<1>3. InPlace' BY <1>1 DEF Base, InPlace, NoNote, Seeing, Moving, Running, AtPoint, InOld, InNew, E
<1>4. OneFiles' /\ PlansKept' BY <1>1, FilesSame, SamePlans, PlansFollow DEF TextsKept
<1> QED BY <1>2, <1>3, <1>4 DEF TextsKept, Base

LEMMA VocabularyKeepsBase ==
  ASSUME Base, TextsKept, Vocabulary
  PROVE  Base'
<1>1. ASSUME NEW p, NEW op, AtV3(p, op), p \notin NoNote PROVE Post
  <2>1. FromPoint(p, op) /\ tool = "v3" BY <1>1, AtFrom DEF AtV3
  <2> QED BY <1>1, <2>1, PostPlanned DEF FromPoint, TextsKept
<1>2. WriteFrontmatter \/ MigrateNoteVocabulary \/ RollbackNoteVocabulary \/ RollbackConflict => Post
    BY <1>1 DEF WriteFrontmatter, MigrateNoteVocabulary, RollbackNoteVocabulary, RollbackConflict, NoNote
<1> QED BY <1>2, ApplyVocabularyDoes, ReadFrontmatterDoes, WriteFrontmatterDoes, KeepFrontmatterDoes, JournalFrontmatterDoes,
       MigrateNoteVocabularyDoes, VocabularyConflictDoes, JournalPhaseDoes, EntryDoneDoes,
       RollbackVocabularyDoes, ReadRestoredDoes, RestoreFrontmatterDoes, RollbackNoteVocabularyDoes,
       RollbackConflictDoes, JournalRestoredDoes, FinishVocabularyDoes DEF Vocabulary

LEMMA RoutesKeepBase ==
  ASSUME Base, TextsKept, Routes
  PROVE  Base'
<1>1. CheckUndo => (tool = "sumarios" => Post)
  <2>1. CheckUndo => FromPoint("entry", "rollback") BY AtFrom DEF CheckUndo, AtMove
  <2> QED BY <2>1, PostPlanned DEF FromPoint, TextsKept, NoNote
<1> QED BY <1>1, ApproveManifestDoes, ApplyMovesDoes, CheckMoveDoes, RefuseMoveDoes, RenameDoes, JournalMoveDoes,
       RelocateDoes, RelocateRefusedDoes, JournalMovedDoes, ReadLinksDoes, RewriteLinksDoes, RefuseLinksDoes,
       CommitLinksDoes, LinksConflictDoes, JournalLinksDoes, FinishMovesDoes, RollbackMovesDoes, CheckUndoDoes, UndoRenameDoes, SkipUndoDoes,
       UndoRelocateDoes, UndoRefusedDoes, ReadUnlinkedDoes, UndoLinksDoes, CommitUnlinkedDoes,
       UnlinkConflictDoes, FinishReturnDoes DEF Routes

LEMMA SchemaKeepsBase ==
  ASSUME Base, Schema
  PROVE  Base'
BY ApplySchemaDoes, KeepCanonicalDoes, KeepIdentifiedDoes, BackUpDoes, RewriteDoes, RegisterDoes, RecordEntryDoes,
   FinishSchemaDoes, RollbackSchemaDoes, CheckRestoreDoes, RestoreBackupDoes, SkipRestoreDoes, JournalRollbackDoes,
   RestoreRuntimeDoes DEF Schema

LEMMA TextsStep ==
  ASSUME Base, TextsKept, [MigrationNext]_migrationVars
  PROVE  Base' /\ TextsKept'
<1>1. CASE Vocabulary BY <1>1, VocabularyKeepsBase, VocabularyKeepsTexts
<1>2. CASE Routes BY <1>2, RoutesKeepBase, RoutesKeepTexts
<1>3. CASE Schema BY <1>3, SchemaKeepsBase, SchemaKeepsTexts
<1>4. CASE TakeEntry BY <1>4, TakeEntryDoes, TakingKeepsTexts
<1>5. CASE CallDies BY <1>5, CallDiesDoes, DyingKeepsTexts
<1>6. CASE PeopleWork BY <1>6, PeopleWorkDoes, WorkKeepsTexts
<1>7. CASE UNCHANGED migrationVars BY <1>7, NothingMoves
<1> QED BY <1>1, <1>2, <1>3, <1>4, <1>5, <1>6, <1>7 DEF MigrationNext

LEMMA TextsAlways == MigrationSpec => [](Base /\ TextsKept)
BY MigrationStarts, TextsStep, PTL DEF MigrationSpec

(* Every variable of the migrations keeps its kind of value.                *)
THEOREM MigrationsKeepTheirTypes == MigrationSpec => []MigrationTypeOK
<1>1. Base /\ TextsKept => MigrationTypeOK BY DEF Base
<1> QED BY <1>1, TextsAlways, PTL

(* Whatever tool runs, however often it dies, is repeated or undone: what a *)
(* person wrote last in a note is in the vault.                             *)
THEOREM TextsAreNeverLost == MigrationSpec => []NothingWrittenIsLost
<1>1. Base /\ TextsKept => NothingWrittenIsLost
  <2> SUFFICES ASSUME Base, TextsKept, NEW n \in Notes
               PROVE  \E place \in Places : file[n][place] # missing /\ file[n][place].body = left[n]
      BY DEF NothingWrittenIsLost
  <2>1. OneFile(n) BY DEF TextsKept, OneFiles
  <2>2. file[n].old = file[n]["old"] /\ file[n].new = file[n]["new"] BY FileAt DEF Base
  <2>3. "old" \in Places /\ "new" \in Places BY NotesThere
  <2> QED BY <2>1, <2>2, <2>3 DEF OneFile, InOld, InNew
<1> QED BY <1>1, TextsAlways, PTL

-----------------------------------------------------------------------------
(* Which tool takes a step. *)

LEMMA RoutesAreMoves == ASSUME Routes PROVE Moving /\ tool' = tool
BY DEF Routes, ApproveManifest, ApplyMoves, CheckMove, RefuseMove, Rename, JournalMove,
   Relocate, RelocateRefused, JournalMoved, ReadLinks, RewriteLinks, RefuseLinks, CommitLinks, LinksConflict,
   JournalLinks, FinishMoves, RollbackMoves, CheckUndo, UndoRename, SkipUndo, UndoRelocate, UndoRefused,
   ReadUnlinked, UndoLinks, CommitUnlinked, UnlinkConflict, FinishReturn, AtMove, RecordLinks, Moving, Linked

LEMMA SchemaIsBacking == ASSUME Schema PROVE Backing /\ tool' = tool
BY DEF Schema, ApplySchema, KeepCanonical, KeepIdentified, BackUp, Rewrite, Register, RecordEntry, FinishSchema,
   RollbackSchema, CheckRestore, RestoreBackup, SkipRestore, JournalRollback, RestoreRuntime, AtBackup

LEMMA VocabularyIsV3 == ASSUME Vocabulary PROVE tool = "v3" /\ tool' = tool
BY DEF Vocabulary, ApplyVocabulary, ReadFrontmatter, WriteFrontmatter, KeepFrontmatter, JournalFrontmatter,
   MigrateNoteVocabulary, VocabularyConflict, JournalPhase, EntryDone, RollbackVocabulary, ReadRestored,
   RestoreFrontmatter, RollbackNoteVocabulary, RollbackConflict, JournalRestored, FinishVocabulary, AtV3

LEMMA ToolStays == ASSUME Base, [MigrationNext]_migrationVars PROVE tool' = tool
<1>1. TakeEntry \/ CallDies \/ PeopleWork => tool' = tool
    BY TakeEntryDoes, CallDiesDoes, PeopleWorkDoes DEF Saved
<1> QED BY <1>1, RoutesAreMoves, SchemaIsBacking, VocabularyIsV3 DEF MigrationNext, migrationVars

-----------------------------------------------------------------------------
(* The approvals. *)

SameRevisions(w, m) == \A n \in Entries : w.entry[n].rev = m.entry[n].rev

LEMMA SameRevision == \A m : SameRevisions(m, m)
BY DEF SameRevisions

LEMMA EntryKeepsRevision ==
  ASSUME NEW f, Becomes(f), f.rev = E.rev
  PROVE  SameRevisions(mem', mem)
BY DEF Becomes, SameRevisions, E

LEMMA ApprovalsFollow ==
  ASSUME ApprovalsKept, tool' = tool, touched \subseteq touched',
         SameRevisions(journal', journal) \/ (mem # missing /\ SameRevisions(journal', mem)),
         mem' # missing => SameRevisions(mem', journal) \/ (mem # missing /\ SameRevisions(mem', mem)),
         tool \in {"v3", "sumarios"} => \A n \in Entries : n \notin touched' /\ Bound(n) => Bound(n)'
  PROVE  ApprovalsKept'
<1>1. SUFFICES ASSUME tool \in {"v3", "sumarios"}
               PROVE  /\ FirstRevision(journal)' /\ (mem' # missing => FirstRevision(mem)')
                      /\ \A n \in Entries : n \notin touched' => Bound(n)'
    BY DEF ApprovalsKept
<1>2. FirstRevision(journal) /\ (mem # missing => FirstRevision(mem)) BY <1>1 DEF ApprovalsKept
<1>3. FirstRevision(journal)'
  <2>1. \/ FirstRevision(journal) /\ SameRevisions(journal', journal)
        \/ FirstRevision(mem) /\ SameRevisions(journal', mem)
      BY <1>2
  <2> QED BY <2>1 DEF FirstRevision, SameRevisions
<1>4. ASSUME mem' # missing PROVE FirstRevision(mem)'
  <2>1. \/ FirstRevision(journal) /\ SameRevisions(mem', journal)
        \/ FirstRevision(mem) /\ SameRevisions(mem', mem)
      BY <1>2, <1>4
  <2> QED BY <2>1 DEF FirstRevision, SameRevisions
<1>5. ASSUME NEW n \in Entries, n \notin touched' PROVE Bound(n)'
  <2>1. n \notin touched BY <1>5
  <2>2. Bound(n) BY <1>1, <2>1 DEF ApprovalsKept
  <2> QED BY <1>1, <1>5, <2>2
<1> QED BY <1>3, <1>4, <1>5

LEMMA RowsSame ==
  ASSUME cat' = cat, seals' = seals
  PROVE  \A n \in Entries : Bound(n) => Bound(n)'
BY DEF Bound

LEMMA RowMoves ==
  ASSUME Base, seals' = seals, tool = "sumarios", NEW k \in Entries, NEW p \in Places,
         cat'[k] = Relocated(cat[k], p), \A n \in Notes \ {k} : cat'[n] = cat[n]
  PROVE  \A n \in Entries : Bound(n) => Bound(n)'
<1>1. ASSUME NEW n \in Entries, n # k, Bound(n) PROVE Bound(n)' BY <1>1, NotesThere DEF Bound
<1>2. ASSUME Bound(k) PROVE Bound(k)'
  <2>1. cat[k] \in CatalogRow \union {missing} BY NotesThere, FileAt DEF Base
  <2>2. /\ cat[k] = missing => cat'[k] = missing
        /\ cat[k] # missing => cat'[k] # missing /\ cat'[k].text = cat[k].text /\ cat'[k].rev = cat[k].rev
      BY <2>1, RowFollows
  <2> QED BY <1>2, <2>2 DEF Bound
<1> QED BY <1>1, <1>2

LEMMA OwnerMoves ==
  ASSUME seals' = seals, \A n \in Notes \ {Owner} : cat'[n] = cat[n]
  PROVE  \A n \in Entries : Bound(n) => Bound(n)'
BY NotesThere DEF Bound

LEMMA VocabularyKeepsApprovals ==
  ASSUME Base, TextsKept, ApprovalsKept, Vocabulary
  PROVE  ApprovalsKept'
<1>0. \A m : SameRevisions(m, m) BY SameRevision
<1>p. ASSUME NEW p, NEW op, AtV3(p, op), p \notin NoNote
      PROVE  Post /\ mem # missing /\ call.note \in Entries /\ E.rev = 1
  <2>1. FromPoint(p, op) /\ tool = "v3" BY <1>p, AtFrom DEF AtV3
  <2>2. mem # missing /\ call.note \in Entries BY <1>p, <2>1 DEF FromPoint
  <2> QED BY <2>1, <2>2, PostPlanned DEF FromPoint, TextsKept, ApprovalsKept, FirstRevision, E
<1>1. CASE ApplyVocabulary
  <2>1. SameRevisions(mem', journal) BY <1>1, ApplyVocabularyDoes DEF SameRevisions
  <2> QED BY <1>0, <1>1, <2>1, ApplyVocabularyDoes, RowsSame, ApprovalsFollow
<1>2. CASE WriteFrontmatter
  <2>1. Post BY <1>p, <1>2 DEF WriteFrontmatter, NoNote
  <2> QED BY <1>0, <1>2, <2>1, WriteFrontmatterDoes, RowsSame, ApprovalsFollow
<1>15. CASE ReadFrontmatter BY <1>0, <1>15, ReadFrontmatterDoes, RowsSame, ApprovalsFollow
<1>16. CASE ReadRestored BY <1>0, <1>16, ReadRestoredDoes, RowsSame, ApprovalsFollow
<1>3. CASE KeepFrontmatter BY <1>0, <1>3, KeepFrontmatterDoes, RowsSame, ApprovalsFollow
<1>4. CASE JournalFrontmatter
  <2>1. SameRevisions(mem', mem) BY <1>4, JournalFrontmatterDoes, EntryKeepsRevision, WithPhase DEF Phase
  <2> QED BY <1>0, <1>4, <2>1, JournalFrontmatterDoes, RowsSame, ApprovalsFollow DEF FromPoint
<1>5. CASE MigrateNoteVocabulary
  <2>1. Post /\ call.note \in Entries /\ E.rev = 1 BY <1>p, <1>5 DEF MigrateNoteVocabulary, NoNote
  <2>2. /\ tool = "v3" /\ Migratable /\ E.post \in Text /\ E \in ManifestEntry
        /\ cat'[call.note] = [place |-> "old", rev |-> E.rev, text |-> E.post]
        /\ \A n \in Notes \ {call.note} : cat'[n] = cat[n] /\ seals'[n] = seals[n]
        /\ seals'[call.note] = IF cat[call.note] # missing /\ cat[call.note].text = E.pre
                               THEN Moved(seals[call.note], E.rev, E.pre, E.post)
                               ELSE seals[call.note]
        /\ UNCHANGED <<tool, journal, mem, touched>>
      BY <1>5, <2>1, MigrateNoteVocabularyDoes
  <2>3. cat'[call.note] # missing /\ cat'[call.note].rev = 1 /\ cat'[call.note].text = E.post
    <3>1. [place |-> "old", rev |-> 1, text |-> E.post] \in CatalogRow BY <2>2 DEF CatalogRow, Places, Revision
    <3> QED BY <2>1, <2>2, <3>1, Missing
  <2>4. ASSUME Bound(call.note) PROVE seals'[call.note] \subseteq {[rev |-> 1, text |-> E.post]}
    <3>1. CASE cat[call.note] = missing BY <2>2, <2>4, <3>1 DEF Bound
    <3>2. CASE cat[call.note] # missing /\ cat[call.note].text = E.pre
      <4>1. seals'[call.note] = Moved(seals[call.note], 1, E.pre, E.post) BY <2>1, <2>2, <3>2
      <4>2. seals[call.note] \subseteq {[rev |-> 1, text |-> E.pre]} BY <2>4, <3>2 DEF Bound
      <4>3. [[rev |-> 1, text |-> E.pre] EXCEPT !.text = E.post] = [rev |-> 1, text |-> E.post] OBVIOUS
      <4> QED BY <4>1, <4>2, <4>3 DEF Moved
    <3>3. CASE cat[call.note] # missing /\ cat[call.note].text # E.pre
      <4>1. cat[call.note].text = E.post BY <2>2, <3>3 DEF Migratable, Matches
      <4> QED BY <2>2, <2>4, <3>3, <4>1 DEF Bound
    <3> QED BY <3>1, <3>2, <3>3
  <2>5. \A n \in Entries : Bound(n) => Bound(n)'
    <3>1. ASSUME NEW n \in Entries, n = call.note, Bound(n) PROVE Bound(n)'
        BY <2>3, <2>4, <3>1 DEF Bound
    <3>2. ASSUME NEW n \in Entries, n # call.note, Bound(n) PROVE Bound(n)'
        BY <2>2, <3>2, NotesThere DEF Bound
    <3> QED BY <3>1, <3>2
  <2> QED BY <1>0, <2>2, <2>5, ApprovalsFollow
<1>6. CASE VocabularyConflict BY <1>0, <1>6, VocabularyConflictDoes, RowsSame, ApprovalsFollow DEF Closed
<1>7. CASE JournalPhase
  <2>1. PICK t \in Phase : Becomes([E EXCEPT !.phase = t])
      BY <1>7, JournalPhaseDoes DEF Phase
  <2>2. E \in ManifestEntry /\ mem # missing BY <1>7, JournalPhaseDoes DEF FromPoint
  <2>3. SameRevisions(mem', mem) BY <2>1, <2>2, EntryKeepsRevision, WithPhase
  <2> QED BY <1>0, <1>7, <2>2, <2>3, JournalPhaseDoes, RowsSame, ApprovalsFollow
<1>8. CASE EntryDone BY <1>0, <1>8, EntryDoneDoes, RowsSame, ApprovalsFollow
<1>9. CASE RollbackVocabulary BY <1>0, <1>9, RollbackVocabularyDoes, RowsSame, ApprovalsFollow
<1>10. CASE RestoreFrontmatter BY <1>0, <1>10, RestoreFrontmatterDoes, RowsSame, ApprovalsFollow
<1>11. CASE RollbackNoteVocabulary
  <2>1. Post /\ call.note \in Entries /\ E.rev = 1 BY <1>p, <1>11 DEF RollbackNoteVocabulary, NoNote
  <2>2. /\ tool = "v3" /\ Unmigratable /\ E.post \in Text /\ E \in ManifestEntry
        /\ cat'[call.note] = IF E.existed THEN [place |-> "old", rev |-> E.rev, text |-> E.pre] ELSE missing
        /\ \A n \in Notes \ {call.note} : cat'[n] = cat[n] /\ seals'[n] = seals[n]
        /\ seals'[call.note] = IF E.existed /\ cat[call.note].text = E.post
                               THEN Moved(seals[call.note], E.rev, E.post, E.pre)
                               ELSE seals[call.note]
        /\ UNCHANGED <<tool, journal, mem, touched>>
      BY <1>11, <2>1, RollbackNoteVocabularyDoes
  <2>3. E.existed => cat'[call.note] # missing /\ cat'[call.note].rev = 1 /\ cat'[call.note].text = E.pre
    <3>1. E.pre \in Text BY <2>2, EntryFields
    <3>2. [place |-> "old", rev |-> 1, text |-> E.pre] \in CatalogRow BY <3>1 DEF CatalogRow, Places, Revision
    <3> QED BY <2>1, <2>2, <3>2, Missing
  <2>4. ASSUME Bound(call.note), E.existed PROVE seals'[call.note] \subseteq {[rev |-> 1, text |-> E.pre]}
    <3>1. cat[call.note] # missing /\ cat[call.note].text \in {E.pre, E.post} BY <2>2, <2>4 DEF Unmigratable, Matches
    <3>2. CASE cat[call.note].text = E.post
      <4>1. seals'[call.note] = Moved(seals[call.note], 1, E.post, E.pre) BY <2>1, <2>2, <2>4, <3>2
      <4>2. seals[call.note] \subseteq {[rev |-> 1, text |-> E.post]} BY <2>4, <3>1, <3>2 DEF Bound
      <4>3. [[rev |-> 1, text |-> E.post] EXCEPT !.text = E.pre] = [rev |-> 1, text |-> E.pre] OBVIOUS
      <4> QED BY <4>1, <4>2, <4>3 DEF Moved
    <3>3. CASE cat[call.note].text # E.post BY <2>2, <2>4, <3>1, <3>3 DEF Bound
    <3> QED BY <3>2, <3>3
  <2>5. ASSUME Bound(call.note), ~E.existed PROVE seals'[call.note] = {}
      BY <2>2, <2>5 DEF Unmigratable, Bound
  <2>6. \A n \in Entries : Bound(n) => Bound(n)'
    <3>1. ASSUME NEW n \in Entries, n = call.note, Bound(n) PROVE Bound(n)'
      <4>1. CASE E.existed BY <2>3, <2>4, <3>1, <4>1 DEF Bound
      <4>2. CASE ~E.existed BY <2>2, <2>5, <3>1, <4>2 DEF Bound
      <4> QED BY <4>1, <4>2
    <3>2. ASSUME NEW n \in Entries, n # call.note, Bound(n) PROVE Bound(n)'
        BY <2>2, <3>2, NotesThere DEF Bound
    <3> QED BY <3>1, <3>2
  <2> QED BY <1>0, <2>2, <2>6, ApprovalsFollow
<1>12. CASE RollbackConflict
  <2>1. Post BY <1>p, <1>12 DEF RollbackConflict, NoNote
  <2> QED BY <1>0, <1>12, <2>1, RollbackConflictDoes, RowsSame, ApprovalsFollow DEF Closed
<1>13. CASE JournalRestored
  <2>1. SameRevisions(mem', mem) BY <1>13, JournalRestoredDoes, EntryKeepsRevision, WithPhase DEF Phase
  <2> QED BY <1>0, <1>13, <2>1, JournalRestoredDoes, RowsSame, ApprovalsFollow DEF FromPoint
<1>14. CASE FinishVocabulary
  <2>1. SameRevisions(journal', mem) BY <1>14, FinishVocabularyDoes DEF SameRevisions
  <2> QED BY <1>0, <1>14, <2>1, FinishVocabularyDoes, RowsSame, ApprovalsFollow DEF Closed
<1> QED BY <1>1, <1>2, <1>3, <1>4, <1>5, <1>6, <1>7, <1>8, <1>9, <1>10, <1>11, <1>12, <1>13, <1>14,
           <1>15, <1>16 DEF Vocabulary

LEMMA RoutesKeepApprovals ==
  ASSUME Base, TextsKept, ApprovalsKept, Routes
  PROVE  ApprovalsKept'
<1>0. \A m : SameRevisions(m, m) BY SameRevision
<1>r. \A e \in ManifestEntry : [e EXCEPT !.skipped = TRUE].rev = e.rev BY WithSkipped
<1>u. SUFFICES ASSUME tool = "sumarios" PROVE ApprovalsKept'
    BY RoutesAreMoves DEF ApprovalsKept, Moving
<1>b. ASSUME NEW p, NEW op, FromPoint(p, op), p \notin NoNote PROVE mem # missing /\ call.note \in Entries
    BY <1>b DEF FromPoint
<1>n. {"entry", "rename", "journal_move", "relocate", "moved"} \cap NoNote = {} BY DEF NoNote
<1>1. CASE ApproveManifest
  <2>1. SameRevisions(journal', journal) BY <1>1, ApproveManifestDoes DEF SameRevisions
  <2> QED BY <1>0, <1>1, <2>1, ApproveManifestDoes, RowsSame, ApprovalsFollow
<1>2. CASE ApplyMoves BY <1>0, <1>2, ApplyMovesDoes, RowsSame, ApprovalsFollow
<1>3. CASE CheckMove BY <1>0, <1>3, CheckMoveDoes, RowsSame, ApprovalsFollow
<1>4. CASE RefuseMove
  <2> DEFINE e == [E EXCEPT !.skipped = TRUE]
  <2>1. /\ E \in ManifestEntry /\ FromPoint("entry", "apply") /\ Closed
        /\ journal'.entry[call.note] = e
        /\ \A n \in Entries \ {call.note} : journal'.entry[n] = mem.entry[n]
        /\ UNCHANGED <<tool, cat, seals, touched>>
      BY <1>4, <1>u, RefuseMoveDoes
  <2>2. e.rev = E.rev BY <1>r, <2>1
  <2> HIDE DEF e
  <2>3. SameRevisions(journal', mem) BY <2>1, <2>2 DEF SameRevisions, E
  <2> QED BY <2>1, <2>3, RowsSame, ApprovalsFollow DEF FromPoint, Closed
<1>5. CASE Rename BY <1>0, <1>5, RenameDoes, RowsSame, ApprovalsFollow
<1>6. CASE JournalMove
  <2>1. SameRevisions(mem', mem) BY <1>6, JournalMoveDoes, EntryKeepsRevision, WithPhase DEF Phase
  <2> QED BY <1>0, <1>6, <2>1, JournalMoveDoes, RowsSame, ApprovalsFollow DEF FromPoint
<1>7. CASE Relocate
  <2>1. /\ FromPoint("relocate", "apply") /\ cat'[call.note] = Relocated(cat[call.note], "new")
        /\ \A n \in Notes \ {call.note} : cat'[n] = cat[n]
        /\ UNCHANGED <<tool, seals, journal, mem, touched>>
      BY <1>7, RelocateDoes
  <2>2. call.note \in Entries /\ "new" \in Places BY <1>b, <1>n, <2>1, NotesThere
  <2>3. \A n \in Entries : Bound(n) => Bound(n)' BY <1>u, <2>1, <2>2, RowMoves
  <2> QED BY <1>0, <2>1, <2>3, ApprovalsFollow
<1>8. CASE RelocateRefused
  <2> DEFINE e == [E EXCEPT !.phase = "planned", !.skipped = TRUE]
  <2>1. /\ E \in ManifestEntry /\ FromPoint("relocate", "apply") /\ Closed
        /\ journal'.entry[call.note] = e
        /\ \A n \in Entries \ {call.note} : journal'.entry[n] = mem.entry[n]
        /\ UNCHANGED <<tool, cat, seals, touched>>
      BY <1>8, RelocateRefusedDoes
  <2>2. e.rev = E.rev BY <2>1, Refused
  <2> HIDE DEF e
  <2>3. SameRevisions(journal', mem) BY <2>1, <2>2 DEF SameRevisions, E
  <2> QED BY <2>1, <2>3, RowsSame, ApprovalsFollow DEF FromPoint, Closed
<1>9. CASE JournalMoved
  <2> DEFINE f == [E EXCEPT !.phase = "identity_committed", !.applied = TRUE, !.post = F.new]
  <2>1. /\ FromPoint("moved", "apply") /\ E \in ManifestEntry /\ F.new \in Text /\ journal' = mem'
        /\ Becomes(f) /\ UNCHANGED <<tool, cat, seals, touched>> /\ mem # missing
      BY <1>9, <1>u, JournalMovedDoes DEF FromPoint
  <2>2. f.rev = E.rev BY <2>1 DEF ManifestEntry
  <2> HIDE DEF f
  <2>3. SameRevisions(mem', mem) BY <2>1, <2>2, EntryKeepsRevision
  <2> QED BY <2>1, <2>3, RowsSame, ApprovalsFollow
<1>24. CASE ReadLinks BY <1>0, <1>24, ReadLinksDoes, RowsSame, ApprovalsFollow
<1>25. CASE LinksConflict BY <1>0, <1>25, LinksConflictDoes, RowsSame, ApprovalsFollow DEF Closed
<1>26. CASE ReadUnlinked BY <1>0, <1>26, ReadUnlinkedDoes, RowsSame, ApprovalsFollow
<1>27. CASE UnlinkConflict BY <1>0, <1>27, UnlinkConflictDoes, RowsSame, ApprovalsFollow
<1>10. CASE RewriteLinks BY <1>0, <1>10, RewriteLinksDoes, RowsSame, ApprovalsFollow
<1>11. CASE RefuseLinks BY <1>0, <1>11, RefuseLinksDoes, RowsSame, ApprovalsFollow DEF Closed
<1>12. CASE CommitLinks
  <2>1. /\ \A n \in Notes \ {Owner} : cat'[n] = cat[n]
        /\ UNCHANGED <<tool, seals, journal, mem, touched>>
      BY <1>12, CommitLinksDoes DEF RowRewritten
  <2>2. \A n \in Entries : Bound(n) => Bound(n)' BY <2>1, OwnerMoves
  <2> QED BY <1>0, <2>1, <2>2, ApprovalsFollow
<1>13. CASE JournalLinks
  <2>1. SameRevisions(mem', mem) BY <1>13, JournalLinksDoes DEF SameRevisions
  <2> QED BY <1>13, <2>1, JournalLinksDoes, RowsSame, ApprovalsFollow DEF FromPoint
<1>14. CASE FinishMoves
  <2>1. /\ FromPoint("next", "apply") /\ mem # missing /\ mem' = missing
        /\ \A n \in Entries : journal'.entry[n] =
              IF n \in call.moved THEN [mem.entry[n] EXCEPT !.phase = "completed"] ELSE mem.entry[n]
        /\ UNCHANGED <<tool, cat, seals, touched>>
      BY <1>14, FinishMovesDoes DEF FromPoint, Closed
  <2>2. mem.entry \in [Entries -> ManifestEntry] BY <2>1, Listings DEF Base
  <2>3. \A n \in Entries : [mem.entry[n] EXCEPT !.phase = "completed"].rev = mem.entry[n].rev
      BY <2>2, WithPhase DEF Phase
  <2>4. SameRevisions(journal', mem) BY <2>1, <2>3 DEF SameRevisions
  <2> QED BY <2>1, <2>4, RowsSame, ApprovalsFollow
<1>15. CASE RollbackMoves BY <1>0, <1>15, RollbackMovesDoes, RowsSame, ApprovalsFollow
<1>16. CASE CheckUndo
  <2>1. UNCHANGED <<tool, cat, seals, journal, mem, touched>> BY <1>16 DEF CheckUndo, rows, history
  <2> QED BY <1>0, <2>1, RowsSame, ApprovalsFollow
<1>17. CASE UndoRename BY <1>0, <1>17, UndoRenameDoes, RowsSame, ApprovalsFollow
<1>18. CASE SkipUndo
  <2>1. SameRevisions(mem', mem) BY <1>18, SkipUndoDoes, EntryKeepsRevision, WithSkipped
  <2> QED BY <1>0, <1>18, <2>1, SkipUndoDoes, RowsSame, ApprovalsFollow DEF FromPoint
<1>19. CASE UndoRelocate
  <2>1. SameRevisions(mem', mem)
    <3>1. (tool # "taxonomy" /\ E.skipped) \in BOOLEAN OBVIOUS
    <3> QED BY <1>19, <3>1, UndoRelocateDoes, EntryKeepsRevision, Undone DEF Phase
  <2>2. /\ FromPoint("relocate", "rollback") /\ RowIs("new", E.post)
        /\ cat'[call.note] = IF cat[call.note] # missing /\ (tool = "sumarios" \/ cat[call.note].text = E.pre)
                              THEN Relocated(cat[call.note], "old") ELSE cat[call.note]
        /\ \A n \in Notes \ {call.note} : cat'[n] = cat[n]
        /\ UNCHANGED <<tool, seals, journal, touched>>
      BY <1>19, <1>u, UndoRelocateDoes
  <2>3. cat'[call.note] = Relocated(cat[call.note], "old") BY <1>u, <2>2 DEF RowIs
  <2>4. call.note \in Entries /\ mem # missing /\ "old" \in Places BY <1>b, <1>n, <2>2, NotesThere
  <2>5. \A n \in Entries : Bound(n) => Bound(n)' BY <1>u, <2>2, <2>3, <2>4, RowMoves
  <2> QED BY <1>0, <2>1, <2>2, <2>4, <2>5, ApprovalsFollow
<1>20. CASE UndoRefused
  <2>1. SameRevisions(mem', mem) BY <1>20, UndoRefusedDoes, EntryKeepsRevision, WithSkipped
  <2> QED BY <1>0, <1>20, <2>1, UndoRefusedDoes, RowsSame, ApprovalsFollow DEF FromPoint
<1>21. CASE UndoLinks BY <1>0, <1>21, UndoLinksDoes, RowsSame, ApprovalsFollow
<1>22. CASE CommitUnlinked
  <2>1. /\ \A n \in Notes \ {Owner} : cat'[n] = cat[n]
        /\ UNCHANGED <<tool, seals, journal, mem, touched>>
      BY <1>22, CommitUnlinkedDoes DEF RowRewritten
  <2>2. \A n \in Entries : Bound(n) => Bound(n)' BY <2>1, OwnerMoves
  <2> QED BY <1>0, <2>1, <2>2, ApprovalsFollow
<1>23. CASE FinishReturn
  <2>1. SameRevisions(journal', mem) BY <1>23, FinishReturnDoes DEF SameRevisions
  <2> QED BY <1>23, <2>1, FinishReturnDoes, RowsSame, ApprovalsFollow DEF Closed
<1> QED BY <1>1, <1>2, <1>3, <1>4, <1>5, <1>6, <1>7, <1>8, <1>9, <1>10, <1>11, <1>12, <1>13, <1>14, <1>15,
           <1>16, <1>17, <1>18, <1>19, <1>20, <1>21, <1>22, <1>23, <1>24, <1>25, <1>26, <1>27 DEF Routes

LEMMA OthersKeepApprovals ==
  ASSUME Base, TextsKept, ApprovalsKept, Schema \/ TakeEntry \/ CallDies \/ PeopleWork \/ UNCHANGED migrationVars
  PROVE  ApprovalsKept'
<1>0. \A m : SameRevisions(m, m) BY SameRevision
<1>1. CASE Schema
  <2>1. Backing /\ tool' = tool BY <1>1, SchemaIsBacking
  <2> QED BY <2>1 DEF ApprovalsKept, Backing
<1>2. CASE TakeEntry BY <1>0, <1>2, TakeEntryDoes, RowsSame, ApprovalsFollow
<1>3. CASE CallDies BY <1>0, <1>3, CallDiesDoes, RowsSame, ApprovalsFollow DEF Closed
<1>4. CASE PeopleWork
  <2>1. PICK n \in Notes : Saved(n) BY <1>4, PeopleWorkDoes
  <2>2. /\ touched' = touched \union {n} /\ \A m \in Notes \ {n} : cat'[m] = cat[m]
        /\ UNCHANGED <<tool, seals, journal, mem>>
      BY <2>1 DEF Saved
  <2>3. \A m \in Entries : m \notin touched' /\ Bound(m) => Bound(m)' BY <2>2, NotesThere DEF Bound
  <2> QED BY <1>0, <2>2, <2>3, ApprovalsFollow
<1>5. CASE UNCHANGED migrationVars
  <2>1. UNCHANGED <<tool, cat, seals, journal, mem, touched>> BY <1>5 DEF migrationVars, rows, history
  <2> QED BY <1>0, <2>1, RowsSame, ApprovalsFollow
<1> QED BY <1>1, <1>2, <1>3, <1>4, <1>5

LEMMA ApprovalsAlways == MigrationSpec => [](Base /\ TextsKept /\ ApprovalsKept)
<1>1. MigrationInit => Base /\ TextsKept /\ ApprovalsKept
  <2> SUFFICES ASSUME MigrationInit PROVE ApprovalsKept BY MigrationStarts
  <2>1. mem = missing /\ FirstRevision(journal) BY PlannedEntries DEF MigrationInit, FirstRevision
  <2>2. ASSUME NEW n \in Entries PROVE Bound(n)
    <3> DEFINE v == [rev |-> 1, text |-> file[Owner].old]
    <3>1. /\ cat[n] \in {missing, [place |-> "old", rev |-> 1, text |-> file[Owner].old]}
          /\ seals[n] \in {{}, {v}}
          /\ cat[n] = missing => seals[n] = {}
        BY <2>2, NotesThere DEF MigrationInit
    <3> QED BY <3>1 DEF Bound
  <2> QED BY <2>1, <2>2 DEF ApprovalsKept
<1>2. Base /\ TextsKept /\ ApprovalsKept /\ [MigrationNext]_migrationVars => (Base /\ TextsKept /\ ApprovalsKept)'
    BY TextsStep, VocabularyKeepsApprovals, RoutesKeepApprovals, OthersKeepApprovals DEF MigrationNext
<1> QED BY <1>1, <1>2, PTL DEF MigrationSpec

(* A human approval follows the note the migrations rewrite or move, with   *)
(* the revision it was given for, through every interruption and undoing.   *)
THEOREM ApprovalsFollowTheirNotes == MigrationSpec => []ApprovalFollows
<1>1. Base /\ TextsKept /\ ApprovalsKept => ApprovalFollows
  <2> SUFFICES ASSUME ApprovalsKept, tool \in {"v3", "sumarios"}, NEW n \in Entries, Untouched(n),
                      cat[n] # missing, seals[n] # {}
               PROVE  [rev |-> cat[n].rev, text |-> cat[n].text] \in seals[n]
      BY DEF ApprovalFollows
  <2>1. cat[n].rev = 1 /\ seals[n] \subseteq {[rev |-> 1, text |-> cat[n].text]}
      BY DEF ApprovalsKept, Untouched, Bound
  <2> QED BY <2>1
<1> QED BY <1>1, ApprovalsAlways, PTL

-----------------------------------------------------------------------------
(* The journal of the vocabulary. *)

LEMMA VocabularyOther ==
  ASSUME NEW n, VocabularyEntry(n), call.op # "idle" => call.note # n, call'.op # "idle" => call'.note # n,
         journal'.entry[n] = journal.entry[n], file'[n].old = file[n].old, cat'[n] = cat[n], torn' = torn
  PROVE  VocabularyEntry(n)'
BY DEF VocabularyEntry, Handling, RowBefore, RowAfter

\* The entry in hand, before and after a step.
LEMMA VocabularyEntries ==
  ASSUME Base, VocabularyKept, tool = "v3", UNCHANGED <<tool, touched, torn>>,
         \A n \in Entries : n # call.note \/ call.op = "idle" =>
            /\ journal'.entry[n] = journal.entry[n] /\ file'[n].old = file[n].old /\ cat'[n] = cat[n]
            /\ call'.op # "idle" => call'.note # n,
         call.op # "idle" => \A n \in Entries : n = call.note =>
            /\ VocabularyPhase(journal'.entry[n])
            /\ Untouched(n) /\ VocabularyEntry(n) => VocabularyEntry(n)',
         VocabularyCall'
  PROVE  VocabularyKept'
<1>1. /\ \A n \in Entries : VocabularyPhase(journal.entry[n])
      /\ \A n \in Entries : Untouched(n) => VocabularyEntry(n)
    BY DEF VocabularyKept
<1>2. ASSUME NEW n \in Entries PROVE VocabularyPhase(journal'.entry[n])
  <2>1. CASE n # call.note \/ call.op = "idle" BY <1>1, <2>1
  <2>2. CASE n = call.note /\ call.op # "idle" BY <2>2
  <2> QED BY <2>1, <2>2
<1>3. ASSUME NEW n \in Entries, Untouched(n)' PROVE VocabularyEntry(n)'
  <2>1. Untouched(n) /\ VocabularyEntry(n) BY <1>1, <1>3 DEF Untouched
  <2>2. CASE n # call.note \/ call.op = "idle" BY <2>1, <2>2, VocabularyOther
  <2>3. CASE n = call.note /\ call.op # "idle" BY <2>1, <2>3
  <2> QED BY <2>2, <2>3
<1>5. (\A n \in Entries : VocabularyPhase(journal.entry[n]))' BY <1>2
<1> QED BY <1>3, <1>5 DEF VocabularyKept

LEMMA InHandNow ==
  ASSUME Base, TextsKept, VocabularyKept, NEW p, NEW op, AtV3(p, op), p \notin NoNote
  PROVE  /\ FromPoint(p, op) /\ tool = "v3" /\ mem # missing /\ call.note \in Entries /\ call.note \notin call.todo
         /\ Post /\ E \in ManifestEntry /\ E.pre \in Text /\ E.post \in Text /\ E.post = Migrated(E.pre)
         /\ E.pre # E.post /\ E = journal.entry[call.note]
         /\ mem.entry = journal.entry /\ mem.status # "rolled_back" /\ VocabularyCall
         /\ VocabularyPhase(E)
         /\ Untouched(call.note) => VocabularyEntry(call.note)
<1>1. FromPoint(p, op) /\ tool = "v3" BY AtFrom DEF AtV3
<1>2. mem # missing /\ call.note \in Entries /\ call.note \notin call.todo BY <1>1 DEF FromPoint
<1>3. E \in ManifestEntry BY <1>2, EntryTyped DEF Base
<1>4. Post /\ E.post = Migrated(E.pre) BY <1>1, <1>2, PostPlanned DEF TextsKept
<1>5. VocabularyCall /\ mem.entry = journal.entry /\ mem.status # "rolled_back"
    BY <1>1, <1>2 DEF VocabularyKept, VocabularyCall
<1>6. E = journal.entry[call.note] BY <1>5 DEF E
<1>7. VocabularyPhase(E) /\ (Untouched(call.note) => VocabularyEntry(call.note))
    BY <1>1, <1>2, <1>6 DEF VocabularyKept
<1>8. E.pre \in Text /\ E.post \in Text BY <1>3, <1>4, EntryFields DEF Post
<1>9. E.pre # E.post BY <1>4, <1>7, <1>8, Rewrites DEF VocabularyPhase
<1> QED BY <1>1, <1>2, <1>3, <1>4, <1>5, <1>6, <1>7, <1>8, <1>9

\* A step of the entry in hand that leaves the journal.
LEMMA CallOnward ==
  ASSUME VocabularyCall, UNCHANGED <<journal, mem>>, call.op # "idle",
         call'.op = call.op, call'.todo = call.todo, call'.note = call.note,
         call.pc \in {"entry", "unwrite", "restore", "restored"}
           <=> call'.pc \in {"entry", "unwrite", "restore", "restored"},
         call'.pc \in {"unwrite", "restore", "restored"} => Running("rollback")
  PROVE  VocabularyCall'
BY DEF VocabularyCall, Running, Handling

LEMMA CallClosed ==
  ASSUME Closed, journal'.status = "rolled_back" => \A n \in Entries : journal'.entry[n].phase = "planned"
  PROVE  VocabularyCall'
BY DEF VocabularyCall, Running, Closed, NoCall

LEMMA EntryJournalled ==
  ASSUME MigrationTypeOK, MigrationTypeOK', mem # missing, NEW f, Becomes(f), journal' = mem', mem.entry = journal.entry
  PROVE  /\ \A n \in Entries : n # call.note => journal'.entry[n] = journal.entry[n]
         /\ journal'.entry[call.note] = f /\ journal'.status = mem.status /\ mem' # missing
BY DEF Becomes

LEMMA ApplyingKeepsVocabulary ==
  ASSUME Base, TextsKept, VocabularyKept,
         ReadFrontmatter \/ WriteFrontmatter \/ KeepFrontmatter \/ JournalFrontmatter \/ MigrateNoteVocabulary
         \/ VocabularyConflict \/ JournalPhase \/ EntryDone
  PROVE  VocabularyKept'
<1> USE DEF FromPoint, ToPoint
<1>0. {"entry", "write", "unwrite", "journal", "phase", "committed", "restore", "restored"} \cap NoNote = {}
    BY DEF NoNote
<1>1. CASE WriteFrontmatter
  <2>1. AtV3("write", "apply") BY <1>1 DEF WriteFrontmatter
  <2>2. /\ FromPoint("write", "apply") /\ tool = "v3" /\ call.note \in Entries /\ Post /\ E.pre # E.post
        /\ E = journal.entry[call.note] /\ VocabularyCall /\ VocabularyPhase(E)
        /\ Untouched(call.note) => VocabularyEntry(call.note)
      BY <1>0, <2>1, InHandNow
  <2>3. /\ ToPoint("journal") /\ FileBecomes(call.note, E.post)
        /\ UNCHANGED <<tool, cat, journal, mem, touched, torn>>
      BY <1>1, <2>2, WriteFrontmatterDoes
  <2>4. VocabularyCall' 
    <3>1. ~Running("rollback") BY <2>2 DEF Running
    <3> QED BY <2>2, <2>3, <3>1 DEF VocabularyCall, Running
  <2>5. ASSUME NEW n \in Entries, n = call.note, VocabularyEntry(n) PROVE VocabularyEntry(n)'
      BY <2>2, <2>3, <2>5 DEF VocabularyEntry, Handling, RowBefore, RowAfter, FileBecomes, F
  <2>6. \A n \in Entries : n # call.note => file'[n] = file[n] BY <2>3, NotesThere DEF FileBecomes
  <2> QED BY <2>2, <2>3, <2>4, <2>5, <2>6, VocabularyEntries
<1>8. CASE ReadFrontmatter
  <2>1. AtV3("entry", "apply") BY <1>8 DEF ReadFrontmatter
  <2>2. /\ FromPoint("entry", "apply") /\ tool = "v3" /\ call.note \in Entries
        /\ E = journal.entry[call.note] /\ VocabularyCall /\ VocabularyPhase(E)
        /\ Untouched(call.note) => VocabularyEntry(call.note)
      BY <1>0, <2>1, InHandNow
  <2>3. ToPoint("write") /\ UNCHANGED <<tool, file, cat, journal, mem, touched, torn>>
      BY <1>8, ReadFrontmatterDoes
  <2>4. VocabularyCall'
    <3>1. ~Running("rollback") BY <2>2 DEF Running
    <3> QED BY <2>2, <2>3, <3>1 DEF VocabularyCall, Running
  <2>5. ASSUME NEW n \in Entries, n = call.note, VocabularyEntry(n) PROVE VocabularyEntry(n)'
      BY <2>2, <2>3, <2>5 DEF VocabularyEntry, Handling, RowBefore, RowAfter
  <2> QED BY <2>2, <2>3, <2>4, <2>5, VocabularyEntries
<1>2. CASE KeepFrontmatter
  <2>1. AtV3("entry", "apply") BY <1>2 DEF KeepFrontmatter
  <2>2. /\ FromPoint("entry", "apply") /\ tool = "v3" /\ call.note \in Entries /\ Post /\ E.pre # E.post
        /\ E = journal.entry[call.note] /\ VocabularyCall /\ VocabularyPhase(E)
        /\ Untouched(call.note) => VocabularyEntry(call.note)
      BY <1>0, <2>1, InHandNow
  <2>3. /\ ToPoint(IF F.old = E.post /\ E.phase = "planned" THEN "journal" ELSE "phase") /\ F.old # E.pre
        /\ UNCHANGED <<tool, file, cat, journal, mem, touched, torn>>
      BY <1>2, KeepFrontmatterDoes
  <2>4. VocabularyCall' 
    <3>1. ~Running("rollback") BY <2>2 DEF Running
    <3> QED BY <2>2, <2>3, <3>1 DEF VocabularyCall, Running
  <2>5. ASSUME NEW n \in Entries, n = call.note, VocabularyEntry(n) PROVE VocabularyEntry(n)'
      BY <2>2, <2>3, <2>5 DEF VocabularyEntry, Handling, RowBefore, RowAfter, F
  <2> QED BY <2>2, <2>3, <2>4, <2>5, VocabularyEntries
<1>3. CASE JournalFrontmatter
  <2>1. AtV3("journal", "apply") BY <1>3 DEF JournalFrontmatter
  <2>2. /\ FromPoint("journal", "apply") /\ tool = "v3" /\ call.note \in Entries /\ E \in ManifestEntry
        /\ E = journal.entry[call.note] /\ VocabularyCall /\ VocabularyPhase(E)
        /\ mem.entry = journal.entry /\ mem.status # "rolled_back"
        /\ Untouched(call.note) => VocabularyEntry(call.note)
      BY <1>0, <2>1, InHandNow
  <2> DEFINE f == [E EXCEPT !.phase = "frontmatter_written"]
  <2>3. /\ ToPoint("phase") /\ journal' = mem' /\ Becomes(f) /\ MigrationTypeOK'
        /\ UNCHANGED <<tool, file, cat, touched, torn>>
      BY <1>3, JournalFrontmatterDoes DEF Base
  <2>4. f.phase = "frontmatter_written" /\ f.pre = E.pre /\ f.post = E.post /\ f.existed = E.existed /\ f.rev = E.rev
      BY <2>2, WithPhase DEF Phase
  <2> HIDE DEF f
  <2>5. /\ \A n \in Entries : n # call.note => journal'.entry[n] = journal.entry[n]
        /\ journal'.entry[call.note] = f /\ journal'.status = mem.status
      BY <2>2, <2>3, EntryJournalled DEF Base
  <2>6. VocabularyCall' BY <2>2, <2>3, <2>5 DEF VocabularyCall, Running
  <2>7. VocabularyPhase(f) BY <2>2, <2>4 DEF VocabularyPhase, Written
  <2>8. ASSUME NEW n \in Entries, n = call.note, VocabularyEntry(n) PROVE VocabularyEntry(n)'
      BY <2>2, <2>3, <2>4, <2>5, <2>8 DEF VocabularyEntry, Handling, RowBefore, RowAfter, Committed
  <2> QED BY <2>2, <2>3, <2>5, <2>6, <2>7, <2>8, VocabularyEntries
<1>4. CASE MigrateNoteVocabulary
  <2>1. AtV3("phase", "apply") BY <1>4 DEF MigrateNoteVocabulary
  <2>2. /\ FromPoint("phase", "apply") /\ tool = "v3" /\ call.note \in Entries /\ Post /\ E.pre # E.post
        /\ E = journal.entry[call.note] /\ VocabularyCall /\ VocabularyPhase(E)
        /\ Untouched(call.note) => VocabularyEntry(call.note)
      BY <1>0, <2>1, InHandNow
  <2>3. /\ ToPoint("committed") /\ E.phase = "frontmatter_written"
        /\ cat'[call.note] = RowAfter(E)
        /\ \A n \in Notes \ {call.note} : cat'[n] = cat[n]
        /\ UNCHANGED <<tool, file, journal, mem, touched, torn>>
      BY <1>4, <2>2, MigrateNoteVocabularyDoes DEF RowAfter
  <2>4. VocabularyCall' 
    <3>1. ~Running("rollback") BY <2>2 DEF Running
    <3> QED BY <2>2, <2>3, <3>1 DEF VocabularyCall, Running
  <2>5. ASSUME NEW n \in Entries, n = call.note, VocabularyEntry(n) PROVE VocabularyEntry(n)'
      BY <2>2, <2>3, <2>5 DEF VocabularyEntry, Handling, Written, Committed
  <2>6. \A n \in Entries : n # call.note => cat'[n] = cat[n] BY <2>3, NotesThere
  <2> QED BY <2>2, <2>3, <2>4, <2>5, <2>6, VocabularyEntries
<1>5. CASE VocabularyConflict
  <2>1. AtV3("phase", "apply") /\ E.phase = "frontmatter_written" BY <1>5 DEF VocabularyConflict
  <2>2. /\ FromPoint("phase", "apply") /\ tool = "v3" /\ call.note \in Entries
        /\ E = journal.entry[call.note] /\ VocabularyCall /\ VocabularyPhase(E)
        /\ Untouched(call.note) => VocabularyEntry(call.note)
      BY <1>0, <2>1, InHandNow
  <2>3. Closed /\ UNCHANGED <<tool, file, cat, journal, touched, torn>>
      BY <1>5, VocabularyConflictDoes
  <2>4. call'.op = "idle" BY <2>3 DEF Closed, NoCall
  <2>5. VocabularyCall' BY <2>2, <2>3, CallClosed DEF VocabularyCall
  <2>6. ASSUME NEW n \in Entries, n = call.note, VocabularyEntry(n) PROVE VocabularyEntry(n)'
      BY <2>1, <2>2, <2>3, <2>4, <2>6 DEF VocabularyEntry, Handling, RowBefore, RowAfter
  <2> QED BY <2>2, <2>3, <2>4, <2>5, <2>6, VocabularyEntries
<1>6. CASE JournalPhase
  <2>0. PICK p \in {"committed", "phase"}, t \in {"catalog_committed", "derived_marked", "completed"} :
          /\ AtV3(p, "apply") /\ Becomes([E EXCEPT !.phase = t])
          /\ \/ p = "committed" /\ E.phase = "frontmatter_written" /\ t = "catalog_committed"
             \/ p = "phase" /\ E.phase \in Committed
    <3>1. /\ tool = "v3" /\ call.op = "apply"
          /\ \/ call.pc = "committed" /\ E.phase = "frontmatter_written" /\ Becomes([E EXCEPT !.phase = "catalog_committed"])
             \/ call.pc = "phase" /\ E.phase = "catalog_committed" /\ Becomes([E EXCEPT !.phase = "derived_marked"])
             \/ call.pc = "phase" /\ E.phase = "derived_marked" /\ Becomes([E EXCEPT !.phase = "completed"])
        BY <1>6, JournalPhaseDoes
    <3>2. AtV3(call.pc, "apply") BY <3>1 DEF AtV3, AtPoint, Running
    <3> QED BY <3>1, <3>2 DEF Committed
  <2>2. /\ FromPoint(p, "apply") /\ tool = "v3" /\ call.note \in Entries /\ E \in ManifestEntry
        /\ E = journal.entry[call.note] /\ VocabularyCall /\ VocabularyPhase(E)
        /\ mem.entry = journal.entry /\ mem.status # "rolled_back"
        /\ Untouched(call.note) => VocabularyEntry(call.note)
      BY <1>0, <2>0, InHandNow
  <2> DEFINE f == [E EXCEPT !.phase = t]
  <2>3. /\ ToPoint("phase") /\ journal' = mem' /\ Becomes(f) /\ MigrationTypeOK'
        /\ UNCHANGED <<tool, file, cat, touched, torn>>
      BY <1>6, <2>0, JournalPhaseDoes DEF Base
  <2>4. f.phase = t /\ f.pre = E.pre /\ f.post = E.post /\ f.existed = E.existed /\ f.rev = E.rev
      BY <2>0, <2>2, WithPhase DEF Phase
  <2> HIDE DEF f
  <2>5. /\ \A n \in Entries : n # call.note => journal'.entry[n] = journal.entry[n]
        /\ journal'.entry[call.note] = f /\ journal'.status = mem.status
      BY <2>2, <2>3, EntryJournalled DEF Base
  <2>6. VocabularyCall' BY <2>2, <2>3, <2>5 DEF VocabularyCall, Running
  <2>7. VocabularyPhase(f) BY <2>0, <2>2, <2>4 DEF VocabularyPhase, Written, Committed
  <2>8. ASSUME NEW n \in Entries, n = call.note, VocabularyEntry(n) PROVE VocabularyEntry(n)'
      BY <2>0, <2>2, <2>3, <2>4, <2>5, <2>8 DEF VocabularyEntry, Handling, RowBefore, RowAfter, Written, Committed
  <2> QED BY <2>2, <2>3, <2>5, <2>6, <2>7, <2>8, VocabularyEntries
<1>7. CASE EntryDone
  <2>1. AtV3("phase", "apply") BY <1>7 DEF EntryDone
  <2>2. /\ FromPoint("phase", "apply") /\ tool = "v3" /\ call.note \in Entries
        /\ E = journal.entry[call.note] /\ VocabularyCall /\ VocabularyPhase(E)
        /\ Untouched(call.note) => VocabularyEntry(call.note)
      BY <1>0, <2>1, InHandNow
  <2>3. ToPoint("next") /\ UNCHANGED <<tool, file, cat, journal, mem, touched, torn>>
      BY <1>7, EntryDoneDoes
  <2>4. VocabularyCall' 
    <3>1. ~Running("rollback") BY <2>2 DEF Running
    <3> QED BY <2>2, <2>3, <3>1 DEF VocabularyCall, Running
  <2>5. ASSUME NEW n \in Entries, n = call.note, VocabularyEntry(n) PROVE VocabularyEntry(n)'
      BY <2>2, <2>3, <2>5 DEF VocabularyEntry, Handling, RowBefore, RowAfter
  <2> QED BY <2>2, <2>3, <2>4, <2>5, VocabularyEntries
<1> QED BY <1>1, <1>2, <1>3, <1>4, <1>5, <1>6, <1>7, <1>8

LEMMA ReturningKeepsVocabulary ==
  ASSUME Base, TextsKept, VocabularyKept,
         ReadRestored \/ RestoreFrontmatter \/ RollbackNoteVocabulary \/ RollbackConflict \/ JournalRestored
  PROVE  VocabularyKept'
<1> USE DEF FromPoint, ToPoint
<1>0. {"entry", "write", "unwrite", "journal", "phase", "committed", "restore", "restored"} \cap NoNote = {}
    BY DEF NoNote
<1>5. CASE ReadRestored
  <2>1. AtV3("entry", "rollback") BY <1>5 DEF ReadRestored
  <2>2. /\ FromPoint("entry", "rollback") /\ tool = "v3" /\ call.note \in Entries
        /\ E = journal.entry[call.note] /\ VocabularyCall /\ VocabularyPhase(E)
        /\ Untouched(call.note) => VocabularyEntry(call.note)
      BY <1>0, <2>1, InHandNow
  <2>3. /\ ToPoint("unwrite") /\ call'.saw = F.old
        /\ UNCHANGED <<tool, file, cat, journal, mem, touched, torn>>
      BY <1>5, ReadRestoredDoes
  <2>4. VocabularyCall' BY <2>2, <2>3, CallOnward DEF Running
  <2>5. ASSUME NEW n \in Entries, n = call.note, VocabularyEntry(n) PROVE VocabularyEntry(n)'
      BY <2>2, <2>3, <2>5 DEF VocabularyEntry, Handling, RowBefore, RowAfter, F
  <2> QED BY <2>2, <2>3, <2>4, <2>5, VocabularyEntries
<1>1. CASE RestoreFrontmatter
  <2>1. AtV3("unwrite", "rollback") BY <1>1 DEF RestoreFrontmatter
  <2>2. /\ FromPoint("unwrite", "rollback") /\ tool = "v3" /\ call.note \in Entries /\ E.pre # E.post
        /\ E = journal.entry[call.note] /\ VocabularyCall /\ VocabularyPhase(E)
        /\ Untouched(call.note) => VocabularyEntry(call.note)
      BY <1>0, <2>1, InHandNow
  <2>3. /\ ToPoint("restore") /\ call'.saw = call.saw
        /\ FileBecomes(call.note, IF call.saw = E.post THEN E.pre ELSE F.old)
        /\ UNCHANGED <<tool, cat, journal, mem, touched, torn>>
      BY <1>1, RestoreFrontmatterDoes
  <2>4. VocabularyCall' BY <2>2, <2>3, CallOnward DEF Running
  <2>5. E.phase # "planned" BY <2>2 DEF VocabularyCall, Running, Handling
  <2>6. ASSUME NEW n \in Entries, n = call.note, VocabularyEntry(n) PROVE VocabularyEntry(n)'
    <3>1. E.phase \in Written BY <2>2, <2>5 DEF VocabularyPhase
    <3>2. F.old = call.saw /\ F.old \in {E.pre, E.post} BY <2>2, <2>6 DEF VocabularyEntry, Handling, F
    <3>3. file'[n].old = E.pre BY <2>2, <2>3, <2>6, <3>2 DEF FileBecomes
    <3>4. torn # "rollback" => F.old = E.post BY <2>2, <2>6, <3>1 DEF VocabularyEntry, Handling, F
    <3> QED BY <2>2, <2>3, <2>5, <2>6, <3>2, <3>3, <3>4 DEF VocabularyEntry, Handling, RowBefore, RowAfter
  <2>7. \A n \in Entries : n # call.note => file'[n] = file[n] BY <2>3, NotesThere DEF FileBecomes
  <2> QED BY <2>2, <2>3, <2>4, <2>6, <2>7, VocabularyEntries
<1>2. CASE RollbackNoteVocabulary
  <2>1. AtV3("restore", "rollback") BY <1>2 DEF RollbackNoteVocabulary
  <2>2. /\ FromPoint("restore", "rollback") /\ tool = "v3" /\ call.note \in Entries /\ Post
        /\ E = journal.entry[call.note] /\ VocabularyCall /\ VocabularyPhase(E)
        /\ Untouched(call.note) => VocabularyEntry(call.note)
      BY <1>0, <2>1, InHandNow
  <2>3. /\ ToPoint("restored") /\ cat'[call.note] = RowBefore(E)
        /\ \A n \in Notes \ {call.note} : cat'[n] = cat[n]
        /\ UNCHANGED <<tool, file, journal, mem, touched, torn>>
      BY <1>2, <2>2, RollbackNoteVocabularyDoes DEF RowBefore
  <2>4. VocabularyCall' BY <2>2, <2>3, CallOnward DEF Running
  <2>5. E.phase # "planned" BY <2>2 DEF VocabularyCall, Running, Handling
  <2>6. ASSUME NEW n \in Entries, n = call.note, VocabularyEntry(n) PROVE VocabularyEntry(n)'
      BY <2>2, <2>3, <2>5, <2>6 DEF VocabularyEntry, Handling
  <2>7. \A n \in Entries : n # call.note => cat'[n] = cat[n] BY <2>3, NotesThere
  <2> QED BY <2>2, <2>3, <2>4, <2>6, <2>7, VocabularyEntries
<1>3. CASE RollbackConflict
  <2>1. AtV3("restore", "rollback") BY <1>3 DEF RollbackConflict
  <2>2. /\ FromPoint("restore", "rollback") /\ tool = "v3" /\ call.note \in Entries /\ Post
        /\ E = journal.entry[call.note] /\ VocabularyCall /\ VocabularyPhase(E)
        /\ Untouched(call.note) => VocabularyEntry(call.note)
      BY <1>0, <2>1, InHandNow
  <2>3. /\ Closed /\ FileBecomes(call.note, IF call.saw = E.post THEN E.post ELSE F.old)
        /\ UNCHANGED <<tool, cat, journal, touched, torn>>
      BY <1>3, <2>2, RollbackConflictDoes
  <2>4. call'.op = "idle" BY <2>3 DEF Closed, NoCall
  <2>5. VocabularyCall' BY <2>2, <2>3, CallClosed DEF VocabularyCall
  <2>6. E.phase # "planned" BY <2>2 DEF VocabularyCall, Running, Handling
  <2>7. ASSUME NEW n \in Entries, n = call.note, VocabularyEntry(n) PROVE VocabularyEntry(n)'
    <3>1. file'[n].old \in {E.pre, E.post} /\ (torn # "rollback" => file'[n].old = E.post)
        BY <2>2, <2>3, <2>7 DEF VocabularyEntry, Handling, FileBecomes, F
    <3> QED BY <2>2, <2>3, <2>4, <2>6, <2>7, <3>1 DEF VocabularyEntry, Handling, RowBefore, RowAfter
  <2>8. \A n \in Entries : n # call.note => file'[n] = file[n] BY <2>3, NotesThere DEF FileBecomes
  <2> QED BY <2>2, <2>3, <2>4, <2>5, <2>7, <2>8, VocabularyEntries
<1>4. CASE JournalRestored
  <2>1. AtV3("restored", "rollback") BY <1>4 DEF JournalRestored
  <2>2. /\ FromPoint("restored", "rollback") /\ tool = "v3" /\ call.note \in Entries /\ E \in ManifestEntry
        /\ E = journal.entry[call.note] /\ VocabularyCall /\ VocabularyPhase(E) /\ call.note \notin call.todo
        /\ mem.entry = journal.entry /\ mem.status # "rolled_back"
        /\ Untouched(call.note) => VocabularyEntry(call.note)
      BY <1>0, <2>1, InHandNow
  <2> DEFINE f == [E EXCEPT !.phase = "planned"]
  <2>3. /\ ToPoint("next") /\ journal' = mem' /\ Becomes(f) /\ MigrationTypeOK'
        /\ UNCHANGED <<tool, file, cat, touched, torn>>
      BY <1>4, JournalRestoredDoes DEF Base
  <2>4. f.phase = "planned" /\ f.pre = E.pre /\ f.post = E.post /\ f.existed = E.existed /\ f.rev = E.rev
      BY <2>2, WithPhase DEF Phase
  <2> HIDE DEF f
  <2>5. /\ \A n \in Entries : n # call.note => journal'.entry[n] = journal.entry[n]
        /\ journal'.entry[call.note] = f /\ journal'.status = mem.status
      BY <2>2, <2>3, EntryJournalled DEF Base
  <2>6. VocabularyCall'
    <3>1. \A n \in Entries : journal'.entry[n].phase # "planned" <=> n \in call.todo
      <4>1. ASSUME NEW n \in Entries, n # call.note PROVE journal'.entry[n].phase # "planned" <=> n \in call.todo
          BY <2>2, <2>5, <4>1 DEF VocabularyCall, Running, Handling
      <4>2. journal'.entry[call.note].phase = "planned" /\ call.note \notin call.todo BY <2>2, <2>4, <2>5
      <4> QED BY <4>1, <4>2
    <3> QED BY <2>2, <2>3, <2>5, <3>1 DEF VocabularyCall, Running, Handling
  <2>7. VocabularyPhase(f) BY <2>2, <2>4 DEF VocabularyPhase
  <2>8. ASSUME NEW n \in Entries, n = call.note, VocabularyEntry(n) PROVE VocabularyEntry(n)'
      BY <2>2, <2>3, <2>4, <2>5, <2>8 DEF VocabularyEntry, Handling, RowBefore, RowAfter, Written, Committed
  <2> QED BY <2>2, <2>3, <2>5, <2>6, <2>7, <2>8, VocabularyEntries
<1> QED BY <1>1, <1>2, <1>3, <1>4, <1>5

LEMMA BeginningKeepsVocabulary ==
  ASSUME Base, TextsKept, VocabularyKept, ApplyVocabulary \/ RollbackVocabulary \/ FinishVocabulary
  PROVE  VocabularyKept'
<1>1. CASE ApplyVocabulary
  <2>1. /\ tool = "v3" /\ call.op = "idle" /\ call'.op = "apply" /\ call'.pc = "next" /\ call'.note = Owner
        /\ mem'.entry = journal.entry /\ mem'.status # "rolled_back"
        /\ UNCHANGED <<tool, file, cat, journal, touched, torn>>
      BY <1>1, ApplyVocabularyDoes
  <2>2. VocabularyCall' BY <2>1 DEF VocabularyKept, VocabularyCall, Running
  <2> QED BY <2>1, <2>2, NotesThere, VocabularyEntries
<1>2. CASE RollbackVocabulary
  <2>1. /\ tool = "v3" /\ call.op = "idle" /\ call'.op = "rollback" /\ call'.pc = "next" /\ call'.note = Owner
        /\ mem' = journal /\ journal.status # "rolled_back"
        /\ call'.todo = {n \in Entries : journal.entry[n].phase # "planned"}
        /\ UNCHANGED <<tool, file, cat, journal, touched, torn>>
      BY <1>2, RollbackVocabularyDoes
  <2>2. VocabularyCall' BY <2>1, NotesThere DEF VocabularyKept, VocabularyCall, Running, Handling
  <2> QED BY <2>1, <2>2, NotesThere, VocabularyEntries
<1>3. CASE FinishVocabulary
  <2>1. /\ tool = "v3" /\ AtPoint("next") /\ call.todo = {} /\ mem # missing /\ Closed
        /\ journal'.entry = mem.entry
        /\ journal'.status = IF Running("apply") THEN "completed" ELSE "rolled_back"
        /\ UNCHANGED <<tool, file, cat, touched, torn>>
      BY <1>3, FinishVocabularyDoes
  <2>2. call'.op = "idle" /\ call.op \in {"apply", "rollback"}
      BY <2>1, Calls DEF Closed, NoCall, Base, AtPoint
  <2>3. mem.entry = journal.entry /\ VocabularyCall BY <2>1 DEF VocabularyKept, VocabularyCall
  <2>4. VocabularyCall'
    <3>1. Running("rollback") => \A n \in Entries : journal.entry[n].phase = "planned"
        BY <2>1, <2>3 DEF VocabularyCall, Handling, AtPoint
    <3> QED BY <2>1, <2>2, <2>3, <3>1, CallClosed DEF Running
  <2>5. ASSUME NEW n \in Entries, VocabularyEntry(n) PROVE VocabularyEntry(n)'
      BY <2>1, <2>2, <2>3, <2>5 DEF VocabularyEntry, Handling, AtPoint, RowBefore, RowAfter
  <2>6. \A n \in Entries : VocabularyPhase(journal'.entry[n]) BY <2>1, <2>3 DEF VocabularyKept
  <2> QED BY <2>1, <2>2, <2>3, <2>4, <2>5, <2>6, VocabularyEntries
<1> QED BY <1>1, <1>2, <1>3

\* Taking an entry, dying and the work of people change no manifest.
LEMMA OthersKeepVocabulary ==
  ASSUME Base, TextsKept, VocabularyKept, TakeEntry \/ CallDies \/ PeopleWork \/ UNCHANGED migrationVars
  PROVE  VocabularyKept'
<1>0. tool' = tool
    BY TakeEntryDoes, CallDiesDoes, PeopleWorkDoes DEF Saved, migrationVars
<1> SUFFICES ASSUME tool = "v3" PROVE VocabularyKept' BY <1>0 DEF VocabularyKept
<1>1. CASE TakeEntry
  <2>1. /\ call.op # "idle" /\ call.pc = "next" /\ call'.note \in call.todo /\ call'.todo = call.todo \ {call'.note}
        /\ call'.op = call.op /\ call'.pc = "entry"
        /\ UNCHANGED <<tool, file, cat, journal, mem, touched, torn>>
      BY <1>1, TakeEntryDoes
  <2>2. VocabularyCall' BY <2>1 DEF VocabularyKept, VocabularyCall, Running, Handling
  <2>3. ASSUME NEW n \in Entries, VocabularyEntry(n) PROVE VocabularyEntry(n)'
      BY <2>1, <2>3 DEF VocabularyEntry, Handling, RowBefore, RowAfter
  <2>4. \A n : Untouched(n)' => Untouched(n) BY <2>1 DEF Untouched
  <2> QED BY <2>1, <2>2, <2>3, <2>4 DEF VocabularyKept
<1>2. CASE CallDies
  <2>1. /\ call.op # "idle" /\ Closed
        /\ torn' = IF call.op = "rollback" THEN "rollback" ELSE IF torn = "no" THEN "apply" ELSE torn
        /\ UNCHANGED <<tool, file, cat, journal, touched>>
      BY <1>2, CallDiesDoes
  <2>2. call'.op = "idle" BY <2>1 DEF Closed, NoCall
  <2>3. VocabularyCall' BY <2>1, CallClosed DEF VocabularyKept, VocabularyCall
  <2>4. VocabularyCall BY DEF VocabularyKept
  <2>5. ASSUME NEW n \in Entries, VocabularyEntry(n) PROVE VocabularyEntry(n)'
    <3>1. torn' # "no" BY <2>1
    <3>2. torn' # "rollback" => torn # "rollback" /\ ~Handling(n, {"restore", "restored"}) /\ ~Handling(n, {"restored"})
        BY <2>1, <2>4 DEF VocabularyCall, Running, Handling
    <3> QED BY <2>1, <2>2, <2>5, <3>1, <3>2 DEF VocabularyEntry, Handling, RowBefore, RowAfter
  <2>6. \A n : Untouched(n)' => Untouched(n) BY <2>1 DEF Untouched
  <2> QED BY <2>1, <2>3, <2>5, <2>6 DEF VocabularyKept
<1>3. CASE PeopleWork
  <2>1. PICK k \in Notes : Saved(k) BY <1>3, PeopleWorkDoes
  <2>2. /\ touched' = touched \union {k} /\ UNCHANGED <<tool, journal, mem, call, torn>>
        /\ \A m \in Notes \ {k} : file'[m] = file[m] /\ cat'[m] = cat[m]
      BY <2>1 DEF Saved
  <2>3. VocabularyCall' BY <2>2 DEF VocabularyKept, VocabularyCall, Running, Handling
  <2>4. ASSUME NEW n \in Entries, Untouched(n)' PROVE VocabularyEntry(n)'
    <3>1. n # k /\ n \in Notes /\ Untouched(n) BY <2>2, <2>4, NotesThere DEF Untouched
    <3>2. VocabularyEntry(n) BY <3>1 DEF VocabularyKept
    <3> QED BY <2>2, <3>1, <3>2 DEF VocabularyEntry, Handling, RowBefore, RowAfter
  <2> QED BY <2>2, <2>3, <2>4 DEF VocabularyKept
<1>4. CASE UNCHANGED migrationVars
  <2>1. UNCHANGED <<tool, file, cat, journal, mem, call, touched, torn>> BY <1>4 DEF migrationVars, rows, history
  <2>2. VocabularyCall' BY <2>1 DEF VocabularyKept, VocabularyCall, Running, Handling
  <2>3. ASSUME NEW n \in Entries, VocabularyEntry(n) PROVE VocabularyEntry(n)'
      BY <2>1, <2>3 DEF VocabularyEntry, Handling, RowBefore, RowAfter
  <2>4. \A n : Untouched(n)' => Untouched(n) BY <2>1 DEF Untouched
  <2> QED BY <2>1, <2>2, <2>3, <2>4 DEF VocabularyKept
<1> QED BY <1>1, <1>2, <1>3, <1>4

LEMMA VocabularyStep ==
  ASSUME Base, TextsKept, VocabularyKept, [MigrationNext]_migrationVars
  PROVE  VocabularyKept'
<1>1. CASE Vocabulary
    BY <1>1, ApplyingKeepsVocabulary, ReturningKeepsVocabulary, BeginningKeepsVocabulary DEF Vocabulary
<1>2. CASE Routes
  <2>1. tool # "v3" BY <1>2, RoutesAreMoves DEF Moving
  <2> QED BY <1>2, <2>1, ToolStays DEF VocabularyKept
<1>3. CASE Schema
  <2>1. tool # "v3" BY <1>3, SchemaIsBacking DEF Backing
  <2> QED BY <1>3, <2>1, ToolStays DEF VocabularyKept
<1> QED BY <1>1, <1>2, <1>3, OthersKeepVocabulary DEF MigrationNext

-----------------------------------------------------------------------------
(* The journal of the moves. *)

MoveSteps == {"rename", "journal_move", "relocate", "moved"}
SameEntry(e, f) == /\ e.applied = f.applied /\ e.pre = f.pre /\ e.post = f.post /\ e.existed = f.existed

LEMMA MoveSame ==
  ASSUME NEW n, MoveEntry(n), call.op # "idle" /\ call.note = n => call.pc \notin MoveSteps,
         call'.op # "idle" /\ call'.note = n => call'.pc \notin MoveSteps,
         SameEntry(Told'.entry[n], Told.entry[n]), file'[n] = file[n], cat'[n] = cat[n], UNCHANGED <<torn, tool>>
  PROVE  MoveEntry(n)'
BY DEF MoveEntry, Handling, MoveSteps, SameEntry, Placed, InOld, InNew

LEMMA MovesFollow ==
  ASSUME MovesKept, Moving, UNCHANGED <<tool, touched>>, MoveCall', \A n \in Entries : MoveListed(n)',
         \A n \in Entries : Untouched(n) /\ MoveEntry(n) => MoveEntry(n)'
  PROVE  MovesKept'
<1>1. \A n \in Entries : Untouched(n) => MoveEntry(n) BY DEF MovesKept
<1>2. ASSUME NEW n \in Entries, Untouched(n)' PROVE MoveEntry(n)'
  <2>1. Untouched(n) BY <1>2 DEF Untouched
  <2> QED BY <1>1, <1>2, <2>1
<1> QED BY <1>2 DEF MovesKept

\* What a manifest lists of an entry comes from one that listed it.
LEMMA ListedFollows ==
  ASSUME NEW n, MoveListed(n), tool' = tool,
         journal'.entry[n] = journal.entry[n] \/ (mem # missing /\ journal'.entry[n] = mem.entry[n]),
         mem' # missing => mem'.entry[n] = journal.entry[n] \/ (mem # missing /\ mem'.entry[n] = mem.entry[n])
  PROVE  MoveListed(n)'
BY DEF MoveListed

LEMMA MoveInHand ==
  ASSUME Base, TextsKept, MovesKept, NEW p, NEW op, AtMove(p, op), p \notin NoNote
  PROVE  /\ FromPoint(p, op) /\ Moving /\ mem # missing /\ call.note \in Entries /\ call.note \notin call.todo
         /\ E \in ManifestEntry /\ E = mem.entry[call.note] /\ Told = mem
         /\ MoveCall /\ \A n \in Entries : MoveListed(n)
         /\ op = "apply" => mem = journal
         /\ tool = "sumarios" => E.post # missing
<1>1. FromPoint(p, op) /\ Moving BY AtFrom DEF AtMove
<1>2. mem # missing /\ call.note \in Entries /\ call.note \notin call.todo BY <1>1 DEF FromPoint
<1>3. E \in ManifestEntry BY <1>2, EntryTyped DEF Base
<1>4. MoveCall /\ \A n \in Entries : MoveListed(n) BY <1>1, <1>2 DEF MovesKept
<1>5. op = "apply" => mem = journal BY <1>1, <1>4 DEF MoveCall, FromPoint, Running
<1>6. tool = "sumarios" => E.post # missing BY <1>2, PostPlanned DEF TextsKept, Post
<1> QED BY <1>1, <1>2, <1>3, <1>4, <1>5, <1>6 DEF E, Told

\* A step between two entries, of the links for instance.
LEMMA RestingMoves ==
  ASSUME Base, MovesKept, Moving, UNCHANGED <<tool, touched, torn>>, MoveCall',
         call.op # "idle" => call.pc \notin MoveSteps, call'.op # "idle" => call'.pc \notin MoveSteps,
         \A n \in Entries : /\ MoveListed(n)' /\ SameEntry(Told'.entry[n], Told.entry[n])
                            /\ file'[n] = file[n] /\ cat'[n] = cat[n]
  PROVE  MovesKept'
<1>1. ASSUME NEW n \in Entries, MoveEntry(n) PROVE MoveEntry(n)' BY <1>1, MoveSame
<1> QED BY <1>1, MovesFollow

\* A step of the entry in hand.
LEMMA HandMoves ==
  ASSUME Base, MovesKept, Moving, UNCHANGED <<tool, touched, torn>>, MoveCall', \A n \in Entries : MoveListed(n)',
         mem # missing, call'.op # "idle" => call'.note = call.note,
         \A n \in Entries : n # call.note =>
            /\ Told'.entry[n] = mem.entry[n] /\ file'[n] = file[n] /\ cat'[n] = cat[n],
         \A n \in Entries : n = call.note /\ Untouched(n) /\ MoveEntry(n) => MoveEntry(n)'
  PROVE  MovesKept'
<1>1. Told = mem BY DEF Told
<1>2. ASSUME NEW n \in Entries, n # call.note, MoveEntry(n) PROVE MoveEntry(n)'
  <2>1. SameEntry(Told'.entry[n], Told.entry[n]) BY <1>1, <1>2 DEF SameEntry
  <2> QED BY <1>2, <2>1, MoveSame
<1>3. \A n \in Entries : Untouched(n) /\ MoveEntry(n) => MoveEntry(n)' BY <1>2
<1> QED BY <1>3, MovesFollow

LEMMA ApplyingKeepsMoves ==
  ASSUME Base, TextsKept, MovesKept,
         CheckMove \/ RefuseMove \/ Rename \/ JournalMove \/ Relocate \/ RelocateRefused \/ JournalMoved
  PROVE  MovesKept'
<1> USE DEF FromPoint, ToPoint
<1>0. {"entry", "rename", "journal_move", "relocate", "moved"} \cap NoNote = {} BY DEF NoNote
<1>1. CASE CheckMove
  <2>1. AtMove("entry", "apply") BY <1>1 DEF CheckMove
  <2>2. /\ FromPoint("entry", "apply") /\ Moving /\ mem # missing /\ E = mem.entry[call.note] /\ mem = journal
        /\ MoveCall /\ Told = mem /\ \A n \in Entries : MoveListed(n)
      BY <1>0, <2>1, MoveInHand
  <2>3. /\ ToPoint("rename") /\ InOld(call.note)
        /\ UNCHANGED <<tool, file, cat, journal, mem, touched, torn>>
      BY <1>1, CheckMoveDoes
  <2>4. MoveCall' BY <2>2, <2>3 DEF MoveCall, Running, AtPoint
  <2>5. \A n \in Entries : MoveListed(n)' BY <2>2, <2>3, ListedFollows
  <2>6. ASSUME NEW n \in Entries, n = call.note, MoveEntry(n) PROVE MoveEntry(n)'
      BY <2>2, <2>3, <2>6, Missing DEF MoveEntry, Told, Running, Handling, Placed, InOld, InNew
  <2>7. Told' = mem BY <2>2, <2>3 DEF Told
  <2> QED BY <2>2, <2>3, <2>4, <2>5, <2>6, <2>7, HandMoves
<1>2. CASE RefuseMove
  <2>1. AtMove("entry", "apply") BY <1>2 DEF RefuseMove
  <2>2. /\ FromPoint("entry", "apply") /\ Moving /\ mem # missing /\ E = mem.entry[call.note] /\ mem = journal
        /\ MoveCall /\ Told = mem /\ E \in ManifestEntry /\ \A n \in Entries : MoveListed(n)
      BY <1>0, <2>1, MoveInHand
  <2>3. /\ Closed /\ UNCHANGED <<tool, file, cat, touched, torn>>
        /\ \/ tool = "taxonomy" /\ journal' = journal
           \/ /\ journal'.entry[call.note] = [E EXCEPT !.skipped = TRUE]
              /\ \A n \in Entries \ {call.note} : journal'.entry[n] = mem.entry[n]
      BY <1>2, RefuseMoveDoes
  <2>4. call'.op = "idle" /\ call'.pc = "next" /\ mem' = missing /\ Told' = journal'
      BY <2>3 DEF Closed, NoCall, Told
  <2>5. /\ [E EXCEPT !.skipped = TRUE].phase = E.phase
        /\ SameEntry([E EXCEPT !.skipped = TRUE], E)
      BY <2>2, WithSkipped DEF SameEntry
  <2> DEFINE f == [E EXCEPT !.skipped = TRUE]
  <2> HIDE DEF f
  <2>6. ASSUME NEW n \in Entries
        PROVE  SameEntry(journal'.entry[n], mem.entry[n]) /\ journal'.entry[n].phase = mem.entry[n].phase
    <3>1. CASE tool = "taxonomy" /\ journal' = journal BY <2>2, <3>1 DEF SameEntry
    <3>2. CASE journal'.entry[call.note] = f
      <4>1. n # call.note => journal'.entry[n] = mem.entry[n] BY <2>2, <2>3
      <4> QED BY <2>2, <2>5, <3>2, <4>1 DEF SameEntry, f
    <3> QED BY <2>3, <3>1, <3>2 DEF f
  <2>7. MoveCall' BY <2>4 DEF MoveCall, Running, AtPoint
  <2>8. \A n \in Entries : MoveListed(n)' BY <2>2, <2>3, <2>4, <2>6 DEF MoveListed, SameEntry
  <2> QED BY <2>2, <2>3, <2>4, <2>6, <2>7, <2>8, RestingMoves DEF MoveSteps
<1>3. CASE Rename
  <2>1. AtMove("rename", "apply") BY <1>3 DEF Rename
  <2>2. /\ FromPoint("rename", "apply") /\ Moving /\ mem # missing /\ E = mem.entry[call.note] /\ mem = journal
        /\ MoveCall /\ Told = mem /\ \A n \in Entries : MoveListed(n)
      BY <1>0, <2>1, MoveInHand
  <2>3. /\ ToPoint(IF tool = "taxonomy" THEN "journal_move" ELSE "relocate")
        /\ InOld(call.note) /\ Carried(call.note)
        /\ UNCHANGED <<tool, cat, journal, mem, touched, torn>>
      BY <1>3, RenameDoes
  <2>4. MoveCall' BY <2>2, <2>3 DEF MoveCall, Running, AtPoint
  <2>5. \A n \in Entries : MoveListed(n)' BY <2>2, <2>3, ListedFollows
  <2>6. ASSUME NEW n \in Entries, n = call.note, MoveEntry(n) PROVE MoveEntry(n)'
      BY <2>2, <2>3, <2>6 DEF MoveEntry, Told, Running, Handling, Placed, InOld, InNew, Carried
  <2>7. Told' = mem /\ \A n \in Entries : n # call.note => file'[n] = file[n]
      BY <2>2, <2>3, NotesThere DEF Told, Carried
  <2> QED BY <2>2, <2>3, <2>4, <2>5, <2>6, <2>7, HandMoves
<1>4. CASE JournalMove
  <2>1. AtMove("journal_move", "apply") BY <1>4 DEF JournalMove
  <2>2. /\ FromPoint("journal_move", "apply") /\ Moving /\ mem # missing /\ E = mem.entry[call.note] /\ mem = journal
        /\ MoveCall /\ Told = mem /\ E \in ManifestEntry /\ \A n \in Entries : MoveListed(n)
      BY <1>0, <2>1, MoveInHand
  <2>3. tool = "taxonomy" BY <2>2 DEF MoveCall, AtPoint
  <2> DEFINE f == [E EXCEPT !.phase = "file_moved"]
  <2>4. /\ ToPoint("relocate") /\ InNew(call.note) /\ journal' = mem' /\ Becomes(f)
        /\ UNCHANGED <<tool, file, cat, touched, torn>>
      BY <1>4, JournalMoveDoes
  <2>5. SameEntry(f, E) BY <2>2, WithPhase DEF Phase, SameEntry
  <2> HIDE DEF f
  <2>6. /\ Told' = mem' /\ mem' # missing /\ mem'.entry[call.note] = f
        /\ \A n \in Entries : n # call.note => mem'.entry[n] = mem.entry[n]
      BY <2>4 DEF Told, Becomes
  <2>7. \A n \in Entries : SameEntry(mem'.entry[n], mem.entry[n]) BY <2>2, <2>5, <2>6 DEF SameEntry
  <2>8. MoveCall'
    <3>1. call.moved \subseteq Entries BY Calls DEF Base
    <3> QED BY <2>2, <2>3, <2>4, <2>7, <3>1 DEF MoveCall, Running, AtPoint, SameEntry
  <2>9. \A n \in Entries : MoveListed(n)' BY <2>2, <2>3, <2>4, <2>7 DEF MoveListed, SameEntry
  <2>10. ASSUME NEW n \in Entries, n = call.note, MoveEntry(n) PROVE MoveEntry(n)'
      BY <2>2, <2>4, <2>5, <2>6, <2>10 DEF MoveEntry, Running, Handling, Placed, InOld, InNew, SameEntry
  <2> QED BY <2>2, <2>4, <2>6, <2>8, <2>9, <2>10, HandMoves
<1>5. CASE Relocate
  <2>1. AtMove("relocate", "apply") BY <1>5 DEF Relocate
  <2>2. /\ FromPoint("relocate", "apply") /\ Moving /\ mem # missing /\ E = mem.entry[call.note] /\ mem = journal
        /\ MoveCall /\ Told = mem /\ call.note \in Entries /\ \A n \in Entries : MoveListed(n)
      BY <1>0, <2>1, MoveInHand
  <2>3. /\ ToPoint("moved") /\ InNew(call.note) /\ cat'[call.note] = Relocated(cat[call.note], "new")
        /\ \A n \in Notes \ {call.note} : cat'[n] = cat[n]
        /\ UNCHANGED <<tool, file, journal, mem, touched, torn>>
      BY <1>5, RelocateDoes
  <2>4. /\ cat[call.note] = missing => cat'[call.note] = missing
        /\ cat[call.note] # missing => /\ cat'[call.note] # missing /\ cat'[call.note].place = "new"
                                       /\ cat'[call.note].text = cat[call.note].text
    <3>1. cat[call.note] \in CatalogRow \union {missing} /\ "new" \in Places
        BY <2>2, NotesThere, FileAt DEF Base
    <3> QED BY <2>3, <3>1, RowFollows
  <2>5. MoveCall' BY <2>2, <2>3 DEF MoveCall, Running, AtPoint
  <2>6. \A n \in Entries : MoveListed(n)' BY <2>2, <2>3, ListedFollows
  <2>7. ASSUME NEW n \in Entries, n = call.note, MoveEntry(n) PROVE MoveEntry(n)'
      BY <2>2, <2>3, <2>4, <2>7 DEF MoveEntry, Told, Running, Handling, Placed, InOld, InNew
  <2>8. Told' = mem /\ \A n \in Entries : n # call.note => cat'[n] = cat[n]
      BY <2>2, <2>3, NotesThere DEF Told
  <2> QED BY <2>2, <2>3, <2>5, <2>6, <2>7, <2>8, HandMoves
<1>6. CASE RelocateRefused
  <2>1. AtMove("relocate", "apply") BY <1>6 DEF RelocateRefused
  <2>2. /\ FromPoint("relocate", "apply") /\ Moving /\ mem # missing /\ E = mem.entry[call.note] /\ mem = journal
        /\ MoveCall /\ Told = mem /\ E \in ManifestEntry /\ \A n \in Entries : MoveListed(n)
      BY <1>0, <2>1, MoveInHand
  <2> DEFINE f == [E EXCEPT !.phase = "planned", !.skipped = TRUE]
  <2>3. /\ Closed /\ InNew(call.note) /\ Brought(call.note) /\ journal'.entry[call.note] = f
        /\ \A n \in Entries \ {call.note} : journal'.entry[n] = mem.entry[n]
        /\ UNCHANGED <<tool, cat, touched, torn>>
      BY <1>6, RelocateRefusedDoes
  <2>4. SameEntry(f, E) /\ f.phase = "planned" BY <2>2, Refused DEF SameEntry
  <2> HIDE DEF f
  <2>5. call'.op = "idle" /\ call'.pc = "next" /\ mem' = missing /\ Told' = journal'
      BY <2>3 DEF Closed, NoCall, Told
  <2>6. MoveCall' BY <2>5 DEF MoveCall, Running, AtPoint
  <2>7. \A n \in Entries : MoveListed(n)' BY <2>2, <2>3, <2>4, <2>5 DEF MoveListed, SameEntry
  <2>8. ASSUME NEW n \in Entries, n = call.note, MoveEntry(n) PROVE MoveEntry(n)'
      BY <2>2, <2>3, <2>4, <2>5, <2>8 DEF MoveEntry, Running, Handling, Placed, InOld, InNew, SameEntry, Brought
  <2>9. \A n \in Entries : n # call.note => file'[n] = file[n] BY <2>3, NotesThere DEF Brought
  <2> QED BY <2>2, <2>3, <2>5, <2>6, <2>7, <2>8, <2>9, HandMoves
<1>7. CASE JournalMoved
  <2>1. AtMove("moved", "apply") BY <1>7 DEF JournalMoved
  <2>2. /\ FromPoint("moved", "apply") /\ Moving /\ mem # missing /\ E = mem.entry[call.note] /\ mem = journal
        /\ MoveCall /\ Told = mem /\ E \in ManifestEntry /\ \A n \in Entries : MoveListed(n)
      BY <1>0, <2>1, MoveInHand
  <2> DEFINE f == IF tool = "sumarios"
                  THEN [E EXCEPT !.phase = "identity_committed", !.applied = TRUE, !.post = F.new]
                  ELSE [E EXCEPT !.phase = "completed", !.applied = TRUE]
  <2>3. /\ InNew(call.note) /\ call'.pc = "next" /\ call'.op = "apply" /\ call'.note = call.note
        /\ call'.moved = call.moved \union {call.note} /\ journal' = mem' /\ Becomes(f) /\ F.new \in Text
        /\ UNCHANGED <<tool, file, cat, touched, torn>>
      BY <1>7, JournalMovedDoes
  <2>4. /\ f.applied = TRUE /\ f.pre = E.pre /\ f.existed = E.existed
        /\ f.post = IF tool = "sumarios" THEN F.new ELSE E.post
    <3>1. "completed" \in Phase /\ "identity_committed" \in Phase BY DEF Phase
    <3>2. CASE tool = "sumarios"
      <4>1. f = [E EXCEPT !.phase = "identity_committed", !.applied = TRUE, !.post = F.new] BY <3>2
      <4>2. F.new \in Text /\ E \in ManifestEntry BY <2>2, <2>3
      <4> HIDE DEF f
      <4>3. f.applied = TRUE /\ f.pre = E.pre /\ f.existed = E.existed /\ f.post = F.new
          BY <4>1, <4>2 DEF ManifestEntry
      <4> QED BY <3>2, <4>3
    <3>3. CASE tool # "sumarios"
      <4>1. f = [E EXCEPT !.phase = "completed", !.applied = TRUE] BY <3>3
      <4> QED BY <2>2, <3>1, <3>3, <4>1, Done1
    <3> QED BY <3>2, <3>3
  <2> HIDE DEF f
  <2>5. /\ Told' = mem' /\ mem' # missing /\ mem'.entry[call.note] = f
        /\ \A n \in Entries : n # call.note => mem'.entry[n] = mem.entry[n]
      BY <2>3 DEF Told, Becomes
  <2>6. MoveCall'
    <3>1. call.moved \subseteq Entries BY Calls DEF Base
    <3>2. \A n \in call.moved \union {call.note} : mem'.entry[n].applied
        BY <2>2, <2>4, <2>5, <3>1 DEF MoveCall, Running
    <3> QED BY <2>3, <2>5, <3>2 DEF MoveCall, Running, AtPoint
  <2>7. \A n \in Entries : MoveListed(n)' BY <2>2, <2>3, <2>4, <2>5 DEF MoveListed
  <2>8. ASSUME NEW n \in Entries, n = call.note, MoveEntry(n) PROVE MoveEntry(n)'
      BY <2>2, <2>3, <2>4, <2>5, <2>8 DEF MoveEntry, Running, Handling, Placed, InOld, InNew, F
  <2> QED BY <2>2, <2>3, <2>5, <2>6, <2>7, <2>8, HandMoves
<1> QED BY <1>1, <1>2, <1>3, <1>4, <1>5, <1>6, <1>7

LEMMA UndoingKeepsMoves ==
  ASSUME Base, TextsKept, MovesKept, CheckUndo \/ UndoRename \/ SkipUndo \/ UndoRelocate \/ UndoRefused
  PROVE  MovesKept'
<1> USE DEF FromPoint, ToPoint
<1>0. {"entry", "rename", "relocate"} \cap NoNote = {} BY DEF NoNote
<1>1. CASE CheckUndo
  <2>1. AtMove("entry", "rollback") BY <1>1 DEF CheckUndo
  <2>2. /\ FromPoint("entry", "rollback") /\ Moving /\ mem # missing /\ E = mem.entry[call.note]
        /\ MoveCall /\ Told = mem /\ \A n \in Entries : MoveListed(n)
        /\ tool = "sumarios" => Post
      BY <1>0, <2>1, MoveInHand DEF Post
  <2>3. /\ ToPoint("rename") /\ UNCHANGED <<tool, file, cat, journal, mem, touched, torn>>
      BY <1>1, <2>2, CheckUndoDoes
  <2>4. MoveCall' BY <2>2, <2>3 DEF MoveCall, Running, AtPoint, E
  <2>5. \A n \in Entries : MoveListed(n)' BY <2>2, <2>3, ListedFollows
  <2>6. ASSUME NEW n \in Entries, n = call.note, MoveEntry(n) PROVE MoveEntry(n)'
      BY <2>2, <2>3, <2>6 DEF MoveEntry, Told, Running, Handling, Placed, InOld, InNew
  <2>7. Told' = mem BY <2>2, <2>3 DEF Told
  <2> QED BY <2>2, <2>3, <2>4, <2>5, <2>6, <2>7, HandMoves
<1>2. CASE UndoRename
  <2>1. AtMove("rename", "rollback") BY <1>2 DEF UndoRename
  <2>2. /\ FromPoint("rename", "rollback") /\ Moving /\ mem # missing /\ E = mem.entry[call.note]
        /\ MoveCall /\ Told = mem /\ call.note \in Entries /\ \A n \in Entries : MoveListed(n)
      BY <1>0, <2>1, MoveInHand
  <2>3. /\ ToPoint("relocate") /\ InNew(call.note) /\ Brought(call.note)
        /\ UNCHANGED <<tool, cat, journal, mem, touched, torn>>
      BY <1>2, UndoRenameDoes
  <2>4. MoveCall' BY <2>2, <2>3 DEF MoveCall, Running, AtPoint, E
  <2>5. \A n \in Entries : MoveListed(n)' BY <2>2, <2>3, ListedFollows
  <2>6. E.applied BY <2>2 DEF MoveCall, Running
  <2>7. ASSUME NEW n \in Entries, n = call.note, MoveEntry(n) PROVE MoveEntry(n)'
      BY <2>2, <2>3, <2>6, <2>7 DEF MoveEntry, Told, Running, Handling, Placed, InOld, InNew, Brought
  <2>8. Told' = mem /\ \A n \in Entries : n # call.note => file'[n] = file[n]
      BY <2>2, <2>3, NotesThere DEF Told, Brought
  <2> QED BY <2>2, <2>3, <2>4, <2>5, <2>7, <2>8, HandMoves
<1>3. CASE SkipUndo
  <2>1. AtMove("entry", "rollback") BY <1>3 DEF SkipUndo
  <2>2. /\ FromPoint("entry", "rollback") /\ Moving /\ mem # missing /\ E = mem.entry[call.note]
        /\ MoveCall /\ Told = mem /\ E \in ManifestEntry /\ \A n \in Entries : MoveListed(n)
      BY <1>0, <2>1, MoveInHand
  <2> DEFINE f == [E EXCEPT !.skipped = TRUE]
  <2>3. /\ ToPoint("next") /\ Becomes(f) /\ UNCHANGED <<tool, file, cat, journal, touched, torn>>
      BY <1>3, SkipUndoDoes
  <2>4. SameEntry(f, E) /\ f.phase = E.phase BY <2>2, WithSkipped DEF SameEntry
  <2> HIDE DEF f
  <2>5. /\ Told' = mem' /\ mem' # missing /\ mem'.entry[call.note] = f
        /\ \A n \in Entries : n # call.note => mem'.entry[n] = mem.entry[n]
      BY <2>3 DEF Told, Becomes
  <2>6. \A n \in Entries : SameEntry(mem'.entry[n], mem.entry[n]) /\ mem'.entry[n].phase = mem.entry[n].phase
      BY <2>2, <2>4, <2>5 DEF SameEntry
  <2>7. MoveCall'
    <3>1. call.todo \subseteq Entries BY Calls DEF Base
    <3> QED BY <2>2, <2>3, <2>6, <3>1 DEF MoveCall, Running, AtPoint, SameEntry
  <2>8. \A n \in Entries : MoveListed(n)' BY <2>2, <2>3, <2>5, <2>6 DEF MoveListed, SameEntry
  <2> QED BY <2>2, <2>3, <2>5, <2>6, <2>7, <2>8, RestingMoves DEF MoveSteps
<1>4. CASE UndoRelocate
  <2>1. AtMove("relocate", "rollback") BY <1>4 DEF UndoRelocate
  <2>2. /\ FromPoint("relocate", "rollback") /\ Moving /\ mem # missing /\ E = mem.entry[call.note]
        /\ MoveCall /\ Told = mem /\ E \in ManifestEntry /\ call.note \in Entries /\ call.note \notin call.todo
        /\ \A n \in Entries : MoveListed(n)
      BY <1>0, <2>1, MoveInHand
  <2> DEFINE f == [E EXCEPT !.phase = "planned", !.applied = FALSE, !.skipped = tool # "taxonomy" /\ E.skipped]
  <2>3. /\ ToPoint("next") /\ InOld(call.note) /\ Becomes(f)
        /\ cat'[call.note] = IF cat[call.note] # missing /\ (tool = "sumarios" \/ cat[call.note].text = E.pre)
                              THEN Relocated(cat[call.note], "old") ELSE cat[call.note]
        /\ \A n \in Notes \ {call.note} : cat'[n] = cat[n]
        /\ UNCHANGED <<tool, file, journal, touched, torn>>
      BY <1>4, UndoRelocateDoes
  <2>4. f.phase = "planned" /\ f.applied = FALSE /\ f.pre = E.pre /\ f.post = E.post /\ f.existed = E.existed
    <3>1. PICK s : f = [E EXCEPT !.phase = "planned", !.applied = FALSE, !.skipped = s] OBVIOUS
    <3> HIDE DEF f
    <3> QED BY <2>2, <3>1 DEF ManifestEntry
  <2> HIDE DEF f
  <2>5. /\ Told' = mem' /\ mem' # missing /\ mem'.entry[call.note] = f
        /\ \A n \in Entries : n # call.note => mem'.entry[n] = mem.entry[n]
      BY <2>3 DEF Told, Becomes
  <2>6. MoveCall'
    <3>1. call.todo \subseteq Entries BY Calls DEF Base
    <3> QED BY <2>2, <2>3, <2>5, <3>1 DEF MoveCall, Running, AtPoint
  <2>7. \A n \in Entries : MoveListed(n)' BY <2>2, <2>3, <2>4, <2>5 DEF MoveListed
  <2>8. /\ cat[call.note] = missing => cat'[call.note] = missing
        /\ cat[call.note] # missing => /\ cat'[call.note] # missing /\ cat'[call.note].text = cat[call.note].text
                                       /\ cat[call.note].text = E.pre => cat'[call.note].place = "old"
    <3>1. cat[call.note] \in CatalogRow \union {missing} /\ "old" \in Places
        BY <2>2, NotesThere, FileAt DEF Base
    <3> QED BY <2>3, <3>1, RowFollows
  <2>9. ASSUME NEW n \in Entries, n = call.note, MoveEntry(n) PROVE MoveEntry(n)'
      BY <2>2, <2>3, <2>4, <2>5, <2>8, <2>9 DEF MoveEntry, Running, Handling, Placed, InOld, InNew
  <2>10. \A n \in Entries : n # call.note => cat'[n] = cat[n] BY <2>3, NotesThere
  <2> QED BY <2>2, <2>3, <2>5, <2>6, <2>7, <2>9, <2>10, HandMoves
<1>5. CASE UndoRefused
  <2>1. AtMove("relocate", "rollback") BY <1>5 DEF UndoRefused
  <2>2. /\ FromPoint("relocate", "rollback") /\ Moving /\ mem # missing /\ E = mem.entry[call.note]
        /\ MoveCall /\ Told = mem /\ E \in ManifestEntry /\ call.note \in Entries /\ call.note \notin call.todo
        /\ \A n \in Entries : MoveListed(n)
      BY <1>0, <2>1, MoveInHand
  <2> DEFINE f == [E EXCEPT !.skipped = TRUE]
  <2>3. /\ ToPoint("next") /\ InOld(call.note) /\ Carried(call.note) /\ Becomes(f)
        /\ UNCHANGED <<tool, cat, journal, touched, torn>>
      BY <1>5, UndoRefusedDoes
  <2>4. SameEntry(f, E) /\ f.phase = E.phase BY <2>2, WithSkipped DEF SameEntry
  <2> HIDE DEF f
  <2>5. /\ Told' = mem' /\ mem' # missing /\ mem'.entry[call.note] = f
        /\ \A n \in Entries : n # call.note => mem'.entry[n] = mem.entry[n]
      BY <2>3 DEF Told, Becomes
  <2>6. \A n \in Entries : SameEntry(mem'.entry[n], mem.entry[n]) /\ mem'.entry[n].phase = mem.entry[n].phase
      BY <2>2, <2>4, <2>5 DEF SameEntry
  <2>7. MoveCall'
    <3>1. call.todo \subseteq Entries BY Calls DEF Base
    <3> QED BY <2>2, <2>3, <2>6, <3>1 DEF MoveCall, Running, AtPoint, SameEntry
  <2>8. \A n \in Entries : MoveListed(n)' BY <2>2, <2>3, <2>5, <2>6 DEF MoveListed, SameEntry
  <2>9. E.applied BY <2>2 DEF MoveCall, Running
  <2>10. ASSUME NEW n \in Entries, n = call.note, MoveEntry(n) PROVE MoveEntry(n)'
      BY <2>2, <2>3, <2>4, <2>5, <2>9, <2>10
      DEF MoveEntry, Running, Handling, Placed, InOld, InNew, SameEntry, Carried
  <2>11. \A n \in Entries : n # call.note => file'[n] = file[n] BY <2>3, NotesThere DEF Carried
  <2> QED BY <2>2, <2>3, <2>5, <2>7, <2>8, <2>10, <2>11, HandMoves
<1> QED BY <1>1, <1>2, <1>3, <1>4, <1>5

LEMMA EntriesMoved ==
  ASSUME NEW n \in Entries
  PROVE  n \in Notes /\ n # Owner
BY DEF Entries

LEMMA LinkingKeepsMoves ==
  ASSUME Base, TextsKept, MovesKept,
         ApproveManifest \/ ApplyMoves \/ RollbackMoves \/ ReadLinks \/ RewriteLinks \/ RefuseLinks \/ CommitLinks
         \/ LinksConflict \/ JournalLinks \/ FinishMoves \/ ReadUnlinked \/ UndoLinks \/ CommitUnlinked
         \/ UnlinkConflict \/ FinishReturn
  PROVE  MovesKept'
<1> USE DEF FromPoint, ToPoint
<1>0. Moving => MoveCall /\ \A n \in Entries : MoveListed(n) BY DEF MovesKept
<1>1. CASE ApproveManifest
  <2>1. /\ Moving /\ call.op = "idle" /\ mem = missing /\ journal'.entry = journal.entry
        /\ UNCHANGED <<tool, file, cat, mem, call, touched, torn>>
      BY <1>1, ApproveManifestDoes
  <2>2. MoveCall' BY <2>1 DEF MoveCall, Running, AtPoint
  <2>3. \A n \in Entries : MoveListed(n)' BY <1>0, <2>1 DEF MoveListed
  <2>4. \A n \in Entries : SameEntry(Told'.entry[n], Told.entry[n]) BY <2>1 DEF SameEntry, Told
  <2> QED BY <2>1, <2>2, <2>3, <2>4, RestingMoves
<1>2. CASE ApplyMoves
  <2>1. /\ Moving /\ call.op = "idle" /\ mem = missing /\ mem' = journal /\ mem' # missing
        /\ call'.op = "apply" /\ call'.pc = "next" /\ call'.moved = {}
        /\ UNCHANGED <<tool, file, cat, journal, touched, torn>>
      BY <1>2, ApplyMovesDoes
  <2>2. MoveCall' BY <2>1 DEF MoveCall, Running, AtPoint
  <2>3. \A n \in Entries : MoveListed(n)' BY <1>0, <2>1 DEF MoveListed
  <2>4. \A n \in Entries : SameEntry(Told'.entry[n], Told.entry[n]) BY <2>1 DEF SameEntry, Told
  <2> QED BY <2>1, <2>2, <2>3, <2>4, RestingMoves DEF MoveSteps
<1>3. CASE RollbackMoves
  <2>1. /\ Moving /\ call.op = "idle" /\ mem = missing /\ mem' = journal /\ mem' # missing
        /\ call'.op = "rollback" /\ call'.pc = "next" /\ call'.todo = {n \in Entries : journal.entry[n].applied}
        /\ UNCHANGED <<tool, file, cat, journal, touched, torn>>
      BY <1>3, RollbackMovesDoes
  <2>2. MoveCall' BY <2>1 DEF MoveCall, Running, AtPoint
  <2>3. \A n \in Entries : MoveListed(n)' BY <1>0, <2>1 DEF MoveListed
  <2>4. \A n \in Entries : SameEntry(Told'.entry[n], Told.entry[n]) BY <2>1 DEF SameEntry, Told
  <2> QED BY <2>1, <2>2, <2>3, <2>4, RestingMoves DEF MoveSteps
<1>4. CASE ReadLinks \/ RewriteLinks \/ ReadUnlinked \/ UndoLinks \/ UnlinkConflict
  <2>1. /\ Moving /\ call.op # "idle" /\ call.pc \in {"next", "relink", "unrelink", "unlink"}
        /\ call'.pc \in {"relink", "link", "unrelink", "unlink", "finish"} /\ mem # missing
        /\ call'.op = call.op /\ call'.todo = call.todo /\ call'.moved = call.moved
        /\ \A n \in Entries : file'[n] = file[n]
        /\ UNCHANGED <<tool, cat, journal, mem, touched, torn>>
      BY <1>4, ReadLinksDoes, RewriteLinksDoes, ReadUnlinkedDoes, UndoLinksDoes, UnlinkConflictDoes, EntriesMoved
         DEF FileBecomes
  <2>2. MoveCall' BY <1>0, <2>1 DEF MoveCall, Running, AtPoint
  <2>3. \A n \in Entries : MoveListed(n)' BY <1>0, <2>1 DEF MoveListed
  <2>4. \A n \in Entries : SameEntry(Told'.entry[n], Told.entry[n]) BY <2>1 DEF SameEntry, Told
  <2> QED BY <2>1, <2>2, <2>3, <2>4, RestingMoves DEF MoveSteps
<1>5. CASE RefuseLinks
  <2>1. /\ Moving /\ FromPoint("next", "apply") /\ Closed
        /\ UNCHANGED <<tool, file, cat, journal, touched, torn>>
      BY <1>5, RefuseLinksDoes
  <2>2. mem = journal BY <1>0, <2>1 DEF MoveCall, Running
  <2>3. MoveCall' BY <2>1 DEF MoveCall, Running, AtPoint, Closed, NoCall
  <2>4. \A n \in Entries : MoveListed(n)' BY <1>0, <2>1 DEF MoveListed, Closed
  <2>5. \A n \in Entries : SameEntry(Told'.entry[n], Told.entry[n]) BY <2>1, <2>2 DEF SameEntry, Told, Closed
  <2>6. call'.pc = "next" BY <2>1 DEF Closed, NoCall
  <2> QED BY <2>1, <2>3, <2>4, <2>5, <2>6, RestingMoves DEF MoveSteps
<1>9. CASE LinksConflict
  <2>1. /\ Moving /\ FromPoint("link", "apply") /\ Closed /\ \A n \in Entries : file'[n] = file[n]
        /\ UNCHANGED <<tool, cat, journal, touched, torn>>
      BY <1>9, LinksConflictDoes, EntriesMoved DEF FileBecomes
  <2>2. mem = journal BY <1>0, <2>1 DEF MoveCall, Running
  <2>3. MoveCall' BY <2>1 DEF MoveCall, Running, AtPoint, Closed, NoCall
  <2>4. \A n \in Entries : MoveListed(n)' BY <1>0, <2>1 DEF MoveListed, Closed
  <2>5. \A n \in Entries : SameEntry(Told'.entry[n], Told.entry[n]) BY <2>1, <2>2 DEF SameEntry, Told, Closed
  <2>6. call'.pc = "next" BY <2>1 DEF Closed, NoCall
  <2> QED BY <2>1, <2>3, <2>4, <2>5, <2>6, RestingMoves DEF MoveSteps
<1>6. CASE CommitLinks \/ CommitUnlinked
  <2>1. /\ Moving /\ call.pc \in {"link", "unlink"} /\ call'.pc \in {"linked", "finish"}
        /\ call.op # "idle" /\ call'.op = call.op /\ call'.todo = call.todo /\ call'.moved = call.moved
        /\ \A n \in Entries : cat'[n] = cat[n]
        /\ UNCHANGED <<tool, file, journal, mem, touched, torn>>
      BY <1>6, CommitLinksDoes, CommitUnlinkedDoes, EntriesMoved DEF RowRewritten
  <2>2. MoveCall' BY <1>0, <2>1 DEF MoveCall, Running, AtPoint
  <2>3. \A n \in Entries : MoveListed(n)' BY <1>0, <2>1 DEF MoveListed
  <2>4. \A n \in Entries : SameEntry(Told'.entry[n], Told.entry[n]) BY <2>1 DEF SameEntry, Told
  <2> QED BY <2>1, <2>2, <2>3, <2>4, RestingMoves DEF MoveSteps
<1>7. CASE JournalLinks
  <2>1. /\ Moving /\ FromPoint("linked", "apply") /\ ToPoint("next") /\ mem' # missing /\ journal' = mem'
        /\ mem'.entry = mem.entry /\ UNCHANGED <<tool, file, cat, touched, torn>>
      BY <1>7, JournalLinksDoes
  <2>2. MoveCall' BY <1>0, <2>1 DEF MoveCall, Running, AtPoint
  <2>3. \A n \in Entries : MoveListed(n)' BY <1>0, <2>1 DEF MoveListed
  <2>4. \A n \in Entries : SameEntry(Told'.entry[n], Told.entry[n]) BY <2>1 DEF SameEntry, Told
  <2> QED BY <2>1, <2>2, <2>3, <2>4, RestingMoves DEF MoveSteps
<1>8. CASE FinishMoves
  <2>1. /\ Moving /\ FromPoint("next", "apply") /\ Closed
        /\ \A n \in Entries : journal'.entry[n] =
             IF n \in call.moved THEN [mem.entry[n] EXCEPT !.phase = "completed"] ELSE mem.entry[n]
        /\ UNCHANGED <<tool, file, cat, touched, torn>>
      BY <1>8, FinishMovesDoes
  <2>2. mem = journal /\ \A n \in call.moved : mem.entry[n].applied BY <1>0, <2>1 DEF MoveCall, Running
  <2>3. ASSUME NEW n \in Entries
        PROVE  /\ SameEntry(journal'.entry[n], mem.entry[n])
               /\ ~journal'.entry[n].applied => journal'.entry[n].phase = mem.entry[n].phase
    <3>1. CASE n \notin call.moved BY <2>1, <3>1 DEF SameEntry
    <3>2. CASE n \in call.moved
      <4> DEFINE g == [mem.entry[n] EXCEPT !.phase = "completed"]
      <4>1. mem.entry[n] \in ManifestEntry BY <2>2, Listings DEF Base
      <4>2. SameEntry(g, mem.entry[n]) BY <4>1, WithPhase DEF Phase, SameEntry
      <4>3. journal'.entry[n] = g BY <2>1, <3>2
      <4> QED BY <2>2, <3>2, <4>2, <4>3 DEF SameEntry
    <3> QED BY <3>1, <3>2
  <2>4. MoveCall' BY <2>1 DEF MoveCall, Running, AtPoint, Closed, NoCall
  <2>5. \A n \in Entries : MoveListed(n)' BY <1>0, <2>1, <2>2, <2>3 DEF MoveListed, Closed, SameEntry
  <2>6. \A n \in Entries : SameEntry(Told'.entry[n], Told.entry[n]) BY <2>1, <2>3 DEF SameEntry, Told, Closed
  <2>7. call'.pc = "next" BY <2>1 DEF Closed, NoCall
  <2> QED BY <2>1, <2>4, <2>5, <2>6, <2>7, RestingMoves DEF MoveSteps
<1>10. CASE FinishReturn
  <2>1. /\ Moving /\ call.pc \in {"next", "finish"} /\ mem # missing /\ Closed /\ journal'.entry = mem.entry
        /\ UNCHANGED <<tool, file, cat, touched, torn>>
      BY <1>10, FinishReturnDoes
  <2>2. MoveCall' BY <2>1 DEF MoveCall, Running, AtPoint, Closed, NoCall
  <2>3. \A n \in Entries : MoveListed(n)' BY <1>0, <2>1 DEF MoveListed, Closed
  <2>4. \A n \in Entries : SameEntry(Told'.entry[n], Told.entry[n]) BY <2>1 DEF SameEntry, Told, Closed
  <2>5. call'.pc = "next" BY <2>1 DEF Closed, NoCall
  <2> QED BY <2>1, <2>2, <2>3, <2>4, <2>5, RestingMoves DEF MoveSteps
<1> QED BY <1>1, <1>2, <1>3, <1>4, <1>5, <1>6, <1>7, <1>8, <1>9, <1>10

LEMMA RoutesKeepMoves ==
  ASSUME Base, TextsKept, MovesKept, Routes
  PROVE  MovesKept'
BY ApplyingKeepsMoves, UndoingKeepsMoves, LinkingKeepsMoves DEF Routes

\* The next entry, a call that dies, and people.
LEMMA OthersKeepMoves ==
  ASSUME Base, TextsKept, MovesKept, TakeEntry \/ CallDies \/ PeopleWork \/ UNCHANGED migrationVars
  PROVE  MovesKept'
<1>0. Moving => MoveCall /\ \A n \in Entries : MoveListed(n) BY DEF MovesKept
<1> USE DEF MoveSteps
<1>1. CASE TakeEntry
  <2>1. /\ call.pc = "next" /\ call'.pc = "entry" /\ mem # missing /\ call'.op = call.op /\ call'.moved = call.moved
        /\ call'.note \in call.todo /\ call'.todo \subseteq call.todo
        /\ UNCHANGED <<tool, file, cat, journal, mem, touched, torn>>
      BY <1>1, TakeEntryDoes
  <2>2. Moving => MoveCall' BY <1>0, <2>1 DEF MoveCall, Running, AtPoint, E
  <2>3. Moving => \A n \in Entries : MoveListed(n)' BY <1>0, <2>1 DEF MoveListed
  <2>4. \A n \in Entries : SameEntry(Told'.entry[n], Told.entry[n]) BY <2>1 DEF SameEntry, Told
  <2>5. Moving \/ ~Moving' BY <2>1 DEF Moving
  <2> QED BY <2>1, <2>2, <2>3, <2>4, <2>5, RestingMoves DEF MovesKept
<1>2. CASE CallDies
  <2>1. /\ mem # missing /\ call.op # "idle" /\ Closed
        /\ torn' = IF call.op = "rollback" THEN "rollback" ELSE IF torn = "no" THEN "apply" ELSE torn
        /\ UNCHANGED <<tool, file, cat, journal, touched>>
      BY <1>2, CallDiesDoes
  <2>2. SUFFICES ASSUME Moving PROVE MovesKept' BY <2>1 DEF MovesKept, Moving
  <2>3. MoveCall' BY <2>1 DEF MoveCall, Running, AtPoint, Closed, NoCall
  <2>4. \A n \in Entries : MoveListed(n)' BY <1>0, <2>1, <2>2 DEF MoveListed, Closed
  <2>5. Told = mem /\ Told' = journal BY <2>1 DEF Told, Closed
  <2>6. call'.op = "idle" BY <2>1 DEF Closed, NoCall
  <2>7. ASSUME NEW n \in Entries, MoveEntry(n) PROVE MoveEntry(n)'
    <3>1. CASE call.op = "rollback"
      <4>1. torn' = "rollback" BY <2>1, <3>1
      <4>2. MoveListed(n) BY <1>0, <2>2
      <4> QED BY <2>1, <2>5, <2>6, <2>7, <4>1, <4>2 DEF MoveEntry, MoveListed, Running, Handling, Placed, InOld, InNew
    <3>2. CASE call.op # "rollback"
      <4>1. call.op = "apply" BY <2>1, <3>2, Calls DEF Base
      <4>2. mem = journal BY <1>0, <2>2, <4>1 DEF MoveCall, Running
      <4>3. torn' # "no" /\ (torn' # "rollback" => torn # "rollback") BY <2>1, <3>2
      <4> QED BY <2>1, <2>5, <2>6, <2>7, <4>1, <4>2, <4>3 DEF MoveEntry, Running, Handling, Placed, InOld, InNew
    <3> QED BY <3>1, <3>2
  <2> QED BY <2>1, <2>2, <2>3, <2>4, <2>7, MovesFollow
<1>3. CASE PeopleWork
  <2>1. PICK k \in Notes : Saved(k) BY <1>3, PeopleWorkDoes
  <2>2. UNCHANGED <<tool, journal, mem, call, torn>> /\ touched' = touched \union {k}
        /\ \A n \in Notes \ {k} : file'[n] = file[n] /\ cat'[n] = cat[n]
      BY <2>1 DEF Saved
  <2>3. SUFFICES ASSUME Moving PROVE MovesKept' BY <2>2 DEF MovesKept, Moving
  <2>4. MoveCall' BY <1>0, <2>2, <2>3 DEF MoveCall, Running, AtPoint, E
  <2>5. \A n \in Entries : MoveListed(n)' BY <1>0, <2>2, <2>3 DEF MoveListed
  <2>6. ASSUME NEW n \in Entries, Untouched(n)' PROVE MoveEntry(n)'
    <3>1. Untouched(n) /\ n # k BY <2>2, <2>6 DEF Untouched
    <3>2. file'[n] = file[n] /\ cat'[n] = cat[n] BY <2>2, <3>1, NotesThere
    <3>3. MoveEntry(n) BY <2>3, <3>1 DEF MovesKept
    <3> QED BY <2>2, <3>2, <3>3 DEF MoveEntry, Told, Running, Handling, Placed, InOld, InNew
  <2> QED BY <2>2, <2>4, <2>5, <2>6 DEF MovesKept, Moving
<1>4. CASE UNCHANGED migrationVars
  <2>1. UNCHANGED <<tool, file, cat, journal, mem, call, touched, torn>> BY <1>4 DEF migrationVars, rows, history
  <2> QED BY <2>1 DEF MovesKept, Moving, MoveCall, MoveListed, MoveEntry, Untouched, Told, Running, AtPoint, Handling,
         Placed, InOld, InNew, E
<1> QED BY <1>1, <1>2, <1>3, <1>4

LEMMA MovesStep ==
  ASSUME Base, TextsKept, MovesKept, [MigrationNext]_migrationVars
  PROVE  MovesKept'
<1>1. CASE Routes BY <1>1, RoutesKeepMoves
<1>2. CASE TakeEntry \/ CallDies \/ PeopleWork \/ UNCHANGED migrationVars BY <1>2, OthersKeepMoves
<1>3. CASE Schema \/ Vocabulary
  <2>1. ~Moving' BY <1>3, SchemaIsBacking, VocabularyIsV3 DEF Moving, Backing
  <2> QED BY <2>1 DEF MovesKept
<1> QED BY <1>1, <1>2, <1>3 DEF MigrationNext

-----------------------------------------------------------------------------
(* The links to what moved. *)

LinkPoints == {"relink", "link", "linked", "unrelink", "unlink", "finish"}
ChangeKept(w) == w.change = journal.change \/ (mem # missing /\ w.change = mem.change)

\* A step that has nothing to do with the links.
LEMMA QuietLinks ==
  ASSUME LinksKept, UNCHANGED <<tool, touched, torn>>, file'[Owner] = file[Owner], cat'[Owner] = cat[Owner],
         ChangeKept(journal'), mem' # missing => ChangeKept(mem'), Told'.change = Told.change,
         call.pc \notin LinkPoints, call'.pc \notin LinkPoints,
         tool = "sumarios" => journal'.status # "rolled_back"
  PROVE  LinksKept'
<1>1. LinkCall' BY DEF LinksKept, LinkCall, LinkPlans, ChangeKept, LinkPoints
<1>2. ASSUME LinkEntry, tool = "sumarios" PROVE LinkEntry'
    BY <1>2 DEF LinkEntry, Rewritten, RowAgrees, LinkPoints
<1> QED BY <1>1, <1>2 DEF LinksKept

\* A step of a tool without links.
LEMMA OtherLinks ==
  ASSUME LinksKept, tool' = tool, ~Moving, file'[Owner].old.link = file[Owner].old.link,
         ChangeKept(journal'), mem' # missing => ChangeKept(mem')
  PROVE  LinksKept'
<1>1. tool # "sumarios" /\ ~Moving' BY DEF Moving
<1>2. LinkCall' BY <1>1 DEF LinksKept, LinkCall, LinkPlans, ChangeKept
<1> QED BY <1>1, <1>2 DEF LinksKept

LEMMA VocabularyKeepsLinks ==
  ASSUME Base, TextsKept, LinksKept, Vocabulary
  PROVE  LinksKept'
<1> USE DEF FromPoint
<1>0. /\ {"write", "unwrite", "restore"} \cap NoNote = {} /\ tool = "v3" /\ ~Moving
      /\ \A p, q : AtV3(p, q) /\ p \notin NoNote => Post /\ call.note # Owner
  <2>1. tool = "v3" BY VocabularyIsV3
  <2>2. ASSUME NEW p, NEW q, AtV3(p, q), p \notin NoNote PROVE Post /\ call.note # Owner
    <3>1. FromPoint(p, q) BY <2>2, AtFrom DEF AtV3
    <3> QED BY <2>1, <2>2, <3>1, PostPlanned, EntriesMoved DEF TextsKept
  <2> QED BY <2>1, <2>2 DEF NoNote, Moving
<1>1. CASE ApplyVocabulary
  <2>1. mem' # missing /\ mem'.change = journal.change /\ UNCHANGED <<tool, file, journal>> BY <1>1, ApplyVocabularyDoes
  <2> QED BY <1>0, <2>1, OtherLinks DEF ChangeKept
<1>2. CASE RollbackVocabulary
  <2>1. mem' = journal /\ UNCHANGED <<tool, file, journal>> BY <1>2, RollbackVocabularyDoes
  <2> QED BY <1>0, <2>1, OtherLinks DEF ChangeKept
<1>3. CASE WriteFrontmatter \/ RestoreFrontmatter \/ RollbackConflict
  <2>1. Post /\ call.note # Owner
    <3>1. AtV3("write", "apply") \/ AtV3("unwrite", "rollback") \/ AtV3("restore", "rollback")
        BY <1>3 DEF WriteFrontmatter, RestoreFrontmatter, RollbackConflict
    <3> QED BY <1>0, <3>1
  <2>2. /\ \A n \in Notes \ {call.note} : file'[n] = file[n]
        /\ UNCHANGED <<tool, journal>> /\ (mem' # missing => mem' = mem /\ mem # missing)
      BY <1>3, <2>1, WriteFrontmatterDoes, RestoreFrontmatterDoes, RollbackConflictDoes DEF FileBecomes, Closed
  <2>3. file'[Owner] = file[Owner] BY <2>1, <2>2, NotesThere
  <2> QED BY <1>0, <2>2, <2>3, OtherLinks DEF ChangeKept
<1>4. CASE ReadFrontmatter \/ KeepFrontmatter \/ VocabularyConflict \/ EntryDone \/ ReadRestored
  <2>1. UNCHANGED <<tool, file, journal>> /\ (mem' # missing => mem' = mem /\ mem # missing)
      BY <1>4, ReadFrontmatterDoes, KeepFrontmatterDoes, VocabularyConflictDoes, EntryDoneDoes, ReadRestoredDoes
         DEF Closed
  <2> QED BY <1>0, <2>1, OtherLinks DEF ChangeKept
<1>5. CASE MigrateNoteVocabulary \/ RollbackNoteVocabulary
  <2>1. Post
    <3>1. AtV3("phase", "apply") \/ AtV3("restore", "rollback")
        BY <1>5 DEF MigrateNoteVocabulary, RollbackNoteVocabulary
    <3> QED BY <1>0, <3>1 DEF NoNote
  <2>2. UNCHANGED <<tool, file, journal, mem>> BY <1>5, <2>1, MigrateNoteVocabularyDoes, RollbackNoteVocabularyDoes
  <2> QED BY <1>0, <2>2, OtherLinks DEF ChangeKept
<1>6. CASE JournalFrontmatter \/ JournalPhase \/ JournalRestored
  <2>1. mem # missing /\ journal' = mem' /\ mem'.change = mem.change /\ UNCHANGED <<tool, file>>
      BY <1>6, JournalFrontmatterDoes, JournalPhaseDoes, JournalRestoredDoes DEF Becomes
  <2> QED BY <1>0, <2>1, OtherLinks DEF ChangeKept
<1>7. CASE FinishVocabulary
  <2>1. mem # missing /\ mem' = missing /\ journal'.change = mem.change /\ UNCHANGED <<tool, file>>
      BY <1>7, FinishVocabularyDoes DEF Closed
  <2> QED BY <1>0, <2>1, OtherLinks DEF ChangeKept
<1> QED BY <1>1, <1>2, <1>3, <1>4, <1>5, <1>6, <1>7 DEF Vocabulary

LEMMA SchemaKeepsLinks ==
  ASSUME Base, LinksKept, Schema
  PROVE  LinksKept'
<1> USE DEF FromPoint
<1>0. ~Moving /\ tool' = tool BY SchemaIsBacking DEF Moving, Backing
<1>1. CASE ApplySchema \/ RollbackSchema
  <2>1. mem' = journal /\ UNCHANGED <<file, journal>> BY <1>1, ApplySchemaDoes, RollbackSchemaDoes
  <2> QED BY <1>0, <2>1, OtherLinks DEF ChangeKept
<1>2. CASE KeepCanonical \/ SkipRestore
  <2>1. mem # missing /\ mem'.change = mem.change /\ UNCHANGED <<file, journal>>
      BY <1>2, KeepCanonicalDoes, SkipRestoreDoes DEF Becomes
  <2> QED BY <1>0, <2>1, OtherLinks DEF ChangeKept
<1>3. CASE KeepIdentified \/ BackUp \/ Register \/ CheckRestore \/ RestoreRuntime
  <2>1. UNCHANGED <<file, journal>> /\ (mem' # missing => mem' = mem /\ mem # missing)
      BY <1>3, KeepIdentifiedDoes, BackUpDoes, RegisterDoes, CheckRestoreDoes, RestoreRuntimeDoes DEF Closed
  <2> QED BY <1>0, <2>1, OtherLinks DEF ChangeKept
<1>4. CASE Rewrite \/ RestoreBackup
  <2>1. /\ mem # missing /\ mem'.change = mem.change /\ UNCHANGED journal
        /\ call.note \in Entries /\ \A n \in Notes \ {call.note} : file'[n] = file[n]
      BY <1>4, RewriteDoes, RestoreBackupDoes DEF FileBecomes, Becomes, NoNote
  <2>2. file'[Owner] = file[Owner] BY <2>1, NotesThere
  <2> QED BY <1>0, <2>1, <2>2, OtherLinks DEF ChangeKept
<1>5. CASE RecordEntry \/ JournalRollback
  <2>1. mem # missing /\ journal' = mem' /\ mem'.change = mem.change /\ UNCHANGED file
      BY <1>5, RecordEntryDoes, JournalRollbackDoes DEF Becomes
  <2> QED BY <1>0, <2>1, OtherLinks DEF ChangeKept
<1>6. CASE FinishSchema
  <2>1. mem # missing /\ mem' = missing /\ journal'.change = mem.change /\ UNCHANGED file
      BY <1>6, FinishSchemaDoes DEF Closed
  <2> QED BY <1>0, <2>1, OtherLinks DEF ChangeKept
<1> QED BY <1>1, <1>2, <1>3, <1>4, <1>5, <1>6 DEF Schema

\* The steps of a move that leave the links alone.
LEMMA MovingKeepsLinks ==
  ASSUME Base, TextsKept, MovesKept, LinksKept,
         CheckMove \/ RefuseMove \/ Rename \/ JournalMove \/ Relocate \/ RelocateRefused \/ JournalMoved
         \/ CheckUndo \/ UndoRename \/ SkipUndo \/ UndoRelocate \/ UndoRefused
  PROVE  LinksKept'
<1> USE DEF FromPoint, ToPoint
<1>1. \E p \in {"entry", "rename", "journal_move", "relocate", "moved"} : \E q \in {"apply", "rollback"} : AtMove(p, q)
    BY DEF CheckMove, RefuseMove, Rename, JournalMove, Relocate, RelocateRefused, JournalMoved,
           CheckUndo, UndoRename, SkipUndo, UndoRelocate, UndoRefused
<1>2. PICK p \in {"entry", "rename", "journal_move", "relocate", "moved"} : \E q \in {"apply", "rollback"} : AtMove(p, q)
    BY <1>1
<1>3. PICK q \in {"apply", "rollback"} : AtMove(p, q) BY <1>2
<1>4. p \notin NoNote BY DEF NoNote
<1>5. /\ call.op = q /\ call.pc = p /\ call.op # "idle" /\ Moving /\ mem # missing /\ call.note \in Entries
      /\ q = "apply" => mem = journal
      /\ tool = "sumarios" => Post
    BY <1>3, <1>4, MoveInHand DEF Post
<1>6. tool = "sumarios" => journal.status # "rolled_back" /\ (q = "apply" => mem.status # "rolled_back")
    BY <1>5 DEF LinksKept, LinkCall
<1>7. Owner # call.note BY <1>5, EntriesMoved
<1>8. tool = "sumarios" \/ tool = "taxonomy" BY <1>5 DEF Moving
<1>9. call.pc \notin LinkPoints BY <1>5 DEF LinkPoints
<1>10. CASE CheckMove \/ Rename \/ Relocate \/ CheckUndo \/ UndoRename
  <2>1. /\ UNCHANGED <<tool, touched, torn, journal, mem>>
        /\ \A n \in Notes \ {call.note} : file'[n] = file[n] /\ cat'[n] = cat[n]
        /\ call'.pc \in {"rename", "journal_move", "relocate", "moved"}
      BY <1>5, <1>10, CheckMoveDoes, RenameDoes, RelocateDoes, CheckUndoDoes, UndoRenameDoes DEF Carried, Brought
  <2> QED BY <1>5, <1>6, <1>7, <1>9, <2>1, NotesThere, QuietLinks DEF LinkPoints, ChangeKept, Told
<1>11. CASE RefuseMove \/ RelocateRefused
  <2>1. /\ UNCHANGED <<tool, touched, torn>> /\ mem' = missing /\ call'.pc = "next" /\ q = "apply"
        /\ \A n \in Notes \ {call.note} : file'[n] = file[n] /\ cat'[n] = cat[n]
        /\ journal' = journal \/ (journal'.change = mem.change /\ journal'.status = mem.status)
      BY <1>5, <1>11, RefuseMoveDoes, RelocateRefusedDoes DEF Brought, Closed, NoCall
  <2>2. journal'.change = mem.change /\ journal'.status = mem.status BY <1>5, <2>1
  <2> QED BY <1>5, <1>6, <1>7, <1>9, <2>1, <2>2, NotesThere, QuietLinks DEF LinkPoints, ChangeKept, Told
<1>12. CASE JournalMove \/ JournalMoved
  <2>1. /\ UNCHANGED <<tool, touched, torn, file, cat>> /\ journal' = mem' /\ mem' # missing /\ q = "apply"
        /\ mem'.change = mem.change /\ mem'.status = mem.status /\ call'.pc \in {"relocate", "next"}
      BY <1>5, <1>12, JournalMoveDoes, JournalMovedDoes DEF Becomes
  <2> QED BY <1>5, <1>6, <1>9, <2>1, QuietLinks DEF LinkPoints, ChangeKept, Told
<1>13. CASE SkipUndo \/ UndoRelocate \/ UndoRefused
  <2>1. /\ UNCHANGED <<tool, touched, torn, journal>> /\ mem' # missing /\ mem'.change = mem.change
        /\ \A n \in Notes \ {call.note} : file'[n] = file[n] /\ cat'[n] = cat[n]
        /\ call'.pc = "next"
      BY <1>13, SkipUndoDoes, UndoRelocateDoes, UndoRefusedDoes DEF Becomes, Carried
  <2> QED BY <1>5, <1>6, <1>7, <1>9, <2>1, NotesThere, QuietLinks DEF LinkPoints, ChangeKept, Told
<1> QED BY <1>10, <1>11, <1>12, <1>13

LEMMA ManifestsKeepLinks ==
  ASSUME Base, LinksKept, ApproveManifest \/ ApplyMoves \/ RollbackMoves
  PROVE  LinksKept'
<1>0. call.op = "idle" /\ call = NoCall /\ mem = missing /\ Moving
    BY ApproveManifestDoes, ApplyMovesDoes, RollbackMovesDoes DEF Base, InPlace
<1>1. call.pc \notin LinkPoints BY <1>0 DEF NoCall, LinkPoints
<1>2. CASE ApproveManifest
  <2>1. /\ journal'.status = "approved" /\ journal'.change = journal.change
        /\ UNCHANGED <<tool, file, cat, mem, call, touched, torn>>
      BY <1>2, ApproveManifestDoes
  <2> QED BY <1>0, <1>1, <2>1, QuietLinks DEF ChangeKept, Told
<1>3. CASE ApplyMoves \/ RollbackMoves
  <2>1. /\ mem' = journal /\ mem' # missing /\ call'.pc = "next"
        /\ tool = "sumarios" => journal.status \in {"approved", "completed"}
        /\ UNCHANGED <<tool, file, cat, journal, touched, torn>>
      BY <1>3, ApplyMovesDoes, RollbackMovesDoes
  <2>2. tool = "sumarios" => journal'.status # "rolled_back" BY <2>1
  <2> QED BY <1>0, <1>1, <2>1, <2>2, QuietLinks DEF ChangeKept, Told, LinkPoints
<1> QED BY <1>2, <1>3

\* The steps that write the links and their row.
LEMMA LinkingKeepsLinks ==
  ASSUME Base, TextsKept, MovesKept, LinksKept,
         ReadLinks \/ RewriteLinks \/ RefuseLinks \/ CommitLinks \/ LinksConflict \/ JournalLinks
         \/ ReadUnlinked \/ UndoLinks \/ CommitUnlinked \/ UnlinkConflict
  PROVE  LinksKept'
<1> USE DEF FromPoint, ToPoint
<1>0. LinkCall BY DEF LinksKept
<1>7. CASE ReadLinks
  <2>1. /\ tool = "sumarios" /\ FromPoint("next", "apply") /\ ToPoint("relink")
        /\ file[Owner].old.link = "old" /\ call'.saw = file[Owner].old /\ call'.row = cat[Owner]
        /\ UNCHANGED <<tool, file, cat, journal, mem, touched, torn>>
      BY <1>7, ReadLinksDoes DEF Linked
  <2>2. journal.status # "rolled_back" BY <1>0, <2>1 DEF LinkCall
  <2>3. LinkCall' BY <1>0, <2>1, <2>2 DEF LinkCall, LinkPlans, Running
  <2>4. LinkEntry => LinkEntry' BY <2>1, <2>2 DEF LinkEntry, RowAgrees
  <2> QED BY <2>1, <2>3, <2>4 DEF LinksKept
<1>1. CASE RewriteLinks
  <2>1. /\ Moving /\ FromPoint("relink", "apply") /\ ToPoint("link") /\ call.saw \in Text
        /\ call'.saw = call.saw /\ call'.row = call.row
        /\ file'[Owner].old = [call.saw EXCEPT !.link = "new"]
        /\ UNCHANGED <<tool, cat, journal, mem, touched, torn>>
      BY <1>1, RewriteLinksDoes DEF FileBecomes
  <2>2. tool = "sumarios" /\ call.saw.link = "old" /\ journal.status # "rolled_back"
      BY <1>0, <2>1 DEF LinkCall
  <2>3. LinkCall' BY <1>0, <2>1, <2>2 DEF LinkCall, LinkPlans, Running
  <2>4. LinkEntry => LinkEntry' BY <2>1, <2>2 DEF LinkEntry
  <2> QED BY <2>1, <2>2, <2>3, <2>4 DEF LinksKept
<1>8. CASE LinksConflict
  <2>1. /\ Moving /\ FromPoint("link", "apply") /\ Closed /\ cat[Owner] # call.row
        /\ UNCHANGED <<tool, cat, journal, touched, torn>>
      BY <1>8, LinksConflictDoes
  <2>2. call'.pc = "next" /\ call'.op = "idle" /\ mem' = missing BY <2>1 DEF Closed, NoCall
  <2>3. tool = "sumarios" BY <1>0, <2>1 DEF LinkCall
  <2>4. LinkCall' BY <1>0, <2>1, <2>2 DEF LinkCall, LinkPlans
  <2>5. LinkEntry => FALSE BY <2>1 DEF LinkEntry
  <2> QED BY <2>1, <2>3, <2>4, <2>5 DEF LinksKept
<1>2. CASE RefuseLinks
  <2>1. /\ tool = "sumarios" /\ FromPoint("next", "apply") /\ Closed /\ ~RowAgrees(Owner)
        /\ UNCHANGED <<tool, file, cat, journal, touched, torn>>
      BY <1>2, RefuseLinksDoes
  <2>2. call'.pc = "next" /\ call'.op = "idle" /\ mem' = missing BY <2>1 DEF Closed, NoCall
  <2>3. LinkCall' BY <1>0, <2>1, <2>2 DEF LinkCall, LinkPlans
  <2>4. LinkEntry => FALSE BY <2>1 DEF LinkEntry
  <2> QED BY <2>1, <2>3, <2>4 DEF LinksKept
<1>3. CASE CommitLinks
  <2>1. /\ Moving /\ FromPoint("link", call.op) /\ ToPoint("linked") /\ call'.saw = call.saw
        /\ cat[Owner] = missing <=> cat'[Owner] = missing
        /\ cat'[Owner] # missing => cat'[Owner].text = [call.saw EXCEPT !.link = "new"]
        /\ UNCHANGED <<tool, file, journal, mem, touched, torn>>
      BY <1>3, CommitLinksDoes DEF RowRewritten
  <2>2. /\ tool = "sumarios" /\ call.saw.link = "old" /\ call.op = "apply" /\ journal.status # "rolled_back"
      BY <1>0, <2>1 DEF LinkCall, Running
  <2>3. LinkCall' BY <1>0, <2>1, <2>2 DEF LinkCall, LinkPlans, Running
  <2>4. LinkEntry => LinkEntry' BY <2>1, <2>2 DEF LinkEntry, RowAgrees
  <2> QED BY <2>1, <2>2, <2>3, <2>4 DEF LinksKept
<1>4. CASE JournalLinks
  <2>1. /\ Moving /\ FromPoint("linked", "apply") /\ ToPoint("next")
        /\ mem' # missing /\ journal' = mem' /\ mem'.status = mem.status
        /\ mem'.change # missing /\ mem'.change.pre = call.saw /\ mem'.change.targets = {Target}
        /\ mem'.change.post = [call.saw EXCEPT !.link = "new"]
        /\ UNCHANGED <<tool, file, cat, touched, torn>>
      BY <1>4, JournalLinksDoes
  <2>2. tool = "sumarios" /\ call.saw.link = "old" /\ journal.status # "rolled_back" /\ mem = journal
      BY <1>0, <2>1 DEF LinkCall, MovesKept, MoveCall, Running
  <2>3. LinkCall' BY <1>0, <2>1, <2>2 DEF LinkCall, LinkPlans
  <2>4. LinkEntry => LinkEntry' BY <2>1, <2>2 DEF LinkEntry, RowAgrees, Rewritten, Told
  <2> QED BY <2>1, <2>2, <2>3, <2>4 DEF LinksKept
<1>9. CASE ReadUnlinked
  <2>1. /\ Moving /\ FromPoint("next", "rollback") /\ ToPoint("unrelink") /\ mem.change # missing
        /\ call'.row = cat[Owner] /\ UNCHANGED <<tool, file, cat, journal, mem, touched, torn>>
      BY <1>9, ReadUnlinkedDoes DEF Unlinkable
  <2>2. tool = "sumarios" /\ journal.status # "rolled_back" BY <1>0, <2>1 DEF LinkCall, LinkPlans, Moving
  <2>3. LinkCall' BY <1>0, <2>1, <2>2 DEF LinkCall, LinkPlans
  <2>4. LinkEntry => LinkEntry' BY <2>1, <2>2 DEF LinkEntry, RowAgrees, Rewritten, Told
  <2> QED BY <2>1, <2>2, <2>3, <2>4 DEF LinksKept
<1>10. CASE UnlinkConflict
  <2>1. /\ Moving /\ FromPoint("unlink", "rollback") /\ ToPoint("finish") /\ mem.change # missing
        /\ file[Owner].old # mem.change.pre \/ cat[Owner] # call.row
        /\ UNCHANGED <<tool, cat, journal, mem, touched, torn>>
      BY <1>10, UnlinkConflictDoes
  <2>2. tool = "sumarios" /\ journal.status # "rolled_back" BY <1>0, <2>1 DEF LinkCall, LinkPlans, Moving
  <2>3. LinkCall' BY <1>0, <2>1, <2>2 DEF LinkCall, LinkPlans
  <2>4. LinkEntry => FALSE BY <2>1 DEF LinkEntry
  <2> QED BY <2>1, <2>2, <2>3, <2>4 DEF LinksKept
<1>5. CASE UndoLinks
  <2>1. /\ Moving /\ FromPoint("unrelink", "rollback") /\ ToPoint("unlink") /\ mem.change # missing
        /\ mem.change.pre \in Text /\ call'.row = call.row /\ file'[Owner].old = mem.change.pre
        /\ UNCHANGED <<tool, cat, journal, mem, touched, torn>>
      BY <1>5, UndoLinksDoes DEF FileBecomes
  <2>2. tool = "sumarios" /\ mem.change.pre.link = "old" /\ journal.status # "rolled_back"
      BY <1>0, <2>1 DEF LinkCall, LinkPlans, Moving
  <2>3. LinkCall' BY <1>0, <2>1, <2>2 DEF LinkCall, LinkPlans
  <2>4. LinkEntry => LinkEntry' BY <2>1, <2>2 DEF LinkEntry
  <2> QED BY <2>1, <2>2, <2>3, <2>4 DEF LinksKept
<1>6. CASE CommitUnlinked
  <2>1. /\ Moving /\ FromPoint("unlink", call.op) /\ ToPoint("finish") /\ mem.change # missing
        /\ cat[Owner] = missing <=> cat'[Owner] = missing
        /\ cat'[Owner] # missing => cat'[Owner].text = mem.change.pre
        /\ UNCHANGED <<tool, file, journal, mem, touched, torn>>
      BY <1>6, CommitUnlinkedDoes DEF RowRewritten
  <2>2. tool = "sumarios" /\ mem.change.pre.link = "old" /\ journal.status # "rolled_back"
      BY <1>0, <2>1 DEF LinkCall, LinkPlans, Moving
  <2>3. LinkCall' BY <1>0, <2>1, <2>2 DEF LinkCall, LinkPlans
  <2>4. LinkEntry => LinkEntry' BY <2>1, <2>2 DEF LinkEntry, RowAgrees
  <2> QED BY <2>1, <2>2, <2>3, <2>4 DEF LinksKept
<1> QED BY <1>1, <1>2, <1>3, <1>4, <1>5, <1>6, <1>7, <1>8, <1>9, <1>10

\* The end of a call: a rollback that leaves the links has not undone the move.
LEMMA FinishingKeepsLinks ==
  ASSUME Base, TextsKept, MovesKept, LinksKept, FinishMoves \/ FinishReturn
  PROVE  LinksKept'
<1> USE DEF FromPoint
<1>0. LinkCall BY DEF LinksKept
<1>1. CASE FinishMoves
  <2>1. /\ Moving /\ FromPoint("next", "apply") /\ Closed /\ journal'.status = "completed" /\ journal'.change = mem.change
        /\ UNCHANGED <<tool, file, cat, touched, torn>>
      BY <1>1, FinishMovesDoes
  <2>2. call'.pc = "next" /\ call'.op = "idle" /\ mem' = missing BY <2>1 DEF Closed, NoCall
  <2>3. LinkCall' BY <1>0, <2>1, <2>2 DEF LinkCall, LinkPlans
  <2>4. LinkEntry => LinkEntry' BY <2>1, <2>2 DEF LinkEntry, RowAgrees, Rewritten, Told
  <2> QED BY <2>1, <2>2, <2>3, <2>4 DEF LinksKept
<1>2. CASE FinishReturn
  <2>1. /\ Moving /\ call.op = "rollback" /\ mem # missing /\ Closed
        /\ (call.pc = "next" /\ call.todo = {} /\ ~Unlinkable) \/ call.pc = "finish"
        /\ journal'.entry = mem.entry /\ journal'.change = mem.change /\ journal'.status = "rolled_back"
        /\ UNCHANGED <<tool, file, cat, touched, torn>>
      BY <1>2, FinishReturnDoes
  <2>2. call'.pc = "next" /\ call'.op = "idle" /\ mem' = missing BY <2>1 DEF Closed, NoCall
  <2>3. LinkCall' BY <1>0, <2>1, <2>2 DEF LinkCall, LinkPlans
  <2>4. ASSUME LinkEntry, tool = "sumarios" PROVE LinkEntry'
    <3>1. /\ file'[Owner].old.link = "new" /\ call'.pc \notin {"link", "linked"} => Rewritten(Told)'
          /\ RowAgrees(Owner)'
      <4>1. CASE call.pc = "finish"
        <5>1. file[Owner].old = mem.change.pre /\ RowAgrees(Owner) BY <2>4, <4>1 DEF LinkEntry
        <5>2. file[Owner].old.link # "new" \/ mem.change = missing BY <1>0, <2>1, <5>1 DEF LinkCall, LinkPlans
        <5>3. file[Owner].old.link = "new" => Rewritten(mem) BY <2>1, <2>4, <4>1 DEF LinkEntry, Told
        <5> QED BY <2>1, <2>2, <5>1, <5>3 DEF Told, Rewritten, RowAgrees
      <4>2. CASE call.pc = "next"
        BY <2>1, <2>2, <2>4, <4>2 DEF LinkEntry, Told, Rewritten, RowAgrees
      <4> QED BY <2>1, <4>1, <4>2
    <3>2. ASSUME Target \in Entries, ~mem.entry[Target].applied, ~mem.entry[Target].skipped
          PROVE  file[Owner].old.link = "old"
      <4>1. file[Owner].old \in Text
        <5>1. InOld(Owner) BY DEF Base, InPlace
        <5> QED BY <5>1, NotesThere, FileAt DEF Base, InOld
      <4>2. file[Owner].old.link \in {"old", "new"} BY <4>1 DEF Text, Places
      <4>3. mem.change # missing => mem.change.pre.link = "old" BY <1>0, <2>1 DEF LinkCall, LinkPlans
      <4>4. CASE call.pc = "finish"
        <5>1. file[Owner].old = mem.change.pre BY <2>4, <4>4 DEF LinkEntry
        <5>2. AtPoint("finish") BY <2>1, <4>4 DEF AtPoint
        <5>3. file[Owner].old.link = "new" => mem.change # missing BY <2>1, <2>4, <4>4 DEF LinkEntry, Told, Rewritten
        <5> QED BY <4>2, <4>3, <5>1, <5>3
      <4>5. CASE call.pc = "next" /\ ~Unlinkable
        <5>1. MoveListed(Target) BY <2>1, <3>2 DEF MovesKept
        <5>2. mem.entry[Target].phase = "planned" BY <2>1, <2>4, <3>2, <5>1 DEF MoveListed
        <5>3. Target \in RolledBack BY <3>2, <5>2 DEF RolledBack
        <5>4. RowAgrees(Owner) BY <2>4, <4>5 DEF LinkEntry
        <5>5. ~Rewritten(mem) BY <4>5, <5>3, <5>4 DEF Unlinkable, Rewritten
        <5> QED BY <2>1, <2>4, <4>2, <4>5, <5>5 DEF LinkEntry, Told
      <4> QED BY <2>1, <4>4, <4>5
    <3>3. Target' = Target OBVIOUS
    <3> QED BY <2>1, <2>2, <3>1, <3>2, <3>3 DEF LinkEntry
  <2> QED BY <2>1, <2>3, <2>4 DEF LinksKept
<1> QED BY <1>1, <1>2

LEMMA OthersKeepLinks ==
  ASSUME Base, LinksKept, TakeEntry \/ CallDies \/ PeopleWork \/ UNCHANGED migrationVars
  PROVE  LinksKept'
<1>0. LinkCall BY DEF LinksKept
<1>1. CASE TakeEntry
  <2>1. /\ call.op # "idle" /\ call'.op = call.op /\ call.pc = "next" /\ call'.pc = "entry" /\ mem # missing
        /\ UNCHANGED <<tool, file, cat, journal, mem, touched, torn>>
      BY <1>1, TakeEntryDoes
  <2>2. tool = "sumarios" => journal'.status # "rolled_back" BY <1>0, <2>1 DEF LinkCall
  <2> QED BY <2>1, <2>2, QuietLinks DEF LinkPoints, ChangeKept, Told
<1>2. CASE CallDies
  <2>1. /\ mem # missing /\ Closed /\ torn' # "no" /\ UNCHANGED <<tool, file, cat, journal, touched>>
      BY <1>2, CallDiesDoes
  <2>2. call'.pc = "next" /\ call'.op = "idle" /\ mem' = missing BY <2>1 DEF Closed, NoCall
  <2>3. LinkCall' BY <1>0, <2>1, <2>2 DEF LinkCall, LinkPlans
  <2> QED BY <2>1, <2>3 DEF LinksKept
<1>3. CASE PeopleWork
  <2>1. PICK k \in Notes : Saved(k) BY <1>3, PeopleWorkDoes
  <2>2. /\ UNCHANGED <<tool, journal, mem, call, torn>> /\ touched' = touched \union {k}
        /\ \A n \in Notes \ {k} : file'[n] = file[n] /\ cat'[n] = cat[n]
        /\ (cat'[k] = missing <=> cat[k] = missing)
      BY <2>1 DEF Saved
  <2>3. file'[Owner].old.link = file[Owner].old.link
    <3>1. CASE k # Owner BY <2>2, <3>1, NotesThere
    <3>2. CASE k = Owner
      <4>1. PICK p \in Places, x \in Text :
              /\ x.link = file[Owner][p].link /\ file'[Owner][p] = x
              /\ \A q \in Places \ {p} : file'[Owner][q] = file[Owner][q]
          BY <2>1, <3>2 DEF Saved
      <4>2. p = "old" \/ (p = "new" /\ "old" \in Places \ {p}) BY <4>1, NotesThere
      <4> QED BY <4>1, <4>2
    <3> QED BY <3>1, <3>2
  <2>4. cat'[Owner] = missing <=> cat[Owner] = missing BY <2>2, NotesThere
  <2>5. LinkCall' BY <1>0, <2>2, <2>4 DEF LinkCall, LinkPlans, Moving, Running
  <2>6. ASSUME LinkEntry, Owner \notin touched' PROVE LinkEntry'
    <3>1. file'[Owner] = file[Owner] /\ cat'[Owner] = cat[Owner] BY <2>2, <2>6, NotesThere
    <3>2. Target \notin touched' => Target \notin touched BY <2>2
    <3> QED BY <2>2, <2>6, <3>1, <3>2 DEF LinkEntry, Told, Rewritten, RowAgrees
  <2>7. Owner \notin touched' => Owner \notin touched BY <2>2
  <2> QED BY <2>2, <2>3, <2>5, <2>6, <2>7 DEF LinksKept
<1>4. CASE UNCHANGED migrationVars
  <2>1. UNCHANGED <<tool, file, cat, journal, mem, call, touched, torn>> BY <1>4 DEF migrationVars, rows, history
  <2> QED BY <2>1 DEF LinksKept, LinkCall, LinkPlans, LinkEntry, Told, Rewritten, RowAgrees, Moving, Running
<1> QED BY <1>1, <1>2, <1>3, <1>4

LEMMA LinksStep ==
  ASSUME Base, TextsKept, MovesKept, LinksKept, [MigrationNext]_migrationVars
  PROVE  LinksKept'
<1>1. CASE Routes BY <1>1, MovingKeepsLinks, ManifestsKeepLinks, LinkingKeepsLinks, FinishingKeepsLinks DEF Routes
<1>2. CASE Vocabulary BY <1>2, VocabularyKeepsLinks
<1>3. CASE Schema BY <1>3, SchemaKeepsLinks
<1>4. CASE TakeEntry \/ CallDies \/ PeopleWork \/ UNCHANGED migrationVars BY <1>4, OthersKeepLinks
<1> QED BY <1>1, <1>2, <1>3, <1>4 DEF MigrationNext

-----------------------------------------------------------------------------
(* The journal of the two tools with backups. *)

LEMMA MigratedAlready ==
  ASSUME NEW x \in Text, x.form = "after"
  PROVE  Migrated(x) = x
BY DEF Text, Migrated

LEMMA BackupHand ==
  ASSUME Base, TextsKept, BackupsKept, NEW p, NEW op, AtBackup(p, op), p \notin NoNote
  PROVE  /\ FromPoint(p, op) /\ Backing /\ mem # missing /\ call.note \in Entries /\ call.note \notin call.todo
         /\ E \in ManifestEntry /\ E = mem.entry[call.note] /\ Told = mem /\ F = file[call.note]
         /\ F.old \in Text /\ Migrated(F.old) \in Text
         /\ BackupCall /\ call.todo \subseteq Entries
<1>1. FromPoint(p, op) /\ Backing BY AtFrom DEF AtBackup
<1>2. mem # missing /\ call.note \in Entries /\ call.note \notin call.todo BY <1>1 DEF FromPoint
<1>3. E \in ManifestEntry BY <1>2, EntryTyped DEF Base
<1>4. F.old \in Text BY <1>1, <1>2, BodiesInPlace DEF TextsKept, F
<1>5. BackupCall BY <1>1 DEF BackupsKept
<1>6. call.todo \subseteq Entries BY Calls DEF Base
<1> QED BY <1>1, <1>2, <1>3, <1>4, <1>5, <1>6, Rewrites DEF E, F, Told

\* An entry that is not in hand.
LEMMA OtherBackup ==
  ASSUME NEW n \in Entries, BackupNote(n), n # call.note, mem # missing, mem' # missing, call.op # "idle",
         call'.op = call.op, call'.note = call.note, call'.todo = call.todo, call'.pc # "runtime",
         mem'.entry[n] = mem.entry[n], journal'.entry[n].existed = journal.entry[n].existed,
         journal'.entry[n].applied => journal.entry[n].applied \/ mem.entry[n].applied,
         file'[n] = file[n], cat'[n] = cat[n], backup'[n] = backup[n], UNCHANGED <<snapshot, torn, tool>>
  PROVE  BackupNote(n)'
<1>1. Told = mem /\ Told' = mem' BY DEF Told
<1>2. BackupEntry(n)' BY <1>1 DEF BackupNote, BackupEntry, Handling, Running
<1>3. tool = "schema" => SchemaEntryKept(n)' BY DEF BackupNote, SchemaEntryKept, SchemaRow
<1>4. tool = "identity" => IdentityEntryKept(n)'
    BY <1>1 DEF BackupNote, IdentityEntryKept, IdentityRow, Handling, Running, AtPoint
<1> QED BY <1>2, <1>3, <1>4 DEF BackupNote

LEMMA BackupsFollow ==
  ASSUME BackupsKept, Backing, UNCHANGED <<tool, touched>>, BackupCall',
         \A n \in Entries : Untouched(n) /\ BackupNote(n) => BackupNote(n)'
  PROVE  BackupsKept'
<1>1. ASSUME NEW n \in Entries, Untouched(n)' PROVE BackupNote(n)'
  <2>1. Untouched(n) BY <1>1 DEF Untouched
  <2> QED BY <1>1, <2>1 DEF BackupsKept
<1> QED BY <1>1 DEF BackupsKept

\* A step of the entry in hand.
LEMMA HandBackups ==
  ASSUME Base, BackupsKept, Backing, UNCHANGED <<tool, touched, torn, snapshot>>, BackupCall',
         mem # missing, mem' # missing, call.op # "idle",
         call'.op = call.op, call'.note = call.note, call'.todo = call.todo, call'.pc # "runtime",
         \A n \in Entries : n # call.note =>
            /\ mem'.entry[n] = mem.entry[n] /\ journal'.entry[n].existed = journal.entry[n].existed
            /\ journal'.entry[n].applied => journal.entry[n].applied \/ mem.entry[n].applied
            /\ file'[n] = file[n] /\ cat'[n] = cat[n] /\ backup'[n] = backup[n],
         \A n \in Entries : n = call.note /\ Untouched(n) /\ BackupNote(n) => BackupNote(n)'
  PROVE  BackupsKept'
<1>1. \A n \in Entries : Untouched(n) /\ BackupNote(n) => BackupNote(n)' BY OtherBackup
<1> QED BY <1>1, BackupsFollow

\* An entry is put aside with what it says of its texts.
LEMMA EntryHeld ==
  ASSUME BackupCall, NEW f, mem # missing, mem' # missing, call.note \in Entries,
         call.todo \subseteq Entries, call.note \notin call.todo, E = mem.entry[call.note],
         mem'.entry[call.note] = f, f.post = E.post, f.existed = E.existed,
         \A n \in Entries : n # call.note => mem'.entry[n] = mem.entry[n],
         ToPoint("next"), UNCHANGED <<journal, backup, snapshot>>
  PROVE  BackupCall'
<1>1. \A n \in Entries : mem'.entry[n].existed = mem.entry[n].existed /\ mem'.entry[n].post = mem.entry[n].post
    OBVIOUS
<1>2. \A n \in call.todo : mem'.entry[n] = mem.entry[n] OBVIOUS
<1> QED BY <1>1, <1>2 DEF BackupCall, ToPoint, AtPoint, Running

LEMMA ApplyingKeepsBackups ==
  ASSUME Base, TextsKept, BackupsKept,
         KeepCanonical \/ KeepIdentified \/ BackUp \/ Rewrite \/ Register \/ RecordEntry
  PROVE  BackupsKept'
<1> USE DEF FromPoint, ToPoint
<1>0. {"entry", "rewrite", "register", "record"} \cap NoNote = {} BY DEF NoNote
<1>1. CASE KeepCanonical
  <2>1. AtBackup("entry", "apply") BY <1>1 DEF KeepCanonical
  <2>2. /\ FromPoint("entry", "apply") /\ Backing /\ mem # missing /\ call.note \in Entries
        /\ E \in ManifestEntry /\ E = mem.entry[call.note] /\ Told = mem /\ F = file[call.note] /\ BackupCall
        /\ call.todo \subseteq Entries /\ call.note \notin call.todo
      BY <1>0, <2>1, BackupHand
  <2> DEFINE f == [E EXCEPT !.applied = TRUE, !.skipped = TRUE]
  <2>3. /\ tool = "schema" /\ ToPoint("next") /\ F.old.form = "after" /\ Becomes(f)
        /\ UNCHANGED <<tool, file, cat, journal, backup, snapshot, touched, torn>>
      BY <1>1, KeepCanonicalDoes
  <2>4. f.applied = TRUE /\ f.pre = E.pre /\ f.post = E.post /\ f.existed = E.existed BY <2>2, Kept
  <2> HIDE DEF f
  <2>5. /\ mem' # missing /\ Told' = mem' /\ mem'.entry[call.note] = f
        /\ \A n \in Entries : n # call.note => mem'.entry[n] = mem.entry[n]
      BY <2>3 DEF Becomes, Told
  <2>6. BackupCall' BY <2>2, <2>3, <2>4, <2>5, EntryHeld
  <2>7. ASSUME NEW n \in Entries, n = call.note, BackupNote(n) PROVE BackupNote(n)'
    <3>1. BackupEntry(n) /\ SchemaEntryKept(n) BY <2>3, <2>7 DEF BackupNote
    <3>2. BackupEntry(n)' BY <2>2, <2>3, <2>4, <2>5, <2>7, <3>1 DEF BackupEntry, Handling, Running
    <3>3. SchemaEntryKept(n)' BY <2>3, <3>1 DEF SchemaEntryKept, SchemaRow
    <3> QED BY <2>3, <3>2, <3>3 DEF BackupNote
  <2> QED BY <2>2, <2>3, <2>5, <2>6, <2>7, HandBackups
<1>2. CASE KeepIdentified
  <2>1. AtBackup("entry", "apply") BY <1>2 DEF KeepIdentified
  <2>2. /\ FromPoint("entry", "apply") /\ Backing /\ mem # missing /\ call.note \in Entries
        /\ E = mem.entry[call.note] /\ Told = mem /\ F = file[call.note] /\ BackupCall
      BY <1>0, <2>1, BackupHand
  <2>3. /\ tool = "identity" /\ ToPoint("register") /\ call'.saw = F.old /\ F.old.form = "after"
        /\ UNCHANGED <<tool, file, cat, journal, mem, backup, snapshot, touched, torn>>
      BY <1>2, KeepIdentifiedDoes
  <2>4. Told' = mem /\ ~E.applied BY <2>2, <2>3 DEF Told, BackupCall, Running
  <2>5. BackupCall' BY <2>2, <2>3 DEF BackupCall, AtPoint, Running, E
  <2>6. ASSUME NEW n \in Entries, n = call.note, BackupNote(n) PROVE BackupNote(n)'
    <3>1. BackupEntry(n) /\ IdentityEntryKept(n) BY <2>3, <2>6 DEF BackupNote
    <3>2. BackupEntry(n)' BY <2>2, <2>3, <2>4, <2>6, <3>1 DEF BackupEntry, Handling, Running, Same
    <3>3. IdentityEntryKept(n)'
        BY <2>2, <2>3, <2>4, <2>6, <3>1 DEF IdentityEntryKept, IdentityRow, Handling, Running, AtPoint
    <3> QED BY <2>3, <3>2, <3>3 DEF BackupNote
  <2> QED BY <2>2, <2>3, <2>5, <2>6, HandBackups
<1>3. CASE BackUp
  <2>1. AtBackup("entry", "apply") BY <1>3 DEF BackUp
  <2>2. /\ FromPoint("entry", "apply") /\ Backing /\ mem # missing /\ call.note \in Entries
        /\ E = mem.entry[call.note] /\ Told = mem /\ F = file[call.note] /\ BackupCall
        /\ F.old \in Text
      BY <1>0, <2>1, BackupHand
  <2>3. /\ ToPoint("rewrite") /\ call'.saw = F.old /\ F.old.form = "before"
        /\ backup'[call.note] = IF backup[call.note] = missing THEN F.old ELSE backup[call.note]
        /\ \A n \in Notes \ {call.note} : backup'[n] = backup[n]
        /\ UNCHANGED <<tool, file, cat, journal, mem, snapshot, touched, torn>>
      BY <1>3, BackUpDoes
  <2>4. Told' = mem BY <2>2, <2>3 DEF Told
  <2>5. BackupCall'
    <3>1. \A n \in Entries : backup'[n] # missing => backup'[n].form = "before"
        BY <2>2, <2>3, NotesThere DEF BackupCall
    <3> QED BY <2>2, <2>3, <3>1 DEF BackupCall, AtPoint, Running, E
  <2>6. ASSUME NEW n \in Entries, n = call.note, BackupNote(n) PROVE BackupNote(n)'
    <3>1. BackupEntry(n) /\ (tool = "schema" => SchemaEntryKept(n)) /\ (tool = "identity" => IdentityEntryKept(n))
        BY <2>6 DEF BackupNote
    <3>2. backup'[n] # missing BY <2>2, <2>3, <2>6, MissingAssumption
    <3>5. BackupEntry(n)' BY <2>2, <2>3, <2>4, <2>6, <3>1, <3>2 DEF BackupEntry, Handling, Running, Same
    <3>3. tool = "schema" => SchemaEntryKept(n)' BY <2>3, <3>1 DEF SchemaEntryKept, SchemaRow
    <3>4. tool = "identity" => IdentityEntryKept(n)'
        BY <2>2, <2>3, <2>4, <2>6, <3>1 DEF IdentityEntryKept, IdentityRow, Handling, Running, AtPoint
    <3> QED BY <2>3, <3>3, <3>4, <3>5 DEF BackupNote
  <2>7. \A n \in Entries : n # call.note => backup'[n] = backup[n] BY <2>3, NotesThere
  <2> QED BY <2>2, <2>3, <2>5, <2>6, <2>7, HandBackups
<1>4. CASE Rewrite
  <2>1. AtBackup("rewrite", "apply") BY <1>4 DEF Rewrite
  <2>2. /\ FromPoint("rewrite", "apply") /\ Backing /\ mem # missing /\ call.note \in Entries
        /\ E = mem.entry[call.note] /\ Told = mem /\ F = file[call.note] /\ BackupCall
        /\ F.old \in Text
      BY <1>0, <2>1, BackupHand
  <2>3. /\ ToPoint(IF tool = "identity" THEN "register" ELSE "record") /\ call'.saw = call.saw /\ call.saw \in Text
        /\ FileBecomes(call.note, Migrated(call.saw))
        /\ UNCHANGED <<tool, cat, journal, mem, backup, snapshot, touched, torn>>
      BY <1>4, RewriteDoes
  <2>4. Told' = mem BY <2>2, <2>3 DEF Told
  <2>5. BackupCall' BY <2>2, <2>3 DEF BackupCall, AtPoint, Running, E
  <2>6. ASSUME NEW n \in Entries, n = call.note, BackupNote(n) PROVE BackupNote(n)'
    <3>1. BackupEntry(n) /\ (tool = "schema" => SchemaEntryKept(n)) /\ (tool = "identity" => IdentityEntryKept(n))
        BY <2>6 DEF BackupNote
    <3>2. Migrated(call.saw) = Migrated(file[n].old)
        BY <2>2, <2>6, <3>1 DEF BackupEntry, Handling, Same
    <3>3. file'[n].old.form = "after" /\ Migrated(file'[n].old) = Migrated(file[n].old)
        BY <2>3, <2>6, <3>2, Rewrites DEF FileBecomes
    <3>4. BackupEntry(n)' BY <2>2, <2>3, <2>4, <2>6, <3>1, <3>3 DEF BackupEntry, Handling, Running, Same
    <3>5. tool = "schema" => SchemaEntryKept(n)' BY <2>3, <3>1, <3>3 DEF SchemaEntryKept, SchemaRow, Same
    <3>6. tool = "identity" => IdentityEntryKept(n)'
        BY <2>2, <2>3, <2>4, <2>6, <3>1, <3>3 DEF IdentityEntryKept, IdentityRow, Handling, Running, AtPoint
    <3> QED BY <2>3, <3>4, <3>5, <3>6 DEF BackupNote
  <2>7. \A n \in Entries : n # call.note => file'[n] = file[n] BY <2>3, NotesThere DEF FileBecomes
  <2> QED BY <2>2, <2>3, <2>5, <2>6, <2>7, HandBackups
<1>5. CASE Register
  <2>1. AtBackup("register", "apply") BY <1>5 DEF Register
  <2>2. /\ FromPoint("register", "apply") /\ Backing /\ mem # missing /\ call.note \in Entries
        /\ E = mem.entry[call.note] /\ Told = mem /\ F = file[call.note] /\ BackupCall
      BY <1>0, <2>1, BackupHand
  <2>3. /\ ToPoint("record") /\ call'.saw = call.saw /\ call.saw \in Text
        /\ cat'[call.note] = IF cat[call.note] # missing THEN cat[call.note]
                              ELSE [place |-> "old", rev |-> 1, text |-> Migrated(call.saw)]
        /\ \A n \in Notes \ {call.note} : cat'[n] = cat[n]
        /\ UNCHANGED <<tool, file, journal, mem, backup, snapshot, touched, torn>>
      BY <1>5, RegisterDoes
  <2>4. Told' = mem /\ tool = "identity" BY <2>2, <2>3 DEF Told, BackupCall, AtPoint
  <2>5. BackupCall' BY <2>2, <2>3 DEF BackupCall, AtPoint, Running, E
  <2>6. ASSUME NEW n \in Entries, n = call.note, BackupNote(n) PROVE BackupNote(n)'
    <3>1. BackupEntry(n) /\ IdentityEntryKept(n) BY <2>4, <2>6 DEF BackupNote
    <3>2. Migrated(call.saw) = Migrated(file[n].old)
        BY <2>2, <2>6, <3>1 DEF BackupEntry, Handling, Same
    <3>3. BackupEntry(n)' BY <2>2, <2>3, <2>4, <2>6, <3>1 DEF BackupEntry, Handling, Running
    <3>4. cat'[n] # missing /\ IdentityRow(cat'[n], n)
      <4>1. [place |-> "old", rev |-> 1, text |-> Migrated(call.saw)] # missing
        <5>1. [place |-> "old", rev |-> 1, text |-> Migrated(call.saw)] \in CatalogRow
            BY <2>3, Rewrites DEF CatalogRow, Places, Revision
        <5> QED BY <5>1, MissingAssumption
      <4> QED BY <2>3, <2>6, <3>1, <3>2, <4>1 DEF IdentityEntryKept, IdentityRow
    <3>5. snapshot # missing BY <2>2 DEF BackupCall, Running
    <3>6. IdentityEntryKept(n)'
        BY <2>2, <2>3, <2>4, <2>6, <3>1, <3>4, <3>5 DEF IdentityEntryKept, IdentityRow, Handling, Running, AtPoint
    <3> QED BY <2>3, <2>4, <3>3, <3>6 DEF BackupNote
  <2>7. \A n \in Entries : n # call.note => cat'[n] = cat[n] BY <2>3, NotesThere
  <2> QED BY <2>2, <2>3, <2>5, <2>6, <2>7, HandBackups
<1>6. CASE RecordEntry
  <2>1. AtBackup("record", "apply") BY <1>6 DEF RecordEntry
  <2>2. /\ FromPoint("record", "apply") /\ Backing /\ mem # missing /\ call.note \in Entries
        /\ E \in ManifestEntry /\ E = mem.entry[call.note] /\ Told = mem /\ F = file[call.note] /\ BackupCall
        /\ call.todo \subseteq Entries /\ call.note \notin call.todo
      BY <1>0, <2>1, BackupHand
  <2> DEFINE f == [E EXCEPT !.applied = TRUE, !.pre = call.saw, !.post = Migrated(call.saw)]
  <2>3. /\ ToPoint("next") /\ call.saw \in Text /\ journal' = mem' /\ Becomes(f)
        /\ UNCHANGED <<tool, file, cat, backup, snapshot, touched, torn>>
      BY <1>6, RecordEntryDoes
  <2>4. f.applied = TRUE /\ f.pre = call.saw /\ f.post = Migrated(call.saw) /\ f.existed = E.existed
      BY <2>2 DEF ManifestEntry
  <2> HIDE DEF f
  <2>5. /\ mem' # missing /\ Told' = mem' /\ mem'.entry[call.note] = f
        /\ \A n \in Entries : n # call.note => mem'.entry[n] = mem.entry[n]
      BY <2>3 DEF Becomes, Told
  <2>6. \A n \in Entries : journal'.entry[n].existed = journal.entry[n].existed
      BY <2>2, <2>3, <2>4, <2>5 DEF BackupCall
  <2>7. BackupCall'
    <3>1. \A n \in call.todo : mem'.entry[n] = mem.entry[n] BY <2>2, <2>5
    <3> QED BY <2>2, <2>3, <2>5, <3>1 DEF BackupCall, AtPoint, Running
  <2>8. ASSUME NEW n \in Entries, n = call.note, BackupNote(n) PROVE BackupNote(n)'
    <3>1. BackupEntry(n) /\ (tool = "schema" => SchemaEntryKept(n)) /\ (tool = "identity" => IdentityEntryKept(n))
        BY <2>8 DEF BackupNote
    <3>2. Same(call.saw, file[n].old) /\ file[n].old.form = "after" /\ (torn = "no" => call.saw.form = "before")
        BY <2>2, <2>8, <3>1 DEF BackupEntry, Handling
    <3>3. Migrated(call.saw) # missing BY <2>3, Rewrites, MissingAssumption
    <3>4. BackupEntry(n)'
        BY <2>2, <2>3, <2>4, <2>5, <2>8, <3>1, <3>2, <3>3 DEF BackupEntry, Handling, Running, Same
    <3>5. tool = "schema" => SchemaEntryKept(n)' BY <2>3, <2>6, <3>1 DEF SchemaEntryKept, SchemaRow
    <3>6. tool = "identity" => IdentityEntryKept(n)'
        BY <2>2, <2>3, <2>4, <2>5, <2>8, <3>1 DEF IdentityEntryKept, IdentityRow, Handling, Running, AtPoint
    <3> QED BY <2>3, <3>4, <3>5, <3>6 DEF BackupNote
  <2> QED BY <2>2, <2>3, <2>5, <2>6, <2>7, <2>8, HandBackups
<1> QED BY <1>1, <1>2, <1>3, <1>4, <1>5, <1>6

LEMMA RestoringKeepsBackups ==
  ASSUME Base, TextsKept, BackupsKept, CheckRestore \/ RestoreBackup \/ SkipRestore
  PROVE  BackupsKept'
<1> USE DEF FromPoint, ToPoint
<1>0. PICK p \in {"entry", "bring"} :
         /\ AtBackup(p, "rollback")
         /\ CheckRestore \/ SkipRestore => p = "entry"
         /\ RestoreBackup => p = "bring"
  <2>1. CASE CheckRestore \/ SkipRestore
    <3>1. AtBackup("entry", "rollback") /\ ~RestoreBackup
        BY <2>1 DEF CheckRestore, SkipRestore, RestoreBackup, AtBackup, AtPoint
    <3> QED BY <3>1
  <2>2. CASE RestoreBackup
    <3>1. AtBackup("bring", "rollback") /\ ~CheckRestore /\ ~SkipRestore
        BY <2>2 DEF CheckRestore, SkipRestore, RestoreBackup, AtBackup, AtPoint
    <3> QED BY <3>1
  <2> QED BY <2>1, <2>2
<1>1. /\ FromPoint(p, "rollback") /\ Backing /\ mem # missing /\ call.note \in Entries /\ call.note \notin call.todo
      /\ E \in ManifestEntry /\ E = mem.entry[call.note] /\ Told = mem /\ F = file[call.note]
      /\ F.old \in Text /\ BackupCall /\ call.todo \subseteq Entries
  <2>1. p \notin NoNote BY <1>0 DEF NoNote
  <2> QED BY <1>0, <2>1, BackupHand
<1>2. CASE RestoreBackup
  <2> DEFINE f == [E EXCEPT !.applied = FALSE]
  <2>1. /\ ToPoint("next") /\ backup[call.note] \in Text /\ FileBecomes(call.note, backup[call.note]) /\ Becomes(f)
        /\ UNCHANGED <<tool, cat, journal, backup, snapshot, touched, torn>>
      BY <1>2, RestoreBackupDoes
  <2>2. f.applied = FALSE /\ f.pre = E.pre /\ f.post = E.post /\ f.existed = E.existed BY <1>1, WithApplied
  <2> HIDE DEF f
  <2>3. /\ mem' # missing /\ Told' = mem' /\ mem'.entry[call.note] = f
        /\ \A n \in Entries : n # call.note => mem'.entry[n] = mem.entry[n]
      BY <2>1 DEF Becomes, Told
  <2>4. BackupCall' BY <1>1, <2>1, <2>2, <2>3, EntryHeld
  <2>5. ASSUME NEW n \in Entries, n = call.note, BackupNote(n) PROVE BackupNote(n)'
    <3>1. BackupEntry(n) /\ (tool = "schema" => SchemaEntryKept(n)) /\ (tool = "identity" => IdentityEntryKept(n))
        BY <2>5 DEF BackupNote
    <3>2. file'[n].old = backup[n] /\ backup[n] # missing /\ backup[n].form = "before"
        BY <1>1, <2>1, <2>5, MissingAssumption DEF BackupCall, FileBecomes
    <3>3. Migrated(file'[n].old) = Migrated(file[n].old) BY <3>1, <3>2 DEF BackupEntry, Same
    <3>4. BackupEntry(n)'
        BY <1>1, <2>1, <2>2, <2>3, <2>5, <3>1, <3>2, <3>3 DEF BackupEntry, Handling, Running, Same
    <3>5. tool = "schema" => SchemaEntryKept(n)' BY <2>1, <3>1, <3>3 DEF SchemaEntryKept, SchemaRow, Same
    <3>6. tool = "identity" => IdentityEntryKept(n)'
        BY <1>1, <2>1, <2>2, <2>3, <2>5, <3>1, <3>3 DEF IdentityEntryKept, IdentityRow, Handling, Running, AtPoint
    <3> QED BY <2>1, <3>4, <3>5, <3>6 DEF BackupNote
  <2>6. \A n \in Entries : n # call.note => file'[n] = file[n] BY <2>1, NotesThere DEF FileBecomes
  <2> QED BY <1>1, <2>1, <2>3, <2>4, <2>5, <2>6, HandBackups
<1>3. CASE SkipRestore
  <2> DEFINE f == [E EXCEPT !.skipped = TRUE]
  <2>1. /\ ToPoint("next") /\ ~Restorable /\ Becomes(f)
        /\ UNCHANGED <<tool, file, cat, journal, backup, snapshot, touched, torn>>
      BY <1>3, SkipRestoreDoes
  <2>2. f.applied = E.applied /\ f.pre = E.pre /\ f.post = E.post /\ f.existed = E.existed BY <1>1, WithSkipped
  <2> HIDE DEF f
  <2>3. /\ mem' # missing /\ Told' = mem' /\ mem'.entry[call.note] = f
        /\ \A n \in Entries : n # call.note => mem'.entry[n] = mem.entry[n]
      BY <2>1 DEF Becomes, Told
  <2>4. BackupCall' BY <1>1, <2>1, <2>2, <2>3, EntryHeld
  <2>5. ASSUME NEW n \in Entries, n = call.note, BackupNote(n) PROVE BackupNote(n)'
    <3>1. BackupEntry(n) /\ (tool = "schema" => SchemaEntryKept(n)) /\ (tool = "identity" => IdentityEntryKept(n))
        BY <2>5 DEF BackupNote
    <3>2. torn # "rollback" => ~E.applied
      <4>1. SUFFICES ASSUME torn # "rollback", E.applied PROVE FALSE OBVIOUS
      <4>2. file[n].old.form = "after" BY <1>1, <2>5, <3>1, <4>1 DEF BackupEntry
      <4>3. backup[n] # missing BY <3>1, <4>2 DEF BackupEntry
      <4>4. E.post # missing => F.old = E.post
          BY <1>1, <2>5, <3>1, <4>2, MigratedAlready DEF BackupEntry
      <4> QED BY <2>1, <2>5, <4>3, <4>4 DEF Restorable
    <3>3. BackupEntry(n)' BY <1>1, <2>1, <2>2, <2>3, <2>5, <3>1 DEF BackupEntry, Handling, Running
    <3>4. tool = "schema" => SchemaEntryKept(n)' BY <2>1, <3>1 DEF SchemaEntryKept, SchemaRow
    <3>5. tool = "identity" => IdentityEntryKept(n)'
        BY <1>1, <2>1, <2>2, <2>3, <2>5, <3>1, <3>2 DEF IdentityEntryKept, IdentityRow, Handling, Running, AtPoint
    <3> QED BY <2>1, <3>3, <3>4, <3>5 DEF BackupNote
  <2> QED BY <1>1, <2>1, <2>3, <2>4, <2>5, HandBackups
<1>4. CASE CheckRestore
  <2>1. /\ ToPoint("bring")
        /\ UNCHANGED <<tool, file, cat, journal, mem, backup, snapshot, touched, torn>>
      BY <1>4, CheckRestoreDoes
  <2>2. Told' = mem BY <1>1, <2>1 DEF Told
  <2>3. BackupCall' BY <1>1, <2>1 DEF BackupCall, AtPoint, Running, E
  <2>4. ASSUME NEW n \in Entries, n = call.note, BackupNote(n) PROVE BackupNote(n)'
    <3>1. BackupEntry(n) /\ (tool = "schema" => SchemaEntryKept(n)) /\ (tool = "identity" => IdentityEntryKept(n))
        BY <2>4 DEF BackupNote
    <3>2. BackupEntry(n)' BY <1>0, <1>1, <1>4, <2>1, <2>2, <2>4, <3>1 DEF BackupEntry, Handling, Running
    <3>3. tool = "schema" => SchemaEntryKept(n)' BY <2>1, <3>1 DEF SchemaEntryKept, SchemaRow
    <3>4. tool = "identity" => IdentityEntryKept(n)'
        BY <1>0, <1>1, <1>4, <2>1, <2>2, <2>4, <3>1 DEF IdentityEntryKept, IdentityRow, Handling, Running, AtPoint
    <3> QED BY <2>1, <3>2, <3>3, <3>4 DEF BackupNote
  <2> QED BY <1>1, <2>1, <2>3, <2>4, HandBackups
<1> QED BY <1>2, <1>3, <1>4

\* A step of the call as a whole: no entry is in hand before or after it.
LEMMA RestingBackups ==
  ASSUME BackupsKept, Backing, UNCHANGED <<tool, touched, torn, file, backup>>, BackupCall',
         call.op # "idle" => call.pc \in NoNote, call'.op # "idle" => call'.pc \in NoNote,
         \A n \in Entries : /\ SameEntry(Told'.entry[n], Told.entry[n])
                            /\ Running("apply")' /\ journal'.entry[n].applied => Told.entry[n].applied
                            /\ journal'.entry[n].existed = journal.entry[n].existed,
         \A n \in Entries : SchemaEntryKept(n) => SchemaEntryKept(n)',
         tool = "identity" => \A n \in Entries :
            Untouched(n) /\ BackupEntry(n) /\ IdentityEntryKept(n) => IdentityEntryKept(n)'
  PROVE  BackupsKept'
<1>1. ASSUME NEW n \in Entries, Untouched(n), BackupNote(n) PROVE BackupNote(n)'
  <2>1. BackupEntry(n)' BY <1>1 DEF BackupNote, BackupEntry, SameEntry, Handling, Running, NoNote
  <2> QED BY <1>1, <2>1 DEF BackupNote
<1> QED BY <1>1, BackupsFollow

LEMMA CallingKeepsBackups ==
  ASSUME Base, TextsKept, BackupsKept,
         ApplySchema \/ RollbackSchema \/ FinishSchema \/ JournalRollback \/ RestoreRuntime
  PROVE  BackupsKept'
<1> USE DEF FromPoint, ToPoint
<1>0. Backing => BackupCall BY DEF BackupsKept
<1>1. CASE ApplySchema \/ RollbackSchema
  <2>1. /\ Backing /\ call.op = "idle" /\ mem = missing /\ mem' = journal /\ mem' # missing
        /\ call'.op \in {"apply", "rollback"} /\ call'.pc = "next"
        /\ UNCHANGED <<tool, file, cat, journal, backup, touched, torn>>
      BY <1>1, ApplySchemaDoes, RollbackSchemaDoes
  <2>2. Told = journal /\ Told' = journal BY <2>1 DEF Told
  <2>3. /\ call'.op = "apply" /\ snapshot' # missing /\ snapshot'.cat = cat /\ journal.status # "completed"
           /\ call'.todo = {n \in Entries : ~journal.entry[n].applied}
        \/ /\ call'.op = "rollback" /\ snapshot' = snapshot
           /\ call'.todo = {n \in Entries : journal.entry[n].applied}
      BY <1>1, ApplySchemaDoes, RollbackSchemaDoes
  <2>4. BackupCall' BY <1>0, <2>1, <2>3 DEF BackupCall, AtPoint, Running, E
  <2>5. \A n \in Entries : SchemaEntryKept(n) => SchemaEntryKept(n)' BY <2>1, <2>3 DEF SchemaEntryKept, SchemaRow
  <2>6. ASSUME NEW n \in Entries, IdentityEntryKept(n) PROVE IdentityEntryKept(n)'
    <3>1. CASE call'.op = "apply"
      <4>1. torn = "no" => cat[n] = missing
          BY <2>1, <2>2, <2>3, <2>6, <3>1 DEF IdentityEntryKept, Running, Handling
      <4> QED BY <2>1, <2>2, <2>3, <2>6, <3>1, <4>1 DEF IdentityEntryKept, IdentityRow, Running, Handling, AtPoint
    <3>2. CASE call'.op = "rollback"
        BY <2>1, <2>2, <2>3, <2>6, <3>2 DEF IdentityEntryKept, IdentityRow, Running, Handling, AtPoint
    <3> QED BY <2>1, <3>1, <3>2
  <2>7. "next" \in NoNote BY DEF NoNote
  <2> QED BY <2>1, <2>2, <2>4, <2>5, <2>6, <2>7, RestingBackups DEF SameEntry
<1>2. CASE FinishSchema
  <2>1. /\ Backing /\ FromPoint("next", "apply") /\ Closed /\ journal'.entry = mem.entry /\ journal'.status = "completed"
        /\ UNCHANGED <<tool, file, cat, backup, snapshot, touched, torn>>
      BY <1>2, FinishSchemaDoes
  <2>2. call'.op = "idle" /\ call'.pc = "next" /\ Told = mem /\ Told' = journal' /\ mem' = missing
      BY <2>1 DEF Closed, NoCall, Told
  <2>3. \A n \in Entries : journal'.entry[n].existed = journal.entry[n].existed BY <1>0, <2>1 DEF BackupCall
  <2>4. BackupCall' BY <1>0, <2>1, <2>2 DEF BackupCall, AtPoint, Running, E
  <2>5. \A n \in Entries : SchemaEntryKept(n) => SchemaEntryKept(n)' BY <2>1, <2>3 DEF SchemaEntryKept, SchemaRow
  <2>6. ASSUME NEW n \in Entries, IdentityEntryKept(n) PROVE IdentityEntryKept(n)'
      BY <2>1, <2>2, <2>6 DEF IdentityEntryKept, IdentityRow, Running, Handling, AtPoint
  <2>7. "next" \in NoNote BY DEF NoNote
  <2> QED BY <2>1, <2>2, <2>3, <2>4, <2>5, <2>6, <2>7, RestingBackups DEF SameEntry, Running
<1>3. CASE JournalRollback
  <2>1. /\ Backing /\ FromPoint("next", "rollback") /\ call.todo = {} /\ ToPoint("runtime")
        /\ mem' # missing /\ journal' = mem' /\ mem'.entry = mem.entry
        /\ UNCHANGED <<tool, file, cat, backup, snapshot, touched, torn>>
      BY <1>3, JournalRollbackDoes
  <2>2. Told = mem /\ Told' = mem' BY <2>1 DEF Told
  <2>3. \A n \in Entries : journal'.entry[n].existed = journal.entry[n].existed BY <1>0, <2>1 DEF BackupCall
  <2>4. BackupCall' BY <1>0, <2>1, <2>2 DEF BackupCall, AtPoint, Running, E
  <2>5. \A n \in Entries : SchemaEntryKept(n) => SchemaEntryKept(n)' BY <2>1, <2>3 DEF SchemaEntryKept, SchemaRow
  <2>6. ASSUME NEW n \in Entries, IdentityEntryKept(n) PROVE IdentityEntryKept(n)'
    <3>1. torn # "rollback" => ~mem.entry[n].applied BY <2>1, <2>2, <2>6 DEF IdentityEntryKept, Running, Handling
    <3> QED BY <2>1, <2>2, <2>6, <3>1 DEF IdentityEntryKept, IdentityRow, Running, Handling, AtPoint
  <2>7. "next" \in NoNote /\ "runtime" \in NoNote BY DEF NoNote
  <2> QED BY <2>1, <2>2, <2>3, <2>4, <2>5, <2>6, <2>7, RestingBackups DEF SameEntry, Running
<1>4. CASE RestoreRuntime
  <2>1. /\ Backing /\ FromPoint("runtime", "rollback") /\ Closed
        /\ cat' = IF snapshot = missing THEN cat ELSE snapshot.cat
        /\ UNCHANGED <<tool, file, journal, backup, snapshot, touched, torn>>
      BY <1>4, RestoreRuntimeDoes
  <2>2. call.todo = {} /\ mem = journal BY <1>0, <2>1 DEF BackupCall, AtPoint
  <2>3. call'.op = "idle" /\ call'.pc = "next" /\ Told = mem /\ Told' = mem /\ mem' = missing
      BY <2>1, <2>2 DEF Closed, NoCall, Told
  <2>4. BackupCall' BY <1>0, <2>1, <2>3 DEF BackupCall, AtPoint, Running
  <2>5. \A n \in Entries : SchemaEntryKept(n) => SchemaEntryKept(n)' BY <2>1 DEF SchemaEntryKept, SchemaRow
  <2>6. ASSUME NEW n \in Entries, IdentityEntryKept(n) PROVE IdentityEntryKept(n)'
    <3>1. torn # "rollback" => ~mem.entry[n].applied
        BY <2>1, <2>2, <2>3, <2>6 DEF IdentityEntryKept, Running, Handling
    <3>2. torn = "no" => cat'[n] = missing BY <2>1, <2>6 DEF IdentityEntryKept
    <3>3. IdentityRow(cat[n], n)' BY <2>1, <2>6 DEF IdentityEntryKept, IdentityRow
    <3> QED BY <2>1, <2>3, <2>6, <3>1, <3>2, <3>3
            DEF IdentityEntryKept, IdentityRow, Running, Handling, AtPoint
  <2>7. "next" \in NoNote /\ "runtime" \in NoNote BY DEF NoNote
  <2> QED BY <2>1, <2>3, <2>4, <2>5, <2>6, <2>7, RestingBackups DEF SameEntry, Running
<1> QED BY <1>1, <1>2, <1>3, <1>4

LEMMA OthersKeepBackups ==
  ASSUME Base, TextsKept, BackupsKept, TakeEntry \/ CallDies \/ PeopleWork \/ UNCHANGED migrationVars
  PROVE  BackupsKept'
<1>0. Backing => BackupCall BY DEF BackupsKept
<1>1. CASE TakeEntry
  <2>1. /\ call.op # "idle" /\ call.pc = "next" /\ mem # missing /\ call'.note \in call.todo
        /\ call'.todo = call.todo \ {call'.note} /\ call'.op = call.op /\ call'.pc = "entry"
        /\ UNCHANGED <<tool, file, cat, journal, mem, backup, snapshot, touched, torn>>
      BY <1>1, TakeEntryDoes
  <2>2. SUFFICES ASSUME Backing PROVE BackupsKept' BY <2>1 DEF BackupsKept, Backing
  <2>3. Told = mem /\ Told' = mem BY <2>1 DEF Told
  <2>4. BackupCall'
    <3>1. \A n \in call'.todo : n \in call.todo BY <2>1
    <3> QED BY <1>0, <2>1, <2>2, <3>1 DEF BackupCall, AtPoint, Running, E
  <2>5. ASSUME NEW n \in Entries, BackupNote(n) PROVE BackupNote(n)'
    <3>1. BackupEntry(n)' BY <2>1, <2>3, <2>5 DEF BackupNote, BackupEntry, Handling, Running
    <3>2. tool = "schema" => SchemaEntryKept(n)' BY <2>1, <2>5 DEF BackupNote, SchemaEntryKept, SchemaRow
    <3>3. tool = "identity" => IdentityEntryKept(n)'
        BY <2>1, <2>3, <2>5 DEF BackupNote, IdentityEntryKept, IdentityRow, Handling, Running, AtPoint
    <3> QED BY <2>1, <3>1, <3>2, <3>3 DEF BackupNote
  <2> QED BY <2>1, <2>2, <2>4, <2>5, BackupsFollow
<1>2. CASE CallDies
  <2>1. /\ mem # missing /\ call.op # "idle" /\ Closed
        /\ torn' = IF call.op = "rollback" THEN "rollback" ELSE IF torn = "no" THEN "apply" ELSE torn
        /\ UNCHANGED <<tool, file, cat, journal, backup, snapshot, touched>>
      BY <1>2, CallDiesDoes
  <2>2. SUFFICES ASSUME Backing PROVE BackupsKept' BY <2>1 DEF BackupsKept, Backing
  <2>3. call'.op = "idle" /\ call'.pc = "next" /\ Told = mem /\ Told' = journal /\ mem' = missing
      BY <2>1 DEF Closed, NoCall, Told
  <2>4. BackupCall' BY <1>0, <2>1, <2>2, <2>3 DEF BackupCall, AtPoint, Running
  <2>5. call.op = "rollback" \/ call.op = "apply" BY <2>1, Calls DEF Base
  <2>6. torn' # "no" /\ (torn' # "rollback" => torn # "rollback" /\ call.op = "apply") BY <2>1, <2>5
  <2>7. ASSUME NEW n \in Entries, BackupNote(n) PROVE BackupNote(n)'
    <3>1. mem.entry[n].post = journal.entry[n].post /\ mem.entry[n].existed = journal.entry[n].existed
        BY <1>0, <2>1, <2>2 DEF BackupCall
    <3>2. BackupEntry(n)' BY <2>1, <2>3, <2>6, <2>7, <3>1 DEF BackupNote, BackupEntry, Handling, Running
    <3>3. tool = "schema" => SchemaEntryKept(n)' BY <2>1, <2>7 DEF BackupNote, SchemaEntryKept, SchemaRow
    <3>4. torn' # "rollback" /\ journal.entry[n].applied => mem.entry[n].applied
        BY <2>3, <2>6, <2>7 DEF BackupNote, BackupEntry, Running
    <3>5. tool = "identity" => IdentityEntryKept(n)'
        BY <2>1, <2>3, <2>6, <2>7, <3>1, <3>4
        DEF BackupNote, IdentityEntryKept, IdentityRow, Handling, Running, AtPoint
    <3> QED BY <2>1, <3>2, <3>3, <3>5 DEF BackupNote
  <2> QED BY <2>1, <2>2, <2>4, <2>7, BackupsFollow
<1>3. CASE PeopleWork
  <2>1. PICK k \in Notes : Saved(k) BY <1>3, PeopleWorkDoes
  <2>2. /\ UNCHANGED <<tool, journal, mem, call, torn, backup, snapshot>> /\ touched' = touched \union {k}
        /\ \A n \in Notes \ {k} : file'[n] = file[n] /\ cat'[n] = cat[n]
      BY <2>1 DEF Saved
  <2>3. SUFFICES ASSUME Backing PROVE BackupsKept' BY <2>2 DEF BackupsKept, Backing
  <2>4. BackupCall' BY <1>0, <2>2, <2>3 DEF BackupCall, AtPoint, Running, E
  <2>5. ASSUME NEW n \in Entries, Untouched(n)' PROVE BackupNote(n)'
    <3>1. Untouched(n) /\ n # k BY <2>2, <2>5 DEF Untouched
    <3>2. file'[n] = file[n] /\ cat'[n] = cat[n] BY <2>2, <3>1, NotesThere
    <3>3. BackupNote(n) BY <2>3, <3>1 DEF BackupsKept
    <3>4. Told' = Told BY <2>2 DEF Told
    <3> QED BY <2>2, <3>2, <3>3, <3>4 DEF BackupNote, BackupEntry, SchemaEntryKept, SchemaRow, IdentityEntryKept,
            IdentityRow, Handling, Running, AtPoint
  <2> QED BY <2>4, <2>5 DEF BackupsKept
<1>4. CASE UNCHANGED migrationVars
  <2>1. UNCHANGED <<tool, file, cat, journal, mem, call, backup, snapshot, touched, torn>>
      BY <1>4 DEF migrationVars, rows, copies, history
  <2> QED BY <2>1 DEF BackupsKept, Backing, BackupCall, E, Untouched, BackupNote, BackupEntry, SchemaEntryKept, SchemaRow,
         IdentityEntryKept, IdentityRow, Told, Running, AtPoint, Handling
<1> QED BY <1>1, <1>2, <1>3, <1>4

LEMMA BackupsStep ==
  ASSUME Base, TextsKept, BackupsKept, [MigrationNext]_migrationVars
  PROVE  BackupsKept'
<1>1. CASE Schema BY <1>1, ApplyingKeepsBackups, RestoringKeepsBackups, CallingKeepsBackups DEF Schema
<1>2. CASE TakeEntry \/ CallDies \/ PeopleWork \/ UNCHANGED migrationVars BY <1>2, OthersKeepBackups
<1>3. CASE Routes \/ Vocabulary
  <2>1. ~Backing' BY <1>3, RoutesAreMoves, VocabularyIsV3 DEF Moving, Backing
  <2> QED BY <2>1 DEF BackupsKept
<1> QED BY <1>1, <1>2, <1>3 DEF MigrationNext

-----------------------------------------------------------------------------
(* The journal of a migration tells the truth. *)

LEMMA PlannedNotes ==
  ASSUME MigrationInit, NEW n \in Notes
  PROVE  /\ file[n].old \in Text /\ file[n].old.form = "before" /\ file[n].old.link = "old" /\ file[n].new = missing
         /\ file[n].old # missing
         /\ cat[n] = missing \/ cat[n] = [place |-> "old", rev |-> 1, text |-> file[n].old]
         /\ cat[n] # missing => cat[n].place = "old" /\ cat[n].text = file[n].old
<1>1. file[n] \in [old : [body : Bodies, form : {"before"}, link : {"old"}], new : {missing}]
    BY DEF MigrationInit
<1>2. /\ file[n].old \in Text /\ file[n].old.form = "before" /\ file[n].old.link = "old" /\ file[n].new = missing
    BY <1>1 DEF Text, Places
<1>3. file[n] = file[Owner] /\ cat[n] \in {missing, [place |-> "old", rev |-> 1, text |-> file[Owner].old]}
    BY NotesThere DEF MigrationInit
<1> QED BY <1>2, <1>3, Missing

LEMMA JournalsStart ==
  ASSUME MigrationInit
  PROVE  VocabularyKept /\ MovesKept /\ LinksKept /\ BackupsKept
<1>1. /\ mem = missing /\ call.op = "idle" /\ call.pc = "next" /\ torn = "no" /\ snapshot = missing
      /\ journal.status = "planned" /\ journal.change = missing /\ Told = journal
      /\ \A n \in Notes : backup[n] = missing
    BY DEF MigrationInit, Planned, NoCall, Told
<1>2. \A n \in Entries : n \in Notes BY NotesThere
<1>3. ASSUME tool = "v3" PROVE VocabularyKept
  <2>1. VocabularyCall BY <1>1 DEF VocabularyCall, Running
  <2>2. ASSUME NEW n \in Entries PROVE VocabularyPhase(journal.entry[n]) /\ VocabularyEntry(n)
    <3>1. VocabularyPhase(journal.entry[n])
        BY <1>2, PlannedEntries, PlannedNotes DEF VocabularyPhase, Written
    <3>2. /\ journal.entry[n].phase = "planned" /\ file[n].old = journal.entry[n].pre
          /\ cat[n] = RowBefore(journal.entry[n])
        BY <1>2, PlannedEntries, PlannedNotes DEF RowBefore
    <3>3. VocabularyEntry(n)
        BY <1>1, <3>2 DEF VocabularyEntry, Handling, Written, Committed
    <3> QED BY <3>1, <3>3
  <2> QED BY <2>1, <2>2 DEF VocabularyKept
<1>4. MovesKept
  <2> SUFFICES ASSUME Moving PROVE MovesKept BY DEF MovesKept
  <2>1. MoveCall BY <1>1 DEF MoveCall, Running, AtPoint
  <2>2. ASSUME NEW n \in Entries PROVE MoveListed(n) /\ MoveEntry(n)
    <3>1. MoveListed(n) BY <1>1, <1>2, PlannedEntries, PlannedNotes DEF MoveListed
    <3>2. /\ ~journal.entry[n].applied /\ journal.entry[n].pre = file[n].old
          /\ cat[n] = missing <=> ~journal.entry[n].existed
          /\ tool = "sumarios" => journal.entry[n].post = file[n].old
        BY PlannedEntries
    <3>3. InOld(n) /\ (cat[n] # missing => cat[n].place = "old" /\ cat[n].text = file[n].old)
        BY <1>2, PlannedNotes DEF InOld
    <3>4. MoveEntry(n) BY <1>1, <3>2, <3>3 DEF MoveEntry, InOld, InNew, Placed, Running, Handling
    <3> QED BY <3>1, <3>4
  <2> QED BY <2>1, <2>2 DEF MovesKept
<1>5. LinksKept
  <2>1. file[Owner].old.link = "old" /\ cat[Owner] # missing /\ cat[Owner].text = file[Owner].old
    <3>1. cat[Owner] # missing BY DEF MigrationInit
    <3> QED BY <3>1, NotesThere, PlannedNotes
  <2>2. LinkCall BY <1>1, <2>1 DEF LinkCall, LinkPlans
  <2>3. LinkEntry BY <1>1, <2>1 DEF LinkEntry, RowAgrees
  <2> QED BY <2>1, <2>2, <2>3 DEF LinksKept
<1>6. BackupsKept
  <2> SUFFICES ASSUME Backing PROVE BackupsKept BY DEF BackupsKept
  <2>1. BackupCall BY <1>1, <1>2 DEF BackupCall, Running, AtPoint
  <2>2. ASSUME NEW n \in Entries PROVE BackupNote(n)
    <3>1. /\ ~journal.entry[n].applied /\ journal.entry[n].pre = file[n].old /\ journal.entry[n].post = missing
          /\ cat[n] = missing <=> ~journal.entry[n].existed
        BY PlannedEntries DEF Backing
    <3>2. /\ file[n].old.form = "before"
          /\ cat[n] # missing => cat[n].place = "old" /\ cat[n].text = file[n].old
        BY <1>2, PlannedNotes
    <3>3. BackupEntry(n) BY <1>1, <1>2, <3>1, <3>2 DEF BackupEntry, Same, Handling, Running
    <3>4. SchemaEntryKept(n) BY <1>1, <3>1, <3>2 DEF SchemaEntryKept, SchemaRow, Same
    <3>5. ASSUME tool = "identity" PROVE IdentityEntryKept(n)
      <4>1. cat[n] = missing BY <3>5 DEF MigrationInit
      <4> QED BY <1>1, <3>1, <4>1 DEF IdentityEntryKept, IdentityRow, Handling, Running, AtPoint
    <3> QED BY <3>3, <3>4, <3>5 DEF BackupNote
  <2> QED BY <2>1, <2>2 DEF BackupsKept
<1> QED BY <1>3, <1>4, <1>5, <1>6 DEF VocabularyKept

\* Two texts that a migration makes the same, and in the same form, are the same.
LEMMA SameText ==
  ASSUME NEW x \in Text, NEW y \in Text, Same(x, y), x.form = y.form
  PROVE  x = y
<1>1. /\ x = [body |-> x.body, form |-> x.form, link |-> x.link]
      /\ y = [body |-> y.body, form |-> y.form, link |-> y.link]
    BY DEF Text
<1>2. Migrated(x).body = x.body /\ Migrated(y).body = y.body BY Rewrites
<1>3. Migrated(x).link = x.link /\ Migrated(y).link = y.link BY Rewrites
<1> QED BY <1>1, <1>2, <1>3 DEF Same

LEMMA VocabularyIsTrue ==
  ASSUME Base, TextsKept, VocabularyKept, LinksKept, tool = "v3", NEW n \in Entries, Untouched(n), call.op = "idle"
  PROVE  /\ torn # "rollback" /\ journal.entry[n].phase = "completed" =>
              /\ file[n].old.form = "after" /\ cat[n] # missing
              /\ cat[n].place = "old" /\ cat[n].text = file[n].old
         /\ torn = "no" /\ journal.status = "rolled_back" =>
              /\ file[n].old = journal.entry[n].pre
              /\ IF journal.entry[n].existed THEN cat[n].place = "old" /\ cat[n].text = file[n].old
                 ELSE cat[n] = missing
<1>1. VocabularyEntry(n) /\ VocabularyCall BY DEF VocabularyKept
<1>2. journal.entry[n] \in ManifestEntry BY Listings DEF Base
<1>3. journal.entry[n].post = Migrated(journal.entry[n].pre) BY DEF TextsKept, PlansKept, PlansBodies
<1>4. journal.entry[n].post \in Text /\ journal.entry[n].post.form = "after"
    BY <1>2, <1>3, EntryFields, Rewrites
<1>5. RowAfter(journal.entry[n]) # missing
  <2>1. RowAfter(journal.entry[n]) \in CatalogRow BY <1>2, <1>4, EntryFields DEF RowAfter, CatalogRow, Places
  <2> QED BY <2>1, MissingAssumption
<1>6. ASSUME torn # "rollback", journal.entry[n].phase = "completed"
      PROVE  file[n].old = journal.entry[n].post /\ cat[n] = RowAfter(journal.entry[n])
    BY <1>1, <1>6 DEF VocabularyEntry, Handling, Written, Committed
<1>7. ASSUME torn = "no", journal.status = "rolled_back"
      PROVE  file[n].old = journal.entry[n].pre /\ cat[n] = RowBefore(journal.entry[n])
    BY <1>1, <1>7 DEF VocabularyEntry, VocabularyCall, Handling
<1> QED BY <1>4, <1>5, <1>6, <1>7 DEF RowBefore, RowAfter

LEMMA MovesAreTrue ==
  ASSUME Base, MovesKept, LinksKept, Moving, NEW n \in Entries, Untouched(n), call.op = "idle"
  PROVE  /\ torn # "rollback" /\ journal.entry[n].applied =>
              /\ InNew(n) /\ file[n].new.form = "before"
              /\ cat[n] # missing => cat[n].place = "new" /\ cat[n].text = file[n].new
         /\ torn = "no" /\ ~journal.entry[n].applied =>
              /\ InOld(n) /\ file[n].old = journal.entry[n].pre
              /\ IF journal.entry[n].existed THEN cat[n].place = "old" /\ cat[n].text = file[n].old
                 ELSE cat[n] = missing
<1>1. Told = journal BY DEF Told, Base, InPlace
<1> QED BY <1>1 DEF MovesKept, MoveEntry, MoveListed, Running, Handling, Placed

LEMMA BackupsAreTrue ==
  ASSUME Base, TextsKept, BackupsKept, Backing, NEW n \in Entries, Untouched(n), call.op = "idle"
  PROVE  /\ torn # "rollback" /\ journal.entry[n].applied =>
              /\ file[n].old.form = "after"
              /\ tool = "identity" => cat[n] # missing /\ cat[n].place = "old" /\ cat[n].text = file[n].old
         /\ torn = "no" /\ journal.status = "rolled_back" /\ ~journal.entry[n].applied =>
              /\ file[n].old = journal.entry[n].pre
              /\ IF journal.entry[n].existed THEN cat[n].place = "old" /\ cat[n].text = file[n].old
                 ELSE cat[n] = missing
<1>1. Told = journal BY DEF Told, Base, InPlace
<1>2. BackupNote(n) BY DEF BackupsKept
<1>3. file[n].old \in Text BY BodiesInPlace DEF TextsKept
<1>4. ASSUME torn # "rollback", journal.entry[n].applied
      PROVE  /\ file[n].old.form = "after"
             /\ tool = "identity" => cat[n] # missing /\ cat[n].place = "old" /\ cat[n].text = file[n].old
  <2>1. file[n].old.form = "after" BY <1>1, <1>2, <1>4 DEF BackupNote, BackupEntry
  <2>2. Migrated(file[n].old) = file[n].old BY <1>3, <2>1, MigratedAlready
  <2> QED BY <1>1, <1>2, <1>4, <2>1, <2>2 DEF BackupNote, IdentityEntryKept, IdentityRow, Running
<1>5. ASSUME torn = "no", journal.status = "rolled_back", ~journal.entry[n].applied
      PROVE  /\ file[n].old = journal.entry[n].pre
             /\ IF journal.entry[n].existed THEN cat[n].place = "old" /\ cat[n].text = file[n].old
                ELSE cat[n] = missing
  <2>1. /\ file[n].old.form = "before" /\ journal.entry[n].pre.form = "before"
        /\ Same(journal.entry[n].pre, file[n].old)
      BY <1>1, <1>2, <1>5 DEF BackupNote, BackupEntry, Handling
  <2>2. journal.entry[n].pre \in Text
    <3>1. journal.entry[n] \in ManifestEntry BY Listings DEF Base
    <3> QED BY <3>1, EntryFields
  <2>3. file[n].old = journal.entry[n].pre BY <1>3, <2>1, <2>2, SameText
  <2>4. CASE tool = "schema"
    <3>1. SchemaRow(cat[n], n) BY <1>2, <2>4 DEF BackupNote, SchemaEntryKept
    <3>2. cat[n] # missing => cat[n].text \in Text
      <4>1. cat[n] \in CatalogRow \union {missing} BY NotesThere DEF Base, MigrationTypeOK
      <4> QED BY <4>1 DEF CatalogRow
    <3>3. cat[n] # missing => cat[n].text = file[n].old BY <1>3, <2>1, <3>1, <3>2, SameText DEF SchemaRow
    <3> QED BY <2>3, <3>1, <3>3 DEF SchemaRow
  <2>5. CASE tool = "identity"
    <3>1. cat[n] = missing /\ ~journal.entry[n].existed
        BY <1>1, <1>2, <1>5, <2>5 DEF BackupNote, IdentityEntryKept, Running, Handling
    <3> QED BY <2>3, <3>1
  <2> QED BY <2>4, <2>5 DEF Backing
<1> QED BY <1>4, <1>5

LEMMA JournalsAlways ==
  MigrationSpec => [](Base /\ TextsKept /\ VocabularyKept /\ MovesKept /\ LinksKept /\ BackupsKept)
<1>1. MigrationInit => Base /\ TextsKept /\ VocabularyKept /\ MovesKept /\ LinksKept /\ BackupsKept
    BY MigrationStarts, JournalsStart
<1>2. Base /\ TextsKept /\ VocabularyKept /\ MovesKept /\ LinksKept /\ BackupsKept /\ [MigrationNext]_migrationVars
      => (Base /\ TextsKept /\ VocabularyKept /\ MovesKept /\ LinksKept /\ BackupsKept)'
    BY TextsStep, VocabularyStep, MovesStep, LinksStep, BackupsStep
<1> QED BY <1>1, <1>2, PTL DEF MigrationSpec

(* The journal of a migration tells the truth whenever no call runs: what   *)
(* it calls done is done in the file and in the catalog, and a rollback     *)
(* that ran to its end has put back the note, its row and the links to it,  *)
(* for every note nobody has changed since the plan.                        *)
THEOREM JournalsAreTrue == MigrationSpec => []JournalIsTrue
<1>1. ASSUME Base, TextsKept, VocabularyKept, MovesKept, LinksKept, BackupsKept PROVE JournalIsTrue
  <2>1. tool = "v3" \/ Moving \/ Backing
      BY <1>1, ToolsAssumption DEF Base, MigrationTypeOK, Moving, Backing
  <2>2. ASSUME NEW n \in Entries
        PROVE  /\ file[n].old = file[n]["old"] /\ file[n].new = file[n]["new"]
               /\ ~Moving => InOld(n) /\ Home = "old"
               /\ Moving => Home = "new"
      BY <1>1, NotesThere, FileAt DEF Base, InPlace, Home
  <2>3. AppliedIsDone
    <3> SUFFICES ASSUME call.op = "idle", torn # "rollback", NEW n \in Entries, Done(n), Untouched(n)
                 PROVE  /\ file[n][Home] # missing
                        /\ file[n][Home].form = IF Moving THEN "before" ELSE "after"
                        /\ \A place \in Places \ {Home} : file[n][place] = missing
                        /\ (tool # "schema" /\ cat[n] # missing) =>
                             cat[n].place = Home /\ cat[n].text = file[n][Home]
                        /\ tool \in {"v3", "identity"} => cat[n] # missing
        BY DEF AppliedIsDone
    <3>1. CASE tool = "v3"
        BY <1>1, <2>2, <3>1, NotesThere, VocabularyIsTrue DEF Done, Moving, InOld
    <3>2. CASE Moving BY <1>1, <2>2, <3>2, NotesThere, MovesAreTrue DEF Done, Moving, InNew
    <3>3. CASE Backing
        BY <1>1, <2>2, <3>3, NotesThere, BackupsAreTrue DEF Done, Moving, Backing, InOld
    <3> QED BY <2>1, <3>1, <3>2, <3>3
  <2>4. UndoneIsBack
    <3> SUFFICES ASSUME call.op = "idle", torn = "no", journal.status = "rolled_back", NEW n \in Entries,
                        ~Done(n), Untouched(n)
                 PROVE  /\ file[n].old = journal.entry[n].pre
                        /\ file[n].new = missing
                        /\ IF journal.entry[n].existed
                           THEN cat[n].place = "old" /\ cat[n].text = file[n].old
                           ELSE cat[n] = missing
                        /\ (n = Target /\ ~journal.entry[n].skipped) => file[Owner].old.link = "old"
        BY DEF UndoneIsBack
    <3>1. CASE tool = "v3"
        BY <1>1, <2>2, <3>1, VocabularyIsTrue DEF Done, Moving, InOld, LinksKept
    <3>2. CASE Moving
      <4>1. ~journal.entry[n].applied BY <3>2 DEF Done, Moving
      <4>2. (n = Target /\ ~journal.entry[n].skipped) => file[Owner].old.link = "old"
          BY <1>1, <4>1 DEF LinksKept, LinkEntry, Untouched
      <4> QED BY <1>1, <3>2, <4>1, <4>2, MovesAreTrue DEF InOld
    <3>3. CASE Backing
        BY <1>1, <2>2, <3>3, BackupsAreTrue DEF Done, Moving, Backing, InOld, LinksKept
    <3> QED BY <2>1, <3>1, <3>2, <3>3
  <2> QED BY <2>3, <2>4 DEF JournalIsTrue
<1> QED BY <1>1, JournalsAlways, PTL

=============================================================================
