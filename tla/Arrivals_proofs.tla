---------------------------- MODULE Arrivals_proofs ----------------------------
(* How files arrive in 1_volcado, for any number of files, threads and folders:
   an undisturbed pass of folder_sync.py reports what is true; what becomes of a
   file between its poll, its job and the quarantine keeps the manifest true,
   makes one note of one content, and loses nothing. *)
EXTENDS FolderSync, SourceIntake, Integers, WellFoundedInduction, SequenceTheorems,
        FiniteSetTheorems, TLAPS

(* Every set of numbers has a least one: the order of Nat is well founded. *)
LEMMA NatMinimum ==
  ASSUME NEW T, T \subseteq Nat, T # {}
  PROVE  \E x \in T : \A y \in T : x <= y
<1>1. \E x \in T : \A y \in T : <<y, x>> \notin OpToRel(<, Nat)
    BY NatLessThanWellFounded, WFMin
<1>2. OpToRel(<, Nat) = {p \in Nat \X Nat : p[1] < p[2]} BY DEF OpToRel
<1>3. PICK x \in T : \A y \in T : <<y, x>> \notin {p \in Nat \X Nat : p[1] < p[2]}
    BY <1>1, <1>2, Zenon
<1>4. ASSUME NEW y \in T PROVE x <= y
  <2>1. <<y, x>> \in Nat \X Nat /\ <<y, x>>[1] = y /\ <<y, x>>[2] = x OBVIOUS
  <2>2. ~ (y < x) BY <1>3, <2>1
  <2> QED BY <2>2
<1> QED BY <1>4

-----------------------------------------------------------------------------
(* FolderSync *)

(* What a pass relies on, whoever else is at work: the sources that are left were
   found. *)
Sound(pass) ==
  /\ pass.pc # "idle" => pass.place \in Places /\ pass.left # {}
  /\ pass.pc \in {"compare", "copy", "record"} => pass.left \subseteq Found(pass.seen)

(* A row tells the truth about its source. A source that is in place has the
   winner's content, so that no later copy of the pass can replace it. *)
Tells(row, pass, s, here, old) ==
  /\ row.hash = pass.seen[s] /\ row.place = pass.place
  /\ IF row.status = "conflict" THEN here # nothing \/ old # nothing
     ELSE here = pass.seen[s] /\ ~Loses(pass, s)

(* What an undisturbed pass has achieved, given the files and rows around it. *)
Kept(pass, offers, files, rows, old) ==
  /\ pass.pc # "idle" => \A s \in Found(pass.seen) : offers[s] = pass.seen[s]
  /\ pass.pc = "scan" => \A s \in pass.left : pass.seen[s] = nothing
  /\ pass.pc \in {"compare", "copy", "record"} =>
       \A s \in Found(pass.seen) \ pass.left :
         Tells(rows[s], pass, s, files[pass.place], old)
  /\ pass.pc = "copy" =>
       /\ ~Loses(pass, First(pass.left))
       /\ pass.row = [hash |-> pass.seen[First(pass.left)], place |-> pass.place,
                      status |-> "copied"]
  /\ pass.pc = "record" =>
       Tells(pass.row, pass, First(pass.left), files[pass.place], old)

SyncInv ==
  /\ TypeOK
  /\ \A y \in Syncers : Sound(sync[y])
  /\ \A y \in quiet : Kept(sync[y], provider, input, entries, dirty)

(* The first source of a set is one of its sources, and the first of them. *)
LEMMA FirstIsFirst ==
  ASSUME NEW S \in SUBSET Sources, S # {}
  PROVE  First(S) \in S /\ \A t \in S : First(S) <= t
<1>1. S \subseteq Nat BY SyncAssumption
<1>2. \E s \in S : \A t \in S : s <= t BY <1>1, NatMinimum
<1> QED BY <1>2 DEF First

(* The first source of a set is also that of every subset it belongs to. *)
LEMMA FirstOfSubset ==
  ASSUME NEW S \in SUBSET Sources, NEW T \in SUBSET S, First(S) \in T
  PROVE  First(T) = First(S)
<1>1. S # {} /\ T # {} /\ T \in SUBSET Sources OBVIOUS
<1>2. First(T) \in S /\ First(T) <= First(S) BY <1>1, FirstIsFirst
<1>3. First(S) <= First(T) BY <1>1, <1>2, FirstIsFirst
<1>4. First(S) \in Nat /\ First(T) \in Nat BY <1>2, SyncAssumption
<1> QED BY <1>2, <1>3, <1>4

(* A pass that goes on is sound. *)
LEMMA ContinueIsSound ==
  ASSUME NEW pass \in Passes, NEW y \in Syncers, sync \in [Syncers -> Passes],
         pass.place \in Places, pass.left \subseteq Found(pass.seen), Continue(y, pass)
  PROVE  sync' \in [Syncers -> Passes] /\ Sound(sync'[y])
         /\ \A v \in Syncers \ {y} : sync'[v] = sync[v]
<1> DEFINE on == [pass EXCEPT !.pc = "compare"]
<1>1. on \in Passes
    BY ZenonT(30) DEF Passes, Positions
<1>2. /\ on.pc = "compare" /\ on.left = pass.left
      /\ on.seen = pass.seen /\ on.place = pass.place
    BY DEF Passes
<1>3. NoPass \in Passes /\ NoPass.pc = "idle"
    BY SMTT(30) DEF NoPass, Passes, Positions, Files
<1> HIDE DEF on
<1>4. sync' = [sync EXCEPT ![y] = IF pass.left = {} THEN NoPass ELSE on]
    BY DEF Continue, Becomes, on
<1>5. CASE pass.left = {} BY <1>3, <1>4, <1>5 DEF Sound
<1>6. CASE pass.left # {} BY <1>1, <1>2, <1>4, <1>6 DEF Sound
<1> QED BY <1>5, <1>6

(* What a step of one thread has to show: the others rely on files and rows the
   step leaves alone, or they do not count as undisturbed any more. *)
LEMMA Assemble ==
  ASSUME SyncInv, NEW y \in Syncers, TypeOK', Sound(sync'[y]),
         \A v \in Syncers \ {y} : sync'[v] = sync[v],
         quiet' \ {y} \subseteq quiet,
         quiet' \subseteq {y} \/ UNCHANGED <<provider, input, entries, dirty>>,
         y \in quiet' => Kept(sync'[y], provider', input', entries', dirty')
  PROVE  SyncInv'
<1>1. \A v \in Syncers : Sound(sync'[v]) BY DEF SyncInv
<1>2. ASSUME NEW v \in quiet'
      PROVE  Kept(sync'[v], provider', input', entries', dirty')
  <2>1. CASE v = y BY <2>1
  <2>2. CASE v # y
    <3>1. v \in quiet /\ v \in Syncers /\ sync'[v] = sync[v] BY <1>2, <2>2 DEF TypeOK
    <3>2. UNCHANGED <<provider, input, entries, dirty>> BY <1>2, <2>2
    <3>3. Kept(sync[v], provider, input, entries, dirty) BY <3>1 DEF SyncInv
    <3> QED BY <3>1, <3>2, <3>3
  <2> QED BY <2>1, <2>2
<1> QED BY <1>1, <1>2 DEF SyncInv

(* Nothing is relied on by a thread that has returned. *)
LEMMA RestingIsFine ==
  /\ NoPass \in Passes /\ Sound(NoPass)
  /\ \A offers, files, rows, old : Kept(NoPass, offers, files, rows, old)
<1>1. NoPass \in Passes /\ NoPass.pc = "idle"
    BY SMTT(30) DEF NoPass, Passes, Positions, Files
<1> QED BY <1>1 DEF Sound, Kept

(* The invariant holds when the vault is opened. *)
LEMMA InitIsSound == SyncInit => SyncInv
<1> SUFFICES ASSUME SyncInit PROVE SyncInv OBVIOUS
<1>1. input \in [Places -> Files] /\ entries \in [Sources -> Rows \union {nothing}]
    BY DEF SyncInit, Files
<1>2. sync \in [Syncers -> Passes] /\ \A y \in Syncers : sync[y] = NoPass
    BY RestingIsFine DEF SyncInit
<1>3. TypeOK BY <1>1, <1>2 DEF SyncInit, TypeOK
<1> QED BY <1>2, <1>3, RestingIsFine DEF SyncInit, SyncInv

(* A pass that begins has seen nothing yet. *)
LEMMA BeginKeeps == ASSUME SyncInv, NEW y \in Syncers, Begin(y) PROVE SyncInv'
<1>1. PICK p \in Places : \E chosen \in Selections(p) :
        Becomes(y, [NoPass EXCEPT !.pc = "scan", !.place = p, !.left = chosen])
    BY DEF Begin
<1>2. PICK chosen \in Selections(p) :
        Becomes(y, [NoPass EXCEPT !.pc = "scan", !.place = p, !.left = chosen])
    BY <1>1
<1>3. chosen \in SUBSET Sources /\ chosen # {} BY DEF Selections
<1> DEFINE pass == [NoPass EXCEPT !.pc = "scan", !.place = p, !.left = chosen]
<1>4. pass \in Passes
  <2>1. NoPass \in Passes BY RestingIsFine
  <2>2. p \in Places \union {nothing} /\ chosen \in SUBSET Sources /\ "scan" \in Positions
      BY <1>3 DEF Positions
  <2> QED BY <2>1, <2>2, ZenonT(30) DEF Passes
<1>5. /\ pass.pc = "scan" /\ pass.place = p /\ pass.left = chosen
      /\ \A s \in Sources : pass.seen[s] = nothing
    BY DEF NoPass
<1> HIDE DEF pass
<1>6. Sound(pass) BY <1>3, <1>5 DEF Sound
<1>7. Kept(pass, provider', input', entries', dirty')
  <2>1. Found(pass.seen) = {} BY <1>5 DEF Found
  <2>2. pass.pc = "scan" /\ \A s \in pass.left : pass.seen[s] = nothing BY <1>3, <1>5
  <2> QED BY <2>1, <2>2 DEF Kept
<1>8. sync' = [sync EXCEPT ![y] = pass] BY <1>2 DEF Becomes, pass
<1>9. TypeOK /\ sync \in [Syncers -> Passes] BY DEF SyncInv, TypeOK
<1>10. sync' \in [Syncers -> Passes] /\ sync'[y] = pass
       /\ \A v \in Syncers \ {y} : sync'[v] = sync[v]
    BY <1>4, <1>8, <1>9
<1>11. UNCHANGED <<provider, input, dirty, entries>> /\ quiet' = quiet \union {y}
    BY DEF Begin
<1>12. TypeOK' BY <1>9, <1>10, <1>11 DEF TypeOK
<1> QED BY <1>6, <1>7, <1>10, <1>11, <1>12, Assemble

(* A scanned source is remembered as its provider offers it, or as absent. *)
LEMMA ScanKeeps == ASSUME SyncInv, NEW y \in Syncers, Scan(y) PROVE SyncInv'
<1> DEFINE Goes(s, content) ==
      LET seen == [sync[y].seen EXCEPT ![s] = content] IN
      IF sync[y].left = {s}
        THEN Continue(y, [sync[y] EXCEPT !.seen = seen, !.left = Found(seen)])
        ELSE Becomes(y, [sync[y] EXCEPT !.seen = seen, !.left = @ \ {s}])
<1>a. PICK s \in sync[y].left : \E content \in {provider[s], nothing} : Goes(s, content)
    BY DEF Scan
<1>0. PICK content \in {provider[s], nothing} : Goes(s, content)
    BY <1>a
<1> DEFINE pass == sync[y]
           seen == [pass.seen EXCEPT ![s] = content]
           last == [pass EXCEPT !.seen = seen, !.left = Found(seen)]
           next == [pass EXCEPT !.seen = seen, !.left = @ \ {s}]
<1>1. TypeOK /\ pass \in Passes /\ Sound(pass) /\ pass.pc = "scan" /\ sync \in [Syncers -> Passes]
    BY DEF SyncInv, TypeOK, Scan, PassAt
<1>2. /\ pass.place \in Places /\ pass.left # {} /\ pass.left \in SUBSET Sources
      /\ pass.seen \in [Sources -> Files]
    BY <1>1 DEF Sound, Passes
<1>3. s \in pass.left /\ s \in Sources BY <1>2
<1>4. content \in Files BY <1>1, <1>3 DEF TypeOK, Files
<1>5. /\ seen \in [Sources -> Files] /\ seen[s] = content
      /\ \A t \in Sources \ {s} : seen[t] = pass.seen[t]
    BY <1>2, <1>3, <1>4
<1>6. Found(seen) \in SUBSET Sources BY DEF Found
<1>7. UNCHANGED <<provider, input, dirty, entries, quiet>> BY DEF Scan
<1>8. ASSUME y \in quiet PROVE \A t \in Found(seen) : provider[t] = seen[t]
  <2>1. \A t \in Found(pass.seen) : provider[t] = pass.seen[t]
      BY <1>1, <1>8 DEF SyncInv, Kept
  <2>2. seen[s] # nothing => provider[s] = seen[s] BY <1>5
  <2> QED BY <1>5, <2>1, <2>2 DEF Found
<1>9. CASE pass.left = {s}
  <2>1. Continue(y, last) BY <1>0, <1>9
  <2>2. last \in Passes
      BY <1>1, <1>5, <1>6, ZenonT(30) DEF Passes
  <2>3. last.place = pass.place /\ last.left = Found(seen) /\ last.seen = seen
      BY <1>1 DEF Passes
  <2> DEFINE on == [last EXCEPT !.pc = "compare"]
  <2>4. on.pc = "compare" /\ on.left = Found(seen) /\ on.seen = seen
      BY <2>2, <2>3 DEF Passes
  <2> HIDE DEF last
  <2>5. /\ sync' \in [Syncers -> Passes] /\ Sound(sync'[y])
        /\ \A v \in Syncers \ {y} : sync'[v] = sync[v]
      BY <1>1, <1>2, <2>1, <2>2, <2>3, ContinueIsSound
  <2>6. TypeOK' BY <1>1, <1>7, <2>5 DEF TypeOK
  <2>7. sync'[y] = NoPass \/ sync'[y] = on
      BY <1>1, <2>1 DEF Continue, Becomes
  <2>8. y \in quiet => Kept(on, provider, input, entries, dirty)
    <3> HIDE DEF on
    <3> QED BY <1>8, <2>4 DEF Kept
  <2> HIDE DEF on
  <2>9. y \in quiet' => Kept(sync'[y], provider', input', entries', dirty')
      BY <1>7, <2>7, <2>8, RestingIsFine
  <2> QED BY <1>7, <2>5, <2>6, <2>9, Assemble
<1>10. CASE pass.left # {s}
  <2>1. sync' = [sync EXCEPT ![y] = next] BY <1>0, <1>10 DEF Becomes
  <2>2. next \in Passes
    <3>1. pass.left \ {s} \in SUBSET Sources BY <1>2
    <3> QED BY <1>1, <1>5, <3>1, ZenonT(30) DEF Passes
  <2>3. /\ next.pc = "scan" /\ next.place = pass.place
        /\ next.left = pass.left \ {s} /\ next.seen = seen
      BY <1>1 DEF Passes
  <2>4. Sound(next)
    <3> HIDE DEF next
    <3> QED BY <1>2, <1>3, <1>10, <2>3 DEF Sound
  <2>5. y \in quiet => Kept(next, provider, input, entries, dirty)
    <3>1. y \in quiet => \A t \in pass.left : pass.seen[t] = nothing
        BY <1>1 DEF SyncInv, Kept
    <3> HIDE DEF next
    <3>2. y \in quiet => \A t \in pass.left \ {s} : seen[t] = nothing BY <1>2, <1>5, <3>1
    <3> HIDE DEF seen
    <3> QED BY <1>8, <2>3, <3>2 DEF Kept
  <2> HIDE DEF next
  <2>6. /\ sync' \in [Syncers -> Passes] /\ sync'[y] = next
        /\ \A v \in Syncers \ {y} : sync'[v] = sync[v]
      BY <1>1, <2>1, <2>2
  <2>7. TypeOK' BY <1>1, <1>7, <2>6 DEF TypeOK
  <2> QED BY <1>7, <2>4, <2>5, <2>6, <2>7, Assemble
<1> QED BY <1>9, <1>10

(* What every step on one source starts from. *)
LEMMA OnSource ==
  ASSUME SyncInv, NEW y \in Syncers, sync[y].pc \in {"compare", "copy", "record"}
  PROVE  /\ TypeOK /\ sync \in [Syncers -> Passes] /\ sync[y] \in Passes /\ Sound(sync[y])
         /\ sync[y].place \in Places /\ sync[y].left # {}
         /\ sync[y].left \in SUBSET Found(sync[y].seen) /\ sync[y].left \in SUBSET Sources
         /\ sync[y].seen \in [Sources -> Files]
         /\ First(sync[y].left) \in sync[y].left /\ First(sync[y].left) \in Sources
         /\ sync[y].seen[First(sync[y].left)] \in Versions
         /\ Found(sync[y].seen) \in SUBSET Sources
<1>1. TypeOK /\ sync \in [Syncers -> Passes] /\ sync[y] \in Passes /\ Sound(sync[y])
    BY DEF SyncInv, TypeOK
<1>2. /\ sync[y].place \in Places /\ sync[y].left # {}
      /\ sync[y].left \in SUBSET Found(sync[y].seen)
    BY <1>1 DEF Sound
<1>3. sync[y].left \in SUBSET Sources /\ sync[y].seen \in [Sources -> Files]
    BY <1>1 DEF Passes
<1>4. First(sync[y].left) \in sync[y].left BY <1>2, <1>3, FirstIsFirst
<1>5. sync[y].seen[First(sync[y].left)] \in Versions
    BY <1>2, <1>3, <1>4 DEF Found, Files
<1>6. Found(sync[y].seen) \in SUBSET Sources BY DEF Found
<1> QED BY <1>1, <1>2, <1>3, <1>4, <1>5, <1>6

(* The verdict on an undisturbed source is true when it is reached. A loser is
   right to report a conflict: the winner came first, and its content or a
   conflict of its own stands there. *)
LEMMA VerdictTells ==
  ASSUME SyncInv, NEW y \in quiet, sync[y].pc = "compare", NEW row,
         row = [hash |-> sync[y].seen[First(sync[y].left)], place |-> sync[y].place,
                status |-> Verdict(sync[y], First(sync[y].left))]
  PROVE  IF row.status = "copied" THEN ~Loses(sync[y], First(sync[y].left))
         ELSE Tells(row, sync[y], First(sync[y].left), input[sync[y].place], dirty)
<1> DEFINE pass == sync[y]
           s == First(pass.left)
           w == Winner(pass)
           here == input[pass.place]
<1>0. y \in Syncers BY DEF SyncInv, TypeOK
<1>1. /\ pass.left \in SUBSET Found(pass.seen) /\ pass.left \in SUBSET Sources
      /\ s \in pass.left /\ s \in Sources /\ pass.seen[s] \in Versions
      /\ Found(pass.seen) \in SUBSET Sources /\ pass.place \in Places
    BY <1>0, OnSource
<1>2. w \in Found(pass.seen) BY <1>1, FirstIsFirst DEF Winner
<1>3. pass.seen[w] # nothing BY <1>2 DEF Found
<1>4. row.hash = pass.seen[s] /\ row.place = pass.place /\ row.status = Verdict(pass, s)
    OBVIOUS
<1>6. CASE Loses(pass, s)
  <2>1. w \notin pass.left
    <3>1. SUFFICES ASSUME w \in pass.left PROVE FALSE OBVIOUS
    <3>2. s = w BY <1>1, <3>1, FirstOfSubset DEF Winner
    <3> QED BY <1>6, <3>2 DEF Loses
  <2>2. Tells(entries[w], pass, w, here, dirty)
      BY <1>2, <2>1 DEF SyncInv, Kept
  <2>3. here # nothing \/ dirty # nothing BY <1>3, <2>2 DEF Tells
  <2>4. row.status = "conflict" BY <1>4, <1>6 DEF Verdict
  <2> QED BY <1>4, <2>3, <2>4 DEF Tells
<1>7. CASE ~Loses(pass, s)
  <2>1. CASE row.status = "copied" BY <1>7, <2>1
  <2>2. CASE row.status = "unchanged"
    <3>1. here = pass.seen[s] BY <1>4, <1>7, <2>2 DEF Verdict, InPlace
    <3> QED BY <1>4, <1>7, <2>2, <3>1 DEF Tells
  <2>3. CASE row.status = "conflict"
    <3>1. here # nothing \/ DirtyBlocks(s, pass.place, pass.seen[s])
        BY <1>4, <1>7, <2>3 DEF Verdict
    <3>2. here # nothing \/ dirty # nothing BY <3>1 DEF DirtyBlocks
    <3> QED BY <1>4, <2>3, <3>2 DEF Tells
  <2>4. row.status \in {"copied", "unchanged", "conflict"} BY <1>4 DEF Verdict
  <2> QED BY <2>1, <2>2, <2>3, <2>4
<1> QED BY <1>6, <1>7

(* A source that is skipped is not left. *)
LEMMA SkippedIsSound ==
  ASSUME SyncInv, NEW y \in Syncers, sync[y].pc \in {"compare", "copy", "record"},
         Continue(y, Skipped(sync[y]))
  PROVE  /\ sync' \in [Syncers -> Passes] /\ Sound(sync'[y])
         /\ \A v \in Syncers \ {y} : sync'[v] = sync[v]
         /\ sync'[y] = NoPass
            \/ /\ sync'[y].pc = "compare" /\ sync'[y].place = sync[y].place
               /\ sync'[y].seen = sync[y].seen
               /\ sync'[y].left = sync[y].left \ {First(sync[y].left)}
<1> DEFINE pass == sync[y]
           s == First(pass.left)
           rest == Skipped(pass)
           on == [rest EXCEPT !.pc = "compare"]
<1>1. /\ sync \in [Syncers -> Passes] /\ pass \in Passes /\ pass.place \in Places
      /\ pass.left \in SUBSET Found(pass.seen) /\ pass.left \in SUBSET Sources
    BY OnSource
<1>2. rest \in Passes
  <2>1. pass.left \ {s} \in SUBSET Sources BY <1>1
  <2> QED BY <1>1, <2>1, ZenonT(30) DEF Passes, Skipped
<1>3. rest.place = pass.place /\ rest.seen = pass.seen /\ rest.left = pass.left \ {s}
    BY <1>1 DEF Passes, Skipped
<1>4. on.pc = "compare" /\ on.place = rest.place /\ on.seen = rest.seen /\ on.left = rest.left
  <2> HIDE DEF rest
  <2> QED BY <1>2 DEF Passes
<1>5. sync'[y] = NoPass \/ sync'[y] = on
    BY <1>1 DEF Continue, Becomes
<1>6. Continue(y, rest) OBVIOUS
<1> HIDE DEF on, rest
<1>7. /\ sync' \in [Syncers -> Passes] /\ Sound(sync'[y])
      /\ \A v \in Syncers \ {y} : sync'[v] = sync[v]
    BY <1>1, <1>2, <1>3, <1>6, ContinueIsSound
<1> QED BY <1>3, <1>4, <1>5, <1>7

(* A row that is known already tells the truth, too. *)
LEMMA KnownTells ==
  ASSUME SyncInv, NEW y \in quiet, sync[y].pc = "compare",
         Known(Entry(sync[y], First(sync[y].left)), First(sync[y].left))
  PROVE  Tells(entries[First(sync[y].left)], sync[y], First(sync[y].left),
               input[sync[y].place], dirty)
<1> DEFINE pass == sync[y]
           s == First(pass.left)
           entry == Entry(pass, s)
<1>1. entry = [hash |-> pass.seen[s], place |-> pass.place, status |-> Verdict(pass, s)]
    BY DEF Entry
<1>2. IF entry.status = "copied" THEN ~Loses(pass, s)
      ELSE Tells(entry, pass, s, input[pass.place], dirty)
    BY <1>1, VerdictTells
<1>3. entry.hash = pass.seen[s] /\ entry.place = pass.place BY <1>1
<1> HIDE DEF entry
<1>4. /\ entry.status = "unchanged" /\ entries[s].status # "conflict"
      /\ entries[s].hash = pass.seen[s] /\ entries[s].place = pass.place
    BY <1>3 DEF Known, entry
<1> QED BY <1>2, <1>4 DEF Tells

(* A source that needs no new row is skipped. *)
LEMMA SkipKnownKeeps ==
  ASSUME SyncInv, NEW y \in Syncers, sync[y].pc = "compare",
         Known(Entry(sync[y], First(sync[y].left)), First(sync[y].left)),
         Continue(y, Skipped(sync[y])),
         UNCHANGED <<provider, input, dirty, entries, quiet>>
  PROVE  SyncInv'
<1> DEFINE pass == sync[y]
           s == First(pass.left)
<1>1. TypeOK BY OnSource
<1>2. /\ sync' \in [Syncers -> Passes] /\ Sound(sync'[y])
      /\ \A v \in Syncers \ {y} : sync'[v] = sync[v]
      /\ sync'[y] = NoPass
         \/ /\ sync'[y].pc = "compare" /\ sync'[y].place = pass.place
            /\ sync'[y].seen = pass.seen /\ sync'[y].left = pass.left \ {s}
    BY SkippedIsSound
<1>3. TypeOK' BY <1>1, <1>2 DEF TypeOK
<1>4. ASSUME y \in quiet PROVE Kept(sync'[y], provider, input, entries, dirty)
  <2>1. Kept(pass, provider, input, entries, dirty) BY <1>4 DEF SyncInv
  <2>2. CASE sync'[y] = NoPass BY <2>2, RestingIsFine
  <2>3. CASE /\ sync'[y].pc = "compare" /\ sync'[y].place = pass.place
             /\ sync'[y].seen = pass.seen /\ sync'[y].left = pass.left \ {s}
    <3>1. Tells(entries[s], pass, s, input[pass.place], dirty) BY <1>4, KnownTells
    <3>2. \A t \in Found(pass.seen) \ pass.left :
            Tells(entries[t], pass, t, input[pass.place], dirty)
        BY <2>1 DEF Kept
    <3>3. \A t \in Found(sync'[y].seen) \ sync'[y].left :
            Tells(entries[t], sync'[y], t, input[sync'[y].place], dirty)
        BY <2>3, <3>1, <3>2 DEF Tells, Loses, Winner
    <3>4. \A t \in Found(sync'[y].seen) : provider[t] = sync'[y].seen[t]
        BY <2>1, <2>3 DEF Kept
    <3> QED BY <2>3, <3>3, <3>4 DEF Kept
  <2> QED BY <1>2, <2>2, <2>3
<1> QED BY <1>2, <1>3, <1>4, Assemble

(* A comparison writes nothing; its verdict is part of the pass. *)
LEMMA CompareKeeps == ASSUME SyncInv, NEW y \in Syncers, Compare(y) PROVE SyncInv'
<1> DEFINE pass == sync[y]
           s == First(pass.left)
           verdict == Verdict(pass, s)
           row == [hash |-> pass.seen[s], place |-> pass.place, status |-> verdict]
           to == IF verdict = "copied" THEN "copy" ELSE "record"
           next == [pass EXCEPT !.pc = to, !.row = row]
<1>0. CASE Known(Entry(pass, s), s) /\ Continue(y, Skipped(pass))
    BY <1>0, SkipKnownKeeps DEF Compare, PassAt
<1> SUFFICES ASSUME ~(Known(Entry(pass, s), s) /\ Continue(y, Skipped(pass))) PROVE SyncInv'
    BY <1>0
<1>1. pass.pc = "compare" /\ sync' = [sync EXCEPT ![y] = next]
    BY DEF Compare, PassAt, Becomes, Entry
<1>2. /\ TypeOK /\ sync \in [Syncers -> Passes] /\ pass \in Passes /\ Sound(pass)
      /\ pass.place \in Places /\ pass.left # {} /\ pass.left \in SUBSET Found(pass.seen)
      /\ s \in pass.left /\ pass.seen[s] \in Versions
    BY <1>1, OnSource
<1>3. row \in Rows
  <2>1. verdict \in {"copied", "unchanged", "conflict"} BY DEF Verdict
  <2> HIDE DEF verdict
  <2> QED BY <1>2, <2>1 DEF Rows
<1>5. to \in {"copy", "record"} /\ (to = "copy" <=> verdict = "copied") OBVIOUS
<1>6. y \in quiet => IF row.status = "copied" THEN ~Loses(pass, s)
                     ELSE Tells(row, pass, s, input[pass.place], dirty)
    BY <1>1, VerdictTells
<1>7. row.hash = pass.seen[s] /\ row.place = pass.place /\ row.status = verdict OBVIOUS
<1>8. verdict = "copied" =>
        row = [hash |-> pass.seen[s], place |-> pass.place, status |-> "copied"]
    OBVIOUS
<1>9. next \in Passes
  <2>1. to \in Positions BY <1>5 DEF Positions
  <2> HIDE DEF to, row
  <2> QED BY <1>2, <1>3, <2>1, ZenonT(30) DEF Passes
<1> HIDE DEF to, row
<1>10. /\ next.pc = to /\ next.place = pass.place /\ next.left = pass.left
       /\ next.seen = pass.seen /\ next.row = row
    BY <1>2 DEF Passes
<1> HIDE DEF next, verdict
<1>11. Sound(next) BY <1>2, <1>5, <1>10 DEF Sound
<1>12. UNCHANGED <<provider, input, dirty, entries, quiet>> BY DEF Compare
<1>13. y \in quiet => Kept(next, provider, input, entries, dirty)
  <2> SUFFICES ASSUME y \in quiet PROVE Kept(next, provider, input, entries, dirty)
      OBVIOUS
  <2>1. Kept(pass, provider, input, entries, dirty) BY DEF SyncInv
  <2>2. \A t \in Found(next.seen) : provider[t] = next.seen[t]
      BY <1>1, <1>10, <2>1 DEF Kept
  <2>3. \A t \in Found(next.seen) \ next.left :
          Tells(entries[t], next, t, input[next.place], dirty)
      BY <1>1, <1>10, <2>1 DEF Kept, Tells, Loses, Winner
  <2>4. next.pc = "copy" => ~Loses(next, First(next.left))
      BY <1>5, <1>6, <1>7, <1>10 DEF Loses, Winner
  <2>5. next.pc = "record" => Tells(next.row, next, First(next.left), input[next.place], dirty)
      BY <1>5, <1>6, <1>7, <1>10 DEF Tells, Loses, Winner
  <2>6. next.pc = "copy" =>
          next.row = [hash |-> next.seen[First(next.left)], place |-> next.place,
                      status |-> "copied"]
      BY <1>5, <1>8, <1>10
  <2> QED BY <1>5, <1>10, <2>2, <2>3, <2>4, <2>5, <2>6 DEF Kept
<1>14. /\ sync' \in [Syncers -> Passes] /\ sync'[y] = next
       /\ \A v \in Syncers \ {y} : sync'[v] = sync[v]
    BY <1>1, <1>2, <1>9
<1>15. TypeOK' BY <1>2, <1>12, <1>14 DEF TypeOK
<1> QED BY <1>11, <1>12, <1>13, <1>14, <1>15, Assemble

(* A copy takes the place of nothing an undisturbed pass has reported: what is
   in place already is the winner's content, and so is the copy. *)
LEMMA CopyKeeps == ASSUME SyncInv, NEW y \in Syncers, Copy(y) PROVE SyncInv'
<1> DEFINE pass == sync[y]
           s == First(pass.left)
           next == [pass EXCEPT !.pc = "record"]
<1>1. /\ pass.pc = "copy" /\ sync' = [sync EXCEPT ![y] = next] /\ provider[s] # nothing
      /\ input' = [input EXCEPT ![pass.place] = provider[s]]
      /\ quiet' = quiet \intersect {y} /\ UNCHANGED <<provider, dirty, entries>>
    BY DEF Copy, PassAt, Becomes
<1>2. /\ TypeOK /\ sync \in [Syncers -> Passes] /\ pass \in Passes /\ Sound(pass)
      /\ pass.place \in Places /\ pass.left # {} /\ pass.left \in SUBSET Found(pass.seen)
      /\ s \in pass.left /\ s \in Sources /\ pass.seen[s] \in Versions
    BY <1>1, OnSource
<1>3. /\ input' \in [Places -> Files] /\ input'[pass.place] = provider[s]
    BY <1>1, <1>2 DEF TypeOK
<1>4. next \in Passes
  <2>1. "record" \in Positions BY DEF Positions
  <2> QED BY <1>2, <2>1, ZenonT(30) DEF Passes
<1>5. /\ next.pc = "record" /\ next.place = pass.place /\ next.left = pass.left
      /\ next.seen = pass.seen /\ next.row = pass.row
    BY <1>2 DEF Passes
<1> HIDE DEF next
<1>6. /\ sync' \in [Syncers -> Passes] /\ sync'[y] = next
      /\ \A v \in Syncers \ {y} : sync'[v] = sync[v]
    BY <1>1, <1>2, <1>4
<1>7. TypeOK' BY <1>1, <1>2, <1>3, <1>6 DEF TypeOK
<1>8. y \in quiet' => Kept(next, provider', input', entries', dirty')
  <2> SUFFICES ASSUME y \in quiet PROVE Kept(next, provider, input', entries, dirty)
      BY <1>1
  <2>1. Kept(pass, provider, input, entries, dirty) BY DEF SyncInv
  <2>2. \A t \in Found(pass.seen) : provider[t] = pass.seen[t] BY <1>1, <2>1 DEF Kept
  <2>3. input'[pass.place] = pass.seen[s] BY <1>2, <1>3, <2>2
  <2>4. /\ ~Loses(pass, s)
        /\ pass.row = [hash |-> pass.seen[s], place |-> pass.place, status |-> "copied"]
      BY <1>1, <2>1 DEF Kept
  <2>6. Tells(next.row, next, First(next.left), input'[next.place], dirty)
      BY <1>5, <2>3, <2>4 DEF Tells, Loses, Winner
  <2>7. ASSUME NEW t \in Found(next.seen) \ next.left
        PROVE  Tells(entries[t], next, t, input'[next.place], dirty)
    <3>1. Tells(entries[t], pass, t, input[pass.place], dirty)
        BY <1>1, <1>5, <2>1, <2>7 DEF Kept
    <3>2. ~Loses(pass, t) => input'[pass.place] = pass.seen[t]
        BY <2>3, <2>4 DEF Loses
    <3> QED BY <1>1, <1>3, <1>5, <3>1, <3>2 DEF Tells, Loses, Winner
  <2> QED BY <1>5, <2>2, <2>6, <2>7 DEF Kept
<1>9. Sound(next) BY <1>2, <1>5 DEF Sound
<1> QED BY <1>1, <1>6, <1>7, <1>8, <1>9, Assemble

(* A pass that met an error counts as disturbed. *)
LEMMA FailKeeps == ASSUME SyncInv, NEW y \in Syncers, Fail(y) PROVE SyncInv'
<1>1. /\ sync[y].pc \in {"compare", "copy", "record"} /\ quiet' = quiet \ {y}
      /\ UNCHANGED <<provider, input, dirty, entries>>
      /\ Continue(y, Skipped(sync[y])) \/ Becomes(y, NoPass)
    BY DEF Fail
<1>2. TypeOK /\ sync \in [Syncers -> Passes] BY <1>1, OnSource
<1>3. /\ sync' \in [Syncers -> Passes] /\ Sound(sync'[y])
      /\ \A v \in Syncers \ {y} : sync'[v] = sync[v]
  <2>1. CASE Continue(y, Skipped(sync[y])) BY <1>1, <2>1, SkippedIsSound
  <2>2. CASE Becomes(y, NoPass) BY <1>2, <2>2, RestingIsFine DEF Becomes
  <2> QED BY <1>1, <2>1, <2>2
<1>4. TypeOK' BY <1>1, <1>2, <1>3 DEF TypeOK
<1> QED BY <1>1, <1>3, <1>4, Assemble

(* A recorded source joins those whose rows tell the truth. *)
LEMMA RecordKeeps ==
  ASSUME SyncInv, NEW y \in Syncers, Record(y), sync[y].row \in Rows \union {nothing} PROVE SyncInv'
<1> DEFINE pass == sync[y]
           s == First(pass.left)
<1>1. /\ pass.pc = "record" /\ entries' = [entries EXCEPT ![s] = pass.row]
      /\ Continue(y, Skipped(pass)) /\ UNCHANGED <<provider, input, dirty>>
      /\ quiet' = IF entries' = entries THEN quiet ELSE quiet \intersect {y}
    BY DEF Record, PassAt
<1>2. /\ TypeOK /\ pass.left \in SUBSET Found(pass.seen)
      /\ s \in pass.left /\ s \in Sources /\ Found(pass.seen) \in SUBSET Sources
    BY <1>1, OnSource
<1>3. /\ sync' \in [Syncers -> Passes] /\ Sound(sync'[y])
      /\ \A v \in Syncers \ {y} : sync'[v] = sync[v]
      /\ sync'[y] = NoPass
         \/ /\ sync'[y].pc = "compare" /\ sync'[y].place = pass.place
            /\ sync'[y].seen = pass.seen /\ sync'[y].left = pass.left \ {s}
    BY <1>1, SkippedIsSound
<1>4. /\ entries' \in [Sources -> Rows \union {nothing}] /\ entries'[s] = pass.row
      /\ \A t \in Sources \ {s} : entries'[t] = entries[t]
    BY <1>1, <1>2 DEF TypeOK
<1>5. quiet' \subseteq quiet /\ (quiet' \subseteq {y} \/ entries' = entries) BY <1>1
<1>6. TypeOK' BY <1>1, <1>2, <1>3, <1>4, <1>5 DEF TypeOK
<1>7. ASSUME y \in quiet'
      PROVE  Kept(sync'[y], provider', input', entries', dirty')
  <2>1. Kept(pass, provider, input, entries, dirty) BY <1>5, <1>7 DEF SyncInv
  <2>2. CASE sync'[y] = NoPass BY <2>2, RestingIsFine
  <2>3. CASE /\ sync'[y].pc = "compare" /\ sync'[y].place = pass.place
             /\ sync'[y].seen = pass.seen /\ sync'[y].left = pass.left \ {s}
    <3>1. Tells(pass.row, pass, s, input[pass.place], dirty) BY <1>1, <2>1 DEF Kept
    <3>2. ASSUME NEW t \in Found(pass.seen) \ (pass.left \ {s})
          PROVE  Tells(entries'[t], pass, t, input[pass.place], dirty)
      <4>1. CASE t = s BY <1>4, <3>1, <4>1
      <4>2. CASE t # s
        <5>1. t \in Found(pass.seen) \ pass.left BY <4>2
        <5>2. Tells(entries[t], pass, t, input[pass.place], dirty)
            BY <1>1, <2>1, <5>1 DEF Kept
        <5> QED BY <1>2, <1>4, <4>2, <5>2
      <4> QED BY <4>1, <4>2
    <3>3. \A t \in Found(sync'[y].seen) \ sync'[y].left :
            Tells(entries'[t], sync'[y], t, input[sync'[y].place], dirty)
        BY <2>3, <3>2 DEF Tells, Loses, Winner
    <3>4. \A t \in Found(sync'[y].seen) : provider[t] = sync'[y].seen[t]
        BY <1>1, <2>1, <2>3 DEF Kept
    <3> QED BY <1>1, <2>3, <3>3, <3>4 DEF Kept
  <2> QED BY <1>3, <2>2, <2>3
<1> QED BY <1>1, <1>3, <1>5, <1>6, <1>7, Assemble

(* Whoever else writes a file, and a restart, disturb every pass. *)
LEMMA OthersKeep ==
  ASSUME SyncInv,
         \/ \E s \in Sources : ProviderChanges(s)
         \/ \E p \in Places : InputChanges(p)
         \/ DirtyChanges
         \/ SyncRestart
  PROVE  SyncInv'
<1>1. quiet' = {} BY DEF ProviderChanges, InputChanges, DirtyChanges, SyncRestart
<1>2. TypeOK /\ \A y \in Syncers : Sound(sync[y]) BY DEF SyncInv
<1>3. TypeOK' /\ \A y \in Syncers : Sound(sync'[y])
  <2>1. CASE \E s \in Sources : ProviderChanges(s)
      BY <1>2, <2>1 DEF ProviderChanges, TypeOK
  <2>2. CASE \E p \in Places : InputChanges(p)
      BY <1>2, <2>2 DEF InputChanges, TypeOK
  <2>3. CASE SyncRestart
      BY <1>2, <2>3, RestingIsFine DEF SyncRestart, TypeOK
  <2>4. CASE DirtyChanges BY <1>2, <2>4 DEF DirtyChanges, TypeOK
  <2> QED BY <2>1, <2>2, <2>3, <2>4
<1> QED BY <1>1, <1>3 DEF SyncInv

(* SyncInv is inductive. *)
LEMMA Inductive == SyncInv /\ [SyncNext]_syncVars => SyncInv'
<1> SUFFICES ASSUME SyncInv, [SyncNext]_syncVars PROVE SyncInv' OBVIOUS
<1>1. ASSUME NEW y \in Syncers, SyncStep(y) PROVE SyncInv'
  <2>1. CASE Begin(y) BY <2>1, BeginKeeps
  <2>2. CASE Scan(y) BY <2>2, ScanKeeps
  <2>3. CASE Compare(y) BY <2>3, CompareKeeps
  <2>4. CASE Copy(y) BY <2>4, CopyKeeps
  <2>5. CASE Fail(y) BY <2>5, FailKeeps
  <2>6. CASE Record(y)
    <3>1. sync[y].row \in Rows \union {nothing} BY DEF SyncInv, TypeOK, Passes
    <3> QED BY <2>6, <3>1, RecordKeeps
  <2> QED BY <1>1, <2>1, <2>2, <2>3, <2>4, <2>5, <2>6 DEF SyncStep
<1>2. CASE \/ \E s \in Sources : ProviderChanges(s)
           \/ \E p \in Places : InputChanges(p)
           \/ DirtyChanges
           \/ SyncRestart
    BY <1>2, OthersKeep
<1>3. CASE UNCHANGED syncVars
    BY <1>3 DEF syncVars, SyncInv, TypeOK
<1> QED BY <1>1, <1>2, <1>3 DEF SyncNext

(* The invariant holds in every reachable state. *)
LEMMA SyncInvariance == SyncSpec => []SyncInv
BY InitIsSound, Inductive, PTL DEF SyncSpec

(* Every variable keeps its shape, whatever passes, people and restarts do. *)
THEOREM SyncTypeCorrect == SyncSpec => []TypeOK
<1>1. SyncInv => TypeOK BY DEF SyncInv
<1> QED BY <1>1, SyncInvariance, PTL

(* When a pass returns that nobody interfered with, each file it found is in
   place or recorded as a conflict with something that stands there: the report
   of sync_to_input() is true, for any number of folders and threads. *)
THEOREM SettlesAlways == SyncSpec => QuietPassSettles
<1> DEFINE Settled(y) ==
      Returns(y) =>
        \A s \in Found(sync[y].seen) :
          /\ entries'[s].hash = sync[y].seen[s]
          /\ entries'[s].place = sync[y].place
          /\ IF entries'[s].status = "conflict"
               THEN input[sync[y].place] # nothing \/ dirty # nothing
               ELSE input[sync[y].place] = sync[y].seen[s]
<1>1. SyncInv /\ [SyncNext]_syncVars => \A y \in quiet \intersect quiet' : Settled(y)
  <2> SUFFICES ASSUME SyncInv, [SyncNext]_syncVars, NEW y \in quiet \intersect quiet', Returns(y)
               PROVE  Settled(y)
      OBVIOUS
  <2> DEFINE pass == sync[y]
             s == First(pass.left)
  <2>1. /\ y \in Syncers /\ pass.pc \in {"compare", "record"}
        /\ sync'[y].pc = "idle" /\ TypeOK
      BY DEF SyncInv, TypeOK, Returns
  <2>2. Record(y) \/ Compare(y)
    <3>1. sync'[y] # sync[y] BY <2>1
    <3>2. ~UNCHANGED syncVars BY <3>1 DEF syncVars
    <3>3. ASSUME NEW v \in Syncers, SyncStep(v) PROVE v = y
      <4>1. PICK to : Becomes(v, to)
          BY <3>3 DEF SyncStep, Begin, Scan, Compare, Copy, Fail, Record, Continue
      <4> QED BY <2>1, <3>1, <4>1 DEF Becomes, TypeOK
    <3>4. ~SyncRestart BY DEF SyncRestart
    <3>5. SyncStep(y) BY <2>1, <3>1, <3>2, <3>3, <3>4
        DEF SyncNext, ProviderChanges, InputChanges, DirtyChanges
    <3>6. ~Fail(y) BY DEF Fail
    <3> QED BY <2>1, <3>5, <3>6 DEF SyncStep, Begin, Scan, Copy, PassAt
  <2>3. /\ pass \in Passes /\ s \in pass.left /\ s \in Sources
        /\ Found(pass.seen) \in SUBSET Sources /\ pass.place \in Places
      BY <2>1, OnSource
  <2>4. Kept(pass, provider, input, entries, dirty) BY DEF SyncInv
  <2>5. /\ Continue(y, Skipped(pass))
        /\ \/ pass.pc = "record" /\ entries' = [entries EXCEPT ![s] = pass.row]
           \/ pass.pc = "compare" /\ Known(Entry(pass, s), s) /\ entries' = entries
    <3>1. CASE Record(y) BY <3>1 DEF Record, PassAt
    <3>2. CASE Compare(y)
      <4> DEFINE entry == Entry(pass, s)
                 to == IF entry.status = "copied" THEN "copy" ELSE "record"
                 next == [pass EXCEPT !.pc = to, !.row = entry]
      <4>1. next.pc = to BY <2>3 DEF Passes
      <4>2. to # "idle" OBVIOUS
      <4>3. Becomes(y, next) \/ (Known(entry, s) /\ Continue(y, Skipped(pass)))
          BY <3>2 DEF Compare
      <4> HIDE DEF next, to
      <4>4. ~Becomes(y, next) BY <2>1, <4>1, <4>2 DEF Becomes, TypeOK
      <4> QED BY <3>2, <4>3, <4>4 DEF Compare, PassAt
    <3> QED BY <2>2, <3>1, <3>2
  <2>6. pass.left = {s}
    <3>1. Skipped(pass).left = pass.left \ {s}
        BY <2>3 DEF Skipped, Passes
    <3>2. CASE Skipped(pass).left # {}
      <4>1. sync'[y] = [Skipped(pass) EXCEPT !.pc = "compare"]
          BY <2>1, <2>5, <3>2 DEF Continue, Becomes, TypeOK
      <4>2. sync'[y].pc = "compare"
          BY <2>3, <4>1 DEF Skipped, Passes
      <4> QED BY <2>1, <4>2
    <3> QED BY <2>3, <3>1, <3>2
  <2>7. Tells(entries'[s], pass, s, input[pass.place], dirty)
        /\ \A t \in Sources \ {s} : entries'[t] = entries[t]
    <3>1. CASE pass.pc = "record" /\ entries' = [entries EXCEPT ![s] = pass.row]
      <4>1. Tells(pass.row, pass, s, input[pass.place], dirty) BY <2>4, <3>1 DEF Kept
      <4> QED BY <2>1, <2>3, <3>1, <4>1 DEF TypeOK
    <3>2. CASE pass.pc = "compare" /\ Known(Entry(pass, s), s) /\ entries' = entries
        BY <3>2, KnownTells
    <3> QED BY <2>5, <3>1, <3>2
  <2>8. ASSUME NEW t \in Found(pass.seen)
        PROVE  Tells(entries'[t], pass, t, input[pass.place], dirty)
    <3>1. CASE t = s BY <2>7, <3>1
    <3>2. CASE t # s
      <4>1. Tells(entries[t], pass, t, input[pass.place], dirty)
          BY <2>1, <2>4, <2>6, <3>2 DEF Kept
      <4> QED BY <2>3, <2>7, <3>2, <4>1
    <3> QED BY <3>1, <3>2
  <2> QED BY <2>8 DEF Tells
<1> QED BY <1>1, SyncInvariance, PTL DEF SyncSpec, QuietPassSettles

-----------------------------------------------------------------------------
(* SourceIntake *)

(* The states the program can be in. *)
Stations == {"idle", "create", "advance", "work", "drop", "handle", "write", "end"}

Statuses == {"absent", "quarantined", "restored"}

Stored == [content : Contents, name : Names]

Job == [content : Contents, name : Names, stage : Stages, attempts : Nat,
        captured : Contents \union {none}, approved : BOOLEAN, note : BOOLEAN]

(* A thread's "code" is a content that is submitted, an error, or what is restored. *)
Codes == Contents \union Stored \union Faults
           \union {none, "source_not_stable", "job_store_busy", "illegal_job_transition"}

Hands == [pc : Stations, name : Names \union {none}, job : Nat, id : Ids \union {0},
           code : Codes, snapshot : [Ids -> Statuses] \union {none}, moved : BOOLEAN]

IsHistory(h) ==
  h \in [given : SUBSET Contents, left : {h.left}, raced : SUBSET Contents, disturbed : BOOLEAN,
         legacy : BOOLEAN]

Types ==
  /\ inbox \in [Names -> Contents \union {none}]
  /\ jobs \in Seq(Job)
  /\ stored \in [Ids -> Stored \union {none}]
  /\ manifest \in [Ids -> Statuses]
  /\ output \in [Names -> Contents \union {none}]
  /\ thread \in [Threads -> Hands]
  /\ IsHistory(history)

(* What each thread has in hand. A person only restores. *)
Handles(t) ==
  /\ thread[t].pc = "create" => thread[t].code \in Contents
  /\ thread[t].pc = "write" => thread[t].snapshot \in [Ids -> Statuses]
  /\ thread[t].job \in 0 .. Len(jobs)
  /\ thread[t].pc \in {"advance", "work", "drop"} => thread[t].job # 0
  /\ thread[t].id # 0 => thread[t].pc = "write"
  /\ t = "person" =>
       /\ thread[t].pc \in {"idle", "write"} /\ thread[t].name = none
       /\ thread[t].pc = "write" => thread[t].id # 0 /\ thread[t].code \in Stored
  /\ t # "person" => (thread[t].pc = "idle" <=> thread[t].name = none)
  /\ thread[t].pc = "drop" => jobs[thread[t].job].stage = "completed"

(* A quarantine id is in the hands of one thread at a time, and no other thread
   has read of an item that is still being moved into the quarantine. *)
OneHolder == \A t, u \in Threads : thread[t].id = thread[u].id /\ thread[t].id # 0 => t = u

BeingMoved ==
  \A t \in Threads \ {"person"} : thread[t].id # 0 =>
    /\ stored[thread[t].id] # none /\ manifest[thread[t].id] = "absent"
    /\ \A u \in Threads : At(u, "write") => thread[u].snapshot[thread[t].id] = "absent"

BeingRestored ==
  At("person", "write") =>
    /\ stored[thread["person"].id] = none
    /\ output[thread["person"].code.name] = thread["person"].code.content
    /\ history.disturbed \/ manifest[thread["person"].id] = "quarantined"

(* Of the jobs of a content nobody raced for, only the newest is not over. *)
Over == {"failed", "cancelled", "skipped"} \union (IF Legacy THEN {} ELSE {"completed"})

OnlyTheNewest ==
  \A c \in Contents \ history.raced : \A j, k \in JobsOf(c) : j < k => jobs[j].stage \in Over

Captured ==
  \A j \in DOMAIN jobs :
    /\ jobs[j].stage \in {"extracted", "saved_clean", "completed"} => jobs[j].captured # none
    /\ jobs[j].stage = "completed" => jobs[j].note

IntakeInv ==
  /\ Types /\ \A t \in Threads : Handles(t)
  /\ OneHolder /\ BeingMoved /\ BeingRestored /\ RecordsAreTrue
  /\ Captured /\ OnlyTheNewest

(* Where nobody replaces a file that is being processed: a content has one name, *)
Movers == {t \in Threads \ {"person"} : thread[t].id # 0}

Tied(c, n) ==
  \/ inbox[n] = c
  \/ \E j \in DOMAIN jobs : jobs[j].content = c /\ jobs[j].name = n
  \/ \E t \in Threads : At(t, "create") /\ thread[t].code = c /\ thread[t].name = n
  \/ \E t \in Movers : stored[thread[t].id].content = c /\ thread[t].name = n

AllGiven == \A c \in Contents, n \in Names : Tied(c, n) => c \in history.given

OneHome == \A c \in Contents, m, n \in Names : Tied(c, m) /\ Tied(c, n) => m = n

(* and what is done about a name is done about one content. *)
About(n, c) ==
  \/ inbox[n] = c
  \/ \E j \in DOMAIN jobs : Active(j) /\ jobs[j].name = n /\ jobs[j].captured = c
  \/ \E t \in Movers : thread[t].name = n /\ stored[thread[t].id].content = c
  \/ \E t \in Threads : At(t, "drop") /\ thread[t].name = n /\ jobs[thread[t].job].captured = c

OneConcern == \A n \in Names, c, d \in Contents : About(n, c) /\ About(n, d) => c = d

SameName ==
  \A t \in Threads \ {"person"} :
    thread[t].job # 0 => jobs[thread[t].job].name = thread[t].name

OneMover ==
  \A t \in Movers : /\ inbox[thread[t].name] = none
                    /\ \A u \in Movers : thread[u].name = thread[t].name => u = t

Safe == AllGiven /\ OneHome /\ OneConcern /\ SameName /\ OneMover /\ NothingLost

-----------------------------------------------------------------------------
(* What a step does to the threads and to the jobs. *)

Has(r, pc, name, job, id, code, snapshot, moved) ==
  /\ r \in Hands
  /\ r.pc = pc /\ r.name = name /\ r.job = job /\ r.id = id
  /\ r.code = code /\ r.snapshot = snapshot /\ r.moved = moved

(* Only thread t moves. *)
Alone(t) == thread' \in [Threads -> Hands] /\ \A u \in Threads \ {t} : thread'[u] = thread[u]

NowHas(t, pc, name, job, id, code, snapshot, moved) ==
  Alone(t) /\ Has(thread'[t], pc, name, job, id, code, snapshot, moved)

LEMMA TurnsTo ==
  ASSUME Types, NEW t \in Threads, NEW r, Turns(t, r), NEW pc, NEW name, NEW job, NEW id,
         NEW code, NEW snapshot, NEW moved, Has(r, pc, name, job, id, code, snapshot, moved)
  PROVE  NowHas(t, pc, name, job, id, code, snapshot, moved)
BY DEF Types, Turns, NowHas, Alone, Has

LEMMA RestingHas == Has(Resting, "idle", none, 0, 0, none, none, FALSE)
<1>1. Resting \in Hands BY DEF Resting, Hands, Stations, Codes
<1> QED BY <1>1 DEF Resting, Has

LEMMA GotoHas ==
  ASSUME NEW r \in Hands, NEW pc \in Stations
  PROVE  Has([r EXCEPT !.pc = pc], pc, r.name, r.job, r.id, r.code, r.snapshot, r.moved)
<1> DEFINE h == [r EXCEPT !.pc = pc]
<1>1. h \in Hands BY ZenonT(30) DEF Hands
<1>2. /\ h.pc = pc /\ h.name = r.name /\ h.job = r.job /\ h.id = r.id /\ h.code = r.code
      /\ h.snapshot = r.snapshot /\ h.moved = r.moved
    BY DEF Hands
<1> QED BY <1>1, <1>2 DEF Has

LEMMA CodeHas ==
  ASSUME NEW r \in Hands, NEW pc \in Stations, NEW code \in Codes
  PROVE  Has([r EXCEPT !.pc = pc, !.code = code],
             pc, r.name, r.job, r.id, code, r.snapshot, r.moved)
<1> DEFINE h == [r EXCEPT !.pc = pc, !.code = code]
<1>1. h \in Hands BY ZenonT(30) DEF Hands
<1>2. /\ h.pc = pc /\ h.name = r.name /\ h.job = r.job /\ h.id = r.id /\ h.code = code
      /\ h.snapshot = r.snapshot /\ h.moved = r.moved
    BY DEF Hands
<1> QED BY <1>1, <1>2 DEF Has

LEMMA JobHas ==
  ASSUME NEW r \in Hands, NEW pc \in Stations, NEW job \in Nat, NEW code \in Codes
  PROVE  Has([r EXCEPT !.pc = pc, !.job = job, !.code = code],
             pc, r.name, job, r.id, code, r.snapshot, r.moved)
<1> DEFINE h == [r EXCEPT !.pc = pc, !.job = job, !.code = code]
<1>1. h \in Hands BY ZenonT(30) DEF Hands
<1>2. /\ h.pc = pc /\ h.name = r.name /\ h.job = job /\ h.id = r.id /\ h.code = code
      /\ h.snapshot = r.snapshot /\ h.moved = r.moved
    BY DEF Hands
<1> QED BY <1>1, <1>2 DEF Has

LEMMA CreateHas ==
  ASSUME NEW n \in Names, NEW code \in Codes
  PROVE  Has([[Resting EXCEPT !.name = n] EXCEPT !.pc = "create", !.code = code],
             "create", n, 0, 0, code, none, FALSE)
<1> DEFINE h == [[Resting EXCEPT !.name = n] EXCEPT !.pc = "create", !.code = code]
<1>1. h \in Hands BY RestingHas, ZenonT(30) DEF Hands, Has, Stations
<1>2. /\ h.pc = "create" /\ h.name = n /\ h.job = 0 /\ h.id = 0 /\ h.code = code
      /\ h.snapshot = none /\ h.moved = FALSE
    BY DEF Resting
<1> QED BY <1>1, <1>2 DEF Has

LEMMA WorkHas ==
  ASSUME NEW n \in Names, NEW job \in Nat
  PROVE  /\ Has([[Resting EXCEPT !.name = n] EXCEPT !.pc = "work", !.job = job],
                "work", n, job, 0, none, none, FALSE)
         /\ Has([Resting EXCEPT !.pc = "work", !.job = job, !.name = n],
                "work", n, job, 0, none, none, FALSE)
<1> DEFINE h == [[Resting EXCEPT !.name = n] EXCEPT !.pc = "work", !.job = job]
           k == [Resting EXCEPT !.pc = "work", !.job = job, !.name = n]
<1>1. h \in Hands BY RestingHas, ZenonT(30) DEF Hands, Has, Stations
<1>2. k \in Hands BY RestingHas, ZenonT(30) DEF Hands, Has, Stations
<1>3. /\ h.pc = "work" /\ h.name = n /\ h.job = job /\ h.id = 0 /\ h.code = none
      /\ h.snapshot = none /\ h.moved = FALSE
    BY DEF Resting
<1>4. /\ k.pc = "work" /\ k.name = n /\ k.job = job /\ k.id = 0 /\ k.code = none
      /\ k.snapshot = none /\ k.moved = FALSE
    BY DEF Resting
<1> QED BY <1>1, <1>2, <1>3, <1>4 DEF Has

LEMMA MoveHas ==
  ASSUME NEW r \in Hands, NEW id \in Ids \union {0},
         NEW snapshot \in [Ids -> Statuses] \union {none}
  PROVE  /\ Has([r EXCEPT !.pc = "write", !.snapshot = snapshot],
                "write", r.name, r.job, r.id, r.code, snapshot, r.moved)
         /\ Has([r EXCEPT !.pc = "write", !.snapshot = snapshot, !.id = id, !.moved = TRUE],
                "write", r.name, r.job, id, r.code, snapshot, TRUE)
<1> DEFINE h == [r EXCEPT !.pc = "write", !.snapshot = snapshot]
           k == [r EXCEPT !.pc = "write", !.snapshot = snapshot, !.id = id, !.moved = TRUE]
<1>1. h \in Hands BY ZenonT(30) DEF Hands, Stations
<1>2. k \in Hands BY ZenonT(30) DEF Hands, Stations
<1>3. /\ h.pc = "write" /\ h.name = r.name /\ h.job = r.job /\ h.id = r.id /\ h.code = r.code
      /\ h.snapshot = snapshot /\ h.moved = r.moved
    BY DEF Hands
<1>4. /\ k.pc = "write" /\ k.name = r.name /\ k.job = r.job /\ k.id = id /\ k.code = r.code
      /\ k.snapshot = snapshot /\ k.moved = TRUE
    BY DEF Hands
<1> QED BY <1>1, <1>2, <1>3, <1>4 DEF Has

LEMMA EndHas ==
  ASSUME NEW r \in Hands
  PROVE  /\ Has([r EXCEPT !.pc = "end", !.id = 0, !.snapshot = none],
                "end", r.name, r.job, 0, r.code, none, r.moved)
         /\ Has([r EXCEPT !.pc = "end", !.moved = FALSE, !.id = 0, !.snapshot = none],
                "end", r.name, r.job, 0, r.code, none, FALSE)
<1> DEFINE h == [r EXCEPT !.pc = "end", !.id = 0, !.snapshot = none]
           k == [r EXCEPT !.pc = "end", !.moved = FALSE, !.id = 0, !.snapshot = none]
<1>1. h \in Hands BY ZenonT(30) DEF Hands, Stations
<1>2. k \in Hands BY ZenonT(30) DEF Hands, Stations
<1>3. /\ h.pc = "end" /\ h.name = r.name /\ h.job = r.job /\ h.id = 0 /\ h.code = r.code
      /\ h.snapshot = none /\ h.moved = r.moved
    BY DEF Hands
<1>4. /\ k.pc = "end" /\ k.name = r.name /\ k.job = r.job /\ k.id = 0 /\ k.code = r.code
      /\ k.snapshot = none /\ k.moved = FALSE
    BY DEF Hands
<1> QED BY <1>1, <1>2, <1>3, <1>4 DEF Has

LEMMA RestoreHas ==
  ASSUME NEW id \in Ids, NEW code \in Codes, NEW snapshot \in [Ids -> Statuses]
  PROVE  Has([Resting EXCEPT !.pc = "write", !.id = id, !.code = code, !.snapshot = snapshot],
             "write", none, 0, id, code, snapshot, FALSE)
<1> DEFINE h == [Resting EXCEPT !.pc = "write", !.id = id, !.code = code, !.snapshot = snapshot]
<1>1. h \in Hands BY RestingHas, ZenonT(30) DEF Hands, Has, Stations
<1>2. /\ h.pc = "write" /\ h.name = none /\ h.job = 0 /\ h.id = id /\ h.code = code
      /\ h.snapshot = snapshot /\ h.moved = FALSE
    BY DEF Resting
<1> QED BY <1>1, <1>2 DEF Has

-----------------------------------------------------------------------------
(* The rows of the jobs table. *)

Row(r, j, stage, captured, approved, note) ==
  /\ r \in Job /\ r.content = jobs[j].content /\ r.name = jobs[j].name
  /\ r.stage = stage /\ r.captured = captured /\ r.approved = approved /\ r.note = note

Same == jobs' \in Seq(Job) /\ Len(jobs') = Len(jobs)

JobBecomes(j, stage, captured, approved, note) ==
  /\ Same /\ j \in 1 .. Len(jobs) /\ Row(jobs'[j], j, stage, captured, approved, note)
  /\ \A k \in (1 .. Len(jobs)) \ {j} : jobs'[k] = jobs[k]

JobAppears(c, n) ==
  /\ jobs' \in Seq(Job) /\ Len(jobs') = Len(jobs) + 1
  /\ \A k \in 1 .. Len(jobs) : jobs'[k] = jobs[k]
  /\ LET r == jobs'[Len(jobs) + 1] IN
     r.content = c /\ r.name = n /\ r.stage = "discovered" /\ r.captured = none /\ ~r.note

LEMMA JobsTyped ==
  ASSUME Types
  PROVE  /\ Len(jobs) \in Nat /\ DOMAIN jobs = 1 .. Len(jobs)
         /\ \A j \in 1 .. Len(jobs) : jobs[j] \in Job
         /\ \A c : JobsOf(c) = {j \in 1 .. Len(jobs) : jobs[j].content = c}
BY DEF Types, JobsOf

LEMMA StagesKnown ==
  /\ {"discovered", "stabilized", "extracted", "saved_clean"} \subseteq ActiveStages
  /\ ActiveStages \subseteq Stages /\ TerminalStages \subseteq Stages
  /\ TerminalStages = {"failed", "quarantined", "cancelled", "skipped", "completed"}
  /\ ActiveStages \cap TerminalStages = {}
BY DEF ActiveStages, Stages, TerminalStages, TerminalFailure, NextStage

LEMMA SetJob ==
  ASSUME Types, NEW j \in 1 .. Len(jobs), NEW r, NEW stage, NEW captured, NEW approved, NEW note,
         Row(r, j, stage, captured, approved, note), jobs' = [jobs EXCEPT ![j] = r]
  PROVE  JobBecomes(j, stage, captured, approved, note)
<1>1. r \in Job BY DEF Row
<1>2. jobs \in Seq(Job) BY DEF Types
<1>3. jobs' \in Seq(Job) /\ Len(jobs') = Len(jobs) BY <1>1, <1>2
<1>4. jobs'[j] = r /\ \A k \in (1 .. Len(jobs)) \ {j} : jobs'[k] = jobs[k] BY <1>2
<1> QED BY <1>3, <1>4 DEF JobBecomes, Same

LEMMA AddJob ==
  ASSUME Types, NEW c \in Contents, NEW n \in Names, jobs' = Append(jobs, NewJob(c, n))
  PROVE  JobAppears(c, n)
<1>1. NewJob(c, n) \in Job BY StagesKnown DEF NewJob, Job
<1>2. jobs \in Seq(Job) BY DEF Types
<1>3. /\ jobs' \in Seq(Job) /\ Len(jobs') = Len(jobs) + 1
      /\ \A k \in 1 .. Len(jobs) : jobs'[k] = jobs[k]
      /\ jobs'[Len(jobs) + 1] = NewJob(c, n)
    BY <1>1, <1>2
<1> QED BY <1>3 DEF JobAppears, NewJob

LEMMA ClaimedIsJob ==
  ASSUME Types, NEW j \in 1 .. Len(jobs)
  PROVE  Row(Claimed(j), j, jobs[j].stage, jobs[j].captured, jobs[j].approved, jobs[j].note)
<1> DEFINE r == jobs[j]
           k == IF r.attempts < AttemptCap THEN r.attempts + 1 ELSE r.attempts
           h == [r EXCEPT !.attempts = k]
<1>1. r \in Job BY JobsTyped
<1>2. k \in Nat BY <1>1 DEF Job
<1> HIDE DEF k
<1>3. h \in Job BY <1>1, <1>2, ZenonT(30) DEF Job
<1>4. /\ h.content = r.content /\ h.name = r.name /\ h.stage = r.stage /\ h.captured = r.captured
      /\ h.approved = r.approved /\ h.note = r.note
    BY <1>1 DEF Job
<1>5. Claimed(j) = h BY DEF Claimed, k
<1> QED BY <1>3, <1>4, <1>5 DEF Row

LEMMA StageRow ==
  ASSUME NEW j, NEW r, NEW old, NEW captured, NEW approved, NEW note,
         Row(r, j, old, captured, approved, note), NEW stage \in Stages
  PROVE  Row([r EXCEPT !.stage = stage], j, stage, captured, approved, note)
<1> DEFINE h == [r EXCEPT !.stage = stage]
<1>1. r \in Job BY DEF Row
<1>2. h \in Job BY <1>1, ZenonT(30) DEF Job
<1>3. /\ h.content = r.content /\ h.name = r.name /\ h.stage = stage /\ h.captured = r.captured
      /\ h.approved = r.approved /\ h.note = r.note
    BY <1>1 DEF Job
<1> QED BY <1>2, <1>3 DEF Row

LEMMA CopyRow ==
  ASSUME NEW j, NEW r, NEW old, NEW before, NEW approved, NEW note,
         Row(r, j, old, before, approved, note), NEW captured \in Contents
  PROVE  Row([r EXCEPT !.stage = "extracted", !.captured = captured, !.approved = FALSE],
             j, "extracted", captured, FALSE, note)
<1> DEFINE h == [r EXCEPT !.stage = "extracted", !.captured = captured, !.approved = FALSE]
<1>1. r \in Job BY DEF Row
<1>2. "extracted" \in Stages BY StagesKnown
<1>3. h \in Job BY <1>1, <1>2, ZenonT(30) DEF Job
<1>4. /\ h.content = r.content /\ h.name = r.name /\ h.stage = "extracted" /\ h.captured = captured
      /\ h.approved = FALSE /\ h.note = r.note
    BY <1>1 DEF Job
<1> QED BY <1>3, <1>4 DEF Row

LEMMA ParkRow ==
  ASSUME NEW j, NEW r, NEW old, NEW captured, NEW approved, NEW note,
         Row(r, j, old, captured, approved, note)
  PROVE  Row([r EXCEPT !.stage = "saved_clean", !.approved = FALSE],
             j, "saved_clean", captured, FALSE, note)
<1> DEFINE h == [r EXCEPT !.stage = "saved_clean", !.approved = FALSE]
<1>1. r \in Job BY DEF Row
<1>2. "saved_clean" \in Stages BY StagesKnown
<1>3. h \in Job BY <1>1, <1>2, ZenonT(30) DEF Job
<1>4. /\ h.content = r.content /\ h.name = r.name /\ h.stage = "saved_clean"
      /\ h.captured = r.captured /\ h.approved = FALSE /\ h.note = r.note
    BY <1>1 DEF Job
<1> QED BY <1>3, <1>4 DEF Row

LEMMA CompleteRow ==
  ASSUME NEW j, NEW r, NEW old, NEW captured, NEW approved, NEW before,
         Row(r, j, old, captured, approved, before)
  PROVE  Row([r EXCEPT !.stage = "completed", !.note = TRUE],
             j, "completed", captured, approved, TRUE)
<1> DEFINE h == [r EXCEPT !.stage = "completed", !.note = TRUE]
<1>1. r \in Job BY DEF Row
<1>2. "completed" \in Stages BY StagesKnown
<1>3. h \in Job BY <1>1, <1>2, ZenonT(30) DEF Job
<1>4. /\ h.content = r.content /\ h.name = r.name /\ h.stage = "completed" /\ h.note = TRUE
      /\ h.captured = r.captured /\ h.approved = r.approved
    BY <1>1 DEF Job
<1> QED BY <1>3, <1>4 DEF Row

LEMMA ApproveRow ==
  ASSUME Types, NEW j \in 1 .. Len(jobs)
  PROVE  Row([jobs[j] EXCEPT !.approved = TRUE], j, jobs[j].stage, jobs[j].captured, TRUE,
             jobs[j].note)
<1> DEFINE r == jobs[j]
           h == [r EXCEPT !.approved = TRUE]
<1>1. r \in Job BY JobsTyped
<1>2. h \in Job BY <1>1, ZenonT(30) DEF Job
<1>3. /\ h.content = r.content /\ h.name = r.name /\ h.stage = r.stage /\ h.captured = r.captured
      /\ h.approved = TRUE /\ h.note = r.note
    BY <1>1 DEF Job
<1> QED BY <1>2, <1>3 DEF Row

LEMMA ItsRow ==
  ASSUME Types, NEW j \in 1 .. Len(jobs)
  PROVE  Row(jobs[j], j, jobs[j].stage, jobs[j].captured, jobs[j].approved, jobs[j].note)
BY JobsTyped DEF Row

(* A job that is over stays as it is, and no job changes its content or its name. *)
Grows ==
  /\ jobs' \in Seq(Job) /\ Len(jobs') \in Nat /\ Len(jobs) <= Len(jobs')
  /\ \A j \in 1 .. Len(jobs) :
       /\ jobs'[j].content = jobs[j].content /\ jobs'[j].name = jobs[j].name
       /\ jobs[j].stage \in TerminalStages => jobs'[j] = jobs[j]

-----------------------------------------------------------------------------
(* What each action does. *)

Inboxes == [Names -> Contents \union {none}]

(* The history keeps its type and the setting, and its verdict on the manifest. *)
Keeps(h) == IsHistory(h) /\ h.legacy = history.legacy

Remembers == Keeps(history') /\ history'.disturbed = history.disturbed

LEMMA HistoryKept ==
  ASSUME Types
  PROVE  /\ \A left : LET h == [history EXCEPT !.left = left] IN
              /\ Keeps(h) /\ h.given = history.given /\ h.raced = history.raced
              /\ h.disturbed = history.disturbed
         /\ \A raced \in SUBSET Contents : LET h == [history EXCEPT !.raced = raced] IN
              /\ Keeps(h) /\ h.given = history.given /\ h.raced = raced
              /\ h.disturbed = history.disturbed
         /\ \A b \in BOOLEAN : LET h == [history EXCEPT !.disturbed = b] IN
              /\ Keeps(h) /\ h.given = history.given /\ h.raced = history.raced
              /\ h.disturbed = b
         /\ \A left, given : given \in SUBSET Contents =>
              LET h == [history EXCEPT !.left = left, !.given = given] IN
              /\ Keeps(h) /\ h.given = given /\ h.raced = history.raced
              /\ h.disturbed = history.disturbed
         /\ \A left : \A b \in BOOLEAN :
              LET h == [history EXCEPT !.left = left, !.disturbed = b] IN
              /\ Keeps(h) /\ h.given = history.given /\ h.raced = history.raced
              /\ h.disturbed = b
<1>1. history \in [given : SUBSET Contents, left : {history.left}, raced : SUBSET Contents,
                   disturbed : BOOLEAN, legacy : BOOLEAN]
    BY DEF Types, IsHistory
<1> QED BY <1>1 DEF IsHistory, Keeps

LEMMA NewestExists ==
  ASSUME NEW T, T \subseteq Nat, T # {}, NEW top \in Nat, \A j \in T : j <= top
  PROVE  \E j \in T : \A k \in T : k <= j
<1> DEFINE U == {x \in Nat : \E j \in T : x = top - j}
<1>1. U \subseteq Nat /\ U # {}
  <2>1. PICK j \in T : TRUE OBVIOUS
  <2>2. top - j \in Nat BY <2>1
  <2> QED BY <2>2
<1>2. PICK x \in U : \A y \in U : x <= y BY <1>1, NatMinimum
<1>3. PICK j \in T : x = top - j BY <1>2
<1>4. \A k \in T : top - k \in U OBVIOUS
<1>5. \A k \in T : top - j <= top - k BY <1>2, <1>3, <1>4
<1> QED BY <1>5

(* The newest job of a content, unless there is none or it is over. *)
LEMMA ReusableIsNewest ==
  ASSUME Types, NEW c
  PROVE  /\ Reusable(c) # 0 => Reusable(c) \in JobsOf(c)
         /\ Reusable(c) = 0 => \A j \in JobsOf(c) : (\A k \in JobsOf(c) : k <= j) =>
              ~Active(j) /\ jobs[j].stage # "quarantined"
              /\ (Legacy /\ jobs[j].stage = "completed" => ~jobs[j].note)
<1> DEFINE top == CHOOSE j \in JobsOf(c) \union {0} : \A k \in JobsOf(c) : k <= j
<1>1. JobsOf(c) \subseteq 1 .. Len(jobs) /\ Len(jobs) \in Nat BY JobsTyped
<1>2. \E j \in JobsOf(c) \union {0} : \A k \in JobsOf(c) : k <= j
  <2>1. CASE JobsOf(c) = {} BY <2>1
  <2>2. CASE JobsOf(c) # {}
    <3>1. JobsOf(c) \subseteq Nat /\ \A j \in JobsOf(c) : j <= Len(jobs) BY <1>1
    <3> QED BY <1>1, <2>2, <3>1, NewestExists
  <2> QED BY <2>1, <2>2
<1>3. top \in JobsOf(c) \union {0} /\ \A k \in JobsOf(c) : k <= top BY <1>2
<1>6. Reusable(c) = IF top = 0 THEN 0
        ELSE IF Active(top) \/ jobs[top].stage = "quarantined"
                \/ (Legacy /\ jobs[top].stage = "completed" /\ jobs[top].note)
             THEN top ELSE 0
    BY DEF Reusable
<1> HIDE DEF top
<1>4. \A j \in JobsOf(c) : (\A k \in JobsOf(c) : k <= j) => j = top
  <2>1. SUFFICES ASSUME NEW j \in JobsOf(c), \A k \in JobsOf(c) : k <= j PROVE j = top
      OBVIOUS
  <2>2. j <= top /\ j \in Nat /\ j # 0 BY <1>1, <1>3, <2>1
  <2>3. top \in JobsOf(c) BY <1>1, <1>3, <2>2
  <2>4. top <= j /\ top \in Nat BY <1>1, <2>1, <2>3
  <2> QED BY <2>2, <2>4
<1>5. 0 \notin JobsOf(c) BY <1>1
<1> QED BY <1>3, <1>4, <1>5, <1>6

SubmitEffect(t, n) ==
  /\ t # "person" /\ At(t, "idle") /\ inbox[n] # none
  /\ \/ Reusable(inbox[n]) = 0 /\ NowHas(t, "create", n, 0, 0, inbox[n], none, FALSE)
     \/ /\ Reusable(inbox[n]) \in JobsOf(inbox[n])
        /\ NowHas(t, "work", n, Reusable(inbox[n]), 0, none, none, FALSE)
  /\ Remembers /\ history'.given = history.given /\ history'.raced = history.raced
  /\ UNCHANGED <<inbox, jobs, stored, manifest, output>>

LEMMA SubmitDoes ==
  ASSUME Types, NEW t \in Threads, NEW n \in Names, Submit(t, n)
  PROVE  SubmitEffect(t, n)
<1> DEFINE here == [Resting EXCEPT !.name = n]
           found == Reusable(inbox[n])
<1>1. /\ t # "person" /\ At(t, "idle") /\ inbox[n] # none
      /\ UNCHANGED <<inbox, jobs, stored, manifest, output>>
      /\ history' = [history EXCEPT !.left.clicks = IF t \in Consoles THEN @ - 1 ELSE @]
    BY DEF Submit
<1>2. Remembers /\ history'.given = history.given /\ history'.raced = history.raced
  <2> DEFINE left == [history.left EXCEPT !.clicks = IF t \in Consoles THEN @ - 1 ELSE @]
  <2>1. history' = [history EXCEPT !.left = left] BY <1>1, Zenon
  <2> HIDE DEF left
  <2> QED BY <2>1, HistoryKept, Zenon DEF Remembers
<1>3. inbox[n] \in Codes BY <1>1 DEF Types, Codes
<1>4. \/ found = 0 /\ Turns(t, [here EXCEPT !.pc = "create", !.code = inbox[n]])
      \/ found # 0 /\ Turns(t, [here EXCEPT !.pc = "work", !.job = found])
    BY DEF Submit
<1>5. ASSUME found = 0, Turns(t, [here EXCEPT !.pc = "create", !.code = inbox[n]])
      PROVE  NowHas(t, "create", n, 0, 0, inbox[n], none, FALSE)
    BY <1>3, <1>5, CreateHas, TurnsTo
<1>6. ASSUME found # 0, Turns(t, [here EXCEPT !.pc = "work", !.job = found])
      PROVE  found \in JobsOf(inbox[n]) /\ NowHas(t, "work", n, found, 0, none, none, FALSE)
  <2>1. found \in JobsOf(inbox[n]) BY <1>6, ReusableIsNewest
  <2>2. found \in Nat BY <2>1, JobsTyped
  <2> QED BY <1>6, <2>1, <2>2, WorkHas, TurnsTo
<1> QED BY <1>1, <1>2, <1>4, <1>5, <1>6 DEF SubmitEffect

(* Nothing of the quarantine and of the history moves. *)
Rest == UNCHANGED <<stored, manifest, output, history>>

Stops(t) == NowHas(t, "idle", none, 0, 0, none, none, FALSE)

LEMMA DoneStops ==
  ASSUME Types, NEW t \in Threads, Done(t) PROVE Stops(t)
BY RestingHas, TurnsTo DEF Done, Stops

Onward(t, pc) ==
  NowHas(t, pc, thread[t].name, thread[t].job, thread[t].id, thread[t].code,
          thread[t].snapshot, thread[t].moved)

LEMMA GotoGoesOn ==
  ASSUME Types, NEW t \in Threads, NEW pc \in Stations, Goto(t, pc) PROVE Onward(t, pc)
<1>1. thread[t] \in Hands BY DEF Types
<1> QED BY <1>1, GotoHas, TurnsTo DEF Goto, Onward

ToHandle(t, code) ==
  NowHas(t, "handle", thread[t].name, 0, thread[t].id, code, thread[t].snapshot,
          thread[t].moved)

LEMMA TurnsToHandle ==
  ASSUME Types, NEW t \in Threads, NEW code \in Codes,
         Turns(t, [thread[t] EXCEPT !.pc = "handle", !.job = 0, !.code = code])
  PROVE  ToHandle(t, code)
<1>1. thread[t] \in Hands /\ "handle" \in Stations BY DEF Types, Stations
<1> QED BY <1>1, JobHas, TurnsTo DEF ToHandle

LEMMA SubmitFailsDoes ==
  ASSUME Types, NEW t \in Threads, SubmitFails(t)
  PROVE  /\ t # "person" /\ thread[t].pc \in {"create", "advance"}
         /\ ToHandle(t, "job_store_busy") \/ Stops(t)
         /\ Rest /\ UNCHANGED <<inbox, jobs>>
<1>1. "job_store_busy" \in Codes BY DEF Codes
<1>2. ToHandle(t, "job_store_busy") \/ Stops(t)
    BY <1>1, TurnsToHandle, DoneStops DEF SubmitFails
<1> QED BY <1>2 DEF SubmitFails, Rest

LEMMA CreateDoes ==
  ASSUME Types, NEW t \in Threads, thread[t].code \in Contents, thread[t].name \in Names, Create(t)
  PROVE  /\ At(t, "create")
         /\ \/ /\ JobAppears(thread[t].code, thread[t].name)
               /\ NowHas(t, "advance", thread[t].name, Len(jobs) + 1, thread[t].id, none,
                          thread[t].snapshot, thread[t].moved)
               /\ history'.raced = IF Reusable(thread[t].code) = 0 THEN history.raced
                                   ELSE history.raced \union {thread[t].code}
            \/ Stops(t) /\ UNCHANGED <<jobs, history>>
         /\ Remembers /\ history'.given = history.given
         /\ UNCHANGED <<inbox, stored, manifest, output>>
<1> DEFINE c == thread[t].code
           raced == IF Reusable(c) = 0 THEN history.raced ELSE history.raced \union {c}
<1>1. /\ At(t, "create")
      /\ UNCHANGED <<inbox, stored, manifest, output>>
      /\ \/ /\ jobs' = Append(jobs, NewJob(c, thread[t].name))
            /\ Turns(t, [thread[t] EXCEPT !.pc = "advance", !.job = Len(jobs) + 1, !.code = none])
            /\ history' = [history EXCEPT !.raced = raced]
         \/ Done(t) /\ UNCHANGED <<jobs, history>>
    BY DEF Create
<1>2. CASE Done(t) /\ UNCHANGED <<jobs, history>>
  <2>1. Remembers BY <1>2 DEF Types, Remembers, Keeps
  <2> QED BY <1>1, <1>2, <2>1, DoneStops
<1>3. CASE /\ jobs' = Append(jobs, NewJob(c, thread[t].name))
           /\ Turns(t, [thread[t] EXCEPT !.pc = "advance", !.job = Len(jobs) + 1, !.code = none])
           /\ history' = [history EXCEPT !.raced = raced]
  <2>1. raced \in SUBSET Contents BY DEF Types, IsHistory
  <2>2. Remembers /\ history'.given = history.given /\ history'.raced = raced
    <3> HIDE DEF raced
    <3> QED BY <1>3, <2>1, HistoryKept DEF Remembers
  <2>3. JobAppears(c, thread[t].name) BY <1>3, AddJob
  <2>4. /\ thread[t] \in Hands /\ "advance" \in Stations /\ none \in Codes
        /\ Len(jobs) + 1 \in Nat
      BY JobsTyped DEF Types, Stations, Codes
  <2>5. NowHas(t, "advance", thread[t].name, Len(jobs) + 1, thread[t].id, none,
                thread[t].snapshot, thread[t].moved)
      BY <1>3, <2>4, JobHas, TurnsTo
  <2> QED BY <1>1, <2>2, <2>3, <2>5
<1> QED BY <1>1, <1>2, <1>3

LEMMA AdvanceDoes ==
  ASSUME Types, NEW t \in Threads, thread[t].job \in 1 .. Len(jobs), Advance(t)
  PROVE  LET j == thread[t].job IN
         /\ At(t, "advance")
         /\ \/ /\ Active(j) /\ Onward(t, "work")
               /\ \/ JobBecomes(j, "stabilized", jobs[j].captured, jobs[j].approved, jobs[j].note)
                  \/ UNCHANGED jobs
            \/ UNCHANGED jobs /\ (ToHandle(t, "illegal_job_transition") \/ Stops(t))
         /\ Rest /\ UNCHANGED inbox
<1> DEFINE j == thread[t].job
<1>1. At(t, "advance") /\ Rest /\ UNCHANGED inbox BY DEF Advance, Rest
<1>2. "work" \in Stations /\ "illegal_job_transition" \in Codes BY DEF Stations, Codes
<1>3. CASE jobs[j].stage = "discovered" /\ Goto(t, "work")
           /\ jobs' = [jobs EXCEPT ![j].stage = "stabilized"]
  <2>1. Row([jobs[j] EXCEPT !.stage = "stabilized"], j, "stabilized", jobs[j].captured,
            jobs[j].approved, jobs[j].note)
      BY ItsRow, StageRow, StagesKnown
  <2>2. JobBecomes(j, "stabilized", jobs[j].captured, jobs[j].approved, jobs[j].note)
    <3>1. jobs' = [jobs EXCEPT ![j] = [jobs[j] EXCEPT !.stage = "stabilized"]] BY <1>3, Zenon
    <3> QED BY <2>1, <3>1, SetJob
  <2> QED BY <1>1, <1>2, <1>3, <2>2, GotoGoesOn, StagesKnown DEF Active
<1>4. CASE jobs[j].stage = "stabilized" /\ Goto(t, "work") /\ UNCHANGED jobs
    BY <1>1, <1>2, <1>4, GotoGoesOn, StagesKnown DEF Active
<1>5. CASE UNCHANGED jobs /\ (Done(t) \/ Turns(t, [thread[t] EXCEPT !.pc = "handle", !.job = 0,
                                                     !.code = "illegal_job_transition"]))
    BY <1>1, <1>2, <1>5, DoneStops, TurnsToHandle
<1> QED BY <1>3, <1>4, <1>5 DEF Advance

LEMMA ResumePendingDoes ==
  ASSUME Types, NEW t \in Pollers, ResumePending(t)
  PROVE  /\ t # "person" /\ t \in Threads /\ At(t, "idle") /\ Rest /\ UNCHANGED <<inbox, jobs>>
         /\ \E j \in 1 .. Len(jobs) :
              Active(j) /\ NowHas(t, "work", jobs[j].name, j, 0, none, none, FALSE)
<1>1. t # "person" /\ t \in Threads BY IntakeAssumption DEF Threads
<1>2. At(t, "idle") /\ Rest /\ UNCHANGED <<inbox, jobs>> BY DEF ResumePending, Rest
<1>3. PICK j \in DOMAIN jobs : WorthResuming(t, j)
        /\ Turns(t, [Resting EXCEPT !.pc = "work", !.job = j, !.name = jobs[j].name])
    BY DEF ResumePending
<1>4. j \in 1 .. Len(jobs) /\ j \in Nat /\ jobs[j].name \in Names
    BY JobsTyped DEF Job
<1>5. NowHas(t, "work", jobs[j].name, j, 0, none, none, FALSE)
    BY <1>1, <1>3, <1>4, WorkHas, TurnsTo
<1> QED BY <1>1, <1>2, <1>3, <1>4, <1>5 DEF WorthResuming

(* A run that goes one step on, and leaves the rest to the next one. *)
Onestep(t) == Stabilize(t) \/ Capture(t) \/ Park(t) \/ Wait(t) \/ Skip(t)

BecomesNext(j, stage, captured, approved) ==
  /\ JobBecomes(j, stage, captured, approved, jobs[j].note)
  /\ stage # "completed"
  /\ captured = jobs[j].captured \/ (captured = Bytes(j) /\ captured \in Contents)
  /\ stage \in {"extracted", "saved_clean"} => captured # none

LEMMA OnestepDoes ==
  ASSUME Types, Captured, NEW t \in Threads, thread[t].job \in 1 .. Len(jobs), Onestep(t)
  PROVE  LET j == thread[t].job IN
         /\ At(t, "work") /\ Active(j)
         /\ \E stage, captured, approved : BecomesNext(j, stage, captured, approved)
         /\ Stops(t) /\ Rest /\ UNCHANGED inbox
<1> DEFINE j == thread[t].job
           Goes == \E stage, captured, approved : BecomesNext(j, stage, captured, approved)
<1>1. At(t, "work") /\ Done(t) /\ Rest /\ UNCHANGED inbox
    BY DEF Onestep, Stabilize, Capture, Park, Wait, Skip, Ends, Rest
<1>2. Stops(t) BY <1>1, DoneStops
<1>3. Active(j)
    BY StagesKnown DEF Onestep, Stabilize, Capture, Park, Wait, Skip, Active
<1>4. /\ Row(Claimed(j), j, jobs[j].stage, jobs[j].captured, jobs[j].approved, jobs[j].note)
      /\ DOMAIN jobs = 1 .. Len(jobs)
    BY ClaimedIsJob, JobsTyped
<1>5. jobs[j].stage \in {"extracted", "saved_clean"} => jobs[j].captured # none
    BY <1>4 DEF Captured
<1>6. ASSUME Stabilize(t) PROVE Goes
  <2>1. jobs' = [jobs EXCEPT ![j] = [Claimed(j) EXCEPT !.stage = "stabilized"]]
      BY <1>6 DEF Stabilize, Ends
  <2>2. Row([Claimed(j) EXCEPT !.stage = "stabilized"], j, "stabilized", jobs[j].captured,
            jobs[j].approved, jobs[j].note)
      BY <1>4, StageRow, StagesKnown
  <2>3. JobBecomes(j, "stabilized", jobs[j].captured, jobs[j].approved, jobs[j].note)
      BY <2>1, <2>2, SetJob
  <2>4. BecomesNext(j, "stabilized", jobs[j].captured, jobs[j].approved)
      BY <2>3 DEF BecomesNext
  <2> QED BY <2>4
<1>7. ASSUME Capture(t) PROVE Goes
  <2>1. /\ Bytes(j) # none
        /\ jobs' = [jobs EXCEPT ![j] = [Claimed(j) EXCEPT !.stage = "extracted",
                                           !.captured = Bytes(j), !.approved = FALSE]]
      BY <1>7 DEF Capture, Ends
  <2>2. Bytes(j) \in Contents
    <3>1. jobs[j] \in Job BY JobsTyped
    <3>2. jobs[j].captured \in Contents \union {none} /\ jobs[j].name \in Names BY <3>1 DEF Job
    <3>3. inbox[jobs[j].name] \in Contents \union {none} BY <3>2 DEF Types
    <3> QED BY <2>1, <3>2, <3>3 DEF Bytes
  <2>3. Row([Claimed(j) EXCEPT !.stage = "extracted", !.captured = Bytes(j), !.approved = FALSE],
            j, "extracted", Bytes(j), FALSE, jobs[j].note)
      BY <1>4, <2>2, CopyRow
  <2>4. JobBecomes(j, "extracted", Bytes(j), FALSE, jobs[j].note) BY <2>1, <2>3, SetJob
  <2>5. BecomesNext(j, "extracted", Bytes(j), FALSE)
      BY <2>1, <2>2, <2>4 DEF BecomesNext
  <2> QED BY <2>5
<1>8. ASSUME Park(t) PROVE Goes
  <2>1. /\ jobs[j].stage = "extracted"
        /\ jobs' = [jobs EXCEPT ![j] = [Claimed(j) EXCEPT !.stage = "saved_clean",
                                           !.approved = FALSE]]
      BY <1>8 DEF Park, Ends
  <2>2. Row([Claimed(j) EXCEPT !.stage = "saved_clean", !.approved = FALSE],
            j, "saved_clean", jobs[j].captured, FALSE, jobs[j].note)
      BY <1>4, ParkRow
  <2>3. JobBecomes(j, "saved_clean", jobs[j].captured, FALSE, jobs[j].note)
      BY <2>1, <2>2, SetJob
  <2>4. BecomesNext(j, "saved_clean", jobs[j].captured, FALSE)
      BY <1>5, <2>1, <2>3 DEF BecomesNext
  <2> QED BY <2>4
<1>9. ASSUME Wait(t) PROVE Goes
  <2>1. jobs' = [jobs EXCEPT ![j] = Claimed(j)] BY <1>9 DEF Wait, Ends
  <2>2. JobBecomes(j, jobs[j].stage, jobs[j].captured, jobs[j].approved, jobs[j].note)
      BY <1>4, <2>1, SetJob
  <2>3. jobs[j].stage # "completed" BY <1>3, StagesKnown DEF Active
  <2>4. BecomesNext(j, jobs[j].stage, jobs[j].captured, jobs[j].approved)
      BY <1>5, <2>2, <2>3 DEF BecomesNext
  <2> QED BY <2>4
<1>10. ASSUME Skip(t) PROVE Goes
  <2>1. jobs' = [jobs EXCEPT ![j] = [Claimed(j) EXCEPT !.stage = "skipped"]]
      BY <1>10 DEF Skip, Ends
  <2>2. Row([Claimed(j) EXCEPT !.stage = "skipped"], j, "skipped", jobs[j].captured,
            jobs[j].approved, jobs[j].note)
      BY <1>4, StageRow, StagesKnown
  <2>3. JobBecomes(j, "skipped", jobs[j].captured, jobs[j].approved, jobs[j].note)
      BY <2>1, <2>2, SetJob
  <2>4. BecomesNext(j, "skipped", jobs[j].captured, jobs[j].approved)
      BY <2>3 DEF BecomesNext
  <2> QED BY <2>4
<1>11. Goes BY <1>6, <1>7, <1>8, <1>9, <1>10 DEF Onestep
<1> QED BY <1>1, <1>2, <1>3, <1>11

LEMMA NothingToDoDoes ==
  ASSUME Types, NEW t \in Threads, NothingToDo(t)
  PROVE  At(t, "work") /\ Stops(t) /\ Rest /\ UNCHANGED <<inbox, jobs>>
BY DoneStops DEF NothingToDo, Rest

LEMMA CompleteDoes ==
  ASSUME Types, NEW t \in Threads, thread[t].job \in 1 .. Len(jobs), Complete(t)
  PROVE  LET j == thread[t].job IN
         /\ At(t, "work") /\ jobs[j].stage = "saved_clean"
         /\ JobBecomes(j, "completed", jobs[j].captured, jobs[j].approved, TRUE)
         /\ Onward(t, "drop") \/ Stops(t)
         /\ Rest /\ UNCHANGED inbox
<1> DEFINE j == thread[t].job
           r == [Claimed(j) EXCEPT !.stage = "completed", !.note = TRUE]
<1>1. /\ At(t, "work") /\ Rest /\ UNCHANGED inbox
      /\ Goto(t, "drop") \/ Done(t)
      /\ jobs[j].stage = "saved_clean" /\ jobs' = [jobs EXCEPT ![j] = r]
    BY DEF Complete, Rest
<1>2. JobBecomes(j, "completed", jobs[j].captured, jobs[j].approved, TRUE)
  <2>1. Row(r, j, "completed", jobs[j].captured, jobs[j].approved, TRUE)
      BY ClaimedIsJob, CompleteRow
  <2> QED BY <1>1, <2>1, SetJob
<1>3. "drop" \in Stations BY DEF Stations
<1>4. Onward(t, "drop") \/ Stops(t) BY <1>1, <1>3, DoneStops, GotoGoesOn
<1> QED BY <1>1, <1>2, <1>4

LEMMA DeleteSourceDoes ==
  ASSUME Types, NEW t \in Threads, DeleteSource(t)
  PROVE  /\ At(t, "drop") /\ Stops(t) /\ Rest /\ UNCHANGED jobs
         /\ inbox' = [inbox EXCEPT ![jobs[thread[t].job].name] = none]
BY DoneStops DEF DeleteSource, Rest

LEMMA FaultDoes ==
  ASSUME Types, NEW t \in Threads, thread[t].job \in 1 .. Len(jobs), Fault(t)
  PROVE  LET j == thread[t].job IN
         /\ At(t, "work") /\ Active(j)
         /\ JobBecomes(j, jobs[j].stage, jobs[j].captured, jobs[j].approved, jobs[j].note)
         /\ \E code : NowHas(t, "handle", thread[t].name, thread[t].job, thread[t].id, code,
                              thread[t].snapshot, thread[t].moved)
         /\ Rest /\ UNCHANGED inbox
<1> DEFINE j == thread[t].job
<1>1. /\ At(t, "work") /\ Rest /\ UNCHANGED inbox /\ Active(j)
      /\ jobs' = [jobs EXCEPT ![j] = Claimed(j)]
    BY DEF Fault, Rest
<1>2. JobBecomes(j, jobs[j].stage, jobs[j].captured, jobs[j].approved, jobs[j].note)
    BY <1>1, ClaimedIsJob, SetJob
<1>3. PICK code \in Faults \union {"source_not_stable"} :
        Turns(t, [thread[t] EXCEPT !.pc = "handle", !.code = code])
    BY DEF Fault
<1>4. thread[t] \in Hands /\ "handle" \in Stations /\ code \in Codes
    BY DEF Types, Stations, Codes
<1>5. NowHas(t, "handle", thread[t].name, thread[t].job, thread[t].id, code,
              thread[t].snapshot, thread[t].moved)
    BY <1>3, <1>4, CodeHas, TurnsTo
<1> QED BY <1>1, <1>2, <1>5

(* The thread goes on with a snapshot of the manifest, and with an item or not. *)
Reads(t, id, moved) ==
  NowHas(t, "write", thread[t].name, thread[t].job, id, thread[t].code, manifest, moved)

LEMMA HandleFailureDoes ==
  ASSUME Types, NEW t \in Threads, SourceOf(t) \in Names, HandleFailure(t)
  PROVE  LET n == SourceOf(t) IN
         /\ At(t, "handle")
         /\ \/ Onward(t, "end") /\ UNCHANGED <<inbox, stored>>
            \/ Reads(t, thread[t].id, thread[t].moved) /\ UNCHANGED <<inbox, stored>>
            \/ \E i \in Ids :
                 /\ inbox[n] # none /\ New(i) /\ Reads(t, i, TRUE)
                 /\ stored' = [stored EXCEPT ![i] = [content |-> inbox[n], name |-> n]]
                 /\ inbox' = [inbox EXCEPT ![n] = none]
         /\ UNCHANGED <<jobs, manifest, output, history>>
<1> DEFINE n == SourceOf(t)
<1>1. /\ thread[t] \in Hands /\ manifest \in [Ids -> Statuses] /\ "end" \in Stations
      /\ thread[t].id \in Ids \union {0}
    BY DEF Types, Stations, Hands
<1>2. At(t, "handle") /\ UNCHANGED <<jobs, manifest, output, history>> BY DEF HandleFailure
<1>3. CASE Goto(t, "end") /\ UNCHANGED <<inbox, stored>>
    BY <1>1, <1>2, <1>3, GotoGoesOn
<1>4. CASE /\ Turns(t, [thread[t] EXCEPT !.pc = "write", !.snapshot = manifest])
           /\ UNCHANGED <<inbox, stored>>
  <2>1. Reads(t, thread[t].id, thread[t].moved) BY <1>1, <1>4, MoveHas, TurnsTo DEF Reads
  <2> QED BY <1>2, <1>4, <2>1
<1>5. ASSUME NEW i \in Ids, inbox[n] # none, New(i),
             stored' = [stored EXCEPT ![i] = [content |-> inbox[n], name |-> n]],
             inbox' = [inbox EXCEPT ![n] = none],
             Turns(t, [thread[t] EXCEPT !.pc = "write", !.snapshot = manifest, !.id = i,
                                        !.moved = TRUE])
      PROVE  Reads(t, i, TRUE)
    BY <1>1, <1>5, MoveHas, TurnsTo DEF Reads
<1> QED BY <1>2, <1>3, <1>4, <1>5 DEF HandleFailure

(* The thread is done with the manifest. *)
Ended(t, moved) ==
  IF t = "person" THEN Stops(t)
  ELSE NowHas(t, "end", thread[t].name, thread[t].job, 0, thread[t].code, none, moved)

LEMMA WriteItemsDoes ==
  ASSUME Types, NEW t \in Threads, WriteItems(t)
  PROVE  /\ At(t, "write") /\ manifest' = WithItem(t) /\ Ended(t, thread[t].moved)
         /\ history'.disturbed = (history.disturbed \/ manifest # thread[t].snapshot)
         /\ Keeps(history') /\ history'.given = history.given
         /\ history'.raced = history.raced
         /\ UNCHANGED <<inbox, jobs, stored, output>>
<1> DEFINE b == history.disturbed \/ manifest # thread[t].snapshot
<1>1. Ended(t, thread[t].moved)
  <2>1. thread[t] \in Hands BY DEF Types
  <2> QED BY <2>1, EndHas, DoneStops, TurnsTo DEF WriteItems, Ended
<1>2. b \in BOOLEAN BY DEF Types, IsHistory
<1>3. history' = [history EXCEPT !.disturbed = b] BY DEF WriteItems
<1>4. /\ history'.disturbed = b /\ Keeps(history') /\ history'.given = history.given
      /\ history'.raced = history.raced
  <2> HIDE DEF b
  <2> QED BY <1>2, <1>3, HistoryKept
<1> QED BY <1>1, <1>4 DEF WriteItems

LEMMA WriteFailsDoes ==
  ASSUME Types, NEW t \in Threads, WriteFails(t)
  PROVE  LET i == thread[t].id IN
         /\ At(t, "write") /\ Ended(t, FALSE)
         /\ \/ i = 0 /\ UNCHANGED <<inbox, stored, output>>
            \/ /\ i # 0 /\ t = "person" /\ UNCHANGED inbox
               /\ stored' = [stored EXCEPT ![i] = thread[t].code]
               /\ output' = [output EXCEPT ![thread[t].code.name] = none]
            \/ /\ i # 0 /\ t # "person" /\ UNCHANGED output
               /\ inbox' = [inbox EXCEPT ![SourceOf(t)] = stored[i].content]
               /\ stored' = [stored EXCEPT ![i] = none]
         /\ UNCHANGED <<jobs, manifest, history>>
<1>1. thread[t] \in Hands BY DEF Types
<1>2. Ended(t, FALSE) BY <1>1, EndHas, DoneStops, TurnsTo DEF WriteFails, Ended
<1> QED BY <1>2 DEF WriteFails

LEMMA EndFailureDoes ==
  ASSUME Types, NEW t \in Threads, thread[t].job \in 0 .. Len(jobs), EndFailure(t)
  PROVE  LET j == thread[t].job IN
         /\ At(t, "end") /\ Stops(t) /\ Rest /\ UNCHANGED inbox
         /\ \/ UNCHANGED jobs
            \/ /\ j \in 1 .. Len(jobs) /\ Active(j)
               /\ \E stage \in {"quarantined", "failed"} :
                    JobBecomes(j, stage, jobs[j].captured, jobs[j].approved, jobs[j].note)
<1> DEFINE j == thread[t].job
           stage == IF thread[t].moved THEN "quarantined" ELSE "failed"
<1>1. At(t, "end") /\ Stops(t) /\ Rest /\ UNCHANGED inbox
    BY DoneStops DEF EndFailure, Ends, Rest
<1>2. CASE UNCHANGED jobs BY <1>1, <1>2
<1>3. CASE /\ j # 0 /\ Active(j)
           /\ jobs' = [jobs EXCEPT ![j] = [jobs[j] EXCEPT !.stage = stage]]
  <2>1. j \in 1 .. Len(jobs) BY <1>3, JobsTyped
  <2>2. stage \in {"quarantined", "failed"} /\ stage \in Stages BY StagesKnown
  <2>3. Row([jobs[j] EXCEPT !.stage = stage], j, stage, jobs[j].captured, jobs[j].approved,
            jobs[j].note)
      BY <2>1, <2>2, ItsRow, StageRow
  <2>4. JobBecomes(j, stage, jobs[j].captured, jobs[j].approved, jobs[j].note)
      BY <1>3, <2>1, <2>3, SetJob
  <2> QED BY <1>1, <1>3, <2>1, <2>2, <2>4
<1> QED BY <1>2, <1>3 DEF EndFailure, Ends

LEMMA RestoreDoes ==
  ASSUME Types, NEW i \in Ids, Restore(i)
  PROVE  /\ At("person", "idle") /\ manifest[i] = "quarantined" /\ stored[i] \in Stored
         /\ output' = [output EXCEPT ![stored[i].name] = stored[i].content]
         /\ stored' = [stored EXCEPT ![i] = none]
         /\ output[stored[i].name] = none
         /\ NowHas("person", "write", none, 0, i, stored[i], manifest, FALSE)
         /\ Remembers /\ history'.given = history.given /\ history'.raced = history.raced
         /\ UNCHANGED <<inbox, jobs, manifest>>
<1>1. stored[i] \in Stored /\ stored[i] \in Codes /\ manifest \in [Ids -> Statuses]
      /\ "person" \in Threads
    BY DEF Types, Restore, Codes, Threads
<1>2. NowHas("person", "write", none, 0, i, stored[i], manifest, FALSE)
  <2>1. Turns("person", [Resting EXCEPT !.pc = "write", !.id = i, !.code = stored[i],
                                        !.snapshot = manifest])
      BY DEF Restore
  <2> QED BY <1>1, <2>1, RestoreHas, TurnsTo
<1>3. Remembers /\ history'.given = history.given /\ history'.raced = history.raced
  <2> DEFINE left == [history.left EXCEPT !.restores = @ - 1]
  <2>1. history' = [history EXCEPT !.left = left] BY Zenon DEF Restore
  <2> HIDE DEF left
  <2> QED BY <2>1, HistoryKept, Zenon DEF Remembers
<1> QED BY <1>1, <1>2, <1>3 DEF Restore

LEMMA DropFileDoes ==
  ASSUME Types, NEW n \in Names, NEW c \in Contents, DropFile(n, c)
  PROVE  /\ c \notin history.given /\ inbox' = [inbox EXCEPT ![n] = c]
         /\ inbox[n] # none \/ Busy(n) => Replaces
         /\ history'.given = (IF \E k \in Names \ {n} : inbox[k] = inbox[n] THEN history.given
                              ELSE history.given \ {inbox[n]}) \union {c}
         /\ Remembers /\ history'.raced = history.raced
         /\ UNCHANGED <<jobs, stored, manifest, output, thread>>
<1> DEFINE left == [history.left EXCEPT !.drops = @ - 1]
           given == (IF \E k \in Names \ {n} : inbox[k] = inbox[n] THEN history.given
                     ELSE history.given \ {inbox[n]}) \union {c}
<1>1. given \in SUBSET Contents BY DEF Types, IsHistory
<1>2. history' = [history EXCEPT !.left = left, !.given = given] BY Zenon DEF DropFile
<1>3. Remembers /\ history'.given = given /\ history'.raced = history.raced
  <2> DEFINE h == [history EXCEPT !.left = left, !.given = given]
  <2> HIDE DEF left, given
  <2>1. Keeps(h) /\ h.given = given /\ h.raced = history.raced
        /\ h.disturbed = history.disturbed
      BY <1>1, HistoryKept
  <2> QED BY <1>2, <2>1, Zenon DEF Remembers
<1> QED BY <1>3 DEF DropFile

LEMMA PersonOnJobDoes ==
  ASSUME Types, NEW j \in 1 .. Len(jobs), Approve(j) \/ CancelJob(j)
  PROVE  /\ Active(j)
         /\ \/ \E approved :
                 JobBecomes(j, jobs[j].stage, jobs[j].captured, approved, jobs[j].note)
            \/ JobBecomes(j, "cancelled", jobs[j].captured, jobs[j].approved, jobs[j].note)
               /\ \A t \in Threads : thread[t].job # j
         /\ Rest /\ UNCHANGED <<inbox, thread>>
<1>1. CASE Approve(j)
  <2>1. jobs' = [jobs EXCEPT ![j] = [jobs[j] EXCEPT !.approved = TRUE]]
      BY <1>1, Zenon DEF Approve
  <2>2. JobBecomes(j, jobs[j].stage, jobs[j].captured, TRUE, jobs[j].note)
      BY <2>1, ApproveRow, SetJob
  <2> QED BY <1>1, <2>2, StagesKnown DEF Approve, Asks, Active, Rest
<1>2. CASE CancelJob(j)
  <2>1. jobs' = [jobs EXCEPT ![j] = [jobs[j] EXCEPT !.stage = "cancelled"]]
      BY <1>2, Zenon DEF CancelJob
  <2>2. Row([jobs[j] EXCEPT !.stage = "cancelled"], j, "cancelled", jobs[j].captured,
            jobs[j].approved, jobs[j].note)
      BY ItsRow, StageRow, StagesKnown
  <2>3. JobBecomes(j, "cancelled", jobs[j].captured, jobs[j].approved, jobs[j].note)
      BY <2>1, <2>2, SetJob
  <2> QED BY <1>2, <2>3 DEF CancelJob, Rest
<1> QED BY <1>1, <1>2

LEMMA RequeueSkippedDoes ==
  ASSUME Types, NEW j \in 1 .. Len(jobs), RequeueSkipped(j)
  PROVE  /\ jobs[j].stage = "skipped" /\ JobAppears(jobs[j].content, jobs[j].name)
         /\ history'.raced = IF Reusable(jobs[j].content) = 0 THEN history.raced
                             ELSE history.raced \union {jobs[j].content}
         /\ Remembers /\ history'.given = history.given
         /\ UNCHANGED <<inbox, stored, manifest, output, thread>>
<1> DEFINE c == jobs[j].content
           raced == IF Reusable(c) = 0 THEN history.raced ELSE history.raced \union {c}
<1>1. jobs[j] \in Job BY JobsTyped
<1>2. c \in Contents /\ jobs[j].name \in Names BY <1>1 DEF Job
<1>3. JobAppears(c, jobs[j].name) BY <1>2, AddJob DEF RequeueSkipped
<1>4. raced \in SUBSET Contents BY <1>2 DEF Types, IsHistory
<1>5. history' = [history EXCEPT !.raced = raced] BY DEF RequeueSkipped
<1>6. Remembers /\ history'.given = history.given /\ history'.raced = raced
  <2> HIDE DEF raced
  <2> QED BY <1>4, <1>5, HistoryKept DEF Remembers
<1> QED BY <1>3, <1>6 DEF RequeueSkipped

LEMMA CrashDoes ==
  ASSUME Types, Crash
  PROVE  /\ \A t \in Threads : thread'[t] = Resting
         /\ thread' \in [Threads -> Hands]
         /\ history'.disturbed = (history.disturbed \/ \E i \in Ids : Moving(i))
         /\ Keeps(history') /\ history'.given = history.given
         /\ history'.raced = history.raced
         /\ UNCHANGED <<inbox, jobs, stored, manifest, output>>
<1> DEFINE b == history.disturbed \/ \E i \in Ids : Moving(i)
           left == [history.left EXCEPT !.crashes = @ - 1]
<1>1. b \in BOOLEAN BY DEF Types, IsHistory
<1>2. history' = [history EXCEPT !.left = left, !.disturbed = b] BY Zenon DEF Crash
<1>3. /\ history'.disturbed = b /\ Keeps(history') /\ history'.given = history.given
      /\ history'.raced = history.raced
  <2> HIDE DEF b, left
  <2> QED BY <1>1, <1>2, HistoryKept, Zenon
<1>4. Resting \in Hands BY RestingHas DEF Has
<1> QED BY <1>3, <1>4 DEF Crash

-----------------------------------------------------------------------------
(* How the jobs keep their part of the invariant. *)

JobsKept == Grows /\ Captured' /\ OnlyTheNewest'

LEMMA JobsStay ==
  ASSUME IntakeInv, UNCHANGED jobs, history'.raced = history.raced,
         history'.legacy = history.legacy
  PROVE  JobsKept
<1>1. Grows BY JobsTyped DEF Grows, IntakeInv, Types
<1>2. Captured' BY DEF IntakeInv, Captured
<1>3. OnlyTheNewest' BY DEF IntakeInv, OnlyTheNewest, JobsOf, Over, Legacy
<1> QED BY <1>1, <1>2, <1>3 DEF JobsKept

LEMMA JobMoves ==
  ASSUME IntakeInv, NEW j, NEW stage, NEW captured, NEW approved, NEW note,
         JobBecomes(j, stage, captured, approved, note), Active(j),
         stage \in {"extracted", "saved_clean", "completed"} => captured # none,
         stage = "completed" => note, history'.raced = history.raced,
         history'.legacy = history.legacy
  PROVE  JobsKept
<1>1. /\ jobs' \in Seq(Job) /\ Len(jobs') = Len(jobs) /\ j \in 1 .. Len(jobs)
      /\ Row(jobs'[j], j, stage, captured, approved, note)
      /\ \A k \in (1 .. Len(jobs)) \ {j} : jobs'[k] = jobs[k]
    BY DEF JobBecomes, Same
<1>2. Types /\ Captured /\ OnlyTheNewest BY DEF IntakeInv
<1>3. DOMAIN jobs = 1 .. Len(jobs) /\ DOMAIN jobs' = 1 .. Len(jobs) /\ Len(jobs) \in Nat
    BY <1>1, <1>2, JobsTyped
<1>4. jobs[j].stage \notin TerminalStages BY StagesKnown DEF Active
<1>5. \A k \in 1 .. Len(jobs) :
        /\ jobs'[k].content = jobs[k].content /\ jobs'[k].name = jobs[k].name
        /\ jobs[k].stage \in TerminalStages => jobs'[k] = jobs[k]
    BY <1>1, <1>4 DEF Row
<1>6. Grows BY <1>1, <1>3, <1>5 DEF Grows
<1>7. Captured' BY <1>1, <1>2, <1>3 DEF Captured, Row
<1>8. OnlyTheNewest'
  <2>1. \A c : JobsOf(c)' = JobsOf(c) BY <1>3, <1>5 DEF JobsOf
  <2>2. Over \subseteq TerminalStages /\ Over' = Over BY StagesKnown DEF Over, Legacy
  <2>3. \A c : JobsOf(c) \subseteq 1 .. Len(jobs) BY <1>2, JobsTyped
  <2> QED BY <1>2, <1>5, <2>1, <2>2, <2>3 DEF OnlyTheNewest
<1> QED BY <1>6, <1>7, <1>8 DEF JobsKept

LEMMA JobEnters ==
  ASSUME IntakeInv, NEW c \in Contents, NEW n, JobAppears(c, n),
         history'.raced = IF Reusable(c) = 0 THEN history.raced ELSE history.raced \union {c},
         history'.legacy = history.legacy
  PROVE  JobsKept
<1> DEFINE l == Len(jobs)
<1>1. /\ jobs' \in Seq(Job) /\ Len(jobs') = l + 1
      /\ \A k \in 1 .. l : jobs'[k] = jobs[k]
      /\ jobs'[l + 1].content = c /\ jobs'[l + 1].stage = "discovered"
    BY DEF JobAppears
<1>2. Types /\ Captured /\ OnlyTheNewest BY DEF IntakeInv
<1>3. DOMAIN jobs = 1 .. l /\ DOMAIN jobs' = 1 .. (l + 1) /\ l \in Nat
    BY <1>1, <1>2, JobsTyped
<1>4. Grows BY <1>1, <1>3 DEF Grows
<1>5. Captured'
  <2>1. SUFFICES ASSUME NEW k \in 1 .. (l + 1)
                 PROVE  /\ jobs'[k].stage \in {"extracted", "saved_clean", "completed"} =>
                             jobs'[k].captured # none
                        /\ jobs'[k].stage = "completed" => jobs'[k].note
      BY <1>3 DEF Captured
  <2>2. CASE k \in 1 .. l BY <1>1, <1>2, <1>3, <2>2 DEF Captured
  <2>3. CASE k = l + 1 BY <1>1, <2>3
  <2> QED BY <1>3, <2>2, <2>3
<1>6. \A d : JobsOf(d) \subseteq 1 .. l BY <1>2, JobsTyped
<1>7. \A d : JobsOf(d)' \subseteq JobsOf(d) \union {l + 1} /\ (d # c => l + 1 \notin JobsOf(d)')
    BY <1>1, <1>3 DEF JobsOf
<1>8. ASSUME c \notin history'.raced PROVE \A j \in JobsOf(c) : jobs[j].stage \in Over
  <2>1. Reusable(c) = 0 /\ c \notin history.raced BY <1>8
  <2>2. SUFFICES ASSUME NEW j \in JobsOf(c) PROVE jobs[j].stage \in Over OBVIOUS
  <2>3. CASE \E k \in JobsOf(c) : j < k BY <1>2, <2>1, <2>3 DEF OnlyTheNewest
  <2>4. CASE \A k \in JobsOf(c) : ~(j < k)
    <3>1. \A k \in JobsOf(c) : k <= j BY <1>3, <1>6, <2>4
    <3>2. ~Active(j) /\ jobs[j].stage # "quarantined"
          /\ (Legacy /\ jobs[j].stage = "completed" => ~jobs[j].note)
        BY <1>2, <2>1, <3>1, ReusableIsNewest
    <3>3. j \in 1 .. l BY <1>6
    <3>4. jobs[j].stage \in Stages BY <1>2, <3>3, JobsTyped DEF Job
    <3>5. jobs[j].stage = "completed" => jobs[j].note BY <1>2, <1>3, <3>3 DEF Captured
    <3> QED BY <3>2, <3>4, <3>5, StagesKnown DEF Active, Over, Stages
  <2> QED BY <2>3, <2>4
<1>9. OnlyTheNewest'
  <2>1. SUFFICES ASSUME NEW d \in Contents \ history'.raced,
                        NEW j \in JobsOf(d)', NEW k \in JobsOf(d)', j < k
                 PROVE  jobs'[j].stage \in Over
    <3>1. Over' = Over BY DEF Over, Legacy
    <3> QED BY <3>1 DEF OnlyTheNewest
  <2>2. j \in JobsOf(d) /\ j \in 1 .. l
    <3>1. j \in 1 .. (l + 1) /\ k \in 1 .. (l + 1) BY <1>3 DEF JobsOf
    <3>2. j # l + 1 BY <1>3, <2>1, <3>1
    <3> QED BY <1>6, <1>7, <3>2
  <2>3. jobs'[j] = jobs[j] BY <1>1, <2>2
  <2>4. CASE d = c BY <1>8, <2>2, <2>3, <2>4
  <2>5. CASE d # c
    <3>1. k \in JobsOf(d) /\ d \notin history.raced BY <1>7, <2>5
    <3> QED BY <1>2, <2>1, <2>2, <2>3, <3>1 DEF OnlyTheNewest
  <2> QED BY <2>4, <2>5
<1> QED BY <1>4, <1>5, <1>9 DEF JobsKept

-----------------------------------------------------------------------------
(* How the threads keep theirs. *)

(* A thread in the middle of something is a submitter, without an item. *)
LEMMA Working ==
  ASSUME IntakeInv, NEW t \in Threads, thread[t].pc \notin {"idle", "write"}
  PROVE  /\ t # "person" /\ thread[t].name \in Names /\ thread[t].id = 0
         /\ thread[t].job \in 0 .. Len(jobs) /\ thread[t].pc \in Stations
<1>1. thread[t] \in Hands /\ Handles(t) BY DEF IntakeInv, Types
<1> QED BY <1>1 DEF Handles, Hands

LEMMA Idle ==
  ASSUME IntakeInv, NEW t \in Threads, t # "person", thread[t].pc # "write"
  PROVE  thread[t].id = 0
BY DEF IntakeInv, Handles

LEMMA ItsJob ==
  ASSUME IntakeInv, NEW t \in Threads, thread[t].pc \in {"advance", "work", "drop"}
  PROVE  thread[t].job \in 1 .. Len(jobs)
<1>1. Handles(t) /\ Len(jobs) \in Nat BY JobsTyped DEF IntakeInv
<1>2. thread[t].job \in 0 .. Len(jobs) /\ thread[t].job # 0 BY <1>1 DEF Handles
<1> QED BY <1>1, <1>2

LEMMA OthersHold ==
  ASSUME IntakeInv, NEW t \in Threads, Grows, NEW u \in Threads, thread'[u] = thread[u]
  PROVE  Handles(u)'
<1>1. Handles(u) BY DEF IntakeInv
<1>2. Len(jobs) \in Nat /\ Len(jobs') \in Nat /\ Len(jobs) <= Len(jobs')
    BY JobsTyped DEF IntakeInv, Grows
<1>3. thread[u].job \in 0 .. Len(jobs') BY <1>1, <1>2 DEF Handles
<1>4. thread[u].pc = "drop" => jobs'[thread[u].job].stage = "completed"
  <2>1. SUFFICES ASSUME thread[u].pc = "drop"
                 PROVE  jobs'[thread[u].job].stage = "completed"
      OBVIOUS
  <2>2. thread[u].job \in 1 .. Len(jobs) BY <2>1, ItsJob
  <2>3. jobs[thread[u].job].stage = "completed" BY <1>1, <2>1 DEF Handles
  <2> QED BY <2>2, <2>3, StagesKnown DEF Grows
<1> QED BY <1>1, <1>3, <1>4 DEF Handles

LEMMA Holds ==
  ASSUME NEW t \in Threads, t # "person", NEW pc, NEW name, NEW job, NEW id, NEW code,
         NEW snapshot, NEW moved, NowHas(t, pc, name, job, id, code, snapshot, moved),
         pc = "create" => code \in Contents, pc = "write" => snapshot \in [Ids -> Statuses],
         job \in 0 .. Len(jobs'), pc \in {"advance", "work", "drop"} => job # 0,
         id # 0 => pc = "write", pc = "idle" <=> name = none,
         pc = "drop" => jobs'[job].stage = "completed"
  PROVE  Handles(t)'
BY DEF Handles, NowHas, Has

LEMMA StopsHolds ==
  ASSUME NEW t \in Threads, Stops(t), Grows
  PROVE  Handles(t)' /\ Alone(t) /\ thread'[t].pc = "idle" /\ thread'[t].id = 0
<1>1. Len(jobs') \in Nat BY DEF Grows
<1> QED BY <1>1 DEF Stops, NowHas, Has, Handles

(* A step of one submitter that leaves the quarantine alone. *)
LEMMA Steady ==
  ASSUME IntakeInv, NEW t \in Threads, t # "person", JobsKept, Alone(t), Handles(t)',
         thread[t].pc # "write", thread'[t].id = 0,
         thread'[t].pc = "write" => thread'[t].snapshot = manifest,
         UNCHANGED <<stored, manifest, output>>, Remembers, inbox' \in Inboxes
  PROVE  IntakeInv'
<1>1. Types'
  <2>1. jobs' \in Seq(Job) BY DEF JobsKept, Grows
  <2>2. thread' \in [Threads -> Hands] BY DEF Alone
  <2>3. /\ stored' \in [Ids -> Stored \union {none}] /\ manifest' \in [Ids -> Statuses]
        /\ output' \in [Names -> Contents \union {none}]
      BY DEF IntakeInv, Types
  <2> QED BY <2>1, <2>2, <2>3 DEF Types, Inboxes, Remembers, Keeps
<1>2. \A u \in Threads \ {t} : thread'[u] = thread[u] BY DEF Alone
<1>3. ASSUME NEW u \in Threads PROVE Handles(u)'
    BY <1>2, OthersHold DEF JobsKept
<1>4. thread[t].id = 0 BY Idle
<1>5. \A u \in Threads : thread'[u].id = thread[u].id BY <1>2, <1>4
<1>6. OneHolder'
  <2>1. OneHolder BY DEF IntakeInv
  <2> QED BY <1>5, <2>1 DEF OneHolder
<1>7. BeingMoved'
  <2>1. BeingMoved BY DEF IntakeInv
  <2>2. SUFFICES ASSUME NEW u \in Threads \ {"person"}, thread[u].id # 0
                 PROVE  /\ stored[thread[u].id] # none /\ manifest[thread[u].id] = "absent"
                        /\ \A v \in Threads : thread'[v].pc = "write" =>
                             thread'[v].snapshot[thread[u].id] = "absent"
      BY <1>5 DEF BeingMoved, At
  <2>3. /\ stored[thread[u].id] # none /\ manifest[thread[u].id] = "absent"
        /\ \A v \in Threads : At(v, "write") => thread[v].snapshot[thread[u].id] = "absent"
      BY <2>1, <2>2 DEF BeingMoved
  <2> QED BY <1>2, <2>3 DEF At
<1>8. "person" \in Threads /\ thread'["person"] = thread["person"] BY <1>2 DEF Threads
<1>9. BeingRestored' BY <1>8 DEF IntakeInv, BeingRestored, At, Remembers
<1>10. RecordsAreTrue'
  <2>1. \A i \in Ids : Moving(i) => Moving(i)'
    <3>1. SUFFICES ASSUME NEW i \in Ids, NEW u \in Threads,
                          thread[u].id = i, thread[u].pc = "write"
                   PROVE  thread'[u].id = i /\ thread'[u].pc = "write"
        BY DEF Moving
    <3> QED BY <1>2, <3>1
  <2> QED BY <2>1 DEF IntakeInv, RecordsAreTrue, Remembers
<1> QED BY <1>1, <1>3, <1>6, <1>7, <1>9, <1>10 DEF IntakeInv, JobsKept

-----------------------------------------------------------------------------
(* Each step of a submitter keeps the invariant. *)

LEMMA SubmitInv ==
  ASSUME IntakeInv, NEW t \in Threads, NEW n \in Names, Submit(t, n) PROVE IntakeInv'
<1>1. SubmitEffect(t, n) BY SubmitDoes DEF IntakeInv
<1>2. /\ t # "person" /\ At(t, "idle") /\ inbox[n] \in Contents /\ inbox' \in Inboxes
      /\ Remembers /\ UNCHANGED <<inbox, jobs, stored, manifest, output>>
    BY <1>1 DEF SubmitEffect, IntakeInv, Types, Inboxes
<1>3. JobsKept BY <1>1, JobsStay DEF SubmitEffect, Remembers, Keeps
<1>4. Len(jobs') = Len(jobs) /\ Len(jobs) \in Nat /\ n # none
      /\ JobsOf(inbox[n]) \subseteq 1 .. Len(jobs)
    BY <1>2, JobsTyped, IntakeAssumption DEF IntakeInv
<1>5. CASE NowHas(t, "create", n, 0, 0, inbox[n], none, FALSE)
  <2>1. Handles(t)' BY <1>2, <1>4, <1>5 DEF Handles, NowHas, Has
  <2>2. Alone(t) /\ thread'[t].id = 0 /\ thread'[t].pc # "write" BY <1>5 DEF NowHas, Has
  <2> QED BY <1>2, <1>3, <2>1, <2>2, Steady DEF At
<1>6. CASE /\ Reusable(inbox[n]) \in JobsOf(inbox[n])
           /\ NowHas(t, "work", n, Reusable(inbox[n]), 0, none, none, FALSE)
  <2>1. Reusable(inbox[n]) \in 1 .. Len(jobs) BY <1>4, <1>6
  <2>2. Reusable(inbox[n]) \in 0 .. Len(jobs') /\ Reusable(inbox[n]) # 0 BY <1>4, <2>1
  <2>3. Handles(t)' BY <1>2, <1>4, <1>6, <2>2 DEF Handles, NowHas, Has
  <2>4. Alone(t) /\ thread'[t].id = 0 /\ thread'[t].pc # "write" BY <1>6 DEF NowHas, Has
  <2> QED BY <1>2, <1>3, <2>3, <2>4, Steady DEF At
<1> QED BY <1>1, <1>5, <1>6 DEF SubmitEffect

(* A step that leaves the quarantine and the history as they are. *)
LEMMA Ordinary ==
  ASSUME IntakeInv, NEW t \in Threads, thread[t].pc \notin {"idle", "write"}, JobsKept,
         Rest, inbox' \in Inboxes,
         \/ Stops(t)
         \/ \E pc \in {"work", "drop", "handle", "end"} : \E job, code :
              /\ NowHas(t, pc, thread[t].name, job, thread[t].id, code, thread[t].snapshot,
                         thread[t].moved)
              /\ job \in 0 .. Len(jobs') /\ (pc \in {"work", "drop"} => job # 0)
              /\ pc = "drop" => jobs'[job].stage = "completed"
  PROVE  IntakeInv'
<1>1. t # "person" /\ thread[t].id = 0 /\ thread[t].name # none
    BY Working, IntakeAssumption
<1>2. Remembers /\ UNCHANGED <<stored, manifest, output>>
    BY DEF Rest, Remembers, Keeps, IntakeInv, Types
<1>3. CASE Stops(t)
  <2>1. Handles(t)' /\ Alone(t) /\ thread'[t].pc = "idle" /\ thread'[t].id = 0
      BY <1>3, StopsHolds DEF JobsKept
  <2> QED BY <1>1, <1>2, <2>1, Steady
<1>4. ASSUME NEW pc \in {"work", "drop", "handle", "end"}, NEW job, NEW code,
             NowHas(t, pc, thread[t].name, job, thread[t].id, code, thread[t].snapshot,
                     thread[t].moved),
             job \in 0 .. Len(jobs'), pc \in {"work", "drop"} => job # 0,
             pc = "drop" => jobs'[job].stage = "completed"
      PROVE  IntakeInv'
  <2>1. Handles(t)' BY <1>1, <1>4, Holds
  <2>2. Alone(t) /\ thread'[t].id = 0 /\ thread'[t].pc # "write"
      BY <1>1, <1>4 DEF NowHas, Has
  <2> QED BY <1>1, <1>2, <2>1, <2>2, Steady
<1> QED BY <1>3, <1>4

LEMMA InboxStays == ASSUME IntakeInv, UNCHANGED inbox PROVE inbox' \in Inboxes
BY DEF IntakeInv, Types, Inboxes

LEMMA SubmitFailsInv ==
  ASSUME IntakeInv, NEW t \in Threads, SubmitFails(t) PROVE IntakeInv'
<1>1. /\ t # "person" /\ thread[t].pc \in {"create", "advance"}
      /\ ToHandle(t, "job_store_busy") \/ Stops(t)
      /\ Rest /\ UNCHANGED <<inbox, jobs>>
    BY SubmitFailsDoes DEF IntakeInv
<1>2. JobsKept /\ inbox' \in Inboxes BY <1>1, JobsStay, InboxStays DEF Rest
<1>3. 0 \in 0 .. Len(jobs') BY <1>1, JobsTyped DEF IntakeInv
<1> QED BY <1>1, <1>2, <1>3, Ordinary DEF ToHandle

LEMMA CreateInv ==
  ASSUME IntakeInv, NEW t \in Threads, Create(t) PROVE IntakeInv'
<1>1. At(t, "create") BY DEF Create
<1>2. /\ t # "person" /\ thread[t].name \in Names /\ thread[t].name # none
      /\ thread[t].id = 0 /\ thread[t].code \in Contents
    BY <1>1, Working, IntakeAssumption DEF At, IntakeInv, Handles
<1>3. /\ \/ /\ JobAppears(thread[t].code, thread[t].name)
            /\ NowHas(t, "advance", thread[t].name, Len(jobs) + 1, thread[t].id, none,
                       thread[t].snapshot, thread[t].moved)
            /\ history'.raced = IF Reusable(thread[t].code) = 0 THEN history.raced
                                ELSE history.raced \union {thread[t].code}
         \/ Stops(t) /\ UNCHANGED <<jobs, history>>
      /\ Remembers /\ UNCHANGED <<inbox, stored, manifest, output>>
    BY <1>2, CreateDoes DEF IntakeInv
<1>4. inbox' \in Inboxes BY <1>3, InboxStays
<1>5. CASE Stops(t) /\ UNCHANGED <<jobs, history>>
  <2>1. JobsKept BY <1>5, JobsStay
  <2> QED BY <1>1, <1>3, <1>4, <1>5, <2>1, Ordinary DEF Rest, At
<1>6. CASE /\ JobAppears(thread[t].code, thread[t].name)
           /\ NowHas(t, "advance", thread[t].name, Len(jobs) + 1, thread[t].id, none,
                      thread[t].snapshot, thread[t].moved)
           /\ history'.raced = IF Reusable(thread[t].code) = 0 THEN history.raced
                               ELSE history.raced \union {thread[t].code}
  <2>1. JobsKept BY <1>2, <1>3, <1>6, JobEnters DEF Remembers, Keeps
  <2>2. Len(jobs) + 1 \in 0 .. Len(jobs') /\ Len(jobs) + 1 # 0
      BY <1>6, JobsTyped DEF JobAppears, IntakeInv
  <2>3. Handles(t)' BY <1>2, <1>6, <2>2, Holds
  <2>4. Alone(t) /\ thread'[t].id = 0 /\ thread'[t].pc = "advance"
      BY <1>2, <1>6 DEF NowHas, Has
  <2> QED BY <1>1, <1>2, <1>3, <1>4, <2>1, <2>3, <2>4, Steady DEF At
<1> QED BY <1>3, <1>5, <1>6

LEMMA AdvanceInv ==
  ASSUME IntakeInv, NEW t \in Threads, Advance(t) PROVE IntakeInv'
<1> DEFINE j == thread[t].job
<1>1. At(t, "advance") BY DEF Advance
<1>2. j \in 1 .. Len(jobs) BY <1>1, ItsJob DEF At
<1>3. /\ \/ /\ Active(j) /\ Onward(t, "work")
            /\ \/ JobBecomes(j, "stabilized", jobs[j].captured, jobs[j].approved, jobs[j].note)
               \/ UNCHANGED jobs
         \/ UNCHANGED jobs /\ (ToHandle(t, "illegal_job_transition") \/ Stops(t))
      /\ Rest /\ UNCHANGED inbox
    BY <1>2, AdvanceDoes DEF IntakeInv
<1>4. inbox' \in Inboxes BY <1>3, InboxStays
<1>5. JobsKept /\ Len(jobs') = Len(jobs) /\ Len(jobs) \in Nat
  <2>1. history'.raced = history.raced /\ history'.legacy = history.legacy BY <1>3 DEF Rest
  <2>2. CASE UNCHANGED jobs BY <2>1, <2>2, JobsStay, JobsTyped DEF IntakeInv
  <2>3. CASE Active(j) /\ JobBecomes(j, "stabilized", jobs[j].captured, jobs[j].approved,
                                     jobs[j].note)
    <3>1. JobsKept BY <2>1, <2>3, JobMoves
    <3> QED BY <2>3, <3>1, JobsTyped DEF IntakeInv, JobBecomes, Same
  <2> QED BY <1>3, <2>2, <2>3
<1>6. j \in 0 .. Len(jobs') /\ j # 0 /\ 0 \in 0 .. Len(jobs') BY <1>2, <1>5
<1> QED BY <1>1, <1>3, <1>4, <1>5, <1>6, Ordinary DEF At, Onward, ToHandle

LEMMA ResumePendingInv ==
  ASSUME IntakeInv, NEW t \in Pollers, ResumePending(t) PROVE IntakeInv'
<1>1. /\ t # "person" /\ t \in Threads /\ At(t, "idle") /\ Rest /\ UNCHANGED <<inbox, jobs>>
      /\ \E j \in 1 .. Len(jobs) :
           Active(j) /\ NowHas(t, "work", jobs[j].name, j, 0, none, none, FALSE)
    BY ResumePendingDoes DEF IntakeInv
<1>2. PICK j \in 1 .. Len(jobs) : NowHas(t, "work", jobs[j].name, j, 0, none, none, FALSE)
    BY <1>1
<1>3. jobs[j].name \in Names /\ jobs[j].name # none BY JobsTyped, IntakeAssumption DEF IntakeInv, Job
<1>4. j \in 0 .. Len(jobs') /\ j # 0 BY <1>1, JobsTyped DEF IntakeInv
<1>5. Handles(t)' BY <1>1, <1>2, <1>3, <1>4 DEF Handles, NowHas, Has
<1>6. Alone(t) /\ thread'[t].id = 0 /\ thread'[t].pc = "work" BY <1>2 DEF NowHas, Has
<1>7. JobsKept /\ inbox' \in Inboxes BY <1>1, JobsStay, InboxStays DEF Rest
<1>8. Remembers BY <1>1 DEF Rest, Remembers, Keeps, IntakeInv, Types
<1> QED BY <1>1, <1>5, <1>6, <1>7, <1>8, Steady DEF At, Rest

LEMMA RunInv ==
  ASSUME IntakeInv, NEW t \in Threads,
         Onestep(t) \/ NothingToDo(t) \/ Complete(t) \/ Fault(t)
  PROVE  IntakeInv'
<1> DEFINE j == thread[t].job
<1>1. At(t, "work")
    BY DEF Onestep, Stabilize, Capture, Park, Wait, Skip, NothingToDo, Complete, Fault
<1>2. j \in 1 .. Len(jobs) /\ thread[t].pc \notin {"idle", "write"} BY <1>1, ItsJob DEF At
<1>3. Types /\ Captured /\ Len(jobs) \in Nat BY JobsTyped DEF IntakeInv
<1>4. CASE NothingToDo(t)
  <2>1. Stops(t) /\ Rest /\ UNCHANGED <<inbox, jobs>> BY <1>3, <1>4, NothingToDoDoes
  <2>2. JobsKept /\ inbox' \in Inboxes BY <2>1, JobsStay, InboxStays DEF Rest
  <2> QED BY <1>2, <2>1, <2>2, Ordinary
<1>5. CASE Onestep(t)
  <2>1. /\ Active(j) /\ Stops(t) /\ Rest /\ UNCHANGED inbox
        /\ \E stage, captured, approved : BecomesNext(j, stage, captured, approved)
      BY <1>2, <1>3, <1>5, OnestepDoes
  <2>2. /\ history'.raced = history.raced /\ history'.legacy = history.legacy
        /\ inbox' \in Inboxes
      BY <2>1, InboxStays DEF Rest
  <2>3. PICK stage, captured, approved : BecomesNext(j, stage, captured, approved) BY <2>1
  <2>4. /\ JobBecomes(j, stage, captured, approved, jobs[j].note) /\ stage # "completed"
        /\ stage \in {"extracted", "saved_clean"} => captured # none
      BY <2>3 DEF BecomesNext
  <2>5. JobsKept BY <2>1, <2>2, <2>4, JobMoves
  <2> QED BY <1>2, <2>1, <2>2, <2>5, Ordinary
<1>6. CASE Complete(t)
  <2>1. /\ jobs[j].stage = "saved_clean" /\ Rest /\ UNCHANGED inbox
        /\ JobBecomes(j, "completed", jobs[j].captured, jobs[j].approved, TRUE)
        /\ Onward(t, "drop") \/ Stops(t)
      BY <1>2, <1>3, <1>6, CompleteDoes
  <2>2. jobs[j].captured # none BY <1>2, <1>3, <2>1, JobsTyped DEF IntakeInv, Captured
  <2>3. Active(j) BY <2>1, StagesKnown DEF Active
  <2>4. JobsKept BY <2>1, <2>2, <2>3, JobMoves DEF Rest
  <2>5. jobs'[j].stage = "completed" /\ Len(jobs') = Len(jobs)
      BY <2>1 DEF JobBecomes, Same, Row
  <2>6. j \in 0 .. Len(jobs') /\ j # 0 BY <1>2, <1>3, <2>5
  <2> QED BY <1>2, <2>1, <2>4, <2>5, <2>6, InboxStays, Ordinary DEF Onward
<1>7. CASE Fault(t)
  <2>1. PICK code :
        /\ Active(j) /\ Rest /\ UNCHANGED inbox
        /\ JobBecomes(j, jobs[j].stage, jobs[j].captured, jobs[j].approved, jobs[j].note)
        /\ NowHas(t, "handle", thread[t].name, thread[t].job, thread[t].id, code,
                   thread[t].snapshot, thread[t].moved)
      BY <1>2, <1>3, <1>7, FaultDoes
  <2>2. jobs[j].stage \in {"extracted", "saved_clean", "completed"} => jobs[j].captured # none
      BY <1>2, <1>3, JobsTyped DEF IntakeInv, Captured
  <2>3. jobs[j].stage # "completed" BY <2>1, StagesKnown DEF Active
  <2>4. JobsKept BY <2>1, <2>2, <2>3, JobMoves DEF Rest
  <2>5. j \in 0 .. Len(jobs') BY <1>2, <1>3, <2>1 DEF JobBecomes, Same
  <2> QED BY <1>2, <2>1, <2>4, <2>5, InboxStays, Ordinary
<1> QED BY <1>4, <1>5, <1>6, <1>7

LEMMA DeleteSourceInv ==
  ASSUME IntakeInv, NEW t \in Threads, DeleteSource(t) PROVE IntakeInv'
<1>1. /\ At(t, "drop") /\ Stops(t) /\ Rest /\ UNCHANGED jobs
      /\ inbox' = [inbox EXCEPT ![jobs[thread[t].job].name] = none]
    BY DeleteSourceDoes DEF IntakeInv
<1>2. JobsKept BY <1>1, JobsStay DEF Rest
<1>3. inbox' \in Inboxes BY <1>1 DEF IntakeInv, Types, Inboxes
<1> QED BY <1>1, <1>2, <1>3, Ordinary DEF At

LEMMA EndFailureInv ==
  ASSUME IntakeInv, NEW t \in Threads, EndFailure(t) PROVE IntakeInv'
<1> DEFINE j == thread[t].job
<1>1. At(t, "end") BY DEF EndFailure
<1>2. j \in 0 .. Len(jobs) BY <1>1, Working DEF At
<1>3. /\ Stops(t) /\ Rest /\ UNCHANGED inbox
      /\ \/ UNCHANGED jobs
         \/ /\ j \in 1 .. Len(jobs) /\ Active(j)
            /\ \E stage \in {"quarantined", "failed"} :
                 JobBecomes(j, stage, jobs[j].captured, jobs[j].approved, jobs[j].note)
    BY <1>2, EndFailureDoes DEF IntakeInv
<1>4. JobsKept
  <2>1. history'.raced = history.raced /\ history'.legacy = history.legacy BY <1>3 DEF Rest
  <2>2. CASE UNCHANGED jobs BY <2>1, <2>2, JobsStay
  <2>3. ASSUME NEW stage \in {"quarantined", "failed"}, Active(j),
               JobBecomes(j, stage, jobs[j].captured, jobs[j].approved, jobs[j].note)
        PROVE  JobsKept
      BY <2>1, <2>3, JobMoves
  <2> QED BY <1>3, <2>2, <2>3
<1> QED BY <1>1, <1>3, <1>4, InboxStays, Ordinary DEF At

-----------------------------------------------------------------------------
(* The steps that move an item, or rewrite the manifest. *)

LEMMA AllHold ==
  ASSUME IntakeInv, NEW t \in Threads, Alone(t), Grows, Handles(t)'
  PROVE  \A u \in Threads : Handles(u)'
<1>1. \A u \in Threads \ {t} : thread'[u] = thread[u] BY DEF Alone
<1> QED BY <1>1, OthersHold

LEMMA SourceIsAName ==
  ASSUME IntakeInv, NEW t \in Threads, t # "person", thread[t].pc # "idle"
  PROVE  SourceOf(t) \in Names
<1>1. /\ thread[t] \in Hands /\ Handles(t) /\ Len(jobs) \in Nat
      /\ \A j \in 1 .. Len(jobs) : jobs[j] \in Job
    BY JobsTyped DEF IntakeInv, Types
<1>2. thread[t].name \in Names /\ thread[t].job \in 0 .. Len(jobs) BY <1>1 DEF Handles, Hands
<1>3. thread[t].job # 0 => jobs[thread[t].job].name \in Names BY <1>1, <1>2 DEF Job
<1> QED BY <1>2, <1>3 DEF SourceOf

LEMMA MoveInv ==
  ASSUME IntakeInv, NEW t \in Threads, t # "person", thread[t].pc = "handle",
         NEW n \in Names, NEW i \in Ids, inbox[n] # none, New(i), Reads(t, i, TRUE),
         stored' = [stored EXCEPT ![i] = [content |-> inbox[n], name |-> n]],
         inbox' = [inbox EXCEPT ![n] = none],
         UNCHANGED <<jobs, manifest, output, history>>
  PROVE  IntakeInv'
<1>1. /\ Types /\ Len(jobs) \in Nat /\ i # 0 /\ manifest \in [Ids -> Statuses]
      /\ \A u \in Threads : thread[u] \in Hands
    BY JobsTyped DEF IntakeInv, Types, Ids
<1>2. [content |-> inbox[n], name |-> n] \in Stored /\ none \notin Stored
    BY IntakeAssumption DEF IntakeInv, Types, Stored
<1>3. /\ stored' \in [Ids -> Stored \union {none}] /\ stored'[i] # none
      /\ \A k \in Ids \ {i} : stored'[k] = stored[k]
    BY <1>1, <1>2 DEF Types
<1>4. /\ Alone(t) /\ thread'[t].pc = "write" /\ thread'[t].id = i
      /\ thread'[t].snapshot = manifest /\ thread'[t].name = thread[t].name
      /\ thread'[t].job = thread[t].job
      /\ \A u \in Threads \ {t} : thread'[u] = thread[u]
    BY DEF Reads, NowHas, Has, Alone
<1>5. JobsKept BY JobsStay
<1>6. Types'
  <2>1. inbox' \in Inboxes BY <1>1 DEF Types, Inboxes
  <2>2. thread' \in [Threads -> Hands] BY <1>4 DEF Alone
  <2> QED BY <1>1, <1>3, <2>1, <2>2 DEF Types, Inboxes
<1>7. \A u \in Threads : Handles(u)'
  <2>1. thread[t].name \in Names /\ thread[t].job \in 0 .. Len(jobs) BY Working
  <2>2. Handles(t)' BY <1>1, <1>4, <2>1, IntakeAssumption DEF Handles
  <2> QED BY <1>4, <1>5, <2>2, AllHold DEF JobsKept
<1>8. \A u \in Threads : thread[u].id # i /\ thread[u].id \in Ids \union {0}
    BY <1>1 DEF New, Hands
<1>9. OneHolder'
  <2>1. OneHolder BY DEF IntakeInv
  <2> QED BY <1>4, <1>8, <2>1 DEF OneHolder
<1>10. BeingMoved'
  <2>1. BeingMoved /\ manifest[i] = "absent" BY DEF IntakeInv, New
  <2>2. \A u \in Threads : At(u, "write") => thread[u].snapshot[i] = "absent" BY DEF New
  <2>3. SUFFICES ASSUME NEW u \in Threads \ {"person"}, thread'[u].id # 0
                 PROVE  /\ stored'[thread'[u].id] # none /\ manifest[thread'[u].id] = "absent"
                        /\ \A v \in Threads : thread'[v].pc = "write" =>
                             thread'[v].snapshot[thread'[u].id] = "absent"
      BY DEF BeingMoved, At
  <2>4. CASE u = t BY <1>3, <1>4, <2>1, <2>2, <2>4 DEF At
  <2>5. CASE u # t
    <3>1. thread'[u].id = thread[u].id /\ thread[u].id \in Ids \ {i} BY <1>4, <1>8, <2>3, <2>5
    <3>2. /\ stored[thread[u].id] # none /\ manifest[thread[u].id] = "absent"
          /\ \A v \in Threads : At(v, "write") => thread[v].snapshot[thread[u].id] = "absent"
        BY <2>1, <2>3, <3>1 DEF BeingMoved
    <3> QED BY <1>3, <1>4, <3>1, <3>2 DEF At
  <2> QED BY <2>4, <2>5
<1>11. BeingRestored'
  <2>1. "person" \in Threads /\ thread'["person"] = thread["person"] BY <1>4 DEF Threads
  <2>2. SUFFICES ASSUME At("person", "write")
                 PROVE  stored'[thread["person"].id] = none
      BY <2>1 DEF IntakeInv, BeingRestored, At
  <2>3. thread["person"].id \in Ids \ {i} BY <1>8, <2>1, <2>2 DEF IntakeInv, Handles, At
  <2> QED BY <1>3, <2>2, <2>3 DEF IntakeInv, BeingRestored
<1>12. RecordsAreTrue'
  <2>1. SUFFICES ASSUME ~history.disturbed, NEW k \in Ids
                 PROVE  Moving(k)' \/ (stored'[k] # none <=> manifest[k] = "quarantined")
      BY DEF RecordsAreTrue
  <2>2. CASE k = i BY <1>4, <2>2 DEF Moving
  <2>3. CASE k # i
    <3>1. Moving(k) => Moving(k)'
      <4>1. SUFFICES ASSUME NEW u \in Threads, thread[u].id = k, thread[u].pc = "write"
                     PROVE  thread'[u].id = k /\ thread'[u].pc = "write"
          BY DEF Moving
      <4> QED BY <1>4, <4>1
    <3> QED BY <1>3, <2>1, <2>3, <3>1 DEF IntakeInv, RecordsAreTrue
  <2> QED BY <2>2, <2>3
<1> QED BY <1>5, <1>6, <1>7, <1>9, <1>10, <1>11, <1>12 DEF IntakeInv, JobsKept

LEMMA HandleFailureInv ==
  ASSUME IntakeInv, NEW t \in Threads, HandleFailure(t) PROVE IntakeInv'
<1> DEFINE n == SourceOf(t)
<1>1. At(t, "handle") BY DEF HandleFailure
<1>2. /\ t # "person" /\ thread[t].name \in Names /\ thread[t].id = 0
      /\ thread[t].job \in 0 .. Len(jobs) /\ n \in Names
    BY <1>1, Working, SourceIsAName DEF At
<1>3. /\ \/ Onward(t, "end") /\ UNCHANGED <<inbox, stored>>
         \/ Reads(t, thread[t].id, thread[t].moved) /\ UNCHANGED <<inbox, stored>>
         \/ \E i \in Ids :
              /\ inbox[n] # none /\ New(i) /\ Reads(t, i, TRUE)
              /\ stored' = [stored EXCEPT ![i] = [content |-> inbox[n], name |-> n]]
              /\ inbox' = [inbox EXCEPT ![n] = none]
      /\ UNCHANGED <<jobs, manifest, output, history>>
    BY <1>2, HandleFailureDoes DEF IntakeInv
<1>4. JobsKept BY <1>3, JobsStay
<1>5. CASE Onward(t, "end") /\ UNCHANGED <<inbox, stored>>
    BY <1>1, <1>2, <1>3, <1>4, <1>5, InboxStays, Ordinary DEF At, Onward, Rest
<1>6. CASE Reads(t, thread[t].id, thread[t].moved) /\ UNCHANGED <<inbox, stored>>
  <2>1. /\ Alone(t) /\ thread'[t].pc = "write" /\ thread'[t].id = 0
        /\ thread'[t].snapshot = manifest /\ thread'[t].name = thread[t].name
        /\ thread'[t].job = thread[t].job
      BY <1>2, <1>6 DEF Reads, NowHas, Has
  <2>2. manifest \in [Ids -> Statuses] /\ thread[t].name # none
      BY <1>2, IntakeAssumption DEF IntakeInv, Types
  <2>3. Handles(t)' BY <1>2, <1>3, <2>1, <2>2 DEF Handles
  <2>4. Remembers BY <1>3 DEF Remembers, Keeps, IntakeInv, Types
  <2> QED BY <1>1, <1>2, <1>3, <1>4, <1>6, <2>1, <2>3, <2>4, InboxStays, Steady DEF At
<1>7. ASSUME NEW i \in Ids, inbox[n] # none, New(i), Reads(t, i, TRUE),
             stored' = [stored EXCEPT ![i] = [content |-> inbox[n], name |-> n]],
             inbox' = [inbox EXCEPT ![n] = none]
      PROVE  IntakeInv'
    BY <1>1, <1>2, <1>3, <1>7, MoveInv DEF At
<1> QED BY <1>3, <1>5, <1>6, <1>7

(* What a thread leaves behind when it is done with the manifest. *)
LEMMA EndedLeaves ==
  ASSUME IntakeInv, NEW t \in Threads, At(t, "write"), NEW moved, Ended(t, moved), UNCHANGED jobs
  PROVE  /\ \A u \in Threads : Handles(u)'
         /\ thread' \in [Threads -> Hands]
         /\ thread'[t].pc # "write" /\ thread'[t].id = 0
         /\ \A u \in Threads \ {t} : thread'[u] = thread[u]
         /\ OneHolder'
         /\ \A u \in Threads : thread'[u].id # 0 => u # t /\ thread[u].id # thread[t].id
         /\ \A i \in Ids : Moving(i) => Moving(i)' \/ i = thread[t].id
<1>1. /\ Handles(t) /\ Len(jobs) \in Nat /\ OneHolder /\ thread[t] \in Hands
    BY JobsTyped DEF IntakeInv, Types
<1>2. Grows BY JobsTyped DEF Grows, IntakeInv, Types
<1>3. Alone(t) /\ thread'[t].pc # "write" /\ thread'[t].id = 0
    BY DEF Ended, Stops, NowHas, Has
<1>4. Handles(t)'
  <2>1. CASE t = "person" BY <1>2, <2>1, StopsHolds DEF Ended
  <2>2. CASE t # "person"
    <3>1. /\ thread'[t].pc = "end" /\ thread'[t].name = thread[t].name
          /\ thread'[t].job = thread[t].job
        BY <2>2 DEF Ended, NowHas, Has
    <3> QED BY <1>1, <1>3, <2>2, <3>1 DEF Handles, At
  <2> QED BY <2>1, <2>2
<1>5. /\ thread' \in [Threads -> Hands] /\ \A u \in Threads \ {t} : thread'[u] = thread[u]
    BY <1>3 DEF Alone
<1>6. OneHolder' BY <1>1, <1>3, <1>5 DEF OneHolder
<1>7. \A u \in Threads : thread'[u].id # 0 => u # t /\ thread[u].id # thread[t].id
    BY <1>1, <1>3, <1>5 DEF OneHolder
<1>8. ASSUME NEW i \in Ids, NEW u \in Threads, thread[u].id = i, thread[u].pc = "write",
             i # thread[t].id
      PROVE  thread'[u].id = i /\ thread'[u].pc = "write"
    BY <1>5, <1>8
<1>9. \A i \in Ids : Moving(i) => Moving(i)' \/ i = thread[t].id BY <1>8 DEF Moving
<1> QED BY <1>2, <1>3, <1>4, <1>5, <1>6, <1>7, <1>9, AllHold

LEMMA WriteItemsInv ==
  ASSUME IntakeInv, NEW t \in Threads, WriteItems(t) PROVE IntakeInv'
<1> DEFINE id == thread[t].id
           read == thread[t].snapshot
<1>1. /\ At(t, "write") /\ manifest' = WithItem(t) /\ Ended(t, thread[t].moved)
      /\ history'.disturbed = (history.disturbed \/ manifest # read)
      /\ Keeps(history') /\ history'.given = history.given
      /\ history'.raced = history.raced
      /\ UNCHANGED <<inbox, jobs, stored, output>>
    BY WriteItemsDoes DEF IntakeInv
<1>2. /\ \A u \in Threads : Handles(u)'
      /\ thread' \in [Threads -> Hands]
      /\ thread'[t].pc # "write" /\ thread'[t].id = 0
      /\ \A u \in Threads \ {t} : thread'[u] = thread[u]
      /\ OneHolder'
      /\ \A u \in Threads : thread'[u].id # 0 => u # t /\ thread[u].id # id
      /\ \A i \in Ids : Moving(i) => Moving(i)' \/ i = id
    BY <1>1, EndedLeaves
<1>3. JobsKept BY <1>1, JobsStay DEF Keeps
<1>4. /\ read \in [Ids -> Statuses] /\ thread[t] \in Hands /\ id \in Ids \union {0}
      /\ t = "person" => id # 0
      /\ \A u \in Threads : thread[u].id \in Ids \union {0}
    BY <1>1 DEF IntakeInv, Handles, At, Types, Hands
<1>5. /\ manifest' \in [Ids -> Statuses]
      /\ \A i \in Ids : manifest'[i] = IF i = id THEN Item(t) ELSE read[i]
  <2>1. Item(t) \in Statuses BY DEF Item, Statuses
  <2> QED BY <1>1, <1>4, <2>1 DEF WithItem
<1>6. Types' BY <1>1, <1>2, <1>5, JobsTyped DEF IntakeInv, Types, Keeps
<1>7. BeingMoved'
  <2>1. BeingMoved BY DEF IntakeInv
  <2>2. SUFFICES ASSUME NEW u \in Threads \ {"person"}, thread'[u].id # 0
                 PROVE  /\ stored[thread'[u].id] # none /\ manifest'[thread'[u].id] = "absent"
                        /\ \A v \in Threads : thread'[v].pc = "write" =>
                             thread'[v].snapshot[thread'[u].id] = "absent"
      BY <1>1 DEF BeingMoved, At
  <2>3. u # t /\ thread'[u].id = thread[u].id /\ thread[u].id \in Ids \ {id}
      BY <1>2, <1>4, <2>2
  <2>4. /\ stored[thread[u].id] # none
        /\ \A v \in Threads : At(v, "write") => thread[v].snapshot[thread[u].id] = "absent"
      BY <2>1, <2>2, <2>3 DEF BeingMoved
  <2>5. manifest'[thread[u].id] = "absent" BY <1>1, <1>5, <2>3, <2>4
  <2> QED BY <1>2, <2>3, <2>4, <2>5 DEF At
<1>8. "person" \in Threads BY DEF Threads
<1>9. BeingRestored'
  <2>1. SUFFICES ASSUME thread'["person"].pc = "write"
                 PROVE  /\ stored[thread'["person"].id] = none
                        /\ output[thread'["person"].code.name] = thread'["person"].code.content
                        /\ history'.disturbed \/ manifest'[thread'["person"].id] = "quarantined"
      BY <1>1 DEF BeingRestored, At
  <2>2. t # "person" /\ thread'["person"] = thread["person"] BY <1>2, <1>8, <2>1
  <2>3. At("person", "write") /\ thread["person"].id \in Ids
      BY <1>4, <1>8, <2>1, <2>2 DEF At, IntakeInv, Handles
  <2>4. thread["person"].id # id
      BY <1>2, <1>8, <2>2, <2>3 DEF IntakeInv, Handles, At
  <2>5. /\ stored[thread["person"].id] = none
        /\ output[thread["person"].code.name] = thread["person"].code.content
        /\ history.disturbed \/ manifest[thread["person"].id] = "quarantined"
      BY <2>3 DEF IntakeInv, BeingRestored
  <2> QED BY <1>1, <1>5, <2>2, <2>3, <2>4, <2>5
<1>10. RecordsAreTrue'
  <2>1. SUFFICES ASSUME ~history'.disturbed, NEW i \in Ids
                 PROVE  Moving(i)' \/ (stored[i] # none <=> manifest'[i] = "quarantined")
      BY <1>1 DEF RecordsAreTrue
  <2>2. ~history.disturbed /\ manifest = read BY <1>1, <2>1
  <2>3. CASE i # id
    <3>1. manifest'[i] = manifest[i] BY <1>5, <2>2, <2>3
    <3>2. Moving(i) \/ (stored[i] # none <=> manifest[i] = "quarantined")
        BY <2>2 DEF IntakeInv, RecordsAreTrue
    <3> QED BY <1>2, <2>3, <3>1, <3>2
  <2>4. CASE i = id /\ t = "person"
    <3>1. stored[i] = none BY <1>1, <2>4 DEF IntakeInv, BeingRestored
    <3> QED BY <1>5, <2>4, <3>1 DEF Item
  <2>5. CASE i = id /\ t # "person"
    <3>1. stored[i] # none BY <2>5 DEF IntakeInv, BeingMoved, Ids
    <3> QED BY <1>5, <2>5, <3>1 DEF Item
  <2> QED BY <2>3, <2>4, <2>5
<1> QED BY <1>2, <1>3, <1>6, <1>7, <1>9, <1>10 DEF IntakeInv, JobsKept

LEMMA WriteFailsInv ==
  ASSUME IntakeInv, NEW t \in Threads, WriteFails(t) PROVE IntakeInv'
<1> DEFINE id == thread[t].id
<1>1. /\ At(t, "write") /\ Ended(t, FALSE)
      /\ \/ id = 0 /\ UNCHANGED <<inbox, stored, output>>
         \/ /\ id # 0 /\ t = "person" /\ UNCHANGED inbox
            /\ stored' = [stored EXCEPT ![id] = thread[t].code]
            /\ output' = [output EXCEPT ![thread[t].code.name] = none]
         \/ /\ id # 0 /\ t # "person" /\ UNCHANGED output
            /\ inbox' = [inbox EXCEPT ![SourceOf(t)] = stored[id].content]
            /\ stored' = [stored EXCEPT ![id] = none]
      /\ UNCHANGED <<jobs, manifest, history>>
    BY WriteFailsDoes DEF IntakeInv
<1>2. /\ \A u \in Threads : Handles(u)'
      /\ thread' \in [Threads -> Hands]
      /\ thread'[t].pc # "write" /\ thread'[t].id = 0
      /\ \A u \in Threads \ {t} : thread'[u] = thread[u]
      /\ OneHolder'
      /\ \A u \in Threads : thread'[u].id # 0 => u # t /\ thread[u].id # id
      /\ \A i \in Ids : Moving(i) => Moving(i)' \/ i = id
    BY <1>1, EndedLeaves
<1>3. JobsKept BY <1>1, JobsStay
<1>4. /\ Types /\ thread[t] \in Hands /\ id \in Ids \union {0} /\ 0 \notin Ids
      /\ t = "person" => thread[t].code \in Stored
      /\ \A u \in Threads : thread[u].id \in Ids \union {0}
    BY <1>1 DEF IntakeInv, Handles, At, Types, Hands, Ids
<1>5. /\ stored' \in [Ids -> Stored \union {none}] /\ inbox' \in Inboxes
      /\ output' \in [Names -> Contents \union {none}]
      /\ \A i \in Ids \ {id} : stored'[i] = stored[i]
      /\ id # 0 => (stored'[id] # none <=> t = "person")
  <2>1. CASE id = 0 BY <1>1, <1>4, <2>1 DEF Types, Inboxes
  <2>2. CASE id # 0 /\ t = "person"
    <3>1. thread[t].code # none BY <1>4, <2>2, IntakeAssumption DEF Stored
    <3> QED BY <1>1, <1>4, <2>2, <3>1 DEF Types, Inboxes
  <2>3. CASE id # 0 /\ t # "person"
    <3>1. stored[id] \in Stored
        BY <1>4, <2>3 DEF IntakeInv, BeingMoved, Types
    <3>2. stored[id].content \in Contents BY <3>1 DEF Stored
    <3> QED BY <1>1, <1>4, <2>3, <3>2 DEF Types, Inboxes
  <2> QED BY <2>1, <2>2, <2>3
<1>6. Types' BY <1>1, <1>2, <1>4, <1>5 DEF Types, Inboxes
<1>7. BeingMoved'
  <2>1. BeingMoved BY DEF IntakeInv
  <2>2. SUFFICES ASSUME NEW u \in Threads \ {"person"}, thread'[u].id # 0
                 PROVE  /\ stored'[thread'[u].id] # none /\ manifest[thread'[u].id] = "absent"
                        /\ \A v \in Threads : thread'[v].pc = "write" =>
                             thread'[v].snapshot[thread'[u].id] = "absent"
      BY <1>1 DEF BeingMoved, At
  <2>3. u # t /\ thread'[u].id = thread[u].id /\ thread[u].id \in Ids \ {id}
      BY <1>2, <1>4, <2>2
  <2>4. /\ stored[thread[u].id] # none /\ manifest[thread[u].id] = "absent"
        /\ \A v \in Threads : At(v, "write") => thread[v].snapshot[thread[u].id] = "absent"
      BY <2>1, <2>2, <2>3 DEF BeingMoved
  <2> QED BY <1>2, <1>5, <2>3, <2>4 DEF At
<1>8. "person" \in Threads BY DEF Threads
<1>9. BeingRestored'
  <2>1. SUFFICES ASSUME thread'["person"].pc = "write"
                 PROVE  /\ stored'[thread'["person"].id] = none
                        /\ output'[thread'["person"].code.name] = thread'["person"].code.content
                        /\ history.disturbed \/ manifest[thread'["person"].id] = "quarantined"
      BY <1>1 DEF BeingRestored, At
  <2>2. t # "person" /\ thread'["person"] = thread["person"] BY <1>2, <1>8, <2>1
  <2>3. At("person", "write") /\ thread["person"].id \in Ids
      BY <1>4, <1>8, <2>1, <2>2 DEF At, IntakeInv, Handles
  <2>4. thread["person"].id # id
      BY <1>2, <1>8, <2>2, <2>3 DEF IntakeInv, Handles, At
  <2>5. /\ stored[thread["person"].id] = none
        /\ output[thread["person"].code.name] = thread["person"].code.content
        /\ history.disturbed \/ manifest[thread["person"].id] = "quarantined"
      BY <2>3 DEF IntakeInv, BeingRestored
  <2>6. UNCHANGED output BY <1>1, <2>2
  <2> QED BY <1>5, <2>2, <2>3, <2>4, <2>5, <2>6
<1>10. RecordsAreTrue'
  <2>1. SUFFICES ASSUME ~history.disturbed, NEW i \in Ids
                 PROVE  Moving(i)' \/ (stored'[i] # none <=> manifest[i] = "quarantined")
      BY <1>1 DEF RecordsAreTrue
  <2>2. CASE i # id
    <3>1. Moving(i) \/ (stored[i] # none <=> manifest[i] = "quarantined")
        BY <2>1 DEF IntakeInv, RecordsAreTrue
    <3> QED BY <1>2, <1>5, <2>2, <3>1
  <2>3. CASE i = id /\ t = "person"
    <3>1. manifest[i] = "quarantined" BY <1>1, <2>1, <2>3 DEF IntakeInv, BeingRestored
    <3> QED BY <1>4, <1>5, <2>3, <3>1
  <2>4. CASE i = id /\ t # "person"
    <3>1. manifest[i] = "absent" BY <1>4, <2>4 DEF IntakeInv, BeingMoved
    <3> QED BY <1>4, <1>5, <2>4, <3>1
  <2> QED BY <2>2, <2>3, <2>4
<1>11. Captured' /\ OnlyTheNewest' BY <1>3 DEF JobsKept
<1> QED BY <1>2, <1>6, <1>7, <1>9, <1>10, <1>11 DEF IntakeInv

LEMMA RestoreInv ==
  ASSUME IntakeInv, NEW i \in Ids, Restore(i) PROVE IntakeInv'
<1>1. /\ At("person", "idle") /\ manifest[i] = "quarantined" /\ stored[i] \in Stored
      /\ output' = [output EXCEPT ![stored[i].name] = stored[i].content]
      /\ stored' = [stored EXCEPT ![i] = none]
      /\ NowHas("person", "write", none, 0, i, stored[i], manifest, FALSE)
      /\ Remembers /\ history'.raced = history.raced
      /\ UNCHANGED <<inbox, jobs, manifest>>
    BY RestoreDoes DEF IntakeInv
<1>2. /\ Types /\ "person" \in Threads /\ Len(jobs) \in Nat /\ 0 \notin Ids
      /\ manifest \in [Ids -> Statuses]
    BY JobsTyped DEF IntakeInv, Types, Threads, Ids
<1>3. JobsKept BY <1>1, JobsStay DEF Remembers, Keeps
<1>4. /\ Alone("person") /\ thread'["person"].pc = "write" /\ thread'["person"].id = i
      /\ thread'["person"].snapshot = manifest /\ thread'["person"].name = none
      /\ thread'["person"].job = 0 /\ thread'["person"].code = stored[i]
      /\ \A u \in Threads \ {"person"} : thread'[u] = thread[u]
    BY <1>1 DEF NowHas, Has, Alone
<1>5. stored[i].name \in Names /\ stored[i].content \in Contents BY <1>1 DEF Stored
<1>6. /\ stored' \in [Ids -> Stored \union {none}] /\ stored'[i] = none
      /\ \A k \in Ids \ {i} : stored'[k] = stored[k]
      /\ output' \in [Names -> Contents \union {none}]
      /\ output'[stored[i].name] = stored[i].content
    BY <1>1, <1>2, <1>5 DEF Types
<1>7. Types'
  <2>1. thread' \in [Threads -> Hands] BY <1>4 DEF Alone
  <2> QED BY <1>1, <1>2, <1>6, <2>1 DEF Types, Remembers, Keeps
<1>8. \A u \in Threads : Handles(u)'
  <2>1. Handles("person")' BY <1>1, <1>2, <1>4 DEF Handles
  <2> QED BY <1>2, <1>3, <1>4, <2>1, AllHold DEF JobsKept
<1>9. \A u \in Threads \ {"person"} : thread[u].id # i /\ thread[u].id \in Ids \union {0}
  <2>1. SUFFICES ASSUME NEW u \in Threads \ {"person"}
                 PROVE  thread[u].id # i /\ thread[u].id \in Ids \union {0}
      OBVIOUS
  <2>2. thread[u] \in Hands BY <1>2 DEF Types
  <2>3. thread[u].id # 0 => manifest[thread[u].id] = "absent" BY DEF IntakeInv, BeingMoved
  <2> QED BY <1>1, <1>2, <2>2, <2>3 DEF Hands
<1>10. OneHolder'
  <2>1. OneHolder BY DEF IntakeInv
  <2> QED BY <1>4, <1>9, <2>1 DEF OneHolder
<1>11. BeingMoved'
  <2>1. BeingMoved BY DEF IntakeInv
  <2>2. SUFFICES ASSUME NEW u \in Threads \ {"person"}, thread[u].id # 0
                 PROVE  /\ stored'[thread[u].id] # none /\ manifest[thread[u].id] = "absent"
                        /\ \A v \in Threads : thread'[v].pc = "write" =>
                             thread'[v].snapshot[thread[u].id] = "absent"
      BY <1>1, <1>4 DEF BeingMoved, At
  <2>3. /\ stored[thread[u].id] # none /\ manifest[thread[u].id] = "absent"
        /\ \A v \in Threads : At(v, "write") => thread[v].snapshot[thread[u].id] = "absent"
      BY <2>1, <2>2 DEF BeingMoved
  <2>4. thread[u].id \in Ids \ {i} BY <1>9, <2>2
  <2> QED BY <1>4, <1>6, <2>3, <2>4 DEF At
<1>12. BeingRestored' BY <1>1, <1>4, <1>6 DEF BeingRestored
<1>13. RecordsAreTrue'
  <2>1. SUFFICES ASSUME ~history.disturbed, NEW k \in Ids
                 PROVE  Moving(k)' \/ (stored'[k] # none <=> manifest[k] = "quarantined")
      BY <1>1 DEF RecordsAreTrue, Remembers
  <2>2. CASE k = i BY <1>2, <1>4, <2>2 DEF Moving
  <2>3. CASE k # i
    <3>1. Moving(k) => Moving(k)'
      <4>1. SUFFICES ASSUME NEW u \in Threads, thread[u].id = k, thread[u].pc = "write"
                     PROVE  thread'[u].id = k /\ thread'[u].pc = "write"
          BY DEF Moving
      <4>2. u # "person" BY <1>1, <4>1 DEF At
      <4> QED BY <1>4, <4>1, <4>2
    <3> QED BY <1>6, <2>1, <2>3, <3>1 DEF IntakeInv, RecordsAreTrue
  <2> QED BY <2>2, <2>3
<1>14. Captured' /\ OnlyTheNewest' BY <1>3 DEF JobsKept
<1> QED BY <1>7, <1>8, <1>10, <1>11, <1>12, <1>13, <1>14 DEF IntakeInv

LEMMA CrashInv ==
  ASSUME IntakeInv, Crash PROVE IntakeInv'
<1>1. /\ \A t \in Threads : thread'[t] = Resting
      /\ thread' \in [Threads -> Hands]
      /\ history'.disturbed = (history.disturbed \/ \E i \in Ids : Moving(i))
      /\ Keeps(history') /\ history'.raced = history.raced
      /\ UNCHANGED <<inbox, jobs, stored, manifest, output>>
    BY CrashDoes DEF IntakeInv
<1>2. Types' BY <1>1 DEF IntakeInv, Types, Keeps
<1>3. JobsKept BY <1>1, JobsStay DEF Keeps
<1>4. Captured' /\ OnlyTheNewest' BY <1>3 DEF JobsKept
<1>5. \A t \in Threads : /\ thread'[t].pc = "idle" /\ thread'[t].id = 0 /\ thread'[t].job = 0
                         /\ thread'[t].name = none
    BY <1>1, RestingHas DEF Has
<1>6. \A t \in Threads : Handles(t)'
  <2>1. Len(jobs') \in Nat BY <1>3 DEF JobsKept, Grows
  <2> QED BY <1>5, <2>1 DEF Handles
<1>7. OneHolder' /\ BeingMoved' BY <1>5 DEF OneHolder, BeingMoved
<1>8. "person" \in Threads BY DEF Threads
<1>9. BeingRestored' BY <1>5, <1>8 DEF BeingRestored, At
<1>10. RecordsAreTrue' BY <1>1 DEF IntakeInv, RecordsAreTrue
<1> QED BY <1>2, <1>4, <1>6, <1>7, <1>9, <1>10 DEF IntakeInv

(* A step of the person at the files or at the jobs. *)
LEMMA AtTheSide ==
  ASSUME IntakeInv, JobsKept, inbox' \in Inboxes, Remembers,
         UNCHANGED <<stored, manifest, output, thread>>
  PROVE  IntakeInv'
<1>1. Types'
  <2>1. jobs' \in Seq(Job) BY DEF JobsKept, Grows
  <2> QED BY <2>1 DEF IntakeInv, Types, Inboxes, Remembers, Keeps
<1>2. \A t \in Threads : Handles(t)' BY OthersHold DEF JobsKept
<1>3. OneHolder' BY DEF IntakeInv, OneHolder
<1>4. BeingMoved' BY DEF IntakeInv, BeingMoved, At
<1>5. BeingRestored' BY DEF IntakeInv, BeingRestored, At, Remembers
<1>6. RecordsAreTrue' BY DEF IntakeInv, RecordsAreTrue, Moving, Remembers
<1>7. Captured' /\ OnlyTheNewest' BY DEF JobsKept
<1> QED BY <1>1, <1>2, <1>3, <1>4, <1>5, <1>6, <1>7 DEF IntakeInv

LEMMA PersonInv ==
  ASSUME IntakeInv, PersonNext PROVE IntakeInv'
<1>1. ASSUME NEW i \in Ids, Restore(i) PROVE IntakeInv'
    BY <1>1, RestoreInv
<1>2. ASSUME NEW n \in Names, NEW c \in Contents, DropFile(n, c) PROVE IntakeInv'
  <2>1. /\ inbox' = [inbox EXCEPT ![n] = c] /\ Remembers /\ history'.raced = history.raced
        /\ UNCHANGED <<jobs, stored, manifest, output, thread>>
      BY <1>2, DropFileDoes DEF IntakeInv
  <2>2. inbox' \in Inboxes BY <2>1 DEF IntakeInv, Types, Inboxes
  <2> QED BY <2>1, <2>2, JobsStay, AtTheSide DEF Remembers, Keeps
<1>3. ASSUME NEW j \in DOMAIN jobs, Approve(j) \/ CancelJob(j) \/ RequeueSkipped(j)
      PROVE  IntakeInv'
  <2>1. Types /\ j \in 1 .. Len(jobs) /\ DOMAIN jobs = 1 .. Len(jobs) BY JobsTyped DEF IntakeInv
  <2>2. CASE Approve(j) \/ CancelJob(j)
    <3>1. /\ Active(j) /\ Rest /\ UNCHANGED <<inbox, thread>>
          /\ \/ \E approved :
                  JobBecomes(j, jobs[j].stage, jobs[j].captured, approved, jobs[j].note)
             \/ JobBecomes(j, "cancelled", jobs[j].captured, jobs[j].approved, jobs[j].note)
        BY <2>1, <2>2, PersonOnJobDoes
    <3>2. jobs[j].stage \in {"extracted", "saved_clean", "completed"} => jobs[j].captured # none
        BY <2>1 DEF IntakeInv, Captured
    <3>3. /\ jobs[j].stage # "completed" /\ history'.raced = history.raced
          /\ history'.legacy = history.legacy
        BY <3>1, StagesKnown DEF Active, Rest
    <3>4. ASSUME NEW approved,
                 JobBecomes(j, jobs[j].stage, jobs[j].captured, approved, jobs[j].note)
          PROVE  JobsKept
        BY <3>1, <3>2, <3>3, <3>4, JobMoves
    <3>5. ASSUME JobBecomes(j, "cancelled", jobs[j].captured, jobs[j].approved, jobs[j].note)
          PROVE  JobsKept
      <4>1. Active(j) BY <3>1
      <4> QED BY <3>3, <3>5, <4>1, JobMoves
    <3>6. JobsKept BY <3>1, <3>4, <3>5
    <3>7. Remembers BY <3>1 DEF Rest, Remembers, Keeps, IntakeInv, Types
    <3> QED BY <3>1, <3>6, <3>7, InboxStays, AtTheSide DEF Rest
  <2>3. CASE RequeueSkipped(j)
    <3>1. /\ JobAppears(jobs[j].content, jobs[j].name)
          /\ history'.raced = IF Reusable(jobs[j].content) = 0 THEN history.raced
                              ELSE history.raced \union {jobs[j].content}
          /\ Remembers /\ UNCHANGED <<inbox, stored, manifest, output, thread>>
        BY <2>1, <2>3, RequeueSkippedDoes
    <3>2. jobs[j].content \in Contents BY <2>1, JobsTyped DEF Job
    <3>3. JobsKept BY <3>1, <3>2, JobEnters DEF Remembers, Keeps
    <3> QED BY <3>1, <3>3, InboxStays, AtTheSide
  <2> QED BY <1>3, <2>2, <2>3
<1> QED BY <1>1, <1>2, <1>3 DEF PersonNext

LEMMA NextInv == ASSUME IntakeInv, [Next]_vars PROVE IntakeInv'
<1>1. ASSUME NEW t \in Threads, Step(t) PROVE IntakeInv'
    BY <1>1, RunInv, DeleteSourceInv, HandleFailureInv, WriteItemsInv, WriteFailsInv,
       EndFailureInv DEF Step, Proceed, Onestep
<1>2. ASSUME NEW t \in Threads, Register(t) \/ SubmitFails(t) PROVE IntakeInv'
    BY <1>2, CreateInv, AdvanceInv, SubmitFailsInv DEF Register
<1>3. ASSUME NEW t \in Threads, NEW n \in Names, Submit(t, n) PROVE IntakeInv'
    BY <1>3, SubmitInv
<1>4. ASSUME NEW t \in Pollers, ResumePending(t) PROVE IntakeInv'
    BY <1>4, ResumePendingInv
<1>5. CASE UNCHANGED vars
  <2>1. JobsKept BY <1>5, JobsStay DEF vars
  <2>2. Remembers BY <1>5 DEF vars, Remembers, Keeps, IntakeInv, Types
  <2> QED BY <1>5, <2>1, <2>2, InboxStays, AtTheSide DEF vars
<1> QED BY <1>1, <1>2, <1>3, <1>4, <1>5, PersonInv, CrashInv DEF Next

LEMMA InitInv == Init => IntakeInv
<1> SUFFICES ASSUME Init PROVE IntakeInv
    OBVIOUS
<1>1. /\ inbox = [n \in Names |-> none] /\ jobs = <<>> /\ stored = [i \in Ids |-> none]
      /\ manifest = [i \in Ids |-> "absent"] /\ output = [n \in Names |-> none]
      /\ thread = [t \in Threads |-> Resting]
    BY DEF Init
<1>2. PICK budget \in Budgets, legacy \in Modes :
        history = [given |-> {}, left |-> budget, raced |-> {}, disturbed |-> FALSE,
                   legacy |-> legacy]
    BY DEF Init
<1>3. Types
  <2>1. IsHistory(history) BY <1>2, IntakeAssumption DEF IsHistory
  <2>2. Resting \in Hands BY RestingHas DEF Has
  <2> QED BY <1>1, <2>1, <2>2 DEF Types, Statuses
<1>4. \A t \in Threads : /\ thread[t].pc = "idle" /\ thread[t].id = 0 /\ thread[t].job = 0
                         /\ thread[t].name = none
    BY <1>1, RestingHas DEF Has
<1>5. \A t \in Threads : Handles(t) BY <1>1, <1>4 DEF Handles
<1>6. OneHolder /\ BeingMoved BY <1>4 DEF OneHolder, BeingMoved
<1>7. "person" \in Threads BY DEF Threads
<1>8. BeingRestored BY <1>4, <1>7 DEF BeingRestored, At
<1>9. RecordsAreTrue BY <1>1 DEF RecordsAreTrue
<1>10. Captured /\ OnlyTheNewest BY <1>1 DEF Captured, OnlyTheNewest, JobsOf
<1> QED BY <1>3, <1>5, <1>6, <1>8, <1>9, <1>10 DEF IntakeInv

(* In every reachable state the variables have their shapes, each thread has in
   hand what its position in the code says, no two threads work on one job in
   the quarantine, and the verdicts of the manifest are true. *)
THEOREM IntakeInvariance == Spec => []IntakeInv
<1>1. IntakeInv /\ [Next]_vars => IntakeInv' BY NextInv
<1> QED BY <1>1, InitInv, PTL DEF Spec

(* The verdicts of the manifest hold for any number of threads, files and faults. *)
THEOREM ManifestIsTrue == Spec => []RecordsAreTrue
<1>1. IntakeInv => RecordsAreTrue BY DEF IntakeInv
<1> QED BY <1>1, IntakeInvariance, PTL

LEMMA NewestStandsAlone == IntakeInv => OneJobPerContent
<1> SUFFICES ASSUME IntakeInv, NEW c \in Contents \ history.raced
    PROVE  Cardinality({j \in JobsOf(c) :
             \/ Active(j) \/ jobs[j].stage = "quarantined"
             \/ (Legacy /\ jobs[j].stage = "completed" /\ jobs[j].note)}) <= 1
    BY DEF OneJobPerContent
<1> DEFINE standing == {j \in JobsOf(c) :
             \/ Active(j) \/ jobs[j].stage = "quarantined"
             \/ (Legacy /\ jobs[j].stage = "completed" /\ jobs[j].note)}
<1>1. standing \subseteq Nat /\ standing \subseteq JobsOf(c) BY JobsTyped DEF IntakeInv
<1>2. \A j \in standing : jobs[j].stage \notin Over BY StagesKnown DEF Active, Over
<1>3. \A j, k \in standing : ~(j < k)
  <2> HIDE DEF standing
  <2> QED BY <1>1, <1>2 DEF IntakeInv, OnlyTheNewest
<1>4. \A j, k \in standing : j = k
  <2>1. SUFFICES ASSUME NEW j \in standing, NEW k \in standing PROVE j = k OBVIOUS
  <2>2. j \in Nat /\ k \in Nat /\ ~(j < k) /\ ~(k < j) BY <1>1, <1>3
  <2> QED BY <2>2
<1> HIDE DEF standing
<1>5. standing = {} => Cardinality(standing) = 0 BY FS_EmptySet
<1>6. ASSUME NEW j \in standing PROVE Cardinality(standing) = 1
  <2>1. standing = {j} BY <1>4
  <2> QED BY <2>1, FS_Singleton
<1>7. Cardinality(standing) <= 1 BY <1>5, <1>6
<1> QED BY <1>7 DEF standing

(* One content is worked on, set aside or noted once, however many threads poll
   for it, skip it, cancel it, wait for its approvals or quarantine it, unless
   two of them submitted it at the same moment. *)
THEOREM ContentIsWorkedOnOnce == Spec => []OneJobPerContent
BY IntakeInvariance, NewestStandsAlone, PTL

-----------------------------------------------------------------------------
(* Where nobody replaces a file that is being processed, nothing is lost. *)

(* What a step may newly record of the jobs was already so. *)
JobsNews ==
  \A j \in 1 .. Len(jobs') :
    /\ Tied(jobs'[j].content, jobs'[j].name)
    /\ jobs'[j].stage \in ActiveStages /\ jobs'[j].captured # none =>
         About(jobs'[j].name, jobs'[j].captured)

LEMMA JobTied ==
  ASSUME Types, NEW j \in 1 .. Len(jobs)
  PROVE  /\ Tied(jobs[j].content, jobs[j].name)
         /\ Active(j) => About(jobs[j].name, jobs[j].captured)
BY JobsTyped DEF Tied, About

LEMMA StayNews == ASSUME Types, UNCHANGED jobs PROVE JobsNews
BY JobTied DEF JobsNews, Active

LEMMA MoveNews ==
  ASSUME Types, NEW j, NEW stage, NEW captured, NEW approved, NEW note,
         JobBecomes(j, stage, captured, approved, note), Active(j),
         captured = jobs[j].captured \/ About(jobs[j].name, captured)
  PROVE  JobsNews
<1>1. /\ Len(jobs') = Len(jobs) /\ j \in 1 .. Len(jobs)
      /\ Row(jobs'[j], j, stage, captured, approved, note)
      /\ \A k \in (1 .. Len(jobs)) \ {j} : jobs'[k] = jobs[k]
    BY DEF JobBecomes, Same
<1>2. SUFFICES ASSUME NEW k \in 1 .. Len(jobs)
               PROVE  /\ Tied(jobs'[k].content, jobs'[k].name)
                      /\ jobs'[k].stage \in ActiveStages /\ jobs'[k].captured # none =>
                           About(jobs'[k].name, jobs'[k].captured)
    BY <1>1 DEF JobsNews
<1>3. CASE k = j
  <2>1. /\ jobs'[j].content = jobs[j].content /\ jobs'[j].name = jobs[j].name
        /\ jobs'[j].captured = captured
      BY <1>1 DEF Row
  <2>2. About(jobs[j].name, captured) BY <1>1, JobTied
  <2> QED BY <1>1, <1>3, <2>1, <2>2, JobTied
<1>4. CASE k # j BY <1>1, <1>4, JobTied DEF Active
<1> QED BY <1>3, <1>4

LEMMA EnterNews ==
  ASSUME Types, NEW c, NEW n, JobAppears(c, n), Tied(c, n) PROVE JobsNews
<1>1. /\ Len(jobs') = Len(jobs) + 1 /\ Len(jobs) \in Nat
      /\ \A k \in 1 .. Len(jobs) : jobs'[k] = jobs[k]
      /\ jobs'[Len(jobs) + 1].content = c /\ jobs'[Len(jobs) + 1].name = n
      /\ jobs'[Len(jobs) + 1].captured = none
    BY JobsTyped DEF JobAppears
<1>2. SUFFICES ASSUME NEW k \in 1 .. (Len(jobs) + 1)
               PROVE  /\ Tied(jobs'[k].content, jobs'[k].name)
                      /\ jobs'[k].stage \in ActiveStages /\ jobs'[k].captured # none =>
                           About(jobs'[k].name, jobs'[k].captured)
    BY <1>1 DEF JobsNews
<1>3. CASE k = Len(jobs) + 1 BY <1>1, <1>3
<1>4. CASE k # Len(jobs) + 1
  <2>1. k \in 1 .. Len(jobs) BY <1>1, <1>4
  <2> QED BY <1>1, <2>1, JobTied DEF Active
<1> QED BY <1>3, <1>4

(* What a step may newly record of a thread was already so. *)
ThreadNews(t) ==
  /\ thread'[t].id # 0 => thread'[t] = thread[t]
  /\ thread'[t].pc = "create" => Tied(thread'[t].code, thread'[t].name)
  /\ thread'[t].pc = "drop" => About(thread'[t].name, jobs'[thread'[t].job].captured)
  /\ t # "person" /\ thread'[t].job # 0 => jobs'[thread'[t].job].name = thread'[t].name

LEMMA StandsNews ==
  ASSUME IntakeInv, SameName, Grows, NEW t \in Threads, thread'[t] = thread[t] PROVE ThreadNews(t)
<1>1. Handles(t) /\ Len(jobs) \in Nat BY JobsTyped DEF IntakeInv
<1>2. thread[t].pc = "create" => Tied(thread[t].code, thread[t].name)
    BY DEF Tied, At
<1>3. thread[t].pc = "drop" => About(thread[t].name, jobs'[thread[t].job].captured)
  <2>1. SUFFICES ASSUME thread[t].pc = "drop"
                 PROVE  About(thread[t].name, jobs'[thread[t].job].captured)
      OBVIOUS
  <2>2. thread[t].job \in 1 .. Len(jobs) /\ jobs[thread[t].job].stage = "completed"
      BY <1>1, <2>1, ItsJob DEF Handles
  <2>3. jobs'[thread[t].job] = jobs[thread[t].job] BY <2>2, StagesKnown DEF Grows
  <2> QED BY <2>1, <2>3 DEF About, At
<1>4. t # "person" /\ thread[t].job # 0 => jobs'[thread[t].job].name = thread[t].name
  <2>1. SUFFICES ASSUME t # "person", thread[t].job # 0
                 PROVE  jobs'[thread[t].job].name = thread[t].name
      OBVIOUS
  <2>2. thread[t].job \in 1 .. Len(jobs) BY <1>1, <2>1 DEF Handles
  <2> QED BY <2>1, <2>2 DEF Grows, SameName
<1> QED BY <1>2, <1>3, <1>4 DEF ThreadNews

Completed(c) == \E j \in DOMAIN jobs : jobs[j].captured = c /\ jobs[j].stage = "completed"

LEMMA CompletedStays ==
  ASSUME Types, Grows, NEW c, Completed(c) PROVE Completed(c)'
<1>1. PICK j \in 1 .. Len(jobs) : jobs[j].captured = c /\ jobs[j].stage = "completed"
    BY JobsTyped DEF Completed
<1>2. jobs'[j] = jobs[j] BY <1>1, StagesKnown DEF Grows
<1>3. j \in DOMAIN jobs' BY JobsTyped DEF Grows
<1> QED BY <1>1, <1>2, <1>3 DEF Completed

(* A step that moves no item, and deletes at most what a note has. *)
LEMMA Calm ==
  ASSUME IntakeInv, Safe, Grows, JobsNews, \A t \in Threads : ThreadNews(t),
         history'.given = history.given, UNCHANGED <<stored, output>>,
         \A n \in Names : inbox'[n] = inbox[n] \/ (inbox'[n] = none /\ Completed(inbox[n]))
  PROVE  Safe'
<1>1. Types /\ DOMAIN jobs' = 1 .. Len(jobs') BY DEF IntakeInv, Grows
<1>2. ASSUME NEW c \in Contents, NEW n \in Names, Tied(c, n)' PROVE Tied(c, n)
  <2>1. CASE inbox'[n] = c
    <3>1. inbox[n] = c BY <2>1, IntakeAssumption
    <3> QED BY <3>1 DEF Tied
  <2>2. ASSUME NEW j \in DOMAIN jobs', jobs'[j].content = c, jobs'[j].name = n PROVE Tied(c, n)
      BY <1>1, <2>2 DEF JobsNews
  <2>3. ASSUME NEW t \in Threads, thread'[t].pc = "create", thread'[t].code = c,
               thread'[t].name = n
        PROVE  Tied(c, n)
      BY <2>3 DEF ThreadNews
  <2>4. ASSUME NEW t \in Threads \ {"person"}, thread'[t].id # 0,
               stored[thread'[t].id].content = c, thread'[t].name = n
        PROVE  Tied(c, n)
    <3>1. thread'[t] = thread[t] BY <2>4 DEF ThreadNews
    <3> QED BY <2>4, <3>1 DEF Tied, Movers
  <2> QED BY <1>2, <2>1, <2>2, <2>3, <2>4 DEF Tied, At, Movers
<1>3. ASSUME NEW c \in Contents, NEW n \in Names, About(n, c)' PROVE About(n, c)
  <2>1. CASE inbox'[n] = c
    <3>1. inbox[n] = c BY <2>1, IntakeAssumption
    <3> QED BY <3>1 DEF About
  <2>2. ASSUME NEW j \in DOMAIN jobs', jobs'[j].stage \in ActiveStages, jobs'[j].name = n,
               jobs'[j].captured = c
        PROVE  About(n, c)
      BY <1>1, <2>2, IntakeAssumption DEF JobsNews
  <2>3. ASSUME NEW t \in Threads, thread'[t].pc = "drop", jobs'[thread'[t].job].captured = c,
               thread'[t].name = n
        PROVE  About(n, c)
      BY <2>3 DEF ThreadNews
  <2>4. ASSUME NEW t \in Threads \ {"person"}, thread'[t].id # 0,
               stored[thread'[t].id].content = c, thread'[t].name = n
        PROVE  About(n, c)
    <3>1. thread'[t] = thread[t] BY <2>4 DEF ThreadNews
    <3> QED BY <2>4, <3>1 DEF About, Movers
  <2> QED BY <1>3, <2>1, <2>2, <2>3, <2>4 DEF About, Active, At, Movers
<1>4. AllGiven' BY <1>2 DEF Safe, AllGiven
<1>5. OneHome' BY <1>2 DEF Safe, OneHome
<1>6. OneConcern' BY <1>3 DEF Safe, OneConcern
<1>7. SameName' BY DEF ThreadNews, SameName
<1>8. OneMover'
  <2>1. \A t \in Movers' : t \in Movers /\ thread'[t] = thread[t] BY DEF Movers, ThreadNews
  <2>2. \A t \in Movers : thread[t].name \in Names
    <3>1. SUFFICES ASSUME NEW t \in Movers PROVE thread[t].name \in Names OBVIOUS
    <3>2. t \in Threads /\ t # "person" /\ thread[t].pc = "write" /\ thread[t] \in Hands
          /\ Handles(t)
        BY <1>1 DEF Movers, IntakeInv, Types, Handles
    <3> QED BY <3>2 DEF Handles, Hands
  <2> QED BY <2>1, <2>2 DEF Safe, OneMover
<1>9. NothingLost'
  <2>1. SUFFICES ASSUME NEW c \in history.given
                 PROVE  \/ \E n \in Names : inbox'[n] = c \/ output[n] = c
                        \/ \E i \in Ids : stored[i] # none /\ stored[i].content = c
                        \/ Completed(c)'
      BY DEF NothingLost, Completed
  <2>2. Completed(c) => Completed(c)' BY <1>1, CompletedStays
  <2> QED BY <2>2 DEF Safe, NothingLost, Completed
<1> QED BY <1>4, <1>5, <1>6, <1>7, <1>8, <1>9 DEF Safe

LEMMA NameStays ==
  ASSUME IntakeInv, SameName, Grows, NEW t \in Threads, t # "person", thread[t].job # 0
  PROVE  jobs'[thread[t].job].name = thread[t].name
<1>1. Handles(t) /\ Len(jobs) \in Nat BY JobsTyped DEF IntakeInv
<1>2. thread[t].job \in 1 .. Len(jobs) BY <1>1 DEF Handles
<1> QED BY <1>2 DEF Grows, SameName

LEMMA StopsNews == ASSUME NEW t \in Threads, Stops(t) PROVE ThreadNews(t) /\ Alone(t)
BY DEF Stops, NowHas, Has, ThreadNews

LEMMA HandleNews ==
  ASSUME NEW t \in Threads, NEW code, ToHandle(t, code), thread[t].id = 0
  PROVE  ThreadNews(t) /\ Alone(t)
BY DEF ToHandle, NowHas, Has, ThreadNews

LEMMA CalmBy ==
  ASSUME IntakeInv, Safe, Grows, JobsNews, NEW t \in Threads, ThreadNews(t), Alone(t),
         history'.given = history.given, UNCHANGED <<stored, output>>,
         \A n \in Names : inbox'[n] = inbox[n] \/ (inbox'[n] = none /\ Completed(inbox[n]))
  PROVE  Safe'
<1>1. ASSUME NEW u \in Threads PROVE ThreadNews(u)
    BY StandsNews DEF Safe, Alone
<1> QED BY <1>1, Calm

LEMMA SubmitKeeps ==
  ASSUME IntakeInv, Safe, NEW t \in Threads, NEW n \in Names, Submit(t, n) PROVE Safe'
<1>1. SubmitEffect(t, n) BY SubmitDoes DEF IntakeInv
<1>2. /\ inbox[n] \in Contents /\ history'.given = history.given
      /\ UNCHANGED <<inbox, jobs, stored, manifest, output>>
    BY <1>1 DEF SubmitEffect, IntakeInv, Types
<1>3. Grows /\ JobsNews BY <1>1, JobsStay, StayNews
       DEF SubmitEffect, JobsKept, IntakeInv, Remembers, Keeps
<1>4. Tied(inbox[n], n) BY DEF Tied
<1>5. CASE NowHas(t, "create", n, 0, 0, inbox[n], none, FALSE)
  <2>1. ThreadNews(t) /\ Alone(t) BY <1>4, <1>5 DEF NowHas, Has, ThreadNews
  <2> QED BY <1>2, <1>3, <2>1, CalmBy
<1>6. CASE /\ Reusable(inbox[n]) \in JobsOf(inbox[n])
           /\ NowHas(t, "work", n, Reusable(inbox[n]), 0, none, none, FALSE)
  <2> DEFINE j == Reusable(inbox[n])
  <2>1. j \in 1 .. Len(jobs) /\ jobs[j].content = inbox[n] /\ jobs[j] \in Job
      BY <1>6, JobsTyped DEF IntakeInv
  <2>2. jobs[j].name \in Names /\ Tied(inbox[n], jobs[j].name)
      BY <2>1, JobTied DEF IntakeInv, Job
  <2>3. jobs[j].name = n BY <1>2, <1>4, <2>2 DEF Safe, OneHome
  <2>4. ThreadNews(t) /\ Alone(t) BY <1>2, <1>6, <2>3 DEF NowHas, Has, ThreadNews
  <2> QED BY <1>2, <1>3, <2>4, CalmBy
<1> QED BY <1>1, <1>5, <1>6 DEF SubmitEffect

LEMMA SubmitFailsKeeps ==
  ASSUME IntakeInv, Safe, NEW t \in Threads, SubmitFails(t) PROVE Safe'
<1>1. /\ t # "person" /\ thread[t].pc \in {"create", "advance"}
      /\ ToHandle(t, "job_store_busy") \/ Stops(t)
      /\ Rest /\ UNCHANGED <<inbox, jobs>>
    BY SubmitFailsDoes DEF IntakeInv
<1>2. Grows /\ JobsNews BY <1>1, JobsStay, StayNews DEF Rest, JobsKept, IntakeInv
<1>3. thread[t].id = 0 BY <1>1, Working
<1>4. ThreadNews(t) /\ Alone(t)
  <2>1. CASE Stops(t) BY <2>1, StopsNews
  <2>2. CASE ToHandle(t, "job_store_busy") BY <1>3, <2>2, HandleNews
  <2> QED BY <1>1, <2>1, <2>2
<1> QED BY <1>1, <1>2, <1>4, CalmBy DEF Rest

LEMMA CreateKeeps ==
  ASSUME IntakeInv, Safe, NEW t \in Threads, Create(t) PROVE Safe'
<1> DEFINE c == thread[t].code
           n == thread[t].name
<1>1. At(t, "create") BY DEF Create
<1>2. t # "person" /\ n \in Names /\ thread[t].id = 0 /\ c \in Contents
    BY <1>1, Working DEF At, IntakeInv, Handles
<1>3. /\ \/ /\ JobAppears(c, n)
            /\ NowHas(t, "advance", n, Len(jobs) + 1, thread[t].id, none, thread[t].snapshot,
                       thread[t].moved)
            /\ history'.raced = IF Reusable(c) = 0 THEN history.raced ELSE history.raced \union {c}
         \/ Stops(t) /\ UNCHANGED <<jobs, history>>
      /\ Remembers /\ history'.given = history.given /\ UNCHANGED <<inbox, stored, manifest, output>>
    BY <1>2, CreateDoes DEF IntakeInv
<1>4. CASE Stops(t) /\ UNCHANGED <<jobs, history>>
  <2>1. Grows /\ JobsNews BY <1>4, JobsStay, StayNews DEF JobsKept, IntakeInv
  <2> QED BY <1>3, <1>4, <2>1, StopsNews, CalmBy
<1>5. CASE /\ JobAppears(c, n)
           /\ NowHas(t, "advance", n, Len(jobs) + 1, thread[t].id, none, thread[t].snapshot,
                      thread[t].moved)
           /\ history'.raced = IF Reusable(c) = 0 THEN history.raced ELSE history.raced \union {c}
  <2>1. Tied(c, n) BY <1>1 DEF Tied
  <2>2. Grows BY <1>2, <1>3, <1>5, JobEnters DEF JobsKept, Remembers, Keeps
  <2>3. JobsNews BY <1>5, <2>1, EnterNews DEF IntakeInv
  <2>4. jobs'[Len(jobs) + 1].name = n BY <1>5 DEF JobAppears
  <2>5. ThreadNews(t) /\ Alone(t) BY <1>2, <1>5, <2>4 DEF NowHas, Has, ThreadNews
  <2> QED BY <1>3, <2>2, <2>3, <2>5, CalmBy
<1> QED BY <1>3, <1>4, <1>5

LEMMA AdvanceKeeps ==
  ASSUME IntakeInv, Safe, NEW t \in Threads, Advance(t) PROVE Safe'
<1> DEFINE j == thread[t].job
<1>1. At(t, "advance") BY DEF Advance
<1>2. j \in 1 .. Len(jobs) /\ t # "person" /\ thread[t].id = 0
    BY <1>1, ItsJob, Working DEF At
<1>3. /\ \/ /\ Active(j) /\ Onward(t, "work")
            /\ \/ JobBecomes(j, "stabilized", jobs[j].captured, jobs[j].approved, jobs[j].note)
               \/ UNCHANGED jobs
         \/ UNCHANGED jobs /\ (ToHandle(t, "illegal_job_transition") \/ Stops(t))
      /\ Rest /\ UNCHANGED inbox
    BY <1>2, AdvanceDoes DEF IntakeInv
<1>4. Grows /\ JobsNews
  <2>1. CASE UNCHANGED jobs BY <1>3, <2>1, JobsStay, StayNews DEF Rest, JobsKept, IntakeInv
  <2>2. CASE /\ Active(j)
             /\ JobBecomes(j, "stabilized", jobs[j].captured, jobs[j].approved, jobs[j].note)
    <3>1. JobsKept BY <1>3, <2>2, JobMoves DEF Rest
    <3>2. JobsNews BY <2>2, MoveNews DEF IntakeInv
    <3> QED BY <3>1, <3>2 DEF JobsKept
  <2> QED BY <1>3, <2>1, <2>2
<1>5. ThreadNews(t) /\ Alone(t)
  <2>1. CASE Stops(t) BY <2>1, StopsNews
  <2>2. CASE ToHandle(t, "illegal_job_transition")
      BY <1>2, <2>2, HandleNews
  <2>3. CASE Onward(t, "work")
    <3>1. j # 0 => jobs'[j].name = thread[t].name BY <1>2, <1>4, NameStays DEF Safe
    <3> QED BY <1>2, <2>3, <3>1 DEF Onward, NowHas, Has, ThreadNews
  <2> QED BY <1>3, <2>1, <2>2, <2>3
<1> QED BY <1>3, <1>4, <1>5, CalmBy DEF Rest

LEMMA ResumePendingKeeps ==
  ASSUME IntakeInv, Safe, NEW t \in Pollers, ResumePending(t) PROVE Safe'
<1>1. /\ t # "person" /\ t \in Threads /\ Rest /\ UNCHANGED <<inbox, jobs>>
      /\ \E j \in 1 .. Len(jobs) :
           Active(j) /\ NowHas(t, "work", jobs[j].name, j, 0, none, none, FALSE)
    BY ResumePendingDoes DEF IntakeInv
<1>2. Grows /\ JobsNews BY <1>1, JobsStay, StayNews DEF Rest, JobsKept, IntakeInv
<1>3. ThreadNews(t) /\ Alone(t) BY <1>1 DEF NowHas, Has, ThreadNews
<1> QED BY <1>1, <1>2, <1>3, CalmBy DEF Rest

LEMMA RunKeeps ==
  ASSUME IntakeInv, Safe, NEW t \in Threads,
         Onestep(t) \/ NothingToDo(t) \/ Complete(t) \/ Fault(t)
  PROVE  Safe'
<1> DEFINE j == thread[t].job
<1>1. At(t, "work")
    BY DEF Onestep, Stabilize, Capture, Park, Wait, Skip, NothingToDo, Complete, Fault
<1>2. j \in 1 .. Len(jobs) /\ t # "person" /\ thread[t].id = 0 /\ Types /\ Captured
    BY <1>1, ItsJob, Working DEF At, IntakeInv
<1>3. jobs[j].name = thread[t].name BY <1>2 DEF Safe, SameName
<1>4. SUFFICES ASSUME UNCHANGED <<stored, output>>, UNCHANGED inbox, UNCHANGED history
               PROVE  Grows /\ JobsNews /\ ThreadNews(t) /\ Alone(t)
  <2>1. UNCHANGED <<stored, output, inbox, history>>
      BY DEF Onestep, Stabilize, Capture, Park, Wait, Skip, NothingToDo, Complete, Fault
  <2>2. \A n \in Names : inbox'[n] = inbox[n] BY <2>1
  <2> QED BY <2>1, <2>2, CalmBy
<1>5. CASE NothingToDo(t)
  <2>1. Stops(t) /\ UNCHANGED jobs BY <1>2, <1>5, NothingToDoDoes
  <2> QED BY <1>2, <1>4, <2>1, JobsStay, StayNews, StopsNews DEF JobsKept
<1>6. CASE Onestep(t)
  <2>1. /\ Active(j) /\ Stops(t)
        /\ \E stage, captured, approved : BecomesNext(j, stage, captured, approved)
      BY <1>2, <1>6, OnestepDoes
  <2>2. PICK stage, captured, approved : BecomesNext(j, stage, captured, approved) BY <2>1
  <2>3. /\ JobBecomes(j, stage, captured, approved, jobs[j].note) /\ stage # "completed"
        /\ captured = jobs[j].captured \/ (captured = Bytes(j) /\ captured \in Contents)
        /\ stage \in {"extracted", "saved_clean"} => captured # none
      BY <2>2 DEF BecomesNext
  <2>4. captured = jobs[j].captured \/ About(jobs[j].name, captured) BY <2>3 DEF Bytes, About
  <2>5. JobsKept BY <1>4, <2>1, <2>3, JobMoves
  <2>6. JobsNews BY <1>2, <2>1, <2>3, <2>4, MoveNews
  <2> QED BY <2>1, <2>5, <2>6, StopsNews DEF JobsKept
<1>7. CASE Complete(t)
  <2>1. /\ jobs[j].stage = "saved_clean"
        /\ JobBecomes(j, "completed", jobs[j].captured, jobs[j].approved, TRUE)
        /\ Onward(t, "drop") \/ Stops(t)
      BY <1>2, <1>7, CompleteDoes
  <2>2. jobs[j].captured # none /\ Active(j)
      BY <1>2, <2>1, JobsTyped, StagesKnown DEF IntakeInv, Captured, Active
  <2>3. JobsKept BY <1>4, <2>1, <2>2, JobMoves
  <2>4. JobsNews BY <1>2, <2>1, <2>2, MoveNews
  <2>5. About(thread[t].name, jobs'[j].captured)
    <3>1. jobs'[j].captured = jobs[j].captured BY <2>1 DEF JobBecomes, Row
    <3> QED BY <1>2, <1>3, <2>2, <3>1, JobTied
  <2>6. CASE Onward(t, "drop")
    <3>1. j # 0 => jobs'[j].name = thread[t].name BY <1>2, <2>3, NameStays DEF Safe, JobsKept
    <3>2. ThreadNews(t) /\ Alone(t) BY <1>2, <2>5, <2>6, <3>1 DEF Onward, NowHas, Has, ThreadNews
    <3> QED BY <2>3, <2>4, <3>2 DEF JobsKept
  <2>7. CASE Stops(t) BY <2>3, <2>4, <2>7, StopsNews DEF JobsKept
  <2> QED BY <2>1, <2>6, <2>7
<1>8. CASE Fault(t)
  <2>1. PICK code :
        /\ Active(j)
        /\ JobBecomes(j, jobs[j].stage, jobs[j].captured, jobs[j].approved, jobs[j].note)
        /\ NowHas(t, "handle", thread[t].name, thread[t].job, thread[t].id, code,
                   thread[t].snapshot, thread[t].moved)
      BY <1>2, <1>8, FaultDoes
  <2>2. jobs[j].stage \in {"extracted", "saved_clean", "completed"} => jobs[j].captured # none
      BY <1>2, JobsTyped DEF IntakeInv, Captured
  <2>3. jobs[j].stage # "completed" BY <2>1, StagesKnown DEF Active
  <2>4. JobsKept BY <1>4, <2>1, <2>2, <2>3, JobMoves
  <2>5. JobsNews BY <1>2, <2>1, MoveNews
  <2>6. j # 0 => jobs'[j].name = thread[t].name BY <1>2, <2>4, NameStays DEF Safe, JobsKept
  <2>7. ThreadNews(t) /\ Alone(t) BY <1>2, <2>1, <2>6 DEF NowHas, Has, ThreadNews
  <2> QED BY <2>4, <2>5, <2>7 DEF JobsKept
<1> QED BY <1>5, <1>6, <1>7, <1>8

LEMMA DeleteSourceKeeps ==
  ASSUME IntakeInv, Safe, NEW t \in Threads, DeleteSource(t) PROVE Safe'
<1> DEFINE j == thread[t].job
           n == jobs[j].name
<1>1. /\ At(t, "drop") /\ Stops(t) /\ Rest /\ UNCHANGED jobs
      /\ inbox' = [inbox EXCEPT ![n] = none]
    BY DeleteSourceDoes DEF IntakeInv
<1>2. /\ j \in 1 .. Len(jobs) /\ t # "person" /\ jobs[j].stage = "completed"
      /\ Types /\ DOMAIN jobs = 1 .. Len(jobs) /\ jobs[j] \in Job
    BY <1>1, ItsJob, Working, JobsTyped DEF At, IntakeInv, Handles
<1>3. thread[t].name = n /\ n \in Names BY <1>2 DEF Safe, SameName, Job
<1>4. Grows /\ JobsNews BY <1>1, <1>2, JobsStay, StayNews DEF Rest, JobsKept
<1>5. ASSUME NEW m \in Names
      PROVE  inbox'[m] = inbox[m] \/ (inbox'[m] = none /\ Completed(inbox[m]))
  <2>1. CASE m # n \/ inbox[m] = none BY <1>1, <1>2, <2>1 DEF Types
  <2>2. CASE m = n /\ inbox[m] # none
    <3>1. inbox[n] \in Contents BY <1>2, <2>2 DEF Types
    <3>2. jobs[j].captured \in Contents BY <1>2 DEF IntakeInv, Captured, Job
    <3>3. About(n, inbox[n]) /\ About(n, jobs[j].captured) BY <1>1, <1>3 DEF About
    <3>4. jobs[j].captured = inbox[n] BY <1>3, <3>1, <3>2, <3>3 DEF Safe, OneConcern
    <3>5. Completed(inbox[n]) BY <1>2, <3>4 DEF Completed
    <3> QED BY <1>1, <1>2, <2>2, <3>5 DEF Types
  <2> QED BY <2>1, <2>2
<1> QED BY <1>1, <1>4, <1>5, StopsNews, CalmBy DEF Rest

LEMMA EndFailureKeeps ==
  ASSUME IntakeInv, Safe, NEW t \in Threads, EndFailure(t) PROVE Safe'
<1> DEFINE j == thread[t].job
<1>1. At(t, "end") BY DEF EndFailure
<1>2. j \in 0 .. Len(jobs) BY <1>1, Working DEF At
<1>3. /\ Stops(t) /\ Rest /\ UNCHANGED inbox
      /\ \/ UNCHANGED jobs
         \/ /\ j \in 1 .. Len(jobs) /\ Active(j)
            /\ \E stage \in {"quarantined", "failed"} :
                 JobBecomes(j, stage, jobs[j].captured, jobs[j].approved, jobs[j].note)
    BY <1>2, EndFailureDoes DEF IntakeInv
<1>4. Grows /\ JobsNews
  <2>1. history'.raced = history.raced /\ history'.legacy = history.legacy BY <1>3 DEF Rest
  <2>2. CASE UNCHANGED jobs BY <2>1, <2>2, JobsStay, StayNews DEF JobsKept, IntakeInv
  <2>3. ASSUME NEW stage \in {"quarantined", "failed"}, Active(j),
               JobBecomes(j, stage, jobs[j].captured, jobs[j].approved, jobs[j].note)
        PROVE  Grows /\ JobsNews
    <3>1. JobsKept BY <2>1, <2>3, JobMoves
    <3>2. JobsNews BY <2>3, MoveNews DEF IntakeInv
    <3> QED BY <3>1, <3>2 DEF JobsKept
  <2> QED BY <1>3, <2>2, <2>3
<1> QED BY <1>3, <1>4, StopsNews, CalmBy DEF Rest

(* Only threads move, and none of them takes an item or leaves its name. *)
LEMMA HandsKeep ==
  ASSUME IntakeInv, Safe, NEW t \in Threads, Alone(t), UNCHANGED <<inbox, jobs, stored, output>>,
         history'.given = history.given, thread'[t].id = 0, thread'[t].pc \notin {"create", "drop"},
         \/ thread'[t].job = 0
         \/ t # "person" /\ thread'[t].job = thread[t].job /\ thread'[t].name = thread[t].name
  PROVE  Safe'
<1>1. Grows /\ JobsNews BY JobsTyped, StayNews DEF IntakeInv, Grows, Types
<1>2. ThreadNews(t)
  <2>1. t # "person" /\ thread[t].job # 0 => jobs'[thread[t].job].name = thread[t].name
      BY DEF Safe, SameName
  <2> QED BY <2>1 DEF ThreadNews
<1> QED BY <1>1, <1>2, CalmBy

LEMMA WriteItemsKeeps ==
  ASSUME IntakeInv, Safe, NEW t \in Threads, WriteItems(t) PROVE Safe'
<1>1. /\ At(t, "write") /\ Ended(t, thread[t].moved) /\ history'.given = history.given
      /\ UNCHANGED <<inbox, jobs, stored, output>>
    BY WriteItemsDoes DEF IntakeInv
<1>2. /\ Alone(t) /\ thread'[t].id = 0 /\ thread'[t].pc \notin {"create", "drop"}
      /\ \/ thread'[t].job = 0
         \/ t # "person" /\ thread'[t].job = thread[t].job /\ thread'[t].name = thread[t].name
    BY <1>1 DEF Ended, Stops, NowHas, Has
<1> QED BY <1>1, <1>2, HandsKeep

LEMMA CrashKeeps ==
  ASSUME IntakeInv, Safe, Crash PROVE Safe'
<1>1. /\ \A t \in Threads : thread'[t] = Resting
      /\ history'.given = history.given /\ UNCHANGED <<inbox, jobs, stored, manifest, output>>
    BY CrashDoes DEF IntakeInv
<1>2. \A t \in Threads : ThreadNews(t) BY <1>1, RestingHas DEF Has, ThreadNews
<1>3. Grows /\ JobsNews BY <1>1, JobsTyped, StayNews DEF IntakeInv, Grows, Types
<1> QED BY <1>1, <1>2, <1>3, Calm

(* The person moves an item, and no submitter has it. *)
LEMMA PersonMoves ==
  ASSUME IntakeInv, Safe, UNCHANGED <<inbox, jobs>>, history'.given = history.given,
         \A t \in Threads \ {"person"} :
           /\ thread'[t] = thread[t]
           /\ thread[t].id # 0 => stored'[thread[t].id] = stored[thread[t].id],
         thread'["person"].pc \notin {"create", "drop"}, NothingLost'
  PROVE  Safe'
<1>1. Movers' = Movers BY DEF Movers
<1>2. \A t \in Movers : /\ stored'[thread'[t].id] = stored[thread[t].id]
                        /\ thread'[t] = thread[t]
    BY DEF Movers
<1>3. \A t \in Threads, pc \in {"create", "drop"} :
        thread'[t].pc = pc => thread[t].pc = pc /\ thread'[t] = thread[t]
    OBVIOUS
<1>4. ASSUME NEW c \in Contents, NEW n \in Names, Tied(c, n)' PROVE Tied(c, n)
    BY <1>1, <1>2, <1>3, <1>4 DEF Tied, At
<1>5. ASSUME NEW c \in Contents, NEW n \in Names, About(n, c)' PROVE About(n, c)
    BY <1>1, <1>2, <1>3, <1>5 DEF About, At, Active
<1>6. AllGiven' /\ OneHome' BY <1>4 DEF Safe, AllGiven, OneHome
<1>7. OneConcern' BY <1>5 DEF Safe, OneConcern
<1>8. SameName' /\ OneMover' BY <1>1, <1>2 DEF Safe, SameName, OneMover
<1> QED BY <1>6, <1>7, <1>8 DEF Safe

LEMMA RestoreKeeps ==
  ASSUME IntakeInv, Safe, NEW i \in Ids, Restore(i) PROVE Safe'
<1>1. /\ manifest[i] = "quarantined" /\ stored[i] \in Stored
      /\ output' = [output EXCEPT ![stored[i].name] = stored[i].content]
      /\ stored' = [stored EXCEPT ![i] = none]
      /\ output[stored[i].name] = none
      /\ NowHas("person", "write", none, 0, i, stored[i], manifest, FALSE)
      /\ history'.given = history.given /\ UNCHANGED <<inbox, jobs, manifest>>
    BY RestoreDoes DEF IntakeInv
<1>2. Types /\ stored[i].name \in Names /\ stored[i].content \in Contents
    BY <1>1 DEF IntakeInv, Stored
<1>3. /\ \A k \in Ids \ {i} : stored'[k] = stored[k]
      /\ output'[stored[i].name] = stored[i].content
      /\ \A n \in Names \ {stored[i].name} : output'[n] = output[n]
    BY <1>1, <1>2 DEF Types
<1>4. /\ thread'["person"].pc = "write"
      /\ \A t \in Threads \ {"person"} : thread'[t] = thread[t]
    BY <1>1 DEF NowHas, Has, Alone
<1>5. ASSUME NEW t \in Threads \ {"person"}, thread[t].id # 0
      PROVE  stored'[thread[t].id] = stored[thread[t].id]
  <2>1. manifest[thread[t].id] = "absent" BY <1>5 DEF IntakeInv, BeingMoved
  <2>2. thread[t].id \in Ids BY <1>2, <1>5 DEF Types, Hands
  <2> QED BY <1>1, <1>3, <2>1, <2>2
<1>6. NothingLost'
  <2>1. SUFFICES ASSUME NEW c \in history.given
                 PROVE  \/ \E n \in Names : inbox[n] = c \/ output'[n] = c
                        \/ \E k \in Ids : stored'[k] # none /\ stored'[k].content = c
                        \/ Completed(c)
      BY <1>1 DEF NothingLost, Completed
  <2>2. c # none BY <1>2, IntakeAssumption DEF Types, IsHistory
  <2>3. ASSUME NEW n \in Names, output[n] = c PROVE output'[n] = c
      BY <1>1, <1>3, <2>2, <2>3
  <2>4. ASSUME NEW k \in Ids, stored[k] # none, stored[k].content = c
        PROVE  \/ \E n \in Names : output'[n] = c
               \/ stored'[k] # none /\ stored'[k].content = c
      BY <1>2, <1>3, <2>4
  <2> QED BY <2>3, <2>4 DEF Safe, NothingLost, Completed
<1> QED BY <1>1, <1>4, <1>5, <1>6, PersonMoves

LEMMA MoverHas ==
  ASSUME IntakeInv, Safe, NEW t \in Movers
  PROVE  /\ t \in Threads /\ t # "person" /\ thread[t].pc = "write" /\ thread[t].name \in Names
         /\ thread[t].id \in Ids /\ stored[thread[t].id] \in Stored
         /\ SourceOf(t) = thread[t].name
<1>1. t \in Threads /\ t # "person" /\ thread[t].id # 0 BY DEF Movers
<1>2. thread[t] \in Hands /\ Handles(t) BY <1>1 DEF IntakeInv, Types
<1>3. /\ thread[t].pc = "write" /\ thread[t].name \in Names /\ thread[t].id \in Ids
    BY <1>1, <1>2 DEF Handles, Hands
<1>4. stored[thread[t].id] \in Stored BY <1>1, <1>3 DEF IntakeInv, Types, BeingMoved
<1>5. SourceOf(t) = thread[t].name BY <1>1 DEF SourceOf, Safe, SameName
<1> QED BY <1>1, <1>3, <1>4, <1>5

LEMMA MoveKeeps ==
  ASSUME IntakeInv, Safe, NEW t \in Threads, t # "person", thread[t].pc = "handle",
         NEW n \in Names, NEW i \in Ids, inbox[n] # none, New(i), Reads(t, i, TRUE),
         n = SourceOf(t),
         stored' = [stored EXCEPT ![i] = [content |-> inbox[n], name |-> n]],
         inbox' = [inbox EXCEPT ![n] = none],
         UNCHANGED <<jobs, manifest, output, history>>
  PROVE  Safe'
<1>1. Types /\ none \notin Contents /\ inbox[n] \in Contents
    BY IntakeAssumption DEF IntakeInv, Types
<1>2. thread[t].name = n BY DEF SourceOf, Safe, SameName
<1>3. /\ stored'[i].content = inbox[n] /\ stored'[i] # none /\ stored[i] = none
      /\ \A k \in Ids \ {i} : stored'[k] = stored[k]
      /\ inbox'[n] = none /\ \A m \in Names \ {n} : inbox'[m] = inbox[m]
  <2>1. [content |-> inbox[n], name |-> n] # none BY <1>1, IntakeAssumption
  <2> QED BY <1>1, <2>1 DEF Types, New
<1>4. /\ thread'[t].pc = "write" /\ thread'[t].id = i
      /\ thread'[t].name = n /\ thread'[t].job = thread[t].job
      /\ \A u \in Threads \ {t} : thread'[u] = thread[u]
    BY <1>2 DEF Reads, NowHas, Has, Alone
<1>5. ASSUME NEW u \in Movers', u # t
      PROVE  u \in Movers /\ thread'[u] = thread[u] /\ thread[u].id \in Ids \ {i}
             /\ stored'[thread[u].id] = stored[thread[u].id] /\ thread[u].name # n
  <2>1. u \in Movers /\ thread'[u] = thread[u] BY <1>4, <1>5 DEF Movers
  <2>2. thread[u].id \in Ids /\ thread[u].id # i BY <2>1, MoverHas DEF New
  <2>3. thread[u].name # n BY <2>1 DEF Safe, OneMover
  <2> QED BY <1>3, <2>1, <2>2, <2>3
<1>6. \A u \in Threads, pc \in {"create", "drop"} :
        thread'[u].pc = pc => thread[u].pc = pc /\ thread'[u] = thread[u]
    BY <1>4
<1>7. \A m \in Names, c \in Contents : inbox'[m] = c => inbox[m] = c BY <1>1, <1>3
<1>8. \A u \in Movers', c \in Contents :
        stored'[thread'[u].id].content = c =>
          \/ c = inbox[n] /\ thread'[u].name = n
          \/ u \in Movers /\ stored[thread[u].id].content = c /\ thread'[u].name = thread[u].name
    BY <1>3, <1>4, <1>5
<1>9. ASSUME NEW c \in Contents, NEW m \in Names, Tied(c, m)' PROVE Tied(c, m)
    BY <1>6, <1>7, <1>8, <1>9 DEF Tied, At
<1>10. ASSUME NEW c \in Contents, NEW m \in Names, About(m, c)' PROVE About(m, c)
    BY <1>6, <1>7, <1>8, <1>10 DEF About, At, Active
<1>11. AllGiven' /\ OneHome' BY <1>9 DEF Safe, AllGiven, OneHome
<1>12. OneConcern' BY <1>10 DEF Safe, OneConcern
<1>13. SameName' BY <1>2, <1>4 DEF Safe, SameName
<1>14. OneMover'
  <2>1. \A u \in Movers' : inbox'[thread'[u].name] = none
    <3>1. SUFFICES ASSUME NEW u \in Movers' PROVE inbox'[thread'[u].name] = none OBVIOUS
    <3>2. CASE u = t BY <1>3, <1>4, <3>2
    <3>3. CASE u # t
      <4>1. thread[u].name \in Names /\ inbox[thread[u].name] = none
          BY <1>5, <3>3, MoverHas DEF Safe, OneMover
      <4> QED BY <1>3, <1>5, <3>3, <4>1
    <3> QED BY <3>2, <3>3
  <2>2. \A u, v \in Movers' : thread'[u].name = thread'[v].name => u = v
      BY <1>4, <1>5 DEF Safe, OneMover
  <2> QED BY <2>1, <2>2 DEF OneMover
<1>15. NothingLost'
  <2>1. SUFFICES ASSUME NEW c \in history.given
                 PROVE  \/ \E m \in Names : inbox'[m] = c \/ output[m] = c
                        \/ \E k \in Ids : stored'[k] # none /\ stored'[k].content = c
                        \/ Completed(c)
      BY DEF NothingLost, Completed
  <2>2. ASSUME NEW m \in Names, inbox[m] = c
        PROVE  inbox'[m] = c \/ (stored'[i] # none /\ stored'[i].content = c)
    <3>1. CASE m = n BY <1>3, <2>2, <3>1
    <3>2. CASE m # n BY <1>3, <2>2, <3>2
    <3> QED BY <3>1, <3>2
  <2>3. ASSUME NEW k \in Ids, stored[k] # none, stored[k].content = c
        PROVE  stored'[k] # none /\ stored'[k].content = c
      BY <1>3, <2>3
  <2> QED BY <2>2, <2>3 DEF Safe, NothingLost, Completed
<1> QED BY <1>11, <1>12, <1>13, <1>14, <1>15 DEF Safe

LEMMA HandleFailureKeeps ==
  ASSUME IntakeInv, Safe, NEW t \in Threads, HandleFailure(t) PROVE Safe'
<1> DEFINE n == SourceOf(t)
<1>1. At(t, "handle") BY DEF HandleFailure
<1>2. t # "person" /\ thread[t].id = 0 /\ n \in Names
    BY <1>1, Working, SourceIsAName DEF At
<1>3. /\ \/ Onward(t, "end") /\ UNCHANGED <<inbox, stored>>
         \/ Reads(t, thread[t].id, thread[t].moved) /\ UNCHANGED <<inbox, stored>>
         \/ \E i \in Ids :
              /\ inbox[n] # none /\ New(i) /\ Reads(t, i, TRUE)
              /\ stored' = [stored EXCEPT ![i] = [content |-> inbox[n], name |-> n]]
              /\ inbox' = [inbox EXCEPT ![n] = none]
      /\ UNCHANGED <<jobs, manifest, output, history>>
    BY <1>2, HandleFailureDoes DEF IntakeInv
<1>4. CASE Onward(t, "end") /\ UNCHANGED <<inbox, stored>>
  <2>1. /\ Alone(t) /\ thread'[t].id = 0 /\ thread'[t].pc = "end"
        /\ thread'[t].job = thread[t].job /\ thread'[t].name = thread[t].name
      BY <1>2, <1>4 DEF Onward, NowHas, Has
  <2> QED BY <1>2, <1>3, <1>4, <2>1, HandsKeep
<1>5. CASE Reads(t, thread[t].id, thread[t].moved) /\ UNCHANGED <<inbox, stored>>
  <2>1. /\ Alone(t) /\ thread'[t].id = 0 /\ thread'[t].pc = "write"
        /\ thread'[t].job = thread[t].job /\ thread'[t].name = thread[t].name
      BY <1>2, <1>5 DEF Reads, NowHas, Has
  <2> QED BY <1>2, <1>3, <1>5, <2>1, HandsKeep
<1>6. ASSUME NEW i \in Ids, inbox[n] # none, New(i), Reads(t, i, TRUE),
             stored' = [stored EXCEPT ![i] = [content |-> inbox[n], name |-> n]],
             inbox' = [inbox EXCEPT ![n] = none]
      PROVE  Safe'
    BY <1>1, <1>2, <1>3, <1>6, MoveKeeps DEF At
<1> QED BY <1>3, <1>4, <1>5, <1>6

(* The file of a move that could not be recorded goes back to its place. *)
LEMMA PutBackKeeps ==
  ASSUME IntakeInv, Safe, NEW t \in Movers, Ended(t, FALSE),
         inbox' = [inbox EXCEPT ![SourceOf(t)] = stored[thread[t].id].content],
         stored' = [stored EXCEPT ![thread[t].id] = none],
         UNCHANGED <<jobs, manifest, history, output>>
  PROVE  Safe'
<1> DEFINE id == thread[t].id
           n == thread[t].name
           c0 == stored[id].content
<1>1. /\ t \in Threads /\ t # "person" /\ thread[t].pc = "write" /\ n \in Names
      /\ id \in Ids /\ stored[id] \in Stored /\ SourceOf(t) = n
    BY MoverHas
<1>2. /\ Types /\ none \notin Contents /\ c0 \in Contents /\ 0 \notin Ids
    BY <1>1, IntakeAssumption DEF IntakeInv, Stored, Ids
<1>3. /\ inbox'[n] = c0 /\ inbox[n] = none /\ \A m \in Names \ {n} : inbox'[m] = inbox[m]
      /\ stored'[id] = none /\ \A k \in Ids \ {id} : stored'[k] = stored[k]
    BY <1>1, <1>2 DEF Types, Safe, OneMover
<1>4. /\ thread'[t].pc = "end" /\ thread'[t].id = 0 /\ thread'[t].name = n
      /\ thread'[t].job = thread[t].job
      /\ \A u \in Threads \ {t} : thread'[u] = thread[u]
    BY <1>1 DEF Ended, NowHas, Has, Alone
<1>5. ASSUME NEW u \in Movers'
      PROVE  u \in Movers /\ thread'[u] = thread[u] /\ thread[u].id \in Ids \ {id}
             /\ stored'[thread[u].id] = stored[thread[u].id] /\ thread[u].name # n
  <2>1. u \in Movers /\ thread'[u] = thread[u] /\ u # t BY <1>4 DEF Movers
  <2>2. thread[u].id \in Ids /\ u \in Threads BY <2>1, MoverHas
  <2>3. thread[u].id # id BY <1>1, <1>2, <2>1, <2>2 DEF IntakeInv, OneHolder
  <2>4. thread[u].name # n BY <2>1 DEF Safe, OneMover
  <2> QED BY <1>3, <2>1, <2>2, <2>3, <2>4
<1>6. \A u \in Threads, pc \in {"create", "drop"} :
        thread'[u].pc = pc => thread[u].pc = pc /\ thread'[u] = thread[u]
    BY <1>4
<1>7. \A m \in Names, c \in Contents : inbox'[m] = c =>
        \/ inbox[m] = c
        \/ t \in Movers /\ stored[thread[t].id].content = c /\ thread[t].name = m
    BY <1>3
<1>8. \A u \in Movers', c \in Contents :
        stored'[thread'[u].id].content = c =>
          u \in Movers /\ stored[thread[u].id].content = c /\ thread'[u].name = thread[u].name
    BY <1>5
<1>9. ASSUME NEW c \in Contents, NEW m \in Names, Tied(c, m)' PROVE Tied(c, m)
    BY <1>6, <1>7, <1>8, <1>9 DEF Tied, At
<1>10. ASSUME NEW c \in Contents, NEW m \in Names, About(m, c)' PROVE About(m, c)
    BY <1>6, <1>7, <1>8, <1>10 DEF About, At, Active
<1>11. AllGiven' /\ OneHome' BY <1>9 DEF Safe, AllGiven, OneHome
<1>12. OneConcern' BY <1>10 DEF Safe, OneConcern
<1>13. SameName' BY <1>1, <1>4 DEF Safe, SameName
<1>14. OneMover'
  <2>1. \A u \in Movers' : inbox'[thread'[u].name] = none
    <3>1. SUFFICES ASSUME NEW u \in Movers' PROVE inbox'[thread'[u].name] = none OBVIOUS
    <3>2. thread[u].name \in Names /\ inbox[thread[u].name] = none
        BY <1>5, MoverHas DEF Safe, OneMover
    <3> QED BY <1>3, <1>5, <3>2
  <2>2. \A u, v \in Movers' : thread'[u].name = thread'[v].name => u = v
      BY <1>5 DEF Safe, OneMover
  <2> QED BY <2>1, <2>2 DEF OneMover
<1>15. NothingLost'
  <2>1. SUFFICES ASSUME NEW c \in history.given
                 PROVE  \/ \E m \in Names : inbox'[m] = c \/ output[m] = c
                        \/ \E k \in Ids : stored'[k] # none /\ stored'[k].content = c
                        \/ Completed(c)
      BY DEF NothingLost, Completed
  <2>2. c # none BY <1>2 DEF Types, IsHistory
  <2>3. ASSUME NEW m \in Names, inbox[m] = c PROVE inbox'[m] = c
      BY <1>3, <2>2, <2>3
  <2>4. ASSUME NEW k \in Ids, stored[k] # none, stored[k].content = c
        PROVE  inbox'[n] = c \/ (stored'[k] # none /\ stored'[k].content = c)
    <3>1. CASE k = id BY <1>3, <2>4, <3>1
    <3>2. CASE k # id BY <1>3, <2>4, <3>2
    <3> QED BY <3>1, <3>2
  <2> QED BY <1>1, <2>3, <2>4 DEF Safe, NothingLost, Completed
<1> QED BY <1>11, <1>12, <1>13, <1>14, <1>15 DEF Safe

LEMMA WriteFailsKeeps ==
  ASSUME IntakeInv, Safe, NEW t \in Threads, WriteFails(t) PROVE Safe'
<1> DEFINE id == thread[t].id
<1>1. /\ At(t, "write") /\ Ended(t, FALSE)
      /\ \/ id = 0 /\ UNCHANGED <<inbox, stored, output>>
         \/ /\ id # 0 /\ t = "person" /\ UNCHANGED inbox
            /\ stored' = [stored EXCEPT ![id] = thread[t].code]
            /\ output' = [output EXCEPT ![thread[t].code.name] = none]
         \/ /\ id # 0 /\ t # "person" /\ UNCHANGED output
            /\ inbox' = [inbox EXCEPT ![SourceOf(t)] = stored[id].content]
            /\ stored' = [stored EXCEPT ![id] = none]
      /\ UNCHANGED <<jobs, manifest, history>>
    BY WriteFailsDoes DEF IntakeInv
<1>2. CASE id = 0 /\ UNCHANGED <<inbox, stored, output>>
  <2>1. /\ Alone(t) /\ thread'[t].id = 0 /\ thread'[t].pc \notin {"create", "drop"}
        /\ \/ thread'[t].job = 0
           \/ t # "person" /\ thread'[t].job = thread[t].job /\ thread'[t].name = thread[t].name
      BY <1>1 DEF Ended, Stops, NowHas, Has
  <2> QED BY <1>1, <1>2, <2>1, HandsKeep
<1>3. CASE /\ id # 0 /\ t = "person" /\ UNCHANGED inbox
           /\ stored' = [stored EXCEPT ![id] = thread[t].code]
           /\ output' = [output EXCEPT ![thread[t].code.name] = none]
  <2> DEFINE item == thread["person"].code
  <2>1. /\ Types /\ "person" \in Threads /\ id \in Ids /\ item \in Stored
        /\ stored[id] = none /\ output[item.name] = item.content
      BY <1>1, <1>3 DEF IntakeInv, Types, Threads, Hands, Handles, BeingRestored, At
  <2>2. /\ item # none /\ item.name \in Names /\ none \notin Contents
      BY <2>1, IntakeAssumption DEF Stored
  <2>3. /\ stored'[id] = item /\ \A k \in Ids \ {id} : stored'[k] = stored[k]
        /\ \A m \in Names \ {item.name} : output'[m] = output[m]
      BY <1>3, <2>1 DEF Types
  <2>4. /\ thread'["person"].pc = "idle"
        /\ \A u \in Threads \ {"person"} : thread'[u] = thread[u]
      BY <1>1, <1>3 DEF Ended, Stops, NowHas, Has, Alone
  <2>5. \A u \in Threads \ {"person"} :
          thread[u].id # 0 => stored'[thread[u].id] = stored[thread[u].id]
    <3>1. SUFFICES ASSUME NEW u \in Threads \ {"person"}, thread[u].id # 0
                   PROVE  stored'[thread[u].id] = stored[thread[u].id]
        OBVIOUS
    <3>2. thread[u].id \in Ids BY <2>1, <3>1 DEF Types, Hands
    <3>3. thread[u].id # id BY <1>3, <2>1, <3>1 DEF IntakeInv, OneHolder
    <3> QED BY <2>3, <3>2, <3>3
  <2>6. NothingLost'
    <3>1. SUFFICES ASSUME NEW c \in history.given
                   PROVE  \/ \E m \in Names : inbox[m] = c \/ output'[m] = c
                          \/ \E k \in Ids : stored'[k] # none /\ stored'[k].content = c
                          \/ Completed(c)
        BY <1>1, <1>3 DEF NothingLost, Completed
    <3>2. ASSUME NEW m \in Names, output[m] = c
          PROVE  output'[m] = c \/ (stored'[id] # none /\ stored'[id].content = c)
      <4>1. CASE m = item.name BY <2>1, <2>2, <2>3, <3>2, <4>1
      <4>2. CASE m # item.name BY <2>3, <3>2, <4>2
      <4> QED BY <4>1, <4>2
    <3>3. ASSUME NEW k \in Ids, stored[k] # none, stored[k].content = c
          PROVE  stored'[k] # none /\ stored'[k].content = c
        BY <2>1, <2>3, <3>3
    <3> QED BY <2>1, <3>2, <3>3 DEF Safe, NothingLost, Completed
  <2> QED BY <1>1, <1>3, <2>4, <2>5, <2>6, PersonMoves
<1>4. CASE /\ id # 0 /\ t # "person" /\ UNCHANGED output
           /\ inbox' = [inbox EXCEPT ![SourceOf(t)] = stored[id].content]
           /\ stored' = [stored EXCEPT ![id] = none]
  <2>1. t \in Movers BY <1>4 DEF Movers
  <2> QED BY <1>1, <1>4, <2>1, PutBackKeeps
<1> QED BY <1>1, <1>2, <1>3, <1>4

LEMMA DropFileKeeps ==
  ASSUME IntakeInv, Safe, ~Replaces, NEW n \in Names, NEW c \in Contents, DropFile(n, c) PROVE Safe'
<1>1. /\ c \notin history.given /\ inbox' = [inbox EXCEPT ![n] = c]
      /\ inbox[n] = none /\ ~Busy(n)
      /\ history'.given = (IF \E k \in Names \ {n} : inbox[k] = inbox[n] THEN history.given
                           ELSE history.given \ {inbox[n]}) \union {c}
      /\ UNCHANGED <<jobs, stored, manifest, output, thread>>
    BY DropFileDoes DEF IntakeInv
<1>2. Types /\ none \notin Contents /\ history.given \subseteq Contents
    BY IntakeAssumption DEF IntakeInv, Types, IsHistory
<1>3. history'.given = history.given \union {c} BY <1>1, <1>2
<1>4. inbox'[n] = c /\ \A m \in Names \ {n} : inbox'[m] = inbox[m] BY <1>1, <1>2 DEF Types
<1>5. ASSUME NEW d \in Contents, NEW m \in Names, Tied(d, m)'
      PROVE  Tied(d, m) \/ (d = c /\ m = n)
    BY <1>1, <1>4, <1>5 DEF Tied, At, Movers
<1>6. ASSUME NEW d \in Contents, NEW m \in Names, About(m, d)'
      PROVE  About(m, d) \/ (d = c /\ m = n)
    BY <1>1, <1>4, <1>6 DEF About, At, Movers, Active
<1>7. \A m \in Names : ~Tied(c, m) BY <1>1 DEF Safe, AllGiven
<1>8. \A d \in Contents : ~About(n, d)
  <2>1. SUFFICES ASSUME NEW d \in Contents, About(n, d) PROVE FALSE OBVIOUS
  <2>2. inbox[n] # d BY <1>1, <1>2
  <2>3. ~\E j \in DOMAIN jobs : Active(j) /\ jobs[j].name = n BY <1>1 DEF Busy
  <2>4. ~\E t \in Threads \ {"person"} : thread[t].name = n BY <1>1 DEF Busy
  <2>5. \A t \in Threads : At(t, "drop") => t # "person" BY Working DEF At
  <2> QED BY <2>1, <2>2, <2>3, <2>4, <2>5 DEF About, Movers
<1>9. AllGiven' BY <1>3, <1>5 DEF Safe, AllGiven
<1>10. OneHome' BY <1>5, <1>7 DEF Safe, OneHome
<1>11. OneConcern' BY <1>6, <1>8 DEF Safe, OneConcern
<1>12. SameName' BY <1>1 DEF Safe, SameName
<1>13. OneMover'
  <2>1. \A t \in Movers : thread[t].name \in Names \ {n}
    <3>1. SUFFICES ASSUME NEW t \in Movers PROVE thread[t].name \in Names \ {n} OBVIOUS
    <3>2. thread[t].name \in Names BY MoverHas
    <3>3. thread[t].name # n BY <1>1 DEF Busy, Movers
    <3> QED BY <3>2, <3>3
  <2>2. Movers' = Movers BY <1>1 DEF Movers
  <2> QED BY <1>1, <1>4, <2>1, <2>2 DEF Safe, OneMover
<1>14. NothingLost'
  <2>1. SUFFICES ASSUME NEW d \in history.given \union {c}
                 PROVE  \/ \E m \in Names : inbox'[m] = d \/ output[m] = d
                        \/ \E k \in Ids : stored[k] # none /\ stored[k].content = d
                        \/ Completed(d)
      BY <1>1, <1>3 DEF NothingLost, Completed
  <2>2. CASE d = c BY <1>4, <2>2
  <2>3. CASE d \in history.given
    <3>1. d # none BY <1>2, <2>3
    <3>2. ASSUME NEW m \in Names, inbox[m] = d PROVE inbox'[m] = d BY <1>1, <1>4, <3>1, <3>2
    <3> QED BY <2>3, <3>2 DEF Safe, NothingLost, Completed
  <2> QED BY <2>1, <2>2, <2>3
<1> QED BY <1>9, <1>10, <1>11, <1>12, <1>13, <1>14 DEF Safe

LEMMA PersonKeeps ==
  ASSUME IntakeInv, Safe, ~Replaces, PersonNext PROVE Safe'
<1>1. ASSUME NEW i \in Ids, Restore(i) PROVE Safe'
    BY <1>1, RestoreKeeps
<1>2. ASSUME NEW n \in Names, NEW c \in Contents, DropFile(n, c) PROVE Safe'
    BY <1>2, DropFileKeeps
<1>3. ASSUME NEW j \in DOMAIN jobs, Approve(j) \/ CancelJob(j) \/ RequeueSkipped(j)
      PROVE  Safe'
  <2>1. /\ Types /\ j \in 1 .. Len(jobs) /\ jobs[j] \in Job BY JobsTyped DEF IntakeInv
  <2>2. SUFFICES ASSUME UNCHANGED <<inbox, stored, output, thread>>, history'.given = history.given
                 PROVE  Grows /\ JobsNews
    <3>1. UNCHANGED <<inbox, stored, output, thread>> /\ history'.given = history.given
        BY <1>3, <2>1, RequeueSkippedDoes DEF Approve, CancelJob, RequeueSkipped
    <3>2. Grows => \A t \in Threads : ThreadNews(t) BY <3>1, StandsNews DEF Safe
    <3>3. \A n \in Names : inbox'[n] = inbox[n] BY <3>1
    <3> QED BY <2>2, <3>1, <3>2, <3>3, Calm
  <2>3. CASE Approve(j) \/ CancelJob(j)
    <3>1. /\ Active(j) /\ Rest
          /\ \/ \E approved :
                  JobBecomes(j, jobs[j].stage, jobs[j].captured, approved, jobs[j].note)
             \/ JobBecomes(j, "cancelled", jobs[j].captured, jobs[j].approved, jobs[j].note)
        BY <2>1, <2>3, PersonOnJobDoes
    <3>2. PICK stage, approved :
            /\ JobBecomes(j, stage, jobs[j].captured, approved, jobs[j].note)
            /\ stage = jobs[j].stage \/ stage = "cancelled"
        BY <3>1
    <3>3. jobs[j].stage \in {"extracted", "saved_clean", "completed"} => jobs[j].captured # none
        BY <2>1, JobsTyped DEF IntakeInv, Captured
    <3>4. /\ jobs[j].stage # "completed" /\ Active(j) /\ history'.raced = history.raced
          /\ history'.legacy = history.legacy
        BY <3>1, StagesKnown DEF Active, Rest
    <3>5. JobsKept BY <3>2, <3>3, <3>4, JobMoves
    <3>6. JobsNews BY <2>1, <3>2, <3>4, MoveNews
    <3> QED BY <3>5, <3>6 DEF JobsKept
  <2>4. CASE RequeueSkipped(j)
    <3>1. /\ JobAppears(jobs[j].content, jobs[j].name)
          /\ history'.raced = IF Reusable(jobs[j].content) = 0 THEN history.raced
                              ELSE history.raced \union {jobs[j].content}
          /\ Remembers
        BY <2>1, <2>4, RequeueSkippedDoes
    <3>2. jobs[j].content \in Contents BY <2>1 DEF Job
    <3>3. JobsKept BY <3>1, <3>2, JobEnters DEF Remembers, Keeps
    <3>4. JobsNews BY <2>1, <3>1, JobTied, EnterNews
    <3> QED BY <3>3, <3>4 DEF JobsKept
  <2> QED BY <1>3, <2>3, <2>4
<1> QED BY <1>1, <1>2, <1>3 DEF PersonNext

LEMMA NextKeeps == ASSUME IntakeInv, Safe, ~Replaces, [Next]_vars PROVE Safe'
<1>1. ASSUME NEW t \in Threads, Step(t) PROVE Safe'
    BY <1>1, RunKeeps, DeleteSourceKeeps, HandleFailureKeeps, WriteItemsKeeps,
       WriteFailsKeeps, EndFailureKeeps DEF Step, Proceed, Onestep
<1>2. ASSUME NEW t \in Threads, Register(t) \/ SubmitFails(t) PROVE Safe'
    BY <1>2, CreateKeeps, AdvanceKeeps, SubmitFailsKeeps DEF Register
<1>3. ASSUME NEW t \in Threads, NEW n \in Names, Submit(t, n) PROVE Safe'
    BY <1>3, SubmitKeeps
<1>4. ASSUME NEW t \in Pollers, ResumePending(t) PROVE Safe'
    BY <1>4, ResumePendingKeeps
<1>5. CASE UNCHANGED vars
  <2>1. Grows /\ JobsNews BY <1>5, JobsTyped, StayNews DEF IntakeInv, Grows, Types, vars
  <2>2. \A t \in Threads : ThreadNews(t) BY <1>5, <2>1, StandsNews DEF vars, Safe
  <2>3. \A n \in Names : inbox'[n] = inbox[n] BY <1>5 DEF vars
  <2> QED BY <1>5, <2>1, <2>2, <2>3, Calm DEF vars
<1> QED BY <1>1, <1>2, <1>3, <1>4, <1>5, PersonKeeps, CrashKeeps DEF Next

LEMMA InitKeeps == Init => Safe
<1> SUFFICES ASSUME Init PROVE Safe
    OBVIOUS
<1>1. /\ inbox = [n \in Names |-> none] /\ jobs = <<>> /\ thread = [t \in Threads |-> Resting]
      /\ history.given = {}
    BY DEF Init
<1>2. \A t \in Threads : thread[t].pc = "idle" /\ thread[t].id = 0 /\ thread[t].job = 0
    BY <1>1, RestingHas DEF Has
<1>3. \A c \in Contents, n \in Names : ~Tied(c, n) /\ ~About(n, c)
    BY <1>1, <1>2, IntakeAssumption DEF Tied, About, At, Movers
<1>4. AllGiven /\ OneHome /\ OneConcern BY <1>3 DEF AllGiven, OneHome, OneConcern
<1>5. SameName /\ OneMover BY <1>2 DEF SameName, OneMover, Movers
<1>6. NothingLost BY <1>1 DEF NothingLost
<1> QED BY <1>4, <1>5, <1>6 DEF Safe

(* Where nobody puts a file over one that is being processed, what was given is
   never lost, by whatever threads, failures, restarts and rollbacks. *)
THEOREM NoFileIsLost == ASSUME ~Replaces PROVE Spec => []NothingLost
<1>1. IntakeInv /\ Safe /\ [Next]_vars => Safe' BY NextKeeps
<1>2. Safe => NothingLost BY DEF Safe
<1> QED BY <1>1, <1>2, InitKeeps, IntakeInvariance, PTL DEF Spec
=============================================================================
