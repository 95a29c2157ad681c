------------------------------- MODULE DemoVault -------------------------------
(* The demo of the first start: OnboardingService puts a few notes into the vault
   of a person who may be working in it, all of them or none, and marks the vault.
   The calls of the window run on threads of their own. *)
EXTENDS Naturals, Sequences

CONSTANTS
  Callers,      \* threads of the bridge
  DemoNotes,    \* the notes of manifest.json, in its order
  MaxInstalls,  \* bound: calls of install_demo_vault() and dismiss()
  MaxPeople,    \* bound: files a person creates, edits or removes
  MaxRefused,   \* bound: writes and removals the file system refuses
  MaxCrashes,   \* bound
  none

VARIABLES
  vault,    \* what is at the destination of each demo note
  folder,   \* the folder of the demo exists
  marker,   \* .fuente/onboarding.json
  visitor,  \* the call each thread is in
  touched,  \* not in the program: notes a person changed since an install began
  theirs,   \* not in the program: notes a person left a text of their own in
  told,     \* not in the program: what an install told that no other overlapped
  spare     \* bounds

demoVars == <<vault, folder, marker, visitor, touched, theirs, told, spare>>

-----------------------------------------------------------------------------
Names == {DemoNotes[i] : i \in DOMAIN DemoNotes}

(* The bytes of the bundle, or others. *)
Texts == {"demo", "other"}

Absent == [status |-> "pending", written |-> 0]

(* Markers differ by the moment they were written. *)
Marked(status) == [status |-> status, written |-> spare.installs]

Out == [pc |-> "out"]

Init ==
  /\ vault \in [Names -> Texts \union {none}]
  /\ folder = (\E n \in Names : vault[n] # none)
  /\ marker = Absent
  /\ visitor = [c \in Callers |-> Out]
  /\ touched = {} /\ told = none
  /\ theirs = {n \in Names : vault[n] = "other"}
  /\ spare = [installs |-> MaxInstalls, people |-> MaxPeople, faults |-> MaxRefused,
              crashes |-> MaxCrashes]

Spends(what) == spare[what] > 0 /\ spare' = [spare EXCEPT ![what] = @ - 1]

At(c, pc) == visitor[c].pc = pc

Installing(c) == ~At(c, "out") /\ ~At(c, "dismiss")

Visits(c, context) == visitor' = [visitor EXCEPT ![c] = context]

Turns(c, pc) == Visits(c, [visitor[c] EXCEPT !.pc = pc])

ToUndo(c) == Visits(c, [visitor[c] EXCEPT !.pc = "undo", !.todo = <<>>])

-----------------------------------------------------------------------------
(* install_demo_vault() *)

(* _preflight(): a destination is free, holds the same bytes, or collides. *)
Classified == [n \in Names |-> IF vault[n] = none THEN "create"
                               ELSE IF vault[n] = "demo" THEN "identical" ELSE "collision"]

(* An installed demo is left alone, a collision blocks; otherwise the marker is
   kept for a roll-back. *)
Begin(c) ==
  LET others == {d \in Callers : Installing(d)}
      Enters == [pc |-> "check", todo |-> DemoNotes, plan |-> Classified, attempted |-> <<>>,
                 made |-> FALSE, kept |-> marker, stamp |-> Marked("demo_installed"),
                 alone |-> others = {}, was |-> vault] IN
  /\ At(c, "out") /\ marker.status # "demo_installed"
  /\ \A n \in Names : Classified[n] # "collision"
  /\ Spends("installs")
  /\ visitor' = [d \in Callers |-> IF d = c THEN Enters
                                   ELSE IF d \in others THEN [visitor[d] EXCEPT !.alone = FALSE]
                                   ELSE visitor[d]]
  /\ told' = none
  /\ touched' = IF others = {} THEN {} ELSE touched
  /\ UNCHANGED <<vault, folder, marker, theirs>>

(* The next note: one found identical is passed over; a file that appeared since
   the preflight stops the installation. *)
Check(c) ==
  LET v == visitor[c]
      n == Head(v.todo)
      Pass == [v EXCEPT !.todo = Tail(@)] IN
  /\ At(c, "check") /\ v.todo # <<>>
  /\ \/ /\ v.plan[n] = "identical" /\ Visits(c, Pass) /\ UNCHANGED folder
     \/ /\ v.plan[n] = "create" /\ vault[n] # none /\ ToUndo(c) /\ UNCHANGED folder
     \/ /\ v.plan[n] = "create" /\ vault[n] = none
        /\ folder' = TRUE
        /\ Visits(c, [v EXCEPT !.pc = "recheck", !.made = @ \/ ~folder])
  /\ UNCHANGED <<vault, marker, touched, theirs, told, spare>>

Recheck(c) ==
  /\ At(c, "recheck")
  /\ IF vault[Head(visitor[c].todo)] # none THEN ToUndo(c) ELSE Turns(c, "write")
  /\ UNCHANGED <<vault, folder, marker, touched, theirs, told, spare>>

(* atomic_write_text() replaces the file, and its folder if need be, or nothing. *)
Write(c) ==
  LET v == visitor[c]
      n == Head(v.todo)
      Tried == [v EXCEPT !.attempted = Append(@, n)] IN
  /\ At(c, "write")
  /\ \/ /\ vault' = [vault EXCEPT ![n] = "demo"] /\ folder' = TRUE
        /\ Visits(c, [Tried EXCEPT !.pc = "check", !.todo = Tail(@)])
        /\ UNCHANGED spare
     \/ /\ Spends("faults")
        /\ Visits(c, [Tried EXCEPT !.pc = "undo", !.todo = <<>>])
        /\ UNCHANGED <<vault, folder>>
  /\ UNCHANGED <<marker, touched, theirs, told>>

(* The call is over; what it told counts when no other installed meanwhile and its
   roll-back was complete. *)
Leaves(c, status) ==
  /\ Visits(c, Out)
  /\ told' = IF visitor[c].alone THEN [status |-> status, was |-> visitor[c].was] ELSE none

WriteMarker(c) ==
  /\ At(c, "check") /\ visitor[c].todo = <<>>
  /\ \/ /\ marker' = visitor[c].stamp /\ Leaves(c, "demo_installed") /\ UNCHANGED spare
     \/ /\ Spends("faults") /\ ToUndo(c) /\ UNCHANGED <<marker, told>>
  /\ UNCHANGED <<vault, folder, touched, theirs>>

-----------------------------------------------------------------------------
(* _rollback_install() *)

(* Not the code: whatever is at the name is removed. *)
WithdrawnAnyway(n) == [vault EXCEPT ![n] = none]

(* Only the bytes the installation wrote are removed. *)
Withdrawn(n) == [vault EXCEPT ![n] = IF @ = "demo" THEN none ELSE @]

(* The last note first; a removal that fails is reported and passed over. *)
Withdraw(c) ==
  LET v == visitor[c]
      n == v.attempted[Len(v.attempted)]
      Rest == [v EXCEPT !.attempted = SubSeq(@, 1, Len(@) - 1)] IN
  /\ At(c, "undo") /\ v.attempted # <<>>
  /\ \/ /\ vault' = Withdrawn(n) /\ Visits(c, Rest) /\ UNCHANGED spare
     \/ /\ vault[n] = "demo" /\ Spends("faults")
        /\ Visits(c, [Rest EXCEPT !.alone = FALSE]) /\ UNCHANGED vault
  /\ UNCHANGED <<folder, marker, touched, theirs, told>>

(* The marker, if it is the one this call wrote, and the folder, if it is empty. *)
Restore(c) ==
  LET v == visitor[c] IN
  /\ At(c, "undo") /\ v.attempted = <<>>
  /\ marker' = IF marker = v.stamp THEN v.kept ELSE marker
  /\ folder' = (folder /\ ~(v.made /\ \A n \in Names : vault[n] = none))
  /\ Leaves(c, "blocked")
  /\ UNCHANGED <<vault, touched, theirs, spare>>

-----------------------------------------------------------------------------
(* dismiss(): the marker is read, and written when no demo is installed. *)
BeginDismiss(c) ==
  /\ At(c, "out") /\ marker.status # "demo_installed"
  /\ Spends("installs") /\ Visits(c, [pc |-> "dismiss", stamp |-> Marked("dismissed")])
  /\ UNCHANGED <<vault, folder, marker, touched, theirs, told>>

Dismiss(c) ==
  /\ At(c, "dismiss") /\ Visits(c, Out)
  /\ marker' = visitor[c].stamp
  /\ UNCHANGED <<vault, folder, touched, theirs, told, spare>>

(* The process dies; what was written stays. *)
Crash ==
  /\ \E c \in Callers : ~At(c, "out")
  /\ Spends("crashes")
  /\ visitor' = [c \in Callers |-> Out]
  /\ UNCHANGED <<vault, folder, marker, touched, theirs, told>>

(* A person writes or removes a note in Obsidian, except between a call's last look
   at the name and its write, which replaces the file. *)
People ==
  \E n \in Names, text \in {"other", none} :
    /\ vault[n] # text /\ Spends("people")
    /\ \A c \in Callers : At(c, "write") => Head(visitor[c].todo) # n
    /\ vault' = [vault EXCEPT ![n] = text]
    /\ folder' = (folder \/ text # none)
    /\ theirs' = IF text = none THEN theirs \ {n} ELSE theirs \union {n}
    /\ touched' = touched \union {n}
    /\ UNCHANGED <<marker, visitor, told>>

Next ==
  \/ \E c \in Callers :
       \/ Begin(c) \/ Check(c) \/ Recheck(c) \/ Write(c) \/ WriteMarker(c)
       \/ Withdraw(c) \/ Restore(c) \/ BeginDismiss(c) \/ Dismiss(c)
  \/ Crash \/ People

Spec == Init /\ [][Next]_demoVars

-----------------------------------------------------------------------------
(* Properties *)

(* What a person wrote at the name of a demo note stays as it is. *)
TheirsStay == \A n \in theirs : vault[n] = "other"

(* An installation that no other overlapped told the truth: the vault has every
   demo note but those a person removed meanwhile, or, when it was rolled back, what
   it had before, over crashes and failures of earlier calls. *)
ToldIsTrue ==
  told # none =>
    \A n \in Names \ touched :
      IF told.status = "demo_installed" THEN vault[n] = "demo" ELSE vault[n] = told.was[n]

DemoIsHonest == TheirsStay /\ ToldIsTrue
=============================================================================
