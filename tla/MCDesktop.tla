------------------------------- MODULE MCDesktop -------------------------------
(* Five parts of the running application that share no state: the window that
   closes, the language model that is admitted, the settings that are saved, the
   list that is read page by page, the demo that is installed. A behaviour is a behaviour of one of them, its
   scene; the variables of the others stay none. *)
EXTENDS FiniteSets, Naturals, Sequences, TLC

CONSTANTS
  Keys, InOrder, MaxChanges, Budgets,
  Levels, Total, Margin, Override, AtFirst, Callers, Notes, Scans, MaxMemory, MaxOutages,
  Urls, FirstUrl, Quotas,
  Rows, Urgent, Limit, Overfetch, MaxEvents,
  DemoNotes, MaxInstalls, MaxPeople, MaxRefused, MaxCrashes,
  none

ASSUME DesktopAssumption ==
  /\ InOrder \in BOOLEAN /\ FirstUrl \in Urls /\ Limit \in Nat \ {0} /\ Urgent \subseteq Rows
  /\ {MaxChanges, MaxMemory, MaxOutages, MaxEvents} \subseteq Nat
  /\ {MaxInstalls, MaxPeople, MaxRefused, MaxCrashes} \subseteq Nat

(* The demo lists its notes, and no text is the absence of a text. *)
ASSUME DemoAssumption ==
  /\ DemoNotes \in Seq({DemoNotes[i] : i \in DOMAIN DemoNotes})
  /\ none \notin {"demo", "other"}

Counted(changes, edits, faults, clicks) ==
  [changes |-> changes, edits |-> edits, faults |-> faults, clicks |-> clicks]

(* Two changes; a change while a note is edited; a refused write and two clicks. *)
FewBudgets == {Counted(2, 0, 0, 1), Counted(1, 1, 0, 1), Counted(1, 0, 1, 2)}

(* The window: finitely many entries of the interface, at most MaxChanges changes. *)
ASSUME WindowAssumption ==
  /\ IsFiniteSet(Keys)
  /\ Budgets \subseteq [changes : 0 .. MaxChanges, edits : Nat, faults : Nat, clicks : Nat]

(* Two saves that may fail; a question or a prepared model between one or two. *)
Quota(saves, reads, faults) == [saves |-> saves, reads |-> reads, faults |-> faults]

FewQuotas == {Quota(2, 0, 2), Quota(1, 1, 2), Quota(2, 1, 0)}

TwoNotes == <<"introduction", "flow">>

(* The list: finitely many rows, which the order of their identifiers tells apart. *)
ASSUME FeedAssumption ==
  IsFiniteSet(Rows) /\ Rows \subseteq Nat /\ Overfetch \in Nat /\ Limit < Overfetch

VARIABLES
  scene,
  page, chains, flushes, calls, bridge, window, known, budget,
  free, ollama, policy, caller, done, offered, left,
  disk, service, console, pipe, thread, settled, quota,
  table, clock, walk, steady, events,
  vault, folder, marker, visitor, touched, theirs, told, spare

W == INSTANCE WindowClose
M == INSTANCE ModelAdmission
L == INSTANCE LiveSettings
F == INSTANCE NoteFeed
D == INSTANCE DemoVault

windowVars == <<page, chains, flushes, calls, bridge, window, known, budget>>
modelVars == <<free, ollama, policy, caller, done, offered, left>>
settingsVars == <<disk, service, console, pipe, thread, settled, quota>>
feedVars == <<table, clock, walk, steady, events>>
demoVars == <<vault, folder, marker, visitor, touched, theirs, told, spare>>
vars == <<scene, windowVars, modelVars, settingsVars, feedVars, demoVars>>

WindowOff ==
  /\ page = none /\ chains = none /\ flushes = none /\ calls = none /\ bridge = none
  /\ window = none /\ known = none /\ budget = none

ModelOff ==
  /\ free = none /\ ollama = none /\ policy = none /\ caller = none /\ done = none
  /\ offered = none /\ left = none

SettingsOff ==
  /\ disk = none /\ service = none /\ console = none /\ pipe = none /\ thread = none
  /\ settled = none /\ quota = none

FeedOff ==
  /\ table = none /\ clock = none /\ walk = none /\ steady = none /\ events = none

DemoOff ==
  /\ vault = none /\ folder = none /\ marker = none /\ visitor = none
  /\ touched = none /\ theirs = none /\ told = none /\ spare = none

Init ==
  \/ scene = "window" /\ W!Init /\ ModelOff /\ SettingsOff /\ FeedOff /\ DemoOff
  \/ scene = "model" /\ M!Init /\ WindowOff /\ SettingsOff /\ FeedOff /\ DemoOff
  \/ scene = "settings" /\ L!Init /\ disk.url = FirstUrl /\ WindowOff /\ ModelOff /\ FeedOff /\ DemoOff
  \/ scene = "feed" /\ F!Init /\ WindowOff /\ ModelOff /\ SettingsOff /\ DemoOff
  \/ scene = "demo" /\ D!Init /\ WindowOff /\ ModelOff /\ SettingsOff /\ FeedOff

Next ==
  \/ scene = "window" /\ W!Next /\ UNCHANGED <<scene, modelVars, settingsVars, feedVars, demoVars>>
  \/ scene = "model" /\ M!Next /\ UNCHANGED <<scene, windowVars, settingsVars, feedVars, demoVars>>
  \/ scene = "settings" /\ L!Next /\ UNCHANGED <<scene, windowVars, modelVars, feedVars, demoVars>>
  \/ scene = "feed" /\ F!Next /\ UNCHANGED <<scene, windowVars, modelVars, settingsVars, demoVars>>
  \/ scene = "demo" /\ D!Next /\ UNCHANGED <<scene, windowVars, modelVars, settingsVars, feedVars>>

Windows(action) == scene = "window" /\ action

(* The page and the bridge go on, the timers fire, and the user answers. *)
Fairness ==
  /\ \A c \in W!Chains : WF_windowVars(Windows(W!Chain(c)))
  /\ WF_windowVars(Windows(W!OnCompleted)) /\ WF_windowVars(Windows(W!Serve))
  /\ WF_windowVars(Windows(W!Retry)) /\ WF_windowVars(Windows(W!Drain))
  /\ WF_windowVars(Windows(W!Finish)) /\ WF_windowVars(Windows(W!Destroy))
  /\ WF_windowVars(Windows(W!KeepEditing \/ W!LeaveEditor))

Spec == Init /\ [][Next]_vars /\ Fairness

-----------------------------------------------------------------------------
(* Properties *)

(* WindowClose: a change of the interface the bridge was told of (ui_state_pending_
   changed) before it let the window go has been written. *)
AnnouncedIsSaved == scene = "window" => W!AnnouncedIsSaved

(* A close or a restart that was asked for happens, or the user calls it off:
   deferred announcements, refused writes and retries do not keep the window open
   for ever. *)
CloseIsAsked == scene = "window" /\ bridge.action # "none"
CloseIsOver == scene = "window" => bridge.action = "none" \/ ~window.open
CloseHappens == CloseIsAsked ~> CloseIsOver

(* ModelAdmission: a note is generated only by an installed model that fits the
   memory its call measured last (check_cycle_model). *)
ModelIsReady == scene = "model" => M!ModelIsReady

(* LiveSettings: a save no other call overlapped leaves one set of settings behind
   (save_settings, _restore_live_settings). *)
AloneAgrees == scene = "settings" => L!AloneAgrees

(* NoteFeed: a list read to its end has shown every row nothing happened to exactly
   once, newest first (list_feed, list_jobs). *)
PagesAreComplete == scene = "feed" => F!PagesAreComplete

(* DemoVault: installing the demo of the first start leaves what a person wrote
   alone, and has put down all its notes or none (install_demo_vault). *)
DemoIsHonest == scene = "demo" => D!DemoIsHonest
=============================================================================
