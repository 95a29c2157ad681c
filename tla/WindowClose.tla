----------------------------- MODULE WindowClose -----------------------------
(* The desktop window: saving the interface state through the bridge, and closing
   or restarting once nothing is left to save (ui/bridge.py). The page is one
   thread; every call it makes to the bridge runs on a thread of its own and is
   answered later. *)
EXTENDS FiniteSets, Naturals, Sequences

CONSTANTS
  Keys,        \* entries of ui_state the page saves
  InOrder,     \* calls of the page are taken up in the order they were made
  MaxChanges,  \* bound: changes of the interface
  Budgets      \* bounds: how many changes, notes edited meanwhile, writes SQLite
               \* refuses, and clicks on close or on restart a history has

VARIABLES
  page,     \* the page: unsaved values, close requested, retry timer, editor
  chains,   \* persistUiState() calls under way: at most two for each key
  flushes,  \* flushPendingUiState() calls under way: the chains each waits for
  calls,    \* calls of the page no bridge thread has taken up yet
  bridge,   \* FuentePyWebViewApi, under its _close_lock
  window,   \* the native window, and the timers that call into page and window
  known,    \* the last change of each entry written to ui_state, and, not in the
            \* program, the last one the bridge was told of
  budget    \* bounds

windowVars == <<page, chains, flushes, calls, bridge, window, known, budget>>

Chains == Keys \X {1, 2}
Flushes == {1, 2}
CompleteCall == <<"complete_pending_close", 0>>
CancelCall == <<"cancel_pending_close", 0>>
Resting == [pc |-> "idle", value |-> 0, size |-> 0]

Init ==
  /\ page = [pending |-> [k \in Keys |-> 0], closing |-> FALSE, retry |-> FALSE,
             dirty |-> FALSE, asking |-> FALSE, replies |-> {}]
  /\ chains = [c \in Chains |-> Resting]
  /\ flushes = [f \in Flushes |-> {}]
  /\ calls = <<>>
  /\ bridge = [action |-> "none", count |-> 0, inflight |-> 0, scheduled |-> FALSE]
  /\ window = [open |-> TRUE, drain |-> FALSE, timer |-> FALSE, destroying |-> FALSE]
  /\ known = [k \in Keys |-> [told |-> 0, written |-> 0]]
  /\ budget \in Budgets

-----------------------------------------------------------------------------
(* The page *)

Larger(a, b) == IF a > b THEN a ELSE b

Unsaved(p) == {k \in Keys : p.pending[k] # 0}

Size(p) == Cardinality(Unsaved(p))

Spend(what) == budget[what] > 0 /\ budget' = [budget EXCEPT ![what] = @ - 1]

Free(k) == {c \in Chains : c[1] = k /\ chains[c].pc = "idle"}

First(k) == CHOOSE c \in Free(k) : \A d \in Free(k) : c[2] <= d[2]

(* persistUiState() announces the length of the queue before it writes. *)
Announcing(value, size) == [pc |-> "announce", value |-> value, size |-> size]

(* notifyNativeCloseWhenReady() of a page that has become p. A call right behind
   an equal one is left out: it would find and do the same. *)
Completing(p) ==
  IF p.closing /\ Unsaved(p) = {} /\ (calls # <<>> => calls[Len(calls)] # CompleteCall)
  THEN <<CompleteCall>> ELSE <<>>

(* flushPendingUiState() of a page p: every unsaved value is persisted again, and
   the close is completed when all of them have been answered. *)
Flush(p) ==
  IF Unsaved(p) = {}
  THEN /\ page' = p /\ calls' = calls \o Completing(p)
       /\ UNCHANGED <<chains, flushes>>
  ELSE LET starts == {First(k) : k \in Unsaved(p)} IN
       /\ \A k \in Unsaved(p) : Free(k) # {}
       /\ \E f \in Flushes :
            /\ flushes[f] = {} /\ \A e \in Flushes : e < f => flushes[e] # {}
            /\ flushes' = [flushes EXCEPT ![f] = starts]
       /\ chains' = [c \in Chains |-> IF c \in starts THEN Announcing(p.pending[c[1]], Size(p))
                                      ELSE chains[c]]
       /\ page' = p
       /\ \E order \in [1 .. Cardinality(starts) -> starts] :
            /\ {order[i] : i \in DOMAIN order} = starts
            /\ calls' = calls \o order

(* A chain ends; the last one of a flush may complete the close. *)
End(c, p) ==
  LET last == \E f \in Flushes : flushes[f] = {c} IN
  /\ chains' = [chains EXCEPT ![c] = Resting]
  /\ flushes' = [f \in Flushes |-> flushes[f] \ {c}]
  /\ page' = p
  /\ calls' = IF last THEN calls \o Completing(p) ELSE calls

(* The user changes a workspace, a filter, an order, a draft. *)
Change(k) ==
  LET p == [page EXCEPT !.pending[k] = MaxChanges + 1 - budget.changes] IN
  /\ window.open /\ Free(k) # {} /\ Spend("changes")
  /\ page' = p
  /\ chains' = [chains EXCEPT ![First(k)] = Announcing(p.pending[k], Size(p))]
  /\ calls' = Append(calls, First(k))
  /\ UNCHANGED <<flushes, bridge, window, known>>

(* The announcement was answered: write, or try again later. *)
OnAnnounced(c) ==
  /\ window.open
  /\ \/ /\ chains[c].pc = "announced"
        /\ chains' = [chains EXCEPT ![c].pc = "write"]
        /\ calls' = Append(calls, c)
        /\ UNCHANGED <<page, flushes>>
     \/ /\ chains[c].pc = "deferred"
        /\ End(c, [page EXCEPT !.retry = TRUE])
  /\ UNCHANGED <<bridge, window, known, budget>>

(* Not the code: whatever is waiting under the key counts as written. *)
ForgetAny(c) ==
  IF page.pending[c[1]] # 0 THEN [page EXCEPT !.pending[c[1]] = 0] ELSE page

(* A value is forgotten only while it is still the one waiting under its key. *)
Forget(c) ==
  IF page.pending[c[1]] = chains[c].value THEN [page EXCEPT !.pending[c[1]] = 0] ELSE page

(* The write was answered: the shorter queue is announced. *)
OnWritten(c) ==
  LET p == Forget(c) IN
  /\ window.open
  /\ \/ /\ chains[c].pc = "saved" /\ p # page
        /\ page' = p
        /\ chains' = [chains EXCEPT ![c] = [pc |-> "report", value |-> 0, size |-> Size(p)]]
        /\ calls' = Append(calls, c)
        /\ UNCHANGED flushes
     \/ chains[c].pc = "saved" /\ p = page /\ End(c, page)
     \/ chains[c].pc = "refused" /\ End(c, [page EXCEPT !.retry = TRUE])
  /\ UNCHANGED <<bridge, window, known, budget>>

OnReported(c) ==
  /\ window.open
  /\ \/ chains[c].pc = "reported" /\ End(c, page)
     \/ chains[c].pc = "contested" /\ End(c, [page EXCEPT !.retry = TRUE])
  /\ UNCHANGED <<bridge, window, known, budget>>

(* A close that is still busy is tried again, one that was called off is over. *)
OnCompleted ==
  /\ window.open /\ page.replies # {}
  /\ \E reply \in page.replies :
       page' = [page EXCEPT !.replies = @ \ {reply}, !.retry = @ \/ reply = "busy",
                            !.closing = @ /\ reply = "busy"]
  /\ UNCHANGED <<chains, flushes, calls, bridge, window, known, budget>>

Retry ==
  /\ window.open /\ page.retry
  /\ Flush([page EXCEPT !.retry = FALSE])
  /\ UNCHANGED <<bridge, window, known, budget>>

(* prepareUiStateForNativeClose(): the editor is asked about first. *)
Drain ==
  LET p == [page EXCEPT !.closing = TRUE] IN
  /\ window.open /\ window.drain
  /\ window' = [window EXCEPT !.drain = FALSE]
  /\ \/ /\ page.dirty /\ page' = [p EXCEPT !.asking = TRUE]
        /\ UNCHANGED <<chains, flushes, calls>>
     \/ ~page.dirty /\ Flush(p)
  /\ UNCHANGED <<bridge, known, budget>>

Edit ==
  /\ window.open /\ ~page.dirty /\ ~page.asking /\ Spend("edits")
  /\ page' = [page EXCEPT !.dirty = TRUE]
  /\ UNCHANGED <<chains, flushes, calls, bridge, window, known>>

SaveNote ==
  /\ window.open /\ page.dirty /\ ~page.asking
  /\ page' = [page EXCEPT !.dirty = FALSE]
  /\ UNCHANGED <<chains, flushes, calls, bridge, window, known, budget>>

(* The dialog about unsaved changes: keepEditingNote(), or discard or save. *)
KeepEditing ==
  /\ window.open /\ page.asking
  /\ page' = [page EXCEPT !.asking = FALSE, !.closing = FALSE]
  /\ calls' = Append(calls, CancelCall)
  /\ UNCHANGED <<chains, flushes, bridge, window, known, budget>>

LeaveEditor ==
  /\ window.open /\ page.asking
  /\ Flush([page EXCEPT !.asking = FALSE, !.dirty = FALSE])
  /\ UNCHANGED <<bridge, window, known, budget>>

-----------------------------------------------------------------------------
(* The bridge *)

(* A thread of the bridge takes a call up. *)
Takes(i, call) ==
  /\ window.open /\ calls[i] = call /\ (InOrder => i = 1)
  /\ calls' = SubSeq(calls, 1, i - 1) \o SubSeq(calls, i + 1, Len(calls))

(* _invalidate_close_schedule_locked() *)
Unscheduled(b) == [b EXCEPT !.scheduled = FALSE]

(* ui_state_pending_changed(): a queue that grows during a close puts it off. *)
PendingChanged(c) ==
  LET grows == bridge.action # "none" /\ chains[c].size > bridge.count
      b == [bridge EXCEPT !.count = chains[c].size] IN
  /\ chains[c].pc \in {"announce", "report"}
  /\ bridge' = IF grows THEN Unscheduled(b) ELSE b
  /\ window' = IF grows THEN [window EXCEPT !.timer = FALSE] ELSE window
  /\ chains' = [chains EXCEPT ![c].pc =
       IF chains[c].pc = "announce" THEN IF grows THEN "deferred" ELSE "announced"
       ELSE IF grows THEN "contested" ELSE "reported"]
  /\ known' = IF chains[c].pc = "report" \/ window.destroying THEN known
              ELSE [known EXCEPT ![c[1]].told = Larger(@, chains[c].value)]
  /\ UNCHANGED <<page, flushes, budget>>

(* Not the code: a write is counted, whatever the close is doing. *)
StartsAlways == TRUE

(* set_ui_state(): no write starts behind the back of a close that saw none. *)
Starts == ~(bridge.action # "none" /\ bridge.count = 0)

BeginWrite(c) ==
  /\ chains[c].pc = "write"
  /\ bridge' = IF Starts THEN [bridge EXCEPT !.inflight = @ + 1] ELSE Unscheduled(bridge)
  /\ window' = IF Starts THEN window ELSE [window EXCEPT !.timer = FALSE]
  /\ chains' = [chains EXCEPT ![c].pc = IF Starts THEN "writing" ELSE "refused"]
  /\ UNCHANGED <<page, flushes, known, budget>>

(* UIStateStore.set() *)
Store(c) ==
  /\ window.open /\ chains[c].pc = "writing"
  /\ \/ /\ known' = [known EXCEPT ![c[1]].written = Larger(@, chains[c].value)]
        /\ chains' = [chains EXCEPT ![c].pc = "written"] /\ UNCHANGED budget
     \/ /\ Spend("faults")
        /\ chains' = [chains EXCEPT ![c].pc = "failed"] /\ UNCHANGED known
  /\ UNCHANGED <<page, flushes, calls, bridge, window>>

(* The finally of set_ui_state() *)
EndWrite(c) ==
  /\ window.open /\ chains[c].pc \in {"written", "failed"}
  /\ bridge' = [bridge EXCEPT !.inflight = @ - 1]
  /\ window' = [window EXCEPT !.drain = @ \/ (bridge.action # "none" /\ bridge.inflight = 1)]
  /\ chains' = [chains EXCEPT ![c].pc = IF chains[c].pc = "written" THEN "saved" ELSE "refused"]
  /\ UNCHANGED <<page, flushes, calls, known, budget>>

Busy == bridge.count > 0 \/ bridge.inflight > 0

(* complete_pending_close() and _schedule_close_action() *)
CompletePendingClose ==
  /\ bridge' = [bridge EXCEPT !.scheduled = @ \/ (~Busy /\ bridge.action # "none")]
  /\ window' = [window EXCEPT !.drain = @ \/ Busy,
                              !.timer = @ \/ (bridge'.scheduled /\ ~bridge.scheduled)]
  /\ page' = [page EXCEPT !.replies = @ \union
       (IF Busy THEN {"busy"} ELSE IF bridge.action = "none" THEN {"nothing"} ELSE {})]
  /\ UNCHANGED <<chains, flushes, known, budget>>

CancelPendingClose ==
  /\ bridge' = Unscheduled([bridge EXCEPT !.action = "none"])
  /\ window' = [window EXCEPT !.timer = FALSE]
  /\ UNCHANGED <<page, chains, flushes, known, budget>>

Serve ==
  \E i \in DOMAIN calls :
    \/ \E c \in Chains : Takes(i, c) /\ (PendingChanged(c) \/ BeginWrite(c))
    \/ Takes(i, CompleteCall) /\ CompletePendingClose
    \/ Takes(i, CancelCall) /\ CancelPendingClose

(* _handle_window_closing() and restart_with_vault(): the first action stands. *)
Ask(action) ==
  /\ window.open /\ ~window.destroying /\ Spend("clicks")
  /\ bridge' = IF bridge.action = "none" THEN [bridge EXCEPT !.action = action] ELSE bridge
  /\ window' = [window EXCEPT !.drain = @ \/ action = "close" \/ bridge'.action = action]
  /\ UNCHANGED <<page, chains, flushes, calls, known>>

(* finish(), 0.15 s after a complete_pending_close() that saw nothing pending *)
Finishes == ~Busy

Finish ==
  /\ window.open /\ window.timer
  /\ window' = [window EXCEPT !.timer = FALSE, !.destroying = Finishes]
  /\ UNCHANGED <<page, chains, flushes, calls, bridge, known, budget>>

Destroy ==
  /\ window.open /\ window.destroying
  /\ window' = [window EXCEPT !.open = FALSE, !.destroying = FALSE]
  /\ UNCHANGED <<page, chains, flushes, calls, bridge, known, budget>>

Chain(c) == OnAnnounced(c) \/ OnWritten(c) \/ OnReported(c) \/ Store(c) \/ EndWrite(c)

Next ==
  \/ \E c \in Chains : Chain(c)
  \/ OnCompleted \/ Serve \/ Retry \/ Drain \/ Finish \/ Destroy
  \/ \E k \in Keys : Change(k)
  \/ \E action \in {"close", "restart"} : Ask(action)
  \/ Edit \/ SaveNote \/ KeepEditing \/ LeaveEditor

Spec == Init /\ [][Next]_windowVars

-----------------------------------------------------------------------------
(* Properties *)

(* A change of the interface the bridge was told of before it let the window go
   has been written, or a later one of the same entry has, whatever was refused,
   retried or called off in between. *)
AnnouncedIsSaved == ~window.open => \A k \in Keys : known[k].told <= known[k].written
=============================================================================
