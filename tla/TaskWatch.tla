----------------------------- MODULE TaskWatch -----------------------------
(***************************************************************************)
(* How a committed task change reaches the screen: internal/store/         *)
(* changes.go (SubscribeTask, notify, close), Put and Event of store.go    *)
(* as its producers, and internal/ui/task_history.go (updateTask,          *)
(* watchTaskUpdates, taskHistory.load and the delivery of watchTasks).     *)
(*                                                                         *)
(* A writer commits and then notifies.  A notification is one wake-up in a *)
(* channel of capacity one; it arms a frame timer, and the frame reads the *)
(* task document and then the events after the last one seen, in two       *)
(* queries.  The result goes to the UI thread, which may have selected     *)
(* another task meanwhile.                                                 *)
(*                                                                         *)
(* Abstractions: the event log of a task is its length, the task document  *)
(* its status.  A released subscription is gone, so only the current one   *)
(* is kept.                                                                *)
(***************************************************************************)
EXTENDS Naturals

CONSTANTS Tasks, NoTask, Statuses, FirstStatus,
          MaxEvents,   \* bound on the events of a task
          MaxPuts,     \* bound on the writes of task documents
          MaxSelects,  \* bound on selections
          MaxErrors    \* bound on failed reads

ASSUME WatchAssumption ==
    /\ NoTask \notin Tasks /\ FirstStatus \in Statuses
    /\ {MaxEvents, MaxPuts, MaxSelects, MaxErrors} \subseteq Nat

VARIABLES
    status, events,  \* the store: per task, document and length of the log
    owed,            \* per task: commits whose notify has not run yet
    puts, errors,
    storeOpen, running,      \* the store, and the watcher's ctx
    taskID, revision,        \* App.taskID, App.taskRevision
    request,                 \* App.taskRequests, capacity one
    view,                    \* what the conversation shows
    pc, selected,            \* the watcher
    wake, frame,             \* its subscription's channel; frame timer armed
    history, read, update,   \* taskHistory, the document just read, the delivery
    missed                   \* history: the last read failed

vars == <<status, events, owed, puts, errors, storeOpen, running, taskID,
          revision, request, view, pc, selected, wake, frame, history, read,
          update, missed>>

store == <<status, events, owed, puts, storeOpen>>
ui == <<taskID, revision, request, view>>
watcher == <<pc, selected, wake, frame, history, read, update, missed, errors>>

Selection == [id : Tasks \cup {NoTask}, revision : Nat]
NoSelection == [id |-> NoTask, revision |-> 0]
Content == [id : Tasks \cup {NoTask}, events : Nat, status : Statuses \cup {"none"}]
Blank(t) == [id |-> t, events |-> 0, status |-> "none"]
History == [id : Tasks \cup {NoTask}, after : Nat,
            status : Statuses \cup {"none"}, loaded : BOOLEAN]
NoHistory(t) == [id |-> t, after |-> 0, status |-> "none", loaded |-> FALSE]

TypeOK ==
    /\ status \in [Tasks -> Statuses]
    /\ events \in [Tasks -> Nat] /\ owed \in [Tasks -> Nat]
    /\ puts \in Nat /\ errors \in Nat
    /\ storeOpen \in BOOLEAN /\ running \in BOOLEAN
    /\ taskID \in Tasks \cup {NoTask} /\ revision \in Nat
    /\ request \in Selection /\ selected \in Selection
    /\ view \in Content /\ update \in Content
    /\ pc \in {"select", "task", "events", "deliver", "returned"}
    /\ wake \in BOOLEAN /\ frame \in BOOLEAN /\ missed \in BOOLEAN
    /\ history \in History
    /\ read \in Statuses \cup {"none"}

Init ==
    /\ status = [t \in Tasks |-> FirstStatus]
    /\ events = [t \in Tasks |-> 0] /\ owed = [t \in Tasks |-> 0]
    /\ puts = 0 /\ errors = 0
    /\ storeOpen = TRUE /\ running = TRUE
    /\ taskID = NoTask /\ revision = 0
    /\ request = NoSelection /\ selected = NoSelection
    /\ view = Blank(NoTask) /\ update = Blank(NoTask)
    /\ pc = "select"
    /\ wake = FALSE /\ frame = FALSE /\ missed = FALSE
    /\ history = NoHistory(NoTask)
    /\ read = "none"

-----------------------------------------------------------------------------
(* Writers                                                                 *)

\* Store.Event: the row is inserted; notify comes afterwards.
Event(t) ==
    /\ storeOpen /\ events[t] < MaxEvents
    /\ events' = [events EXCEPT ![t] = @ + 1]
    /\ owed' = [owed EXCEPT ![t] = @ + 1]
    /\ UNCHANGED <<status, puts, storeOpen, running, ui, watcher>>

\* Store.Put of a task document.
Put(t, s) ==
    /\ storeOpen /\ puts < MaxPuts
    /\ puts' = puts + 1
    /\ status' = [status EXCEPT ![t] = s]
    /\ owed' = [owed EXCEPT ![t] = @ + 1]
    /\ UNCHANGED <<events, storeOpen, running, ui, watcher>>

\* A send that does not wait: a wake-up that is already there is enough.
Notify(t) ==
    /\ owed[t] > 0
    /\ owed' = [owed EXCEPT ![t] = @ - 1]
    /\ wake' = (wake \/ (storeOpen /\ pc # "returned" /\ selected.id = t))
    /\ UNCHANGED <<status, events, puts, storeOpen, running, ui, pc, selected,
                   frame, history, read, update, missed, errors>>

\* Store.Close closes every subscription.
CloseStore ==
    /\ storeOpen /\ ~running
    /\ storeOpen' = FALSE
    /\ UNCHANGED <<status, events, owed, puts, running, ui, watcher>>

-----------------------------------------------------------------------------
(* The UI thread                                                           *)

\* Mutant: the view is reset for the task it already shows.
UpdateTaskResetting(t) ==
    /\ revision < MaxSelects
    /\ taskID' = t
    /\ revision' = revision + 1
    /\ view' = Blank(t)
    /\ request' = [id |-> t, revision |-> revision + 1]
    /\ UNCHANGED <<store, running, watcher>>

\* updateTask: the view of another task is reset; the newest selection
\* replaces one that was not taken yet.
UpdateTask(t) ==
    /\ revision < MaxSelects
    /\ taskID' = t
    /\ revision' = revision + 1
    /\ view' = IF view.id # t THEN Blank(t) ELSE view
    /\ request' = [id |-> t, revision |-> revision + 1]
    /\ UNCHANGED <<store, running, watcher>>

Quit ==
    /\ running
    /\ running' = FALSE
    /\ UNCHANGED <<store, ui, watcher>>

Current == running /\ taskID = selected.id /\ revision = selected.revision

\* DoAndWait: the watcher waits for the UI thread to run this.
Deliver ==
    /\ pc = "deliver"
    /\ view' = IF Current THEN update ELSE view
    /\ pc' = "select"
    /\ update' = Blank(NoTask)
    /\ UNCHANGED <<store, running, taskID, revision, request, selected, wake,
                   frame, history, read, missed, errors>>

-----------------------------------------------------------------------------
(* watchTaskUpdates; a ready case of the select is chosen at random        *)

\* ctx.Done(), or the subscription was closed by the store.
WatcherReturns ==
    /\ pc = "select"
    /\ ~running \/ (~storeOpen /\ selected.id # NoTask /\ ~wake)
    /\ pc' = "returned"
    /\ UNCHANGED <<store, ui, running, selected, wake, frame, history, read,
                   update, missed, errors>>

\* Mutant: the history still counts as loaded after a new selection.
TakeSelectionLoaded ==
    /\ pc = "select" /\ request # NoSelection
    /\ selected' = request /\ request' = NoSelection
    /\ wake' = FALSE /\ frame' = FALSE
    /\ history' = IF request.id = NoTask THEN NoHistory(NoTask) ELSE history
    /\ pc' = IF request.id = NoTask THEN "select" ELSE "task"
    /\ missed' = FALSE
    /\ UNCHANGED <<store, running, taskID, revision, view, read, update, errors>>

\* A selection: the old subscription is released, the new one is made
\* before the first load.
TakeSelection ==
    /\ pc = "select" /\ request # NoSelection
    /\ selected' = request /\ request' = NoSelection
    /\ wake' = FALSE /\ frame' = FALSE
    /\ history' = IF request.id = NoTask THEN NoHistory(NoTask)
                  ELSE [history EXCEPT !.loaded = FALSE]
    /\ pc' = IF request.id = NoTask THEN "select" ELSE "task"
    /\ missed' = FALSE
    /\ UNCHANGED <<store, running, taskID, revision, view, read, update, errors>>

TakeWake ==
    /\ pc = "select" /\ wake
    /\ wake' = FALSE /\ frame' = TRUE
    /\ UNCHANGED <<store, running, ui, pc, selected, history, read, update,
                   missed, errors>>

\* Mutant: the watcher does not select on the timer.
FrameIgnored == FALSE /\ UNCHANGED vars

Frame ==
    /\ pc = "select" /\ frame
    /\ frame' = FALSE
    /\ pc' = "task"
    /\ UNCHANGED <<store, running, ui, selected, wake, history, read, update,
                   missed, errors>>

\* taskHistory.load, first query.
ReadTask ==
    /\ pc = "task" /\ storeOpen
    /\ history' = IF history.id = selected.id THEN history
                  ELSE NoHistory(selected.id)
    /\ read' = status[selected.id]
    /\ pc' = "events"
    /\ UNCHANGED <<store, running, ui, selected, wake, frame, update, missed,
                   errors>>

\* Second query.  Without a change nothing is delivered.
ReadEvents ==
    LET n == events[selected.id]
    IN  /\ pc = "events" /\ storeOpen
        /\ history' = [history EXCEPT !.after = n, !.status = read,
                                      !.loaded = TRUE]
        /\ IF ~history.loaded \/ history.status # read \/ n > history.after
             THEN /\ pc' = "deliver"
                  /\ update' = [id |-> selected.id, events |-> n, status |-> read]
             ELSE pc' = "select" /\ UNCHANGED update
        /\ read' = "none" /\ missed' = FALSE
        /\ UNCHANGED <<store, running, ui, selected, wake, frame, errors>>

\* Either query fails: the watcher waits for the next wake-up.
ReadFails ==
    /\ pc \in {"task", "events"}
    /\ ~storeOpen \/ errors < MaxErrors
    /\ errors' = IF storeOpen THEN errors + 1 ELSE errors
    /\ history' = IF history.id = selected.id THEN history
                  ELSE NoHistory(selected.id)
    /\ read' = "none" /\ missed' = TRUE
    /\ pc' = "select"
    /\ UNCHANGED <<store, running, ui, selected, wake, frame, update>>

-----------------------------------------------------------------------------
Watch == \/ WatcherReturns \/ TakeSelection \/ TakeWake \/ Frame
         \/ ReadTask \/ ReadEvents \/ ReadFails

Next ==
    \/ \E t \in Tasks :
         Event(t) \/ Notify(t) \/ \E s \in Statuses : Put(t, s)
    \/ \E t \in Tasks \cup {NoTask} : UpdateTask(t)
    \/ CloseStore \/ Quit \/ Deliver \/ Watch

Spec == Init /\ [][Next]_vars

(***************************************************************************)
(* Fairness: a writer that committed calls notify, the watcher's goroutine *)
(* runs, and the UI thread runs what it is given.                          *)
(***************************************************************************)
FairSpec == /\ Spec
            /\ \A t \in Tasks : WF_vars(Notify(t))
            /\ WF_vars(Watch) /\ WF_vars(Deliver)

-----------------------------------------------------------------------------
(* Properties                                                              *)

\* Never the content of one task under another, and never more than was
\* committed: the view belongs to the selected task.
ViewOfSelection ==
    /\ view.id = taskID
    /\ taskID # NoTask => view.events <= events[taskID]

\* Within a task the conversation only grows: a late delivery of an older
\* read never replaces a newer one.
ViewNeverShrinks ==
    [][view'.id = view.id => view'.events >= view.events]_vars

\* When the watcher waits and nothing is on its way to it, the screen shows
\* what the store has, unless the last read failed: no wake-up is lost,
\* although a channel keeps only one.
Quiet == /\ pc = "select" /\ request = NoSelection /\ ~wake /\ ~frame
         /\ running /\ storeOpen
         /\ taskID # NoTask /\ owed[taskID] = 0

QuietIsCurrent ==
    Quiet /\ ~missed =>
        view.events = events[taskID] /\ view.status = status[taskID]

\* The view shows the selected task, and all of it when nothing is under way.
ViewIsCurrent == TypeOK /\ ViewOfSelection /\ QuietIsCurrent

\* Each commit to the selected task is shown in the end, unless the user
\* goes to another task, quits, or the last read failed.
CommitIsShown ==
    []<>( \/ taskID \notin Tasks \/ ~running \/ missed
          \/ view.id = taskID /\ view.events = events[taskID] )
=============================================================================
