--------------------------- MODULE SettlingProofs ---------------------------
(***************************************************************************)
(* What a task shows and what a terminal shows and sends, for any number   *)
(* of tasks, commits and selections, and any capacities, inputs, chunks    *)
(* and geometries.  Both hang on a flag that stands for several events:    *)
(* what was not looked at yet is behind a wake-up that is still to come.   *)
(***************************************************************************)
EXTENDS TaskWatch, TerminalView, SequenceTheorems, TLAPS

(***************************************************************************)
(* The view of a task                                                      *)
(***************************************************************************)

\* The request in the channel is the newest selection; when there is none, the
\* watcher has taken it.
SelectionInv ==
    /\ request = NoSelection => selected.id = taskID /\ selected.revision = revision
    /\ request # NoSelection =>
         request.id = taskID /\ request.revision = revision /\ selected.revision < revision
    /\ wake \/ frame \/ pc \in {"task", "events", "deliver"} => selected.id \in Tasks

\* The history is never ahead of the store, and a delivery is what it says.
HistoryInv ==
    /\ history.id \in Tasks => history.after <= events[history.id]
    /\ history.loaded => history.id = selected.id
    /\ pc \in {"events", "deliver"} => history.id = selected.id
    /\ pc = "deliver" =>
         /\ history.loaded
         /\ update = [id |-> selected.id, events |-> history.after, status |-> history.status]

\* The view is never ahead of the history, and is the history that was loaded
\* for the selection, unless it is being delivered.
ShownInv ==
    /\ view.id = taskID
    /\ view.events > 0 =>
         view.id \in Tasks /\ selected.id = view.id /\ history.id = view.id /\ view.events <= history.after
    /\ history.loaded /\ running /\ request = NoSelection /\ pc # "deliver" =>
         view = [id |-> selected.id, events |-> history.after, status |-> history.status]

\* What was read is what the store has, or there is a wake-up to come.
Coming(t) == owed[t] > 0 \/ wake \/ frame

FreshInv ==
    storeOpen /\ selected.id \in Tasks =>
        /\ pc = "select" /\ ~missed => history.loaded
        /\ (pc = "select" /\ ~missed) \/ pc = "deliver" =>
             \/ Coming(selected.id)
             \/ history.after = events[selected.id] /\ history.status = status[selected.id]
        /\ pc = "events" => Coming(selected.id) \/ read = status[selected.id]

WatchInv == TypeOK /\ SelectionInv /\ HistoryInv /\ ShownInv /\ FreshInv

-----------------------------------------------------------------------------
LEMMA WatchInitInv == Init => WatchInv
<1> SUFFICES ASSUME Init PROVE WatchInv
  OBVIOUS
<1>1. TypeOK
  BY WatchAssumption DEF Init, TypeOK, Selection, NoSelection, Content, Blank, History, NoHistory
<1>2. SelectionInv /\ HistoryInv /\ ShownInv /\ FreshInv
  BY WatchAssumption DEF Init, SelectionInv, HistoryInv, ShownInv, FreshInv, NoSelection, Blank, NoHistory
<1>3. QED
  BY <1>1, <1>2 DEF WatchInv

\* Commits, and their notifications.
LEMMA WriterSteps ==
    ASSUME WatchInv, NEW t \in Tasks, Event(t) \/ (\E s \in Statuses : Put(t, s)) \/ Notify(t)
    PROVE  WatchInv'
<1>1. TypeOK /\ SelectionInv /\ HistoryInv /\ ShownInv /\ FreshInv
  BY DEF WatchInv
<1>2. UNCHANGED <<storeOpen, running, ui, pc, selected, frame, history, read, update, missed, errors>>
  BY DEF Event, Put, Notify, watcher
<1>3. /\ events' \in [Tasks -> Nat] /\ owed' \in [Tasks -> Nat] /\ puts' \in Nat
      /\ status' \in [Tasks -> Statuses] /\ wake' \in BOOLEAN
      /\ \A u \in Tasks : events[u] \in Nat /\ events'[u] \in Nat /\ events[u] <= events'[u]
  <2>1. CASE Event(t)
    BY <1>1, <2>1 DEF TypeOK, Event, watcher
  <2>2. CASE \E s \in Statuses : Put(t, s)
    BY <1>1, <2>2 DEF TypeOK, Put, watcher
  <2>3. CASE Notify(t)
    BY <1>1, <2>3 DEF TypeOK, Notify
  <2>4. QED
    BY <2>1, <2>2, <2>3
<1>4. TypeOK'
  BY <1>1, <1>2, <1>3 DEF TypeOK, ui
<1>5. SelectionInv' /\ ShownInv'
  <2>1. wake' => wake \/ selected.id \in Tasks
    BY DEF Event, Put, Notify, watcher
  <2>2. QED
    BY <1>1, <1>2, <2>1 DEF SelectionInv, ShownInv, ui
<1>6. HistoryInv'
  <2>1. history.id \in Tasks => history.after <= events'[history.id]
    BY <1>1, <1>3 DEF HistoryInv, TypeOK, History
  <2>2. QED
    BY <1>1, <1>2, <2>1 DEF HistoryInv
<1>7. ASSUME NEW u \in Tasks, storeOpen, pc # "returned", selected.id = u
      PROVE  /\ Coming(u) => Coming(u)'
             /\ Coming(u)' \/ (events'[u] = events[u] /\ status'[u] = status[u])
  <2>1. owed[u] \in Nat
    BY <1>1 DEF TypeOK
  <2>2. CASE Event(t)
    BY <1>1, <1>7, <2>1, <2>2 DEF TypeOK, Event, Coming, watcher
  <2>3. CASE \E s \in Statuses : Put(t, s)
    BY <1>1, <1>7, <2>1, <2>3 DEF TypeOK, Put, Coming, watcher
  <2>4. CASE Notify(t)
    BY <1>1, <1>7, <2>1, <2>4 DEF TypeOK, Notify, Coming
  <2>5. QED
    BY <2>2, <2>3, <2>4
<1>8. FreshInv'
  BY <1>1, <1>2, <1>7 DEF FreshInv
<1>9. QED
  BY <1>4, <1>5, <1>6, <1>8 DEF WatchInv

LEMMA CloseStoreStep ==
    ASSUME WatchInv, CloseStore
    PROVE  WatchInv'
<1>1. TypeOK /\ SelectionInv /\ HistoryInv /\ ShownInv
  BY DEF WatchInv
<1>2. storeOpen' = FALSE /\ UNCHANGED <<status, events, owed, puts, running, ui, watcher>>
  BY DEF CloseStore
<1>3. TypeOK'
  BY <1>1, <1>2 DEF TypeOK, ui, watcher
<1>4. SelectionInv' /\ HistoryInv' /\ ShownInv'
  BY <1>1, <1>2 DEF SelectionInv, HistoryInv, ShownInv, ui, watcher
<1>5. FreshInv'
  BY <1>2 DEF FreshInv
<1>6. QED
  BY <1>3, <1>4, <1>5 DEF WatchInv

LEMMA QuitStep ==
    ASSUME WatchInv, Quit
    PROVE  WatchInv'
<1>1. TypeOK /\ SelectionInv /\ HistoryInv /\ ShownInv /\ FreshInv
  BY DEF WatchInv
<1>2. running' = FALSE /\ UNCHANGED <<store, ui, watcher>>
  BY DEF Quit
<1>3. TypeOK'
  BY <1>1, <1>2 DEF TypeOK, store, ui, watcher
<1>4. SelectionInv' /\ HistoryInv' /\ FreshInv'
  BY <1>1, <1>2 DEF SelectionInv, HistoryInv, FreshInv, Coming, store, ui, watcher
<1>5. ShownInv'
  BY <1>1, <1>2 DEF ShownInv, ui, watcher
<1>6. QED
  BY <1>3, <1>4, <1>5 DEF WatchInv

LEMMA UpdateTaskStep ==
    ASSUME WatchInv, NEW t \in Tasks \cup {NoTask}, UpdateTask(t)
    PROVE  WatchInv'
<1>1. TypeOK /\ SelectionInv /\ HistoryInv /\ ShownInv /\ FreshInv
  BY DEF WatchInv
<1>2. /\ UNCHANGED <<store, running, watcher>> /\ taskID' = t /\ revision' = revision + 1
      /\ request' = [id |-> t, revision |-> revision + 1]
      /\ view' = IF view.id # t THEN Blank(t) ELSE view
  BY DEF UpdateTask
<1>3. revision \in Nat /\ selected.revision \in Nat /\ revision + 1 \in Nat /\ revision + 1 # 0
  BY <1>1 DEF TypeOK, Selection
<1>4. request' # NoSelection /\ request' \in Selection /\ request'.id = t /\ request'.revision = revision + 1
  BY <1>2, <1>3 DEF NoSelection, Selection
<1>5. Blank(t) \in Content /\ Blank(t).id = t /\ Blank(t).events = 0
  BY DEF Blank, Content
<1>6. view' \in Content /\ view'.id = t /\ (view'.events > 0 => view' = view)
  BY <1>1, <1>2, <1>5 DEF TypeOK
<1>7. TypeOK'
  BY <1>1, <1>2, <1>3, <1>4, <1>6 DEF TypeOK, store, watcher
<1>8. SelectionInv'
  BY <1>1, <1>2, <1>3, <1>4 DEF SelectionInv, watcher
<1>9. HistoryInv' /\ FreshInv'
  BY <1>1, <1>2 DEF HistoryInv, FreshInv, Coming, store, watcher
<1>10. ShownInv'
  BY <1>1, <1>2, <1>4, <1>6 DEF ShownInv, watcher
<1>11. QED
  BY <1>7, <1>8, <1>9, <1>10 DEF WatchInv

\* The watcher's answer is shown only while its selection is the current one.
LEMMA DeliverStep ==
    ASSUME WatchInv, Deliver
    PROVE  WatchInv' /\ (view'.id = view.id => view'.events >= view.events)
<1>1. TypeOK /\ SelectionInv /\ HistoryInv /\ ShownInv /\ FreshInv
  BY DEF WatchInv
<1>2. /\ pc = "deliver" /\ pc' = "select" /\ update' = Blank(NoTask)
      /\ view' = IF Current THEN update ELSE view
      /\ UNCHANGED <<store, running, taskID, revision, request, selected, wake, frame, history,
                     read, missed, errors>>
  BY DEF Deliver
<1>3. /\ selected.id \in Tasks /\ history.id = selected.id /\ history.loaded
      /\ update = [id |-> selected.id, events |-> history.after, status |-> history.status]
      /\ history.after \in Nat /\ view.events \in Nat
  BY <1>1, <1>2 DEF SelectionInv, HistoryInv, TypeOK, History, Content
<1>4. update.id = selected.id /\ update.events = history.after /\ update.status = history.status
  BY <1>3
<1>5. TypeOK'
  BY <1>1, <1>2 DEF TypeOK, store, Blank, Content
<1>6. SelectionInv' /\ HistoryInv' /\ FreshInv'
  BY <1>1, <1>2, <1>3 DEF SelectionInv, HistoryInv, FreshInv, Coming, store
<1>7. CASE Current
  <2>1. view' = update /\ taskID = selected.id /\ view.id = taskID
    BY <1>1, <1>2, <1>7 DEF Current, ShownInv
  <2>2. view.events <= history.after
    BY <1>1, <1>3 DEF ShownInv
  <2>3. ShownInv'
    BY <1>2, <1>3, <1>4, <2>1 DEF ShownInv
  <2>4. QED
    BY <1>3, <1>4, <1>5, <1>6, <2>1, <2>2, <2>3 DEF WatchInv
<1>8. CASE ~Current
  <2>1. ~(running /\ request = NoSelection)
    BY <1>1, <1>8 DEF Current, SelectionInv
  <2>2. ShownInv'
    BY <1>1, <1>2, <1>8, <2>1 DEF ShownInv
  <2>3. QED
    BY <1>2, <1>3, <1>5, <1>6, <1>8, <2>2 DEF WatchInv
<1>9. QED
  BY <1>7, <1>8

-----------------------------------------------------------------------------
(* The watcher                                                             *)

LEMMA WaitingSteps ==
    ASSUME WatchInv, WatcherReturns \/ TakeWake \/ Frame
    PROVE  WatchInv'
<1>1. TypeOK /\ SelectionInv /\ HistoryInv /\ ShownInv /\ FreshInv
  BY DEF WatchInv
<1>2. /\ UNCHANGED <<store, ui, running, selected, history, read, update, missed, errors>>
      /\ pc = "select" /\ pc' \in {"select", "task", "returned"} /\ (pc' = "task" => frame)
      /\ wake' \in BOOLEAN /\ frame' \in BOOLEAN
  BY <1>1 DEF TypeOK, WatcherReturns, TakeWake, Frame
<1>3. TypeOK'
  BY <1>1, <1>2 DEF TypeOK, store, ui
<1>4. SelectionInv'
  BY <1>1, <1>2 DEF SelectionInv, ui, WatcherReturns, TakeWake, Frame
<1>5. HistoryInv' /\ ShownInv'
  BY <1>1, <1>2 DEF HistoryInv, ShownInv, store, ui
<1>6. FreshInv'
  BY <1>1, <1>2 DEF FreshInv, Coming, store, WatcherReturns, TakeWake, Frame
<1>7. QED
  BY <1>3, <1>4, <1>5, <1>6 DEF WatchInv

LEMMA TakeSelectionStep ==
    ASSUME WatchInv, TakeSelection
    PROVE  WatchInv'
<1>1. TypeOK /\ SelectionInv /\ HistoryInv /\ ShownInv /\ FreshInv
  BY DEF WatchInv
<1>2. /\ pc = "select" /\ request # NoSelection /\ selected' = request /\ request' = NoSelection
      /\ wake' = FALSE /\ frame' = FALSE /\ missed' = FALSE
      /\ history' = IF request.id = NoTask THEN NoHistory(NoTask) ELSE [history EXCEPT !.loaded = FALSE]
      /\ pc' = IF request.id = NoTask THEN "select" ELSE "task"
      /\ UNCHANGED <<store, running, taskID, revision, view, read, update, errors>>
  BY DEF TakeSelection
<1>3. request.id = taskID /\ request.revision = revision /\ request.id \in Tasks \cup {NoTask}
  BY <1>1, <1>2 DEF SelectionInv, TypeOK, Selection
<1>4. /\ history' \in History /\ history'.loaded = FALSE
      /\ request.id # NoTask => history'.id = history.id /\ history'.after = history.after
      /\ request.id = NoTask => history'.id = NoTask
  BY <1>1, <1>2 DEF TypeOK, History, NoHistory
<1>5. TypeOK'
  BY <1>1, <1>2, <1>4 DEF TypeOK, store, Selection, NoSelection
<1>6. SelectionInv'
  BY <1>2, <1>3 DEF SelectionInv
<1>7. HistoryInv'
  BY <1>1, <1>2, <1>4, WatchAssumption DEF HistoryInv, store
<1>8. ShownInv'
  BY <1>1, <1>2, <1>3, <1>4, WatchAssumption DEF ShownInv
<1>9. FreshInv'
  BY <1>2, <1>3, WatchAssumption DEF FreshInv
<1>10. QED
  BY <1>5, <1>6, <1>7, <1>8, <1>9 DEF WatchInv

\* What load starts from: its history of the task, or an empty one.
LEMMA HistoryOfSelected ==
    ASSUME WatchInv, selected.id \in Tasks,
           history' = IF history.id = selected.id THEN history ELSE NoHistory(selected.id),
           UNCHANGED <<store, ui, selected>>
    PROVE  /\ history' \in History /\ history'.id = selected.id /\ history'.after <= events[selected.id]
           /\ history'.loaded => history' = history
           /\ view.events > 0 => history' = history
BY DEF WatchInv, TypeOK, HistoryInv, ShownInv, NoHistory, History

LEMMA ReadTaskStep ==
    ASSUME WatchInv, ReadTask
    PROVE  WatchInv'
<1>1. TypeOK /\ SelectionInv /\ HistoryInv /\ ShownInv /\ FreshInv
  BY DEF WatchInv
<1>2. /\ pc = "task" /\ pc' = "events" /\ read' = status[selected.id]
      /\ history' = IF history.id = selected.id THEN history ELSE NoHistory(selected.id)
      /\ UNCHANGED <<store, running, ui, selected, wake, frame, update, missed, errors>>
  BY DEF ReadTask
<1>3. selected.id \in Tasks /\ status[selected.id] \in Statuses
  BY <1>1, <1>2 DEF SelectionInv, TypeOK
<1>4. /\ history' \in History /\ history'.id = selected.id /\ history'.after <= events[selected.id]
      /\ history'.loaded => history' = history
      /\ view.events > 0 => history' = history
  BY <1>2, <1>3, HistoryOfSelected
<1>5. TypeOK'
  BY <1>1, <1>2, <1>3, <1>4 DEF TypeOK, store, ui
<1>6. SelectionInv' /\ HistoryInv' /\ FreshInv'
  BY <1>1, <1>2, <1>3, <1>4 DEF SelectionInv, HistoryInv, FreshInv, Coming, store, ui
<1>7. ShownInv'
  BY <1>1, <1>2, <1>4 DEF ShownInv, ui
<1>8. QED
  BY <1>5, <1>6, <1>7 DEF WatchInv

LEMMA ReadFailsStep ==
    ASSUME WatchInv, ReadFails
    PROVE  WatchInv'
<1>1. TypeOK /\ SelectionInv /\ HistoryInv /\ ShownInv /\ FreshInv
  BY DEF WatchInv
<1>2. /\ pc \in {"task", "events"} /\ pc' = "select" /\ read' = "none" /\ missed' = TRUE
      /\ history' = IF history.id = selected.id THEN history ELSE NoHistory(selected.id)
      /\ errors' = errors \/ errors' = errors + 1
      /\ UNCHANGED <<store, running, ui, selected, wake, frame, update>>
  BY DEF ReadFails
<1>3. selected.id \in Tasks
  BY <1>1, <1>2 DEF SelectionInv
<1>4. /\ history' \in History /\ history'.id = selected.id /\ history'.after <= events[selected.id]
      /\ history'.loaded => history' = history
      /\ view.events > 0 => history' = history
  BY <1>2, <1>3, HistoryOfSelected
<1>5. errors' \in Nat
  BY <1>1, <1>2 DEF TypeOK
<1>6. TypeOK'
  BY <1>1, <1>2, <1>4, <1>5 DEF TypeOK, store, ui
<1>7. SelectionInv' /\ HistoryInv' /\ FreshInv'
  BY <1>1, <1>2, <1>3, <1>4 DEF SelectionInv, HistoryInv, FreshInv, Coming, store, ui
<1>8. ShownInv'
  BY <1>1, <1>2, <1>4 DEF ShownInv, ui
<1>9. QED
  BY <1>6, <1>7, <1>8 DEF WatchInv

LEMMA ReadEventsStep ==
    ASSUME WatchInv, ReadEvents
    PROVE  WatchInv'
<1> DEFINE n == events[selected.id]
           changed == ~history.loaded \/ history.status # read \/ n > history.after
           found == [id |-> selected.id, events |-> n, status |-> read]
<1>1. TypeOK /\ SelectionInv /\ HistoryInv /\ ShownInv /\ FreshInv
  BY DEF WatchInv
<1>2. /\ pc = "events" /\ storeOpen /\ read' = "none" /\ missed' = FALSE
      /\ history' = [history EXCEPT !.after = n, !.status = read, !.loaded = TRUE]
      /\ pc' = IF changed THEN "deliver" ELSE "select"
      /\ update' = IF changed THEN found ELSE update
      /\ UNCHANGED <<store, running, ui, selected, wake, frame, errors>>
  BY DEF ReadEvents
<1>3. /\ selected.id \in Tasks /\ n \in Nat /\ history.after \in Nat /\ history.id = selected.id
      /\ history.after <= n /\ read \in Statuses \cup {"none"}
  BY <1>1, <1>2 DEF SelectionInv, HistoryInv, TypeOK, History
<1>4. /\ history' \in History /\ history'.id = selected.id /\ history'.after = n
      /\ history'.status = read /\ history'.loaded = TRUE
  BY <1>1, <1>2, <1>3 DEF TypeOK, History
<1>5. found \in Content
  BY <1>3 DEF Content
<1> HIDE DEF found
<1>6. TypeOK'
  BY <1>1, <1>2, <1>4, <1>5 DEF TypeOK, store, ui
<1>7. SelectionInv'
  BY <1>1, <1>2, <1>3 DEF SelectionInv, ui
<1>8. HistoryInv'
  <2>1. pc' = "deliver" => update' = [id |-> selected.id, events |-> n, status |-> read]
    BY <1>2 DEF found
  <2>2. QED
    BY <1>2, <1>3, <1>4, <2>1 DEF HistoryInv, store
<1>9. ShownInv'
  <2>1. view.events > 0 => view.events <= n
    BY <1>1, <1>3 DEF ShownInv, TypeOK, Content
  <2>2. ASSUME ~changed PROVE history.loaded /\ history.after = n /\ history.status = read
    BY <1>3, <2>2
  <2>3. ASSUME running, request = NoSelection, pc' # "deliver"
        PROVE  view = [id |-> selected.id, events |-> n, status |-> read]
    BY <1>1, <1>2, <2>2, <2>3 DEF ShownInv
  <2>4. QED
    BY <1>1, <1>2, <1>3, <1>4, <2>1, <2>3 DEF ShownInv, ui
<1>10. FreshInv'
  <2>1. Coming(selected.id) \/ read = status[selected.id]
    BY <1>1, <1>2, <1>3 DEF FreshInv
  <2>2. QED
    BY <1>2, <1>3, <1>4, <2>1 DEF FreshInv, Coming, store
<1>11. QED
  BY <1>6, <1>7, <1>8, <1>9, <1>10 DEF WatchInv

LEMMA WatchNextInv == WatchInv /\ [Next]_vars => WatchInv'
<1> SUFFICES ASSUME WatchInv, [Next]_vars PROVE WatchInv'
  OBVIOUS
<1>1. CASE Next
  BY <1>1, WriterSteps, CloseStoreStep, QuitStep, UpdateTaskStep, DeliverStep, WaitingSteps,
     TakeSelectionStep, ReadTaskStep, ReadEventsStep, ReadFailsStep DEF Next, Watch
<1>2. CASE UNCHANGED vars
  BY <1>2 DEF vars, WatchInv, TypeOK, SelectionInv, HistoryInv, ShownInv, FreshInv, Coming
<1>3. QED
  BY <1>1, <1>2

\* The selection, the history of the watcher and the view fit together, for
\* any number of tasks, commits, selections and failed reads.
THEOREM WatchInvariance == Spec => []WatchInv
BY WatchInitInv, WatchNextInv, PTL DEF Spec

\* The view shows the selected task, and all of it when the watcher waits and
\* nothing is on its way: no wake-up is lost, although a channel keeps only one.
THEOREM ViewIsCurrentTheorem == Spec => []ViewIsCurrent
<1>1. WatchInv => ViewIsCurrent
  <2> SUFFICES ASSUME WatchInv PROVE ViewIsCurrent
    OBVIOUS
  <2>1. TypeOK /\ SelectionInv /\ HistoryInv /\ ShownInv /\ FreshInv
    BY DEF WatchInv
  <2>2. ViewOfSelection
    <3>1. ASSUME taskID # NoTask PROVE view.events <= events[taskID]
      BY <2>1, <3>1 DEF TypeOK, ShownInv, HistoryInv, Content, History
    <3>2. QED
      BY <2>1, <3>1 DEF ViewOfSelection, ShownInv
  <2>3. ASSUME Quiet, ~missed PROVE view.events = events[taskID] /\ view.status = status[taskID]
    <3>1. selected.id = taskID /\ taskID \in Tasks /\ ~Coming(taskID)
      BY <2>1, <2>3 DEF Quiet, SelectionInv, TypeOK, Coming
    <3>2. history.loaded /\ history.after = events[taskID] /\ history.status = status[taskID]
      BY <2>1, <2>3, <3>1 DEF Quiet, FreshInv
    <3>3. view = [id |-> selected.id, events |-> history.after, status |-> history.status]
      BY <2>1, <2>3, <3>2 DEF Quiet, ShownInv
    <3>4. QED
      BY <3>2, <3>3
  <2>4. QED
    BY <2>1, <2>2, <2>3 DEF ViewIsCurrent, QuietIsCurrent
<1>2. QED
  BY <1>1, WatchInvariance, PTL

\* Within a task the conversation only grows: a late delivery never takes
\* anything back.
THEOREM ViewNeverShrinksTheorem == Spec => ViewNeverShrinks
<1>1. WatchInv /\ [Next]_vars => [view'.id = view.id => view'.events >= view.events]_vars
  <2> SUFFICES ASSUME WatchInv, Next, view'.id = view.id PROVE view'.events >= view.events
    BY DEF vars
  <2>1. view.events \in Nat
    BY DEF WatchInv, TypeOK, Content
  <2>2. CASE Deliver
    BY <2>2, DeliverStep
  <2>3. CASE \E t \in Tasks \cup {NoTask} : UpdateTask(t)
    BY <2>1, <2>3 DEF UpdateTask, Blank
  <2>4. CASE ~Deliver /\ ~\E t \in Tasks \cup {NoTask} : UpdateTask(t)
    <3>1. view' = view
      BY <2>4 DEF Next, Event, Put, Notify, CloseStore, Quit, Watch, WatcherReturns, TakeSelection,
                  TakeWake, Frame, ReadTask, ReadEvents, ReadFails, ui
    <3>2. QED
      BY <2>1, <3>1
  <2>5. QED
    BY <2>2, <2>3, <2>4
<1>2. QED
  BY <1>1, WatchInvariance, PTL DEF Spec, ViewNeverShrinks

-----------------------------------------------------------------------------
(***************************************************************************)
(* A terminal.  Its parts change apart from each other, so there is one    *)
(* invariant for each.                                                     *)
(***************************************************************************)

TypingInv ==
    /\ inputs \in 0..MaxInputs
    /\ keys \in Seq(Units) /\ Len(keys) <= KeyCap
    /\ worker \in [pc : {"wait", "run", "ended"}, data : Units]

\* What the peer has got and what is being written is a beginning of what
\* inputBuffer has taken; while the pipe is open, the buffer is the rest.
Underway == received \o (IF copier.pc = "write" THEN copier.data ELSE <<>>)

StreamInv ==
    /\ buffer \in Units /\ Len(buffer) <= MaxPending
    /\ pipe \in {"open", "backlog", "closed"}
    /\ copier \in [pc : {"wait", "write", "ended"}, data : Units]
    /\ encoded \in Units /\ received \in Units
    /\ \E rest \in Units : Underway \o rest = encoded
    /\ pipe = "open" => Underway \o buffer = encoded

\* The reader passes on what has arrived, and marks the screen behind it.
ScreenInv ==
    /\ chunks \in 0..MaxChunks /\ core \in 0..MaxChunks /\ painted \in 0..MaxChunks
    /\ reader \in {"read", "write", "mark", "ended"}
    /\ dirty \in BOOLEAN /\ painter \in {"wait", "do", "ended"}
    /\ selectionScreen \subseteq 0..MaxChunks /\ frozen \in BOOLEAN
    /\ core <= chunks /\ (reader = "write" => core < chunks)
    /\ PaintSettles

\* The newest geometry is the last one on its way to the peer.
GeometryInv ==
    /\ size \in 0..MaxSizes /\ peerSize \in 0..MaxSizes
    /\ resizer \in [pc : {"wait", "apply", "ended"}, size : 0..MaxSizes]
    /\ resizeRequest \in {<<>>, <<size>>}
    /\ resizer.pc = "apply" =>
         /\ peerSize < resizer.size
         /\ IF resizeRequest = <<>> THEN resizer.size = size ELSE resizer.size < size
    /\ resizer.pc = "wait" =>
         IF resizeRequest = <<>> THEN ~Done => peerSize = size ELSE peerSize < size

RestInv ==
    /\ lock \in {Free, "worker", "reader"}
    /\ closeStep \in {"open", "input", "source", "closed"}
    /\ reports \subseteq {"short", "backlog", "closed", "broken"}

TerminalInv == TypingInv /\ StreamInv /\ ScreenInv /\ GeometryInv /\ RestInv

-----------------------------------------------------------------------------
LEMMA NoUnits == <<>> \in Units /\ Len(<<>>) = 0 /\ Idle \in [pc : {"wait"}, data : Units]
BY EmptySeq DEF Units, Idle

\* A beginning and the rest of some units.
LEMMA SplitUnits ==
    ASSUME NEW units \in Units, NEW n \in 1..Len(units)
    PROVE  /\ SubSeq(units, 1, n) \in Units /\ SubSeq(units, n + 1, Len(units)) \in Units
           /\ Len(SubSeq(units, n + 1, Len(units))) <= Len(units)
           /\ SubSeq(units, 1, n) \o SubSeq(units, n + 1, Len(units)) = units
<1>1. Len(units) \in Nat /\ \A i \in 1..Len(units) : units[i] \in 1..MaxInputs
  BY LenProperties DEF Units
<1>2. /\ SubSeq(units, 1, n) \in Units
  <2>1. \A i \in 1..n : units[i] \in 1..MaxInputs
    BY <1>1
  <2>2. QED
    BY <1>1, <2>1, SubSeqProperties DEF Units
<1>3. /\ SubSeq(units, n + 1, Len(units)) \in Units
      /\ Len(SubSeq(units, n + 1, Len(units))) <= Len(units)
  <2>1. \A i \in n + 1..Len(units) : units[i] \in 1..MaxInputs
    BY <1>1
  <2>2. n + 1 \in Int /\ Len(units) \in Int
    BY <1>1
  <2>3. /\ SubSeq(units, n + 1, Len(units)) \in Units
        /\ Len(SubSeq(units, n + 1, Len(units))) =
             IF n + 1 <= Len(units) THEN Len(units) - (n + 1) + 1 ELSE 0
    BY <2>1, <2>2, SubSeqProperties DEF Units
  <2>4. QED
    BY <1>1, <2>3
<1>4. SubSeq(units, 1, n) \o SubSeq(units, n + 1, Len(units)) = SubSeq(units, 1, Len(units))
  <2>1. 1 \in 1..Len(units) + 1 /\ n \in 1 - 1..Len(units) /\ Len(units) \in n..Len(units)
    BY <1>1
  <2>2. QED
    BY <2>1, ConcatAdjacentSubSeq DEF Units
<1>5. SubSeq(units, 1, Len(units)) = units
  BY SubSeqFull DEF Units
<1>6. QED
  BY <1>2, <1>3, <1>4, <1>5

\* The first part of a concatenation is a prefix of it.
LEMMA ConcatIsPrefix ==
    ASSUME NEW u \in Units, NEW v \in Units
    PROVE  IsPrefix(u, u \o v)
<1>1. Len(u) \in Nat /\ Len(v) \in Nat /\ Len(u \o v) = Len(u) + Len(v)
  BY ConcatProperties, LenProperties DEF Units
<1>2. SubSeq(u \o v, 1, Len(u)) = SubSeq(u, 1, Len(u))
  <2>1. CASE Len(u) = 0
    BY <2>1, SubSeqEmpty
  <2>2. CASE Len(u) # 0
    <3>1. 1 \in 1..Len(u) /\ Len(u) \in 1..Len(u)
      BY <1>1, <2>2
    <3>2. QED
      BY <3>1, SubSeqOfConcat1 DEF Units
  <2>3. QED
    BY <2>1, <2>2
<1>3. QED
  BY <1>1, <1>2 DEF IsPrefix

LEMMA UnitsAssociate ==
    ASSUME NEW u \in Units, NEW v \in Units, NEW w \in Units
    PROVE  (u \o v) \o w = u \o (v \o w) /\ v \o w \in Units
BY ConcatAssociative, ConcatProperties DEF Units

LEMMA UnderwayUnits == StreamInv => Underway \in Units
BY NoUnits, ConcatProperties DEF StreamInv, Underway, Units

LEMMA TerminalInitInv == TerminalInit => TerminalInv
<1> SUFFICES ASSUME TerminalInit PROVE TerminalInv
  OBVIOUS
<1>1. TypingInv
  BY NoUnits, EmptySeq, TerminalAssumption DEF TerminalInit, TypingInv, Idle
<1>2. StreamInv
  <2>1. Underway = <<>> \o <<>> /\ <<>> \o <<>> = <<>>
    BY NoUnits, ConcatEmptySeq DEF TerminalInit, Underway, Idle, Units
  <2>2. Underway \o <<>> = <<>>
    BY <2>1
  <2>3. QED
    BY <2>2, NoUnits, TerminalAssumption DEF TerminalInit, StreamInv, Idle
<1>3. ScreenInv
  <2>1. PaintSettles
    BY DEF TerminalInit, PaintSettles
  <2>2. selectionScreen \subseteq 0..MaxChunks
    BY DEF TerminalInit
  <2>3. 0 \in 0..MaxChunks
    BY TerminalAssumption
  <2>4. chunks = 0 /\ core = 0 /\ painted = 0 /\ core <= chunks
    BY DEF TerminalInit
  <2>5. reader = "read" /\ dirty \in BOOLEAN /\ frozen \in BOOLEAN /\ painter = "wait"
    BY DEF TerminalInit
  <2>6. QED
    BY <2>1, <2>2, <2>3, <2>4, <2>5 DEF ScreenInv
<1>4. GeometryInv
  BY TerminalAssumption DEF TerminalInit, GeometryInv
<1>5. RestInv
  BY DEF TerminalInit, RestInv
<1>6. QED
  BY <1>1, <1>2, <1>3, <1>4, <1>5 DEF TerminalInv

-----------------------------------------------------------------------------
(* What the user types                                                     *)

LEMMA TypingStep == TypingInv /\ [TerminalNext]_terminalVars => TypingInv'
<1> SUFFICES ASSUME TypingInv, [TerminalNext]_terminalVars PROVE TypingInv'
  OBVIOUS
<1>1. CASE \E n \in 1..MaxPaste : Type(n)
  <2> PICK n \in 1..MaxPaste : Type(n)
    BY <1>1
  <2>1. inputs' = inputs + 1 /\ inputs' \in 1..MaxInputs /\ worker' = worker
    BY TerminalAssumption DEF TypingInv, Type
  <2>2. [i \in 1..n |-> inputs'] \in Units
    BY <2>1, TerminalAssumption, SeqDef DEF Units
  <2>3. CASE Len(keys) < KeyCap
    <3>1. keys' = Append(keys, [i \in 1..n |-> inputs'])
      BY <2>3 DEF Type
    <3>2. keys' \in Seq(Units) /\ Len(keys') = Len(keys) + 1
      BY <2>2, <3>1, AppendProperties DEF TypingInv
    <3>3. Len(keys') <= KeyCap
      BY <2>3, <3>2, LenProperties, TerminalAssumption DEF TypingInv
    <3>4. QED
      BY <2>1, <3>2, <3>3 DEF TypingInv
  <2>4. CASE ~(Len(keys) < KeyCap)
    BY <2>1, <2>4 DEF TypingInv, Type
  <2>5. QED
    BY <2>3, <2>4
<1>2. CASE TakeKey
  <2>1. /\ keys # <<>> /\ inputs' = inputs /\ keys' = Tail(keys)
        /\ worker' = [pc |-> "run", data |-> Head(keys)]
    BY <1>2 DEF TakeKey
  <2>2. Head(keys) \in Units /\ keys' \in Seq(Units) /\ Len(keys') = Len(keys) - 1 /\ Len(keys) \in Nat
    BY <2>1, HeadTailProperties, LenProperties DEF TypingInv
  <2>3. QED
    BY <2>1, <2>2, TerminalAssumption DEF TypingInv
<1>3. CASE Encode \/ WorkerEnds
  BY <1>3, NoUnits DEF TypingInv, Encode, WorkerEnds, Idle
<1>4. CASE Apply \/ Resize
  BY <1>4, TerminalAssumption DEF TypingInv, Apply, Resize, typing
<1>5. CASE ~((\E n \in 1..MaxPaste : Type(n)) \/ TakeKey \/ Encode \/ WorkerEnds \/ Apply \/ Resize)
  <2>1. UNCHANGED <<inputs, typing>>
    BY <1>5 DEF TerminalNext, terminalVars, typing, Worker, LockKey, Copier, CopyRead, CopyEnds, Network,
       CopyWrite, CopyFails, ApplyResize, ChunkArrives, Output, ReadOutput, LockOutput, Mark, ReaderEnds,
       Painter, Tick, Paint, PainterEnds, Mouse, Repaint, Click, Deselect, Scroll, Resizer, TakeResize, ResizerEnds, Close, CloseInput, CloseSource
  <2>2. QED
    BY <2>1 DEF TypingInv, typing
<1>6. QED
  BY <1>1, <1>2, <1>3, <1>4, <1>5

-----------------------------------------------------------------------------
(* The input of the peer                                                   *)

\* Core gives units to inputBuffer.
LEMMA PutKeeps ==
    ASSUME StreamInv, NEW units \in Units, PutUnits(units), UNCHANGED <<copier, received>>
    PROVE  StreamInv'
<1>1. Underway' = Underway
  BY DEF Underway
<1>2. CASE pipe # "open"
  BY <1>1, <1>2 DEF PutUnits, inputVars, StreamInv
<1>3. CASE pipe = "open" /\ Len(units) > MaxPending - Len(buffer)
  <2>1. pipe' = "backlog" /\ buffer' = <<>> /\ encoded' = encoded
    BY <1>3 DEF PutUnits
  <2>2. PICK rest \in Units : Underway \o rest = encoded
    BY DEF StreamInv
  <2>3. Underway' \o rest = encoded' /\ Len(buffer') <= MaxPending /\ buffer' \in Units
    BY <1>1, <2>1, <2>2, NoUnits, TerminalAssumption
  <2>4. QED
    BY <2>1, <2>3 DEF StreamInv
<1>4. CASE pipe = "open" /\ ~(Len(units) > MaxPending - Len(buffer))
  <2>1. pipe' = "open" /\ buffer' = buffer \o units /\ encoded' = encoded \o units
    BY <1>4 DEF PutUnits
  <2>2. Underway \in Units /\ Underway \o buffer = encoded
    BY <1>4, UnderwayUnits DEF StreamInv
  <2>3. /\ buffer' \in Units /\ Len(buffer') = Len(buffer) + Len(units) /\ encoded' \in Units
    BY <2>1, ConcatProperties DEF StreamInv, Units
  <2>4. Len(buffer) \in Nat /\ Len(units) \in Nat
    BY LenProperties DEF StreamInv, Units
  <2>5. Len(buffer') <= MaxPending
    BY <1>4, <2>3, <2>4, TerminalAssumption
  <2>6. Underway \o buffer' = encoded'
    <3>1. buffer \in Units
      BY DEF StreamInv
    <3>2. QED
      BY <2>1, <2>2, <3>1, UnitsAssociate
  <2>7. QED
    BY <1>1, <2>1, <2>3, <2>5, <2>6 DEF StreamInv
<1>5. QED
  BY <1>2, <1>3, <1>4

\* It fails, and loses its buffer.
LEMMA FailKeeps ==
    ASSUME StreamInv, FailPipe, UNCHANGED <<encoded, copier, received>>
    PROVE  StreamInv'
<1>1. Underway' = Underway
  BY DEF Underway
<1>2. PICK rest \in Units : Underway \o rest = encoded
  BY DEF StreamInv
<1>3. Underway' \o rest = encoded'
  BY <1>1, <1>2
<1>4. CASE pipe = "open"
  <2>1. pipe' = "closed" /\ buffer' = <<>>
    BY <1>4 DEF FailPipe
  <2>2. Len(buffer') <= MaxPending /\ buffer' \in Units
    BY <2>1, NoUnits, TerminalAssumption
  <2>3. QED
    BY <1>3, <2>1, <2>2 DEF StreamInv
<1>5. CASE pipe # "open"
  BY <1>1, <1>5 DEF FailPipe, StreamInv
<1>6. QED
  BY <1>4, <1>5

LEMMA StreamStep == TypingInv /\ StreamInv /\ [TerminalNext]_terminalVars => StreamInv'
<1> SUFFICES ASSUME TypingInv, StreamInv, [TerminalNext]_terminalVars PROVE StreamInv'
  OBVIOUS
<1>1. CASE Encode
  BY <1>1, PutKeeps DEF Encode, TypingInv
<1>2. CASE Apply \/ Resize
  <2>1. CASE UNCHANGED inputVars
    BY <1>2, <2>1 DEF Apply, Resize, inputVars, StreamInv, Underway
  <2>2. CASE ~UNCHANGED inputVars
    <3>1. inputs < MaxInputs /\ inputs' = inputs + 1 /\ PutUnits(<<inputs'>>) /\ UNCHANGED <<copier, received>>
      BY <1>2, <2>2 DEF Apply, Resize
    <3>2. inputs' \in 1..MaxInputs
      BY <3>1, TerminalAssumption DEF TypingInv
    <3>3. <<inputs'>> \in Units
      BY <3>2 DEF Units
    <3>4. QED
      BY <3>1, <3>3, PutKeeps
  <2>3. QED
    BY <2>1, <2>2
<1>3. CASE \E n \in 1..MaxPending : CopyRead(n)
  <2> PICK n \in 1..MaxPending : CopyRead(n)
    BY <1>3
  <2>1. /\ copier.pc = "wait" /\ pipe = "open" /\ n \in 1..Len(buffer)
        /\ copier' = [pc |-> "write", data |-> SubSeq(buffer, 1, n)]
        /\ buffer' = SubSeq(buffer, n + 1, Len(buffer))
        /\ UNCHANGED <<pipe, encoded, received>>
    BY DEF CopyRead
  <2>2. /\ Len(buffer) \in Nat /\ received \in Units /\ received \o <<>> = received
        /\ received \o buffer = encoded
    BY <2>1, LenProperties, ConcatEmptySeq DEF StreamInv, Units, Underway
  <2>3. /\ SubSeq(buffer, 1, n) \in Units /\ buffer' \in Units /\ Len(buffer') <= Len(buffer)
        /\ SubSeq(buffer, 1, n) \o buffer' = buffer
    BY <2>1, <2>2, SplitUnits DEF StreamInv
  <2>4. Underway' = received \o SubSeq(buffer, 1, n)
    BY <2>1 DEF Underway
  <2>5. Underway' \o buffer' = encoded'
    <3>1. (received \o SubSeq(buffer, 1, n)) \o buffer' = received \o (SubSeq(buffer, 1, n) \o buffer')
      <4> DEFINE first == SubSeq(buffer, 1, n)
      <4> HIDE DEF first
      <4>1. first \in Units /\ buffer' \in Units /\ received \in Units
        BY <2>2, <2>3 DEF first
      <4>2. (received \o first) \o buffer' = received \o (first \o buffer')
        BY <4>1, UnitsAssociate
      <4>3. QED
        BY <4>2 DEF first
    <3>2. received \o (SubSeq(buffer, 1, n) \o buffer') = encoded
      BY <2>2, <2>3
    <3>3. QED
      BY <2>1, <2>4, <3>1, <3>2
  <2>6. Len(buffer') <= MaxPending
    <3>1. Len(buffer) <= MaxPending /\ MaxPending \in Nat
      BY TerminalAssumption DEF StreamInv
    <3>2. Len(buffer') \in Nat
      BY <2>3, LenProperties DEF Units
    <3> DEFINE new == Len(buffer')
               old == Len(buffer)
    <3>3. new <= old /\ old <= MaxPending /\ new \in Nat /\ old \in Nat
      BY <2>2, <2>3, <3>1, <3>2
    <3> HIDE DEF new, old
    <3>4. new <= MaxPending
      BY <3>1, <3>3
    <3>5. QED
      BY <3>4 DEF new
  <2>7. QED
    BY <2>1, <2>3, <2>5, <2>6 DEF StreamInv
<1>4. CASE CopyEnds
  <2>1. /\ copier.pc = "wait" /\ copier' = [Idle EXCEPT !.pc = "ended"] /\ FailPipe /\ pipe # "open"
        /\ UNCHANGED <<encoded, received>>
    BY <1>4 DEF CopyEnds
  <2>2. copier' \in [pc : {"wait", "write", "ended"}, data : Units] /\ copier'.pc = "ended"
    BY <2>1, NoUnits DEF Idle
  <2>3. Underway' = Underway
    BY <2>1, <2>2 DEF Underway
  <2>4. QED
    BY <2>1, <2>2, <2>3 DEF StreamInv, FailPipe
<1>5. CASE CopyWrite
  <2>1. /\ copier.pc = "write" /\ copier' = Idle /\ received' = received \o copier.data
        /\ UNCHANGED inputVars
    BY <1>5 DEF CopyWrite
  <2>2. copier' \in [pc : {"wait", "write", "ended"}, data : Units] /\ copier'.pc = "wait"
    BY <2>1, NoUnits DEF Idle
  <2>3. received' \in Units /\ Underway = received'
    BY <2>1, ConcatProperties DEF StreamInv, Units, Underway
  <2>4. Underway' = Underway
    BY <2>2, <2>3, ConcatEmptySeq DEF Underway, Units
  <2>5. QED
    BY <2>1, <2>2, <2>3, <2>4 DEF StreamInv, inputVars
<1>6. CASE CopyFails
  <2>1. /\ copier.pc = "write" /\ copier' = [Idle EXCEPT !.pc = "ended"] /\ FailPipe
        /\ UNCHANGED <<encoded, received>>
    BY <1>6 DEF CopyFails
  <2>2. copier' \in [pc : {"wait", "write", "ended"}, data : Units] /\ copier'.pc = "ended"
    BY <2>1, NoUnits DEF Idle
  <2>3. PICK rest \in Units : Underway \o rest = encoded
    BY DEF StreamInv
  <2>4. Underway = received \o copier.data /\ copier.data \in Units /\ received \in Units
    BY <2>1 DEF StreamInv, Underway
  <2>5. Underway' = received
    BY <2>1, <2>2, <2>4, ConcatEmptySeq DEF Underway, Units
  <2>6. copier.data \o rest \in Units /\ Underway' \o (copier.data \o rest) = encoded'
    BY <2>1, <2>3, <2>4, <2>5, UnitsAssociate
  <2>7. pipe' # "open" /\ pipe' \in {"open", "backlog", "closed"} /\ buffer' \in Units /\ Len(buffer') <= MaxPending
    BY <2>1, NoUnits, TerminalAssumption DEF FailPipe, StreamInv
  <2>8. QED
    BY <2>1, <2>2, <2>4, <2>6, <2>7 DEF StreamInv
<1>7. CASE CloseInput
  BY <1>7, FailKeeps DEF CloseInput
<1>8. CASE ~(Encode \/ Apply \/ Resize \/ (\E n \in 1..MaxPending : CopyRead(n)) \/ CopyEnds \/ CopyWrite
              \/ CopyFails \/ CloseInput)
  <2>1. UNCHANGED <<inputVars, copier, received>>
    BY <1>8 DEF TerminalNext, terminalVars, inputVars, Type, Worker, TakeKey, LockKey, WorkerEnds, Copier,
       Network, ApplyResize, ChunkArrives, Output, ReadOutput, LockOutput, Mark, ReaderEnds, Painter, Tick,
       Paint, PainterEnds, Mouse, Repaint, Click, Deselect, Scroll, Resizer, TakeResize, ResizerEnds, Close, CloseSource
  <2>2. QED
    BY <2>1 DEF StreamInv, Underway, inputVars
<1>9. QED
  BY <1>1, <1>2, <1>3, <1>4, <1>5, <1>6, <1>7, <1>8

-----------------------------------------------------------------------------
(* The screen and the geometry                                             *)

LEMMA DoneStays == [TerminalNext]_terminalVars /\ Done => Done'
BY DEF Done, TerminalNext, terminalVars, Type, Worker, TakeKey, LockKey, Encode, WorkerEnds, Copier, CopyRead,
   CopyEnds, Network, CopyWrite, CopyFails, ApplyResize, ChunkArrives, Output, ReadOutput, LockOutput, Apply,
   Mark, ReaderEnds, Painter, Tick, Paint, PainterEnds, Mouse, Repaint, Click, Deselect, Scroll, Resize, Resizer, TakeResize, ResizerEnds, Close,
   CloseInput, CloseSource

LEMMA ScreenStep == ScreenInv /\ [TerminalNext]_terminalVars => ScreenInv'
<1> SUFFICES ASSUME ScreenInv, [TerminalNext]_terminalVars PROVE ScreenInv'
  OBVIOUS
<1>1. CASE ChunkArrives \/ ReadOutput
  <2>1. UNCHANGED <<core, dirty, painter, painted, selectionScreen, frozen, closeStep>>
    BY <1>1 DEF ChunkArrives, ReadOutput, screen
  <2>2. PaintSettles'
    <3>1. reader' = "mark" => reader = "mark"
      BY <1>1 DEF ChunkArrives, ReadOutput
    <3>2. reader = "mark" => reader' = "mark"
      BY <1>1 DEF ChunkArrives, ReadOutput
    <3>3. QED
      BY <2>1, <3>1, <3>2 DEF ScreenInv, PaintSettles, Done
  <2>3. QED
    BY <1>1, <2>1, <2>2, TerminalAssumption DEF ScreenInv, ChunkArrives, ReadOutput
<1>2. CASE Apply
  <2>1. /\ reader = "write" /\ reader' = "mark" /\ core' = core + 1
        /\ UNCHANGED <<chunks, dirty, painter, painted, selectionScreen, frozen>>
    BY <1>2 DEF Apply, screen
  <2>2. core < chunks /\ core' \in 0..MaxChunks /\ core' <= chunks
    BY <2>1, TerminalAssumption DEF ScreenInv
  <2>3. QED
    BY <2>1, <2>2 DEF ScreenInv, PaintSettles
<1>3. CASE Mark \/ ReaderEnds
  BY <1>3 DEF ScreenInv, PaintSettles, Done, screen, Mark, ReaderEnds
<1>4. CASE Tick \/ Paint \/ PainterEnds
  BY <1>4 DEF ScreenInv, PaintSettles, Done, output, Tick, Paint, Show, PainterEnds
<1>5. CASE Mouse \/ Resize
  <2>1. /\ UNCHANGED <<output, dirty, painter, closeStep>>
        /\ selectionScreen' \in {selectionScreen, {}, {core}} /\ frozen' \in BOOLEAN
        /\ \/ UNCHANGED <<painted, frozen>>
           \/ painted' = core
           \/ frozen' = TRUE /\ painted' \in selectionScreen
    BY <1>5 DEF ScreenInv, Mouse, Repaint, Show, Click, Deselect, Scroll, Resize, paintVars
  <2>2. painted' \in 0..MaxChunks /\ selectionScreen' \subseteq 0..MaxChunks
    BY <2>1 DEF ScreenInv
  <2>3. PaintSettles'
    BY <2>1 DEF ScreenInv, PaintSettles, Done, output
  <2>4. QED
    BY <2>1, <2>2, <2>3 DEF ScreenInv, output
<1>6. CASE \E n \in 1..MaxPaste : Type(n)
  BY <1>6 DEF ScreenInv, PaintSettles, Done, output, paintVars, Type
<1>7. CASE ~(ChunkArrives \/ ReadOutput \/ Apply \/ Mark \/ ReaderEnds \/ Tick \/ Paint \/ PainterEnds
             \/ Mouse \/ Resize \/ \E n \in 1..MaxPaste : Type(n))
  <2>1. UNCHANGED <<output, screen>>
    BY <1>7 DEF TerminalNext, terminalVars, output, screen, Worker, TakeKey, LockKey, Encode, WorkerEnds,
       Copier, CopyRead, CopyEnds, Network, CopyWrite, CopyFails, ApplyResize, Output, LockOutput, Painter,
       Resizer, TakeResize, ResizerEnds, Close, CloseInput, CloseSource
  <2>2. QED
    BY <2>1, DoneStays DEF ScreenInv, PaintSettles, output, screen
<1>8. QED
  BY <1>1, <1>2, <1>3, <1>4, <1>5, <1>6, <1>7

LEMMA GeometryStep == GeometryInv /\ [TerminalNext]_terminalVars => GeometryInv'
<1> SUFFICES ASSUME GeometryInv, [TerminalNext]_terminalVars PROVE GeometryInv'
  OBVIOUS
<1>1. CASE Resize
  BY <1>1, TerminalAssumption DEF GeometryInv, Done, Resize, QueueResize
<1>2. CASE TakeResize
  BY <1>2, TerminalAssumption DEF GeometryInv, Done, TakeResize
<1>3. CASE ApplyResize
  BY <1>3, TerminalAssumption DEF GeometryInv, Done, ApplyResize
<1>4. CASE ResizerEnds
  BY <1>4, TerminalAssumption DEF GeometryInv, Done, ResizerEnds
<1>5. CASE ~(Resize \/ TakeResize \/ ApplyResize \/ ResizerEnds)
  <2>1. UNCHANGED geometry
    BY <1>5 DEF TerminalNext, terminalVars, geometry, Type, Worker, TakeKey, LockKey, Encode, WorkerEnds,
       Copier, CopyRead, CopyEnds, Network, CopyWrite, CopyFails, ChunkArrives, Output, ReadOutput, LockOutput,
       Apply, Mark, ReaderEnds, Painter, Tick, Paint, PainterEnds, Mouse, Repaint, Click, Deselect, Scroll, Resizer, Close, CloseInput, CloseSource
  <2>2. QED
    BY <2>1, DoneStays DEF GeometryInv, geometry
<1>6. QED
  BY <1>1, <1>2, <1>3, <1>4, <1>5

LEMMA RestStep == StreamInv /\ RestInv /\ [TerminalNext]_terminalVars => RestInv'
BY DEF RestInv, StreamInv, Free, TerminalNext, terminalVars, Type, Worker, TakeKey, LockKey, Encode, WorkerEnds,
   Copier, CopyRead, CopyEnds, Network, CopyWrite, CopyFails, ApplyResize, ChunkArrives, Output, ReadOutput,
   LockOutput, Apply, Mark, ReaderEnds, Painter, Tick, Paint, PainterEnds, Mouse, Repaint, Click, Deselect, Scroll, Resize, Resizer, TakeResize,
   ResizerEnds, Close, CloseInput, CloseSource

LEMMA TerminalNextInv == TerminalInv /\ [TerminalNext]_terminalVars => TerminalInv'
BY TypingStep, StreamStep, ScreenStep, GeometryStep, RestStep DEF TerminalInv

\* The parts of a terminal view keep their invariants, for any capacity of the
\* channel and the buffer and any number of inputs, chunks and geometries.
THEOREM TerminalInvariance == TerminalSpec => []TerminalInv
BY TerminalInitInv, TerminalNextInv, PTL DEF TerminalSpec

\* The peer gets the input without a gap and in order, and the geometries in
\* order up to the last one; the screen shows what Core has taken, unless the
\* last repaint was of the saved screen of a selection.
THEOREM TerminalIsFaithfulTheorem == TerminalSpec => []TerminalIsFaithful
<1>1. TerminalInv => TerminalIsFaithful
  <2> SUFFICES ASSUME TerminalInv PROVE TerminalIsFaithful
    OBVIOUS
  <2>1. TypingInv /\ StreamInv /\ ScreenInv /\ GeometryInv /\ RestInv
    BY DEF TerminalInv
  <2>2. resizeRequest \in Seq(0..MaxSizes) /\ Len(resizeRequest) <= 1
    <3> DEFINE none == <<>>
               one == <<size>>
    <3>1. one \in Seq(0..MaxSizes) /\ Len(one) = 1
      BY <2>1 DEF GeometryInv
    <3>2. none \in Seq(0..MaxSizes) /\ Len(none) = 0
      BY EmptySeq
    <3>3. resizeRequest \in {none, one}
      BY <2>1 DEF GeometryInv
    <3> HIDE DEF none, one
    <3>4. resizeRequest = none \/ resizeRequest = one
      BY <3>3
    <3>5. CASE resizeRequest = none
      <4>1. resizeRequest \in Seq(0..MaxSizes)
        BY <3>2, <3>5
      <4>2. Len(resizeRequest) = 0
        BY <3>2, <3>5
      <4>3. QED
        BY <4>1, <4>2
    <3>6. CASE resizeRequest = one
      <4>1. resizeRequest \in Seq(0..MaxSizes)
        BY <3>1, <3>6
      <4>2. Len(resizeRequest) = 1
        BY <3>1, <3>6
      <4>3. QED
        BY <4>1, <4>2
    <3>7. QED
      BY <3>4, <3>5, <3>6
  <2>3. TerminalTypeOK
    BY <2>1, <2>2 DEF TerminalTypeOK, TypingInv, StreamInv, ScreenInv, GeometryInv, RestInv
  <2>4. InOrder
    <3>1. PICK rest \in Units : Underway \o rest = encoded
      BY <2>1 DEF StreamInv
    <3>2. IsPrefix(Underway, encoded)
      BY <2>1, <3>1, UnderwayUnits, ConcatIsPrefix
    <3>3. QED
      BY <2>1, <3>2 DEF InOrder, StreamInv, Underway
  <2>5. SizeSettles /\ PaintSettles
    BY <2>1 DEF SizeSettles, GeometryInv, ScreenInv
  <2>6. QED
    BY <2>3, <2>4, <2>5 DEF TerminalIsFaithful
<1>2. QED
  BY <1>1, TerminalInvariance, PTL

=============================================================================
