---------------------------- MODULE FileBrowser ----------------------------
(***************************************************************************)
(* The file pane of a workspace (internal/ui/workspace.go, filePane and    *)
(* the operations of its menu) and watchDirectory                          *)
(* (internal/ui/files_interaction.go), which lets the pane follow the      *)
(* directory of the focused terminal.                                      *)
(*                                                                         *)
(* The handlers of the pane run on the UI thread.  A directory is listed,  *)
(* a terminal's directory is read and a file is changed by goroutines,     *)
(* which hand their results to the UI thread with fyne.Do: a queue that is *)
(* served in order, some time later.                                       *)
(*                                                                         *)
(* A path is the sequence of its names; "." begins a relative path.        *)
(* Entries carry the directory they were listed from, which the code does  *)
(* not keep: it is what the user meant by pointing at the row.             *)
(*                                                                         *)
(* The list widget of the toolkit and the pane each keep a selection.  A   *)
(* row that is tapped goes through the widget, which does not call back    *)
(* for the row that is highlighted already; the menu of a row and a double *)
(* tap go past the widget.                                                 *)
(***************************************************************************)
EXTENDS Naturals, Sequences, SequencesExt

CONSTANTS
    Sessions, First,   \* the split terminals and the one of the first pane
    NoSession, NoPath,
    Names, Paths,      \* file names, and the absolute paths of the server
    Home, Start,       \* the SFTP home, and the first content of the server
    Operations,        \* the operations of the menu the user uses
    Typed, Visited,    \* what the user types, and where terminals may go
    MaxInputs,         \* bound on steps of the user
    MaxCd,             \* bound on changes of a terminal's directory
    MaxFail,           \* bound on failing reads
    MaxOps,            \* bound on file operations
    MaxQueue           \* bound on callbacks that wait for the UI thread

Asking == {"remove", "rename", "chmod", "download", "edit", "mkdir"} \* behind a dialog
Selecting == {"remove", "rename", "chmod", "download", "edit", "compress"}
Refreshing == {"remove", "rename", "mkdir", "compress", "download"}

ASSUME BrowserAssumption ==
    /\ Operations \subseteq Asking \cup Selecting
    /\ First \in Sessions /\ NoSession \notin Sessions
    /\ IsFiniteSet(Names) /\ Paths \subseteq Seq(Names) /\ Typed \subseteq Seq(Names \cup {"."})
    /\ Visited \subseteq Paths /\ Home \in Paths
    /\ Start \in [Paths -> {"none", "file", "dir"}]
    /\ {MaxInputs, MaxCd, MaxFail, MaxOps, MaxQueue} \subseteq Nat

VARIABLES
    dir, follow,             \* the text of the path entry, the check box
    listed, files, selected, \* listedDirectory, files, selectedFile (0: none)
    highlighted,             \* the row the list widget has selected (0: none)
    listing,                 \* goroutines of refreshFiles
    ops,                     \* file operations the user has begun
    queue,                   \* callbacks handed to fyne.Do
    watcher,                 \* watchDirectory: its session ("load" again if none)
    previous,                \* previousSession and previousDir
    focus, cwd,              \* activeSession; the directories of the shells
    tree, closed,            \* the server; whether w.ctx is cancelled
    inputs, cds, failures,   \* counters of the bounds
    picked,                  \* history: the rows the user may mean (PointsAt)
    asked,                   \* history: directory of the last refresh, NoPath after typing
    manual,                  \* history: the user has navigated since the pane followed
    failed,                  \* history: directories whose listing failed
    been                     \* history: the directories each shell has been in

pane == <<dir, follow, listed, files, selected, highlighted>>
world == <<focus, cwd, tree, closed>>
counters == <<inputs, cds, failures>>
history == <<picked, asked, manual, failed, been>>
vars == <<pane, listing, ops, queue, watcher, previous, world, counters, history>>

\* path.Dir and path.Join, and the file the server takes a path for.
ParentOf(p) == IF p \in {NoPath, <<".">>} THEN <<".">> ELSE IF p = <<>> THEN p ELSE Front(p)
Join(d, n) == IF d = NoPath THEN <<".", n>> ELSE Append(d, n)
Resolve(p) == IF p # <<>> /\ p[1] = "." THEN Home \o Tail(p) ELSE p
Kind(p) == IF Resolve(p) \in Paths THEN tree[Resolve(p)] ELSE "none"

Entry == [from : Paths \cup Typed \cup {<<".">>}, name : Names, isDir : BOOLEAN]

\* What ReadDir returns for d at this moment.
Entries(d) ==
    SetToSeq({[from |-> d, name |-> n, isDir |-> Kind(Join(d, n)) = "dir"] :
                 n \in {m \in Names : Kind(Join(d, m)) # "none"}})

Stages == {"reading", "dialog", "confirmed", "connected", "ended"}

\* The rows are those of listedDirectory, the selection is one of them, what
\* waits to be shown are rows of one directory, and a dialog is only open for
\* operations that ask.
TypeOK ==
    /\ follow \in BOOLEAN /\ closed \in BOOLEAN /\ manual \in BOOLEAN
    /\ {selected, highlighted} \subseteq 0..Len(files)
    /\ \A i \in DOMAIN files : files[i].from = listed
    /\ \A i \in DOMAIN ops :
          /\ ops[i].kind \in Asking \cup Selecting /\ ops[i].stage \in Stages
          /\ ops[i].stage = "dialog" => ops[i].kind \in Asking
    /\ focus \in Sessions /\ cwd \in [Sessions -> Visited] /\ been \in [Sessions -> SUBSET Visited]
    /\ watcher \in Sessions \cup {NoSession}
    /\ \A i \in DOMAIN queue : queue[i].kind = "listing" =>
          \A k \in DOMAIN queue[i].files : queue[i].files[k].from = queue[i].dir
    /\ tree \in [Paths -> {"none", "file", "dir"}]
    /\ inputs \in 0..MaxInputs /\ cds \in 0..MaxCd /\ failures \in 0..MaxFail

Init ==
    /\ dir = NoPath /\ follow = TRUE
    /\ listed = NoPath /\ files = <<>> /\ selected = 0 /\ highlighted = 0
    /\ listing = <<>> /\ ops = <<>> /\ queue = <<>>
    /\ watcher = NoSession /\ previous = <<NoSession, NoPath>>
    /\ focus = First /\ cwd \in [Sessions -> Visited]
    /\ tree = Start /\ closed = FALSE
    /\ inputs = 0 /\ cds = 0 /\ failures = 0
    /\ picked = {} /\ asked = NoPath /\ manual = FALSE /\ failed = {}
    /\ been = [s \in Sessions |-> {cwd[s]}]

-----------------------------------------------------------------------------
(***************************************************************************)
(* Listing a directory.                                                    *)
(***************************************************************************)

\* refreshFiles with d in the path entry: rows of another directory go at once.
RefreshFiles(d) ==
    \/ /\ d = NoPath
       /\ UNCHANGED <<listed, files, selected, highlighted, listing, asked>>
    \/ /\ d # NoPath
       /\ files' = IF listed # d THEN <<>> ELSE files
       /\ selected' = IF listed # d THEN 0 ELSE selected
       /\ highlighted' = IF listed # d THEN 0 ELSE highlighted
       /\ listing' = Append(listing, [dir |-> d, read |-> FALSE, files |-> <<>>])
       /\ asked' = d
       /\ UNCHANGED listed

\* A goroutine of refreshFiles reads the directory,
ListRead(i) ==
    /\ ~listing[i].read /\ ~closed /\ Kind(listing[i].dir) = "dir"
    /\ listing' = [listing EXCEPT ![i].read = TRUE, ![i].files = Entries(listing[i].dir)]
    /\ UNCHANGED <<pane, ops, queue, watcher, previous, world, counters, history>>

\* or fails, and work shows the error,
ListFails(i) ==
    /\ ~listing[i].read
    /\ \/ closed /\ UNCHANGED failures
       \/ Kind(listing[i].dir) # "dir" /\ UNCHANGED failures
       \/ failures < MaxFail /\ failures' = failures + 1
    /\ listing' = RemoveAt(listing, i)
    /\ failed' = failed \cup {listing[i].dir}
    /\ UNCHANGED <<pane, ops, queue, watcher, previous, world, inputs, cds, picked, asked, manual, been>>

\* and hands what it read to the UI thread.
ListPost(i) ==
    /\ listing[i].read
    /\ queue' = Append(queue, [kind |-> "listing", dir |-> listing[i].dir, files |-> listing[i].files])
    /\ listing' = RemoveAt(listing, i)
    /\ UNCHANGED <<pane, ops, watcher, previous, world, counters, history>>

AppliesAnyway(d) == dir = d                  \* mutant
AppliesWhenIdle(d) == dir = d /\ ~closed /\ listing = <<>> \* mutant
Applies(d) == dir = d /\ ~closed

\* The callback of refreshFiles.
ShowListing(c) ==
    /\ IF Applies(c.dir)
       THEN listed' = c.dir /\ files' = c.files /\ selected' = 0 /\ highlighted' = 0
       ELSE UNCHANGED <<listed, files, selected, highlighted>>
    /\ UNCHANGED <<dir, follow, listing, asked, manual>>

-----------------------------------------------------------------------------
(***************************************************************************)
(* Following the terminal.                                                 *)
(***************************************************************************)
\* A tick of watchDirectory: the session it will ask about.
WatchLoad ==
    /\ watcher = NoSession /\ ~closed /\ Len(queue) < MaxQueue
    /\ watcher' = focus
    /\ UNCHANGED <<pane, listing, ops, queue, previous, world, counters, history>>

\* TerminalDirectory answers d, or NoPath for an error.  previous changes
\* whatever becomes of the callback.
WatchRead(d) ==
    /\ watcher # NoSession
    /\ queue' = Append(queue, [kind |-> "follow", session |-> watcher, dir |-> d,
                               changed |-> <<watcher, d>> # previous])
    /\ previous' = IF d = NoPath THEN previous ELSE <<watcher, d>>
    /\ watcher' = NoSession
    /\ UNCHANGED <<pane, listing, ops, world, inputs, cds, history>>

\* Closing the workspace cancels the read.
WatchAnswers == ~closed /\ WatchRead(cwd[watcher]) /\ UNCHANGED failures
WatchFails ==
    /\ \/ closed /\ UNCHANGED failures
       \/ failures < MaxFail /\ failures' = failures + 1
    /\ WatchRead(NoPath)

Concerns(c) == ~closed /\ focus = c.session
Moves(c) == c.dir # NoPath /\ (dir = NoPath \/ (follow /\ c.changed))

\* The callback of watchDirectory.
FollowTerminal(c) ==
    IF Concerns(c) /\ Moves(c)
    THEN dir' = c.dir /\ manual' = FALSE /\ RefreshFiles(c.dir) /\ UNCHANGED follow
    ELSE UNCHANGED <<pane, listing, asked, manual>>

\* The UI thread runs the next callback.
RunQueue ==
    /\ queue # <<>> /\ queue' = Tail(queue)
    /\ LET c == Head(queue) IN
       \/ c.kind = "listing" /\ ShowListing(c)
       \/ c.kind = "follow" /\ FollowTerminal(c)
       \/ c.kind = "refresh" /\ RefreshFiles(dir) /\ UNCHANGED <<dir, follow, manual>>
    /\ UNCHANGED <<ops, watcher, previous, world, counters, picked, failed, been>>

-----------------------------------------------------------------------------
(***************************************************************************)
(* The user.  Dialogs cover the pane.                                      *)
(***************************************************************************)
Uncovered == ~closed /\ \A i \in DOMAIN ops : ops[i].stage # "dialog"
Input == inputs < MaxInputs /\ inputs' = inputs + 1

TypePath(p) ==
    /\ Uncovered /\ Input /\ p # dir
    /\ dir' = p /\ asked' = NoPath /\ manual' = TRUE
    /\ UNCHANGED <<follow, listed, files, selected, highlighted, listing, ops, queue, watcher, previous, world,
                   cds, failures, picked, failed, been>>

\* Enter in the path entry, and the refresh button.
Refresh ==
    /\ Uncovered /\ Input
    /\ RefreshFiles(dir)
    /\ UNCHANGED <<dir, follow, ops, queue, watcher, previous, world, cds, failures, picked, manual, failed, been>>

GoTo(p) ==
    /\ dir' = p /\ manual' = TRUE
    /\ RefreshFiles(p)
    /\ UNCHANGED <<follow, ops, queue, watcher, previous, world, cds, failures, picked, failed, been>>

Back == Uncovered /\ Input /\ GoTo(ParentOf(dir))

\* Checking the box empties the path, so that the next tick fills it.
Follow ==
    /\ Uncovered /\ Input
    /\ follow' = ~follow
    /\ dir' = IF follow THEN dir ELSE NoPath
    /\ asked' = IF follow THEN asked ELSE NoPath
    /\ manual' = IF follow THEN manual ELSE FALSE
    /\ UNCHANGED <<listed, files, selected, highlighted, listing, ops, queue, watcher, previous, world,
                   cds, failures, picked, failed, been>>

\* selectedFile becomes the row the user points at.
PointsAt(i) == selected' = i /\ picked' = {files[i]}

\* A row is tapped: List.Select calls OnSelected unless the row is highlighted.
\* Then nothing tells the pane, and the user may mean this row from now on.
Tap(i) ==
    /\ Uncovered /\ Input
    /\ highlighted' = i
    /\ \/ i # highlighted /\ PointsAt(i)
       \/ i = highlighted /\ picked' = picked \cup {files[i]} /\ UNCHANGED selected
    /\ UNCHANGED <<dir, follow, listed, files, listing, ops, queue, watcher, previous, world,
                   cds, failures, asked, manual, failed, been>>

\* The menu of a row, which the user may dismiss.
RowMenu(i) ==
    /\ Uncovered /\ Input
    /\ PointsAt(i)
    /\ UNCHANGED <<dir, follow, listed, files, highlighted, listing, ops, queue, watcher, previous, world,
                   cds, failures, asked, manual, failed, been>>

SelectedHere == selected \in 1..Len(files)   \* mutant
\* selection: whether there is one.
Selected == listed = dir /\ selected \in 1..Len(files)
SelectedPath == Join(dir, files[selected].name)

\* openSelected on a directory.
OpenDirectory ==
    /\ Uncovered /\ Input
    /\ Selected /\ files[selected].isDir
    /\ GoTo(SelectedPath)

\* The path, and with it the kind of the entry, is fixed before anything is asked.
Begin(kind, path, isDir, meant) ==
    /\ Len(ops) < MaxOps
    /\ ops' = Append(ops, [kind |-> kind, path |-> path, isDir |-> isDir, meant |-> meant,
                           stage |-> IF kind = "edit" THEN "reading"
                                     ELSE IF kind \in Asking THEN "dialog" ELSE "confirmed"])

\* The paths the user may mean by an operation on a row.
Meant == {Join(e.from, e.name) : e \in picked}

BeginSelected(kind) ==
    /\ Uncovered /\ Selected
    /\ files[selected].isDir => kind \notin {"edit", "download"}
    /\ Begin(kind, SelectedPath, files[selected].isDir, Meant)
    /\ UNCHANGED <<pane, listing, queue, watcher, previous, world, counters, history>>

BeginMkdir(n) ==
    /\ Uncovered /\ "mkdir" \in Operations
    /\ Begin("mkdir", Join(dir, n), TRUE, {Join(dir, n)})
    /\ UNCHANGED <<pane, listing, queue, watcher, previous, world, counters, history>>

\* A row is tapped twice: openSelected for this row in the same callback.
OpenRow(i) ==
    /\ Uncovered /\ Input
    /\ LET e == files[i] IN
       \/ listed = dir /\ e.isDir /\ GoTo(Join(dir, e.name))
       \/ /\ PointsAt(i)
          /\ \/ listed # dir /\ UNCHANGED ops
             \/ /\ listed = dir /\ ~e.isDir /\ "edit" \in Operations
                /\ Begin("edit", Join(dir, e.name), FALSE, {Join(e.from, e.name)})
          /\ UNCHANGED <<dir, follow, listed, files, highlighted, listing, queue, watcher, previous, world,
                         cds, failures, asked, manual, failed, been>>

Stage(i, s) ==
    /\ ops' = [ops EXCEPT ![i].stage = s]
    /\ UNCHANGED <<pane, listing, watcher, previous, counters, history, focus, cwd, closed>>

\* openSelected on a file: the content is read and the editor opens.
OpenEditor(i) == ops[i].stage = "reading" /\ Stage(i, "dialog") /\ UNCHANGED <<queue, tree>>

Answer(i) ==
    /\ ops[i].stage = "dialog"
    /\ \E s \in {"confirmed", "ended"} : Stage(i, s)
    /\ UNCHANGED <<queue, tree>>

\* The goroutine of work takes an SFTP client, unless the workspace is closed.
Acquire(i) ==
    /\ ops[i].stage = "confirmed" /\ ~closed
    /\ Stage(i, "connected") /\ UNCHANGED <<queue, tree>>

OpFails(i) ==
    /\ ops[i].stage \in {"reading", "confirmed", "connected"}
    /\ Stage(i, "ended") /\ UNCHANGED <<queue, tree>>

\* What an operation leaves on the server.
Effect(o) ==
    LET p == Resolve(o.path) IN
    \/ /\ o.kind = "remove"
       /\ Kind(p) = IF o.isDir THEN "dir" ELSE "file"
       /\ \A n \in Names : Kind(Join(p, n)) = "none"
       /\ tree' = [tree EXCEPT ![p] = "none"]
    \/ /\ o.kind = "rename" /\ Kind(p) # "none"
       /\ \E n \in Names :
             LET q == Join(ParentOf(p), n)
                 Under(r) == p \o SubSeq(r, Len(q) + 1, Len(r)) IN
             /\ q \in Paths /\ tree[q] = "none"
             /\ tree' = [r \in Paths |-> IF IsPrefix(q, r) THEN Kind(Under(r))
                                       ELSE IF IsPrefix(p, r) THEN "none" ELSE tree[r]]
    \/ /\ o.kind = "mkdir" /\ p \in Paths /\ tree[p] = "none"
       /\ tree' = [tree EXCEPT ![p] = "dir"]
    \/ o.kind \in {"chmod", "download", "edit", "compress"} /\ UNCHANGED tree

\* The operation succeeds; most then ask for a refresh.
Perform(i) ==
    /\ ops[i].stage = "connected"
    /\ Effect(ops[i])
    /\ queue' = IF ops[i].kind \in Refreshing THEN Append(queue, [kind |-> "refresh"]) ELSE queue
    /\ Stage(i, "ended")

-----------------------------------------------------------------------------
\* A terminal takes the focus.
Focus(s) ==
    /\ Uncovered /\ Input /\ s # focus /\ focus' = s
    /\ UNCHANGED <<pane, listing, ops, queue, watcher, previous, cwd, tree, closed, cds, failures, history>>

Cd(s, d) ==
    /\ cds < MaxCd /\ cds' = cds + 1 /\ d # cwd[s]
    /\ cwd' = [cwd EXCEPT ![s] = d]
    /\ been' = [been EXCEPT ![s] = @ \cup {d}]
    /\ UNCHANGED <<pane, listing, ops, queue, watcher, previous, focus, tree, closed, inputs, failures,
                   picked, asked, manual, failed>>

\* closeWorkspace cancels w.ctx.
Close ==
    /\ ~closed /\ closed' = TRUE
    /\ UNCHANGED <<pane, listing, ops, queue, watcher, previous, focus, cwd, tree, counters, history>>

User ==
    \/ \E p \in Typed : TypePath(p)
    \/ Refresh \/ Back \/ Follow \/ OpenDirectory
    \/ \E i \in DOMAIN files : Tap(i) \/ RowMenu(i) \/ OpenRow(i)
    \/ \E k \in Selecting \cap Operations : BeginSelected(k)
    \/ \E n \in Names : BeginMkdir(n)
    \/ \E i \in DOMAIN ops : Answer(i)
    \/ \E s \in Sessions : Focus(s)
    \/ \E s \in Sessions, d \in Visited : Cd(s, d)
    \/ Close

ListStep == \E i \in DOMAIN listing : ListRead(i) \/ ListFails(i) \/ ListPost(i)
WatchStep == WatchLoad \/ WatchAnswers \/ WatchFails
OpStep == \E i \in DOMAIN ops : OpenEditor(i) \/ Acquire(i) \/ OpFails(i) \/ Perform(i)

Next == User \/ ListStep \/ WatchStep \/ RunQueue \/ OpStep

Spec == Init /\ [][Next]_vars

\* What a goroutine has read it hands over, and the UI thread runs what it is
\* handed.  Nothing else has to happen: sftp.NewClient takes no context (List,
\* TerminalDirectory), so a server that says nothing holds a listing or the
\* watcher for ever, and the user need not do anything.
FairSpec ==
    /\ Spec /\ WF_vars(RunQueue)
    /\ WF_vars(\E i \in DOMAIN listing : ListPost(i))

\* A server that answers every listing and every question for a directory.
PromptSpec == FairSpec /\ WF_vars(ListStep) /\ WF_vars(WatchStep)

-----------------------------------------------------------------------------
(***************************************************************************)
(* Properties.                                                             *)
(***************************************************************************)
\* Whatever was typed, listed or followed in between, an operation is about a
\* row the user has pointed at, under its own name in the directory it was
\* listed from (selection, and the paths the dialogs keep).  It is the row
\* pointed at last, unless that was a tap on the row highlighted already: of
\* such a tap the pane is not told, and the operation goes to the row it knows.
ActsOnPicked == \A i \in DOMAIN ops : ops[i].path \in ops[i].meant

\* The state of the pane is sound, and what it does is what was asked of it.
PaneIsSound == TypeOK /\ ActsOnPicked

\* A result that arrives after the workspace was closed leaves the pane's path
\* and its listed directory alone (the tests of w.ctx.Err in the callbacks).
ClosedStays == [][closed => UNCHANGED <<dir, listed>>]_vars

\* When the pane moves by itself it is to a directory of the terminal that has
\* the focus then, never to that of one the user has left (watchDirectory).
FollowsOnlyFocus ==
    [][dir' # dir /\ dir' # NoPath /\ ~manual' => dir' \in been[focus]]_vars

\* What nobody waits for any more moves nothing: neither a result for a closed
\* workspace nor the answer of a terminal the user has left.
StaleMovesNothing == ClosedStays /\ FollowsOnlyFocus

\* A directory that was asked for is listed in the end, if it can be read and
\* the user stays there, however many other listings are on their way: only a
\* listing of this directory that the server never answers keeps it from the
\* pane (refreshFiles).
PaneSettles ==
    <>[](dir # NoPath /\ asked = dir /\ dir \notin failed =>
            \/ closed \/ listed = dir
            \/ \E i \in DOMAIN listing : listing[i].dir = dir /\ ~listing[i].read)

\* Once a terminal has answered, and as long as the box is checked and the user
\* has not gone elsewhere, the pane comes to show the directory of the terminal
\* that has the focus
\* (docs/connections-files.md: the pane follows cd, and with split terminals
\* the focus chooses the terminal).
PaneFollows ==
    <>[](previous[1] # NoSession /\ follow /\ ~manual => closed \/ dir = cwd[focus])
=============================================================================
