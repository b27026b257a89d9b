---------------------------- MODULE UploadQueue ----------------------------
(***************************************************************************)
(* Uploads of a workspace: filesDropped and queueUploads                   *)
(* (internal/ui/files_interaction.go), upload and transfer                 *)
(* (internal/ui/workspace.go).  Files are dropped on the file pane or on a *)
(* terminal, or chosen with the picker; each is checked against the server *)
(* and sent, after a question if its name is taken.  Meanwhile the user    *)
(* browses on, shells change their directories, other programs create      *)
(* files, and the workspace may be closed.                                 *)
(*                                                                         *)
(* A job is a local file.  The copying itself is FileTransfer: here it     *)
(* happens when the target is opened.  The callbacks of different jobs may *)
(* run in any order.                                                       *)
(***************************************************************************)
EXTENDS Naturals, FiniteSets

CONSTANTS
    Jobs,
    Base,        \* per job: its file name
    Irregular,   \* jobs that are directories or cannot be read
    Dirs, Terminals, NoDir, NoTerminal,
    MaxBrowse,   \* bound on changes of a directory by the user
    MaxForeign   \* bound on files that other programs create

FileNames == {Base[j] : j \in Jobs}

ASSUME UploadAssumption ==
    /\ Irregular \subseteq Jobs /\ NoDir \notin Dirs /\ NoTerminal \notin Terminals
    /\ Jobs \cap {"none", "theirs", "folder"} = {}
    /\ {MaxBrowse, MaxForeign} \subseteq Nat

VARIABLES
    shown,    \* the path in the file pane; NoDir before the first answer
    shellDir, \* the directories of the shells
    server,   \* what is at each path: "none", "theirs", "folder" or a job
    stage,    \* per job: how far it is
    batch,    \* per job: the files that came with it
    origin,   \* per job: the terminal it was dropped on
    target,   \* per job: the directory it goes to
    mode,     \* per job: exclusive ("new"), overwriting or resuming
    shut,     \* w.ctx is cancelled
    browsed, foreign,  \* counters of the bounds
    meant,    \* history, per job: directories the user may have meant
    agreed    \* history: jobs for which the user answered that the name is taken

jobs == <<stage, batch, origin, target, mode>>
uploadVars == <<shown, shellDir, server, jobs, shut, browsed, foreign, meant, agreed>>

Point == {"idle", "resolving", "resolved", "picking", "checking", "free", "taken",
          "dialog", "sending", "sent", "failed", "refused"}

\* Types; and a job that is checked or sent has a directory: an upload into a
\* pane that shows none yet is refused.
UploadTypeOK ==
    /\ shown \in Dirs \cup {NoDir} /\ shellDir \in [Terminals -> Dirs]
    /\ \A p \in Dirs \X FileNames : server[p] \in {"none", "theirs", "folder"} \/ server[p] \in Jobs
    /\ stage \in [Jobs -> Point] /\ batch \in [Jobs -> SUBSET Jobs]
    /\ origin \in [Jobs -> Terminals \cup {NoTerminal}] /\ target \in [Jobs -> Dirs \cup {NoDir}]
    /\ mode \in [Jobs -> {"new", "replace", "resume"}]
    /\ shut \in BOOLEAN /\ browsed \in 0..MaxBrowse /\ foreign \in 0..MaxForeign
    /\ \A j \in Jobs :
          /\ stage[j] = "resolving" => origin[j] # NoTerminal
          /\ stage[j] \in {"checking", "free", "taken", "dialog", "sending", "sent"} => target[j] # NoDir

UploadInit ==
    /\ shown \in Dirs \cup {NoDir} /\ shellDir \in [Terminals -> Dirs]
    /\ server \in [Dirs \X FileNames -> {"none", "theirs", "folder"}]
    /\ stage = [j \in Jobs |-> "idle"] /\ batch = [j \in Jobs |-> {}]
    /\ origin = [j \in Jobs |-> NoTerminal] /\ target = [j \in Jobs |-> NoDir]
    /\ mode = [j \in Jobs |-> "new"]
    /\ shut = FALSE /\ browsed = 0 /\ foreign = 0
    /\ meant = [j \in Jobs |-> {}] /\ agreed = {}

-----------------------------------------------------------------------------
Set(f, S, v) == [j \in Jobs |-> IF j \in S THEN v ELSE f[j]]
Path(j) == <<target[j], Base[j]>>

\* queueUploads: every file is looked at before the first is queued, and the
\* directory is fixed.
QueueUploads(S, d) ==
    /\ stage' = Set(stage, S, IF shut \/ d = NoDir \/ S \cap Irregular # {}
                              THEN "refused" ELSE "checking")
    /\ target' = Set(target, S, d)

\* Files can be dropped when no dialog or picker is open.
TakesDrop(S) ==
    /\ ~shut /\ S # {} /\ \A j \in S : stage[j] = "idle"
    /\ \A j \in Jobs : stage[j] \notin {"dialog", "picking"}
    /\ batch' = Set(batch, S, S)
    /\ UNCHANGED <<shown, shellDir, server, mode, shut, browsed, foreign, agreed>>

DropOnPane(S) ==
    /\ TakesDrop(S) /\ QueueUploads(S, shown)
    /\ meant' = Set(meant, S, {shown})
    /\ UNCHANGED origin

\* The drop chooses the terminal; its directory is read by a goroutine.
DropOnTerminal(S, t) ==
    /\ TakesDrop(S)
    /\ stage' = Set(stage, S, "resolving") /\ origin' = Set(origin, S, t)
    /\ meant' = Set(meant, S, {shellDir[t]})
    /\ UNCHANGED target

\* upload: the directory is taken before the picker opens.
OpenPicker(S) ==
    /\ TakesDrop(S)
    /\ stage' = Set(stage, S, "picking") /\ target' = Set(target, S, shown)
    /\ meant' = Set(meant, S, {shown})
    /\ UNCHANGED origin

Together(S, s) == S # {} /\ \A j \in S : stage[j] = s /\ batch[j] = S
KeepWorld == UNCHANGED <<shown, shellDir, server, batch, shut, browsed, foreign>>

\* The picker closes with the files, or with none.
PickerCloses(S) ==
    /\ Together(S, "picking")
    /\ \E j \in S : \/ ~shut /\ QueueUploads(S, target[j])
                    \/ stage' = Set(stage, S, "refused") /\ UNCHANGED target
    /\ KeepWorld /\ UNCHANGED <<origin, mode, meant, agreed>>

\* TerminalDirectory answers,
ReadDirectory(S) ==
    /\ Together(S, "resolving")
    /\ \/ /\ ~shut /\ stage' = Set(stage, S, "resolved")
          /\ \E j \in S : target' = Set(target, S, shellDir[origin[j]])
       \/ stage' = Set(stage, S, "failed") /\ UNCHANGED target
    /\ KeepWorld /\ UNCHANGED <<origin, mode, meant, agreed>>

\* mutant: the files go to the directory the pane shows
ResolvedInPane(S) ==
    /\ Together(S, "resolved")
    /\ QueueUploads(S, shown)
    /\ KeepWorld /\ UNCHANGED <<origin, mode, meant, agreed>>

\* and the UI thread queues the files.
Resolved(S) ==
    /\ Together(S, "resolved")
    /\ \E j \in S : QueueUploads(S, target[j])
    /\ KeepWorld /\ UNCHANGED <<origin, mode, meant, agreed>>

-----------------------------------------------------------------------------
Step(j, s) ==
    /\ stage' = [stage EXCEPT ![j] = s]
    /\ UNCHANGED <<shown, shellDir, batch, origin, target, shut, browsed, foreign, meant>>

\* The goroutine of queueUploads asks the server for the target.
Check(j) ==
    /\ stage[j] = "checking"
    /\ \/ ~shut /\ server[Path(j)] = "none" /\ Step(j, "free")
       \/ ~shut /\ server[Path(j)] \notin {"none", "folder"} /\ Step(j, "taken")
       \/ Step(j, "failed")
    /\ UNCHANGED <<server, mode, agreed>>

\* Its callback starts the transfer or asks what to do.
React(j) ==
    /\ stage[j] \in {"free", "taken"}
    /\ Step(j, IF shut THEN "refused" ELSE IF stage[j] = "free" THEN "sending" ELSE "dialog")
    /\ UNCHANGED <<server, mode, agreed>>

AnswerTaken(j) ==
    /\ stage[j] = "dialog"
    /\ \/ /\ Step(j, "sending")
          /\ \E m \in {"replace", "resume"} : mode' = [mode EXCEPT ![j] = m]
          /\ agreed' = agreed \cup {j}
       \/ Step(j, "refused") /\ UNCHANGED <<mode, agreed>>
    /\ UNCHANGED server

MayOpenAny(j) == server[Path(j)] # "folder" \* mutant
\* OpenFile with the flags of Manager.transfer.
MayOpen(j) == server[Path(j)] = "none" \/ (mode[j] # "new" /\ server[Path(j)] # "folder")

\* transfer: UploadNew or Transfer.  A cancelled context or the server may end it
\* before the file is opened, or behind that: what is written then stays.
SendFile(j) ==
    /\ stage[j] = "sending"
    /\ \/ /\ MayOpen(j) /\ server' = [server EXCEPT ![Path(j)] = j]
          /\ (~shut /\ Step(j, "sent")) \/ Step(j, "failed")
       \/ Step(j, "failed") /\ UNCHANGED server
    /\ UNCHANGED <<mode, agreed>>

-----------------------------------------------------------------------------
\* The pane shows another directory.
Browse(d) ==
    /\ browsed < MaxBrowse /\ browsed' = browsed + 1 /\ d # shown
    /\ shown' = d
    /\ UNCHANGED <<shellDir, server, jobs, shut, foreign, meant, agreed>>

\* A shell changes its directory: a drop that still asks may mean either.
ShellCd(t, d) ==
    /\ browsed < MaxBrowse /\ browsed' = browsed + 1 /\ d # shellDir[t]
    /\ shellDir' = [shellDir EXCEPT ![t] = d]
    /\ meant' = [j \in Jobs |-> IF stage[j] = "resolving" /\ origin[j] = t
                                THEN meant[j] \cup {d} ELSE meant[j]]
    /\ UNCHANGED <<shown, server, jobs, shut, foreign, agreed>>

\* Another program makes a file.
Create(p) ==
    /\ foreign < MaxForeign /\ foreign' = foreign + 1 /\ server[p] = "none"
    /\ server' = [server EXCEPT ![p] = "theirs"]
    /\ UNCHANGED <<shown, shellDir, jobs, shut, browsed, meant, agreed>>

CloseUploads ==
    /\ ~shut /\ shut' = TRUE
    /\ UNCHANGED <<shown, shellDir, server, jobs, browsed, foreign, meant, agreed>>

Work ==
    \/ \E S \in SUBSET Jobs : PickerCloses(S) \/ ReadDirectory(S) \/ Resolved(S)
    \/ \E j \in Jobs : Check(j) \/ React(j) \/ SendFile(j)

Others ==
    \/ \E S \in SUBSET Jobs : DropOnPane(S) \/ OpenPicker(S) \/ \E t \in Terminals : DropOnTerminal(S, t)
    \/ \E j \in Jobs : AnswerTaken(j)
    \/ \E d \in Dirs : Browse(d) \/ \E t \in Terminals : ShellCd(t, d)
    \/ \E p \in Dirs \X FileNames : Create(p)
    \/ CloseUploads

UploadNext == Work \/ Others
UploadSpec == UploadInit /\ [][UploadNext]_uploadVars

-----------------------------------------------------------------------------
(***************************************************************************)
(* Properties.                                                             *)
(***************************************************************************)
\* A file arrives in the directory the pane showed when it was dropped or the
\* picker was opened, or in one the terminal it was dropped on was in while it
\* was asked, wherever the user has gone since (the comment on capturing the
\* destination in queueUploads).
LandsWhereDropped == \A p \in Dirs \X FileNames : server[p] \in Jobs => p[1] \in meant[server[p]]

\* An upload takes the place of a file only after the user has answered the
\* question about this very upload, though the file appeared after the check
\* or comes from another upload of the same name (UploadNew).
NoSilentOverwrite ==
    [][\A p \in Dirs \X FileNames :
          server'[p] # server[p] /\ server[p] # "none" => server[p] # "folder" /\ server'[p] \in agreed]_uploadVars

\* If one file of a drop cannot be uploaded, none of them is
\* (the first loop of queueUploads).
AllOrNone ==
    \A j \in Jobs : batch[j] \cap Irregular # {} => stage[j] \in {"resolving", "resolved", "picking", "refused", "failed"}

\* A drop arrives where it was dropped, and as a whole or not at all.
LandsAsAsked == UploadTypeOK /\ LandsWhereDropped /\ AllOrNone
=============================================================================
