---------------------------- MODULE FileReplace ----------------------------
(***************************************************************************)
(* Manager.WriteFile (internal/remote/files.go): the editor of the desktop *)
(* and the tool file_write replace a file of a server.  The content is     *)
(* compared with what the writer has read, saved in a backup, written to a *)
(* temporary file next to it and renamed over it.  Other programs of the   *)
(* server, and other writers, change the file at any time.                 *)
(*                                                                         *)
(* Abstractions: one path; a content stands for its bytes and its hash,    *)
(* and is read at one moment.  A cancelled context closes the SFTP client, *)
(* so it is the same event as a lost connection.                           *)
(***************************************************************************)
EXTENDS Naturals

CONSTANTS Writers, Contents,
          Absent, \* no file
          Torn,   \* a file of which only a part was written
          MaxForeign  \* bound on changes by other programs

ASSUME ReplaceAssumption ==
    /\ Absent \notin Contents /\ Torn \notin Contents /\ Absent # Torn
    /\ "nothing" \notin Contents \cup {Absent, Torn}
    /\ MaxForeign \in Nat

VARIABLES
    file,       \* the file at the path
    foreign,    \* changes by other programs so far
    pc,         \* per writer: control point
    result,     \* per writer: what it is about to return
    expected,   \* per writer: the hash it was given, Absent for "" and "new"
    content,    \* per writer: what it writes
    old,        \* per writer: the content it found
    backup,     \* per writer: its backup file
    tmp,        \* per writer: its temporary file
    connected,  \* per writer: the SFTP client is open
    posix,      \* the server offers posix-rename@openssh.com
    replaced,   \* history, per writer: what its rename replaced
    raced       \* history: writers whose file changed after their comparison

local == <<pc, result, expected, content, old>>
vars == <<file, foreign, local, backup, tmp, connected, posix, replaced, raced>>

Files == Contents \cup {Absent, Torn}

Result == {"done", "refused", "failed", "unknown"}
Point == {"idle", "open", "backup", "tmp", "write", "rename", "remove"} \cup Result

TypeOK ==
    /\ file \in Files /\ foreign \in 0..MaxForeign
    /\ pc \in [Writers -> Point] /\ result \in [Writers -> Result]
    /\ expected \in [Writers -> Files] /\ old \in [Writers -> Files]
    /\ content \in [Writers -> Contents]
    /\ backup \in [Writers -> Files] /\ tmp \in [Writers -> Files]
    /\ connected \in [Writers -> BOOLEAN] /\ posix \in BOOLEAN
    /\ replaced \in [Writers -> Files \cup {"nothing"}]
    /\ raced \subseteq Writers

Init ==
    /\ file \in Contents \cup {Absent} /\ foreign = 0
    /\ pc = [w \in Writers |-> "idle"] /\ result = [w \in Writers |-> "failed"]
    /\ expected = [w \in Writers |-> Absent] /\ old = [w \in Writers |-> Absent]
    /\ content \in [Writers -> Contents]
    /\ backup = [w \in Writers |-> Absent] /\ tmp = [w \in Writers |-> Absent]
    /\ connected = [w \in Writers |-> TRUE] /\ posix \in BOOLEAN
    /\ replaced = [w \in Writers |-> "nothing"] /\ raced = {}

-----------------------------------------------------------------------------
At(w, p) == pc[w] = p /\ connected[w]
Goto(w, p) == pc' = [pc EXCEPT ![w] = p]

\* Returning: the deferred Remove of the temporary file runs first.
Leave(w, r) == Goto(w, "remove") /\ result' = [result EXCEPT ![w] = r]

\* Writers that have compared and not yet renamed.
InWindow == {w \in Writers : pc[w] \in {"backup", "tmp", "write", "rename"}}

\* ReadFile, and the user or the model that decides on a new content; or a
\* caller that takes the path for a new one.
ReadFile(w) ==
    /\ At(w, "idle")
    /\ \E e \in {file, Absent} : expected' = [expected EXCEPT ![w] = e]
    /\ Goto(w, "open")
    /\ UNCHANGED <<file, foreign, result, content, old, backup, tmp,
                   connected, posix, replaced, raced>>

\* Mutant: any file may be replaced when no hash is given.
AgreesLoosely(w) == expected[w] \in {file, Absent}

\* The file is the one the writer has read, or is missing as expected.
Agrees(w) == expected[w] = file

Compare(w) ==
    /\ At(w, "open")
    /\ IF Agrees(w)
         THEN /\ Goto(w, IF file = Absent THEN "tmp" ELSE "backup")
              /\ old' = [old EXCEPT ![w] = file]
         ELSE Goto(w, "refused") /\ UNCHANGED old
    /\ UNCHANGED <<file, foreign, result, expected, content, backup, tmp,
                   connected, posix, replaced, raced>>

\* The path is not canonical, or the file too large or unreadable.
Refuse(w) ==
    /\ At(w, "open")
    /\ Goto(w, "refused")
    /\ UNCHANGED <<file, foreign, result, expected, content, old, backup,
                   tmp, connected, posix, replaced, raced>>

BackUp(w) ==
    /\ At(w, "backup")
    /\ backup' = [backup EXCEPT ![w] = old[w]]
    /\ Goto(w, "tmp")
    /\ UNCHANGED <<file, foreign, result, expected, content, old, tmp,
                   connected, posix, replaced, raced>>

\* The backup cannot be created, or not be written to the end.
BackUpFails(w) ==
    /\ At(w, "backup")
    /\ backup' \in {backup, [backup EXCEPT ![w] = Torn]}
    /\ Goto(w, "failed")
    /\ UNCHANGED <<file, foreign, result, expected, content, old, tmp,
                   connected, posix, replaced, raced>>

CreateTmp(w) ==
    /\ At(w, "tmp")
    /\ tmp' = [tmp EXCEPT ![w] = Torn]
    /\ Goto(w, "write")
    /\ UNCHANGED <<file, foreign, result, expected, content, old, backup,
                   connected, posix, replaced, raced>>

CreateTmpFails(w) ==
    /\ At(w, "tmp")
    /\ Goto(w, "failed")
    /\ UNCHANGED <<file, foreign, result, expected, content, old, backup,
                   tmp, connected, posix, replaced, raced>>

WriteTmp(w) ==
    /\ At(w, "write")
    /\ tmp' = [tmp EXCEPT ![w] = content[w]]
    /\ Goto(w, "rename")
    /\ UNCHANGED <<file, foreign, result, expected, content, old, backup,
                   connected, posix, replaced, raced>>

WriteTmpFails(w) ==
    /\ At(w, "write")
    /\ Leave(w, "failed")
    /\ UNCHANGED <<file, foreign, expected, content, old, backup, tmp,
                   connected, posix, replaced, raced>>

\* posix-rename replaces the target; rename is refused by the server when
\* the target exists.
Overwrites(w) == old[w] # Absent

Supported(w) == Overwrites(w) => posix
Possible(w) == Supported(w) /\ (Overwrites(w) \/ file = Absent)

\* The server renames; the answer may get lost with the connection.
Rename(w) ==
    /\ At(w, "rename") /\ Possible(w)
    /\ file' = tmp[w] /\ tmp' = [tmp EXCEPT ![w] = Absent]
    /\ replaced' = [replaced EXCEPT ![w] = file]
    /\ raced' = raced \cup (InWindow \ {w})
    /\ \/ Leave(w, "done") /\ UNCHANGED connected
       \/ Leave(w, "unknown") /\ connected' = [connected EXCEPT ![w] = FALSE]
    /\ UNCHANGED <<foreign, expected, content, old, backup, posix>>

\* The server refuses, or has no rename that replaces.
RenameFails(w) ==
    /\ At(w, "rename")
    /\ Leave(w, IF Supported(w) THEN "failed" ELSE "refused")
    /\ UNCHANGED <<file, foreign, expected, content, old, backup, tmp,
                   connected, posix, replaced, raced>>

RemoveTmp(w) ==
    /\ pc[w] = "remove"
    /\ tmp' = IF connected[w] THEN [tmp EXCEPT ![w] = Absent] ELSE tmp
    /\ Goto(w, result[w])
    /\ UNCHANGED <<file, foreign, result, expected, content, old, backup,
                   connected, posix, replaced, raced>>

\* The connection is lost, or the context cancelled, between two requests.
Disconnect(w) ==
    /\ pc[w] \in {"open", "backup", "tmp", "write", "rename", "remove"}
    /\ connected[w]
    /\ connected' = [connected EXCEPT ![w] = FALSE]
    /\ UNCHANGED <<file, foreign, local, backup, tmp, posix, replaced,
                   raced>>

\* The next request of a writer without a connection is an error.
Interrupted(w) ==
    /\ pc[w] \in {"open", "backup", "tmp", "write", "rename"} /\ ~connected[w]
    /\ IF pc[w] \in {"write", "rename"} THEN Leave(w, "failed")
                                      ELSE Goto(w, "failed") /\ UNCHANGED result
    /\ UNCHANGED <<file, foreign, expected, content, old, backup, tmp,
                   connected, posix, replaced, raced>>

\* Another program writes or deletes the file.
ForeignChange(c) ==
    /\ foreign < MaxForeign /\ c # file
    /\ foreign' = foreign + 1
    /\ file' = c
    /\ raced' = raced \cup InWindow
    /\ UNCHANGED <<local, backup, tmp, connected, posix, replaced>>

-----------------------------------------------------------------------------
Step(w) ==
    \/ ReadFile(w) \/ Compare(w) \/ Refuse(w) \/ BackUp(w) \/ BackUpFails(w)
    \/ CreateTmp(w) \/ CreateTmpFails(w) \/ WriteTmp(w) \/ WriteTmpFails(w)
    \/ Rename(w) \/ RenameFails(w) \/ RemoveTmp(w)
    \/ Disconnect(w) \/ Interrupted(w)

Next ==
    \/ \E w \in Writers : Step(w)
    \/ \E c \in Contents \cup {Absent} : ForeignChange(c)

Spec == Init /\ [][Next]_vars

-----------------------------------------------------------------------------
(* Properties                                                              *)

\* What a writer replaced is in its backup and is what it had read, unless
\* somebody changed the file in the window that WriteFile documents, between
\* its comparison and its rename.
ReplacedIsSaved ==
    \A w \in Writers : replaced[w] \in Contents /\ w \notin raced =>
        /\ replaced[w] = backup[w]
        /\ replaced[w] = expected[w]

\* A writer that means to create a file never replaces one, not even in
\* that window.
NewReplacesNothing ==
    \A w \in Writers : expected[w] = Absent => replaced[w] \in {"nothing", Absent}

\* Nobody who reads the path ever sees a part of a content, whatever fails.
NeverTorn == file # Torn

\* A writer that reports a refusal or a failure has not changed the file;
\* only a lost answer of the rename is different, and one that reports
\* success has.
ReportIsTrue ==
    \A w \in Writers :
        /\ pc[w] \in {"refused", "failed"} => replaced[w] = "nothing"
        /\ pc[w] = "done" => replaced[w] # "nothing"

\* No temporary file stays on the server unless the connection was lost.
NoLitter ==
    \A w \in Writers :
        pc[w] \in {"done", "refused", "failed"} /\ connected[w] => tmp[w] = Absent

\* Replacing a file saves what was there, shows no part of what is coming,
\* reports what happened, and leaves nothing behind.
ReplaceIsSafe ==
    TypeOK /\ ReplacedIsSaved /\ NewReplacesNothing /\ NeverTorn /\ ReportIsTrue /\ NoLitter
=============================================================================
