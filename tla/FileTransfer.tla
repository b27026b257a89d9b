---------------------------- MODULE FileTransfer ----------------------------
(***************************************************************************)
(* Manager.transfer (internal/remote/files.go) and Executor.uploadLocal    *)
(* (internal/remote/local_upload.go): copying a file between this computer *)
(* and a server, as a new file, over an old one, or from where an earlier  *)
(* transfer stopped.  Jobs of the desktop read the chosen file; jobs of an *)
(* assistant (Agents) send a private copy of the content the user has      *)
(* approved.  Several jobs may have the same target, and other programs    *)
(* change the source and the target at any time.                           *)
(*                                                                         *)
(* Upload and download are the same procedure with the ends exchanged.     *)
(* A file is a sequence of blocks, and its hash is the sequence.  Files    *)
(* are inodes: a path that is deleted and made anew is another file, while *)
(* an open handle stays with the old one.  The reading of a file for its   *)
(* hash happens at one moment.                                             *)
(***************************************************************************)
EXTENDS Naturals, Sequences, SequencesExt

CONSTANTS Jobs, Agents, Blocks,
          Zero,       \* what a hole in a file reads as
          NoFile,
          MaxLen,     \* bound on the length of a file
          MaxMeddling  \* bound on changes by other programs

ASSUME TransferAssumption ==
    /\ Agents \subseteq Jobs /\ Zero \notin Blocks
    /\ NoFile \notin Jobs \cup {"first", "other"}
    /\ {"first", "other"} \cap Jobs = {}
    /\ {MaxLen, MaxMeddling} \subseteq Nat

Inodes == {"first", "other"} \cup Jobs  \* named after their creator
Content == UNION {[1..n -> Blocks \cup {Zero}] : n \in 0..MaxLen}
Plain == UNION {[1..n -> Blocks] : n \in 0..MaxLen}

VARIABLES
    source,    \* the file to send
    approved,  \* the content the user has approved, by its hash
    path,      \* the file at the target path
    inode,     \* per inode: its content
    meddling,  \* changes by other programs so far
    point, mode, staged, total, offset, pos, handle, sum, \* per job
    kept,      \* history, per job: the target when it was opened
    wrote,     \* history: jobs that have changed a file
    crossed,   \* history: jobs whose open target others have changed
    disturbed  \* history: jobs whose files others changed after the first hash

ends == <<source, approved, path, inode, meddling>>
history == <<kept, wrote, crossed, disturbed>>
transferVars == <<ends, point, mode, staged, total, offset, pos, handle, sum,
                  history>>

JobPoint == {"idle", "snapshot", "stat", "source", "target", "compare", "copy",
             "hash", "check", "done", "notstarted", "mismatch", "failed"}

TransferTypeOK ==
    /\ source \in Plain /\ approved \in Plain
    /\ path \in Inodes \cup {NoFile} /\ inode \in [Inodes -> Content]
    /\ meddling \in 0..MaxMeddling
    /\ point \in [Jobs -> JobPoint] /\ mode \in [Jobs -> {"new", "replace", "resume"}]
    /\ staged \in [Jobs -> Plain] /\ sum \in [Jobs -> Plain] /\ kept \in [Jobs -> Content]
    /\ total \in [Jobs -> 0..MaxLen] /\ offset \in [Jobs -> 0..MaxLen]
    /\ pos \in [Jobs -> 0..MaxLen] /\ handle \in [Jobs -> Inodes \cup {NoFile}]
    /\ wrote \subseteq Jobs /\ crossed \subseteq Jobs /\ disturbed \subseteq Jobs

TransferInit ==
    /\ source \in Plain /\ approved = source
    /\ path \in {"first", NoFile}
    /\ \E c \in Plain : inode = [i \in Inodes |-> IF i = path THEN c ELSE <<>>]
    /\ meddling = 0
    /\ point = [j \in Jobs |-> "idle"] /\ mode \in [Jobs -> {"new", "replace", "resume"}]
    /\ staged = [j \in Jobs |-> <<>>] /\ sum = [j \in Jobs |-> <<>>]
    /\ total = [j \in Jobs |-> 0] /\ offset = [j \in Jobs |-> 0] /\ pos = [j \in Jobs |-> 0]
    /\ handle = [j \in Jobs |-> NoFile]
    /\ kept = [j \in Jobs |-> <<>>] /\ wrote = {} /\ crossed = {} /\ disturbed = {}

-----------------------------------------------------------------------------
Proceed(j, p) == point' = [point EXCEPT ![j] = p]

\* What a job reads.
Sent(j) == IF j \in Agents THEN staged[j] ELSE source

Verifying == {j \in Jobs : point[j] \in {"check", "done"}}
OpenAt(i) == {j \in Jobs : handle[j] = i}

\* Job j, or another program, changes file i.
Touch(j, i) ==
    /\ crossed' = crossed \cup (OpenAt(i) \ {j})
    /\ disturbed' = disturbed \cup (Verifying \ {j})

-----------------------------------------------------------------------------
(* uploadLocal                                                             *)

Start(j) ==
    /\ point[j] = "idle"
    /\ Proceed(j, IF j \in Agents THEN "snapshot" ELSE "source")
    /\ UNCHANGED <<ends, mode, staged, total, offset, pos, handle, sum, history>>

\* The private copy is hashed while it is made.
Snapshot(j) ==
    /\ point[j] = "snapshot"
    /\ IF source = approved
         THEN Proceed(j, "stat") /\ staged' = [staged EXCEPT ![j] = source]
         ELSE Proceed(j, "notstarted") /\ UNCHANGED staged
    /\ UNCHANGED <<ends, mode, total, offset, pos, handle, sum, history>>

\* The authority is checked again, and a new file must not exist.
Lstat(j) ==
    /\ point[j] = "stat"
    /\ Proceed(j, IF mode[j] = "new" /\ path # NoFile THEN "notstarted" ELSE "source")
    /\ UNCHANGED <<ends, mode, staged, total, offset, pos, handle, sum, history>>

\* Reading the source, the authority or the connection fails.
NotStarted(j) ==
    /\ point[j] \in {"snapshot", "stat"}
    /\ Proceed(j, "notstarted")
    /\ UNCHANGED <<ends, mode, staged, total, offset, pos, handle, sum, history>>

-----------------------------------------------------------------------------
(* transfer                                                                *)

OpenSource(j) ==
    /\ point[j] = "source"
    /\ total' = [total EXCEPT ![j] = Len(Sent(j))]
    /\ Proceed(j, "target")
    /\ UNCHANGED <<ends, mode, staged, offset, pos, handle, sum, history>>

Exclusive(j) == mode[j] = "new"

Truncates(j) == mode[j] # "resume"

\* The flags create, refuse or truncate; a job that resumes goes on behind
\* what is there.
OpenTarget(j) ==
    LET i == IF path = NoFile THEN j ELSE path
        found == inode[i]
    IN  /\ point[j] = "target" /\ ~(Exclusive(j) /\ path # NoFile)
        /\ path' = i /\ handle' = [handle EXCEPT ![j] = i]
        /\ inode' = IF Truncates(j) THEN [inode EXCEPT ![i] = <<>>] ELSE inode
        /\ offset' = [offset EXCEPT ![j] = Len(inode'[i])]
        /\ kept' = [kept EXCEPT ![j] = found]
        /\ IF inode'[i] # found \/ path = NoFile
             THEN Touch(j, i) ELSE UNCHANGED <<crossed, disturbed>>
        /\ wrote' = IF inode'[i] # found THEN wrote \cup {j} ELSE wrote
        /\ Proceed(j, "compare")
        /\ UNCHANGED <<source, approved, meddling, mode, staged, total, pos, sum>>

OpenRefused(j) ==
    /\ point[j] = "target" /\ Exclusive(j) /\ path # NoFile
    /\ Proceed(j, "failed")
    /\ UNCHANGED <<ends, mode, staged, total, offset, pos, handle, sum, history>>

\* Mutant: the length is taken for the content.
SamePrefixByLength(j) == path # NoFile

\* The target, opened anew at its path, begins like the source.
SamePrefix(j) ==
    /\ path # NoFile
    /\ offset[j] <= Len(Sent(j)) /\ offset[j] <= Len(inode[path])
    /\ SubSeq(Sent(j), 1, offset[j]) = SubSeq(inode[path], 1, offset[j])

ComparePrefix(j) ==
    /\ point[j] = "compare"
    /\ IF offset[j] <= total[j] /\ (offset[j] > 0 => SamePrefix(j))
         THEN Proceed(j, "copy") /\ pos' = [pos EXCEPT ![j] = offset[j]]
         ELSE Proceed(j, "mismatch") /\ UNCHANGED pos
    /\ UNCHANGED <<ends, mode, staged, total, offset, handle, sum, history>>

\* f with block b at position p, behind zeros if f is shorter.
WriteAt(f, p, b) ==
    [k \in 1..(IF Len(f) < p THEN p ELSE Len(f)) |->
        IF k = p THEN b ELSE IF k <= Len(f) THEN f[k] ELSE Zero]

CopyBlock(j) ==
    /\ point[j] = "copy" /\ pos[j] < Len(Sent(j))
    /\ LET i == handle[j]
           p == pos[j] + 1
       IN  /\ inode' = [inode EXCEPT ![i] = WriteAt(inode[i], p, Sent(j)[p])]
           /\ pos' = [pos EXCEPT ![j] = p]
           /\ Touch(j, i)
    /\ wrote' = wrote \cup {j}
    /\ UNCHANGED <<source, approved, path, meddling, point, mode, staged, total, offset,
                   handle, sum, kept>>

CopyEnds(j) ==
    /\ point[j] = "copy" /\ pos[j] >= Len(Sent(j))
    /\ Proceed(j, "hash")
    /\ UNCHANGED <<ends, mode, staged, total, offset, pos, handle, sum, history>>

HashSource(j) ==
    /\ point[j] = "hash"
    /\ sum' = [sum EXCEPT ![j] = Sent(j)]
    /\ Proceed(j, "check")
    /\ UNCHANGED <<ends, mode, staged, total, offset, pos, handle, history>>

\* Mutant: the open file is looked at, not the path.
HashAgreesOpen(j) == inode[handle[j]] = sum[j]

HashAgrees(j) == path # NoFile /\ inode[path] = sum[j]

Check(j) ==
    /\ point[j] = "check"
    /\ Proceed(j, IF HashAgrees(j) THEN "done" ELSE "failed")
    /\ UNCHANGED <<ends, mode, staged, total, offset, pos, handle, sum, history>>

\* The connection is lost, the job cancelled, or a file cannot be used.
Fail(j) ==
    /\ point[j] \in {"source", "target", "compare", "copy", "hash", "check"}
    /\ Proceed(j, "failed")
    /\ UNCHANGED <<ends, mode, staged, total, offset, pos, handle, sum, history>>

-----------------------------------------------------------------------------
(* Other programs                                                          *)

ChangeSource(c) ==
    /\ meddling < MaxMeddling /\ c # source
    /\ meddling' = meddling + 1 /\ source' = c
    /\ disturbed' = disturbed \cup (Verifying \ Agents)
    /\ UNCHANGED <<approved, path, inode, point, mode, staged, total, offset, pos, handle,
                   sum, kept, wrote, crossed>>

WriteTarget(c) ==
    /\ meddling < MaxMeddling /\ path # NoFile
    /\ meddling' = meddling + 1 /\ inode' = [inode EXCEPT ![path] = c]
    /\ Touch("other", path)
    /\ UNCHANGED <<source, approved, path, point, mode, staged, total, offset, pos, handle,
                   sum, kept, wrote>>

\* The target is deleted, or replaced by another file.
MoveTarget(i) ==
    /\ meddling < MaxMeddling /\ path # i /\ OpenAt("other") = {}
    /\ meddling' = meddling + 1 /\ path' = i
    /\ \E c \in IF i = NoFile THEN {<<>>} ELSE Plain :
          inode' = [inode EXCEPT !["other"] = c]
    /\ Touch("other", path)
    /\ UNCHANGED <<source, approved, point, mode, staged, total, offset, pos, handle, sum,
                   kept, wrote>>

-----------------------------------------------------------------------------
JobStep(j) ==
    \/ Start(j) \/ Snapshot(j) \/ Lstat(j) \/ NotStarted(j)
    \/ OpenSource(j) \/ OpenTarget(j) \/ OpenRefused(j) \/ ComparePrefix(j)
    \/ CopyBlock(j) \/ CopyEnds(j) \/ HashSource(j) \/ Check(j) \/ Fail(j)

TransferNext ==
    \/ \E j \in Jobs : JobStep(j)
    \/ \E c \in Plain : ChangeSource(c) \/ WriteTarget(c)
    \/ \E i \in {"other", NoFile} : MoveTarget(i)

TransferSpec == TransferInit /\ [][TransferNext]_transferVars

-----------------------------------------------------------------------------
(* Properties                                                              *)

\* A transfer that reports success leaves at the path a file equal to its
\* source, whatever happened to either of them before the final check: a
\* source that grew, a target written by others, replaced or deleted.
Verified ==
    \A j \in Jobs : point[j] = "done" /\ j \notin disturbed =>
        path # NoFile /\ inode[path] = Sent(j)

\* Success of an assistant's upload means that the server has what the user
\* has approved, also when the local file has changed since.
ApprovedIsSent ==
    \A j \in Agents : point[j] = "done" /\ j \notin disturbed =>
        path # NoFile /\ inode[path] = approved

\* A job for a new file writes only to a file it has created, even when one
\* appears after the job was queued or after Lstat.
NewWritesItsOwn ==
    \A j \in Jobs : mode[j] = "new" => handle[j] \in {j, NoFile} /\ (handle[j] = NoFile => j \notin wrote)

\* A job that resumes keeps what an earlier one has transferred.
ResumeKeeps ==
    \A j \in Jobs : mode[j] = "resume" /\ handle[j] # NoFile /\ j \notin crossed =>
        IsPrefix(kept[j], inode[handle[j]])

\* And it only writes behind a beginning of what it sends.
ResumeMatches ==
    \A j \in Agents : mode[j] = "resume" /\ j \in wrote /\ j \notin crossed =>
        IsPrefix(kept[j], staged[j])

\* A job that did not start, or found another content in front of where it
\* was to go on, has changed no file.
RefusedIsUntouched ==
    \A j \in Jobs :
        (point[j] = "notstarted" \/ (point[j] = "mismatch" /\ mode[j] = "resume")) => j \notin wrote

\* Success means that the target is equal to the source, and to what was approved.
SuccessIsVerified == TransferTypeOK /\ Verified /\ ApprovedIsSent

\* A transfer touches no file, and no part of a file, that is not its own.
ForeignIsKept == NewWritesItsOwn /\ ResumeKeeps /\ ResumeMatches /\ RefusedIsUntouched
=============================================================================
