---------------------------- MODULE PaneProofs ----------------------------
(***************************************************************************)
(* The file pane acts on what the user picked and moves only where the     *)
(* focused terminal is; uploads arrive where they were meant to, as a      *)
(* whole or not at all, and never silently over something else; and what   *)
(* comes over ZMODEM is what was sent, and fails only for a reason: for    *)
(* every number of files, names, directories, terminals, blocks and        *)
(* operations.                                                             *)
(***************************************************************************)
EXTENDS FileBrowser, UploadQueue, Zmodem, FiniteSetTheorems, SequenceTheorems, TLAPS

-----------------------------------------------------------------------------
(***************************************************************************)
(* The upload queue.                                                       *)
(***************************************************************************)
\* Every path has one entry.
ServerInv == server \in [Dirs \X FileNames -> {"none", "theirs", "folder"} \cup Jobs]

\* The files of a drop know each other, and share their origin and directory.
BatchInv ==
    /\ \A j \in Jobs : stage[j] = "idle" => batch[j] = {} /\ origin[j] = NoTerminal /\ target[j] = NoDir
    /\ \A j \in Jobs : stage[j] # "idle" => j \in batch[j]
    /\ \A j \in Jobs : \A k \in batch[j] :
          batch[k] = batch[j] /\ origin[k] = origin[j] /\ target[k] = target[j]

\* The directory that was captured is one the user may have meant; while a
\* terminal is asked, so is the one its shell is in.
MeantInv ==
    /\ \A j \in Jobs :
          stage[j] \in {"resolved", "picking", "checking", "free", "taken", "dialog", "sending", "sent"}
             => target[j] \in meant[j]
    /\ \A j \in Jobs : stage[j] = "resolving" => shellDir[origin[j]] \in meant[j]

\* What a job has put on the server, whole or in part, it has sent to its
\* directory.
SentInv ==
    \A p \in Dirs \X FileNames :
        server[p] \in Jobs =>
            /\ stage[server[p]] \in {"sent", "failed"}
            /\ p = Path(server[p]) /\ p[1] \in meant[server[p]]

\* A job writes over a file only with the user's answer.
ModeInv == \A j \in Jobs : mode[j] # "new" => j \in agreed

Inv == UploadTypeOK /\ ServerInv /\ BatchInv /\ MeantInv /\ SentInv /\ ModeInv /\ AllOrNone

-----------------------------------------------------------------------------
\* Set changes a function at the members of S.
LEMMA InitInv == ASSUME UploadInit PROVE Inv
<1>1. UploadTypeOK
  <2>1. stage \in [Jobs -> Point] /\ batch \in [Jobs -> SUBSET Jobs]
    BY DEF UploadInit, Point
  <2>2. /\ origin \in [Jobs -> Terminals \cup {NoTerminal}] /\ target \in [Jobs -> Dirs \cup {NoDir}]
        /\ mode \in [Jobs -> {"new", "replace", "resume"}]
    BY DEF UploadInit
  <2>3. browsed \in 0..MaxBrowse /\ foreign \in 0..MaxForeign
    BY UploadAssumption DEF UploadInit
  <2>4. \A p \in Dirs \X FileNames : server[p] \in {"none", "theirs", "folder"}
    BY DEF UploadInit
  <2>5. \A j \in Jobs : stage[j] = "idle"
    BY DEF UploadInit
  <2>6. shown \in Dirs \cup {NoDir} /\ shellDir \in [Terminals -> Dirs] /\ shut \in BOOLEAN
    BY DEF UploadInit
  <2>7. QED
    BY <2>1, <2>2, <2>3, <2>4, <2>5, <2>6 DEF UploadTypeOK
<1>2. ServerInv /\ SentInv
  BY UploadAssumption DEF UploadInit, ServerInv, SentInv
<1>3. BatchInv /\ MeantInv /\ ModeInv /\ AllOrNone
  BY DEF UploadInit, BatchInv, MeantInv, ModeInv, AllOrNone
<1>4. QED
  BY <1>1, <1>2, <1>3 DEF Inv

-----------------------------------------------------------------------------
(* What was sent stays where it is, and a drop makes one batch.            *)

LEMMA SentKept ==
    ASSUME SentInv, UNCHANGED server,
           \A j \in Jobs : stage[j] \in {"sent", "failed"} =>
               stage'[j] = stage[j] /\ target'[j] = target[j] /\ meant'[j] = meant[j]
    PROVE  SentInv'
BY DEF SentInv, Path

LEMMA BatchMade ==
    ASSUME BatchInv, NEW S \in SUBSET Jobs, batch \in [Jobs -> SUBSET Jobs],
           \A j \in S : stage[j] = "idle" /\ stage'[j] # "idle",
           batch' = Set(batch, S, S),
           \A j, k \in S : origin'[j] = origin'[k] /\ target'[j] = target'[k],
           \A j \in Jobs \ S : origin'[j] = origin[j] /\ target'[j] = target[j] /\ stage'[j] = stage[j]
    PROVE  BatchInv'
<1>1. \A j \in Jobs : batch'[j] = IF j \in S THEN S ELSE batch[j]
  BY DEF Set
<1>2. \A j \in Jobs : \A k \in batch[j] : k \in Jobs /\ k \notin S
  BY DEF BatchInv
<1>3. QED
  BY <1>1, <1>2 DEF BatchInv

-----------------------------------------------------------------------------
(* The steps, by who takes them.                                           *)

Drops(S) == DropOnPane(S) \/ OpenPicker(S) \/ \E t \in Terminals : DropOnTerminal(S, t)

LEMMA DropsFrame ==
    ASSUME UploadTypeOK, NEW S \in SUBSET Jobs, Drops(S)
    PROVE  /\ \A j \in S : stage[j] = "idle" /\ stage'[j] \in {"refused", "checking", "picking", "resolving"}
           /\ \A j \in Jobs \ S : origin'[j] = origin[j] /\ target'[j] = target[j] /\ stage'[j] = stage[j]
           /\ \A j \in Jobs \ S : meant'[j] = meant[j]
           /\ batch' = Set(batch, S, S) /\ UNCHANGED server
BY DEF UploadTypeOK, Drops, DropOnPane, OpenPicker, DropOnTerminal, TakesDrop, QueueUploads, Set

LEMMA DropsStep == ASSUME Inv, NEW S \in SUBSET Jobs, Drops(S) PROVE Inv'
<1>1. UploadTypeOK'
  <2>1. CASE DropOnPane(S)
    BY <2>1 DEF Inv, UploadTypeOK, Point, DropOnPane, TakesDrop, QueueUploads, Set
  <2>2. CASE OpenPicker(S)
    BY <2>2 DEF Inv, UploadTypeOK, Point, OpenPicker, TakesDrop, Set
  <2>3. ASSUME NEW t \in Terminals, DropOnTerminal(S, t) PROVE UploadTypeOK'
    BY <2>3, UploadAssumption DEF Inv, UploadTypeOK, Point, DropOnTerminal, TakesDrop, Set
  <2>4. QED
    BY <2>1, <2>2, <2>3 DEF Drops
<1>2. ServerInv' /\ SentInv'
  BY DropsFrame, SentKept DEF Inv, ServerInv
<1>3. BatchInv'
  <2>1. \A j, k \in S : target'[j] = target'[k] /\ origin'[j] = origin'[k]
    BY DEF Inv, UploadTypeOK, BatchInv, Drops, DropOnPane, OpenPicker, DropOnTerminal, QueueUploads,
           TakesDrop, Set
  <2>2. \A j \in S : stage[j] = "idle" /\ stage'[j] # "idle"
    BY DropsFrame DEF Inv
  <2>3. batch \in [Jobs -> SUBSET Jobs]
    BY DEF Inv, UploadTypeOK
  <2>4. QED
    BY <2>1, <2>2, <2>3, DropsFrame, BatchMade DEF Inv
<1>4. MeantInv' /\ ModeInv' /\ AllOrNone'
  BY DEF Inv, UploadTypeOK, MeantInv, ModeInv, AllOrNone, Drops, DropOnPane, OpenPicker, DropOnTerminal,
         TakesDrop, QueueUploads, Set
<1>5. QED
  BY <1>1, <1>2, <1>3, <1>4 DEF Inv

\* A batch goes on together: picked, resolved, or queued.
Goes(S) == PickerCloses(S) \/ ReadDirectory(S) \/ Resolved(S)

LEMMA GoesFrame ==
    ASSUME UploadTypeOK, NEW S \in SUBSET Jobs, Goes(S)
    PROVE  /\ S # {} /\ \A j \in S : batch[j] = S /\ stage[j] \in {"picking", "resolving", "resolved"}
           /\ \A j \in S : stage'[j] \in {"refused", "checking", "resolved", "failed"}
           /\ \A j \in Jobs \ S : target'[j] = target[j] /\ stage'[j] = stage[j]
           /\ \A j, k \in S : target'[j] = target'[k] \/ UNCHANGED target
           /\ UNCHANGED <<server, origin, batch, mode, meant, agreed, shellDir>>
BY DEF UploadTypeOK, Goes, PickerCloses, ReadDirectory, Resolved, Together, QueueUploads, KeepWorld, Set

LEMMA GoesStep == ASSUME Inv, NEW S \in SUBSET Jobs, Goes(S) PROVE Inv'
<1> USE DEF Inv
<1>1. UploadTypeOK'
  BY DEF UploadTypeOK, Point, Goes, PickerCloses, ReadDirectory, Resolved, Together, QueueUploads, KeepWorld, Set
<1>2. ServerInv' /\ SentInv' /\ ModeInv'
  BY GoesFrame, SentKept DEF ServerInv, ModeInv
<1>3. BatchInv'
  <2>1. \A j \in Jobs : \A k \in batch[j] : j \in S <=> k \in S
    BY GoesFrame DEF BatchInv, UploadTypeOK
  <2>2. \A j \in S, k \in S : target'[j] = target'[k]
    BY GoesFrame DEF BatchInv
  <2>3. QED
    BY <2>1, <2>2, GoesFrame DEF BatchInv, UploadTypeOK
<1>4. MeantInv'
  <2>1. \A j, k \in S : target[j] = target[k] /\ origin[j] = origin[k]
    BY GoesFrame DEF BatchInv
  <2>2. \A j \in S : target'[j] = target[j] \/ (stage[j] = "resolving" /\ target'[j] = shellDir[origin[j]])
                     \/ stage'[j] \in {"refused", "failed"}
    BY <2>1 DEF UploadTypeOK, Goes, PickerCloses, ReadDirectory, Resolved, Together, QueueUploads, KeepWorld, Set
  <2>3. \A j \in S : target'[j] = target[j] => stage[j] \in {"picking", "resolved"} \/ stage'[j] \in {"refused", "failed"}
                                               \/ (stage[j] = "resolving" /\ target'[j] = shellDir[origin[j]])
    BY <2>1 DEF UploadTypeOK, Goes, PickerCloses, ReadDirectory, Resolved, Together, QueueUploads, KeepWorld, Set
  <2>4. QED
    BY <2>2, <2>3, GoesFrame DEF MeantInv
<1>5. AllOrNone'
  BY DEF UploadTypeOK, AllOrNone, Goes, PickerCloses, ReadDirectory, Resolved, Together, QueueUploads, KeepWorld, Set
<1>6. QED
  BY <1>1, <1>2, <1>3, <1>4, <1>5

\* A file goes on alone.
Alone(j) == Check(j) \/ React(j) \/ AnswerTaken(j) \/ SendFile(j)

LEMMA AloneStep == ASSUME Inv, NEW j \in Jobs, Alone(j) PROVE Inv'
<1> USE DEF Inv, UploadTypeOK, Alone, Check, React, AnswerTaken, SendFile, Step
<1>1. UploadTypeOK'
  <2>1. mode' \in [Jobs -> {"new", "replace", "resume"}] /\ stage' \in [Jobs -> Point]
    BY DEF Point
  <2>2. \A p \in Dirs \X FileNames : server'[p] \in {"none", "theirs", "folder"} \/ server'[p] \in Jobs
    BY DEF ServerInv
  <2>3. QED
    BY <2>1, <2>2
<1>2. ServerInv'
  BY DEF ServerInv
<1>3. BatchInv' /\ MeantInv' /\ ModeInv' /\ AllOrNone'
  <2>1. BatchInv'
    BY DEF BatchInv
  <2>2. MeantInv'
    BY DEF MeantInv
  <2>3. ModeInv' /\ AllOrNone'
    BY DEF ModeInv, AllOrNone
  <2>4. QED
    BY <2>1, <2>2, <2>3
<1>4. SentInv'
  <2>1. CASE UNCHANGED server
    BY <2>1, SentKept
  <2>2. CASE /\ stage[j] = "sending" /\ stage' \in {[stage EXCEPT ![j] = "sent"], [stage EXCEPT ![j] = "failed"]}
             /\ server' = [server EXCEPT ![Path(j)] = j] /\ UNCHANGED <<target, meant>>
    BY <2>2 DEF ServerInv, SentInv, MeantInv, Path
  <2>3. QED
    BY <2>1, <2>2
<1>5. QED
  BY <1>1, <1>2, <1>3, <1>4

\* Users browse, shells and other programs work.
Elsewhere ==
    \/ \E d \in Dirs : Browse(d) \/ \E t \in Terminals : ShellCd(t, d)
    \/ \E p \in Dirs \X FileNames : Create(p)
    \/ CloseUploads

LEMMA ElsewhereStep == ASSUME Inv, Elsewhere PROVE Inv'
<1> USE DEF Inv, UploadTypeOK, jobs
<1>1. UploadTypeOK' /\ ServerInv'
  <2>1. ASSUME NEW d \in Dirs, Browse(d) PROVE UploadTypeOK' /\ ServerInv'
    BY <2>1, UploadAssumption DEF ServerInv, Browse
  <2>2. ASSUME NEW d \in Dirs, NEW t \in Terminals, ShellCd(t, d) PROVE UploadTypeOK' /\ ServerInv'
    BY <2>2, UploadAssumption DEF ServerInv, ShellCd
  <2>3. ASSUME NEW p \in Dirs \X FileNames, Create(p) PROVE UploadTypeOK' /\ ServerInv'
    BY <2>3, UploadAssumption DEF ServerInv, Create
  <2>4. CASE CloseUploads
    BY <2>4 DEF ServerInv, CloseUploads
  <2>5. QED
    BY <2>1, <2>2, <2>3, <2>4 DEF Elsewhere
<1>2. BatchInv' /\ MeantInv' /\ ModeInv' /\ AllOrNone'
  BY DEF BatchInv, MeantInv, ModeInv, AllOrNone, Elsewhere, Browse, ShellCd, Create, CloseUploads
<1>3. SentInv'
  BY UploadAssumption DEF ServerInv, SentInv, Path, Elsewhere, Browse, ShellCd, Create, CloseUploads
<1>4. QED
  BY <1>1, <1>2, <1>3

LEMMA NextInv == ASSUME Inv, [UploadNext]_uploadVars PROVE Inv'
<1>1. CASE UNCHANGED uploadVars
  BY <1>1 DEF Inv, UploadTypeOK, ServerInv, BatchInv, MeantInv, SentInv, ModeInv, AllOrNone, Path, uploadVars, jobs
<1>2. CASE UploadNext
  <2>1. ASSUME NEW S \in SUBSET Jobs, Drops(S) PROVE Inv'
    BY <2>1, DropsStep
  <2>2. ASSUME NEW S \in SUBSET Jobs, Goes(S) PROVE Inv'
    BY <2>2, GoesStep
  <2>3. ASSUME NEW j \in Jobs, Alone(j) PROVE Inv'
    BY <2>3, AloneStep
  <2>4. ASSUME Elsewhere PROVE Inv'
    BY <2>4, ElsewhereStep
  <2>5. QED
    BY <1>2, <2>1, <2>2, <2>3, <2>4 DEF UploadNext, Work, Others, Drops, Goes, Alone, Elsewhere
<1>3. QED
  BY <1>1, <1>2

\* The inductive invariant of the upload queue.
THEOREM Invariance == UploadSpec => []Inv
BY InitInv, NextInv, PTL DEF UploadSpec

-----------------------------------------------------------------------------
\* A drop arrives where the user meant it to, wherever the pane and the shells
\* have gone since, and if one of its files cannot be sent, none is
\* (queueUploads in files_interaction.go).
THEOREM LandsAsAskedTheorem == UploadSpec => []LandsAsAsked
<1>1. Inv => LandsAsAsked
  BY DEF Inv, UploadTypeOK, MeantInv, SentInv, LandsAsAsked, LandsWhereDropped, Path
<1>2. QED
  BY Invariance, <1>1, PTL

\* An upload replaces a file only after the user has answered the question
\* about this very upload, and never a directory (Manager.transfer).
THEOREM NoSilentOverwriteTheorem == UploadSpec => NoSilentOverwrite
<1> DEFINE A == \A p \in Dirs \X FileNames :
          server'[p] # server[p] /\ server[p] # "none" => server[p] # "folder" /\ server'[p] \in agreed
<1>1. ASSUME Inv, [UploadNext]_uploadVars PROVE A \/ UNCHANGED uploadVars
  <2>1. ASSUME NEW j \in Jobs, SendFile(j) PROVE A
    <3>1. ASSUME NEW p \in Dirs \X FileNames, server'[p] # server[p]
          PROVE  p = Path(j) /\ MayOpen(j) /\ server'[p] = j
      BY <1>1, <2>1, <3>1 DEF Inv, ServerInv, SendFile
    <3>2. QED
      BY <1>1, <2>1, <3>1 DEF Inv, ModeInv, MayOpen
  <2>2. ASSUME NEW p \in Dirs \X FileNames, Create(p) PROVE A
    BY <2>2 DEF Inv, ServerInv, Create
  <2>3. CASE UNCHANGED server
    BY <2>3
  <2>4. QED
    BY <1>1, <2>1, <2>2, <2>3
       DEF UploadNext, Work, Others, PickerCloses, ReadDirectory, Resolved, KeepWorld, Check, React,
           DropOnPane, OpenPicker, DropOnTerminal, TakesDrop, AnswerTaken, Browse, ShellCd, CloseUploads
<1>2. QED
  BY Invariance, <1>1, PTL DEF UploadSpec, NoSilentOverwrite

-----------------------------------------------------------------------------
(***************************************************************************)
(* The file pane.                                                          *)
(***************************************************************************)
\* Where the path entry may point, and the rows of a directory.
Place == Seq(Names \cup {"."}) \cup {NoPath}
RowsOf(d) == [from : {d}, name : Names, isDir : BOOLEAN]

\* A listing under way, what waits for the UI thread, and an operation: it keeps
\* the path of a row that was pointed at.
Reading == UNION {[dir : {d}, read : BOOLEAN, files : Seq(RowsOf(d))] : d \in Place}
Listed == UNION {[kind : {"listing"}, dir : {d}, files : Seq(RowsOf(d))] : d \in Place}
Followed == [kind : {"follow"}, session : Sessions, dir : Visited \cup {NoPath}, changed : BOOLEAN]
Refreshed == [kind : {"refresh"}]
Callback == Listed \cup Followed \cup Refreshed
Operation ==
    {o \in [kind : Asking \cup Selecting, path : Place, isDir : BOOLEAN, meant : SUBSET Place, stage : Stages] :
        /\ o.path \in o.meant
        /\ o.stage = "reading" => o.kind = "edit"
        /\ o.stage = "dialog" => o.kind \in Asking}

\* The rows are those of the listed directory, and the selection is one of them
\* that was pointed at.
RowsInv ==
    /\ dir \in Place /\ listed \in Place /\ files \in Seq(RowsOf(listed))
    /\ selected \in 0..Len(files) /\ highlighted \in 0..Len(files)
    /\ selected # 0 => files[selected] \in picked /\ picked \subseteq RowsOf(listed)

\* An answer that waits is about a directory its terminal has been in.
AnswersInv ==
    /\ queue \in Seq(Callback)
    /\ \A i \in DOMAIN queue :
          queue[i].kind = "follow" /\ queue[i].dir # NoPath => queue[i].dir \in been[queue[i].session]

\* A shell has been where it is.
ShellsInv ==
    /\ focus \in Sessions /\ watcher \in Sessions \cup {NoSession}
    /\ cwd \in [Sessions -> Visited] /\ been \in [Sessions -> SUBSET Visited]
    /\ \A s \in Sessions : cwd[s] \in been[s]

BoundsInv ==
    /\ follow \in BOOLEAN /\ closed \in BOOLEAN /\ manual \in BOOLEAN
    /\ tree \in [Paths -> {"none", "file", "dir"}]
    /\ inputs \in 0..MaxInputs /\ cds \in 0..MaxCd /\ failures \in 0..MaxFail

PaneInv ==
    /\ RowsInv /\ listing \in Seq(Reading) /\ AnswersInv /\ ops \in Seq(Operation)
    /\ ShellsInv /\ BoundsInv

-----------------------------------------------------------------------------
\* Facts about sequences: their elements, and what appending, taking the first
\* and removing one leaves.
LEMMA SeqIsFunction ==
    ASSUME NEW S, NEW s \in Seq(S)
    PROVE  /\ Len(s) \in Nat /\ DOMAIN s = 1..Len(s)
           /\ \A i \in DOMAIN s : s[i] \in S
BY LenProperties, ElementOfSeq

LEMMA AppendIsSeq ==
    ASSUME NEW S, NEW s \in Seq(S), NEW x \in S
    PROVE  /\ Append(s, x) \in Seq(S) /\ DOMAIN Append(s, x) = 1..Len(s) + 1
           /\ Append(s, x)[Len(s) + 1] = x
           /\ \A i \in 1..Len(s) : Append(s, x)[i] = s[i]
BY AppendProperties, LenProperties

LEMMA TailIsSeq ==
    ASSUME NEW S, NEW s \in Seq(S), s # <<>>
    PROVE  /\ 1 \in DOMAIN s /\ Head(s) = s[1] /\ Head(s) \in S /\ Tail(s) \in Seq(S)
           /\ \A i \in DOMAIN Tail(s) : i + 1 \in DOMAIN s /\ Tail(s)[i] = s[i + 1]
<1>1. Len(s) \in Nat \ {0} /\ DOMAIN s = 1..Len(s)
  BY EmptySeq, LenProperties
<1>2. Head(s) \in S /\ Tail(s) \in Seq(S) /\ Len(Tail(s)) = Len(s) - 1
  BY HeadTailProperties
<1>3. DOMAIN Tail(s) = 1..Len(s) - 1
  BY <1>2, LenProperties
<1>4. \A i \in 1..Len(s) - 1 : Tail(s)[i] = s[i + 1]
  BY HeadTailProperties
<1>5. Head(s) = s[1]
  OBVIOUS
<1> QED
  BY <1>1, <1>2, <1>3, <1>4, <1>5

LEMMA RemoveAtIsSeq ==
    ASSUME NEW S, NEW s \in Seq(S), NEW i \in DOMAIN s
    PROVE  RemoveAt(s, i) \in Seq(S)
<1>1. Len(s) \in Nat /\ DOMAIN s = 1..Len(s) /\ \A k \in 1..Len(s) : s[k] \in S
  BY SeqIsFunction
<1>2. SubSeq(s, 1, i - 1) \in Seq(S)
  BY <1>1, SubSeqProperties
<1>3. SubSeq(s, i + 1, Len(s)) \in Seq(S)
  BY <1>1, SubSeqProperties
<1> QED
  BY <1>2, <1>3, ConcatProperties DEF RemoveAt

\* What is typed, visited, joined or gone up to is a place.
LEMMA WiderSeq ==
    Paths \subseteq Place /\ Typed \subseteq Place /\ Visited \subseteq Place /\ NoPath \in Place
<1>1. Seq(Names) \subseteq Seq(Names \cup {"."})
  BY SeqMonotonic
<1> QED
  BY <1>1, BrowserAssumption DEF Place

LEMMA JoinIsPlace ==
    ASSUME NEW d \in Place, NEW n \in Names
    PROVE  Join(d, n) \in Place
<1>1. CASE d = NoPath
  BY <1>1 DEF Join, Place
<1>2. CASE d # NoPath
  <2>1. d \in Seq(Names \cup {"."})
    BY <1>2 DEF Place
  <2>2. Append(d, n) \in Seq(Names \cup {"."})
    BY <2>1, AppendProperties
  <2> QED
    BY <1>2, <2>2 DEF Join, Place
<1> QED
  BY <1>1, <1>2

LEMMA ParentIsPlace ==
    ASSUME NEW d \in Place
    PROVE  ParentOf(d) \in Place
<1>1. <<".">> \in Place
  BY DEF Place
<1>2. CASE d \notin {NoPath, <<".">>} /\ d # <<>>
  <2>1. d \in Seq(Names \cup {"."})
    BY <1>2 DEF Place
  <2>2. Len(d) \in Nat /\ \A k \in 1..Len(d) : d[k] \in Names \cup {"."}
    BY <2>1, SeqIsFunction
  <2>3. SubSeq(d, 1, Len(d) - 1) \in Seq(Names \cup {"."})
    BY <2>2, SubSeqProperties
  <2> QED
    BY <1>2, <2>3 DEF ParentOf, Place, Front
<1> QED
  BY <1>1, <1>2 DEF ParentOf

\* A finite set has an enumeration, so a directory of the server has rows.
LEMMA SetToSeqIsSeq ==
    ASSUME NEW S, IsFiniteSet(S)
    PROVE  SetToSeq(S) \in Seq(S)
<1> DEFINE n == Cardinality(S)
<1>1. n \in Nat /\ ExistsBijection(1..n, S)
  BY FS_CardinalityType
<1>2. PICK f : f \in Bijection(1..n, S)
  BY <1>1 DEF ExistsBijection
<1>3. f \in [1..n -> S] /\ IsInjective(f)
  BY <1>2 DEF Bijection, Injection
<1>4. SetToSeq(S) \in [1..n -> S]
  BY <1>3 DEF SetToSeq
<1> QED
  BY <1>1, <1>4

LEMMA EntriesAreRows ==
    ASSUME NEW d \in Place
    PROVE  Entries(d) \in Seq(RowsOf(d))
<1> DEFINE Present == {m \in Names : Kind(Join(d, m)) # "none"}
           row(n) == [from |-> d, name |-> n, isDir |-> Kind(Join(d, n)) = "dir"]
           R == {row(n) : n \in Present}
           f == [n \in Present |-> row(n)]
<1>1. IsFiniteSet(Present)
  BY BrowserAssumption, FS_Subset
<1>2. f \in Surjection(Present, R)
  BY DEF Surjection
<1>3. IsFiniteSet(R)
  BY <1>1, <1>2, FS_Surjection
<1>4. SetToSeq(R) \in Seq(R)
  BY <1>3, SetToSeqIsSeq
<1>5. R \subseteq RowsOf(d)
  <2>1. ASSUME NEW n \in Present PROVE row(n) \in RowsOf(d)
    <3>1. (Kind(Join(d, n)) = "dir") \in BOOLEAN
      OBVIOUS
    <3>2. ASSUME NEW b \in BOOLEAN
          PROVE  [from |-> d, name |-> n, isDir |-> b] \in RowsOf(d)
      BY DEF RowsOf
    <3> QED
      BY ONLY <3>1, <3>2, Zenon
  <2> QED
    BY <2>1
<1>6. SetToSeq(R) \in Seq(RowsOf(d))
  BY <1>4, <1>5, SeqMonotonic
<1> QED
  BY <1>6 DEF Entries

-----------------------------------------------------------------------------
\* The invariant holds at first, and every step keeps it.
LEMMA PaneInitInv ==
    Init => PaneInv
<1> SUFFICES ASSUME Init PROVE PaneInv
  OBVIOUS
<1> USE BrowserAssumption DEF Init
<1>1. RowsInv
  BY WiderSeq, EmptySeq DEF RowsInv
<1>2. listing \in Seq(Reading) /\ ops \in Seq(Operation) /\ AnswersInv
  BY EmptySeq DEF AnswersInv
<1>3. ShellsInv
  BY DEF ShellsInv
<1>4. BoundsInv
  <2>1. follow \in BOOLEAN /\ closed \in BOOLEAN /\ manual \in BOOLEAN
    OBVIOUS
  <2>2. tree \in [Paths -> {"none", "file", "dir"}]
    OBVIOUS
  <2>3. inputs \in 0..MaxInputs /\ cds \in 0..MaxCd /\ failures \in 0..MaxFail
    OBVIOUS
  <2> QED
    BY <2>1, <2>2, <2>3, Zenon DEF BoundsInv
<1> QED
  BY <1>1, <1>2, <1>3, <1>4 DEF PaneInv

\* refreshFiles asks for the rows of the directory and drops those of another.
LEMMA RefreshKeeps ==
    ASSUME RowsInv, listing \in Seq(Reading), NEW d \in Place,
           RefreshFiles(d), dir' = d, picked' = picked
    PROVE  RowsInv' /\ listing' \in Seq(Reading)
<1>1. CASE d = NoPath
  BY <1>1 DEF RefreshFiles, RowsInv
<1>2. CASE d # NoPath
  <2>1. listing' = Append(listing, [dir |-> d, read |-> FALSE, files |-> <<>>]) /\ listed' = listed
    BY <1>2 DEF RefreshFiles
  <2>2. [dir |-> d, read |-> FALSE, files |-> <<>>] \in [dir : {d}, read : BOOLEAN, files : Seq(RowsOf(d))]
    BY EmptySeq
  <2>3. [dir |-> d, read |-> FALSE, files |-> <<>>] \in Reading
    BY <2>2 DEF Reading
  <2>4. listing' \in Seq(Reading)
    BY <2>1, <2>3, AppendProperties
  <2>5. files' = (IF listed # d THEN <<>> ELSE files) /\ selected' = (IF listed # d THEN 0 ELSE selected)
        /\ highlighted' = (IF listed # d THEN 0 ELSE highlighted)
    BY <1>2 DEF RefreshFiles
  <2>6. <<>> \in Seq(RowsOf(listed)) /\ Len(<<>>) = 0
    BY EmptySeq
  <2>7. RowsInv'
    BY <2>1, <2>5, <2>6 DEF RowsInv
  <2> QED
    BY <2>4, <2>7
<1> QED
  BY <1>1, <1>2

LEMMA ReadingShape ==
    ASSUME NEW r \in Reading
    PROVE  r.dir \in Place /\ r.read \in BOOLEAN /\ r.files \in Seq(RowsOf(r.dir))
BY DEF Reading

LEMMA ListKeeps ==
    ASSUME PaneInv, ListStep
    PROVE  PaneInv'
<1> PICK i \in DOMAIN listing : ListRead(i) \/ ListFails(i) \/ ListPost(i)
  BY DEF ListStep
<1>0. listing \in Seq(Reading) /\ listing[i] \in Reading /\ i \in 1..Len(listing)
  BY SeqIsFunction DEF PaneInv
<1>1. CASE ListRead(i)
  <2> DEFINE r == listing[i]
             new == [[r EXCEPT !.read = TRUE] EXCEPT !.files = Entries(r.dir)]
             Q == Seq(RowsOf(r.dir))
  <2>1. r.dir \in Place /\ Entries(r.dir) \in Q
    BY <1>0, ReadingShape, EntriesAreRows
  <2>2. new \in Reading
    <3>1. r \in [dir : {r.dir}, read : BOOLEAN, files : Q]
      BY <1>0 DEF Reading
    <3>2. new \in [dir : {r.dir}, read : BOOLEAN, files : Q]
      BY <2>1, <3>1
    <3> QED
      BY <2>1, <3>2 DEF Reading
  <2>3. listing' \in Seq(Reading)
    <3>1. listing' = [listing EXCEPT ![i] = new]
      BY <1>1, <1>0, SeqIsFunction DEF ListRead
    <3> QED
      BY <1>0, <2>2, <3>1, ExceptSeq
  <2>4. UNCHANGED <<pane, ops, queue, watcher, previous, world, counters, history>>
    BY <1>1 DEF ListRead
  <2> QED
    BY <2>3, <2>4 DEF PaneInv, RowsInv, AnswersInv, ShellsInv, BoundsInv, pane, world, counters, history
<1>2. CASE ListFails(i)
  <2>1. listing' \in Seq(Reading)
    BY <1>0, <1>2, RemoveAtIsSeq DEF ListFails
  <2>2. failures' \in 0..MaxFail
    BY <1>2, BrowserAssumption DEF ListFails, PaneInv, BoundsInv
  <2>3. UNCHANGED <<pane, ops, queue, watcher, previous, world, inputs, cds, picked, asked, manual, been>>
    BY <1>2 DEF ListFails
  <2> QED
    BY <2>1, <2>2, <2>3 DEF PaneInv, RowsInv, AnswersInv, ShellsInv, BoundsInv, pane, world
<1>3. CASE ListPost(i)
  <2> DEFINE r == listing[i]
             new == [kind |-> "listing", dir |-> r.dir, files |-> r.files]
  <2>1. listing' \in Seq(Reading)
    BY <1>0, <1>3, RemoveAtIsSeq DEF ListPost
  <2>2. new \in [kind : {"listing"}, dir : {r.dir}, files : Seq(RowsOf(r.dir))]
    BY <1>0, ReadingShape
  <2>3. new \in Callback
    BY <1>0, <2>2, ReadingShape DEF Callback, Listed
  <2>4. queue' = Append(queue, new)
    BY <1>3 DEF ListPost
  <2>5. UNCHANGED <<pane, ops, watcher, previous, world, counters, history>>
    BY <1>3 DEF ListPost
  <2>6. queue' \in Seq(Callback) /\ DOMAIN queue' = 1..Len(queue) + 1 /\ queue'[Len(queue) + 1] = new
        /\ \A k \in 1..Len(queue) : queue'[k] = queue[k]
    BY <2>3, <2>4, AppendIsSeq DEF PaneInv, AnswersInv
  <2>7. AnswersInv'
    BY <2>5, <2>6, SeqIsFunction DEF PaneInv, AnswersInv, history
  <2> QED
    BY <2>1, <2>5, <2>7 DEF PaneInv, RowsInv, ShellsInv, BoundsInv, pane, world, counters, history
<1> QED
  BY <1>1, <1>2, <1>3

LEMMA WatchKeeps ==
    ASSUME PaneInv, WatchStep
    PROVE  PaneInv'
<1>1. CASE WatchLoad
  BY <1>1 DEF WatchLoad, PaneInv, RowsInv, AnswersInv, ShellsInv, BoundsInv, pane, world, counters, history
<1>2. ASSUME NEW d \in Visited \cup {NoPath}, WatchRead(d), d # NoPath => d \in been[watcher],
             failures' \in 0..MaxFail
      PROVE  PaneInv'
  <2> DEFINE changed == <<watcher, d>> # previous
             new == [kind |-> "follow", session |-> watcher, dir |-> d, changed |-> changed]
  <2>1. watcher \in Sessions
    BY <1>2 DEF WatchRead, PaneInv, ShellsInv
  <2>2. changed \in BOOLEAN
    OBVIOUS
  <2> HIDE DEF changed
  <2>3. new \in Followed
    BY <1>2, <2>1, <2>2 DEF Followed
  <2>4. new \in Callback
    BY <2>3, Zenon DEF Callback
  <2>5. queue' = Append(queue, new)
    BY <1>2 DEF WatchRead, changed
  <2>6. queue' \in Seq(Callback) /\ DOMAIN queue' = 1..Len(queue) + 1 /\ queue'[Len(queue) + 1] = new
        /\ \A k \in 1..Len(queue) : queue'[k] = queue[k]
    BY <2>4, <2>5, AppendIsSeq DEF PaneInv, AnswersInv
  <2>7. UNCHANGED <<pane, listing, ops, world, inputs, cds, history>> /\ watcher' = NoSession
    BY <1>2 DEF WatchRead
  <2>8. AnswersInv'
    <3>1. new.session = watcher /\ new.dir = d
      OBVIOUS
    <3>2. DOMAIN queue = 1..Len(queue) /\ Len(queue) \in Nat
      BY SeqIsFunction DEF PaneInv, AnswersInv
    <3>3. been' = been
      BY <2>7 DEF history
    <3> HIDE DEF new
    <3> QED
      BY <1>2, <2>6, <3>1, <3>2, <3>3 DEF PaneInv, AnswersInv
  <2> QED
    BY <1>2, <2>7, <2>8 DEF PaneInv, RowsInv, ShellsInv, BoundsInv, pane, world, history
<1>3. CASE WatchAnswers
  <2>1. watcher \in Sessions
    BY <1>3 DEF WatchAnswers, WatchRead, PaneInv, ShellsInv
  <2>2. cwd[watcher] \in Visited /\ cwd[watcher] \in been[watcher]
    BY <2>1 DEF PaneInv, ShellsInv
  <2> QED
    BY <1>2, <1>3, <2>2 DEF WatchAnswers, PaneInv, BoundsInv
<1>4. CASE WatchFails
  <2>1. failures' \in 0..MaxFail
    BY <1>4, BrowserAssumption DEF WatchFails, PaneInv, BoundsInv
  <2> QED
    BY <1>2, <1>4, <2>1 DEF WatchFails
<1> QED
  BY <1>1, <1>3, <1>4 DEF WatchStep

LEMMA QueueKeeps ==
    ASSUME PaneInv, RunQueue
    PROVE  PaneInv'
<1> DEFINE c == Head(queue)
<1>1. queue \in Seq(Callback) /\ queue # <<>> /\ queue' = Tail(queue)
  BY DEF PaneInv, AnswersInv, RunQueue
<1>2. c \in Callback /\ 1 \in DOMAIN queue /\ c = queue[1] /\ queue' \in Seq(Callback)
      /\ \A i \in DOMAIN queue' : i + 1 \in DOMAIN queue /\ queue'[i] = queue[i + 1]
  BY <1>1, TailIsSeq
<1>3. UNCHANGED <<ops, watcher, previous, world, counters, picked, failed, been>>
  BY DEF RunQueue
<1>4. AnswersInv'
  BY <1>2, <1>3 DEF PaneInv, AnswersInv
<1>5. ShellsInv' /\ ops' \in Seq(Operation)
  BY <1>3 DEF PaneInv, ShellsInv, world
<1>6. tree' = tree /\ closed' = closed /\ inputs' = inputs /\ cds' = cds /\ failures' = failures
  BY <1>3 DEF world, counters
<1>7. CASE c.kind = "listing" /\ ShowListing(c)
  <2>1. c.dir \in Place /\ c.files \in Seq(RowsOf(c.dir))
    BY <1>2, <1>7 DEF Callback, Listed, Followed, Refreshed
  <2>2. Len(c.files) \in Nat
    BY <2>1, LenProperties
  <2> HIDE DEF c
  <2>3. RowsInv'
    BY <1>3, <1>7, <2>1, <2>2 DEF ShowListing, PaneInv, RowsInv
  <2>4. BoundsInv' /\ listing' \in Seq(Reading)
    BY <1>6, <1>7 DEF ShowListing, PaneInv, BoundsInv
  <2> QED
    BY <1>4, <1>5, <2>3, <2>4 DEF PaneInv
<1>8. CASE c.kind = "follow" /\ FollowTerminal(c)
  <2>1. c.dir \in Place
    BY <1>2, <1>8, WiderSeq DEF Callback, Listed, Followed, Refreshed
  <2> HIDE DEF c
  <2>2. CASE Concerns(c) /\ Moves(c)
    <3>1. dir' = c.dir /\ manual' = FALSE /\ RefreshFiles(c.dir) /\ follow' = follow
      BY <1>8, <2>2 DEF FollowTerminal
    <3>2. RowsInv' /\ listing' \in Seq(Reading)
      BY <1>3, <2>1, <3>1, RefreshKeeps DEF PaneInv
    <3>3. BoundsInv'
      BY <1>6, <3>1 DEF PaneInv, BoundsInv
    <3> QED
      BY <1>4, <1>5, <3>2, <3>3 DEF PaneInv
  <2>3. CASE ~(Concerns(c) /\ Moves(c))
    <3>1. UNCHANGED <<pane, listing, asked, manual>>
      BY <1>8, <2>3 DEF FollowTerminal
    <3>2. RowsInv' /\ listing' \in Seq(Reading) /\ BoundsInv'
      BY <1>3, <1>6, <3>1 DEF PaneInv, RowsInv, BoundsInv, pane
    <3> QED
      BY <1>4, <1>5, <3>2 DEF PaneInv
  <2> QED
    BY <2>2, <2>3
<1>9. CASE c.kind = "refresh" /\ RefreshFiles(dir) /\ UNCHANGED <<dir, follow, manual>>
  <2>1. RowsInv' /\ listing' \in Seq(Reading)
    BY <1>3, <1>9, RefreshKeeps DEF PaneInv, RowsInv
  <2>2. BoundsInv'
    BY <1>6, <1>9 DEF PaneInv, BoundsInv
  <2> QED
    BY <1>4, <1>5, <2>1, <2>2 DEF PaneInv
<1> QED
  BY <1>7, <1>8, <1>9 DEF RunQueue

\* The pane goes to a place, and an input is spent.
LEMMA GoToKeeps ==
    ASSUME PaneInv, NEW p \in Place, GoTo(p), inputs' \in 0..MaxInputs
    PROVE  PaneInv'
<1>1. UNCHANGED <<follow, ops, queue, watcher, previous, world, cds, failures, picked, failed, been>>
  BY DEF GoTo
<1>2. RowsInv' /\ listing' \in Seq(Reading)
  BY <1>1, RefreshKeeps DEF GoTo, PaneInv
<1>3. BoundsInv'
  <2>1. manual' \in BOOLEAN
    BY DEF GoTo
  <2> QED
    BY <1>1, <2>1 DEF PaneInv, BoundsInv, world
<1> QED
  BY <1>1, <1>2, <1>3 DEF PaneInv, AnswersInv, ShellsInv, world

\* What selection returns is a row that was pointed at, so the path of an
\* operation is one that was meant.
LEMMA SelectedIsPicked ==
    ASSUME PaneInv, Selected
    PROVE  /\ files[selected] \in RowsOf(listed)
           /\ SelectedPath \in Place /\ SelectedPath \in Meant /\ Meant \subseteq Place
<1>1. dir \in Place /\ listed = dir /\ files \in Seq(RowsOf(listed)) /\ selected \in 1..Len(files)
      /\ (selected # 0 => files[selected] \in picked /\ picked \subseteq RowsOf(listed))
  BY DEF PaneInv, RowsInv, Selected
<1>2. files[selected] \in RowsOf(listed) /\ selected # 0
  BY <1>1, ElementOfSeq, LenProperties
<1>3. files[selected].name \in Names /\ files[selected].from = dir
  BY <1>1, <1>2 DEF RowsOf
<1>4. SelectedPath \in Place
  BY <1>1, <1>3, JoinIsPlace DEF SelectedPath
<1>5. ASSUME NEW e \in picked PROVE Join(e.from, e.name) \in Place
  <2>1. e.from = dir /\ e.name \in Names
    BY <1>1, <1>2 DEF RowsOf
  <2> QED
    BY <1>1, <2>1, JoinIsPlace
<1>6. SelectedPath \in Meant
  BY <1>1, <1>2, <1>3 DEF SelectedPath, Meant
<1> QED
  BY <1>2, <1>4, <1>5, <1>6 DEF Meant

\* An operation begins.
LEMMA BeginsWell ==
    ASSUME PaneInv, NEW kind \in Asking \cup Selecting, NEW path \in Place, NEW isDir \in BOOLEAN,
           NEW those \in SUBSET Place, path \in those, Begin(kind, path, isDir, those)
    PROVE  ops' \in Seq(Operation)
<1> DEFINE point == IF kind = "edit" THEN "reading" ELSE IF kind \in Asking THEN "dialog" ELSE "confirmed"
           new == [kind |-> kind, path |-> path, isDir |-> isDir, meant |-> those, stage |-> point]
<1>1. new \in Operation
  BY DEF Operation, Stages
<1>2. ops' = Append(ops, new)
  BY DEF Begin
<1> QED
  BY <1>1, <1>2, AppendProperties DEF PaneInv

LEMMA BeginKeeps ==
    ASSUME PaneInv,
           \/ \E k \in Selecting \cap Operations : BeginSelected(k)
           \/ \E n \in Names : BeginMkdir(n)
    PROVE  PaneInv'
<1>0. ASSUME ops' \in Seq(Operation),
             UNCHANGED <<pane, listing, queue, watcher, previous, world, counters, history>>
      PROVE  PaneInv'
  BY <1>0 DEF PaneInv, RowsInv, AnswersInv, ShellsInv, BoundsInv, pane, world, counters, history
<1>1. ASSUME NEW k \in Selecting, BeginSelected(k) PROVE PaneInv'
  <2>1. Selected /\ Begin(k, SelectedPath, files[selected].isDir, Meant)
    BY <1>1 DEF BeginSelected
  <2>2. SelectedPath \in Meant /\ SelectedPath \in Place /\ Meant \in SUBSET Place
        /\ files[selected] \in RowsOf(listed)
    BY <2>1, SelectedIsPicked
  <2>3. files[selected].isDir \in BOOLEAN
    BY <2>2 DEF RowsOf
  <2>4. ops' \in Seq(Operation)
    BY <2>1, <2>2, <2>3, BeginsWell
  <2> QED
    BY <1>0, <1>1, <2>4 DEF BeginSelected
<1>2. ASSUME NEW n \in Names, BeginMkdir(n) PROVE PaneInv'
  <2>1. Begin("mkdir", Join(dir, n), TRUE, {Join(dir, n)})
    BY <1>2 DEF BeginMkdir
  <2>2. Join(dir, n) \in Place
    BY JoinIsPlace DEF PaneInv, RowsInv
  <2>3. "mkdir" \in Asking \cup Selecting
    BY DEF Asking
  <2>4. ops' \in Seq(Operation)
    BY <2>1, <2>2, <2>3, BeginsWell
  <2> QED
    BY <1>0, <1>2, <2>4 DEF BeginMkdir
<1> QED
  BY <1>1, <1>2

LEMMA InputKeeps ==
    ASSUME PaneInv, Input
    PROVE  inputs' \in 0..MaxInputs
BY BrowserAssumption DEF PaneInv, BoundsInv, Input

\* A row is pointed at: by a tap, for its menu, or to be opened.
LEMMA PointKeeps ==
    ASSUME PaneInv, NEW i \in DOMAIN files, Tap(i) \/ RowMenu(i) \/ OpenRow(i)
    PROVE  PaneInv'
<1>0. /\ files \in Seq(RowsOf(listed)) /\ dir \in Place /\ selected \in 0..Len(files)
      /\ highlighted \in 0..Len(files)
      /\ (selected # 0 => files[selected] \in picked /\ picked \subseteq RowsOf(listed))
  BY DEF PaneInv, RowsInv
<1>1. i \in 1..Len(files) /\ files[i] \in RowsOf(listed) /\ Len(files) \in Nat
  BY <1>0, SeqIsFunction
<1>2. inputs' \in 0..MaxInputs
  BY InputKeeps DEF Tap, RowMenu, OpenRow
<1>3. ASSUME ops' \in Seq(Operation), highlighted' \in 0..Len(files),
             \/ PointsAt(i)
             \/ picked' = picked \cup {files[i]} /\ selected' = selected,
             UNCHANGED <<dir, follow, listed, files, listing, queue, watcher, previous, world,
                         cds, failures, asked, manual, failed, been>>
      PROVE  PaneInv'
  <2>1. selected' \in 0..Len(files)
        /\ (selected' # 0 => files[selected'] \in picked' /\ picked' \subseteq RowsOf(listed))
    <3>1. CASE PointsAt(i)
      BY <1>1, <3>1 DEF PointsAt
    <3>2. CASE picked' = picked \cup {files[i]} /\ selected' = selected
      BY <1>0, <1>1, <3>2
    <3> QED
      BY <1>3, <3>1, <3>2
  <2>2. RowsInv'
    <3>1. dir' = dir /\ listed' = listed /\ files' = files
      BY <1>3
    <3>2. selected' # 0 => files'[selected'] \in picked' /\ picked' \subseteq RowsOf(listed')
      BY <2>1, <3>1
    <3>3. selected' \in 0..Len(files') /\ highlighted' \in 0..Len(files')
      BY <1>3, <2>1, <3>1
    <3>4. dir' \in Place /\ listed' \in Place /\ files' \in Seq(RowsOf(listed'))
      BY <1>0, <3>1 DEF PaneInv, RowsInv
    <3> QED
      BY <3>2, <3>3, <3>4, Zenon DEF RowsInv
  <2>3. AnswersInv' /\ ShellsInv' /\ BoundsInv' /\ listing' \in Seq(Reading)
    BY <1>2, <1>3 DEF PaneInv, AnswersInv, ShellsInv, BoundsInv, world
  <2> QED
    BY <1>3, <2>2, <2>3 DEF PaneInv
<1>4. ops \in Seq(Operation)
  BY DEF PaneInv
<1>5. CASE Tap(i)
  BY <1>1, <1>3, <1>4, <1>5 DEF Tap
<1>6. CASE RowMenu(i)
  BY <1>0, <1>3, <1>4, <1>6 DEF RowMenu
<1>7. CASE OpenRow(i)
  <2> DEFINE e == files[i]
             p == Join(dir, e.name)
  <2>1. e.name \in Names /\ e.from = listed
    BY <1>1 DEF RowsOf
  <2>2. p \in Place
    BY <1>0, <2>1, JoinIsPlace
  <2>3. CASE listed = dir /\ GoTo(p)
    BY <1>2, <2>2, <2>3, GoToKeeps
  <2>4. ASSUME PointsAt(i), ops' \in Seq(Operation),
               UNCHANGED <<dir, follow, listed, files, highlighted, listing, queue, watcher, previous, world,
                           cds, failures, asked, manual, failed, been>>
        PROVE  PaneInv'
    BY <1>0, <1>3, <2>4
  <2>5. ASSUME listed = dir, Begin("edit", p, FALSE, {Join(e.from, e.name)})
        PROVE  ops' \in Seq(Operation)
    <3>1. Join(e.from, e.name) = p
      BY <2>1, <2>5
    <3>2. {p} \in SUBSET Place /\ p \in {p} /\ "edit" \in Asking \cup Selecting /\ FALSE \in BOOLEAN
      BY <2>2 DEF Asking
    <3>3. Begin("edit", p, FALSE, {p})
      BY <2>5, <3>1
    <3> HIDE DEF p
    <3> QED
      BY <2>2, <3>2, <3>3, BeginsWell
  <2> QED
    BY <1>4, <1>7, <2>3, <2>4, <2>5 DEF OpenRow
<1> QED
  BY <1>5, <1>6, <1>7

\* An operation goes on, and may ask for a refresh.
LEMMA StageKeeps ==
    ASSUME PaneInv, NEW i \in DOMAIN ops, NEW s \in Stages \ {"reading"}, Stage(i, s),
           s = "dialog" => ops[i].kind \in Asking,
           queue' = queue \/ queue' = Append(queue, [kind |-> "refresh"]),
           tree' \in [Paths -> {"none", "file", "dir"}]
    PROVE  PaneInv'
<1>1. ops \in Seq(Operation) /\ ops[i] \in Operation /\ i \in 1..Len(ops)
  BY SeqIsFunction DEF PaneInv
<1>2. [ops[i] EXCEPT !.stage = s] \in Operation
  BY <1>1 DEF Operation
<1>3. ops' = [ops EXCEPT ![i] = [ops[i] EXCEPT !.stage = s]]
  BY <1>1, SeqIsFunction DEF Stage
<1>4. ops' \in Seq(Operation)
  BY <1>1, <1>2, <1>3, ExceptSeq
<1>5. UNCHANGED <<pane, listing, watcher, previous, counters, history, focus, cwd, closed>>
  BY DEF Stage
<1>6. AnswersInv'
  <2>1. CASE queue' = queue
    BY <2>1, <1>5 DEF PaneInv, AnswersInv, history
  <2>2. CASE queue' = Append(queue, [kind |-> "refresh"])
    <3>1. [kind |-> "refresh"] \in Callback
      BY DEF Callback, Refreshed
    <3>2. queue' \in Seq(Callback) /\ DOMAIN queue' = 1..Len(queue) + 1
          /\ queue'[Len(queue) + 1] = [kind |-> "refresh"]
          /\ \A k \in 1..Len(queue) : queue'[k] = queue[k]
      BY <2>2, <3>1, AppendIsSeq DEF PaneInv, AnswersInv
    <3> QED
      BY <1>5, <3>2, SeqIsFunction DEF PaneInv, AnswersInv, history
  <2> QED
    BY <2>1, <2>2
<1> QED
  BY <1>4, <1>5, <1>6 DEF PaneInv, RowsInv, ShellsInv, BoundsInv, pane, counters, history

\* Whatever an operation does, every path of the server has one entry.
LEMMA EffectIsTree ==
    ASSUME PaneInv, NEW o, Effect(o)
    PROVE  tree' \in [Paths -> {"none", "file", "dir"}]
<1> DEFINE Kinds == {"none", "file", "dir"}
           p == Resolve(o.path)
<1>1. tree \in [Paths -> Kinds]
  BY DEF PaneInv, BoundsInv
<1>2. \A r : Kind(r) \in Kinds
  BY <1>1 DEF Kind
<1>3. ASSUME NEW n \in Names,
             LET q == Join(ParentOf(p), n)
                 Under(r) == p \o SubSeq(r, Len(q) + 1, Len(r)) IN
             tree' = [r \in Paths |-> IF IsPrefix(q, r) THEN Kind(Under(r))
                                      ELSE IF IsPrefix(p, r) THEN "none" ELSE tree[r]]
      PROVE  tree' \in [Paths -> Kinds]
  BY <1>1, <1>2, <1>3
<1> QED
  BY <1>1, <1>3 DEF Effect

LEMMA OpKeeps ==
    ASSUME PaneInv, NEW i \in DOMAIN ops,
           OpenEditor(i) \/ Acquire(i) \/ OpFails(i) \/ Perform(i) \/ Answer(i)
    PROVE  PaneInv'
<1>0. tree \in [Paths -> {"none", "file", "dir"}] /\ ops[i] \in Operation
  BY SeqIsFunction DEF PaneInv, BoundsInv
<1>1. CASE OpenEditor(i)
  <2>1. ops[i].kind \in Asking
    BY <1>0, <1>1 DEF OpenEditor, Operation, Asking
  <2> QED
    BY <1>0, <1>1, <2>1, StageKeeps DEF OpenEditor, Stages
<1>2. CASE Acquire(i)
  BY <1>0, <1>2, StageKeeps DEF Acquire, Stages
<1>3. CASE OpFails(i)
  BY <1>0, <1>3, StageKeeps DEF OpFails, Stages
<1>4. CASE Perform(i)
  <2>1. tree' \in [Paths -> {"none", "file", "dir"}]
    BY <1>4, EffectIsTree DEF Perform
  <2>2. queue' = queue \/ queue' = Append(queue, [kind |-> "refresh"])
    BY <1>4 DEF Perform
  <2> QED
    BY <1>4, <2>1, <2>2, StageKeeps DEF Perform, Stages
<1>5. CASE Answer(i)
  BY <1>0, <1>5, StageKeeps DEF Answer, Stages
<1> QED
  BY <1>1, <1>2, <1>3, <1>4, <1>5

LEMMA UserKeeps ==
    ASSUME PaneInv, User
    PROVE  PaneInv'
<1> USE DEF PaneInv
<1>1. ASSUME NEW p \in Typed, TypePath(p) PROVE PaneInv'
  <2>1. p \in Place /\ inputs' \in 0..MaxInputs
    BY <1>1, WiderSeq, InputKeeps DEF TypePath
  <2>2. dir' = p /\ manual' = TRUE
        /\ UNCHANGED <<follow, listed, files, selected, highlighted, listing, ops, queue, watcher, previous, world,
                       cds, failures, picked, failed, been>>
    BY <1>1 DEF TypePath
  <2>3. RowsInv' /\ AnswersInv' /\ ShellsInv'
    BY <2>1, <2>2 DEF RowsInv, AnswersInv, ShellsInv, world
  <2>4. BoundsInv'
    BY <2>1, <2>2 DEF BoundsInv, world
  <2> QED
    BY <2>2, <2>3, <2>4
<1>2. CASE Refresh
  <2>1. inputs' \in 0..MaxInputs
    BY <1>2, InputKeeps DEF Refresh
  <2>2. RefreshFiles(dir) /\ UNCHANGED <<dir, follow, ops, queue, watcher, previous, world, cds, failures,
                                         picked, manual, failed, been>>
    BY <1>2 DEF Refresh
  <2>3. RowsInv' /\ listing' \in Seq(Reading)
    BY <2>2, RefreshKeeps DEF RowsInv
  <2> QED
    BY <2>1, <2>2, <2>3 DEF AnswersInv, ShellsInv, BoundsInv, world
<1>3. CASE Back
  <2>1. ParentOf(dir) \in Place
    BY ParentIsPlace DEF RowsInv
  <2> QED
    BY <1>3, <2>1, InputKeeps, GoToKeeps DEF Back
<1>4. CASE Follow
  <2>1. inputs' \in 0..MaxInputs
    BY <1>4, InputKeeps DEF Follow
  <2>2. UNCHANGED <<listed, files, selected, highlighted, listing, ops, queue, watcher, previous, world,
                    cds, failures, picked, failed, been>>
    BY <1>4 DEF Follow
  <2>3. dir' \in Place
    BY <1>4, WiderSeq DEF Follow, RowsInv
  <2>4. follow' \in BOOLEAN
    BY <1>4, Zenon DEF Follow
  <2>5. manual' \in BOOLEAN
    BY <1>4 DEF Follow, BoundsInv
  <2>6. RowsInv' /\ AnswersInv' /\ ShellsInv'
    BY <2>2, <2>3 DEF RowsInv, AnswersInv, ShellsInv, world
  <2>7. BoundsInv'
    BY <2>1, <2>2, <2>4, <2>5 DEF BoundsInv, world
  <2> QED
    BY <2>2, <2>6, <2>7
<1>5. CASE OpenDirectory
  <2>1. SelectedPath \in Place
    BY <1>5, SelectedIsPicked DEF OpenDirectory
  <2> QED
    BY <1>5, <2>1, InputKeeps, GoToKeeps DEF OpenDirectory
<1>6. ASSUME NEW i \in DOMAIN files, Tap(i) \/ RowMenu(i) \/ OpenRow(i) PROVE PaneInv'
  BY <1>6, PointKeeps
<1>7. ASSUME NEW s \in Sessions, Focus(s) PROVE PaneInv'
  <2>1. inputs' \in 0..MaxInputs
    BY <1>7, InputKeeps DEF Focus
  <2>2. focus' = s
        /\ UNCHANGED <<pane, listing, ops, queue, watcher, previous, cwd, tree, closed, cds, failures, history>>
    BY <1>7 DEF Focus
  <2> QED
    BY <2>1, <2>2 DEF RowsInv, AnswersInv, ShellsInv, BoundsInv, pane, history
<1>8. ASSUME NEW s \in Sessions, NEW d \in Visited, Cd(s, d) PROVE PaneInv'
  <2>1. cds' \in 0..MaxCd
    BY <1>8, BrowserAssumption DEF Cd, BoundsInv
  <2>2. cwd' = [cwd EXCEPT ![s] = d] /\ been' = [been EXCEPT ![s] = @ \cup {d}]
        /\ UNCHANGED <<pane, listing, ops, queue, watcher, previous, focus, tree, closed, inputs, failures,
                       picked, asked, manual, failed>>
    BY <1>8 DEF Cd
  <2>3. ShellsInv' /\ \A t \in Sessions : been[t] \subseteq been'[t]
    BY <2>2 DEF ShellsInv
  <2>4. AnswersInv'
    <3>1. ASSUME NEW i \in DOMAIN queue, queue[i].kind = "follow", queue[i].dir # NoPath
          PROVE  queue[i].dir \in been'[queue[i].session]
      <4>1. queue[i] \in Callback
        BY SeqIsFunction DEF AnswersInv
      <4>2. queue[i].session \in Sessions
        BY <3>1, <4>1 DEF Callback, Listed, Followed, Refreshed
      <4> QED
        BY <2>3, <3>1, <4>2 DEF AnswersInv
    <3> QED
      BY <2>2, <3>1 DEF AnswersInv
  <2> QED
    BY <2>1, <2>2, <2>3, <2>4 DEF RowsInv, BoundsInv, pane
<1>9. CASE Close
  BY <1>9 DEF Close, RowsInv, AnswersInv, ShellsInv, BoundsInv, pane, counters, history
<1> QED
  BY <1>1, <1>2, <1>3, <1>4, <1>5, <1>6, <1>7, <1>8, <1>9, BeginKeeps, OpKeeps DEF User

LEMMA PaneStepInv ==
    PaneInv /\ [Next]_vars => PaneInv'
<1>1. CASE UNCHANGED vars
  BY <1>1 DEF vars, PaneInv, RowsInv, AnswersInv, ShellsInv, BoundsInv, pane, world, counters, history
<1>2. ASSUME PaneInv, OpStep PROVE PaneInv'
  BY <1>2, OpKeeps DEF OpStep
<1> QED
  BY <1>1, <1>2, UserKeeps, ListKeeps, WatchKeeps, QueueKeeps DEF Next

\* The inductive invariant of the pane.
THEOREM PaneInvariance == Spec => []PaneInv
  BY PaneInitInv, PaneStepInv, PTL DEF Spec

LEMMA PaneInvIsSound ==
    PaneInv => PaneIsSound
<1> SUFFICES ASSUME PaneInv PROVE PaneIsSound
  OBVIOUS
<1>1. /\ files \in Seq(RowsOf(listed)) /\ selected \in 0..Len(files) /\ highlighted \in 0..Len(files)
      /\ ops \in Seq(Operation) /\ queue \in Seq(Callback)
  BY DEF PaneInv, RowsInv, AnswersInv
<1>2. \A i \in DOMAIN files : files[i].from = listed
  <2>1. ASSUME NEW i \in DOMAIN files PROVE files[i].from = listed
    <3>1. files[i] \in RowsOf(listed)
      BY <1>1, SeqIsFunction
    <3> QED
      BY <3>1 DEF RowsOf
  <2> QED
    BY <2>1
<1>3. ASSUME NEW i \in DOMAIN ops
      PROVE  /\ ops[i].kind \in Asking \cup Selecting /\ ops[i].stage \in Stages
             /\ ops[i].stage = "dialog" => ops[i].kind \in Asking
             /\ ops[i].path \in ops[i].meant
  <2>1. ops[i] \in Operation
    BY <1>1, SeqIsFunction
  <2> QED
    BY <2>1 DEF Operation
<1>4. ASSUME NEW i \in DOMAIN queue, queue[i].kind = "listing", NEW k \in DOMAIN queue[i].files
      PROVE  queue[i].files[k].from = queue[i].dir
  <2>1. queue[i] \in Callback
    BY <1>1, SeqIsFunction
  <2>2. queue[i].files \in Seq(RowsOf(queue[i].dir))
    BY <1>4, <2>1 DEF Callback, Listed, Followed, Refreshed
  <2>3. queue[i].files[k] \in RowsOf(queue[i].dir)
    BY <2>2, SeqIsFunction
  <2> QED
    BY <2>3 DEF RowsOf
<1>5. TypeOK
  BY <1>1, <1>2, <1>3, <1>4 DEF TypeOK, PaneInv, ShellsInv, BoundsInv
<1>6. ActsOnPicked
  BY <1>3 DEF ActsOnPicked
<1> QED
  BY <1>5, <1>6 DEF PaneIsSound

\* Whatever is typed, listed or followed in between, an operation on a row is
\* about one the user has pointed at, under the name and in the directory it was
\* listed with (selection in workspace.go); which one, when the row tapped last
\* was highlighted already, ActsOnPicked says.
THEOREM PaneIsSoundTheorem == Spec => []PaneIsSound
  BY PaneInvariance, PaneInvIsSound, PTL

\* The two halves of StaleMovesNothing, for one step.
LEMMA StepKeepsClosed ==
    ASSUME PaneInv, Next, closed
    PROVE  UNCHANGED <<dir, listed>>
<1>1. CASE User
  BY <1>1 DEF User, TypePath, Refresh, Back, Follow, OpenDirectory, Tap, RowMenu, OpenRow, BeginSelected,
              BeginMkdir, Answer, Stage, Focus, Cd, Close, Uncovered, pane
<1>2. CASE ListStep \/ WatchStep \/ OpStep
  BY <1>2 DEF ListStep, ListRead, ListFails, ListPost, WatchStep, WatchLoad, WatchAnswers, WatchFails,
              WatchRead, OpStep, OpenEditor, Acquire, OpFails, Perform, Stage, pane
<1>3. CASE RunQueue
  BY <1>3 DEF RunQueue, ShowListing, Applies, FollowTerminal, Concerns, RefreshFiles, pane
<1> QED
  BY <1>1, <1>2, <1>3 DEF Next

LEMMA StepFollowsFocus ==
    ASSUME PaneInv, Next, dir' # dir, dir' # NoPath, ~manual'
    PROVE  dir' \in been[focus]
<1>1. CASE User
  BY <1>1 DEF User, TypePath, Refresh, Back, Follow, OpenDirectory, GoTo, Tap, RowMenu, OpenRow,
              BeginSelected, BeginMkdir, Answer, Stage, Focus, Cd, Close, pane
<1>2. CASE ListStep \/ WatchStep \/ OpStep
  BY <1>2 DEF ListStep, ListRead, ListFails, ListPost, WatchStep, WatchLoad, WatchAnswers, WatchFails,
              WatchRead, OpStep, OpenEditor, Acquire, OpFails, Perform, Stage, pane
<1>3. CASE RunQueue
  <2> DEFINE c == Head(queue)
  <2>1. queue \in Seq(Callback) /\ queue # <<>> /\ c = queue[1] /\ 1 \in DOMAIN queue
    BY <1>3, TailIsSeq DEF RunQueue, PaneInv, AnswersInv
  <2>2. c.kind = "follow" /\ Concerns(c) /\ Moves(c) /\ dir' = c.dir
    BY <1>3 DEF RunQueue, ShowListing, FollowTerminal, pane
  <2>3. c.dir \in been[c.session] /\ c.session = focus
    BY <2>1, <2>2 DEF PaneInv, AnswersInv, Concerns, Moves
  <2> QED
    BY <2>2, <2>3
<1> QED
  BY <1>1, <1>2, <1>3 DEF Next

\* A callback that comes too late moves nothing: neither after the workspace
\* was closed, nor to a directory of a terminal that has lost the focus
\* (the callbacks of refreshFiles and watchDirectory).
THEOREM StaleMovesNothingTheorem == Spec => StaleMovesNothing
<1>1. PaneInv /\ [Next]_vars => [closed => UNCHANGED <<dir, listed>>]_vars
  BY StepKeepsClosed
<1>2. PaneInv /\ [Next]_vars => [dir' # dir /\ dir' # NoPath /\ ~manual' => dir' \in been[focus]]_vars
  BY StepFollowsFocus
<1> QED
  BY <1>1, <1>2, PaneInvariance, PTL DEF Spec, StaleMovesNothing, ClosedStays, FollowsOnlyFocus

-----------------------------------------------------------------------------
(***************************************************************************)
(* Transfers over ZMODEM.  The frames on their way to the receiver tell a  *)
(* story: which file is offered, which blocks of it follow, where it ends. *)
(* Each frame goes on from where the frames before it have brought the     *)
(* story (its turn), the first one from where the receiver is, and the     *)
(* last one leads to where the sender is.  So what a frame means does not  *)
(* depend on how many frames the two sides are apart, nor on the frames    *)
(* that were damaged or repeated in between.                               *)
(***************************************************************************)
\* The types of the two sides, as ZmodemTypeOK has them.
SenderRecord ==
    [pc : {"start", "ready", "offer", "answer", "data", "ack", "next", "finack"} \cup Ended,
     file : 1..(Files + 1), pos : 0..MaxLen, tries : 0..MaxTries, retries : 0..MaxRetries]
ReceiverRecord ==
    [pc : {"init", "loop", "crc", "over"} \cup Ended, file : 0..Files, name : 0..Files,
     pos : 0..MaxLen, repeats : 0..MaxRepeats]

\* A receiver that still reads frames of files.
Live == {"init", "loop", "crc"}

\* Where the stream of frames has come to: the newest file, and whether its
\* end was announced.
Turn == [file : 0..Files, closed : BOOLEAN]

\* Frame h takes the stream from turn p to turn q.  A frame that is damaged may
\* have been any; nothing behind it reaches a file.
Brings(c, p, h, q) ==
    \/ h.type = "BAD"
    \/ /\ h.type = "ZFILE" /\ h.n \in 1..Files /\ q = [file |-> h.n, closed |-> FALSE]
       /\ p.file = IF p.closed THEN h.n - 1 ELSE h.n
    \/ h.type = "ZEOF" /\ ~p.closed /\ p.file # 0 /\ q = [file |-> p.file, closed |-> TRUE]
    \/ /\ h.type = "ZDATA" /\ ~p.closed /\ p.file # 0 /\ q = p
       /\ h.good => h.n < Len(c[p.file]) /\ h.data = SubSeq(c[p.file], h.n + 1, h.n + 1)
    \/ h.type = "ZCRC" /\ ~p.closed /\ p.file # 0 /\ q = p /\ IsPrefix(h.data, c[p.file])
    \/ h.type = "ZFIN" /\ p = [file |-> Files, closed |-> TRUE] /\ q = p
    \/ h.type \in {"ZRQINIT", "OO", "CAN"} /\ q = p

\* The frames take the stream from p to q.
Stream(c, frames, p, q) ==
    \E turn \in [1..Len(frames) + 1 -> Turn] :
        /\ turn[1] = p /\ turn[Len(frames) + 1] = q
        /\ \A i \in 1..Len(frames) : Brings(c, turn[i], frames[i], turn[i + 1])

\* No file is being received, and the turns of the two sides.
NoneOpen == receiver.pc # "crc" /\ receiver.file = NoFile
ReceiverTurn == [file |-> receiver.name, closed |-> NoneOpen]
SenderTurn ==
    IF sender.pc \in {"start", "ready", "offer", "finack", "done"}
      THEN [file |-> sender.file - 1, closed |-> TRUE]
      ELSE [file |-> sender.file, closed |-> sender.pc = "next"]

\* The frames lead from the turn of the receiver to that of the sender, as
\* long as Send has not failed.
StreamInv ==
    receiver.pc \in Live =>
        \E q \in Turn : Stream(content, down, ReceiverTurn, q) /\ (sender.pc # "error" => q = SenderTurn)

\* An answer is waited for while tries are left, and for a file there is.
SenderInv ==
    /\ sender.pc \in {"answer", "finack"} => sender.tries < MaxTries
    /\ sender.pc \in {"answer", "data", "ack", "next"} => sender.file <= Files
    /\ sender.pc = "ack" => sender.pos < Len(content[sender.file])
    /\ sender.pc \in {"finack", "done"} => sender.file = Files + 1

\* The open file is a beginning of the one that is sent, and blocks are taken
\* from its end on.
OpenInv ==
    /\ receiver.pc = "init" => receiver.file = NoFile
    /\ receiver.pc = "crc" => disk[receiver.name] # None /\ receiver.pos = Len(disk[receiver.name])
    /\ receiver.pc = "loop" /\ receiver.file # NoFile =>
         /\ disk[receiver.file] # None /\ receiver.pos = Len(disk[receiver.file])
         /\ IsPrefix(disk[receiver.file], content[receiver.file])

\* All files but the open one, up to the newest, are complete.
LiveInv ==
    receiver.pc \in Live =>
        /\ receiver.file \in {NoFile, receiver.name} /\ (~NoneOpen => receiver.name # NoFile)
        /\ complete = 1..(IF NoneOpen THEN receiver.name ELSE receiver.name - 1)

\* ZFIN is answered when all files are complete.
OverInv ==
    /\ receiver.pc \in {"over", "done"} \/ sender.pc = "done" => complete = 1..Files
    /\ \A i \in DOMAIN up : up[i].type = "ZFIN" => complete = 1..Files

TransferInv ==
    /\ ZmodemTypeOK /\ repeated <= faults
    /\ StreamInv /\ SenderInv /\ OpenInv /\ LiveInv /\ OverInv /\ ReceivedIsSent /\ OthersAreKept

-----------------------------------------------------------------------------
\* Files, and the beginnings of files.
LEMMA ZmodemNumbers ==
    /\ Files \in Nat \ {0} /\ MaxTries \in Nat \ {0} /\ None \notin FileContent
    /\ MaxLen \in Nat /\ MaxRetries \in Nat /\ MaxRepeats \in Nat /\ MaxFaults \in Nat
BY ZmodemAssumption

LEMMA ContentIsSeq ==
    ASSUME NEW s
    PROVE  s \in FileContent <=> s \in Seq(Blocks) /\ Len(s) \in 0..MaxLen
<1>1. ASSUME s \in FileContent PROVE s \in Seq(Blocks) /\ Len(s) \in 0..MaxLen
  <2>1. PICK n \in 0..MaxLen : s \in [1..n -> Blocks]
    BY <1>1 DEF FileContent
  <2>2. n \in Nat
    BY <2>1, ZmodemNumbers
  <2>3. s \in Seq(Blocks)
    BY <2>1, <2>2
  <2>4. Len(s) = n
    BY <2>1, <2>2, <2>3, LenProperties
  <2> QED
    BY <2>1, <2>3, <2>4
<1>2. ASSUME s \in Seq(Blocks), Len(s) \in 0..MaxLen PROVE s \in FileContent
  <2>1. s \in [1..Len(s) -> Blocks]
    BY <1>2, LenProperties
  <2> QED
    BY <1>2, <2>1 DEF FileContent
<1> QED
  BY <1>1, <1>2

LEMMA PrefixGrows ==
    ASSUME NEW s \in Seq(Blocks), NEW t \in Seq(Blocks), IsPrefix(s, t), Len(s) < Len(t)
    PROVE  LET longer == SubSeq(s, 1, Len(s)) \o SubSeq(t, Len(s) + 1, Len(s) + 1)
           IN  /\ longer \in Seq(Blocks) /\ Len(longer) = Len(s) + 1 /\ IsPrefix(longer, t)
               /\ Len(SubSeq(t, Len(s) + 1, Len(s) + 1)) = 1
<1> DEFINE n == Len(s)
           a == SubSeq(s, 1, n)
           b == SubSeq(t, n + 1, n + 1)
<1>1. n \in Nat /\ Len(t) \in Nat /\ n + 1 <= Len(t)
  BY LenProperties
<1>2. a \in Seq(Blocks) /\ Len(a) = n /\ \A i \in 1..n : a[i] = s[i]
  BY <1>1, SubSeqProperties
<1>3. b \in Seq(Blocks) /\ Len(b) = 1 /\ b[1] = t[n + 1]
  BY <1>1, SubSeqProperties
<1>4. \A i \in 1..n : s[i] = t[i]
  <2>1. SubSeq(s, 1, n) = SubSeq(t, 1, n)
    BY DEF IsPrefix
  <2>2. \A i \in 1..n : SubSeq(t, 1, n)[i] = t[i]
    BY <1>1, SubSeqProperties
  <2> QED
    BY <1>2, <2>1, <2>2
<1> HIDE DEF a, b, n
<1>5. a \o b \in Seq(Blocks) /\ Len(a \o b) = n + 1
      /\ \A i \in 1..n + 1 : (a \o b)[i] = IF i <= n THEN a[i] ELSE b[i - n]
  <2>1. /\ a \o b \in Seq(Blocks) /\ Len(a \o b) = Len(a) + Len(b)
        /\ \A i \in 1..Len(a) + Len(b) : (a \o b)[i] = IF i <= Len(a) THEN a[i] ELSE b[i - Len(a)]
    BY <1>2, <1>3, ConcatProperties
  <2>2. Len(a) = n /\ Len(b) = 1 /\ Len(a) + Len(b) = n + 1
    BY <1>1, <1>2, <1>3
  <2>3. ASSUME NEW i \in 1..n + 1 PROVE (a \o b)[i] = IF i <= n THEN a[i] ELSE b[i - n]
    BY <2>1, <2>2, <2>3
  <2> QED
    BY <2>1, <2>2, <2>3, Zenon
<1>6. \A i \in 1..n + 1 : (a \o b)[i] = t[i]
  <2> SUFFICES ASSUME NEW i \in 1..n + 1 PROVE (a \o b)[i] = t[i]
    OBVIOUS
  <2>1. CASE i <= n
    BY <1>1, <1>2, <1>4, <1>5, <2>1
  <2>2. CASE i = n + 1
    <3>1. i - n = 1 /\ ~(i <= n)
      BY <1>1, <2>2
    <3> QED
      BY <1>3, <1>5, <2>2, <3>1
  <2>3. i <= n \/ i = n + 1
    BY <1>1
  <2> QED
    BY <2>1, <2>2, <2>3
<1>7. SubSeq(a \o b, 1, n + 1) = SubSeq(t, 1, n + 1)
  <2> DEFINE u == SubSeq(a \o b, 1, n + 1)
             v == SubSeq(t, 1, n + 1)
  <2>1. u \in Seq(Blocks) /\ Len(u) = n + 1 /\ \A i \in 1..n + 1 : u[i] = (a \o b)[i]
    BY <1>1, <1>5, SubSeqProperties
  <2>2. v \in Seq(Blocks) /\ Len(v) = n + 1 /\ \A i \in 1..n + 1 : v[i] = t[i]
    BY <1>1, SubSeqProperties
  <2> HIDE DEF u, v
  <2>3. u = v
    BY <1>6, <2>1, <2>2, SeqEqual
  <2> QED
    BY <2>3 DEF u, v
<1> QED
  BY <1>1, <1>3, <1>5, <1>7 DEF IsPrefix, a, b, n

LEMMA WholePrefix ==
    ASSUME NEW s \in Seq(Blocks), NEW t \in Seq(Blocks), IsPrefix(s, t), Len(s) = Len(t)
    PROVE  s = t
<1>1. SubSeq(s, 1, Len(s)) = SubSeq(t, 1, Len(t))
  BY DEF IsPrefix
<1> QED
  BY <1>1, SubSeqFull

LEMMA EmptyPrefix ==
    ASSUME NEW t \in Seq(Blocks)
    PROVE  <<>> \in Seq(Blocks) /\ Len(<<>>) = 0 /\ IsPrefix(<<>>, t)
<1>1. Len(t) \in Nat /\ Len(<<>>) = 0 /\ <<>> \in Seq(Blocks)
  BY LenProperties, EmptySeq
<1>2. SubSeq(t, 1, 0) = <<>> /\ SubSeq(<<>>, 1, 0) = <<>>
  BY <1>1, SubSeqEmpty
<1> QED
  BY <1>1, <1>2 DEF IsPrefix

LEMMA UptoIsPrefix ==
    ASSUME NEW t \in Seq(Blocks), NEW n \in 0..Len(t)
    PROVE  SubSeq(t, 1, n) \in Seq(Blocks) /\ IsPrefix(SubSeq(t, 1, n), t)
<1>1. Len(t) \in Nat
  BY LenProperties
<1>2. SubSeq(t, 1, n) \in Seq(Blocks) /\ Len(SubSeq(t, 1, n)) = n
  BY <1>1, SubSeqProperties
<1>3. SubSeq(SubSeq(t, 1, n), 1, n) = SubSeq(t, 1, n)
  BY <1>2, SubSeqFull
<1> QED
  BY <1>1, <1>2, <1>3 DEF IsPrefix

-----------------------------------------------------------------------------
\* What sending, receiving, damaging and repeating a frame does to the stream.
LEMMA StreamEmpty == ASSUME NEW c, NEW p \in Turn PROVE Stream(c, <<>>, p, p)
<1>1. Len(<<>>) = 0
  BY EmptySeq
<1> DEFINE turn == [i \in 1..1 |-> p]
<1>2. turn \in [1..1 -> Turn] /\ turn[1] = p
  OBVIOUS
<1> HIDE DEF turn
<1>3. Len(<<>>) + 1 = 1 /\ 1..Len(<<>>) = {}
  BY <1>1
<1> QED
  BY <1>2, <1>3 DEF Stream

LEMMA StreamAppends ==
    ASSUME NEW c, NEW s \in Seq(Frames), NEW h \in Frames, NEW p \in Turn, NEW q \in Turn, NEW r \in Turn,
           Stream(c, s, p, q), Brings(c, q, h, r)
    PROVE  Stream(c, Append(s, h), p, r)
<1> DEFINE n == Len(s)
           t == Append(s, h)
<1>1. n \in Nat
  BY LenProperties
<1>2. Len(t) = n + 1 /\ t[n + 1] = h /\ \A i \in 1..n : t[i] = s[i]
  BY AppendProperties
<1>3. PICK turn \in [1..n + 1 -> Turn] :
          /\ turn[1] = p /\ turn[n + 1] = q /\ \A i \in 1..n : Brings(c, turn[i], s[i], turn[i + 1])
  BY DEF Stream
<1> HIDE DEF n, t
<1> DEFINE next == [i \in 1..n + 2 |-> IF i = n + 2 THEN r ELSE turn[i]]
<1>4. next \in [1..n + 2 -> Turn] /\ next[1] = p /\ next[n + 2] = r
  BY <1>1, <1>3
<1>5. ASSUME NEW i \in 1..n + 1 PROVE Brings(c, next[i], t[i], next[i + 1])
  <2>1. CASE i = n + 1
    <3>1. next[i] = q /\ t[i] = h /\ next[i + 1] = r
      BY <1>1, <1>2, <1>3, <2>1
    <3> QED
      BY <3>1
  <2>2. CASE i # n + 1
    <3>1. i \in 1..n /\ next[i] = turn[i] /\ next[i + 1] = turn[i + 1] /\ t[i] = s[i]
      BY <1>1, <1>2, <1>3, <2>2
    <3> QED
      BY <1>3, <3>1
  <2> QED
    BY <2>1, <2>2
<1>6. Len(t) + 1 = n + 2
  BY <1>1, <1>2
<1> HIDE DEF next
<1> QED
  BY <1>1, <1>2, <1>4, <1>5, <1>6 DEF Stream, t

LEMMA StreamTakes ==
    ASSUME NEW c, NEW s \in Seq(Frames), NEW p \in Turn, NEW q \in Turn, Stream(c, s, p, q), s # <<>>
    PROVE  \E r \in Turn : Brings(c, p, Head(s), r) /\ Stream(c, Tail(s), r, q)
<1> DEFINE n == Len(s)
           t == Tail(s)
<1>1. n \in Nat \ {0} /\ Head(s) = s[1]
  BY EmptySeq, LenProperties
<1>2. Len(t) = n - 1 /\ \A i \in 1..n - 1 : t[i] = s[i + 1]
  BY HeadTailProperties
<1>3. PICK turn \in [1..n + 1 -> Turn] :
          /\ turn[1] = p /\ turn[n + 1] = q /\ \A i \in 1..n : Brings(c, turn[i], s[i], turn[i + 1])
  BY DEF Stream
<1> HIDE DEF n, t
<1> DEFINE next == [i \in 1..n |-> turn[i + 1]]
<1>4. next \in [1..n -> Turn] /\ next[1] = turn[2] /\ next[n] = q /\ turn[2] \in Turn
  BY <1>1, <1>3
<1>5. ASSUME NEW i \in 1..n - 1 PROVE Brings(c, next[i], t[i], next[i + 1])
  <2>1. i + 1 \in 1..n /\ next[i] = turn[i + 1] /\ next[i + 1] = turn[(i + 1) + 1] /\ t[i] = s[i + 1]
    BY <1>1, <1>2
  <2> QED
    BY <1>3, <2>1
<1>6. Len(t) + 1 = n
  BY <1>1, <1>2
<1>7. Brings(c, p, Head(s), turn[2])
  <2>1. 1 \in 1..n /\ 1 + 1 = 2
    BY <1>1
  <2> QED
    BY <1>1, <1>3, <2>1
<1> HIDE DEF next
<1>8. Stream(c, t, turn[2], q)
  BY <1>2, <1>4, <1>5, <1>6 DEF Stream
<1> QED
  BY <1>4, <1>7, <1>8 DEF t

LEMMA StreamSpoils ==
    ASSUME NEW c, NEW s \in Seq(Frames), NEW p \in Turn, NEW q \in Turn, Stream(c, s, p, q),
           NEW i \in DOMAIN s, NEW h \in Frames,
           \A a, b \in Turn : Brings(c, a, s[i], b) => Brings(c, a, h, b)
    PROVE  Stream(c, [s EXCEPT ![i] = h], p, q)
<1> DEFINE t == [s EXCEPT ![i] = h]
<1>1. Len(s) \in Nat /\ DOMAIN s = 1..Len(s) /\ s \in [1..Len(s) -> Frames]
  BY LenProperties
<1>2. t \in Seq(Frames) /\ Len(t) = Len(s) /\ \A j \in 1..Len(s) : t[j] = IF j = i THEN h ELSE s[j]
  BY <1>1, ExceptSeq
<1>3. PICK turn \in [1..Len(s) + 1 -> Turn] :
          /\ turn[1] = p /\ turn[Len(s) + 1] = q
          /\ \A j \in 1..Len(s) : Brings(c, turn[j], s[j], turn[j + 1])
  BY DEF Stream
<1> HIDE DEF t
<1>4. ASSUME NEW j \in 1..Len(s) PROVE Brings(c, turn[j], t[j], turn[j + 1])
  <2>1. turn[j] \in Turn /\ turn[j + 1] \in Turn
    BY <1>1, <1>3
  <2> QED
    BY <1>2, <1>3, <2>1
<1> QED
  BY <1>2, <1>3, <1>4 DEF Stream, t

LEMMA InsertedFrame ==
    ASSUME NEW s \in Seq(Frames), NEW i \in DOMAIN s
    PROVE  LET t == InsertAt(s, i, s[i])
           IN  /\ t \in Seq(Frames) /\ Len(t) = Len(s) + 1
               /\ \A j \in 1..Len(s) + 1 : t[j] = IF j <= i THEN s[j] ELSE s[j - 1]
<1> DEFINE n == Len(s)
           a == SubSeq(s, 1, i - 1)
           m == <<s[i]>>
           b == SubSeq(s, i, n)
           t == InsertAt(s, i, s[i])
<1>1. n \in Nat /\ i \in 1..n /\ \A j \in 1..n : s[j] \in Frames
  BY LenProperties, ElementOfSeq
<1>2. a \in Seq(Frames) /\ Len(a) = i - 1 /\ \A j \in 1..i - 1 : a[j] = s[j]
  BY <1>1, SubSeqProperties
<1>3. b \in Seq(Frames) /\ Len(b) = n - i + 1 /\ \A j \in 1..n - i + 1 : b[j] = s[j + i - 1]
  BY <1>1, SubSeqProperties
<1>4. m \in Seq(Frames) /\ Len(m) = 1 /\ m[1] = s[i]
  BY <1>1
<1>5. t = a \o m \o b
  BY DEF InsertAt
<1> HIDE DEF a, m, b, t, n
<1>6. a \o m \in Seq(Frames) /\ Len(a \o m) = i
      /\ \A j \in 1..i : (a \o m)[j] = IF j <= i - 1 THEN a[j] ELSE m[j - (i - 1)]
  <2>1. /\ a \o m \in Seq(Frames) /\ Len(a \o m) = Len(a) + Len(m)
        /\ \A j \in 1..Len(a) + Len(m) : (a \o m)[j] = IF j <= Len(a) THEN a[j] ELSE m[j - Len(a)]
    BY <1>2, <1>4, ConcatProperties
  <2>2. Len(a) = i - 1 /\ Len(m) = 1 /\ Len(a) + Len(m) = i
    BY <1>1, <1>2, <1>4
  <2>3. ASSUME NEW j \in 1..i PROVE (a \o m)[j] = IF j <= i - 1 THEN a[j] ELSE m[j - (i - 1)]
    BY <2>1, <2>2, <2>3
  <2> QED
    BY <2>1, <2>2, <2>3, Zenon
<1>7. ASSUME NEW j \in 1..i PROVE (a \o m)[j] = s[j]
  <2>1. CASE j <= i - 1
    BY <1>1, <1>2, <1>6, <2>1
  <2>2. CASE j = i
    <3>1. j - (i - 1) = 1 /\ ~(j <= i - 1)
      BY <1>1, <2>2
    <3> QED
      BY <1>4, <1>6, <2>2, <3>1
  <2>3. j <= i - 1 \/ j = i
    BY <1>1
  <2> QED
    BY <2>1, <2>2, <2>3
<1>8. /\ (a \o m) \o b \in Seq(Frames) /\ Len((a \o m) \o b) = Len(a \o m) + Len(b)
      /\ \A j \in 1..Len(a \o m) + Len(b) :
            ((a \o m) \o b)[j] = IF j <= Len(a \o m) THEN (a \o m)[j] ELSE b[j - Len(a \o m)]
  <2> DEFINE front == a \o m
  <2>1. front \in Seq(Frames)
    BY <1>6
  <2> HIDE DEF front
  <2>2. /\ front \o b \in Seq(Frames) /\ Len(front \o b) = Len(front) + Len(b)
        /\ \A j \in 1..Len(front) + Len(b) : (front \o b)[j] = IF j <= Len(front) THEN front[j] ELSE b[j - Len(front)]
    BY <1>3, <2>1, ConcatProperties
  <2> QED
    BY <2>2 DEF front
<1>9. Len(a \o m) = i /\ Len(a \o m) + Len(b) = n + 1
  <2>1. Len(a \o m) = i
    BY <1>6
  <2>2. Len(b) = n - i + 1
    BY <1>3
  <2>3. n \in Nat /\ i \in Nat /\ i + (n - i + 1) = n + 1
    BY <1>1
  <2> QED
    BY <2>1, <2>2, <2>3
<1>10. ASSUME NEW j \in 1..n + 1 PROVE t[j] = IF j <= i THEN s[j] ELSE s[j - 1]
  <2>1. t[j] = IF j <= i THEN (a \o m)[j] ELSE b[j - i]
    BY <1>5, <1>8, <1>9
  <2>2. CASE j <= i
    <3>1. j \in 1..i
      BY <1>1, <2>2
    <3> QED
      BY <1>7, <2>1, <2>2, <3>1
  <2>3. CASE j > i
    <3>1. j - i \in 1..n - i + 1 /\ (j - i) + i - 1 = j - 1
      BY <1>1, <2>3
    <3>2. t[j] = b[j - i]
      BY <1>1, <2>1, <2>3
    <3>3. b[j - i] = s[(j - i) + i - 1]
      BY <1>3, <3>1
    <3>4. ~(j <= i)
      BY <1>1, <2>3
    <3> QED
      BY <3>1, <3>2, <3>3, <3>4
  <2> QED
    BY <1>1, <2>2, <2>3
<1> QED
  BY <1>5, <1>8, <1>9, <1>10 DEF t, n

LEMMA StreamRepeats ==
    ASSUME NEW c, NEW s \in Seq(Frames), NEW p \in Turn, NEW q \in Turn, Stream(c, s, p, q),
           NEW i \in DOMAIN s, \A a, b \in Turn : Brings(c, a, s[i], b) => Brings(c, b, s[i], b)
    PROVE  Stream(c, InsertAt(s, i, s[i]), p, q)
<1> DEFINE n == Len(s)
           t == InsertAt(s, i, s[i])
<1>1. n \in Nat /\ i \in 1..n
  BY LenProperties
<1>2. Len(t) = n + 1 /\ \A j \in 1..n + 1 : t[j] = IF j <= i THEN s[j] ELSE s[j - 1]
  BY InsertedFrame
<1>3. PICK turn \in [1..n + 1 -> Turn] :
          /\ turn[1] = p /\ turn[n + 1] = q /\ \A j \in 1..n : Brings(c, turn[j], s[j], turn[j + 1])
  BY DEF Stream
<1> HIDE DEF n, t
<1> DEFINE next == [j \in 1..n + 2 |-> IF j <= i + 1 THEN turn[j] ELSE turn[j - 1]]
\* The repeated frame begins and ends at the turn behind the first one.
<1>4. /\ next \in [1..n + 2 -> Turn]
      /\ next[1] = p /\ next[n + 2] = q
  BY <1>1, <1>3
<1>5. ASSUME NEW j \in 1..n + 1 PROVE Brings(c, next[j], t[j], next[j + 1])
  <2>1. CASE j < i
    <3>1. j \in 1..n /\ next[j] = turn[j] /\ next[j + 1] = turn[j + 1] /\ t[j] = s[j]
      BY <1>1, <1>2, <2>1
    <3> QED
      BY <1>3, <3>1
  <2>2. CASE j = i
    <3>1. next[j] = turn[i] /\ next[j + 1] = turn[i + 1] /\ t[j] = s[i]
      BY <1>1, <1>2, <2>2
    <3> QED
      BY <1>1, <1>3, <3>1
  <2>3. CASE j = i + 1
    <3>1. next[j] = turn[i + 1] /\ next[j + 1] = turn[i + 1] /\ t[j] = s[i]
      BY <1>1, <1>2, <2>3
    <3>2. turn[i] \in Turn /\ turn[i + 1] \in Turn /\ Brings(c, turn[i], s[i], turn[i + 1])
      BY <1>1, <1>3
    <3> QED
      BY <3>1, <3>2
  <2>4. CASE j > i + 1
    <3>1. j - 1 \in 1..n /\ next[j] = turn[j - 1] /\ next[j + 1] = turn[(j - 1) + 1] /\ t[j] = s[j - 1]
      BY <1>1, <1>2, <2>4
    <3> QED
      BY <1>3, <3>1
  <2> QED
    BY <1>1, <2>1, <2>2, <2>3, <2>4
<1>6. Len(t) + 1 = n + 2
  BY <1>1, <1>2
<1> HIDE DEF next
<1> QED
  BY <1>2, <1>4, <1>5, <1>6 DEF Stream, t

-----------------------------------------------------------------------------
\* The types of frames.
LEMMA TypesOfTransfer ==
    ZmodemTypeOK <=>
        /\ content \in [1..Files -> FileContent]
        /\ disk \in [1..Files -> FileContent \cup {None}] /\ found \in [1..Files -> FileContent \cup {None}]
        /\ down \in Seq(Frames) /\ up \in Seq(Frames)
        /\ sender \in SenderRecord /\ receiver \in ReceiverRecord
        /\ complete \subseteq 1..Files /\ faults \in 0..MaxFaults
        /\ repeated \in 0..MaxFaults /\ trouble \in BOOLEAN /\ lost \in BOOLEAN
BY DEF ZmodemTypeOK, SenderRecord, ReceiverRecord

LEMMA HeadersAreFrames ==
    ASSUME NEW t \in Types, NEW n \in Nat
    PROVE  Header(t, n) \in Frames /\ Header(t, n).type = t /\ Header(t, n).n = n
BY EmptySeq DEF Header, Frames

LEMMA PacketsAreFrames ==
    ASSUME NEW t \in Types, NEW n \in Nat, NEW d \in Seq(Blocks)
    PROVE  /\ Packet(t, n, d) \in Frames /\ Packet(t, n, d).type = t /\ Packet(t, n, d).n = n
           /\ Packet(t, n, d).data = d /\ Packet(t, n, d).good
BY DEF Packet, Frames

LEMMA TellAppends ==
    ASSUME NEW s \in Seq(Frames), NEW h \in Frames
    PROVE  s \o <<h>> = Append(s, h)
OBVIOUS

\* A file that is sent is a sequence of blocks.
LEMMA ContentOf ==
    ASSUME ZmodemTypeOK, NEW f \in 1..Files
    PROVE  content[f] \in Seq(Blocks) /\ Len(content[f]) \in 0..MaxLen /\ Len(content[f]) \in Nat
<1>1. content[f] \in FileContent
  BY DEF ZmodemTypeOK
<1> QED
  BY <1>1, ContentIsSeq, ZmodemNumbers

-----------------------------------------------------------------------------
\* The steps of Codec.Send.
LEMMA TransferInitInv == ZmodemInit => TransferInv
<1> SUFFICES ASSUME ZmodemInit PROVE TransferInv
  OBVIOUS
<1>1. down = <<>> /\ up = <<>> /\ <<>> \in Seq(Frames) /\ DOMAIN <<>> = {}
  BY EmptySeq DEF ZmodemInit
<1>2. sender \in SenderRecord /\ receiver \in ReceiverRecord
  BY ZmodemNumbers DEF ZmodemInit, SenderRecord, ReceiverRecord, NoFile
<1>3. ZmodemTypeOK /\ repeated <= faults
  <2>1. complete \subseteq 1..Files /\ faults \in 0..MaxFaults /\ repeated \in 0..MaxFaults /\ trouble \in BOOLEAN /\ lost \in BOOLEAN
        /\ repeated <= faults
    <3>1. complete = {} /\ faults = 0 /\ repeated = 0 /\ MaxFaults \in Nat
      BY ZmodemNumbers DEF ZmodemInit
    <3>2. trouble \in BOOLEAN /\ lost \in BOOLEAN
      BY DEF ZmodemInit
    <3> QED
      BY <3>1, <3>2
  <2>2. content \in [1..Files -> FileContent]
        /\ disk \in [1..Files -> FileContent \cup {None}] /\ found \in [1..Files -> FileContent \cup {None}]
    BY DEF ZmodemInit
  <2> QED
    BY <1>1, <1>2, <2>1, <2>2, TypesOfTransfer
<1>4. ReceiverTurn = [file |-> 0, closed |-> TRUE] /\ SenderTurn = ReceiverTurn /\ ReceiverTurn \in Turn
  <2>1. receiver.name = 0 /\ NoneOpen /\ sender.pc = "start" /\ sender.file - 1 = 0
    BY DEF ZmodemInit, NoneOpen, NoFile
  <2>2. NoneOpen = TRUE
    BY <2>1 DEF NoneOpen
  <2>3. ReceiverTurn = [file |-> 0, closed |-> TRUE] /\ SenderTurn = [file |-> 0, closed |-> TRUE]
    BY <2>1, <2>2 DEF ReceiverTurn, SenderTurn
  <2>4. 0 \in 0..Files
    BY ZmodemNumbers
  <2> QED
    BY <2>3, <2>4 DEF Turn
<1>5. StreamInv
  BY <1>1, <1>4, StreamEmpty DEF StreamInv
<1>6. SenderInv /\ OpenInv /\ LiveInv /\ OverInv
  BY <1>1 DEF ZmodemInit, SenderInv, OpenInv, LiveInv, OverInv, NoneOpen, NoFile
<1>7. ReceivedIsSent /\ OthersAreKept
  BY DEF ZmodemInit, ReceivedIsSent, OthersAreKept
<1> QED
  BY <1>3, <1>5, <1>6, <1>7 DEF TransferInv

\* The sender takes an answer or says something; nothing else changes.
LEMMA SenderStep ==
    ASSUME TransferInv, sender.pc # "error",
           UNCHANGED <<content, disk, found, receiver, complete, faults, repeated>>,
           trouble' \in BOOLEAN /\ lost' \in BOOLEAN, sender' \in SenderRecord, SenderInv',
           up' = up \/ (up # <<>> /\ up' = Tail(up)),
           sender'.pc = "done" => complete = 1..Files,
           \/ sender'.pc # "error" /\ UNCHANGED down /\ SenderTurn' = SenderTurn
           \/ \E h \in Frames :
                 /\ down' = Append(down, h)
                 /\ IF sender'.pc = "error" THEN h.type = "CAN" ELSE Brings(content, SenderTurn, h, SenderTurn')
    PROVE  TransferInv'
<1>1. up \in Seq(Frames) /\ down \in Seq(Frames) /\ sender \in SenderRecord /\ ZmodemTypeOK
  BY TypesOfTransfer DEF TransferInv
<1>2. up' \in Seq(Frames) /\ \A i \in DOMAIN up' : \E j \in DOMAIN up : up'[i] = up[j]
  <2>1. CASE up' = up
    BY <1>1, <2>1
  <2>2. CASE up # <<>> /\ up' = Tail(up)
    <3>1. Len(up) \in Nat \ {0} /\ DOMAIN up = 1..Len(up)
      BY <1>1, <2>2, EmptySeq, LenProperties
    <3>2. Tail(up) \in Seq(Frames) /\ Len(Tail(up)) = Len(up) - 1
          /\ \A i \in 1..Len(Tail(up)) : Tail(up)[i] = up[i + 1]
      BY <1>1, <2>2, HeadTailProperties
    <3>3. DOMAIN Tail(up) = 1..Len(up) - 1
      BY <3>2, LenProperties
    <3> QED
      <4>1. ASSUME NEW i \in DOMAIN up' PROVE \E j \in DOMAIN up : up'[i] = up[j]
        <5>1. i \in 1..Len(up) - 1 /\ up'[i] = Tail(up)[i]
          BY <2>2, <3>3, <4>1
        <5>2. i + 1 \in DOMAIN up /\ Tail(up)[i] = up[i + 1]
          BY <3>1, <3>2, <5>1
        <5> QED
          BY <5>1, <5>2
      <4> QED
        BY <2>2, <3>2, <4>1
  <2> QED
    BY <2>1, <2>2
<1>3. down' \in Seq(Frames)
  BY <1>1, AppendProperties
<1>4. ZmodemTypeOK'
  BY <1>1, <1>2, <1>3 DEF ZmodemTypeOK, SenderRecord
<1>5. OpenInv' /\ LiveInv' /\ ReceivedIsSent' /\ OthersAreKept' /\ (repeated <= faults)'
  BY DEF TransferInv, OpenInv, LiveInv, ReceivedIsSent, OthersAreKept, NoneOpen
<1>6. OverInv'
  BY <1>2 DEF TransferInv, OverInv
<1>7. SenderTurn \in Turn /\ (sender'.pc # "error" => SenderTurn' \in Turn)
  <2> DEFINE Talking == {"answer", "data", "ack", "next"}
             Closing == {"start", "ready", "offer", "finack", "done"}
  <2>1. sender.pc # "error" /\ SenderInv /\ Files \in Nat
    BY ZmodemNumbers DEF TransferInv
  <2>2. SenderTurn \in Turn
    <3>1. sender.file \in 1..(Files + 1) /\ sender.pc \in Talking \cup Closing
      BY <1>1, <2>1 DEF SenderRecord, Ended
    <3>2. sender.file - 1 \in 0..Files
      BY <2>1, <3>1
    <3>3. sender.pc \in Talking => sender.file \in 0..Files
      BY <2>1, <3>1 DEF SenderInv
    <3> QED
      BY <3>1, <3>2, <3>3 DEF SenderTurn, Turn
  <2>3. ASSUME sender'.pc # "error" PROVE SenderTurn' \in Turn
    <3>1. sender'.file \in 1..(Files + 1) /\ sender'.pc \in Talking \cup Closing
      BY <1>1, <2>1, <2>3 DEF SenderRecord, Ended
    <3>2. sender'.file - 1 \in 0..Files
      BY <2>1, <3>1
    <3>3. sender'.pc \in Talking => sender'.file \in 0..Files
      BY <2>1, <3>1 DEF SenderInv
    <3> QED
      BY <3>1, <3>2, <3>3 DEF SenderTurn, Turn
  <2> QED
    BY <2>2, <2>3
<1>8. StreamInv'
  <2> SUFFICES ASSUME receiver.pc \in Live
               PROVE  \E q \in Turn : Stream(content, down', ReceiverTurn, q) /\ (sender'.pc # "error" => q = SenderTurn')
    BY DEF StreamInv, ReceiverTurn, NoneOpen
  <2>1. Stream(content, down, ReceiverTurn, SenderTurn)
    BY <1>1 DEF TransferInv, StreamInv
  <2>2. ReceiverTurn \in Turn
    BY <1>1, TypesOfTransfer DEF ReceiverTurn, NoneOpen, Turn, ReceiverRecord
  <2>3. ASSUME NEW h \in Frames, NEW q \in Turn, down' = Append(down, h), Brings(content, SenderTurn, h, q)
        PROVE  Stream(content, down', ReceiverTurn, q)
    BY <1>1, <1>7, <2>1, <2>2, <2>3, StreamAppends
  <2>4. CASE sender'.pc = "error"
    <3>1. PICK h \in Frames : down' = Append(down, h) /\ h.type = "CAN"
      BY <2>4
    <3>2. Brings(content, SenderTurn, h, SenderTurn)
      BY <3>1 DEF Brings
    <3> QED
      BY <1>7, <2>3, <2>4, <3>1, <3>2
  <2>5. CASE sender'.pc # "error"
    BY <1>7, <2>1, <2>3, <2>5
  <2> QED
    BY <2>4, <2>5
<1> QED
  BY <1>4, <1>5, <1>6, <1>8 DEF TransferInv

\* Send returns an error.
LEMMA AbortKeeps ==
    ASSUME TransferInv, sender.pc # "error", Abort,
           UNCHANGED <<content, disk, found, receiver, complete, faults, repeated>>,
           trouble' \in BOOLEAN /\ lost' \in BOOLEAN, up' = up \/ (up # <<>> /\ up' = Tail(up))
    PROVE  TransferInv'
<1>1. sender' = [sender EXCEPT !.pc = "error"] /\ down' = down \o <<Header("CAN", 0)>>
  BY DEF Abort, Tell
<1>2. down \in Seq(Frames) /\ sender \in SenderRecord
  BY TypesOfTransfer DEF TransferInv
<1>3. Header("CAN", 0) \in Frames /\ Header("CAN", 0).type = "CAN"
  BY HeadersAreFrames DEF Types
<1>4. down' = Append(down, Header("CAN", 0))
  BY <1>1, <1>2, <1>3, TellAppends
<1>5. sender' \in SenderRecord /\ sender'.pc = "error"
  BY <1>1, <1>2 DEF SenderRecord, Ended
<1>6. SenderInv'
  BY <1>5 DEF SenderInv
<1> QED
  BY <1>3, <1>4, <1>5, <1>6, SenderStep

LEMMA RequestStep == ASSUME TransferInv, Request PROVE TransferInv'
<1>1. /\ sender.pc = "start" /\ down' = down \o <<Header("ZRQINIT", 0)>>
      /\ sender' = [sender EXCEPT !.pc = "ready"]
      /\ UNCHANGED <<content, disk, found, up, receiver, complete, faults, repeated, trouble, lost>>
  BY DEF Request, Tell
<1>2. down \in Seq(Frames) /\ sender \in SenderRecord /\ trouble \in BOOLEAN /\ lost \in BOOLEAN
  BY TypesOfTransfer DEF TransferInv
<1>3. Header("ZRQINIT", 0) \in Frames /\ Header("ZRQINIT", 0).type = "ZRQINIT"
  BY HeadersAreFrames DEF Types
<1>4. down' = Append(down, Header("ZRQINIT", 0))
  BY <1>1, <1>2, <1>3, TellAppends
<1>5. sender' \in SenderRecord /\ sender'.pc = "ready" /\ sender'.file = sender.file
  BY <1>1, <1>2 DEF SenderRecord
<1>6. SenderInv' /\ SenderTurn' = SenderTurn
  BY <1>1, <1>5 DEF SenderInv, SenderTurn
<1>7. Brings(content, SenderTurn, Header("ZRQINIT", 0), SenderTurn')
  BY <1>3, <1>6 DEF Brings
<1> QED
  BY <1>1, <1>2, <1>3, <1>4, <1>5, <1>6, <1>7, SenderStep

LEMMA ReadyStep == ASSUME TransferInv, Ready PROVE TransferInv'
<1>1. /\ sender.pc = "ready" /\ up # <<>> /\ up' = Tail(up) /\ sender' = [sender EXCEPT !.pc = "offer"]
      /\ UNCHANGED <<content, disk, found, down, receiver, complete, faults, repeated, trouble, lost>>
  BY DEF Ready, Gets, Has, Take
<1>2. sender \in SenderRecord /\ trouble \in BOOLEAN /\ lost \in BOOLEAN
  BY TypesOfTransfer DEF TransferInv
<1>3. sender' \in SenderRecord /\ sender'.pc = "offer" /\ sender'.file = sender.file
  BY <1>1, <1>2 DEF SenderRecord
<1>4. SenderInv' /\ SenderTurn' = SenderTurn
  BY <1>1, <1>3 DEF SenderInv, SenderTurn
<1> QED
  BY <1>1, <1>2, <1>3, <1>4, SenderStep

LEMMA OfferStep == ASSUME TransferInv, Offer PROVE TransferInv'
<1>1. /\ sender.pc = "offer"
      /\ UNCHANGED <<content, disk, found, up, receiver, complete, faults, repeated, trouble, lost>>
  BY DEF Offer
<1>2. /\ down \in Seq(Frames) /\ sender \in SenderRecord /\ trouble \in BOOLEAN /\ lost \in BOOLEAN /\ ZmodemTypeOK
      /\ Files \in Nat /\ MaxTries \in Nat \ {0} /\ MaxLen \in Nat /\ MaxRetries \in Nat
  BY TypesOfTransfer, ZmodemNumbers DEF TransferInv
<1>3. CASE FilesLeft
  <2> DEFINE h == Packet("ZFILE", sender.file, content[sender.file])
  <2>1. /\ down' = down \o <<h>>
        /\ sender' = [sender EXCEPT !.pc = "answer", !.pos = 0, !.tries = 0, !.retries = 0]
    BY <1>3 DEF Offer, Tell
  <2>2. sender.file \in 1..Files /\ sender.file \in Nat
    BY <1>2, <1>3 DEF FilesLeft, SenderRecord
  <2>3. content[sender.file] \in Seq(Blocks)
    BY <1>2, <2>2, ContentOf
  <2>4. h \in Frames /\ h.type = "ZFILE" /\ h.n = sender.file
    BY <2>2, <2>3, PacketsAreFrames DEF Types
  <2> HIDE DEF h
  <2>5. down' = Append(down, h)
    BY <1>2, <2>1, <2>4, TellAppends
  <2>6. sender' \in SenderRecord /\ sender'.pc = "answer" /\ sender'.file = sender.file /\ sender'.tries = 0
    <3>1. 0 \in 0..MaxTries /\ 0 \in 0..MaxLen /\ 0 \in 0..MaxRetries
      BY <1>2
    <3> QED
      BY <1>2, <2>1, <3>1 DEF SenderRecord
  <2>7. SenderInv'
    BY <1>2, <2>2, <2>6 DEF SenderInv
  <2>8. SenderTurn = [file |-> sender.file - 1, closed |-> TRUE]
        /\ SenderTurn' = [file |-> sender.file, closed |-> FALSE]
    BY <1>1, <2>6 DEF SenderTurn
  <2>9. Brings(content, SenderTurn, h, SenderTurn')
    BY <2>2, <2>4, <2>8 DEF Brings
  <2> QED
    BY <1>1, <1>2, <2>4, <2>5, <2>6, <2>7, <2>9, SenderStep
<1>4. CASE ~FilesLeft
  <2> DEFINE h == Header("ZFIN", 0)
  <2>1. down' = down \o <<h>> /\ sender' = [sender EXCEPT !.pc = "finack", !.tries = 0]
    BY <1>4 DEF Offer, Tell
  <2>2. sender.file = Files + 1
    BY <1>2, <1>4 DEF FilesLeft, SenderRecord
  <2>4. h \in Frames /\ h.type = "ZFIN"
    BY HeadersAreFrames DEF Types
  <2> HIDE DEF h
  <2>5. down' = Append(down, h)
    BY <1>2, <2>1, <2>4, TellAppends
  <2>6. sender' \in SenderRecord /\ sender'.pc = "finack" /\ sender'.file = sender.file /\ sender'.tries = 0
    <3>1. 0 \in 0..MaxTries /\ 0 \in 0..MaxLen /\ 0 \in 0..MaxRetries
      BY <1>2
    <3> QED
      BY <1>2, <2>1, <3>1 DEF SenderRecord
  <2>7. SenderInv'
    BY <1>2, <2>2, <2>6 DEF SenderInv
  <2>8. SenderTurn = [file |-> Files, closed |-> TRUE] /\ SenderTurn' = SenderTurn
    BY <1>1, <1>2, <2>2, <2>6 DEF SenderTurn
  <2>9. Brings(content, SenderTurn, h, SenderTurn')
    BY <2>4, <2>8 DEF Brings
  <2> QED
    BY <1>1, <1>2, <2>4, <2>5, <2>6, <2>7, <2>9, SenderStep
<1> QED
  BY <1>3, <1>4

LEMMA FirstFrame ==
    ASSUME NEW s \in Seq(Frames), s # <<>>
    PROVE  /\ Head(s) \in Frames /\ Head(s) = s[1] /\ 1 \in DOMAIN s /\ Tail(s) \in Seq(Frames)
           /\ Head(s).type \in Types /\ Head(s).n \in Nat /\ Head(s).data \in Seq(Blocks)
<1>1. Len(s) \in Nat \ {0} /\ DOMAIN s = 1..Len(s)
  BY EmptySeq, LenProperties
<1>2. Head(s) = s[1] /\ Tail(s) \in Seq(Frames)
  BY HeadTailProperties
<1>3. s[1] \in Frames
  BY <1>1, ElementOfSeq
<1> QED
  BY <1>1, <1>2, <1>3 DEF Frames

LEMMA OfferAnsweredStep == ASSUME TransferInv, OfferAnswered PROVE TransferInv'
<1> DEFINE h == Head(up)
           f == sender.file
           more == [sender EXCEPT !.tries = @ + 1, !.pc = IF sender.tries + 1 >= MaxTries THEN "data" ELSE "answer"]
<1>1. /\ sender.pc = "answer" /\ up # <<>> /\ up' = Tail(up)
      /\ UNCHANGED <<content, disk, found, receiver, complete, faults, repeated, trouble, lost>>
      /\ \/ h.type = "ZCRC" /\ h.n <= Len(content[f])
            /\ down' = down \o <<Packet("ZCRC", 0, SubSeq(content[f], 1, h.n))>> /\ sender' = more
         \/ Abort
         \/ h.type = "ZRPOS" /\ h.n <= Len(content[f])
            /\ sender' = [sender EXCEPT !.pc = "data", !.pos = h.n] /\ UNCHANGED down
         \/ sender' = more /\ UNCHANGED down
  BY DEF OfferAnswered, Has, Take, Tell, Upto
<1>2. /\ ZmodemTypeOK /\ down \in Seq(Frames) /\ up \in Seq(Frames) /\ sender \in SenderRecord
      /\ trouble \in BOOLEAN /\ lost \in BOOLEAN /\ Files \in Nat /\ MaxTries \in Nat \ {0} /\ MaxLen \in Nat
  BY TypesOfTransfer, ZmodemNumbers DEF TransferInv
<1>3. f \in 1..Files /\ sender.tries < MaxTries /\ sender.tries \in Nat
  BY <1>1, <1>2 DEF TransferInv, SenderInv, SenderRecord
<1>4. content[f] \in Seq(Blocks) /\ Len(content[f]) \in 0..MaxLen
  BY <1>2, <1>3, ContentOf
<1>5. h.n \in Nat
  BY <1>1, <1>2, FirstFrame
<1> HIDE DEF h
<1>6. ASSUME sender' = more
      PROVE  sender' \in SenderRecord /\ SenderInv' /\ SenderTurn' = SenderTurn /\ sender'.pc \in {"data", "answer"}
  <2>1. sender.tries + 1 \in 0..MaxTries
    BY <1>2, <1>3
  <2>2. sender' \in SenderRecord /\ sender'.tries = sender.tries + 1 /\ sender'.file = f
        /\ sender'.pc = IF sender.tries + 1 >= MaxTries THEN "data" ELSE "answer"
    BY <1>2, <1>6, <2>1 DEF SenderRecord
  <2>3. SenderInv'
    BY <1>2, <1>3, <2>2 DEF SenderInv
  <2>4. SenderTurn' = SenderTurn
    BY <1>1, <2>2 DEF SenderTurn
  <2> QED
    BY <2>2, <2>3, <2>4
<1> HIDE DEF more
<1>7. CASE h.type = "ZCRC" /\ h.n <= Len(content[f])
           /\ down' = down \o <<Packet("ZCRC", 0, SubSeq(content[f], 1, h.n))>> /\ sender' = more
  <2> DEFINE d == SubSeq(content[f], 1, h.n)
             g == Packet("ZCRC", 0, d)
  <2>1. h.n \in 0..Len(content[f])
    BY <1>4, <1>5, <1>7
  <2>2. d \in Seq(Blocks) /\ IsPrefix(d, content[f])
    BY <1>4, <2>1, UptoIsPrefix
  <2> HIDE DEF d
  <2>3. g \in Frames /\ g.type = "ZCRC" /\ g.data = d
    BY <2>2, PacketsAreFrames DEF Types
  <2>4. down' = down \o <<g>>
    BY <1>7 DEF d
  <2> HIDE DEF g
  <2>5. down' = Append(down, g)
    BY <1>2, <2>3, <2>4, TellAppends
  <2>6. SenderTurn = [file |-> f, closed |-> FALSE]
    BY <1>1 DEF SenderTurn
  <2>7. Brings(content, SenderTurn, g, SenderTurn')
    BY <1>2, <1>3, <1>6, <1>7, <2>2, <2>3, <2>6 DEF Brings
  <2> QED
    BY <1>1, <1>2, <1>6, <1>7, <2>3, <2>5, <2>7, SenderStep
<1>8. CASE Abort
  BY <1>1, <1>2, <1>8, AbortKeeps
<1>9. CASE h.type = "ZRPOS" /\ h.n <= Len(content[f])
           /\ sender' = [sender EXCEPT !.pc = "data", !.pos = h.n] /\ UNCHANGED down
  <2>1. h.n \in 0..MaxLen
    BY <1>2, <1>4, <1>5, <1>9
  <2>2. sender' \in SenderRecord /\ sender'.pc = "data" /\ sender'.file = f
    BY <1>2, <1>9, <2>1 DEF SenderRecord
  <2>3. SenderInv' /\ SenderTurn' = SenderTurn
    BY <1>1, <1>3, <2>2 DEF SenderInv, SenderTurn
  <2> QED
    BY <1>1, <1>2, <1>9, <2>2, <2>3, SenderStep
<1>10. CASE sender' = more /\ UNCHANGED down
  BY <1>1, <1>2, <1>6, <1>10, SenderStep
<1> QED
  BY <1>1, <1>7, <1>8, <1>9, <1>10

LEMMA SendDataStep == ASSUME TransferInv, SendData PROVE TransferInv'
<1> DEFINE f == sender.file
           n == sender.pos
<1>1. /\ sender.pc = "data"
      /\ UNCHANGED <<content, disk, found, up, receiver, complete, faults, repeated, trouble, lost>>
  BY DEF SendData
<1>2. /\ ZmodemTypeOK /\ down \in Seq(Frames) /\ sender \in SenderRecord /\ trouble \in BOOLEAN /\ lost \in BOOLEAN
      /\ Files \in Nat /\ MaxLen \in Nat
  BY TypesOfTransfer, ZmodemNumbers DEF TransferInv
<1>3. f \in 1..Files /\ n \in 0..MaxLen /\ n \in Nat
  BY <1>1, <1>2 DEF TransferInv, SenderInv, SenderRecord
<1>4. content[f] \in Seq(Blocks) /\ Len(content[f]) \in Nat
  BY <1>2, <1>3, ContentOf
<1>5. SenderTurn = [file |-> f, closed |-> FALSE]
  BY <1>1 DEF SenderTurn
<1>6. CASE n < Len(content[f])
  <2> DEFINE d == SubSeq(content[f], n + 1, n + 1)
             g == Packet("ZDATA", n, d)
  <2>1. down' = down \o <<g>> /\ sender' = [sender EXCEPT !.pc = "ack"]
    BY <1>6 DEF SendData, Tell
  <2>2. d \in Seq(Blocks)
    BY <1>3, <1>4, <1>6, SubSeqProperties
  <2> HIDE DEF d
  <2>3. g \in Frames /\ g.type = "ZDATA" /\ g.n = n /\ g.data = d
    BY <1>3, <2>2, PacketsAreFrames DEF Types
  <2> HIDE DEF g
  <2>4. down' = Append(down, g)
    BY <1>2, <2>1, <2>3, TellAppends
  <2>5. sender' \in SenderRecord /\ sender'.pc = "ack" /\ sender'.file = f /\ sender'.pos = n
    BY <1>2, <2>1 DEF SenderRecord
  <2>6. SenderInv' /\ SenderTurn' = SenderTurn
    BY <1>1, <1>3, <1>6, <2>5 DEF SenderInv, SenderTurn
  <2>7. Brings(content, SenderTurn, g, SenderTurn')
    <3>1. SenderTurn.file = f /\ ~SenderTurn.closed /\ SenderTurn.file # 0 /\ SenderTurn' = SenderTurn
      BY <1>3, <1>5, <2>6
    <3>2. g.n < Len(content[SenderTurn.file])
          /\ g.data = SubSeq(content[SenderTurn.file], g.n + 1, g.n + 1)
      BY <1>6, <2>3, <3>1 DEF d
    <3> QED
      BY <2>3, <3>1, <3>2 DEF Brings
  <2> QED
    BY <1>1, <1>2, <2>3, <2>4, <2>5, <2>6, <2>7, SenderStep
<1>7. CASE ~(n < Len(content[f]))
  <2> DEFINE g == Header("ZEOF", n)
  <2>1. down' = down \o <<g>> /\ sender' = [sender EXCEPT !.pc = "next"]
    BY <1>7 DEF SendData, Tell
  <2>2. g \in Frames /\ g.type = "ZEOF"
    BY <1>3, HeadersAreFrames DEF Types
  <2> HIDE DEF g
  <2>3. down' = Append(down, g)
    BY <1>2, <2>1, <2>2, TellAppends
  <2>4. sender' \in SenderRecord /\ sender'.pc = "next" /\ sender'.file = f
    BY <1>2, <2>1 DEF SenderRecord
  <2>5. SenderInv' /\ SenderTurn' = [file |-> f, closed |-> TRUE]
    <3>1. SenderInv'
      BY <1>3, <2>4 DEF SenderInv
    <3>2. (sender'.pc = "next") = TRUE
      BY <2>4
    <3> QED
      BY <2>4, <3>1, <3>2 DEF SenderTurn
  <2>6. Brings(content, SenderTurn, g, SenderTurn')
    BY <1>3, <1>5, <2>2, <2>5 DEF Brings
  <2> QED
    BY <1>1, <1>2, <2>2, <2>3, <2>4, <2>5, <2>6, SenderStep
<1> QED
  BY <1>6, <1>7

LEMMA AckStep == ASSUME TransferInv, Ack PROVE TransferInv'
<1> DEFINE h == Head(up)
           f == sender.file
<1>1. /\ sender.pc = "ack" /\ up # <<>> /\ up' = Tail(up)
      /\ UNCHANGED <<content, disk, found, receiver, complete, faults, repeated, trouble, lost>>
      /\ \/ sender' = [sender EXCEPT !.pc = "data", !.pos = @ + 1, !.retries = 0] /\ UNCHANGED down
         \/ /\ h.n <= Len(content[f]) /\ sender.retries < MaxRetries
            /\ sender' = [sender EXCEPT !.pc = "data", !.pos = h.n, !.retries = @ + 1] /\ UNCHANGED down
         \/ Abort
  BY DEF Ack, Has, Take, Retry
<1>2. /\ ZmodemTypeOK /\ up \in Seq(Frames) /\ sender \in SenderRecord /\ trouble \in BOOLEAN /\ lost \in BOOLEAN
      /\ Files \in Nat /\ MaxLen \in Nat /\ MaxRetries \in Nat
  BY TypesOfTransfer, ZmodemNumbers DEF TransferInv
<1>3. f \in 1..Files /\ sender.pos < Len(content[f]) /\ sender.pos \in Nat /\ sender.retries \in Nat
  BY <1>1, <1>2 DEF TransferInv, SenderInv, SenderRecord
<1>4. Len(content[f]) \in 0..MaxLen
  BY <1>2, <1>3, ContentOf
<1>5. h.n \in Nat
  BY <1>1, <1>2, FirstFrame
<1> HIDE DEF h
<1>6. ASSUME NEW p \in 0..MaxLen, NEW r \in 0..MaxRetries,
             sender' = [sender EXCEPT !.pc = "data", !.pos = p, !.retries = r], UNCHANGED down
      PROVE  TransferInv'
  <2>1. sender' \in SenderRecord /\ sender'.pc = "data" /\ sender'.file = f
    BY <1>2, <1>6 DEF SenderRecord
  <2>2. SenderInv' /\ SenderTurn' = SenderTurn
    BY <1>1, <1>3, <2>1 DEF SenderInv, SenderTurn
  <2> QED
    BY <1>1, <1>2, <1>6, <2>1, <2>2, SenderStep
<1>7. CASE sender' = [sender EXCEPT !.pc = "data", !.pos = @ + 1, !.retries = 0] /\ UNCHANGED down
  <2>1. sender.pos + 1 \in 0..MaxLen /\ 0 \in 0..MaxRetries
    BY <1>2, <1>3, <1>4
  <2> QED
    BY <1>6, <1>7, <2>1
<1>8. CASE /\ h.n <= Len(content[f]) /\ sender.retries < MaxRetries
           /\ sender' = [sender EXCEPT !.pc = "data", !.pos = h.n, !.retries = @ + 1] /\ UNCHANGED down
  <2>1. h.n \in 0..MaxLen /\ sender.retries + 1 \in 0..MaxRetries
    BY <1>2, <1>3, <1>4, <1>5, <1>8
  <2> QED
    BY <1>6, <1>8, <2>1
<1>9. CASE Abort
  BY <1>1, <1>2, <1>9, AbortKeeps
<1> QED
  BY <1>1, <1>7, <1>8, <1>9

LEMMA NextFileStep == ASSUME TransferInv, NextFile PROVE TransferInv'
<1>1. /\ sender.pc = "next" /\ up # <<>> /\ up' = Tail(up)
      /\ sender' = [sender EXCEPT !.pc = "offer", !.file = @ + 1]
      /\ UNCHANGED <<content, disk, found, down, receiver, complete, faults, repeated, trouble, lost>>
  BY DEF NextFile, Gets, Has, Take
<1>2. sender \in SenderRecord /\ trouble \in BOOLEAN /\ lost \in BOOLEAN /\ Files \in Nat
  BY TypesOfTransfer, ZmodemNumbers DEF TransferInv
<1>3. sender.file \in 1..Files
  BY <1>1, <1>2 DEF TransferInv, SenderInv, SenderRecord
<1>4. sender' \in SenderRecord /\ sender'.pc = "offer" /\ sender'.file = sender.file + 1
  <2>1. sender.file + 1 \in 1..(Files + 1)
    BY <1>2, <1>3
  <2> QED
    BY <1>1, <1>2, <2>1 DEF SenderRecord
<1>5. SenderTurn = [file |-> sender.file, closed |-> TRUE]
      /\ SenderTurn' = [file |-> (sender.file + 1) - 1, closed |-> TRUE]
  BY <1>1, <1>4 DEF SenderTurn
<1>6. SenderTurn' = SenderTurn /\ SenderInv'
  <2>1. (sender.file + 1) - 1 = sender.file
    BY <1>2, <1>3
  <2>2. SenderTurn' = SenderTurn
    BY <1>5, <2>1, Zenon
  <2>3. SenderInv'
    BY <1>4 DEF SenderInv
  <2> QED
    BY <2>2, <2>3
<1> QED
  BY <1>1, <1>2, <1>4, <1>6, SenderStep

LEMMA FinishStep == ASSUME TransferInv, Finish PROVE TransferInv'
<1>1. /\ sender.pc = "finack" /\ up # <<>> /\ up' = Tail(up)
      /\ UNCHANGED <<content, disk, found, receiver, complete, faults, repeated, trouble, lost>>
      /\ \/ /\ Head(up).type = "ZFIN" /\ sender' = [sender EXCEPT !.pc = "done"]
            /\ down' = down \o <<Header("OO", 0)>>
         \/ Abort
         \/ /\ ~(sender.tries + 1 >= MaxTries) /\ sender' = [sender EXCEPT !.tries = @ + 1] /\ UNCHANGED down
  BY DEF Finish, Has, Take, Tell
<1>2. /\ down \in Seq(Frames) /\ up \in Seq(Frames) /\ sender \in SenderRecord /\ trouble \in BOOLEAN /\ lost \in BOOLEAN
      /\ Files \in Nat /\ MaxTries \in Nat
  BY TypesOfTransfer, ZmodemNumbers DEF TransferInv
<1>3. sender.file = Files + 1 /\ sender.tries \in Nat
  BY <1>1, <1>2 DEF TransferInv, SenderInv, SenderRecord
<1>4. CASE /\ Head(up).type = "ZFIN" /\ sender' = [sender EXCEPT !.pc = "done"]
           /\ down' = down \o <<Header("OO", 0)>>
  <2>1. complete = 1..Files
    BY <1>1, <1>2, <1>4, FirstFrame DEF TransferInv, OverInv
  <2>2. Header("OO", 0) \in Frames /\ Header("OO", 0).type = "OO"
    BY HeadersAreFrames DEF Types
  <2>3. down' = Append(down, Header("OO", 0))
    BY <1>2, <1>4, <2>2, TellAppends
  <2>4. sender' \in SenderRecord /\ sender'.pc = "done" /\ sender'.file = sender.file
    BY <1>2, <1>4 DEF SenderRecord, Ended
  <2>5. SenderInv' /\ SenderTurn' = SenderTurn
    BY <1>1, <1>3, <2>4 DEF SenderInv, SenderTurn
  <2>6. Brings(content, SenderTurn, Header("OO", 0), SenderTurn')
    BY <2>2, <2>5 DEF Brings
  <2> QED
    BY <1>1, <1>2, <2>1, <2>2, <2>3, <2>4, <2>5, <2>6, SenderStep
<1>5. CASE Abort
  BY <1>1, <1>2, <1>5, AbortKeeps
<1>6. CASE ~(sender.tries + 1 >= MaxTries) /\ sender' = [sender EXCEPT !.tries = @ + 1] /\ UNCHANGED down
  <2>1. sender.tries + 1 \in 0..MaxTries /\ sender.tries + 1 < MaxTries
    BY <1>2, <1>3, <1>6
  <2>2. sender' \in SenderRecord /\ sender'.pc = "finack" /\ sender'.file = sender.file
        /\ sender'.tries = sender.tries + 1
    BY <1>1, <1>2, <1>6, <2>1 DEF SenderRecord
  <2>3. SenderInv' /\ SenderTurn' = SenderTurn
    BY <1>1, <1>3, <2>1, <2>2 DEF SenderInv, SenderTurn
  <2> QED
    BY <1>1, <1>2, <1>6, <2>2, <2>3, SenderStep
<1> QED
  BY <1>1, <1>4, <1>5, <1>6

LEMMA SendEndsStep == ASSUME TransferInv, SendError \/ SendInterrupted PROVE TransferInv'
<1>1. /\ sender.pc # "error" /\ Abort
      /\ UNCHANGED <<content, disk, found, receiver, complete, faults, repeated>>
      /\ up' = up \/ (up # <<>> /\ up' = Tail(up)) 
  BY DEF SendError, SendInterrupted, Gets, Has, Take, Ended
<1>2. trouble' \in BOOLEAN /\ lost' \in BOOLEAN
  BY TypesOfTransfer DEF TransferInv, SendError, SendInterrupted
<1> QED
  BY <1>1, <1>2, AbortKeeps

-----------------------------------------------------------------------------
\* The steps of Codec.Receive.
LEMMA ReceiverTurns ==
    ASSUME TransferInv
    PROVE  /\ ReceiverTurn \in Turn /\ ReceiverTurn.file = receiver.name /\ (ReceiverTurn.closed <=> NoneOpen)
           /\ receiver.name \in 0..Files /\ receiver.file \in 0..Files
<1>1. receiver \in ReceiverRecord
  BY TypesOfTransfer DEF TransferInv
<1>2. receiver.name \in 0..Files /\ receiver.file \in 0..Files
  BY <1>1 DEF ReceiverRecord
<1>3. NoneOpen \in BOOLEAN
  BY DEF NoneOpen
<1> QED
  BY <1>2, <1>3 DEF ReceiverTurn, Turn

\* What the next frame is about: the receiver is where the stream begins.
LEMMA FrameIsAbout ==
    ASSUME TransferInv, receiver.pc \in Live, down # <<>>
    PROVE  \E r \in Turn : Brings(content, ReceiverTurn, Head(down), r)
<1>1. down \in Seq(Frames)
  BY TypesOfTransfer DEF TransferInv
<1>2. PICK q \in Turn : Stream(content, down, ReceiverTurn, q)
  BY DEF TransferInv, StreamInv
<1> QED
  BY <1>1, <1>2, ReceiverTurns, StreamTakes

\* The rest of the stream begins where the first frame has led to.
LEMMA StreamTaken ==
    ASSUME TransferInv, receiver.pc \in Live, down # <<>>, down' = Tail(down), UNCHANGED <<content, sender>>,
           receiver'.pc \in Live =>
               \A r \in Turn : Brings(content, ReceiverTurn, Head(down), r) => r = ReceiverTurn'
    PROVE  StreamInv'
<1> SUFFICES ASSUME receiver'.pc \in Live
             PROVE  \E q \in Turn : Stream(content, Tail(down), ReceiverTurn', q) /\ (sender.pc # "error" => q = SenderTurn)
  BY DEF StreamInv, SenderTurn
<1>1. down \in Seq(Frames)
  BY TypesOfTransfer DEF TransferInv
<1>2. PICK q \in Turn : Stream(content, down, ReceiverTurn, q) /\ (sender.pc # "error" => q = SenderTurn)
  BY DEF TransferInv, StreamInv
<1>3. PICK r \in Turn : Brings(content, ReceiverTurn, Head(down), r) /\ Stream(content, Tail(down), r, q)
  BY <1>1, <1>2, ReceiverTurns, StreamTakes
<1>4. r = ReceiverTurn'
  BY <1>3
<1> QED
  BY <1>2, <1>3, <1>4

\* A step of the receiver.
LEMMA ReceiverStep ==
    ASSUME TransferInv, UNCHANGED <<content, found, sender, faults, repeated>>, trouble' \in BOOLEAN /\ lost' \in BOOLEAN,
           down' \in Seq(Frames),
           up' = up \/ \E h \in Frames : up' = Append(up, h) /\ (h.type = "ZFIN" => complete' = 1..Files),
           disk' \in [1..Files -> FileContent \cup {None}], receiver' \in ReceiverRecord,
           complete \subseteq complete', complete' \subseteq 1..Files,
           StreamInv', OpenInv', LiveInv', ReceivedIsSent', OthersAreKept',
           receiver'.pc \in {"over", "done"} => complete' = 1..Files
    PROVE  TransferInv'
<1>1. up \in Seq(Frames) /\ ZmodemTypeOK
  BY TypesOfTransfer DEF TransferInv
<1>2. /\ up' \in Seq(Frames)
      /\ \A i \in DOMAIN up' : up'[i].type = "ZFIN" => complete' = 1..Files \/ \E j \in DOMAIN up : up[j].type = "ZFIN"
  <2>1. CASE up' = up
    BY <1>1, <2>1
  <2>2. ASSUME NEW h \in Frames, up' = Append(up, h), h.type = "ZFIN" => complete' = 1..Files
        PROVE  /\ up' \in Seq(Frames)
               /\ \A i \in DOMAIN up' : up'[i].type = "ZFIN" => complete' = 1..Files \/ \E j \in DOMAIN up : up[j].type = "ZFIN"
    <3>1. /\ up' \in Seq(Frames) /\ Len(up') = Len(up) + 1 /\ up'[Len(up) + 1] = h
          /\ \A i \in 1..Len(up) : up'[i] = up[i]
      BY <1>1, <2>2, AppendProperties
    <3>2. Len(up) \in Nat /\ DOMAIN up = 1..Len(up) /\ DOMAIN up' = 1..Len(up) + 1
      BY <1>1, <3>1, LenProperties
    <3>3. ASSUME NEW i \in DOMAIN up', up'[i].type = "ZFIN"
          PROVE  complete' = 1..Files \/ \E j \in DOMAIN up : up[j].type = "ZFIN"
      <4>1. i \in DOMAIN up \/ i = Len(up) + 1
        BY <3>2
      <4> QED
        BY <2>2, <3>1, <3>2, <3>3, <4>1
    <3> QED
      BY <3>1, <3>3
  <2> QED
    BY <2>1, <2>2
<1>3. complete = 1..Files => complete' = 1..Files
  OBVIOUS
<1>4. OverInv'
  BY <1>2, <1>3 DEF TransferInv, OverInv
<1>5. ZmodemTypeOK'
  BY <1>1, <1>2 DEF ZmodemTypeOK, ReceiverRecord
<1>6. (repeated <= faults)' /\ SenderInv'
  BY DEF TransferInv, SenderInv
<1> QED
  BY <1>4, <1>5, <1>6 DEF TransferInv

\* Receive returns an error.
LEMMA FailKeeps ==
    ASSUME TransferInv, ReceiveFails,
           UNCHANGED <<content, disk, found, sender, complete, faults, repeated>>,
           trouble' \in BOOLEAN /\ lost' \in BOOLEAN, down' \in Seq(Frames)
    PROVE  TransferInv'
<1>1. receiver \in ReceiverRecord /\ disk \in [1..Files -> FileContent \cup {None}] /\ complete \subseteq 1..Files
  BY TypesOfTransfer DEF TransferInv
<1>2. receiver' \in ReceiverRecord /\ receiver'.pc = "error"
  BY <1>1 DEF ReceiveFails, ReceiverRecord, Ended
<1>3. Header("CAN", 0) \in Frames /\ Header("CAN", 0).type = "CAN" /\ up' = Append(up, Header("CAN", 0))
  BY HeadersAreFrames DEF Types, ReceiveFails, Say
<1>4. StreamInv' /\ OpenInv' /\ LiveInv'
  BY <1>2 DEF StreamInv, OpenInv, LiveInv, Live
<1>5. ReceivedIsSent' /\ OthersAreKept'
  BY DEF TransferInv, ReceivedIsSent, OthersAreKept
<1> QED
  BY <1>1, <1>2, <1>3, <1>4, <1>5, ReceiverStep

\* The receiver takes a frame that changes no file and completes none.
LEMMA TalkKeeps ==
    ASSUME TransferInv, receiver.pc \in Live, down # <<>>, down' = Tail(down),
           UNCHANGED <<content, disk, found, sender, complete, faults, repeated, trouble, lost>>,
           up' = up \/ \E h \in Frames : up' = Append(up, h) /\ (h.type = "ZFIN" => complete = 1..Files),
           receiver' \in ReceiverRecord, OpenInv', LiveInv',
           receiver'.pc \in Live =>
               \A r \in Turn : Brings(content, ReceiverTurn, Head(down), r) => r = ReceiverTurn',
           receiver'.pc \in {"over", "done"} => complete = 1..Files
    PROVE  TransferInv'
<1>1. /\ disk \in [1..Files -> FileContent \cup {None}] /\ complete \subseteq 1..Files /\ down \in Seq(Frames)
      /\ trouble \in BOOLEAN /\ lost \in BOOLEAN
  BY TypesOfTransfer DEF TransferInv
<1>2. StreamInv'
  BY StreamTaken
<1>3. ReceivedIsSent' /\ OthersAreKept'
  BY DEF TransferInv, ReceivedIsSent, OthersAreKept
<1>4. down' \in Seq(Frames)
  BY <1>1, FirstFrame
<1> QED
  BY <1>1, <1>2, <1>3, <1>4, ReceiverStep

LEMMA ReceiveInitStep == ASSUME TransferInv, ReceiveInit PROVE TransferInv'
<1>1. /\ receiver.pc \in {"init", "loop"} /\ down # <<>> /\ Head(down).type = "ZRQINIT" /\ down' = Tail(down)
      /\ up' = Append(up, Header("ZRINIT", 0)) /\ receiver' = [receiver EXCEPT !.pc = "loop"]
      /\ UNCHANGED <<content, disk, found, sender, complete, faults, repeated, trouble, lost>>
  BY DEF ReceiveInit, Meets, Drop, Say
<1>2. receiver \in ReceiverRecord
  BY TypesOfTransfer DEF TransferInv
<1>3. Header("ZRINIT", 0) \in Frames /\ Header("ZRINIT", 0).type = "ZRINIT"
  BY HeadersAreFrames DEF Types
<1>4. receiver' \in ReceiverRecord /\ receiver'.pc = "loop" /\ receiver'.file = receiver.file
      /\ receiver'.name = receiver.name /\ receiver'.pos = receiver.pos
  BY <1>1, <1>2 DEF ReceiverRecord
<1>5. (NoneOpen' <=> NoneOpen) /\ ReceiverTurn' = ReceiverTurn
  BY <1>1, <1>4 DEF NoneOpen, ReceiverTurn
<1>6. OpenInv'
  BY <1>1, <1>4 DEF TransferInv, OpenInv
<1>7. LiveInv'
  BY <1>1, <1>4, <1>5 DEF TransferInv, LiveInv, Live
<1>8. \A r \in Turn : Brings(content, ReceiverTurn, Head(down), r) => r = ReceiverTurn'
  BY <1>1, <1>5 DEF Brings
<1> QED
  BY <1>1, <1>3, <1>4, <1>6, <1>7, <1>8, TalkKeeps DEF Live

\* A file is opened at the end of what is there.
LEMMA OpenKeeps ==
    ASSUME TransferInv, receiver.pc \in Live, down # <<>>, down' = Tail(down),
           UNCHANGED <<content, found, sender, complete, faults, repeated, trouble, lost>>,
           NEW f \in 1..Files, NEW p \in 0..MaxLen, OpenAt(f, p), complete = 1..f - 1,
           \/ disk[f] = None /\ p = 0
           \/ disk[f] # None /\ p = Len(disk[f]) /\ IsPrefix(disk[f], content[f]),
           \A r \in Turn : Brings(content, ReceiverTurn, Head(down), r) => r = [file |-> f, closed |-> FALSE]
    PROVE  TransferInv'
<1>1. /\ ZmodemTypeOK /\ disk \in [1..Files -> FileContent \cup {None}] /\ complete \subseteq 1..Files /\ down \in Seq(Frames)
      /\ trouble \in BOOLEAN /\ lost \in BOOLEAN /\ receiver \in ReceiverRecord /\ Files \in Nat /\ MaxLen \in Nat /\ None \notin FileContent
  BY TypesOfTransfer, ZmodemNumbers DEF TransferInv
<1>2. content[f] \in Seq(Blocks)
  BY <1>1, ContentOf
<1>3. <<>> \in FileContent /\ Len(<<>>) = 0 /\ IsPrefix(<<>>, content[f])
  <2>1. <<>> \in Seq(Blocks) /\ Len(<<>>) = 0 /\ IsPrefix(<<>>, content[f])
    BY <1>2, EmptyPrefix
  <2>2. Len(<<>>) \in 0..MaxLen
    BY <1>1, <2>1
  <2>3. <<>> \in FileContent
    BY <2>1, <2>2, ContentIsSeq
  <2> QED
    BY <2>1, <2>3
<1>4. /\ receiver' = [receiver EXCEPT !.pc = "loop", !.file = f, !.name = f, !.pos = p]
      /\ disk' = IF disk[f] = None THEN [disk EXCEPT ![f] = <<>>] ELSE disk
      /\ up' = Append(up, Header("ZRPOS", p))
  BY DEF OpenAt, Say
<1>5. Header("ZRPOS", p) \in Frames /\ Header("ZRPOS", p).type = "ZRPOS"
  BY HeadersAreFrames DEF Types
<1>6. receiver' \in ReceiverRecord /\ receiver'.pc = "loop" /\ receiver'.file = f /\ receiver'.name = f /\ receiver'.pos = p
  <2>1. f \in 0..Files
    BY <1>1
  <2> QED
    BY <1>1, <1>4, <2>1 DEF ReceiverRecord
<1>7. /\ disk' \in [1..Files -> FileContent \cup {None}] /\ disk'[f] # None /\ p = Len(disk'[f])
      /\ IsPrefix(disk'[f], content[f]) /\ \A g \in 1..Files : g # f \/ disk[f] # None => disk'[g] = disk[g]
  BY <1>1, <1>3, <1>4
<1>8. OpenInv'
  BY <1>6, <1>7 DEF OpenInv
<1>9. NoneOpen' = FALSE
  BY <1>6 DEF NoneOpen, NoFile
<1>10. ReceiverTurn' = [file |-> f, closed |-> FALSE]
  BY <1>6, <1>9 DEF ReceiverTurn
<1>11. LiveInv'
  BY <1>6, <1>9 DEF LiveInv, NoFile
<1>12. StreamInv'
  BY <1>10, StreamTaken
<1>13. f \notin complete
  BY <1>1
<1>14. ReceivedIsSent'
  BY <1>1, <1>7, <1>13 DEF TransferInv, ReceivedIsSent
<1>15. OthersAreKept'
  BY <1>7 DEF TransferInv, OthersAreKept
<1>16. down' \in Seq(Frames)
  BY <1>1, FirstFrame
<1> QED
  BY <1>1, <1>5, <1>4, <1>6, <1>7, <1>8, <1>11, <1>12, <1>14, <1>15, <1>16, ReceiverStep

LEMMA ReceiveFileStep == ASSUME TransferInv, ReceiveFile PROVE TransferInv'
<1> DEFINE h == Head(down)
           f == h.n
           have == IF disk[f] = None THEN 0 ELSE Len(disk[f])
<1>1. /\ receiver.pc = "loop" /\ down # <<>> /\ h.type = "ZFILE" /\ down' = Tail(down)
      /\ UNCHANGED <<content, found, sender, complete, faults, repeated, trouble, lost>>
      /\ \/ ReceiveFails /\ UNCHANGED disk
         \/ /\ NeedsCRC(f) /\ UNCHANGED disk /\ up' = Append(up, Header("ZCRC", have))
            /\ receiver' = [receiver EXCEPT !.pc = "crc", !.name = f, !.pos = have, !.repeats = 0]
         \/ ~NeedsCRC(f) /\ OpenAt(f, have)
  BY DEF ReceiveFile, Meets, Drop, Say
<1>2. /\ ZmodemTypeOK /\ disk \in [1..Files -> FileContent \cup {None}] /\ down \in Seq(Frames) /\ trouble \in BOOLEAN /\ lost \in BOOLEAN
      /\ receiver \in ReceiverRecord /\ Files \in Nat /\ MaxLen \in Nat /\ MaxRepeats \in Nat
  BY TypesOfTransfer, ZmodemNumbers DEF TransferInv
<1>3. receiver.pc \in Live
  BY <1>1 DEF Live
<1>4. /\ f \in 1..Files /\ ReceiverTurn.file = (IF ReceiverTurn.closed THEN f - 1 ELSE f)
      /\ \A r \in Turn : Brings(content, ReceiverTurn, h, r) => r = [file |-> f, closed |-> FALSE]
  BY <1>1, <1>3, FrameIsAbout DEF Brings
<1> HIDE DEF h
<1>5. complete = 1..f - 1 /\ receiver.file \in {NoFile, f}
  <2>1. LiveInv
    BY DEF TransferInv
  <2>2. CASE NoneOpen
    BY <1>1, <1>3, <1>4, <2>1, <2>2, ReceiverTurns DEF LiveInv, NoneOpen
  <2>3. CASE ~NoneOpen
    BY <1>1, <1>3, <1>4, <2>1, <2>3, ReceiverTurns DEF LiveInv, NoneOpen
  <2> QED
    BY <2>2, <2>3
<1>6. disk[f] # None => disk[f] \in Seq(Blocks) /\ Len(disk[f]) \in 0..MaxLen
  BY <1>2, <1>4, ContentIsSeq
<1>7. have \in 0..MaxLen /\ have \in Nat
  BY <1>2, <1>6
<1>8. CASE ReceiveFails /\ UNCHANGED disk
  <2>1. down' \in Seq(Frames)
    BY <1>1, <1>2, FirstFrame
  <2> QED
    BY <1>1, <1>2, <1>8, <2>1, FailKeeps
<1>9. CASE /\ NeedsCRC(f) /\ UNCHANGED disk /\ up' = Append(up, Header("ZCRC", have))
           /\ receiver' = [receiver EXCEPT !.pc = "crc", !.name = f, !.pos = have, !.repeats = 0]
  <2>1. Header("ZCRC", have) \in Frames /\ Header("ZCRC", have).type = "ZCRC"
    BY <1>7, HeadersAreFrames DEF Types
  <2>2. 0 \in 0..MaxRepeats /\ f \in 0..Files
    BY <1>2, <1>4
  <2>3. receiver' \in ReceiverRecord /\ receiver'.pc = "crc" /\ receiver'.name = f /\ receiver'.pos = have
        /\ receiver'.file = receiver.file
    BY <1>2, <1>7, <1>9, <2>2 DEF ReceiverRecord
  <2>4. NoneOpen' = FALSE
    BY <2>3 DEF NoneOpen
  <2>5. ReceiverTurn' = [file |-> f, closed |-> FALSE]
    BY <2>3, <2>4 DEF ReceiverTurn
  <2>6. OpenInv'
    BY <1>9, <2>3 DEF OpenInv, NeedsCRC
  <2>7. LiveInv'
    BY <1>1, <1>4, <1>5, <2>3, <2>4 DEF LiveInv, NoFile
  <2>8. \A r \in Turn : Brings(content, ReceiverTurn, Head(down), r) => r = ReceiverTurn'
    BY <1>4, <2>5 DEF h
  <2>9. receiver'.pc \notin {"over", "done"}
    BY <2>3
  <2> QED
    BY <1>1, <1>3, <1>9, <2>1, <2>3, <2>6, <2>7, <2>8, <2>9, TalkKeeps
<1>10. CASE ~NeedsCRC(f) /\ OpenAt(f, have)
  <2>1. disk[f] = None \/ disk[f] = <<>>
    BY <1>10 DEF NeedsCRC
  <2>2. \/ disk[f] = None /\ have = 0
        \/ disk[f] # None /\ have = Len(disk[f]) /\ IsPrefix(disk[f], content[f])
    <3>1. content[f] \in Seq(Blocks)
      BY <1>2, <1>4, ContentOf
    <3> QED
      BY <2>1, <3>1, EmptyPrefix
  <2>3. \A r \in Turn : Brings(content, ReceiverTurn, Head(down), r) => r = [file |-> f, closed |-> FALSE]
    BY <1>4 DEF h
  <2> HIDE DEF have, f
  <2> QED
    BY <1>1, <1>3, <1>4, <1>5, <1>7, <1>10, <2>2, <2>3, OpenKeeps
<1> QED
  BY <1>1, <1>8, <1>9, <1>10

LEMMA ReceiveCRCStep == ASSUME TransferInv, ReceiveCRC PROVE TransferInv'
<1> DEFINE h == Head(down)
           f == receiver.name
<1>1. /\ receiver.pc = "crc" /\ down # <<>> /\ h.type = "ZCRC" /\ down' = Tail(down)
      /\ UNCHANGED <<content, found, sender, complete, faults, repeated, trouble, lost>>
      /\ \/ h.data = disk[f] /\ OpenAt(f, receiver.pos)
         \/ ReceiveFails /\ UNCHANGED disk
  BY DEF ReceiveCRC, Meets, Drop, Agrees
<1>2. /\ down \in Seq(Frames) /\ trouble \in BOOLEAN /\ lost \in BOOLEAN /\ receiver \in ReceiverRecord /\ Files \in Nat
  BY TypesOfTransfer, ZmodemNumbers DEF TransferInv
<1>3. receiver.pc \in Live /\ ~NoneOpen
  BY <1>1 DEF Live, NoneOpen
<1>4. f \in 1..Files /\ complete = 1..f - 1 /\ receiver.pos \in 0..MaxLen
      /\ disk[f] # None /\ receiver.pos = Len(disk[f])
  BY <1>1, <1>2, <1>3, ReceiverTurns DEF TransferInv, LiveInv, OpenInv, NoFile, ReceiverRecord
<1>5. ReceiverTurn = [file |-> f, closed |-> FALSE]
  <2>1. NoneOpen = FALSE
    BY <1>3 DEF NoneOpen
  <2> QED
    BY <2>1 DEF ReceiverTurn
<1>6. /\ IsPrefix(h.data, content[f])
      /\ \A r \in Turn : Brings(content, ReceiverTurn, h, r) => r = ReceiverTurn
  BY <1>1, <1>3, <1>5, FrameIsAbout DEF Brings
<1>7. CASE ReceiveFails /\ UNCHANGED disk
  <2>1. down' \in Seq(Frames)
    BY <1>1, <1>2, FirstFrame
  <2> QED
    BY <1>1, <1>2, <1>7, <2>1, FailKeeps
<1>8. CASE h.data = disk[f] /\ OpenAt(f, receiver.pos)
  <2>1. IsPrefix(disk[f], content[f])
    BY <1>6, <1>8
  <2>2. \A r \in Turn : Brings(content, ReceiverTurn, Head(down), r) => r = [file |-> f, closed |-> FALSE]
    BY <1>5, <1>6
  <2> HIDE DEF f, h
  <2> QED
    BY <1>1, <1>3, <1>4, <1>8, <2>1, <2>2, OpenKeeps
<1> QED
  BY <1>1, <1>7, <1>8

LEMMA ReceiveRepeatedStep == ASSUME TransferInv, ReceiveRepeated PROVE TransferInv'
<1>1. /\ receiver.pc = "crc" /\ down # <<>> /\ Head(down).type = "ZFILE" /\ down' = Tail(down)
      /\ UNCHANGED <<content, disk, found, sender, complete, faults, repeated, trouble, lost>>
      /\ \/ /\ Head(down).n = receiver.name /\ receiver.repeats < MaxRepeats
            /\ receiver' = [receiver EXCEPT !.repeats = @ + 1] /\ UNCHANGED up
         \/ ReceiveFails
  BY DEF ReceiveRepeated, Meets, Drop, SameOffer
<1>2. /\ down \in Seq(Frames) /\ trouble \in BOOLEAN /\ lost \in BOOLEAN /\ receiver \in ReceiverRecord /\ MaxRepeats \in Nat
  BY TypesOfTransfer, ZmodemNumbers DEF TransferInv
<1>3. CASE ReceiveFails
  <2>1. down' \in Seq(Frames)
    BY <1>1, <1>2, FirstFrame
  <2> QED
    BY <1>1, <1>2, <1>3, <2>1, FailKeeps
<1>4. CASE /\ Head(down).n = receiver.name /\ receiver.repeats < MaxRepeats
           /\ receiver' = [receiver EXCEPT !.repeats = @ + 1] /\ UNCHANGED up
  <2>1. receiver.repeats + 1 \in 0..MaxRepeats
    BY <1>2, <1>4 DEF ReceiverRecord
  <2>2. receiver' \in ReceiverRecord /\ receiver'.pc = "crc" /\ receiver'.name = receiver.name
        /\ receiver'.pos = receiver.pos /\ receiver'.file = receiver.file
    BY <1>1, <1>2, <1>4, <2>1 DEF ReceiverRecord
  <2>3. NoneOpen' = FALSE /\ NoneOpen = FALSE
    BY <1>1, <2>2 DEF NoneOpen
  <2>4. ReceiverTurn' = [file |-> receiver.name, closed |-> FALSE]
    BY <2>2, <2>3 DEF ReceiverTurn
  <2>5. OpenInv'
    BY <1>1, <2>2 DEF TransferInv, OpenInv
  <2>6. LiveInv'
    BY <1>1, <2>2, <2>3 DEF TransferInv, LiveInv, Live
  <2>7. \A r \in Turn : Brings(content, ReceiverTurn, Head(down), r) => r = ReceiverTurn'
    BY <1>1, <1>4, <2>4 DEF Brings
  <2>8. receiver.pc \in Live /\ receiver'.pc \notin {"over", "done"}
    BY <1>1, <2>2 DEF Live
  <2> QED
    BY <1>1, <1>4, <2>2, <2>5, <2>6, <2>7, <2>8, TalkKeeps
<1> QED
  BY <1>1, <1>3, <1>4

LEMMA ReceiveDataStep == ASSUME TransferInv, ReceiveData PROVE TransferInv'
<1> DEFINE h == Head(down)
           f == receiver.file
           n == receiver.pos
<1>1. /\ receiver.pc = "loop" /\ down # <<>> /\ h.type = "ZDATA" /\ down' = Tail(down)
      /\ UNCHANGED <<content, found, sender, complete, faults, repeated, trouble, lost>>
      /\ \/ ReceiveFails /\ UNCHANGED disk
         \/ UNCHANGED <<disk, receiver>> /\ up' = Append(up, Header("ZRPOS", n))
         \/ /\ f # NoFile /\ h.n = n /\ h.good
            /\ disk' = [disk EXCEPT ![f] = SubSeq(@, 1, n) \o h.data]
            /\ receiver' = [receiver EXCEPT !.pos = @ + Len(h.data)]
            /\ up' = Append(up, Header("ZACK", n + Len(h.data)))
  BY DEF ReceiveData, Meets, Drop, Say, BlockFits
<1>2. /\ ZmodemTypeOK /\ disk \in [1..Files -> FileContent \cup {None}] /\ down \in Seq(Frames) /\ trouble \in BOOLEAN /\ lost \in BOOLEAN
      /\ receiver \in ReceiverRecord /\ Files \in Nat /\ MaxLen \in Nat /\ None \notin FileContent
      /\ complete \subseteq 1..Files
  BY TypesOfTransfer, ZmodemNumbers DEF TransferInv
<1>3. receiver.pc \in Live /\ n \in 0..MaxLen /\ n \in Nat
  BY <1>1, <1>2 DEF Live, ReceiverRecord
<1>4. \A r \in Turn : Brings(content, ReceiverTurn, h, r) => r = ReceiverTurn
  BY <1>1 DEF Brings
<1>5. down' \in Seq(Frames)
  BY <1>1, <1>2, FirstFrame
<1>6. CASE ReceiveFails /\ UNCHANGED disk
  BY <1>1, <1>2, <1>5, <1>6, FailKeeps
<1>7. CASE UNCHANGED <<disk, receiver>> /\ up' = Append(up, Header("ZRPOS", n))
  <2>1. Header("ZRPOS", n) \in Frames /\ Header("ZRPOS", n).type = "ZRPOS"
    BY <1>3, HeadersAreFrames DEF Types
  <2>2. OpenInv' /\ LiveInv' /\ ReceiverTurn' = ReceiverTurn
    BY <1>1, <1>7 DEF TransferInv, OpenInv, LiveInv, ReceiverTurn, NoneOpen
  <2>3. receiver'.pc \notin {"over", "done"}
    BY <1>1, <1>7
  <2> HIDE DEF n, f
  <2> QED
    BY <1>1, <1>2, <1>3, <1>4, <1>7, <2>1, <2>2, <2>3, TalkKeeps
\* The block is the next one of the open file.
<1>8. CASE /\ f # NoFile /\ h.n = n /\ h.good
           /\ disk' = [disk EXCEPT ![f] = SubSeq(@, 1, n) \o h.data]
           /\ receiver' = [receiver EXCEPT !.pos = @ + Len(h.data)]
           /\ up' = Append(up, Header("ZACK", n + Len(h.data)))
  <2>1. ~NoneOpen /\ f = receiver.name /\ f \in 1..Files /\ complete = 1..f - 1
        /\ disk[f] # None /\ n = Len(disk[f]) /\ IsPrefix(disk[f], content[f])
    BY <1>1, <1>2, <1>3, <1>8, ReceiverTurns DEF TransferInv, LiveInv, OpenInv, NoneOpen, NoFile
  <2>2. ReceiverTurn.file = f
    BY <2>1, ReceiverTurns
  <2>3. n < Len(content[f]) /\ h.data = SubSeq(content[f], n + 1, n + 1)
    BY <1>1, <1>3, <1>8, <2>2, FrameIsAbout DEF Brings
  <2>4. /\ disk[f] \in Seq(Blocks) /\ content[f] \in Seq(Blocks)
        /\ Len(content[f]) \in 0..MaxLen /\ Len(content[f]) \in Nat
    BY <1>2, <2>1, ContentIsSeq, ContentOf
  <2> DEFINE longer == SubSeq(disk[f], 1, n) \o h.data
  <2>5. longer \in Seq(Blocks) /\ Len(longer) = n + 1 /\ IsPrefix(longer, content[f]) /\ Len(h.data) = 1
    <3> DEFINE s == disk[f]
               t == content[f]
               grown == SubSeq(s, 1, Len(s)) \o SubSeq(t, Len(s) + 1, Len(s) + 1)
    <3>1. s \in Seq(Blocks) /\ t \in Seq(Blocks) /\ IsPrefix(s, t) /\ Len(s) < Len(t)
      <4>1. s \in Seq(Blocks) /\ t \in Seq(Blocks)
        BY <2>4
      <4>2. IsPrefix(s, t) /\ Len(s) < Len(t)
        BY <2>1, <2>3
      <4> QED
        BY <4>1, <4>2
    <3>2. n = Len(s) /\ longer = grown /\ h.data = SubSeq(t, Len(s) + 1, Len(s) + 1)
      <4>1. n = Len(s)
        BY <2>1
      <4>2. h.data = SubSeq(t, Len(s) + 1, Len(s) + 1)
        BY <2>3, <4>1
      <4> HIDE DEF n, h
      <4> QED
        BY <4>1, <4>2
    <3> HIDE DEF s, t, n, h, longer
    <3>3. /\ grown \in Seq(Blocks) /\ Len(grown) = Len(s) + 1 /\ IsPrefix(grown, t)
          /\ Len(SubSeq(t, Len(s) + 1, Len(s) + 1)) = 1
      BY <3>1, PrefixGrows
    <3> HIDE DEF grown
    <3> QED
      BY <3>2, <3>3 DEF t
  <2>6. disk' = [disk EXCEPT ![f] = longer]
    BY <1>8
  <2> HIDE DEF longer
  <2>7. n + 1 \in 0..MaxLen /\ n + Len(h.data) = n + 1
    <3>1. n \in Nat /\ n < Len(content[f]) /\ Len(content[f]) \in 0..MaxLen /\ MaxLen \in Nat /\ Len(h.data) = 1
      BY <1>2, <1>3, <2>3, <2>4, <2>5
    <3> HIDE DEF n, h, f
    <3> QED
      BY <3>1
  <2>8. longer \in FileContent /\ longer # None
    BY <1>2, <2>5, <2>7, ContentIsSeq
  <2>9. disk' \in [1..Files -> FileContent \cup {None}] /\ disk'[f] = longer
        /\ \A g \in 1..Files : g # f => disk'[g] = disk[g]
    BY <1>2, <2>1, <2>6, <2>8
  <2>10. receiver' \in ReceiverRecord /\ receiver'.pc = "loop" /\ receiver'.file = f /\ receiver'.name = receiver.name
         /\ receiver'.pos = n + 1
    <3>1. receiver' = [receiver EXCEPT !.pos = n + 1]
      BY <1>8, <2>7
    <3> QED
      BY <1>1, <1>2, <2>7, <3>1 DEF ReceiverRecord
  <2>11. Header("ZACK", n + Len(h.data)) \in Frames /\ Header("ZACK", n + Len(h.data)).type = "ZACK"
    BY <1>3, <2>7, HeadersAreFrames DEF Types
  <2>12. OpenInv'
    <3>1. disk'[f] # None /\ receiver'.pos = Len(disk'[f]) /\ IsPrefix(disk'[f], content[f])
      BY <2>5, <2>8, <2>9, <2>10
    <3>2. content' = content /\ receiver'.pc = "loop" /\ receiver'.file = f
      BY <1>1, <2>10
    <3> HIDE DEF f, n
    <3> QED
      BY <3>1, <3>2 DEF OpenInv
  <2>13. NoneOpen' = NoneOpen /\ ReceiverTurn' = ReceiverTurn
    BY <1>1, <2>10 DEF NoneOpen, ReceiverTurn
  <2>14. LiveInv'
    BY <1>1, <1>3, <2>10, <2>13 DEF TransferInv, LiveInv
  <2>15. StreamInv'
    BY <1>1, <1>3, <1>4, <2>13, StreamTaken
  <2>16. f \notin complete
    BY <1>2, <2>1
  <2>17. ReceivedIsSent'
    BY <1>1, <1>2, <2>9, <2>16 DEF TransferInv, ReceivedIsSent
  <2>18. OthersAreKept'
    BY <1>1, <2>1, <2>9 DEF TransferInv, OthersAreKept
  <2>19. receiver'.pc \notin {"over", "done"}
    BY <2>10
  <2> HIDE DEF n, f, h
  <2> QED
    BY <1>1, <1>2, <1>5, <1>8, <2>9, <2>10, <2>11, <2>12, <2>14, <2>15, <2>17, <2>18, <2>19, ReceiverStep
<1> QED
  BY <1>1, <1>6, <1>7, <1>8

LEMMA ReceiveEOFStep == ASSUME TransferInv, ReceiveEOF PROVE TransferInv'
<1> DEFINE f == receiver.file
<1>1. /\ receiver.pc = "loop" /\ down # <<>> /\ Head(down).type = "ZEOF" /\ down' = Tail(down)
      /\ UNCHANGED <<content, disk, found, sender, faults, repeated, trouble, lost>>
      /\ \/ ReceiveFails /\ UNCHANGED complete
         \/ /\ f # NoFile /\ receiver.pos = Len(content[f]) /\ complete' = complete \cup {f}
            /\ receiver' = [receiver EXCEPT !.file = NoFile] /\ up' = Append(up, Header("ZRINIT", 0))
  BY DEF ReceiveEOF, Meets, Drop, Say, Whole
<1>2. /\ ZmodemTypeOK /\ disk \in [1..Files -> FileContent \cup {None}] /\ down \in Seq(Frames) /\ trouble \in BOOLEAN /\ lost \in BOOLEAN
      /\ receiver \in ReceiverRecord /\ Files \in Nat /\ complete \subseteq 1..Files
  BY TypesOfTransfer, ZmodemNumbers DEF TransferInv
<1>3. down' \in Seq(Frames) /\ receiver.pc \in Live
  BY <1>1, <1>2, FirstFrame DEF Live
<1>4. CASE ReceiveFails /\ UNCHANGED complete
  BY <1>1, <1>2, <1>3, <1>4, FailKeeps
<1>5. CASE /\ f # NoFile /\ receiver.pos = Len(content[f]) /\ complete' = complete \cup {f}
           /\ receiver' = [receiver EXCEPT !.file = NoFile] /\ up' = Append(up, Header("ZRINIT", 0))
  <2>1. ~NoneOpen /\ f = receiver.name /\ f \in 1..Files /\ complete = 1..f - 1
        /\ disk[f] # None /\ receiver.pos = Len(disk[f]) /\ IsPrefix(disk[f], content[f])
    BY <1>1, <1>2, <1>3, <1>5, ReceiverTurns DEF TransferInv, LiveInv, OpenInv, NoneOpen, NoFile
  <2>2. disk[f] = content[f]
    <3>1. disk[f] \in Seq(Blocks) /\ content[f] \in Seq(Blocks)
      BY <1>2, <2>1, ContentIsSeq, ContentOf
    <3> QED
      BY <1>5, <2>1, <3>1, WholePrefix
  <2>3. NoFile \in 0..Files
    BY <1>2 DEF NoFile
  <2>4. receiver' \in ReceiverRecord /\ receiver'.pc = "loop" /\ receiver'.file = NoFile
        /\ receiver'.name = f
    BY <1>1, <1>2, <1>5, <2>1, <2>3 DEF ReceiverRecord
  <2>5. NoneOpen' = TRUE /\ NoneOpen = FALSE
    BY <2>1, <2>4 DEF NoneOpen
  <2>6. ReceiverTurn = [file |-> f, closed |-> FALSE] /\ ReceiverTurn' = [file |-> f, closed |-> TRUE]
    BY <2>1, <2>4, <2>5 DEF ReceiverTurn
  <2>7. \A r \in Turn : Brings(content, ReceiverTurn, Head(down), r) => r = ReceiverTurn'
    BY <1>1, <2>6 DEF Brings
  <2>8. OpenInv'
    BY <2>4 DEF OpenInv
  <2>9. complete' = 1..f /\ complete' \subseteq 1..Files
    BY <1>2, <1>5, <2>1
  <2>10. LiveInv'
    BY <2>4, <2>5, <2>9 DEF LiveInv
  <2>11. StreamInv'
    BY <1>1, <1>3, <2>7, StreamTaken
  <2>12. ReceivedIsSent' /\ OthersAreKept'
    BY <1>1, <1>5, <2>2 DEF TransferInv, ReceivedIsSent, OthersAreKept
  <2>13. Header("ZRINIT", 0) \in Frames /\ Header("ZRINIT", 0).type = "ZRINIT"
    BY HeadersAreFrames DEF Types
  <2>14. receiver'.pc \notin {"over", "done"}
    BY <2>4
  <2> QED
    BY <1>1, <1>2, <1>3, <1>5, <2>4, <2>8, <2>9, <2>10, <2>11, <2>12, <2>13, <2>14, ReceiverStep
<1> QED
  BY <1>1, <1>4, <1>5

\* ZFIN comes when the newest file is the last one and is complete.
LEMMA ReceiveFinStep == ASSUME TransferInv, ReceiveFin PROVE TransferInv'
<1>1. /\ receiver.pc = "loop" /\ down # <<>> /\ Head(down).type = "ZFIN" /\ down' = Tail(down)
      /\ UNCHANGED <<content, disk, found, sender, complete, faults, repeated, trouble, lost>>
      /\ \/ ReceiveFails
         \/ /\ receiver.file = NoFile /\ receiver' = [receiver EXCEPT !.pc = "over"]
            /\ up' = Append(up, Header("ZFIN", 0))
  BY DEF ReceiveFin, Meets, Drop, Say
<1>2. /\ down \in Seq(Frames) /\ trouble \in BOOLEAN /\ lost \in BOOLEAN /\ receiver \in ReceiverRecord
  BY TypesOfTransfer DEF TransferInv
<1>3. down' \in Seq(Frames) /\ receiver.pc \in Live
  BY <1>1, <1>2, FirstFrame DEF Live
<1>4. CASE ReceiveFails
  BY <1>1, <1>2, <1>3, <1>4, FailKeeps
<1>5. CASE /\ receiver.file = NoFile /\ receiver' = [receiver EXCEPT !.pc = "over"]
           /\ up' = Append(up, Header("ZFIN", 0))
  <2>1. NoneOpen
    BY <1>1, <1>5 DEF NoneOpen
  <2>2. ReceiverTurn.file = Files
    BY <1>1, <1>3, FrameIsAbout DEF Brings
  <2>3. complete = 1..Files
    BY <1>3, <2>1, <2>2, ReceiverTurns DEF TransferInv, LiveInv
  <2>4. receiver' \in ReceiverRecord /\ receiver'.pc = "over"
    BY <1>2, <1>5 DEF ReceiverRecord
  <2>5. OpenInv' /\ LiveInv' /\ receiver'.pc \notin Live
    BY <2>4 DEF OpenInv, LiveInv, Live
  <2>6. Header("ZFIN", 0) \in Frames
    BY HeadersAreFrames DEF Types
  <2> QED
    BY <1>1, <1>3, <1>5, <2>3, <2>4, <2>5, <2>6, TalkKeeps
<1> QED
  BY <1>1, <1>4, <1>5

LEMMA ReceiveOverStep == ASSUME TransferInv, ReceiveOver \/ ReceiveStreamEnds PROVE TransferInv'
<1>1. /\ receiver.pc = "over" /\ UNCHANGED <<content, disk, found, sender, complete, faults, repeated, trouble, lost>>
      /\ down' = down \/ (down # <<>> /\ down' = Tail(down))
      /\ \/ ReceiveFails
         \/ receiver' = [receiver EXCEPT !.pc = "done"] /\ UNCHANGED up
         \/ UNCHANGED <<receiver, up>>
  BY DEF ReceiveOver, ReceiveStreamEnds, Meets, Drop
<1>2. /\ down \in Seq(Frames) /\ trouble \in BOOLEAN /\ lost \in BOOLEAN /\ receiver \in ReceiverRecord
      /\ disk \in [1..Files -> FileContent \cup {None}] /\ complete \subseteq 1..Files
  BY TypesOfTransfer DEF TransferInv
<1>3. down' \in Seq(Frames)
  BY <1>1, <1>2, FirstFrame
<1>4. CASE ReceiveFails
  BY <1>1, <1>2, <1>3, <1>4, FailKeeps
<1>5. ASSUME receiver' \in ReceiverRecord, receiver'.pc \in {"over", "done"}, UNCHANGED up
      PROVE  TransferInv'
  <2>1. OpenInv' /\ LiveInv' /\ StreamInv'
    BY <1>5 DEF OpenInv, LiveInv, StreamInv, Live
  <2>2. ReceivedIsSent' /\ OthersAreKept' /\ complete = 1..Files
    BY <1>1 DEF TransferInv, ReceivedIsSent, OthersAreKept, OverInv
  <2> QED
    BY <1>1, <1>2, <1>3, <1>5, <2>1, <2>2, ReceiverStep
<1>6. CASE receiver' = [receiver EXCEPT !.pc = "done"] /\ UNCHANGED up
  <2>1. receiver' \in ReceiverRecord /\ receiver'.pc = "done"
    BY <1>2, <1>6 DEF ReceiverRecord, Ended
  <2> QED
    BY <1>5, <1>6, <2>1
<1>7. CASE UNCHANGED <<receiver, up>>
  BY <1>1, <1>2, <1>5, <1>7
<1> QED
  BY <1>1, <1>4, <1>6, <1>7

LEMMA ReceiveEndsStep == ASSUME TransferInv, ReceiveError \/ ReceiveInterrupted PROVE TransferInv'
<1>1. down \in Seq(Frames) /\ trouble \in BOOLEAN /\ lost \in BOOLEAN
  BY TypesOfTransfer DEF TransferInv
<1>2. CASE ReceiveError
  <2>1. down # <<>> /\ down' = Tail(down) /\ ReceiveFails
        /\ UNCHANGED <<content, disk, found, sender, complete, faults, repeated, trouble, lost>>
    BY <1>2 DEF ReceiveError, Meets, Drop
  <2>2. down' \in Seq(Frames)
    BY <1>1, <2>1, FirstFrame
  <2> QED
    BY <1>1, <2>1, <2>2, FailKeeps
<1>3. CASE ReceiveInterrupted
  BY <1>1, <1>3, FailKeeps DEF ReceiveInterrupted
<1> QED
  BY <1>2, <1>3

-----------------------------------------------------------------------------
\* A frame that is damaged is BAD, or keeps what it says of the stream.
LEMMA DamageStep == ASSUME TransferInv, Damage PROVE TransferInv'
<1>1. /\ faults < MaxFaults /\ faults' = faults + 1 /\ trouble' = TRUE
      /\ UNCHANGED <<content, disk, found, sender, receiver, complete, repeated, lost>>
      /\ \/ /\ UNCHANGED up
            /\ \E i \in DOMAIN down : \E h \in Spoil(down[i]) : down' = [down EXCEPT ![i] = h]
         \/ UNCHANGED down /\ \E i \in DOMAIN up : up' = [up EXCEPT ![i].type = "BAD"]
  BY DEF Damage
<1>2. /\ ZmodemTypeOK /\ down \in Seq(Frames) /\ up \in Seq(Frames) /\ faults \in 0..MaxFaults /\ repeated \in 0..MaxFaults
      /\ MaxFaults \in Nat /\ repeated <= faults
  BY TypesOfTransfer, ZmodemNumbers DEF TransferInv
<1>3. faults' \in 0..MaxFaults /\ (repeated <= faults)'
  BY <1>1, <1>2
<1>4. SenderInv' /\ OpenInv' /\ LiveInv' /\ ReceivedIsSent' /\ OthersAreKept'
  BY <1>1 DEF TransferInv, SenderInv, OpenInv, LiveInv, NoneOpen, ReceivedIsSent, OthersAreKept
<1>5. CASE /\ UNCHANGED up
           /\ \E i \in DOMAIN down : \E h \in Spoil(down[i]) : down' = [down EXCEPT ![i] = h]
  <2>0. PICK i \in DOMAIN down : \E h \in Spoil(down[i]) : down' = [down EXCEPT ![i] = h]
    BY <1>5
  <2>1. PICK h \in Spoil(down[i]) : down' = [down EXCEPT ![i] = h]
    BY <2>0
  <2>2. i \in 1..Len(down) /\ down[i] \in Frames
    BY <1>2, LenProperties, ElementOfSeq
  <2>3. h \in Frames /\ \A c : \A a, b \in Turn : Brings(c, a, down[i], b) => Brings(c, a, h, b)
    <3>1. CASE h = [down[i] EXCEPT !.type = "BAD"]
      <4>1. h \in Frames /\ h.type = "BAD"
        BY <2>2, <3>1 DEF Frames, Types
      <4> QED
        BY <4>1 DEF Brings
    <3>2. CASE down[i].type = "ZFILE" /\ h = [down[i] EXCEPT !.good = FALSE]
      <4>1. h \in Frames /\ h.type = "ZFILE" /\ h.n = down[i].n
        BY <2>2, <3>2 DEF Frames, Types
      <4> QED
        BY <3>2, <4>1 DEF Brings
    <3>3. ASSUME NEW b \in Blocks, down[i].type = "ZDATA", h = [down[i] EXCEPT !.good = FALSE, !.data = <<b>>]
          PROVE  h \in Frames /\ \A c : \A a, z \in Turn : Brings(c, a, down[i], z) => Brings(c, a, h, z)
      <4>1. <<b>> \in Seq(Blocks)
        OBVIOUS
      <4>2. h \in Frames /\ h.type = "ZDATA" /\ ~h.good
        BY <2>2, <3>3, <4>1 DEF Frames, Types
      <4> QED
        BY <3>3, <4>2 DEF Brings
    <3> QED
      BY <2>1, <3>1, <3>2, <3>3 DEF Spoil
  <2>4. down' \in Seq(Frames)
    BY <1>2, <2>1, <2>2, <2>3, ExceptSeq
  <2>5. StreamInv'
    <3> SUFFICES ASSUME receiver.pc \in Live
                 PROVE  \E q \in Turn : Stream(content, down', ReceiverTurn, q) /\ (sender.pc # "error" => q = SenderTurn)
      BY <1>1 DEF StreamInv, ReceiverTurn, NoneOpen, SenderTurn
    <3>1. PICK q \in Turn : Stream(content, down, ReceiverTurn, q) /\ (sender.pc # "error" => q = SenderTurn)
      BY DEF TransferInv, StreamInv
    <3>2. Stream(content, down', ReceiverTurn, q)
      BY <1>2, <2>1, <2>3, <3>1, ReceiverTurns, StreamSpoils
    <3> QED
      BY <3>1, <3>2
  <2>6. OverInv'
    BY <1>1, <1>5 DEF TransferInv, OverInv
  <2>7. ZmodemTypeOK'
    BY <1>1, <1>2, <1>3, <1>5, <2>4 DEF ZmodemTypeOK
  <2> QED
    BY <1>3, <1>4, <2>5, <2>6, <2>7 DEF TransferInv
<1>6. CASE UNCHANGED down /\ \E i \in DOMAIN up : up' = [up EXCEPT ![i].type = "BAD"]
  <2>1. PICK i \in DOMAIN up : up' = [up EXCEPT ![i].type = "BAD"]
    BY <1>6
  <2>2. i \in 1..Len(up) /\ up[i] \in Frames /\ DOMAIN up = 1..Len(up)
    BY <1>2, LenProperties, ElementOfSeq
  <2> DEFINE h == [up[i] EXCEPT !.type = "BAD"]
  <2>3. h \in Frames /\ h.type = "BAD"
    BY <2>2 DEF Frames, Types
  <2>4. up' = [up EXCEPT ![i] = h]
    BY <2>1
  <2> HIDE DEF h
  <2>5. up' \in Seq(Frames) /\ Len(up') = Len(up) /\ \A j \in 1..Len(up) : up'[j] = IF j = i THEN h ELSE up[j]
    BY <1>2, <2>2, <2>3, <2>4, ExceptSeq
  <2>6. \A j \in DOMAIN up' : up'[j].type = "ZFIN" => j \in DOMAIN up /\ up[j].type = "ZFIN"
    <3>1. DOMAIN up' = DOMAIN up
      BY <2>2, <2>5, LenProperties
    <3> QED
      BY <2>2, <2>3, <2>5, <3>1
  <2>7. OverInv'
    BY <1>1, <2>6 DEF TransferInv, OverInv
  <2>8. StreamInv'
    BY <1>1, <1>6 DEF TransferInv, StreamInv, ReceiverTurn, NoneOpen, SenderTurn
  <2>9. ZmodemTypeOK'
    BY <1>1, <1>2, <1>3, <1>6, <2>5 DEF ZmodemTypeOK
  <2> QED
    BY <1>3, <1>4, <2>7, <2>8, <2>9 DEF TransferInv
<1> QED
  BY <1>1, <1>5, <1>6

LEMMA RepeatStep == ASSUME TransferInv, NEW i \in DOMAIN down, Repeat(i) PROVE TransferInv'
<1>1. /\ faults < MaxFaults /\ faults' = faults + 1 /\ repeated' \in {repeated, repeated + 1}
      /\ down[i].type \in {"ZRQINIT", "ZFILE"} /\ down' = InsertAt(down, i, down[i])
      /\ UNCHANGED <<content, disk, found, up, sender, receiver, complete, trouble, lost>>
  BY DEF Repeat
<1>2. /\ ZmodemTypeOK /\ down \in Seq(Frames) /\ faults \in 0..MaxFaults /\ repeated \in 0..MaxFaults
      /\ MaxFaults \in Nat /\ repeated <= faults
  BY TypesOfTransfer, ZmodemNumbers DEF TransferInv
<1>3. faults' \in 0..MaxFaults /\ repeated' \in 0..MaxFaults /\ (repeated <= faults)'
  BY <1>1, <1>2
<1>4. SenderInv' /\ OpenInv' /\ LiveInv' /\ ReceivedIsSent' /\ OthersAreKept' /\ OverInv'
  BY <1>1 DEF TransferInv, SenderInv, OpenInv, LiveInv, NoneOpen, ReceivedIsSent, OthersAreKept, OverInv
<1>5. down' \in Seq(Frames)
  BY <1>1, <1>2, InsertedFrame
<1>6. \A a, b \in Turn : Brings(content, a, down[i], b) => Brings(content, b, down[i], b)
  BY <1>1 DEF Brings
<1>7. StreamInv'
  <2> SUFFICES ASSUME receiver.pc \in Live
               PROVE  \E q \in Turn : Stream(content, down', ReceiverTurn, q) /\ (sender.pc # "error" => q = SenderTurn)
    BY <1>1 DEF StreamInv, ReceiverTurn, NoneOpen, SenderTurn
  <2>1. PICK q \in Turn : Stream(content, down, ReceiverTurn, q) /\ (sender.pc # "error" => q = SenderTurn)
    BY DEF TransferInv, StreamInv
  <2>2. Stream(content, down', ReceiverTurn, q)
    BY <1>1, <1>2, <1>6, <2>1, ReceiverTurns, StreamRepeats
  <2> QED
    BY <2>1, <2>2
<1>8. ZmodemTypeOK'
  BY <1>1, <1>2, <1>3, <1>5 DEF ZmodemTypeOK
<1> QED
  BY <1>3, <1>4, <1>7, <1>8 DEF TransferInv

\* What is lost stays lost.
LEMMA LostLasts == ASSUME [ZmodemNext]_zmodemVars, lost PROVE lost'
BY DEF ZmodemNext, zmodemVars, Send, Request, Ready, Offer, OfferAnswered, SendData, Ack, NextFile, Finish, SendError,
   Receive, ReceiveInit, ReceiveFile, ReceiveCRC, ReceiveRepeated, ReceiveData, ReceiveEOF, ReceiveFin, ReceiveOver,
   ReceiveError, ReceiveStreamEnds, SendInterrupted, ReceiveInterrupted, Damage, Lose, Repeat

\* Every step.
LEMMA TransferNextInv ==
    ASSUME lost \/ TransferInv, [ZmodemNext]_zmodemVars
    PROVE  lost' \/ TransferInv'
<1>1. CASE Lose
  BY <1>1 DEF Lose
<1>2. CASE lost
  BY <1>2, LostLasts
<1>3. CASE TransferInv /\ ~Lose
  <2>1. CASE Send
    BY <1>3, <2>1, RequestStep, ReadyStep, OfferStep, OfferAnsweredStep, SendDataStep, AckStep, NextFileStep,
       FinishStep, SendEndsStep DEF Send
  <2>2. CASE Receive
    BY <1>3, <2>2, ReceiveInitStep, ReceiveFileStep, ReceiveCRCStep, ReceiveRepeatedStep, ReceiveDataStep,
       ReceiveEOFStep, ReceiveFinStep, ReceiveOverStep, ReceiveEndsStep DEF Receive
  <2>3. CASE ReceiveStreamEnds \/ SendInterrupted \/ ReceiveInterrupted
    BY <1>3, <2>3, ReceiveOverStep, SendEndsStep, ReceiveEndsStep
  <2>4. CASE Damage \/ \E i \in DOMAIN down : Repeat(i)
    BY <1>3, <2>4, DamageStep, RepeatStep
  <2>5. CASE UNCHANGED zmodemVars
    BY <1>3, <2>5 DEF zmodemVars, TransferInv, ZmodemTypeOK, StreamInv, SenderInv, OpenInv, LiveInv, OverInv,
       ReceivedIsSent, OthersAreKept, ReceiverTurn, SenderTurn, NoneOpen
  <2> QED
    BY <1>3, <2>1, <2>2, <2>3, <2>4, <2>5 DEF ZmodemNext
<1> QED
  BY <1>1, <1>2, <1>3

\* The inductive invariant of a transfer over ZMODEM in which no frame was lost.
THEOREM TransferInvariance == ZmodemSpec => [](lost \/ TransferInv)
<1>1. ZmodemInit => lost \/ TransferInv
  BY TransferInitInv
<1>2. (lost \/ TransferInv) /\ [ZmodemNext]_zmodemVars => (lost \/ TransferInv)'
  BY TransferNextInv
<1> QED
  BY <1>1, <1>2, PTL DEF ZmodemSpec

\* However frames are damaged or come again, and whoever is cut off: a file
\* that was received to its end is the one that was sent, a file that was there
\* and is no beginning of it stays as it was, and when either side reports
\* success all files have arrived (Codec.Send and Codec.Receive of transfer.go).
\* A frame that vanishes on the way is not covered: what then follows is told
\* by the frames that come behind it, not by the turns of the two sides.
THEOREM ArrivalsAreTrueTheorem == ZmodemSpec => [](lost \/ ArrivalsAreTrue)
<1>1. TransferInv => ArrivalsAreTrue
  BY DEF TransferInv, OverInv, ArrivalsAreTrue, SuccessIsShared
<1>2. lost \/ TransferInv => lost \/ ArrivalsAreTrue
  BY <1>1
<1> QED
  BY <1>2, TransferInvariance, PTL

-----------------------------------------------------------------------------
(***************************************************************************)
(* Transfers in which nothing goes wrong but that requests and offers are  *)
(* repeated.  The two sides then take turns: all that can be on its way is *)
(* a number of equal frames in front of one answer, and each such state of *)
(* the two sides and the two directions has a name here.  What is repeated *)
(* is counted, since every repeated request costs Send one of the MaxTries *)
(* answers it looks at for an offer.                                       *)
(***************************************************************************)
\* a times g, then c times h.
Mix(s, a, g, c, h) == Len(s) = a + c /\ \A i \in 1..a + c : s[i] = IF i <= a THEN g ELSE h
Same(s, a, g) == Mix(s, a, g, 0, g)

Asks == Header("ZRQINIT", 0)
Welcome == Header("ZRINIT", 0)
Offers(f) == Packet("ZFILE", f, content[f])
Query(n) == Header("ZCRC", n)
Checksum(f, n) == Packet("ZCRC", 0, Upto(f, n))
Block(f, n) == Packet("ZDATA", n, SubSeq(content[f], n + 1, n + 1))

\* The requests that were repeated: all faults but the repeated offers.
Spare == faults - repeated

\* The control points of both sides, and the files they are at: the open one
\* and the last one that was named.
Both(s, r) == sender.pc = s /\ receiver.pc = r
Between == receiver.file = NoFile /\ receiver.name = sender.file - 1
Within == receiver.file = sender.file /\ receiver.name = sender.file /\ receiver.pos <= Len(content[sender.file])

NotBegun == Both("start", "init") /\ Between /\ sender.file = 1 /\ down = <<>> /\ up = <<>>

\* Requests on their way, and answers to them.
Requested(a, b) ==
    /\ Both("ready", "loop") \/ (Both("ready", "init") /\ b = 0)
    /\ Between /\ sender.file = 1
    /\ Same(down, a, Asks) /\ Same(up, b, Welcome) /\ a + b <= 1 + Spare

Idling(a, b) ==
    /\ Both("offer", "loop") /\ Between
    /\ Same(down, a, Asks) /\ Same(up, b, Welcome) /\ a + b <= Spare
    /\ sender.file > 1 => a = 0 /\ b = 0

Offered(a, b, c) ==
    /\ Both("answer", "loop") /\ Between /\ FilesLeft
    /\ Mix(down, a, Asks, c, Offers(sender.file)) /\ c > 0 /\ c - 1 <= repeated
    /\ Same(up, b, Welcome) /\ sender.tries + a + b <= Spare

\* The part that is there is verified, ...
Doubtful ==
    /\ Both("answer", "crc") /\ receiver.file = NoFile /\ receiver.name = sender.file
    /\ disk[sender.file] # None /\ receiver.pos = Len(disk[sender.file])

Queried(b, c) ==
    /\ Doubtful
    /\ Same(down, c, Offers(sender.file)) /\ receiver.repeats + c <= repeated
    /\ Mix(up, b, Welcome, 1, Query(receiver.pos)) /\ sender.tries + b <= Spare

Checked(c) ==
    /\ Doubtful /\ sender.tries <= 1 + Spare
    /\ Mix(down, c, Offers(sender.file), 1, Checksum(sender.file, receiver.pos))
    /\ receiver.repeats + c <= repeated
    /\ up = <<>>

\* ... and the position is named.
Opened(b) ==
    /\ Both("answer", "loop") /\ Within
    /\ down = <<>>
    /\ Mix(up, b, Welcome, 1, Header("ZRPOS", receiver.pos)) /\ sender.tries + b <= 1 + Spare

Receiving == Both("data", "loop") /\ Within /\ receiver.pos = sender.pos /\ down = <<>> /\ up = <<>>

BlockSent ==
    /\ Both("ack", "loop") /\ Within /\ receiver.pos = sender.pos /\ sender.pos < Len(content[sender.file])
    /\ down = <<Block(sender.file, sender.pos)>> /\ up = <<>>

BlockTaken ==
    /\ Both("ack", "loop") /\ Within /\ receiver.pos = sender.pos + 1
    /\ down = <<>> /\ up = <<Header("ZACK", sender.pos + 1)>>

EndSent ==
    /\ Both("next", "loop") /\ Within
    /\ receiver.pos = sender.pos /\ sender.pos = Len(content[sender.file])
    /\ down = <<Header("ZEOF", sender.pos)>> /\ up = <<>>

EndTaken ==
    /\ Both("next", "loop") /\ receiver.file = NoFile /\ receiver.name = sender.file
    /\ down = <<>> /\ up = <<Welcome>>

FinSent == Both("finack", "loop") /\ Between /\ down = <<Header("ZFIN", 0)>> /\ up = <<>>
FinTaken == Both("finack", "over") /\ down = <<>> /\ up = <<Header("ZFIN", 0)>>
OverSent == Both("done", "over") /\ down = <<Header("OO", 0)>> /\ up = <<>>
BothDone == Both("done", "done") /\ down = <<>> /\ up = <<>>

InOrder ==
    \/ NotBegun
    \/ \E a, b \in Nat : Requested(a, b) \/ Idling(a, b)
    \/ \E a, b, c \in Nat : Offered(a, b, c)
    \/ \E b, c \in Nat : Queried(b, c)
    \/ \E c \in Nat : Checked(c)
    \/ \E b \in Nat : Opened(b)
    \/ Receiving \/ BlockSent \/ BlockTaken \/ EndSent \/ EndTaken
    \/ FinSent \/ FinTaken \/ OverSent \/ BothDone

\* Files that were not begun are as they were.
LaterFiles ==
    receiver.pc \in Live => \A f \in 1..Files :
        f > receiver.name \/ (receiver.pc = "crc" /\ f = receiver.name) => disk[f] = found[f]

\* Nothing was damaged or interrupted, parts fit, and offers were repeated only
\* for parts, and not too often.
Calm ==
    /\ ~trouble /\ repeated <= MaxRepeats
    /\ \A f \in 1..Files :
          /\ found[f] # None => IsPrefix(found[f], content[f])
          /\ repeated > 0 => found[f] \notin {None, <<>>}

CalmInv == Calm => InOrder /\ LaterFiles

-----------------------------------------------------------------------------
\* What is on its way when one frame is taken or sent.
LEMMA MixBegins ==
    ASSUME NEW s \in Seq(Frames), NEW a \in Nat, NEW c \in Nat, NEW g, NEW h, Mix(s, a, g, c, h)
    PROVE  /\ s = <<>> <=> a + c = 0
           /\ s # <<>> => Tail(s) \in Seq(Frames)
           /\ a > 0 => Head(s) = g /\ Mix(Tail(s), a - 1, g, c, h)
           /\ a = 0 /\ c > 0 => Head(s) = h /\ Mix(Tail(s), 0, g, c - 1, h)
<1>1. Len(s) = a + c /\ \A i \in 1..a + c : s[i] = IF i <= a THEN g ELSE h
  BY DEF Mix
<1>2. s = <<>> <=> a + c = 0
  BY <1>1, EmptySeq, LenProperties
<1>3. ASSUME s # <<>>
      PROVE  /\ Tail(s) \in Seq(Frames) /\ Head(s) = s[1] /\ Len(Tail(s)) = Len(s) - 1
             /\ \A i \in 1..Len(Tail(s)) : Tail(s)[i] = s[i + 1]
  BY <1>3, HeadTailProperties
<1> DEFINE t == Tail(s)
           x == Head(s)
           l == Len(s)
           m == Len(t)
<1> HIDE DEF t, x, l, m
<1>4. ASSUME a > 0 PROVE x = g /\ Mix(t, a - 1, g, c, h)
  <2>1. s # <<>> /\ 1 \in 1..a + c
    BY <1>2, <1>4
  <2>2. x = s[1] /\ m = l - 1 /\ l = a + c /\ \A i \in 1..m : t[i] = s[i + 1]
    BY <1>1, <1>3, <2>1 DEF t, x, l, m
  <2>3. x = g
    BY <1>1, <1>4, <2>1, <2>2
  <2>4. m = (a - 1) + c
    BY <2>2
  <2>5. ASSUME NEW i \in 1..(a - 1) + c PROVE t[i] = IF i <= a - 1 THEN g ELSE h
    <3>1. i \in 1..m /\ i + 1 \in 1..a + c /\ (i + 1 <= a <=> i <= a - 1)
      BY <1>4, <2>4
    <3> QED
      BY <1>1, <2>2, <3>1
  <2> QED
    BY <2>3, <2>4, <2>5 DEF Mix, m
<1>5. ASSUME a = 0, c > 0 PROVE x = h /\ Mix(t, 0, g, c - 1, h)
  <2>1. s # <<>> /\ 1 \in 1..a + c
    BY <1>2, <1>5
  <2>2. x = s[1] /\ m = l - 1 /\ l = a + c /\ \A i \in 1..m : t[i] = s[i + 1]
    BY <1>1, <1>3, <2>1 DEF t, x, l, m
  <2>3. x = h
    BY <1>1, <1>5, <2>1, <2>2
  <2>4. m = 0 + (c - 1)
    BY <2>2, <1>5
  <2>5. ASSUME NEW i \in 1..0 + (c - 1) PROVE t[i] = IF i <= 0 THEN g ELSE h
    <3>1. i \in 1..m /\ i + 1 \in 1..a + c /\ ~(i + 1 <= a) /\ ~(i <= 0)
      BY <1>5, <2>4
    <3> QED
      BY <1>1, <2>2, <3>1
  <2> QED
    BY <2>3, <2>4, <2>5 DEF Mix, m
<1> QED
  BY <1>2, <1>3, <1>4, <1>5 DEF t, x

LEMMA MixGrows ==
    ASSUME NEW s \in Seq(Frames), NEW a \in Nat, NEW c \in Nat, NEW g, NEW h \in Frames, Mix(s, a, g, c, h)
    PROVE  Mix(Append(s, h), a, g, c + 1, h)
<1> DEFINE t == Append(s, h)
           l == Len(s)
           m == Len(t)
<1>1. l = a + c /\ \A i \in 1..a + c : s[i] = IF i <= a THEN g ELSE h
  BY DEF Mix
<1>2. m = l + 1 /\ (\A i \in 1..l : t[i] = s[i]) /\ t[l + 1] = h
  BY AppendProperties
<1> HIDE DEF t, l, m
<1>3. m = a + (c + 1)
  BY <1>1, <1>2
<1>4. ASSUME NEW i \in 1..a + (c + 1) PROVE t[i] = IF i <= a THEN g ELSE h
  <2>1. CASE i \in 1..l
    BY <1>1, <1>2, <2>1
  <2>2. CASE i = l + 1
    <3>1. ~(i <= a)
      BY <1>1, <2>2
    <3> QED
      BY <1>2, <2>2, <3>1
  <2> QED
    BY <1>1, <2>1, <2>2
<1> QED
  BY <1>3, <1>4 DEF Mix, t, m

LEMMA MixTurns ==
    ASSUME NEW s \in Seq(Frames), NEW a \in Nat, NEW g, NEW h, Same(s, a, g)
    PROVE  Mix(s, a, g, 0, h)
BY DEF Mix, Same

LEMMA MixEnds ==
    ASSUME NEW s \in Seq(Frames), NEW g, NEW h, Mix(s, 0, g, 1, h)
    PROVE  s # <<>> /\ Head(s) = h /\ Tail(s) = <<>>
<1>1. s # <<>> /\ Tail(s) \in Seq(Frames) /\ Head(s) = h /\ Mix(Tail(s), 0, g, 1 - 1, h)
  BY MixBegins
<1>2. Mix(Tail(s), 0, g, 0, h)
  BY <1>1
<1>3. Tail(s) = <<>> <=> 0 + 0 = 0
  BY <1>1, <1>2, MixBegins
<1> QED
  BY <1>1, <1>3

LEMMA SameGrows ==
    ASSUME NEW s \in Seq(Frames), NEW a \in Nat, NEW g \in Frames, Same(s, a, g)
    PROVE  Same(Append(s, g), a + 1, g)
<1>1. Mix(Append(s, g), a, g, 1, g)
  BY MixGrows DEF Same
<1> QED
  BY <1>1 DEF Mix, Same

LEMMA MixOfNone == ASSUME NEW g, NEW h PROVE Mix(<<>>, 0, g, 0, h) /\ Same(<<>>, 0, g)
BY EmptySeq DEF Mix, Same

\* A frame that comes twice.
LEMMA MixRepeats ==
    ASSUME NEW s \in Seq(Frames), NEW a \in Nat, NEW c \in Nat, NEW g, NEW h, Mix(s, a, g, c, h),
           NEW i \in DOMAIN s
    PROVE  \/ s[i] = g /\ a > 0 /\ Mix(InsertAt(s, i, s[i]), a + 1, g, c, h)
           \/ s[i] = h /\ c > 0 /\ Mix(InsertAt(s, i, s[i]), a, g, c + 1, h)
<1> DEFINE t == InsertAt(s, i, s[i])
           l == Len(s)
           m == Len(t)
<1>1. l = a + c /\ (\A j \in 1..a + c : s[j] = IF j <= a THEN g ELSE h) /\ i \in 1..l
  BY LenProperties DEF Mix
<1>2. m = l + 1 /\ \A j \in 1..l + 1 : t[j] = IF j <= i THEN s[j] ELSE s[j - 1]
  BY InsertedFrame
<1> HIDE DEF t, l, m
<1>3. CASE i <= a
  <2>1. m = (a + 1) + c /\ s[i] = g /\ a > 0
    BY <1>1, <1>2, <1>3
  <2>2. ASSUME NEW j \in 1..(a + 1) + c PROVE t[j] = IF j <= a + 1 THEN g ELSE h
    <3>1. CASE j <= i
      BY <1>1, <1>2, <1>3, <3>1
    <3>2. CASE j > i
      <4>1. j - 1 \in 1..a + c /\ j \in 1..l + 1 /\ (j - 1 <= a <=> j <= a + 1)
        BY <1>1, <3>2
      <4> QED
        BY <1>1, <1>2, <3>2, <4>1
    <3> QED
      BY <3>1, <3>2
  <2> QED
    BY <2>1, <2>2 DEF Mix, t, m
<1>4. CASE i > a
  <2>1. m = a + (c + 1) /\ s[i] = h /\ c > 0
    BY <1>1, <1>2, <1>4
  <2>2. ASSUME NEW j \in 1..a + (c + 1) PROVE t[j] = IF j <= a THEN g ELSE h
    <3>1. CASE j <= i
      BY <1>1, <1>2, <1>4, <3>1
    <3>2. CASE j > i
      <4>1. j - 1 \in 1..a + c /\ j \in 1..l + 1 /\ ~(j - 1 <= a) /\ ~(j <= a)
        BY <1>1, <1>4, <3>2
      <4> QED
        BY <1>1, <1>2, <3>2, <4>1
    <3> QED
      BY <3>1, <3>2
  <2> QED
    BY <2>1, <2>2 DEF Mix, t, m
<1> QED
  BY <1>1, <1>3, <1>4
-----------------------------------------------------------------------------
\* What is next, for the receiver and for the sender.
LEMMA SameBegins ==
    ASSUME NEW s \in Seq(Frames), NEW a \in Nat, NEW g, Same(s, a, g)
    PROVE  /\ s = <<>> <=> a = 0
           /\ a > 0 => s # <<>> /\ Tail(s) \in Seq(Frames) /\ Head(s) = g /\ Same(Tail(s), a - 1, g)
BY MixBegins DEF Same

LEMMA FrameTypes ==
    /\ Asks.type = "ZRQINIT" /\ Welcome.type = "ZRINIT"
    /\ \A f : Offers(f).type = "ZFILE" /\ Offers(f).n = f /\ Offers(f).data = content[f] /\ Offers(f).good
    /\ \A n : Query(n).type = "ZCRC" /\ Query(n).n = n
    /\ \A f, n : Checksum(f, n).type = "ZCRC" /\ Checksum(f, n).data = Upto(f, n)
    /\ \A f, n : /\ Block(f, n).type = "ZDATA" /\ Block(f, n).n = n /\ Block(f, n).good
                 /\ Block(f, n).data = SubSeq(content[f], n + 1, n + 1)
    /\ \A t, n : Header(t, n).type = t /\ Header(t, n).n = n
BY DEF Asks, Welcome, Offers, Query, Checksum, Block, Header, Packet

LEMMA OneFrame == ASSUME NEW h PROVE <<h>> # <<>> /\ Head(<<h>>) = h /\ Tail(<<h>>) = <<>>
OBVIOUS

LEMMA NextDown ==
    ASSUME ZmodemTypeOK, InOrder, down # <<>>
    PROVE  \/ \E a, b \in Nat : (Requested(a, b) \/ Idling(a, b)) /\ a > 0 /\ Head(down) = Asks
           \/ \E a, b, c \in Nat : Offered(a, b, c) /\ a > 0 /\ Head(down) = Asks
           \/ \E b, c \in Nat : Offered(0, b, c) /\ Head(down) = Offers(sender.file)
           \/ \E b, c \in Nat : Queried(b, c) /\ c > 0 /\ Head(down) = Offers(sender.file)
           \/ \E c \in Nat : Checked(c) /\ c > 0 /\ Head(down) = Offers(sender.file)
           \/ Checked(0) /\ Head(down) = Checksum(sender.file, receiver.pos)
           \/ BlockSent /\ Head(down) = Block(sender.file, sender.pos)
           \/ EndSent /\ Head(down) = Header("ZEOF", sender.pos)
           \/ FinSent /\ Head(down) = Header("ZFIN", 0)
           \/ OverSent /\ Head(down) = Header("OO", 0)
<1>1. down \in Seq(Frames)
  BY TypesOfTransfer
<1>2. ASSUME NEW a \in Nat, NEW b \in Nat, Requested(a, b) \/ Idling(a, b) PROVE a > 0 /\ Head(down) = Asks
  <2>1. Same(down, a, Asks)
    BY <1>2 DEF Requested, Idling
  <2>2. a # 0
    BY <1>1, <2>1, SameBegins
  <2> QED
    BY <1>1, <2>1, <2>2, SameBegins
<1>3. ASSUME NEW a \in Nat, NEW b \in Nat, NEW c \in Nat, Offered(a, b, c)
      PROVE  Head(down) = IF a > 0 THEN Asks ELSE Offers(sender.file)
  <2>1. Mix(down, a, Asks, c, Offers(sender.file)) /\ c > 0
    BY <1>3 DEF Offered
  <2> QED
    BY <1>1, <2>1, MixBegins
<1>4. ASSUME NEW b \in Nat, NEW c \in Nat, Queried(b, c) PROVE c > 0 /\ Head(down) = Offers(sender.file)
  <2>1. Same(down, c, Offers(sender.file))
    BY <1>4 DEF Queried
  <2>2. c # 0
    BY <1>1, <2>1, SameBegins
  <2> QED
    BY <1>1, <2>1, <2>2, SameBegins
<1>5. ASSUME NEW c \in Nat, Checked(c)
      PROVE  Head(down) = IF c > 0 THEN Offers(sender.file) ELSE Checksum(sender.file, receiver.pos)
  <2>1. Mix(down, c, Offers(sender.file), 1, Checksum(sender.file, receiver.pos))
    BY <1>5 DEF Checked
  <2> QED
    BY <1>1, <2>1, MixBegins
<1>6. BlockSent => Head(down) = Block(sender.file, sender.pos)
  BY OneFrame DEF BlockSent
<1>7. /\ EndSent => Head(down) = Header("ZEOF", sender.pos)
      /\ FinSent => Head(down) = Header("ZFIN", 0)
      /\ OverSent => Head(down) = Header("OO", 0)
  BY OneFrame DEF EndSent, FinSent, OverSent
<1>8. ~NotBegun /\ ~Receiving /\ ~BlockTaken /\ ~EndTaken /\ ~FinTaken /\ ~BothDone /\ \A b \in Nat : ~Opened(b)
  BY DEF NotBegun, Receiving, BlockTaken, EndTaken, FinTaken, BothDone, Opened
<1>9. CASE \E a, b \in Nat : Requested(a, b) \/ Idling(a, b)
  BY <1>2, <1>9
<1>10. CASE \E a, b, c \in Nat : Offered(a, b, c)
  <2>1. PICK a \in Nat, b \in Nat, c \in Nat : Offered(a, b, c)
    BY <1>10
  <2>2. CASE a > 0
    BY <1>3, <2>1, <2>2
  <2>3. CASE a = 0
    BY <1>3, <2>1, <2>3
  <2> QED
    BY <2>2, <2>3
<1>11. CASE \E b, c \in Nat : Queried(b, c)
  BY <1>4, <1>11
<1>12. CASE \E c \in Nat : Checked(c)
  <2>1. PICK c \in Nat : Checked(c)
    BY <1>12
  <2>2. CASE c > 0
    BY <1>5, <2>1, <2>2
  <2>3. CASE c = 0
    BY <1>5, <2>1, <2>3
  <2> QED
    BY <2>2, <2>3
<1> QED
  BY <1>6, <1>7, <1>8, <1>9, <1>10, <1>11, <1>12 DEF InOrder

LEMMA NextUp ==
    ASSUME ZmodemTypeOK, InOrder, up # <<>>
    PROVE  \/ \E a, b \in Nat : (Requested(a, b) \/ Idling(a, b)) /\ b > 0 /\ Head(up) = Welcome
           \/ \E a, b, c \in Nat : Offered(a, b, c) /\ b > 0 /\ Head(up) = Welcome
           \/ \E b, c \in Nat : Queried(b, c) /\ b > 0 /\ Head(up) = Welcome
           \/ \E c \in Nat : Queried(0, c) /\ Head(up) = Query(receiver.pos)
           \/ \E b \in Nat : Opened(b) /\ b > 0 /\ Head(up) = Welcome
           \/ Opened(0) /\ Head(up) = Header("ZRPOS", receiver.pos)
           \/ BlockTaken /\ Head(up) = Header("ZACK", sender.pos + 1)
           \/ EndTaken /\ Head(up) = Welcome
           \/ FinTaken /\ Head(up) = Header("ZFIN", 0)
<1>1. up \in Seq(Frames)
  BY TypesOfTransfer
<1>2. ASSUME NEW b \in Nat, Same(up, b, Welcome) PROVE b > 0 /\ Head(up) = Welcome
  <2>1. b # 0
    BY <1>1, <1>2, SameBegins
  <2> QED
    BY <1>1, <1>2, <2>1, SameBegins
<1>3. ASSUME NEW b \in Nat, NEW h, Mix(up, b, Welcome, 1, h) PROVE Head(up) = IF b > 0 THEN Welcome ELSE h
  BY <1>1, <1>3, MixBegins
<1>4. CASE \E a, b \in Nat : Requested(a, b) \/ Idling(a, b)
  BY <1>2, <1>4 DEF Requested, Idling
<1>5. CASE \E a, b, c \in Nat : Offered(a, b, c)
  BY <1>2, <1>5 DEF Offered
<1>6. CASE \E b, c \in Nat : Queried(b, c)
  <2>1. PICK b \in Nat, c \in Nat : Queried(b, c)
    BY <1>6
  <2>2. Head(up) = IF b > 0 THEN Welcome ELSE Query(receiver.pos)
    BY <1>3, <2>1 DEF Queried
  <2>3. CASE b > 0
    BY <2>1, <2>2, <2>3
  <2>4. CASE b = 0
    BY <2>1, <2>2, <2>4
  <2> QED
    BY <2>3, <2>4
<1>7. CASE \E b \in Nat : Opened(b)
  <2>1. PICK b \in Nat : Opened(b)
    BY <1>7
  <2>2. Head(up) = IF b > 0 THEN Welcome ELSE Header("ZRPOS", receiver.pos)
    BY <1>3, <2>1 DEF Opened
  <2>3. CASE b > 0
    BY <2>1, <2>2, <2>3
  <2>4. CASE b = 0
    BY <2>1, <2>2, <2>4
  <2> QED
    BY <2>3, <2>4
<1>8. /\ BlockTaken => Head(up) = Header("ZACK", sender.pos + 1)
      /\ EndTaken => Head(up) = Welcome
      /\ FinTaken => Head(up) = Header("ZFIN", 0)
  BY OneFrame DEF BlockTaken, EndTaken, FinTaken
<1>9. /\ ~NotBegun /\ ~Receiving /\ ~BlockSent /\ ~EndSent /\ ~FinSent /\ ~OverSent /\ ~BothDone
      /\ \A c \in Nat : ~Checked(c)
  BY DEF NotBegun, Receiving, BlockSent, EndSent, FinSent, OverSent, BothDone, Checked
<1> QED
  BY <1>4, <1>5, <1>6, <1>7, <1>8, <1>9 DEF InOrder

\* Which states a control point of the sender belongs to.
LEMMA SenderIsAt ==
    ASSUME InOrder
    PROVE  /\ sender.pc # "error" /\ receiver.pc # "error"
           /\ sender.pc = "start" => NotBegun
           /\ sender.pc = "offer" => \E a, b \in Nat : Idling(a, b)
           /\ sender.pc = "data" => Receiving
           /\ receiver.pc = "over" => FinTaken \/ OverSent
BY DEF InOrder, NotBegun, Requested, Idling, Offered, Doubtful, Queried, Checked, Opened, Receiving, BlockSent,
       BlockTaken, EndSent, EndTaken, FinSent, FinTaken, OverSent, BothDone, Both
LEMMA CalmTypes ==
    ASSUME ZmodemTypeOK
    PROVE  /\ down \in Seq(Frames) /\ up \in Seq(Frames) /\ sender \in SenderRecord /\ receiver \in ReceiverRecord
           /\ faults \in Nat /\ repeated \in Nat /\ Files \in Nat \ {0} /\ MaxLen \in Nat /\ MaxTries \in Nat
           /\ Asks \in Frames /\ Welcome \in Frames
           /\ \A n \in Nat : Query(n) \in Frames
           /\ \A f \in 1..Files : Offers(f) \in Frames
           /\ \A f \in 1..Files, n \in Nat : n <= Len(content[f]) => Checksum(f, n) \in Frames
<1>1. /\ down \in Seq(Frames) /\ up \in Seq(Frames) /\ sender \in SenderRecord /\ receiver \in ReceiverRecord
      /\ faults \in 0..MaxFaults /\ repeated \in 0..MaxFaults /\ MaxFaults \in Nat
      /\ Files \in Nat \ {0} /\ MaxLen \in Nat /\ MaxTries \in Nat
  BY TypesOfTransfer, ZmodemNumbers
<1>2. Asks \in Frames /\ Welcome \in Frames /\ \A n \in Nat : Query(n) \in Frames
  BY HeadersAreFrames DEF Asks, Welcome, Query, Types
<1>3. \A f \in 1..Files : Offers(f) \in Frames
  BY <1>1, ContentOf, PacketsAreFrames DEF Offers, Types
<1>4. ASSUME NEW f \in 1..Files, NEW n \in Nat, n <= Len(content[f]) PROVE Checksum(f, n) \in Frames
  <2>1. content[f] \in Seq(Blocks) /\ Len(content[f]) \in Nat
    BY ContentOf
  <2>2. n \in 0..Len(content[f])
    BY <1>4, <2>1
  <2>3. Upto(f, n) \in Seq(Blocks)
    BY <2>1, <2>2, UptoIsPrefix DEF Upto
  <2> QED
    BY <2>3, PacketsAreFrames DEF Checksum, Types
<1> QED
  BY <1>1, <1>2, <1>3, <1>4

LEMMA RequestCalm == ASSUME ZmodemTypeOK, InOrder, repeated <= faults, Request PROVE InOrder'
<1>1. /\ sender.pc = "start" /\ down' = down \o <<Asks>> /\ sender' = [sender EXCEPT !.pc = "ready"]
      /\ up' = up /\ receiver' = receiver /\ faults' = faults /\ repeated' = repeated
  BY DEF Request, Tell, Asks
<1>2. NotBegun
  BY <1>1, SenderIsAt
<1>3. down' = Append(<<>>, Asks)
  BY <1>1, <1>2, CalmTypes, TellAppends DEF NotBegun
<1>4. Same(down', 1, Asks)
  <2>1. <<>> \in Seq(Frames) /\ Asks \in Frames /\ Same(<<>>, 0, Asks)
    BY CalmTypes, MixOfNone, EmptySeq
  <2>2. Same(Append(<<>>, Asks), 0 + 1, Asks)
    BY <2>1, SameGrows
  <2> QED
    BY <1>3, <2>2
<1>5. Same(up', 0, Welcome)
  BY <1>1, <1>2, MixOfNone DEF NotBegun
<1>6. /\ sender'.pc = "ready" /\ sender'.file = 1 /\ receiver'.pc = "init"
      /\ receiver'.file = NoFile /\ receiver'.name = sender'.file - 1 /\ 1 + 0 <= 1 + (faults' - repeated')
  BY <1>1, <1>2, CalmTypes DEF NotBegun, Both, Between, SenderRecord
<1>7. Requested(1, 0)'
  BY <1>4, <1>5, <1>6 DEF Requested, Both, Between, Spare
<1> QED
  BY <1>7 DEF InOrder

LEMMA ReadyCalm == ASSUME ZmodemTypeOK, InOrder, Ready PROVE InOrder'
<1>1. /\ sender.pc = "ready" /\ up # <<>> /\ up' = Tail(up) /\ sender' = [sender EXCEPT !.pc = "offer"]
      /\ down' = down /\ receiver' = receiver /\ faults' = faults /\ repeated' = repeated
  BY DEF Ready, Gets, Has, Take
<1>2. PICK a \in Nat, b \in Nat : Requested(a, b) /\ b > 0
  BY <1>1, NextUp DEF Idling, Offered, Queried, Doubtful, Opened, BlockTaken, EndTaken, FinTaken, Both
<1>3. Same(down', a, Asks)
  BY <1>1, <1>2 DEF Requested
<1>4. Same(up', b - 1, Welcome)
  BY <1>1, <1>2, CalmTypes, SameBegins DEF Requested
<1>5. /\ sender'.pc = "offer" /\ sender'.file = 1 /\ receiver'.pc = "loop"
      /\ receiver'.file = NoFile /\ receiver'.name = sender'.file - 1 /\ a + (b - 1) <= faults' - repeated'
  <2>1. /\ receiver.pc = "loop" /\ receiver.file = NoFile /\ receiver.name = sender.file - 1 /\ sender.file = 1
        /\ a + b <= 1 + (faults - repeated)
    BY <1>2 DEF Requested, Both, Between, Spare
  <2>2. a + (b - 1) <= faults - repeated
    <3>1. faults \in Nat /\ repeated \in Nat /\ a \in Nat /\ b \in Nat
      BY <1>2, CalmTypes
    <3> QED
      BY <2>1, <3>1
  <2>3. sender'.pc = "offer" /\ sender'.file = sender.file
    BY <1>1, CalmTypes DEF SenderRecord
  <2> QED
    BY <1>1, <2>1, <2>2, <2>3
<1>6. b - 1 \in Nat
  BY <1>2
<1>7. Idling(a, b - 1)'
  BY <1>3, <1>4, <1>5 DEF Idling, Both, Between, Spare
<1> QED
  BY <1>6, <1>7 DEF InOrder

LEMMA OfferCalm == ASSUME ZmodemTypeOK, InOrder, Offer PROVE InOrder'
<1>1. /\ sender.pc = "offer" /\ up' = up /\ receiver' = receiver /\ faults' = faults /\ repeated' = repeated
      /\ content' = content
      /\ IF FilesLeft
           THEN /\ down' = down \o <<Offers(sender.file)>>
                /\ sender' = [sender EXCEPT !.pc = "answer", !.pos = 0, !.tries = 0, !.retries = 0]
           ELSE down' = down \o <<Header("ZFIN", 0)>> /\ sender' = [sender EXCEPT !.pc = "finack", !.tries = 0]
  BY DEF Offer, Tell, Offers
<1>2. PICK a \in Nat, b \in Nat : Idling(a, b)
  BY <1>1, SenderIsAt
<1>3. /\ receiver.pc = "loop" /\ receiver.file = NoFile /\ receiver.name = sender.file - 1
      /\ Same(down, a, Asks) /\ Same(up, b, Welcome) /\ a + b <= faults - repeated
      /\ sender.file > 1 => a = 0 /\ b = 0
  BY <1>2 DEF Idling, Both, Between, Spare
<1>4. CASE FilesLeft
  <2>1. sender.file \in 1..Files
    BY <1>4, CalmTypes DEF FilesLeft, SenderRecord
  <2> DEFINE h == Offers(sender.file)
  <2>2. h \in Frames /\ down' = Append(down, h)
    BY <1>1, <1>4, <2>1, CalmTypes, TellAppends
  <2> HIDE DEF h
  <2>3. Mix(down', a, Asks, 1, h)
    <3>1. Mix(down, a, Asks, 0, h)
      BY <1>3, CalmTypes, MixTurns
    <3>2. Mix(Append(down, h), a, Asks, 0 + 1, h)
      BY <2>2, <3>1, CalmTypes, MixGrows
    <3> QED
      BY <2>2, <3>2
  <2>4. /\ sender'.pc = "answer" /\ sender'.file = sender.file /\ sender'.tries = 0
        /\ sender'.tries + a + b <= faults' - repeated' /\ 1 - 1 <= repeated' /\ sender'.file <= Files
    <3>1. sender' = [sender EXCEPT !.pc = "answer", !.pos = 0, !.tries = 0, !.retries = 0]
      BY <1>1, <1>4
    <3>2. sender'.pc = "answer" /\ sender'.file = sender.file /\ sender'.tries = 0
      BY <3>1, CalmTypes DEF SenderRecord
    <3> QED
      BY <1>1, <1>3, <2>1, <3>2, CalmTypes
  <2>5. Offered(a, b, 1)'
    BY <1>1, <1>3, <2>3, <2>4 DEF Offered, Both, Between, FilesLeft, Spare, h, Offers
  <2> QED
    BY <2>5 DEF InOrder
<1>5. CASE ~FilesLeft
  <2>1. sender.file > 1
    BY <1>5, CalmTypes DEF FilesLeft, SenderRecord
  <2>2. down = <<>> /\ up = <<>>
    BY <1>3, <2>1, CalmTypes, SameBegins
  <2>3. /\ sender'.pc = "finack" /\ sender'.file = sender.file /\ down' = <<Header("ZFIN", 0)>> /\ up' = <<>>
    <3>1. sender' = [sender EXCEPT !.pc = "finack", !.tries = 0] /\ down' = <<>> \o <<Header("ZFIN", 0)>> /\ up' = <<>>
      BY <1>1, <1>5, <2>2
    <3>2. sender'.pc = "finack" /\ sender'.file = sender.file
      BY <3>1, CalmTypes DEF SenderRecord
    <3> QED
      BY <3>1, <3>2
  <2>4. FinSent'
    BY <1>1, <1>3, <2>3 DEF FinSent, Both, Between
  <2> QED
    BY <2>4 DEF InOrder
<1> QED
  BY <1>4, <1>5

LEMMA SendDataCalm == ASSUME ZmodemTypeOK, InOrder, SendData PROVE InOrder'
<1>1. /\ sender.pc = "data" /\ up' = up /\ receiver' = receiver /\ content' = content
      /\ IF sender.pos < Len(content[sender.file])
           THEN down' = down \o <<Block(sender.file, sender.pos)>> /\ sender' = [sender EXCEPT !.pc = "ack"]
           ELSE down' = down \o <<Header("ZEOF", sender.pos)>> /\ sender' = [sender EXCEPT !.pc = "next"]
  BY DEF SendData, Tell, Block
<1>2. Receiving
  BY <1>1, SenderIsAt
<1>3. /\ receiver.pc = "loop" /\ receiver.file = sender.file /\ receiver.name = sender.file
      /\ sender.pos <= Len(content[sender.file]) /\ receiver.pos = sender.pos /\ down = <<>> /\ up = <<>>
  BY <1>2 DEF Receiving, Both, Within
<1>4. Len(content[sender.file]) \in Nat /\ sender.pos \in Nat
  <2>1. sender.file \in 1..Files
    BY <1>3, CalmTypes DEF SenderRecord, ReceiverRecord
  <2> QED
    BY <2>1, CalmTypes, ContentOf DEF SenderRecord
<1>5. CASE sender.pos < Len(content[sender.file])
  <2>1. /\ down' = <<Block(sender.file, sender.pos)>>
        /\ sender'.pc = "ack" /\ sender'.pos = sender.pos /\ sender'.file = sender.file
    BY <1>1, <1>3, <1>5, CalmTypes DEF SenderRecord
  <2>2. BlockSent'
    BY <1>1, <1>3, <1>5, <2>1 DEF BlockSent, Both, Within, Block
  <2> QED
    BY <2>2 DEF InOrder
<1>6. CASE ~(sender.pos < Len(content[sender.file]))
  <2>1. /\ down' = <<Header("ZEOF", sender.pos)>> /\ sender.pos = Len(content[sender.file])
        /\ sender'.pc = "next" /\ sender'.pos = sender.pos /\ sender'.file = sender.file
    BY <1>1, <1>3, <1>4, <1>6, CalmTypes DEF SenderRecord
  <2>2. EndSent'
    BY <1>1, <1>3, <1>6, <2>1 DEF EndSent, Both, Within
  <2> QED
    BY <2>2 DEF InOrder
<1> QED
  BY <1>5, <1>6
LEMMA AckCalm == ASSUME ZmodemTypeOK, InOrder, Ack PROVE InOrder'
<1>1. /\ sender.pc = "ack" /\ up # <<>> /\ up' = Tail(up) /\ receiver' = receiver /\ content' = content
  BY DEF Ack, Has, Take
<1>2. BlockTaken /\ Head(up) = Header("ZACK", sender.pos + 1)
  BY <1>1, NextUp DEF Requested, Idling, Offered, Queried, Doubtful, Opened, EndTaken, FinTaken, Both
<1>3. AckFits(Head(up))
  BY <1>2, FrameTypes DEF AckFits
<1>4. down' = down /\ sender' = [sender EXCEPT !.pc = "data", !.pos = @ + 1, !.retries = 0]
  BY <1>2, <1>3, FrameTypes DEF Ack, Retry
<1>5. up' = <<>>
  BY <1>1, <1>2, OneFrame DEF BlockTaken
<1>6. sender'.pc = "data" /\ sender'.pos = sender.pos + 1 /\ sender'.file = sender.file
  BY <1>4, CalmTypes DEF SenderRecord
<1>7. Receiving'
  BY <1>1, <1>2, <1>4, <1>5, <1>6 DEF Receiving, BlockTaken, Both, Within
<1> QED
  BY <1>7 DEF InOrder

LEMMA NextFileCalm == ASSUME ZmodemTypeOK, InOrder, repeated <= faults, NextFile PROVE InOrder'
<1>1. /\ sender.pc = "next" /\ up # <<>> /\ up' = Tail(up) /\ sender' = [sender EXCEPT !.pc = "offer", !.file = @ + 1]
      /\ down' = down /\ receiver' = receiver /\ faults' = faults /\ repeated' = repeated
  BY DEF NextFile, Gets, Has, Take
<1>2. EndTaken
  BY <1>1, NextUp DEF Requested, Idling, Offered, Queried, Doubtful, Opened, BlockTaken, FinTaken, Both
<1>3. Same(down', 0, Asks) /\ Same(up', 0, Welcome)
  BY <1>1, <1>2, OneFrame, MixOfNone DEF EndTaken
<1>4. sender'.pc = "offer" /\ sender'.file = sender.file + 1
  BY <1>1, CalmTypes DEF SenderRecord
<1>5. /\ receiver'.pc = "loop" /\ receiver'.file = NoFile /\ receiver'.name = sender'.file - 1
      /\ 0 + 0 <= faults' - repeated'
  BY <1>1, <1>2, <1>4, CalmTypes DEF EndTaken, Both, SenderRecord
<1>6. Idling(0, 0)'
  BY <1>3, <1>4, <1>5 DEF Idling, Both, Between, Spare
<1> QED
  BY <1>6 DEF InOrder

LEMMA FinishCalm == ASSUME ZmodemTypeOK, InOrder, Finish PROVE InOrder'
<1>1. /\ sender.pc = "finack" /\ up # <<>> /\ up' = Tail(up) /\ receiver' = receiver
  BY DEF Finish, Has, Take
<1>2. FinTaken /\ Head(up) = Header("ZFIN", 0)
  BY <1>1, NextUp DEF Requested, Idling, Offered, Queried, Doubtful, Opened, BlockTaken, EndTaken, Both
<1>3. sender' = [sender EXCEPT !.pc = "done"] /\ down' = down \o <<Header("OO", 0)>>
  BY <1>2, FrameTypes DEF Finish, Tell
<1>4. up' = <<>> /\ down' = <<Header("OO", 0)>>
  BY <1>1, <1>2, <1>3, OneFrame DEF FinTaken
<1>5. sender'.pc = "done" /\ receiver'.pc = "over"
  BY <1>1, <1>2, <1>3, CalmTypes DEF SenderRecord, FinTaken, Both
<1>6. OverSent'
  BY <1>4, <1>5 DEF OverSent, Both
<1> QED
  BY <1>6 DEF InOrder

\* Send looks at every answer but is not through with its tries.
LEMMA OfferAnsweredCalm ==
    ASSUME ZmodemTypeOK, InOrder, repeated <= faults, MaxFaults + 1 < MaxTries, OfferAnswered,
           receiver.pc = "crc" => receiver.pos <= Len(content[sender.file])
    PROVE  InOrder'
<1>1. /\ sender.pc = "answer" /\ up # <<>> /\ up' = Tail(up) /\ receiver' = receiver /\ content' = content
      /\ disk' = disk /\ faults' = faults /\ repeated' = repeated
  BY DEF OfferAnswered, Has, Take
<1>2. /\ down \in Seq(Frames) /\ up \in Seq(Frames) /\ sender \in SenderRecord /\ receiver \in ReceiverRecord
      /\ faults \in Nat /\ repeated \in Nat /\ faults <= MaxFaults
      /\ sender.tries \in Nat /\ sender.file \in Nat \ {0} /\ MaxTries \in Nat /\ MaxFaults \in Nat
  <2>1. /\ down \in Seq(Frames) /\ up \in Seq(Frames) /\ sender \in SenderRecord /\ receiver \in ReceiverRecord
        /\ faults \in 0..MaxFaults /\ repeated \in 0..MaxFaults /\ MaxFaults \in Nat /\ MaxTries \in Nat
        /\ Files \in Nat
    BY TypesOfTransfer, ZmodemNumbers
  <2> QED
    BY <2>1 DEF SenderRecord
<1> DEFINE next == [sender EXCEPT !.tries = @ + 1]
<1>3. ASSUME sender.tries <= faults - repeated
      PROVE  [sender EXCEPT !.tries = @ + 1, !.pc = IF sender.tries + 1 >= MaxTries THEN "data" ELSE "answer"] = next
             /\ next.pc = "answer" /\ next.tries = sender.tries + 1 /\ next.file = sender.file
  <2>1. ~(sender.tries + 1 >= MaxTries)
    BY <1>2, <1>3
  <2>2. (IF sender.tries + 1 >= MaxTries THEN "data" ELSE "answer") = "answer"
    BY <2>1
  <2>3. [sender EXCEPT !.tries = @ + 1, !.pc = "answer"] = next
    BY <1>1, <1>2 DEF SenderRecord
  <2>4. next.pc = "answer" /\ next.tries = sender.tries + 1 /\ next.file = sender.file
    BY <1>1, <1>2 DEF SenderRecord
  <2> QED
    BY <2>2, <2>3, <2>4
<1>4. ASSUME sender.tries + 1 <= 1 + (faults - repeated), Head(up) = Welcome
      PROVE  sender' = next /\ down' = down
  <2>1. sender.tries <= faults - repeated
    BY <1>2, <1>4
  <2>2. Head(up).type = "ZRINIT"
    BY <1>4, FrameTypes
  <2>3. /\ down' = down
        /\ sender' = [sender EXCEPT !.tries = @ + 1, !.pc = IF sender.tries + 1 >= MaxTries THEN "data" ELSE "answer"]
    BY <2>2 DEF OfferAnswered
  <2> QED
    BY <1>3, <2>1, <2>3
<1> HIDE DEF next
<1>5. CASE \E a, b, c \in Nat : Offered(a, b, c) /\ b > 0 /\ Head(up) = Welcome
  <2>1. PICK a \in Nat, b \in Nat, c \in Nat : Offered(a, b, c) /\ b > 0 /\ Head(up) = Welcome
    BY <1>5
  <2>2. Same(up, b, Welcome) /\ sender.tries + a + b <= faults - repeated
    BY <2>1 DEF Offered, Spare
  <2>3. Same(up', b - 1, Welcome)
    BY <1>1, <1>2, <2>1, <2>2, SameBegins
  <2>4. sender.tries + 1 <= 1 + (faults - repeated) /\ sender.tries <= faults - repeated
        /\ (sender.tries + 1) + a + (b - 1) <= faults - repeated /\ b - 1 \in Nat
    <3>1. /\ sender.tries \in Nat /\ faults \in Nat /\ repeated \in Nat /\ a \in Nat /\ b \in Nat /\ b > 0
          /\ sender.tries + a + b <= faults - repeated
      BY <1>2, <2>1, <2>2
    <3> DEFINE n == sender.tries
    <3> HIDE DEF n
    <3> QED
      BY <3>1 DEF n
  <2>5. sender' = next /\ down' = down
        /\ next.pc = "answer" /\ next.tries = sender.tries + 1 /\ next.file = sender.file
    BY <1>3, <1>4, <2>1, <2>4
  <2>6. Offered(a, b - 1, c)'
    BY <1>1, <2>1, <2>3, <2>4, <2>5 DEF Offered, Both, Between, FilesLeft, Spare, Offers
  <2> QED
    BY <2>4, <2>6 DEF InOrder
<1>6. CASE \E b, c \in Nat : Queried(b, c) /\ b > 0 /\ Head(up) = Welcome
  <2>1. PICK b \in Nat, c \in Nat : Queried(b, c) /\ b > 0 /\ Head(up) = Welcome
    BY <1>6
  <2>2. Mix(up, b, Welcome, 1, Query(receiver.pos)) /\ sender.tries + b <= faults - repeated
    BY <2>1 DEF Queried, Spare
  <2>3. Mix(up', b - 1, Welcome, 1, Query(receiver.pos))
    BY <1>1, <1>2, <2>1, <2>2, MixBegins
  <2>4. sender.tries + 1 <= 1 + (faults - repeated) /\ sender.tries <= faults - repeated
        /\ (sender.tries + 1) + (b - 1) <= faults - repeated /\ b - 1 \in Nat
    BY <1>2, <2>1, <2>2
  <2>5. sender' = next /\ down' = down
        /\ next.pc = "answer" /\ next.tries = sender.tries + 1 /\ next.file = sender.file
    BY <1>3, <1>4, <2>1, <2>4
  <2>6. Queried(b - 1, c)'
    BY <1>1, <2>1, <2>3, <2>4, <2>5 DEF Queried, Doubtful, Both, Spare, Offers, Query
  <2> QED
    BY <2>4, <2>6 DEF InOrder
<1>7. CASE \E c \in Nat : Queried(0, c) /\ Head(up) = Query(receiver.pos)
  <2>1. PICK c \in Nat : Queried(0, c) /\ Head(up) = Query(receiver.pos)
    BY <1>7
  <2>2. /\ Mix(up, 0, Welcome, 1, Query(receiver.pos)) /\ sender.tries <= faults - repeated
        /\ Same(down, c, Offers(sender.file)) /\ Doubtful /\ receiver.repeats + c <= repeated
    <3>1. sender.tries + 0 <= faults - repeated
      BY <2>1 DEF Queried, Spare
    <3> QED
      BY <1>2, <2>1, <3>1 DEF Queried
  <2>3. receiver.pos <= Len(content[sender.file]) /\ sender.file \in 1..Files
    BY <1>2, <2>2 DEF Doubtful, Both, SenderRecord, ReceiverRecord
  <2>4. up' = <<>>
    BY <1>1, <1>2, <2>2, MixEnds
  <2>5. /\ down' = down \o <<Checksum(sender.file, receiver.pos)>> /\ sender' = next
        /\ next.pc = "answer" /\ next.tries = sender.tries + 1 /\ next.file = sender.file
    <3>1. Head(up).type = "ZCRC" /\ Head(up).n = receiver.pos
      BY <2>1, FrameTypes
    <3>2. ~(receiver.pos > Len(content[sender.file]))
      <4>1. Len(content[sender.file]) \in Nat /\ receiver.pos \in Nat
        BY <1>2, <2>3, CalmTypes, ContentOf DEF ReceiverRecord
      <4> QED
        BY <2>3, <4>1
    <3>3. /\ down' = down \o <<Packet("ZCRC", 0, Upto(sender.file, receiver.pos))>>
          /\ sender' = [sender EXCEPT !.tries = @ + 1, !.pc = IF sender.tries + 1 >= MaxTries THEN "data" ELSE "answer"]
      BY <3>1, <3>2 DEF OfferAnswered, Tell
    <3> QED
      BY <1>3, <2>2, <3>3 DEF Checksum
  <2> DEFINE h == Checksum(sender.file, receiver.pos)
  <2>6. h \in Frames
    BY <1>2, <2>3, CalmTypes DEF ReceiverRecord
  <2> HIDE DEF h
  <2>7. Mix(down', c, Offers(sender.file), 1, h)
    <3>1. down' = Append(down, h)
      BY <1>2, <2>5, <2>6, TellAppends DEF h
    <3>2. Mix(down, c, Offers(sender.file), 0, h)
      BY <1>2, <2>2, MixTurns
    <3>3. Mix(Append(down, h), c, Offers(sender.file), 0 + 1, h)
      BY <1>2, <2>6, <3>2, MixGrows
    <3> QED
      BY <3>1, <3>3
  <2>8. sender'.tries <= 1 + (faults' - repeated')
    BY <1>1, <1>2, <2>2, <2>5
  <2>9. Checked(c)'
    BY <1>1, <2>2, <2>4, <2>5, <2>7, <2>8 DEF Checked, Doubtful, Both, Spare, Offers, Checksum, Upto, h
  <2> QED
    BY <2>9 DEF InOrder
<1>8. CASE \E b \in Nat : Opened(b) /\ b > 0 /\ Head(up) = Welcome
  <2>1. PICK b \in Nat : Opened(b) /\ b > 0 /\ Head(up) = Welcome
    BY <1>8
  <2>2. Mix(up, b, Welcome, 1, Header("ZRPOS", receiver.pos)) /\ sender.tries + b <= 1 + (faults - repeated)
    BY <2>1 DEF Opened, Spare
  <2>3. Mix(up', b - 1, Welcome, 1, Header("ZRPOS", receiver.pos))
    BY <1>1, <1>2, <2>1, <2>2, MixBegins
  <2>4. sender.tries + 1 <= 1 + (faults - repeated) /\ sender.tries <= faults - repeated
        /\ (sender.tries + 1) + (b - 1) <= 1 + (faults - repeated) /\ b - 1 \in Nat
    BY <1>2, <2>1, <2>2
  <2>5. sender' = next /\ down' = down
        /\ next.pc = "answer" /\ next.tries = sender.tries + 1 /\ next.file = sender.file
    BY <1>3, <1>4, <2>1, <2>4
  <2>6. Opened(b - 1)'
    BY <1>1, <2>1, <2>3, <2>4, <2>5 DEF Opened, Within, Both, Spare
  <2> QED
    BY <2>4, <2>6 DEF InOrder
<1>9. CASE Opened(0) /\ Head(up) = Header("ZRPOS", receiver.pos)
  <2>1. Mix(up, 0, Welcome, 1, Header("ZRPOS", receiver.pos)) /\ down = <<>>
        /\ receiver.pos <= Len(content[sender.file]) /\ receiver.pc = "loop"
        /\ receiver.file = sender.file /\ receiver.name = sender.file
    BY <1>9 DEF Opened, Within, Both
  <2>2. up' = <<>>
    BY <1>1, <1>2, <2>1, MixEnds
  <2>3. sender' = [sender EXCEPT !.pc = "data", !.pos = receiver.pos] /\ down' = down
    <3>1. Head(up).type = "ZRPOS" /\ Head(up).n = receiver.pos
      BY <1>9, FrameTypes
    <3>2. ~(receiver.pos > Len(content[sender.file]))
      <4>1. sender.file \in 1..Files /\ receiver.pos \in Nat
        BY <1>2, <2>1, CalmTypes DEF ReceiverRecord, SenderRecord
      <4>2. Len(content[sender.file]) \in Nat
        BY <4>1, ContentOf
      <4> QED
        BY <2>1, <4>1, <4>2
    <3> QED
      BY <3>1, <3>2 DEF OfferAnswered
  <2>4. sender'.pc = "data" /\ sender'.pos = receiver.pos /\ sender'.file = sender.file
    BY <1>2, <2>3 DEF SenderRecord
  <2>5. Receiving'
    BY <1>1, <2>1, <2>2, <2>3, <2>4 DEF Receiving, Within, Both
  <2> QED
    BY <2>5 DEF InOrder
<1> QED
  BY <1>1, <1>5, <1>6, <1>7, <1>8, <1>9, NextUp DEF Requested, Idling, BlockTaken, EndTaken, FinTaken, Both

LEMMA NoSendError == ASSUME ZmodemTypeOK, InOrder PROVE ~SendError
<1>1. \A p : Has(p) => up # <<>> /\ sender.pc = p
  BY DEF Has
<1>2. up # <<>> =>
         \/ Head(up).type = "ZRINIT" \/ sender.pc = "ack"
         \/ sender.pc = "answer" /\ Head(up).type \in {"ZCRC", "ZRPOS"}
         \/ sender.pc = "finack" /\ Head(up).type = "ZFIN"
  BY NextUp, FrameTypes DEF Queried, Doubtful, Opened, BlockTaken, FinTaken, Both
<1> QED
  BY <1>1, <1>2 DEF SendError, Gets
-----------------------------------------------------------------------------
\* The receiver.  A part that is there is a beginning of the file.
LEMMA PartFits ==
    ASSUME ZmodemTypeOK, Calm, NEW f \in 1..Files, disk[f] = found[f], disk[f] # None
    PROVE  /\ Len(disk[f]) \in Nat /\ Len(disk[f]) <= Len(content[f]) /\ Upto(f, Len(disk[f])) = disk[f]
           /\ Len(disk[f]) \in 0..MaxLen
<1>1. disk[f] \in Seq(Blocks) /\ Len(disk[f]) \in 0..MaxLen /\ MaxLen \in Nat
  <2>1. disk[f] \in FileContent /\ MaxLen \in Nat
    BY TypesOfTransfer, ZmodemNumbers
  <2> QED
    BY <2>1, ContentIsSeq
<1>2. IsPrefix(disk[f], content[f])
  BY DEF Calm
<1>3. Len(disk[f]) <= Len(content[f]) /\ SubSeq(disk[f], 1, Len(disk[f])) = Upto(f, Len(disk[f]))
  BY <1>2 DEF IsPrefix, Upto
<1>4. SubSeq(disk[f], 1, Len(disk[f])) = disk[f]
  BY <1>1
<1> QED
  BY <1>1, <1>3, <1>4

\* A step that opens nothing.
LEMMA LaterKeeps ==
    ASSUME LaterFiles, UNCHANGED <<disk, found>>, receiver'.name = receiver.name,
           receiver'.pc \in Live => receiver.pc \in Live, receiver'.pc = "crc" => receiver.pc = "crc"
    PROVE  LaterFiles'
BY DEF LaterFiles

LEMMA ReceiveInitCalm == ASSUME ZmodemTypeOK, InOrder, LaterFiles, ReceiveInit PROVE InOrder' /\ LaterFiles'
<1>1. /\ receiver.pc \in {"init", "loop"} /\ down # <<>> /\ Head(down).type = "ZRQINIT"
      /\ down' = Tail(down) /\ up' = Append(up, Welcome) /\ receiver' = [receiver EXCEPT !.pc = "loop"]
      /\ UNCHANGED <<content, disk, found, sender, faults, repeated>>
  BY DEF ReceiveInit, Meets, Drop, Say, Welcome
<1>2. receiver'.pc = "loop" /\ receiver'.file = receiver.file /\ receiver'.name = receiver.name
  BY <1>1, CalmTypes DEF ReceiverRecord
<1>3. LaterFiles'
  BY <1>1, <1>2, LaterKeeps DEF Live
<1>4. CASE \E a, b \in Nat : (Requested(a, b) \/ Idling(a, b)) /\ a > 0
  <2>1. PICK a \in Nat, b \in Nat : (Requested(a, b) \/ Idling(a, b)) /\ a > 0
    BY <1>4
  <2>2. Same(down, a, Asks) /\ Same(up, b, Welcome) /\ receiver.file = NoFile /\ receiver.name = sender.file - 1
    BY <2>1 DEF Requested, Idling, Between
  <2>3. Same(down', a - 1, Asks) /\ Same(up', b + 1, Welcome) /\ a - 1 \in Nat /\ b + 1 \in Nat
    <3>1. /\ down \in Seq(Frames) /\ up \in Seq(Frames) /\ Welcome \in Frames
          /\ a \in Nat /\ b \in Nat /\ a - 1 \in Nat /\ b + 1 \in Nat
      BY <2>1, CalmTypes
    <3>2. Same(Tail(down), a - 1, Asks)
      BY <2>1, <2>2, <3>1, SameBegins
    <3>3. Same(Append(up, Welcome), b + 1, Welcome)
      BY <2>2, <3>1, SameGrows
    <3> QED
      BY <1>1, <3>1, <3>2, <3>3
  <2>4. CASE Requested(a, b)
    <3>1. sender.pc = "ready" /\ sender.file = 1 /\ a + b <= 1 + (faults - repeated)
      BY <2>4 DEF Requested, Both, Spare
    <3>2. (a - 1) + (b + 1) <= 1 + (faults' - repeated')
      BY <1>1, <2>1, <3>1, CalmTypes
    <3>3. Requested(a - 1, b + 1)'
      BY <1>1, <1>2, <2>2, <2>3, <3>1, <3>2 DEF Requested, Both, Between, Spare
    <3> QED
      BY <1>3, <2>3, <3>3 DEF InOrder
  <2>5. CASE Idling(a, b)
    <3>1. sender.pc = "offer" /\ ~(sender.file > 1) /\ a + b <= faults - repeated
      BY <2>1, <2>5 DEF Idling, Both, Spare
    <3>2. (a - 1) + (b + 1) <= faults' - repeated'
      BY <1>1, <2>1, <3>1, CalmTypes
    <3>3. Idling(a - 1, b + 1)'
      BY <1>1, <1>2, <2>2, <2>3, <3>1, <3>2 DEF Idling, Both, Between, Spare
    <3> QED
      BY <1>3, <2>3, <3>3 DEF InOrder
  <2> QED
    BY <2>1, <2>4, <2>5
<1>5. CASE \E a, b, c \in Nat : Offered(a, b, c) /\ a > 0
  <2>1. PICK a \in Nat, b \in Nat, c \in Nat : Offered(a, b, c) /\ a > 0
    BY <1>5
  <2>2. /\ Mix(down, a, Asks, c, Offers(sender.file)) /\ Same(up, b, Welcome) /\ c > 0 /\ c - 1 <= repeated
        /\ receiver.file = NoFile /\ receiver.name = sender.file - 1 /\ sender.pc = "answer" /\ FilesLeft
        /\ sender.tries + a + b <= faults - repeated
    BY <2>1 DEF Offered, Both, Between, Spare
  <2>3. Mix(down', a - 1, Asks, c, Offers(sender.file)) /\ a - 1 \in Nat
    <3>1. a - 1 \in Nat /\ down \in Seq(Frames)
      BY <2>1, CalmTypes
    <3>2. Mix(Tail(down), a - 1, Asks, c, Offers(sender.file))
      BY <2>1, <2>2, <3>1, MixBegins
    <3> QED
      BY <1>1, <3>1, <3>2
  <2>4. Same(up', b + 1, Welcome) /\ b + 1 \in Nat
    <3>1. up \in Seq(Frames) /\ Welcome \in Frames /\ b + 1 \in Nat
      BY <2>1, CalmTypes
    <3>2. Same(Append(up, Welcome), b + 1, Welcome)
      BY <2>1, <2>2, <3>1, SameGrows
    <3> QED
      BY <1>1, <3>1, <3>2
  <2>5. sender'.tries + (a - 1) + (b + 1) <= faults' - repeated'
    <3>1. faults \in Nat /\ repeated \in Nat /\ sender.tries \in Nat
      BY CalmTypes DEF SenderRecord
    <3>2. sender.tries + (a - 1) + (b + 1) <= faults - repeated
      BY <2>1, <2>2, <3>1
    <3> QED
      BY <1>1, <3>2
  <2>6. Offered(a - 1, b + 1, c)'
    BY <1>1, <1>2, <2>2, <2>3, <2>4, <2>5 DEF Offered, Both, Between, Spare, FilesLeft, Offers
  <2> QED
    BY <1>3, <2>3, <2>4, <2>6 DEF InOrder
<1> QED
  BY <1>1, <1>4, <1>5, NextDown, FrameTypes

LEMMA ReceiveFileCalm ==
    ASSUME ZmodemTypeOK, InOrder, LaterFiles, Calm, ReceiveFile
    PROVE  InOrder' /\ LaterFiles'
<1> DEFINE f == sender.file
           have == IF disk[f] = None THEN 0 ELSE Len(disk[f])
<1>1. /\ receiver.pc = "loop" /\ down # <<>> /\ Head(down).type = "ZFILE" /\ down' = Tail(down)
      /\ UNCHANGED <<content, found, sender, faults, repeated>>
  BY DEF ReceiveFile, Meets, Drop
<1>2. /\ down \in Seq(Frames) /\ up \in Seq(Frames) /\ sender \in SenderRecord /\ receiver \in ReceiverRecord
      /\ faults \in Nat /\ repeated \in Nat /\ disk \in [1..Files -> FileContent \cup {None}]
      /\ MaxLen \in Nat /\ None \notin FileContent /\ Files \in Nat /\ sender.tries \in Nat
      /\ MaxRepeats \in Nat
  BY CalmTypes, TypesOfTransfer, ZmodemNumbers DEF SenderRecord
<1>3. PICK b \in Nat, c \in Nat : Offered(0, b, c) /\ Head(down) = Offers(f)
  BY <1>1, NextDown, FrameTypes DEF Queried, Checked, Doubtful, Both
<1>4. /\ sender.pc = "answer" /\ receiver.file = NoFile /\ receiver.name = f - 1 /\ FilesLeft
      /\ Mix(down, 0, Asks, c, Offers(f)) /\ c > 0 /\ c - 1 <= repeated
      /\ Same(up, b, Welcome) /\ sender.tries + b <= faults - repeated
  <2>1. sender.tries + 0 + b <= faults - repeated
    BY <1>3 DEF Offered, Spare
  <2> QED
    BY <1>2, <1>3, <2>1 DEF Offered, Both, Between
<1>5. f \in 1..Files /\ f \in Nat
  BY <1>2, <1>4 DEF FilesLeft, SenderRecord
<1>6. disk[f] = found[f] /\ \A g \in 1..Files : g > f => disk[g] = found[g]
  BY <1>1, <1>4, <1>5 DEF LaterFiles, Live
<1>7. have \in 0..MaxLen /\ have \in Nat /\ have <= Len(content[f]) /\ Len(content[f]) \in Nat
  <2>1. Len(content[f]) \in Nat
    BY <1>5, ContentOf
  <2>2. CASE disk[f] = None
    BY <1>2, <2>1, <2>2
  <2>3. CASE disk[f] # None
    BY <1>5, <1>6, <2>1, <2>3, PartFits
  <2> QED
    BY <2>2, <2>3
<1>8. Mix(down', 0, Asks, c - 1, Offers(f)) /\ down' \in Seq(Frames) /\ c - 1 \in Nat
  BY <1>1, <1>2, <1>3, <1>4, MixBegins
<1> HIDE DEF have
<1>9. IF NeedsCRC(f)
        THEN /\ receiver' = [receiver EXCEPT !.pc = "crc", !.name = f, !.pos = have, !.repeats = 0]
             /\ up' = Append(up, Header("ZCRC", have)) /\ disk' = disk
        ELSE OpenAt(f, have)
  <2>1. /\ Head(down).good /\ Head(down).n = f /\ Head(down).data = content[f]
        /\ ~(have > Len(content[f]))
    BY <1>3, <1>7, FrameTypes
  <2> QED
    BY <2>1 DEF ReceiveFile, Say, have
<1>10. CASE NeedsCRC(f)
  <2>1. disk[f] # None /\ have = Len(disk[f])
    BY <1>10 DEF NeedsCRC, have
  <2>2. /\ receiver' = [receiver EXCEPT !.pc = "crc", !.name = f, !.pos = have, !.repeats = 0]
        /\ up' = Append(up, Query(have)) /\ disk' = disk
    BY <1>9, <1>10 DEF Query
  <2>3. /\ receiver'.pc = "crc" /\ receiver'.file = NoFile /\ receiver'.name = f /\ receiver'.pos = have
        /\ receiver'.repeats = 0
    BY <1>2, <1>4, <2>2 DEF ReceiverRecord
  <2>4. Mix(up', b, Welcome, 1, Query(have))
    <3>1. Mix(up, b, Welcome, 0, Query(have)) /\ Query(have) \in Frames
      BY <1>2, <1>4, <1>7, CalmTypes, MixTurns
    <3>2. Mix(Append(up, Query(have)), b, Welcome, 0 + 1, Query(have))
      BY <1>2, <3>1, MixGrows
    <3> QED
      BY <2>2, <3>2
  <2>5. Same(down', c - 1, Offers(f))
    BY <1>8 DEF Mix, Same
  <2>6. Queried(b, c - 1)'
    BY <1>1, <1>2, <1>4, <1>8, <2>1, <2>2, <2>3, <2>4, <2>5 DEF Queried, Doubtful, Both, Spare, Offers, Query
  <2>7. LaterFiles'
    BY <1>1, <1>2, <1>5, <1>6, <2>2, <2>3 DEF LaterFiles
  <2> QED
    BY <1>8, <2>6, <2>7 DEF InOrder
<1>11. CASE ~NeedsCRC(f)
  <2>1. have = 0 /\ repeated = 0
    <3>1. disk[f] \in {None, <<>>} /\ have = 0
      BY <1>11, EmptySeq DEF NeedsCRC, have
    <3> QED
      BY <1>2, <1>5, <1>6, <3>1 DEF Calm
  <2>2. c - 1 = 0
    BY <1>4, <1>8, <2>1
  <2>3. down' = <<>>
    <3>1. Mix(down', 0, Asks, 0, Offers(f))
      BY <1>8, <2>2
    <3>2. down' = <<>> <=> 0 + 0 = 0
      BY <1>8, <3>1, MixBegins
    <3> QED
      BY <3>2
  <2>4. /\ receiver' = [receiver EXCEPT !.pc = "loop", !.file = f, !.name = f, !.pos = have]
        /\ disk' = IF disk[f] = None THEN [disk EXCEPT ![f] = <<>>] ELSE disk
        /\ up' = Append(up, Header("ZRPOS", have))
    BY <1>9, <1>11 DEF OpenAt, Say
  <2>5. /\ receiver'.pc = "loop" /\ receiver'.file = f /\ receiver'.name = f /\ receiver'.pos = have
    BY <1>2, <2>4 DEF ReceiverRecord
  <2>6. Mix(up', b, Welcome, 1, Header("ZRPOS", have))
    <3>1. Mix(up, b, Welcome, 0, Header("ZRPOS", have)) /\ Header("ZRPOS", have) \in Frames
      BY <1>2, <1>4, <1>7, HeadersAreFrames, MixTurns DEF Types
    <3>2. Mix(Append(up, Header("ZRPOS", have)), b, Welcome, 0 + 1, Header("ZRPOS", have))
      BY <1>2, <3>1, MixGrows
    <3> QED
      BY <2>4, <3>2
  <2>7. sender'.tries + b <= 1 + (faults' - repeated')
    BY <1>1, <1>2, <1>4
  <2>8. Opened(b)'
    BY <1>1, <1>4, <1>7, <2>3, <2>5, <2>6, <2>7 DEF Opened, Both, Within, Spare
  <2>9. \A g \in 1..Files : g # f => disk'[g] = disk[g]
    BY <1>2, <1>5, <2>4
  <2>10. LaterFiles'
    BY <1>1, <1>2, <1>5, <1>6, <2>5, <2>9 DEF LaterFiles
  <2> QED
    BY <2>8, <2>10 DEF InOrder
<1> QED
  BY <1>10, <1>11

LEMMA ReceiveCRCCalm ==
    ASSUME ZmodemTypeOK, InOrder, LaterFiles, Calm, ReceiveCRC
    PROVE  InOrder' /\ LaterFiles'
<1> DEFINE f == sender.file
<1>1. /\ receiver.pc = "crc" /\ down # <<>> /\ Head(down).type = "ZCRC" /\ down' = Tail(down)
      /\ UNCHANGED <<content, found, sender, faults, repeated>>
      /\ Agrees(Head(down)) => OpenAt(receiver.name, receiver.pos)
  BY DEF ReceiveCRC, Meets, Drop
<1>2. /\ down \in Seq(Frames) /\ up \in Seq(Frames) /\ sender \in SenderRecord /\ receiver \in ReceiverRecord
      /\ disk \in [1..Files -> FileContent \cup {None}] /\ Files \in Nat
  BY TypesOfTransfer, ZmodemNumbers
<1>3. Checked(0) /\ Head(down) = Checksum(f, receiver.pos)
  BY <1>1, NextDown, FrameTypes DEF BlockSent, EndSent, FinSent, OverSent, Both
<1>4. /\ sender.pc = "answer" /\ receiver.file = NoFile /\ receiver.name = f /\ disk[f] # None
      /\ receiver.pos = Len(disk[f]) /\ sender.tries <= 1 + (faults - repeated) /\ up = <<>>
      /\ Mix(down, 0, Offers(f), 1, Checksum(f, receiver.pos))
  BY <1>3 DEF Checked, Doubtful, Both, Spare
<1>5. f \in 1..Files /\ f \in Nat
  BY <1>2, <1>4 DEF SenderRecord, ReceiverRecord
<1>6. /\ disk[f] = found[f] /\ \A g \in 1..Files : g > f => disk[g] = found[g]
  BY <1>1, <1>4, <1>5 DEF LaterFiles, Live
<1>7. Upto(f, receiver.pos) = disk[f] /\ receiver.pos <= Len(content[f]) /\ receiver.pos \in Nat
  BY <1>4, <1>5, <1>6, PartFits
<1>8. Agrees(Head(down))
  BY <1>3, <1>4, <1>7, FrameTypes DEF Agrees
<1>9. /\ receiver' = [receiver EXCEPT !.pc = "loop", !.file = f, !.name = f]
      /\ disk' = disk /\ up' = Append(<<>>, Header("ZRPOS", receiver.pos))
  <2>1. receiver' = [receiver EXCEPT !.pc = "loop", !.file = f, !.name = f, !.pos = receiver.pos]
    BY <1>1, <1>4, <1>8 DEF OpenAt
  <2>2. receiver' = [receiver EXCEPT !.pc = "loop", !.file = f, !.name = f]
    BY <1>2, <2>1 DEF ReceiverRecord
  <2> QED
    BY <1>1, <1>4, <1>8, <2>2 DEF OpenAt, Say
<1>10. /\ receiver'.pc = "loop" /\ receiver'.file = f /\ receiver'.name = f /\ receiver'.pos = receiver.pos
  BY <1>2, <1>9 DEF ReceiverRecord
<1>11. down' = <<>>
  BY <1>1, <1>2, <1>4, MixEnds
<1>12. Mix(up', 0, Welcome, 1, Header("ZRPOS", receiver.pos))
  <2>1. /\ Header("ZRPOS", receiver.pos) \in Frames /\ <<>> \in Seq(Frames)
        /\ Mix(<<>>, 0, Welcome, 0, Header("ZRPOS", receiver.pos))
    BY <1>7, HeadersAreFrames, MixOfNone, EmptySeq DEF Types
  <2>2. Mix(Append(<<>>, Header("ZRPOS", receiver.pos)), 0, Welcome, 0 + 1, Header("ZRPOS", receiver.pos))
    BY <2>1, MixGrows
  <2> QED
    BY <1>9, <2>2
<1>13. sender'.tries + 0 <= 1 + (faults' - repeated')
  BY <1>1, <1>2, <1>4 DEF SenderRecord
<1>14. Opened(0)'
  BY <1>1, <1>4, <1>7, <1>10, <1>11, <1>12, <1>13 DEF Opened, Both, Within, Spare
<1>15. LaterFiles'
  BY <1>1, <1>5, <1>6, <1>9, <1>10 DEF LaterFiles
<1> QED
  BY <1>14, <1>15 DEF InOrder
LEMMA ReceiveRepeatedCalm ==
    ASSUME ZmodemTypeOK, InOrder, LaterFiles, Calm, ReceiveRepeated
    PROVE  InOrder' /\ LaterFiles'
<1> DEFINE f == sender.file
           r == receiver.repeats
<1>1. /\ receiver.pc = "crc" /\ down # <<>> /\ Head(down).type = "ZFILE" /\ down' = Tail(down)
      /\ UNCHANGED <<content, disk, found, sender, faults, repeated>>
      /\ SameOffer(Head(down)) => receiver' = [receiver EXCEPT !.repeats = @ + 1] /\ up' = up
  BY DEF ReceiveRepeated, Meets, Drop
<1>2. /\ down \in Seq(Frames) /\ up \in Seq(Frames) /\ receiver \in ReceiverRecord
      /\ repeated \in Nat /\ MaxRepeats \in Nat /\ r \in Nat /\ repeated <= MaxRepeats
  BY CalmTypes, ZmodemNumbers DEF ReceiverRecord, Calm
<1>3. ASSUME NEW c \in Nat, c > 0, Doubtful, Head(down) = Offers(f), r + c <= repeated
      PROVE  /\ receiver'.pc = "crc" /\ receiver'.file = receiver.file /\ receiver'.name = receiver.name
             /\ receiver'.pos = receiver.pos /\ receiver'.repeats + (c - 1) <= repeated' /\ up' = up
  <2>1. r < MaxRepeats
    BY <1>2, <1>3
  <2>2. SameOffer(Head(down))
    BY <1>3, <2>1, FrameTypes DEF SameOffer, Doubtful
  <2>3. receiver' = [receiver EXCEPT !.repeats = r + 1] /\ up' = up
    BY <1>1, <2>2
  <2>4. /\ receiver'.pc = "crc" /\ receiver'.file = receiver.file /\ receiver'.name = receiver.name
        /\ receiver'.pos = receiver.pos /\ receiver'.repeats = r + 1
    BY <1>1, <1>2, <2>3 DEF ReceiverRecord
  <2> HIDE DEF r
  <2> QED
    BY <1>1, <1>2, <1>3, <2>3, <2>4
<1>4. CASE \E b, c \in Nat : Queried(b, c) /\ c > 0 /\ Head(down) = Offers(f)
  <2>1. PICK b \in Nat, c \in Nat : Queried(b, c) /\ c > 0 /\ Head(down) = Offers(f)
    BY <1>4
  <2>2. /\ Doubtful /\ Same(down, c, Offers(f)) /\ r + c <= repeated
        /\ Mix(up, b, Welcome, 1, Query(receiver.pos)) /\ sender.tries + b <= faults - repeated
    BY <2>1 DEF Queried, Spare
  <2>3. Same(down', c - 1, Offers(f)) /\ c - 1 \in Nat
    BY <1>1, <1>2, <2>1, <2>2, SameBegins
  <2>4. /\ receiver'.pc = "crc" /\ receiver'.file = receiver.file /\ receiver'.name = receiver.name
        /\ receiver'.pos = receiver.pos /\ receiver'.repeats + (c - 1) <= repeated' /\ up' = up
    BY <1>3, <2>1, <2>2
  <2>5. Queried(b, c - 1)'
    BY <1>1, <2>2, <2>3, <2>4 DEF Queried, Doubtful, Both, Spare, Offers, Query
  <2>6. LaterFiles'
    BY <1>1, <2>4, LaterKeeps DEF Live
  <2> QED
    BY <2>3, <2>5, <2>6 DEF InOrder
<1>5. CASE \E c \in Nat : Checked(c) /\ c > 0 /\ Head(down) = Offers(f)
  <2>1. PICK c \in Nat : Checked(c) /\ c > 0 /\ Head(down) = Offers(f)
    BY <1>5
  <2>2. /\ Doubtful /\ Mix(down, c, Offers(f), 1, Checksum(f, receiver.pos)) /\ r + c <= repeated
        /\ up = <<>> /\ sender.tries <= 1 + (faults - repeated)
    BY <2>1 DEF Checked, Spare
  <2>3. Mix(down', c - 1, Offers(f), 1, Checksum(f, receiver.pos)) /\ c - 1 \in Nat
    <3>1. c - 1 \in Nat
      BY <2>1
    <3>2. Mix(Tail(down), c - 1, Offers(f), 1, Checksum(f, receiver.pos))
      BY <1>2, <2>1, <2>2, <3>1, MixBegins
    <3> QED
      BY <1>1, <3>1, <3>2
  <2>4. /\ receiver'.pc = "crc" /\ receiver'.file = receiver.file /\ receiver'.name = receiver.name
        /\ receiver'.pos = receiver.pos /\ receiver'.repeats + (c - 1) <= repeated' /\ up' = up
    BY <1>3, <2>1, <2>2
  <2>5. Checked(c - 1)'
    BY <1>1, <2>2, <2>3, <2>4 DEF Checked, Doubtful, Both, Spare, Offers, Checksum, Upto
  <2>6. LaterFiles'
    BY <1>1, <2>4, LaterKeeps DEF Live
  <2> QED
    BY <2>3, <2>5, <2>6 DEF InOrder
<1> QED
  BY <1>1, <1>4, <1>5, NextDown, FrameTypes DEF Offered, Both

LEMMA ReceiveDataCalm == ASSUME ZmodemTypeOK, InOrder, LaterFiles, ReceiveData PROVE InOrder' /\ LaterFiles'
<1> DEFINE f == sender.file
           p == sender.pos
           h == Head(down)
<1>1. /\ receiver.pc = "loop" /\ down # <<>> /\ h.type = "ZDATA" /\ down' = Tail(down)
      /\ UNCHANGED <<content, found, sender, faults, repeated>>
  BY DEF ReceiveData, Meets, Drop
<1>2. /\ sender \in SenderRecord /\ receiver \in ReceiverRecord
      /\ disk \in [1..Files -> FileContent \cup {None}] /\ Files \in Nat
  BY TypesOfTransfer, ZmodemNumbers
<1>3. BlockSent /\ h = Block(f, p)
  BY <1>1, NextDown, FrameTypes
<1>4. /\ sender.pc = "ack" /\ receiver.file = f /\ receiver.name = f /\ receiver.pos = p
      /\ p < Len(content[f]) /\ down' = <<>> /\ up = <<>>
  BY <1>1, <1>3, OneFrame DEF BlockSent, Both, Within
<1>5. f \in 1..Files /\ p \in Nat
  BY <1>2, <1>4 DEF SenderRecord, ReceiverRecord
<1>6. content[f] \in Seq(Blocks) /\ Len(content[f]) \in Nat /\ p + 1 <= Len(content[f])
  <2>1. content[f] \in Seq(Blocks) /\ Len(content[f]) \in Nat
    BY <1>5, ContentOf
  <2> QED
    BY <1>4, <1>5, <2>1
<1>7. h.n = p /\ h.good /\ Len(h.data) = 1
  <2>1. h.n = p /\ h.good /\ h.data = SubSeq(content[f], p + 1, p + 1)
    <3>1. /\ Block(f, p).n = p /\ Block(f, p).good
          /\ Block(f, p).data = SubSeq(content[f], p + 1, p + 1)
      BY DEF Block, Packet
    <3> QED
      BY <1>3, <3>1
  <2>2. Len(SubSeq(content[f], p + 1, p + 1)) = 1
    BY <1>5, <1>6, SubSeqProperties
  <2> QED
    BY <2>1, <2>2
<1>8. /\ disk' = [disk EXCEPT ![f] = SubSeq(@, 1, p) \o h.data]
      /\ receiver' = [receiver EXCEPT !.pos = p + 1] /\ up' = Append(<<>>, Header("ZACK", p + 1))
  <2>1. f # NoFile /\ ~(p + 1 > Len(content[f]))
    BY <1>5, <1>6 DEF NoFile
  <2> QED
    BY <1>4, <1>7, <2>1 DEF ReceiveData, BlockFits, Say
<1>9. receiver'.pc = "loop" /\ receiver'.file = f /\ receiver'.name = f /\ receiver'.pos = p + 1
  BY <1>1, <1>2, <1>4, <1>8 DEF ReceiverRecord
<1>10. up' = <<Header("ZACK", p + 1)>>
  BY <1>8
<1>11. BlockTaken'
  BY <1>1, <1>4, <1>6, <1>9, <1>10 DEF BlockTaken, Both, Within
<1>12. \A g \in 1..Files : g # f => disk'[g] = disk[g]
  BY <1>2, <1>8
<1>13. LaterFiles'
  <2>1. \A g \in 1..Files : g > f => disk[g] = found[g] /\ g # f
    BY <1>1, <1>4, <1>5 DEF LaterFiles, Live
  <2> QED
    BY <1>1, <1>9, <1>12, <2>1 DEF LaterFiles
<1> QED
  BY <1>11, <1>13 DEF InOrder

LEMMA ReceiveEOFCalm == ASSUME ZmodemTypeOK, InOrder, LaterFiles, ReceiveEOF PROVE InOrder' /\ LaterFiles'
<1> DEFINE f == sender.file
<1>1. /\ receiver.pc = "loop" /\ down # <<>> /\ Head(down).type = "ZEOF" /\ down' = Tail(down)
      /\ UNCHANGED <<content, disk, found, sender, faults, repeated>>
  BY DEF ReceiveEOF, Meets, Drop
<1>2. sender \in SenderRecord /\ receiver \in ReceiverRecord
  BY TypesOfTransfer
<1>3. EndSent /\ Head(down) = Header("ZEOF", sender.pos)
  BY <1>1, NextDown, FrameTypes
<1>4. /\ sender.pc = "next" /\ receiver.file = f /\ receiver.name = f /\ receiver.pos = sender.pos
      /\ sender.pos = Len(content[f]) /\ down' = <<>> /\ up = <<>>
  BY <1>1, <1>3, OneFrame DEF EndSent, Both, Within
<1>5. receiver.file # NoFile /\ Whole(Head(down))
  BY <1>2, <1>3, <1>4, FrameTypes DEF Whole, NoFile, SenderRecord
<1>6. receiver' = [receiver EXCEPT !.file = NoFile] /\ up' = Append(<<>>, Welcome)
  BY <1>4, <1>5 DEF ReceiveEOF, Say, Welcome
<1>7. receiver'.pc = "loop" /\ receiver'.file = NoFile /\ receiver'.name = f
  BY <1>1, <1>2, <1>4, <1>6 DEF ReceiverRecord
<1>8. up' = <<Welcome>>
  BY <1>6
<1>9. EndTaken'
  BY <1>1, <1>4, <1>7, <1>8 DEF EndTaken, Both
<1>10. LaterFiles'
  BY <1>1, <1>4, <1>7, LaterKeeps DEF Live
<1> QED
  BY <1>9, <1>10 DEF InOrder

LEMMA ReceiveFinCalm == ASSUME ZmodemTypeOK, InOrder, ReceiveFin PROVE InOrder' /\ LaterFiles'
<1>1. /\ receiver.pc = "loop" /\ down # <<>> /\ Head(down).type = "ZFIN" /\ down' = Tail(down) /\ sender' = sender
  BY DEF ReceiveFin, Meets, Drop
<1>2. receiver \in ReceiverRecord
  BY TypesOfTransfer
<1>3. FinSent
  BY <1>1, NextDown, FrameTypes
<1>4. sender.pc = "finack" /\ receiver.file = NoFile /\ down' = <<>> /\ up = <<>>
  BY <1>1, <1>3, OneFrame DEF FinSent, Both, Between
<1>5. receiver' = [receiver EXCEPT !.pc = "over"] /\ up' = Append(<<>>, Header("ZFIN", 0))
  BY <1>4 DEF ReceiveFin, Say
<1>6. receiver'.pc = "over"
  BY <1>2, <1>5 DEF ReceiverRecord
<1>7. up' = <<Header("ZFIN", 0)>>
  BY <1>5
<1>8. FinTaken'
  BY <1>1, <1>4, <1>6, <1>7 DEF FinTaken, Both
<1> QED
  BY <1>6, <1>8 DEF InOrder, LaterFiles, Live

LEMMA ReceiveOverCalm == ASSUME ZmodemTypeOK, InOrder, ReceiveOver PROVE InOrder' /\ LaterFiles'
<1>1. receiver.pc = "over" /\ sender' = sender /\ down # <<>>
  BY DEF ReceiveOver, Meets
<1>2. receiver \in ReceiverRecord
  BY TypesOfTransfer
<1>3. OverSent
  BY <1>1, SenderIsAt DEF FinTaken
<1>4. sender.pc = "done" /\ Head(down).type = "OO" /\ down # <<>> /\ Tail(down) = <<>> /\ up = <<>>
  BY <1>3, OneFrame, FrameTypes DEF OverSent, Both
<1>5. down' = Tail(down) /\ up' = up /\ receiver' = [receiver EXCEPT !.pc = "done"]
  BY <1>4 DEF ReceiveOver, Meets, Drop
<1>6. receiver'.pc = "done"
  BY <1>2, <1>5 DEF ReceiverRecord
<1>7. BothDone'
  BY <1>1, <1>4, <1>5, <1>6 DEF BothDone, Both
<1> QED
  BY <1>6, <1>7 DEF InOrder, LaterFiles, Live

\* The two letters are on their way before the sender ends.
LEMMA NoStreamEnd == ASSUME ZmodemTypeOK, InOrder PROVE ~ReceiveStreamEnds
<1> SUFFICES ASSUME ReceiveStreamEnds PROVE FALSE
  OBVIOUS
<1>1. receiver.pc = "over" /\ down = <<>> /\ sender.pc # "finack"
  BY DEF ReceiveStreamEnds, Ended
<1>2. ~FinTaken
  BY <1>1 DEF FinTaken, Both
<1>3. ~OverSent
  BY <1>1, OneFrame DEF OverSent
<1> QED
  BY <1>1, <1>2, <1>3, SenderIsAt

LEMMA NoReceiveError == ASSUME ZmodemTypeOK, InOrder PROVE ~ReceiveError
<1>1. \A p, t : Meets(p, t) <=> receiver.pc = p /\ down # <<>> /\ Head(down).type \in t
  BY DEF Meets
<1>2. down # <<>> =>
         \/ Head(down).type = "ZRQINIT" /\ receiver.pc # "crc"
         \/ Head(down).type = "ZFILE" /\ receiver.pc # "init"
         \/ Head(down).type = "ZCRC" /\ receiver.pc = "crc"
         \/ Head(down).type \in {"ZDATA", "ZEOF", "ZFIN"} /\ receiver.pc = "loop"
         \/ receiver.pc = "over"
  BY NextDown, FrameTypes DEF Requested, Idling, Offered, Queried, Checked, Doubtful, BlockSent, EndSent, FinSent,
                              OverSent, Both
<1> QED
  BY <1>1, <1>2 DEF ReceiveError

-----------------------------------------------------------------------------
\* The channel.
LEMMA RepeatCalm ==
    ASSUME ZmodemTypeOK, InOrder, LaterFiles, NEW i \in DOMAIN down, Repeat(i)
    PROVE  InOrder' /\ LaterFiles'
<1> DEFINE f == sender.file
           t == InsertAt(down, i, down[i])
<1>1. /\ down[i].type \in {"ZRQINIT", "ZFILE"} /\ faults' = faults + 1
      /\ repeated' = IF down[i].type = "ZFILE" THEN repeated + 1 ELSE repeated
      /\ down' = t /\ UNCHANGED <<content, disk, found, up, sender, receiver>>
  BY DEF Repeat
<1>2. /\ down \in Seq(Frames) /\ up \in Seq(Frames) /\ faults \in Nat /\ repeated \in Nat
      /\ sender.tries \in Nat /\ receiver.repeats \in Nat /\ down # <<>>
  <2>1. down # <<>>
    BY EmptySeq
  <2> QED
    BY <2>1, CalmTypes DEF SenderRecord, ReceiverRecord
<1> HIDE DEF t
<1>3. LaterFiles'
  BY <1>1, LaterKeeps
<1>4. ASSUME down[i] = Asks PROVE faults' - repeated' = (faults - repeated) + 1 /\ repeated' = repeated
  BY <1>1, <1>2, <1>4, FrameTypes
<1>5. ASSUME down[i] = Offers(f) PROVE faults' - repeated' = faults - repeated /\ repeated' = repeated + 1
  BY <1>1, <1>2, <1>5, FrameTypes
<1>6. CASE \E a, b \in Nat : Requested(a, b) \/ Idling(a, b)
  <2>1. PICK a \in Nat, b \in Nat : Requested(a, b) \/ Idling(a, b)
    BY <1>6
  <2>2. Same(down, a, Asks)
    BY <2>1 DEF Requested, Idling
  <2>3. down[i] = Asks /\ a > 0 /\ Same(t, a + 1, Asks)
    <3>1. \/ down[i] = Asks /\ a > 0 /\ Mix(t, a + 1, Asks, 0, Asks)
          \/ down[i] = Asks /\ 0 > 0 /\ Mix(t, a, Asks, 0 + 1, Asks)
      BY <1>2, <2>1, <2>2, MixRepeats DEF Same, t
    <3> QED
      BY <3>1 DEF Same
  <2>4. faults' - repeated' = (faults - repeated) + 1 /\ a + 1 \in Nat
    BY <1>4, <2>1, <2>3
  <2>5. CASE Requested(a, b)
    <3>1. (a + 1) + b <= 1 + (faults' - repeated')
      <4>1. a + b <= 1 + (faults - repeated)
        BY <2>5 DEF Requested, Spare
      <4> QED
        BY <1>2, <2>1, <2>4, <4>1
    <3>2. Requested(a + 1, b)'
      BY <1>1, <2>3, <2>5, <3>1 DEF Requested, Both, Between, Spare
    <3> QED
      BY <1>3, <2>1, <2>4, <3>2 DEF InOrder
  <2>6. CASE Idling(a, b)
    <3>1. (a + 1) + b <= faults' - repeated'
      <4>1. a + b <= faults - repeated
        BY <2>6 DEF Idling, Spare
      <4> QED
        BY <1>2, <2>1, <2>4, <4>1
    <3>2. ~(sender.file > 1)
      BY <2>1, <2>3, <2>6 DEF Idling
    <3>3. Idling(a + 1, b)'
      BY <1>1, <2>3, <2>6, <3>1, <3>2 DEF Idling, Both, Between, Spare
    <3> QED
      BY <1>3, <2>1, <2>4, <3>3 DEF InOrder
  <2> QED
    BY <2>1, <2>5, <2>6
<1>7. CASE \E a, b, c \in Nat : Offered(a, b, c)
  <2>1. PICK a \in Nat, b \in Nat, c \in Nat : Offered(a, b, c)
    BY <1>7
  <2>2. /\ Mix(down, a, Asks, c, Offers(f)) /\ Same(up, b, Welcome) /\ c > 0 /\ c - 1 <= repeated
        /\ sender.tries + a + b <= faults - repeated
    BY <2>1 DEF Offered, Spare
  <2>3. CASE down[i] = Asks /\ Mix(t, a + 1, Asks, c, Offers(f))
    <3>1. sender.tries + (a + 1) + b <= faults' - repeated' /\ a + 1 \in Nat /\ repeated' = repeated
      <4>1. faults' - repeated' = (faults - repeated) + 1 /\ repeated' = repeated
        BY <1>4, <2>3
      <4> DEFINE n == sender.tries
                 m == faults' - repeated'
      <4> HIDE DEF n, m
      <4>2. /\ n \in Nat /\ a \in Nat /\ b \in Nat /\ faults \in Nat /\ repeated \in Nat
            /\ m = (faults - repeated) + 1 /\ n + a + b <= faults - repeated
        BY <1>2, <2>1, <2>2, <4>1 DEF n, m
      <4>3. n + (a + 1) + b <= m /\ a + 1 \in Nat
        BY <4>2
      <4> QED
        BY <4>1, <4>3 DEF n, m
    <3>2. Offered(a + 1, b, c)'
      BY <1>1, <2>1, <2>2, <2>3, <3>1 DEF Offered, Both, Between, Spare, FilesLeft, Offers
    <3> QED
      BY <1>3, <2>1, <3>1, <3>2 DEF InOrder
  <2>4. CASE down[i] = Offers(f) /\ Mix(t, a, Asks, c + 1, Offers(f))
    <3>1. /\ sender.tries + a + b <= faults' - repeated' /\ c + 1 \in Nat /\ c + 1 > 0
          /\ (c + 1) - 1 <= repeated'
      <4>1. faults' - repeated' = faults - repeated /\ repeated' = repeated + 1
        BY <1>5, <2>4
      <4>2. c \in Nat /\ repeated \in Nat
        BY <1>2, <2>1
      <4> QED
        BY <2>2, <4>1, <4>2
    <3>2. Offered(a, b, c + 1)'
      BY <1>1, <2>1, <2>2, <2>4, <3>1 DEF Offered, Both, Between, Spare, FilesLeft, Offers
    <3> QED
      BY <1>3, <2>1, <3>1, <3>2 DEF InOrder
  <2> QED
    BY <1>2, <2>1, <2>2, <2>3, <2>4, MixRepeats DEF t
<1>8. CASE \E b, c \in Nat : Queried(b, c)
  <2>1. PICK b \in Nat, c \in Nat : Queried(b, c)
    BY <1>8
  <2>2. /\ Doubtful /\ Same(down, c, Offers(f)) /\ receiver.repeats + c <= repeated
        /\ Mix(up, b, Welcome, 1, Query(receiver.pos)) /\ sender.tries + b <= faults - repeated
    BY <2>1 DEF Queried, Spare
  <2>3. down[i] = Offers(f) /\ Same(t, c + 1, Offers(f))
    <3>1. \/ down[i] = Offers(f) /\ c > 0 /\ Mix(t, c + 1, Offers(f), 0, Offers(f))
          \/ down[i] = Offers(f) /\ 0 > 0 /\ Mix(t, c, Offers(f), 0 + 1, Offers(f))
      BY <1>2, <2>1, <2>2, MixRepeats DEF Same, t
    <3> QED
      BY <3>1 DEF Same
  <2>4. /\ faults' - repeated' = faults - repeated /\ receiver.repeats + (c + 1) <= repeated' /\ c + 1 \in Nat
    <3>1. faults' - repeated' = faults - repeated /\ repeated' = repeated + 1
      BY <1>5, <2>3
    <3>2. receiver.repeats + c <= repeated
      BY <2>2
    <3>3. receiver.repeats \in Nat /\ repeated \in Nat /\ c \in Nat
      BY <1>2, <2>1
    <3>4. receiver.repeats + (c + 1) <= repeated + 1 /\ c + 1 \in Nat
      BY <3>2, <3>3
    <3> QED
      BY <3>1, <3>4
  <2>5. Queried(b, c + 1)'
    BY <1>1, <2>2, <2>3, <2>4 DEF Queried, Doubtful, Both, Spare, Offers, Query
  <2> QED
    BY <1>3, <2>1, <2>4, <2>5 DEF InOrder
<1>9. CASE \E c \in Nat : Checked(c)
  <2>1. PICK c \in Nat : Checked(c)
    BY <1>9
  <2>2. /\ Doubtful /\ Mix(down, c, Offers(f), 1, Checksum(f, receiver.pos)) /\ receiver.repeats + c <= repeated
        /\ up = <<>> /\ sender.tries <= 1 + (faults - repeated)
    BY <2>1 DEF Checked, Spare
  <2>3. down[i] = Offers(f) /\ Mix(t, c + 1, Offers(f), 1, Checksum(f, receiver.pos))
    <3>1. \/ down[i] = Offers(f) /\ c > 0 /\ Mix(t, c + 1, Offers(f), 1, Checksum(f, receiver.pos))
          \/ down[i] = Checksum(f, receiver.pos)
      BY <1>2, <2>1, <2>2, MixRepeats DEF t
    <3> QED
      BY <1>1, <3>1, FrameTypes
  <2>4. /\ faults' - repeated' = faults - repeated /\ receiver.repeats + (c + 1) <= repeated' /\ c + 1 \in Nat
    <3>1. faults' - repeated' = faults - repeated /\ repeated' = repeated + 1
      BY <1>5, <2>3
    <3>2. receiver.repeats + c <= repeated
      BY <2>2
    <3>3. receiver.repeats \in Nat /\ repeated \in Nat /\ c \in Nat
      BY <1>2, <2>1
    <3>4. receiver.repeats + (c + 1) <= repeated + 1 /\ c + 1 \in Nat
      BY <3>2, <3>3
    <3> QED
      BY <3>1, <3>4
  <2>5. Checked(c + 1)'
    BY <1>1, <2>2, <2>3, <2>4 DEF Checked, Doubtful, Both, Spare, Offers, Checksum, Upto
  <2> QED
    BY <1>3, <2>4, <2>5 DEF InOrder
<1>10. ASSUME NEW h, down = <<h>> PROVE down[i] = h
  <2>1. DOMAIN <<h>> = {1} /\ <<h>>[1] = h
    OBVIOUS
  <2> QED
    BY <1>10, <2>1
<1>11. ~BlockSent /\ ~EndSent /\ ~FinSent /\ ~OverSent
  BY <1>1, <1>10, FrameTypes DEF BlockSent, EndSent, FinSent, OverSent
<1> QED
  BY <1>2, <1>6, <1>7, <1>8, <1>9, <1>11, NextDown
-----------------------------------------------------------------------------
\* What is calm has been so.
LEMMA CalmLasts == ASSUME ZmodemTypeOK, [ZmodemNext]_zmodemVars, Calm' PROVE Calm
<1>1. found' = found /\ content' = content
  BY DEF ZmodemNext, zmodemVars, Send, Receive, Request, Ready, Offer, OfferAnswered, SendData, Ack, NextFile, Finish,
         SendError, SendInterrupted, ReceiveInit, ReceiveFile, ReceiveCRC, ReceiveRepeated, ReceiveData, ReceiveEOF,
         ReceiveFin, ReceiveOver, ReceiveError, ReceiveStreamEnds, ReceiveInterrupted, Damage, Lose, Repeat
<1>2. (trouble => trouble') /\ (repeated' = repeated \/ repeated' = repeated + 1)
  BY DEF ZmodemNext, zmodemVars, Send, Receive, Request, Ready, Offer, OfferAnswered, SendData, Ack, NextFile, Finish,
         SendError, SendInterrupted, ReceiveInit, ReceiveFile, ReceiveCRC, ReceiveRepeated, ReceiveData, ReceiveEOF,
         ReceiveFin, ReceiveOver, ReceiveError, ReceiveStreamEnds, ReceiveInterrupted, Damage, Lose, Repeat
<1>3. repeated \in Nat /\ MaxRepeats \in Nat
  BY CalmTypes, ZmodemNumbers
<1>4. repeated' <= MaxRepeats => repeated <= MaxRepeats
  BY <1>2, <1>3
<1>5. repeated > 0 => repeated' > 0
  BY <1>2, <1>3
<1> QED
  BY <1>1, <1>2, <1>4, <1>5 DEF Calm

LEMMA CalmInit == ZmodemInit => CalmInv
<1> SUFFICES ASSUME ZmodemInit PROVE NotBegun /\ LaterFiles
  BY DEF CalmInv, InOrder
<1>1. NotBegun
  BY DEF ZmodemInit, NotBegun, Both, Between, NoFile
<1>2. LaterFiles
  BY DEF ZmodemInit, LaterFiles
<1> QED
  BY <1>1, <1>2

\* A step of the sender opens no file.
LEMMA SendLater == ASSUME LaterFiles, Send PROVE LaterFiles'
<1>1. UNCHANGED <<disk, found, receiver>>
  BY DEF Send, Request, Ready, Offer, OfferAnswered, SendData, Ack, NextFile, Finish, SendError
<1> QED
  BY <1>1, LaterKeeps

LEMMA CalmStep ==
    ASSUME ZmodemTypeOK, repeated <= faults, MaxFaults + 1 < MaxTries, CalmInv, [ZmodemNext]_zmodemVars
    PROVE  CalmInv'
<1> SUFFICES ASSUME Calm' PROVE InOrder' /\ LaterFiles'
  BY DEF CalmInv
<1>1. Calm /\ InOrder /\ LaterFiles
  BY CalmLasts DEF CalmInv
<1>2. CASE Send
  <2>1. receiver.pc = "crc" => receiver.pos <= Len(content[sender.file])
    <3> SUFFICES ASSUME receiver.pc = "crc" PROVE receiver.pos <= Len(content[sender.file])
      OBVIOUS
    <3>1. Doubtful
      BY <1>1 DEF InOrder, NotBegun, Requested, Idling, Offered, Queried, Checked, Opened, Receiving, BlockSent,
                  BlockTaken, EndSent, EndTaken, FinSent, FinTaken, OverSent, BothDone, Both
    <3>2. /\ receiver.name = sender.file /\ receiver.pos = Len(disk[sender.file]) /\ disk[sender.file] # None
      BY <3>1 DEF Doubtful
    <3>3. sender.file \in 1..Files
      BY <3>2, CalmTypes DEF SenderRecord, ReceiverRecord
    <3>4. disk[sender.file] = found[sender.file]
      BY <1>1, <3>2, <3>3 DEF LaterFiles, Live
    <3> QED
      BY <1>1, <3>2, <3>3, <3>4, PartFits
  <2> QED
    BY <1>1, <1>2, <2>1, SendLater, RequestCalm, ReadyCalm, OfferCalm, OfferAnsweredCalm, SendDataCalm, AckCalm,
       NextFileCalm, FinishCalm, NoSendError DEF Send
<1>3. CASE Receive
  BY <1>1, <1>3, ReceiveInitCalm, ReceiveFileCalm, ReceiveCRCCalm, ReceiveRepeatedCalm, ReceiveDataCalm, ReceiveEOFCalm,
     ReceiveFinCalm, ReceiveOverCalm, NoReceiveError DEF Receive
<1>4. CASE SendInterrupted \/ ReceiveInterrupted \/ Damage \/ Lose
  BY <1>4 DEF SendInterrupted, ReceiveInterrupted, Damage, Lose, Calm
<1>5. CASE \E i \in DOMAIN down : Repeat(i)
  BY <1>1, <1>5, RepeatCalm
<1>6. CASE UNCHANGED zmodemVars
  BY <1>1, <1>6 DEF zmodemVars, InOrder, LaterFiles, NotBegun, Requested, Idling, Offered, Queried, Doubtful, Checked,
     Opened, Receiving, BlockSent, BlockTaken, EndSent, EndTaken, FinSent, FinTaken, OverSent, BothDone, Both, Between,
     Within, FilesLeft, Offers, Query, Checksum, Block, Upto, Spare
<1> QED
  BY <1>1, <1>2, <1>3, <1>4, <1>5, <1>6, NoStreamEnd DEF ZmodemNext

\* What arrives is what was sent, and a transfer in which nothing is damaged,
\* lost or interrupted does not fail at either side: not for a part that fits,
\* not for requests that come again, and for a part not for up to MaxRepeats
\* offers that do.  Every repeated request costs the sender an answer it looks
\* at, so what comes again stays behind MaxTries (18 frames in the code);
\* Codec.Send and Codec.Receive of transfer.go.
THEOREM FilesArriveTheorem ==
    ASSUME MaxFaults + 1 < MaxTries
    PROVE  ZmodemSpec => [](lost \/ FilesArrive)
<1>1. ZmodemInit => lost \/ CalmInv
  BY CalmInit
<1>2. (lost \/ TransferInv) /\ (lost \/ CalmInv) /\ [ZmodemNext]_zmodemVars => (lost \/ CalmInv)'
  <2> SUFFICES ASSUME lost \/ TransferInv, lost \/ CalmInv, [ZmodemNext]_zmodemVars, ~lost'
               PROVE  CalmInv'
    OBVIOUS
  <2>1. TransferInv /\ CalmInv
    BY LostLasts
  <2> QED
    BY <2>1, CalmStep DEF TransferInv
<1>3. (lost \/ TransferInv) /\ (lost \/ CalmInv) => lost \/ FilesArrive
  <2> SUFFICES ASSUME TransferInv, CalmInv PROVE ArrivalsAreTrue /\ FailsForAReason
    BY DEF FilesArrive
  <2>1. ArrivalsAreTrue
    BY DEF TransferInv, OverInv, ArrivalsAreTrue, SuccessIsShared
  <2>2. ASSUME sender.pc = "error" \/ receiver.pc = "error" PROVE ~Calm
    BY <2>2, SenderIsAt DEF CalmInv
  <2>3. repeated \in Nat /\ MaxRepeats \in Nat
    BY CalmTypes, ZmodemNumbers DEF TransferInv
  <2>4. ~(repeated <= MaxRepeats) => repeated > MaxRepeats
    BY <2>3
  <2> QED
    BY <2>1, <2>2, <2>4 DEF FailsForAReason, Calm
<1> QED
  BY <1>1, <1>2, <1>3, TransferInvariance, PTL DEF ZmodemSpec
=============================================================================
