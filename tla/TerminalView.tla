---------------------------- MODULE TerminalView ----------------------------
(***************************************************************************)
(* internal/terminal: the goroutines of a View around one Core.            *)
(*                                                                         *)
(*   UI thread --keys--> worker --+                                        *)
(*                                v                                        *)
(*   peer --output--> reader --> Core --> inputBuffer --> copier --> peer  *)
(*                                |                                        *)
(*   UI thread <--dirty-- painter +        UI thread --> resizer --> peer  *)
(*                                                                         *)
(* The state lock of Core is taken by the worker, the reader and the UI    *)
(* thread.  The peer may stop reading at any time: the copier then waits   *)
(* in a write.  Input is a sequence of units, numbered in the order in     *)
(* which they were made; a chunk of output and a geometry are numbers.     *)
(***************************************************************************)
EXTENDS Naturals, Sequences, SequencesExt

CONSTANTS KeyCap,      \* capacity of the channel of keys (256)
          MaxPending,  \* units inputBuffer keeps (1 MiB)
          MaxPaste,    \* bound on the units of one input
          MaxInputs,   \* bound on inputs and replies
          MaxChunks,   \* bound on chunks of output
          MaxSizes     \* bound on changes of the geometry

ASSUME TerminalAssumption ==
    /\ {KeyCap, MaxPending, MaxPaste} \subseteq Nat \ {0}
    /\ {MaxInputs, MaxChunks, MaxSizes} \subseteq Nat

VARIABLES
    inputs,    \* inputs and replies so far
    keys,      \* the channel of keys
    worker,    \* control point of its reader; the key it runs
    lock,      \* holder of the lock of Core
    buffer,    \* units waiting in inputBuffer
    pipe,      \* inputBuffer: "open", or why it has failed
    copier,    \* control point of io.Copy; the units it writes
    encoded,   \* history: units that inputBuffer has taken
    received,  \* history: units the peer has got
    chunks,    \* chunks the peer has sent
    reader,    \* control point of the reader of output
    core,      \* chunks Core has taken
    dirty,
    painter,   \* "wait", or "do": a repaint is queued for the UI thread
    painted,   \* chunks on the screen
    selectionScreen, \* the screen saved by a click, as its chunks; empty if none
    frozen,    \* history: the last repaint was of a saved screen
    size,      \* geometry of the view
    resizeRequest, \* resizeRequests
    resizer,   \* geometries being applied
    peerSize,  \* geometry of the peer
    closeStep, \* progress of Close
    reports    \* errors reported to the user

terminalVars ==
    <<inputs, keys, worker, lock, buffer, pipe, copier, encoded, received,
      chunks, reader, core, dirty, painter, painted, selectionScreen, frozen, size,
      resizeRequest, resizer, peerSize, closeStep, reports>>

inputVars == <<buffer, pipe, encoded>>
typing == <<keys, worker>>
output == <<chunks, reader, core>>
screen == <<dirty, painter, painted, selectionScreen, frozen>>
paintVars == <<dirty, painter, painted, frozen>>
geometry == <<size, resizeRequest, resizer, peerSize>>

Units == Seq(1..MaxInputs)
Idle == [pc |-> "wait", data |-> <<>>]
Free == "free"

TerminalTypeOK ==
    /\ inputs \in 0..MaxInputs
    /\ keys \in Seq(Units) /\ Len(keys) <= KeyCap
    /\ worker \in [pc : {"wait", "run", "ended"}, data : Units]
    /\ lock \in {Free, "worker", "reader"}
    /\ buffer \in Units /\ Len(buffer) <= MaxPending
    /\ pipe \in {"open", "backlog", "closed"}
    /\ copier \in [pc : {"wait", "write", "ended"}, data : Units]
    /\ encoded \in Units /\ received \in Units
    /\ chunks \in 0..MaxChunks /\ core \in 0..MaxChunks /\ painted \in 0..MaxChunks
    /\ reader \in {"read", "write", "mark", "ended"}
    /\ dirty \in BOOLEAN /\ painter \in {"wait", "do", "ended"}
    /\ selectionScreen \subseteq 0..MaxChunks /\ frozen \in BOOLEAN
    /\ size \in 0..MaxSizes /\ peerSize \in 0..MaxSizes
    /\ resizeRequest \in Seq(0..MaxSizes) /\ Len(resizeRequest) <= 1
    /\ resizer \in [pc : {"wait", "apply", "ended"}, size : 0..MaxSizes]
    /\ closeStep \in {"open", "input", "source", "closed"}
    /\ reports \subseteq {"short", "backlog", "closed", "broken"}

TerminalInit ==
    /\ inputs = 0 /\ keys = <<>> /\ worker = Idle /\ lock = Free
    /\ buffer = <<>> /\ pipe = "open" /\ copier = Idle
    /\ encoded = <<>> /\ received = <<>>
    /\ chunks = 0 /\ reader = "read" /\ core = 0
    /\ dirty = TRUE /\ painter = "wait" /\ painted = 0
    /\ selectionScreen = {} /\ frozen = FALSE
    /\ size = 0 /\ resizeRequest = <<>> /\ resizer = [pc |-> "wait", size |-> 0] /\ peerSize = 0
    /\ closeStep = "open" /\ reports = {}

Done == closeStep # "open"

-----------------------------------------------------------------------------
(* inputBuffer                                                             *)

\* Mutant: a writer waits for room.
PutWaits(units) ==
    /\ pipe = "open" => Len(units) <= MaxPending - Len(buffer)
    /\ IF pipe = "open"
         THEN buffer' = buffer \o units /\ encoded' = encoded \o units /\ UNCHANGED pipe
         ELSE UNCHANGED inputVars

\* inputBuffer.Write: it never waits; too much input ends it.
PutUnits(units) ==
    IF pipe # "open" THEN UNCHANGED inputVars
    ELSE IF Len(units) > MaxPending - Len(buffer)
           THEN pipe' = "backlog" /\ buffer' = <<>> /\ UNCHANGED encoded
           ELSE buffer' = buffer \o units /\ encoded' = encoded \o units /\ UNCHANGED pipe

\* inputBuffer.Close: the first reason stays.
FailPipe ==
    IF pipe = "open" THEN pipe' = "closed" /\ buffer' = <<>> ELSE UNCHANGED <<pipe, buffer>>

-----------------------------------------------------------------------------
(* Input                                                                   *)

\* enqueue: a full channel is reported, the UI thread does not wait.  A key
\* also clears the selection, a paste or the mouse does not.
Type(n) ==
    /\ inputs < MaxInputs /\ ~Done
    /\ inputs' = inputs + 1
    /\ IF Len(keys) < KeyCap
         THEN keys' = Append(keys, [i \in 1..n |-> inputs']) /\ UNCHANGED reports
         ELSE reports' = reports \cup {"short"} /\ UNCHANGED keys
    /\ selectionScreen' \in {selectionScreen, {}}
    /\ UNCHANGED <<worker, lock, inputVars, copier, received, output, paintVars, geometry, closeStep>>

TakeKey ==
    /\ worker.pc = "wait" /\ keys # <<>>
    /\ worker' = [pc |-> "run", data |-> Head(keys)] /\ keys' = Tail(keys)
    /\ UNCHANGED <<inputs, lock, inputVars, copier, received, output, screen, geometry, closeStep,
                   reports>>

LockKey ==
    /\ worker.pc = "run" /\ lock = Free
    /\ lock' = "worker"
    /\ UNCHANGED <<inputs, typing, inputVars, copier, received, output, screen, geometry,
                   closeStep, reports>>

\* Core.Text, Key and Mouse: the units go to inputBuffer under the lock.
Encode ==
    /\ lock = "worker"
    /\ PutUnits(worker.data)
    /\ worker' = Idle /\ lock' = Free
    /\ UNCHANGED <<inputs, keys, copier, received, output, screen, geometry, closeStep, reports>>

WorkerEnds ==
    /\ worker.pc = "wait" /\ Done
    /\ worker' = [Idle EXCEPT !.pc = "ended"]
    /\ UNCHANGED <<inputs, keys, lock, inputVars, copier, received, output, screen, geometry,
                   closeStep, reports>>

\* io.Copy reads what is there, up to the size of its buffer ...
CopyRead(n) ==
    /\ copier.pc = "wait" /\ pipe = "open" /\ n \in 1..Len(buffer)
    /\ copier' = [pc |-> "write", data |-> SubSeq(buffer, 1, n)]
    /\ buffer' = SubSeq(buffer, n + 1, Len(buffer))
    /\ UNCHANGED <<inputs, typing, lock, pipe, encoded, received, output, screen, geometry,
                   closeStep, reports>>

\* ... or the reason of the failure; Close is no error.
CopyEnds ==
    /\ copier.pc = "wait" /\ pipe # "open"
    /\ copier' = [Idle EXCEPT !.pc = "ended"] /\ FailPipe
    /\ reports' = reports \cup (IF pipe = "backlog" THEN {"backlog"} ELSE {})
    /\ UNCHANGED <<inputs, typing, lock, encoded, received, output, screen, geometry, closeStep>>

\* The peer takes the units, or the connection is gone.
CopyWrite ==
    /\ copier.pc = "write"
    /\ copier' = Idle /\ received' = received \o copier.data
    /\ UNCHANGED <<inputs, typing, lock, inputVars, output, screen, geometry, closeStep, reports>>

CopyFails ==
    /\ copier.pc = "write"
    /\ copier' = [Idle EXCEPT !.pc = "ended"] /\ FailPipe
    /\ reports' = reports \cup {"broken"}
    /\ UNCHANGED <<inputs, typing, lock, encoded, received, output, screen, geometry, closeStep>>

-----------------------------------------------------------------------------
(* Output                                                                  *)

ChunkArrives ==
    /\ chunks < MaxChunks
    /\ chunks' = chunks + 1
    /\ UNCHANGED <<inputs, typing, lock, inputVars, copier, received, reader, core, screen,
                   geometry, closeStep, reports>>

ReadOutput ==
    /\ reader = "read" /\ core < chunks
    /\ reader' = "write"
    /\ UNCHANGED <<inputs, typing, lock, inputVars, copier, received, chunks, core, screen,
                   geometry, closeStep, reports>>

LockOutput ==
    /\ reader = "write" /\ lock = Free
    /\ lock' = "reader"
    /\ UNCHANGED <<inputs, typing, inputVars, copier, received, output, screen, geometry,
                   closeStep, reports>>

\* Core.Write: the screen changes, and the terminal may reply.
Apply ==
    /\ lock = "reader" /\ reader = "write"
    /\ \/ inputs < MaxInputs /\ inputs' = inputs + 1 /\ PutUnits(<<inputs'>>)
       \/ UNCHANGED <<inputs, inputVars>>
    /\ core' = core + 1 /\ reader' = "mark" /\ lock' = Free
    /\ UNCHANGED <<typing, copier, received, chunks, screen, geometry, closeStep, reports>>

\* The view is dirty; a failed pipe ends the reader.
Mark ==
    /\ reader = "mark"
    /\ dirty' = TRUE
    /\ IF pipe = "open" THEN reader' = "read" /\ UNCHANGED reports
                        ELSE reader' = "ended" /\ reports' = reports \cup {pipe}
    /\ UNCHANGED <<inputs, typing, lock, inputVars, copier, received, chunks, core, painter,
                   painted, selectionScreen, frozen, geometry, closeStep>>

\* The peer ends the output at any time; a closed source is an error.
ReaderEnds ==
    /\ reader = "read"
    /\ reader' = "ended"
    /\ IF closeStep = "closed" THEN reports' \in {reports, reports \cup {"closed"}}
                             ELSE UNCHANGED reports
    /\ UNCHANGED <<inputs, typing, lock, inputVars, copier, received, chunks, core, screen,
                   geometry, closeStep>>

-----------------------------------------------------------------------------
(* The screen                                                              *)

Tick ==
    /\ painter = "wait" /\ ~Done /\ dirty
    /\ dirty' = FALSE /\ painter' = "do"
    /\ UNCHANGED <<inputs, typing, lock, inputVars, copier, received, output, painted,
                   selectionScreen, frozen, geometry, closeStep, reports>>

\* paint: the saved screen, if there is one, in the place of Core's.
Show ==
    /\ painted' \in IF selectionScreen = {} THEN {core} ELSE selectionScreen
    /\ frozen' = (selectionScreen # {})

\* Refresh on the UI thread takes the lock for Snapshot.
Paint ==
    /\ painter = "do"
    /\ IF Done THEN UNCHANGED <<painted, frozen>> ELSE lock = Free /\ Show
    /\ painter' = "wait"
    /\ UNCHANGED <<inputs, typing, lock, inputVars, copier, received, output, dirty,
                   selectionScreen, geometry, closeStep, reports>>

PainterEnds ==
    /\ painter = "wait" /\ Done
    /\ painter' = "ended"
    /\ UNCHANGED <<inputs, typing, lock, inputVars, copier, received, output, dirty, painted,
                   selectionScreen, frozen, geometry, closeStep, reports>>

\* The focus, a drag of the selection, the font or a search refresh the view.
Repaint ==
    /\ lock = Free /\ ~Done
    /\ Show
    /\ UNCHANGED <<inputs, typing, lock, inputVars, copier, received, output, dirty, painter,
                   selectionScreen, geometry, closeStep, reports>>

\* MouseDown: the screen of the selection is saved, not painted.
Click ==
    /\ lock = Free /\ ~Done
    /\ selectionScreen' = {core}
    /\ UNCHANGED <<inputs, typing, lock, inputVars, copier, received, output, paintVars, geometry,
                   closeStep, reports>>

\* A key that sends nothing clears the selection.
Deselect ==
    /\ ~Done
    /\ selectionScreen' = {}
    /\ UNCHANGED <<inputs, typing, lock, inputVars, copier, received, output, paintVars, geometry,
                   closeStep, reports>>

\* Scrolled: the selection is cleared and the view painted.
Scroll ==
    /\ lock = Free /\ ~Done
    /\ selectionScreen' = {} /\ painted' = core /\ frozen' = FALSE
    /\ UNCHANGED <<inputs, typing, lock, inputVars, copier, received, output, dirty, painter,
                   geometry, closeStep, reports>>

-----------------------------------------------------------------------------
(* Geometry                                                                *)

\* Mutant: a waiting request is left alone.
QueueResizeFirst(g) == IF resizeRequest = <<>> THEN <<g>> ELSE resizeRequest

\* queueResize: the newest geometry replaces a waiting one.
QueueResize(g) == <<g>>

\* Resize on the UI thread: Core may tell the peer through its input, too.
\* The selection is cleared and the new grid painted.
Resize ==
    /\ size < MaxSizes /\ lock = Free /\ ~Done
    /\ size' = size + 1
    /\ \/ inputs < MaxInputs /\ inputs' = inputs + 1 /\ PutUnits(<<inputs'>>)
       \/ UNCHANGED <<inputs, inputVars>>
    /\ resizeRequest' = QueueResize(size')
    /\ selectionScreen' = {} /\ painted' = core /\ frozen' = FALSE
    /\ UNCHANGED <<typing, lock, copier, received, output, dirty, painter, resizer, peerSize,
                   closeStep, reports>>

TakeResize ==
    /\ resizer.pc = "wait" /\ resizeRequest # <<>>
    /\ resizeRequest' = <<>>
    /\ resizer' = IF Done THEN [resizer EXCEPT !.pc = "ended"]
                          ELSE [pc |-> "apply", size |-> Head(resizeRequest)]
    /\ UNCHANGED <<inputs, typing, lock, inputVars, copier, received, output, screen, size,
                   peerSize, closeStep, reports>>

ApplyResize ==
    /\ resizer.pc = "apply"
    /\ peerSize' = resizer.size /\ resizer' = [resizer EXCEPT !.pc = "wait"]
    /\ UNCHANGED <<inputs, typing, lock, inputVars, copier, received, output, screen, size,
                   resizeRequest, closeStep, reports>>

ResizerEnds ==
    /\ resizer.pc = "wait" /\ Done
    /\ resizer' = [resizer EXCEPT !.pc = "ended"]
    /\ UNCHANGED <<inputs, typing, lock, inputVars, copier, received, output, screen, size,
                   resizeRequest, peerSize, closeStep, reports>>

-----------------------------------------------------------------------------
(* Close: done, then the input, then the source                            *)

Close ==
    /\ closeStep = "open" /\ closeStep' = "input"
    /\ UNCHANGED <<inputs, typing, lock, inputVars, copier, received, output, screen, geometry,
                   reports>>

\* Mutant: the input stays open.
CloseInputNot ==
    /\ closeStep = "input" /\ closeStep' = "source"
    /\ UNCHANGED <<inputs, typing, lock, inputVars, copier, received, output, screen, geometry,
                   reports>>

CloseInput ==
    /\ closeStep = "input" /\ closeStep' = "source"
    /\ FailPipe
    /\ UNCHANGED <<inputs, typing, lock, encoded, copier, received, output, screen, geometry,
                   reports>>

CloseSource ==
    /\ closeStep = "source" /\ closeStep' = "closed"
    /\ UNCHANGED <<inputs, typing, lock, inputVars, copier, received, output, screen, geometry,
                   reports>>

-----------------------------------------------------------------------------
Worker == TakeKey \/ LockKey \/ Encode \/ WorkerEnds
Copier == (\E n \in 1..MaxPending : CopyRead(n)) \/ CopyEnds
Network == CopyWrite \/ CopyFails \/ ApplyResize
Output == ReadOutput \/ LockOutput \/ Apply \/ Mark
Painter == Tick \/ Paint \/ PainterEnds
Resizer == TakeResize \/ ResizerEnds
Mouse == Repaint \/ Click \/ Deselect \/ Scroll

TerminalNext ==
    \/ \E n \in 1..MaxPaste : Type(n)
    \/ Worker \/ Copier \/ Network \/ ChunkArrives \/ Output \/ ReaderEnds \/ Painter
    \/ Mouse \/ Resize \/ Resizer \/ Close \/ CloseInput \/ CloseSource

TerminalSpec == TerminalInit /\ [][TerminalNext]_terminalVars

\* The goroutines and the UI thread run; nothing is assumed of the peer: a
\* write to the network may last for ever.
FairTerminalSpec ==
    /\ TerminalSpec
    /\ WF_terminalVars(Worker) /\ WF_terminalVars(Copier) /\ WF_terminalVars(Output) /\ WF_terminalVars(Painter)
    /\ WF_terminalVars(Resizer) /\ WF_terminalVars(CloseInput) /\ WF_terminalVars(CloseSource)
    /\ WF_terminalVars(ReaderEnds /\ closeStep = "closed")

-----------------------------------------------------------------------------
(* Properties                                                              *)

\* The peer gets the input in the order in which Core made it, keys and
\* replies together, without a gap: nothing that was made after lost input
\* is ever sent.
InOrder ==
    LET underway == received \o (IF copier.pc = "write" THEN copier.data ELSE <<>>)
    IN  /\ IsPrefix(underway, encoded)
        /\ pipe = "open" => underway \o buffer = encoded

\* When no request is under way, the peer has the geometry of the view, and
\* geometries reach it in order.
SizeSettles ==
    /\ resizeRequest = <<>> /\ resizer.pc = "wait" /\ ~Done => peerSize = size
    /\ resizer.pc = "apply" => peerSize < resizer.size

\* When nothing marks the screen as old, it shows what Core has taken, or the
\* last repaint found a saved screen: a key clears that one, but does not paint.
PaintSettles ==
    ~dirty /\ painter = "wait" /\ reader # "mark" /\ ~Done => painted = core \/ frozen

\* What the peer gets and what the user sees is what Core made of it.
TerminalIsFaithful == TerminalTypeOK /\ InOrder /\ SizeSettles /\ PaintSettles

\* The screen follows the output although the peer takes no input, as long as
\* no repaint finds the saved screen of a selection.
ScreenIsLive ==
    []<>(painted >= chunks \/ frozen \/ Done \/ reader = "ended")

\* After Close every goroutine ends that does not wait in a write to the peer.
CloseReleases ==
    []<>( closeStep = "closed" =>
              /\ worker.pc = "ended" /\ reader = "ended" /\ painter = "ended"
              /\ copier.pc \in {"write", "ended"} /\ resizer.pc \in {"apply", "ended"} )
=============================================================================
