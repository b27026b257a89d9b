--------------------------- MODULE TransferRouter ---------------------------
(***************************************************************************)
(* internal/transfer/router.go, with the hooks of internal/ui/zmodem.go:   *)
(* the output of a terminal is copied to the display until the start of a  *)
(* ZMODEM transfer is found in it; the transfer then owns both directions  *)
(* until it ends.  The transfer itself is module Zmodem: here it takes     *)
(* items, writes frames, and ends.  A write of it takes no context: it     *)
(* lasts until the server has room for it, or refuses it.                  *)
(*                                                                         *)
(* An item is a byte, except that ZDLE 'B' (the end of the magic) and the  *)
(* 14 digits of a header are one item each; other bytes in the place of a  *)
(* header are a header whose checksum is wrong.                            *)
(***************************************************************************)
EXTENDS Naturals, Sequences, SequencesExt

CONSTANTS Streams,  \* what the server may send
          Writers,  \* goroutines that write to the terminal: the view, assistants
          MaxWrites \* bound on their writes

Items == {"text", "*", "B", "init", "other", "eol"}
Magic == <<"*", "*", "B">>

ASSUME RouterAssumption == Streams \subseteq Seq(Items) /\ MaxWrites \in Nat

VARIABLES
    stream, arrived, eof, \* the server: what it sends, how much it has sent, its end
    taken,    \* items taken from the stream
    log,      \* history: those of the terminal, and "cut" where a transfer took over
    pump,     \* control point of pump, and where it goes after a flush
    pending,  \* a beginning of the magic
    normal,   \* bytes for the display
    display,  \* history: what the view has got
    reading,  \* the view still reads
    eols,     \* line ends behind the header
    kind,     \* type of the header
    transfer, \* number of the last transfer
    transferring,
    cancelled,\* transfers whose context has ended
    wanted,   \* history: transfers the user wanted to end, or that took too long
    closing,  \* Close: 0, 1 (context), 2 (pipe)
    writer,   \* what a Write has seen under the lock
    writes,
    intruders \* history: <<transfers seen, transfer>> of keys that met a transfer

incoming == <<stream, arrived, eof>>
routerVars == <<incoming, taken, log, pump, pending, normal, display, reading, eols, kind, transfer,
          transferring, cancelled, wanted, closing, writer, writes, intruders>>

NoWrite == [pc |-> "idle", active |-> FALSE, cancel |-> 0, seen |-> 0]
\* A dialog, a write and a read of the codec, and the write of its cancel.
Talks == {"hook", "write", "transfer", "cancel"}
Points == {"read", "flush", "head", "eol", "begin", "ended"} \cup Talks

RouterTypeOK ==
    /\ stream \in Streams /\ arrived \in 0..Len(stream) /\ eof \in BOOLEAN
    /\ taken \in 0..arrived /\ log \in Seq(Items \cup {"cut"})
    /\ pump \in [pc : Points, next : {"read", "head", "ended"}]
    /\ IsStrictPrefix(pending, Magic)
    /\ normal \in Seq(Items) /\ display \in Seq(Items) /\ reading \in BOOLEAN
    /\ eols \in 0..2 /\ kind \in {"init", "other"}
    /\ transfer \in Nat /\ transferring \in BOOLEAN
    /\ cancelled \subseteq 1..transfer /\ wanted \subseteq 1..transfer /\ closing \in 0..2
    /\ writer \in [Writers -> [pc : {"idle", "key", "ctrlc"}, active : BOOLEAN, cancel : Nat,
                               seen : Nat]]
    /\ writes \in 0..MaxWrites
    /\ intruders \subseteq (Nat \X Nat)

RouterInit ==
    /\ stream \in Streams /\ arrived = 0 /\ eof = FALSE
    /\ taken = 0 /\ log = <<>>
    /\ pump = [pc |-> "read", next |-> "read"] /\ pending = <<>> /\ normal = <<>>
    /\ display = <<>> /\ reading = TRUE
    /\ eols = 0 /\ kind = "other"
    /\ transfer = 0 /\ transferring = FALSE /\ cancelled = {} /\ wanted = {}
    /\ closing = 0
    /\ writer = [w \in Writers |-> NoWrite] /\ writes = 0
    /\ intruders = {}

-----------------------------------------------------------------------------
(* The server and the view                                                 *)

Arrive ==
    /\ ~eof /\ arrived < Len(stream)
    /\ arrived' = arrived + 1
    /\ UNCHANGED <<stream, eof, taken, log, pump, pending, normal, display, reading, eols, kind,
                   transfer, transferring, cancelled, wanted, closing, writer, writes, intruders>>

Hangup ==
    /\ ~eof /\ eof' = TRUE
    /\ UNCHANGED <<stream, arrived, taken, log, pump, pending, normal, display, reading, eols,
                   kind, transfer, transferring, cancelled, wanted, closing, writer, writes,
                   intruders>>

\* The view stops reading when its input has failed.
StopReading ==
    /\ reading /\ reading' = FALSE
    /\ UNCHANGED <<incoming, taken, log, pump, pending, normal, display, eols, kind, transfer,
                   transferring, cancelled, wanted, closing, writer, writes, intruders>>

-----------------------------------------------------------------------------
(* pump                                                                    *)

Goto(pc) == pump' = [pump EXCEPT !.pc = pc]
FlushThen(next) == pump' = [pc |-> "flush", next |-> next]
There == taken < arrived
Item == stream[taken + 1]
\* Nothing will come: the stream or the context has ended.
Over == closing > 0 \/ (eof /\ ~There)

\* The display is served when no more bytes are buffered.
Serve == FlushThen("read") \/ (taken' < arrived /\ Goto("read"))

\* The longest end of p that is a beginning of the magic.
Keep(p) ==
    LET k == CHOOSE k \in 1..(Len(p) + 1) :
                 /\ IsPrefix(SubSeq(p, k, Len(p)), Magic)
                 /\ \A j \in 1..(k - 1) : ~IsPrefix(SubSeq(p, j, Len(p)), Magic)
    IN  SubSeq(p, k, Len(p))

ReadByte ==
    LET p == Append(pending, Item)
        kept == Keep(p)
    IN  /\ pump.pc = "read" /\ There
        /\ taken' = taken + 1 /\ log' = Append(log, Item)
        /\ normal' = normal \o SubSeq(p, 1, Len(p) - Len(kept))
        /\ IF kept = Magic THEN pending' = <<>> /\ FlushThen("head")
                          ELSE pending' = kept /\ Serve
        /\ UNCHANGED <<incoming, display, reading, eols, kind, transfer, transferring, cancelled,
                       wanted, closing, writer, writes, intruders>>

ReadEnds ==
    /\ pump.pc = "read" /\ Over
    /\ normal' = normal \o pending /\ pending' = <<>> /\ FlushThen("ended")
    /\ UNCHANGED <<incoming, taken, log, display, reading, eols, kind, transfer, transferring,
                   cancelled, wanted, closing, writer, writes, intruders>>

\* display.Write waits for the view; a closed pipe ends the pump.
Flush ==
    /\ pump.pc = "flush"
    /\ \/ normal = <<>> /\ Goto(pump.next) /\ UNCHANGED <<normal, display>>
       \/ /\ normal # <<>> /\ closing < 2 /\ reading
          /\ display' = display \o normal /\ normal' = <<>> /\ Goto(pump.next)
       \/ normal # <<>> /\ closing = 2 /\ Goto("ended") /\ UNCHANGED <<normal, display>>
    /\ UNCHANGED <<incoming, taken, log, pending, reading, eols, kind, transfer, transferring,
                   cancelled, wanted, closing, writer, writes, intruders>>

\* The 14 digits of a header, with the right checksum, or other bytes.
Head14 ==
    /\ pump.pc = "head" /\ There
    /\ taken' = taken + 1 /\ log' = Append(log, Item)
    /\ IF Item \in {"init", "other"}
         THEN kind' = Item /\ eols' = 0 /\ Goto("eol") /\ UNCHANGED normal
         ELSE normal' = normal \o Append(Magic, Item) /\ Goto("read") /\ UNCHANGED <<kind, eols>>
    /\ UNCHANGED <<incoming, pending, display, reading, transfer, transferring, cancelled, wanted,
                   closing, writer, writes, intruders>>

MayBeEol == eols < 2

\* At most two line ends belong to the header; another byte is put back.
EndOfLine ==
    /\ pump.pc = "eol"
    /\ \/ /\ MayBeEol /\ There /\ Item = "eol"
          /\ taken' = taken + 1 /\ log' = Append(log, Item) /\ eols' = eols + 1 /\ UNCHANGED pump
       \/ MayBeEol /\ There /\ Item # "eol" /\ Goto("begin") /\ UNCHANGED <<taken, log, eols>>
       \/ ~MayBeEol /\ Goto("begin") /\ UNCHANGED <<taken, log, eols>>
    /\ UNCHANGED <<incoming, pending, normal, display, reading, kind, transfer, transferring,
                   cancelled, wanted, closing, writer, writes, intruders>>

\* The stream ends inside a header: pump returns.
HeadEnds ==
    /\ pump.pc = "head" \/ (pump.pc = "eol" /\ MayBeEol)
    /\ Over
    /\ Goto("ended")
    /\ UNCHANGED <<incoming, taken, log, pending, normal, display, reading, eols, kind, transfer,
                   transferring, cancelled, wanted, closing, writer, writes, intruders>>

Begin ==
    /\ pump.pc = "begin"
    /\ IF kind = "init"
         THEN /\ transfer' = transfer + 1 /\ transferring' = TRUE /\ Goto("hook")
              /\ log' = Append(log, "cut")
         ELSE Goto("read") /\ UNCHANGED <<transfer, transferring, log>>
    /\ UNCHANGED <<incoming, taken, pending, normal, display, reading, eols, kind, cancelled,
                   wanted, closing, writer, writes, intruders>>

\* The transfer is over; its context is released.
Leave ==
    /\ transferring' = FALSE
    /\ UNCHANGED taken /\ Serve

Steps(pc) == Goto(pc) /\ UNCHANGED <<transferring, taken>>

\* The user chooses files or a directory and the codec writes, or refuses ...
Choose ==
    /\ pump.pc = "hook"
    /\ Steps("write") \/ Steps("cancel")
    /\ UNCHANGED <<incoming, log, pending, normal, display, reading, eols, kind, transfer,
                   cancelled, wanted, closing, writer, writes, intruders>>

\* Mutant: a dialog is waited for.
HookCancelledNever == FALSE /\ UNCHANGED routerVars

\* ... or the context ends while the dialog is open.
HookCancelled ==
    /\ pump.pc = "hook" /\ (transfer \in cancelled \/ closing > 0)
    /\ Steps("cancel")
    /\ UNCHANGED <<incoming, log, pending, normal, display, reading, eols, kind, transfer,
                   cancelled, wanted, closing, writer, writes, intruders>>

\* The server takes what the codec writes, or the write fails.
TransferWrites ==
    /\ pump.pc = "write"
    /\ Steps("transfer") \/ Steps("cancel")
    /\ UNCHANGED <<incoming, log, pending, normal, display, reading, eols, kind, transfer,
                   cancelled, wanted, closing, writer, writes, intruders>>

\* The codec reads on, or has an answer to write.
TransferRead ==
    /\ pump.pc = "transfer" /\ There
    /\ taken' = taken + 1 /\ (Goto("transfer") \/ Goto("write"))
    /\ UNCHANGED <<incoming, log, pending, normal, display, reading, eols, kind, transfer,
                   transferring, cancelled, wanted, closing, writer, writes, intruders>>

\* The transfer ends by itself, or fails.
TransferEnds ==
    /\ pump.pc = "transfer"
    /\ Leave \/ Steps("cancel")
    /\ UNCHANGED <<incoming, log, pending, normal, display, reading, eols, kind, transfer,
                   cancelled, wanted, closing, writer, writes, intruders>>

\* A read finds that the context or the stream has ended.
TransferCancelled ==
    /\ pump.pc = "transfer" /\ (transfer \in cancelled \/ Over)
    /\ Steps("cancel")
    /\ UNCHANGED <<incoming, log, pending, normal, display, reading, eols, kind, transfer,
                   cancelled, wanted, closing, writer, writes, intruders>>

\* Codec.Cancel has written its CAN bytes, or could not.
CancelWritten ==
    /\ pump.pc = "cancel"
    /\ Leave
    /\ UNCHANGED <<incoming, log, pending, normal, display, reading, eols, kind, transfer,
                   cancelled, wanted, closing, writer, writes, intruders>>

\* The context of a transfer lasts 30 minutes.
Timeout ==
    /\ transferring /\ transfer \notin cancelled
    /\ cancelled' = cancelled \cup {transfer} /\ wanted' = wanted \cup {transfer}
    /\ UNCHANGED <<incoming, taken, log, pump, pending, normal, display, reading, eols, kind,
                   transfer, transferring, closing, writer, writes, intruders>>

-----------------------------------------------------------------------------
(* Write, CancelTransfer and Close                                         *)

\* Under the lock: is there a transfer, and which function ends it?
Look(w, key) ==
    /\ writer[w].pc = "idle" /\ writes < MaxWrites
    /\ writes' = writes + 1
    /\ writer' = [writer EXCEPT ![w] = [pc |-> key, active |-> transferring,
                                        cancel |-> IF transferring THEN transfer ELSE 0,
                                        seen |-> transfer]]
    /\ wanted' = IF transferring /\ key = "ctrlc" THEN wanted \cup {transfer} ELSE wanted
    /\ UNCHANGED <<incoming, taken, log, pump, pending, normal, display, reading, eols, kind,
                   transfer, transferring, cancelled, closing, intruders>>

\* Mutant: the transfer that runs now is ended.
TargetNow(w) == IF writer[w].active /\ writer[w].pc = "ctrlc" THEN {transfer} ELSE {}

\* Only Ctrl-C ends a transfer, and only the one that was seen.
Target(w) == IF writer[w].active /\ writer[w].pc = "ctrlc" THEN {writer[w].cancel} ELSE {}

Passes(w) == ~writer[w].active

\* Without the lock: swallow the keys, or write them.
Write(w) ==
    /\ writer[w].pc # "idle"
    /\ cancelled' = cancelled \cup Target(w)
    /\ intruders' = IF Passes(w) /\ transferring
                      THEN intruders \cup {<<writer[w].seen, transfer>>}
                      ELSE intruders
    /\ writer' = [writer EXCEPT ![w] = NoWrite]
    /\ UNCHANGED <<incoming, taken, log, pump, pending, normal, display, reading, eols, kind,
                   transfer, transferring, wanted, closing, writes>>

CloseRouter ==
    /\ closing < 2 /\ closing' = closing + 1
    /\ UNCHANGED <<incoming, taken, log, pump, pending, normal, display, reading, eols, kind,
                   transfer, transferring, cancelled, wanted, writer, writes, intruders>>

-----------------------------------------------------------------------------
Pump == \/ ReadByte \/ ReadEnds \/ Flush \/ Head14 \/ EndOfLine \/ HeadEnds \/ Begin
        \/ HookCancelled \/ TransferRead \/ TransferCancelled

RouterNext ==
    \/ Arrive \/ Hangup \/ StopReading \/ Pump \/ Choose \/ TransferEnds \/ Timeout \/ CloseRouter
    \/ TransferWrites \/ CancelWritten
    \/ \E w \in Writers : Write(w) \/ \E key \in {"key", "ctrlc"} : Look(w, key)

RouterSpec == RouterInit /\ [][RouterNext]_routerVars

\* The pump runs, timers fire, and a Close that has begun ends.  The user need
\* not choose, nor the server take what is written.
FairRouterSpec ==
    /\ RouterSpec
    /\ WF_routerVars(Pump) /\ WF_routerVars(Timeout) /\ WF_routerVars(closing = 1 /\ CloseRouter)

-----------------------------------------------------------------------------
(* Properties                                                              *)

\* What is to be shown: the items, without the first complete header and
\* its line ends, and so on behind it.
Plain[s \in Seq(Items \cup {"cut"})] ==
    IF s = <<>> THEN <<>>
    ELSE IF s[1] = "cut" THEN Plain[Tail(s)]
    ELSE IF ~IsPrefix(Magic, s) \/ Len(s) = Len(Magic)
      THEN <<s[1]>> \o Plain[Tail(s)]
    ELSE LET n == Len(Magic) + 1
             Eol(i) == i <= Len(s) /\ s[i] = "eol"
             m == n + (IF Eol(n + 1) THEN IF Eol(n + 2) THEN 2 ELSE 1 ELSE 0)
         IN  IF s[n] \in {"init", "other"}
               THEN Plain[SubSeq(s, m + 1, Len(s))]
               ELSE SubSeq(s, 1, n) \o Plain[SubSeq(s, n + 1, Len(s))]

\* The view gets every byte of the output once and in order; only headers
\* are taken out, however the stream is cut and whatever looks like the
\* beginning of a header.  The end of the stream may cut off a header.
ShownIsPlain ==
    /\ pump.pc = "read" => display \o normal \o pending = Plain[log]
    /\ IsPrefix(display, Plain[log])
    /\ pump.pc = "ended" /\ closing = 0 => Plain[log] \in {display, display \o Magic}

\* When all that has arrived is read, nothing is held back but a beginning
\* of the magic, or bytes that have just turned out to be no header.
HeldBackIsShort ==
    pump.pc = "read" /\ ~There => normal = <<>> \/ normal = Magic \o <<Last(log)>>

\* Keys reach the server during a transfer only from a Write that had looked
\* before the transfer began.
KeysStayOut == \A i \in intruders : i[1] < i[2]

\* A transfer is only ended by a Ctrl-C that was typed while it was running,
\* or by its own timer: never by one that was meant for an earlier transfer.
CancelIsMeant == cancelled \subseteq wanted

\* The router changes neither direction of the terminal: the view gets what the
\* server wrote but for headers, and a transfer only what was meant for it.
RouterIsTransparent ==
    RouterTypeOK /\ ShownIsPlain /\ HeldBackIsShort /\ KeysStayOut /\ CancelIsMeant

\* The terminal has the keyboard.
KeyboardIsFree == ~transferring

\* After Close the pump ends, although nobody reads what it writes.
PumpIsOver == closing > 0 => pump.pc = "ended"

\* The codec is in a write to the server.
Held == pump.pc \in {"write", "cancel"}

\* Neither a dialog nobody answers, nor a view nobody reads, nor a peer that is
\* silent holds the router up: again and again the two hold, and so, a Close being
\* final, the pump ends.  Only a server that takes no input holds the keyboard,
\* past a cancel and the 30 minutes.
RouterEnds == <>[]Held \/ []<>(KeyboardIsFree /\ PumpIsOver)
=============================================================================
