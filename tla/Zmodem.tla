------------------------------- MODULE Zmodem -------------------------------
(***************************************************************************)
(* internal/transfer/zmodem: Codec.Send and Codec.Receive, joined by the   *)
(* two directions of a channel.  The sender offers files one by one, the   *)
(* receiver asks for a checksum when it has a part of a file, both agree   *)
(* on a position, and every block is acknowledged.  There are no timeouts: *)
(* each side only answers.                                                 *)
(*                                                                         *)
(* A channel carries frames: a header and, for ZFILE and ZDATA, the data   *)
(* packet behind it.  Codec turns bytes into frames: it finds a checksum   *)
(* that is wrong, and five CAN bytes; a frame whose beginning or end is    *)
(* damaged it does not find at all.  A file is a sequence of blocks and    *)
(* its checksum is the sequence.  Damage, loss and the repeated ZFILE of   *)
(* some peers are steps of the channel; a side may be interrupted at any   *)
(* time, and the terminal's stream goes on when the peer has ended.        *)
(***************************************************************************)
EXTENDS Naturals, Sequences, SequencesExt

CONSTANTS Blocks,
          None,        \* no such file
          Files,       \* the number of files
          MaxLen,      \* bound on the blocks of a file
          MaxTries,    \* headers looked at for an answer to ZFILE (20) or ZFIN (10)
          MaxRetries,  \* repetitions of a block (20)
          MaxRepeats,  \* repeated ZFILE headers while a checksum is awaited (4)
          MaxFaults    \* bound on damaged, lost and repeated frames

FileContent == UNION {[1..n -> Blocks] : n \in 0..MaxLen}

ASSUME ZmodemAssumption ==
    /\ None \notin FileContent /\ Files \in Nat \ {0}
    /\ MaxTries \in Nat \ {0} /\ {MaxLen, MaxRetries, MaxRepeats, MaxFaults} \subseteq Nat

NoFile == 0

VARIABLES
    content,  \* the files to send
    disk,     \* the files of the receiver
    found,    \* history: the files of the receiver at the start
    down,     \* frames to the receiver
    up,       \* frames to the sender
    sender,   \* control point, file, position and counters of Send
    receiver, \* control point, open file, position and counters of Receive
    complete, \* history: files the receiver has closed after ZEOF
    faults,   \* damaged, lost and repeated frames so far
    repeated, \* history: repeated ZFILE headers
    trouble,  \* history: something was damaged, lost or interrupted
    lost      \* history: a frame was lost

zmodemVars == <<content, disk, found, down, up, sender, receiver, complete, faults, repeated,
                trouble, lost>>

Types == {"ZRQINIT", "ZRINIT", "ZFILE", "ZCRC", "ZRPOS", "ZDATA", "ZACK", "ZEOF",
          "ZFIN", "OO", "CAN", "BAD"}
\* n: position or file; data: blocks of the packet or checksum; good: the
\* checksum of the packet is right.
Frames == [type : Types, n : Nat, data : Seq(Blocks), good : BOOLEAN]
Ended == {"done", "error"}

ZmodemTypeOK ==
    /\ content \in [1..Files -> FileContent]
    /\ disk \in [1..Files -> FileContent \cup {None}] /\ found \in [1..Files -> FileContent \cup {None}]
    /\ down \in Seq(Frames) /\ up \in Seq(Frames)
    /\ sender \in [pc : {"start", "ready", "offer", "answer", "data", "ack", "next",
                         "finack"} \cup Ended,
                   file : 1..(Files + 1), pos : 0..MaxLen, tries : 0..MaxTries,
                   retries : 0..MaxRetries]
    /\ receiver \in [pc : {"init", "loop", "crc", "over"} \cup Ended,
                     file : 0..Files, name : 0..Files, pos : 0..MaxLen, repeats : 0..MaxRepeats]
    /\ complete \subseteq 1..Files
    /\ faults \in 0..MaxFaults
    /\ repeated \in 0..MaxFaults /\ trouble \in BOOLEAN /\ lost \in BOOLEAN

ZmodemInit ==
    /\ content \in [1..Files -> FileContent]
    /\ disk \in [1..Files -> FileContent \cup {None}] /\ found = disk
    /\ down = <<>> /\ up = <<>>
    /\ sender = [pc |-> "start", file |-> 1, pos |-> 0, tries |-> 0, retries |-> 0]
    /\ receiver = [pc |-> "init", file |-> NoFile, name |-> NoFile, pos |-> 0, repeats |-> 0]
    /\ complete = {} /\ faults = 0 /\ repeated = 0
    /\ trouble = FALSE /\ lost = FALSE

-----------------------------------------------------------------------------
Header(t, n) == [type |-> t, n |-> n, data |-> <<>>, good |-> TRUE]
Packet(t, n, d) == [type |-> t, n |-> n, data |-> d, good |-> TRUE]
Upto(f, n) == SubSeq(content[f], 1, n)

Has(p) == sender.pc = p /\ up # <<>>
Gets(p, types) == Has(p) /\ Head(up).type \in types
Take == up' = Tail(up)
Tell(frames) == down' = down \o frames

\* Send returns an error and cancels.
Abort == sender' = [sender EXCEPT !.pc = "error"] /\ Tell(<<Header("CAN", 0)>>)

-----------------------------------------------------------------------------
(* Send                                                                    *)

Request ==
    /\ sender.pc = "start"
    /\ Tell(<<Header("ZRQINIT", 0)>>) /\ sender' = [sender EXCEPT !.pc = "ready"]
    /\ UNCHANGED <<content, disk, found, up, receiver, complete, faults, repeated, trouble, lost>>

Ready ==
    /\ Gets("ready", {"ZRINIT"})
    /\ Take /\ sender' = [sender EXCEPT !.pc = "offer"]
    /\ UNCHANGED <<content, disk, found, down, receiver, complete, faults, repeated, trouble, lost>>

FilesLeft == sender.file <= Files

\* ZFILE carries the name and the length; or all files are sent.
Offer ==
    /\ sender.pc = "offer"
    /\ IF FilesLeft
         THEN /\ Tell(<<Packet("ZFILE", sender.file, content[sender.file])>>)
              /\ sender' = [sender EXCEPT !.pc = "answer", !.pos = 0, !.tries = 0,
                                          !.retries = 0]
         ELSE /\ Tell(<<Header("ZFIN", 0)>>) /\ sender' = [sender EXCEPT !.pc = "finack",
                                                                        !.tries = 0]
    /\ UNCHANGED <<content, disk, found, up, receiver, complete, faults, repeated, trouble, lost>>

\* The receiver asks for a checksum, names a position, or says something
\* that does not matter; after MaxTries answers the data starts anyway.
OfferAnswered ==
    LET h == Head(up)
        last == sender.tries + 1 >= MaxTries
        more == [sender EXCEPT !.tries = @ + 1, !.pc = IF last THEN "data" ELSE "answer"]
    IN  /\ Has("answer") /\ h.type \notin {"CAN", "BAD"}
        /\ Take
        /\ \/ h.type = "ZCRC" /\ h.n <= Len(content[sender.file])
              /\ Tell(<<Packet("ZCRC", 0, Upto(sender.file, h.n))>>) /\ sender' = more
           \/ h.type = "ZCRC" /\ h.n > Len(content[sender.file]) /\ Abort
           \/ h.type = "ZRPOS" /\ h.n <= Len(content[sender.file])
              /\ sender' = [sender EXCEPT !.pc = "data", !.pos = h.n] /\ UNCHANGED down
           \/ h.type = "ZRPOS" /\ h.n > Len(content[sender.file]) /\ Abort
           \/ h.type \notin {"ZCRC", "ZRPOS"} /\ sender' = more /\ UNCHANGED down
        /\ UNCHANGED <<content, disk, found, receiver, complete, faults, repeated, trouble, lost>>

SendData ==
    /\ sender.pc = "data"
    /\ IF sender.pos < Len(content[sender.file])
         THEN /\ Tell(<<Packet("ZDATA", sender.pos,
                               SubSeq(content[sender.file], sender.pos + 1, sender.pos + 1))>>)
              /\ sender' = [sender EXCEPT !.pc = "ack"]
         ELSE /\ Tell(<<Header("ZEOF", sender.pos)>>)
              /\ sender' = [sender EXCEPT !.pc = "next"]
    /\ UNCHANGED <<content, disk, found, up, receiver, complete, faults, repeated, trouble, lost>>

AckFits(h) == h.type = "ZACK" /\ h.n = sender.pos + 1

Retry(h) ==
    /\ h.type = "ZRPOS" /\ h.n <= Len(content[sender.file])
    /\ sender.retries < MaxRetries

Ack ==
    LET h == Head(up)
    IN  /\ Has("ack") /\ Take
        /\ \/ /\ AckFits(h)
              /\ sender' = [sender EXCEPT !.pc = "data", !.pos = @ + 1, !.retries = 0]
              /\ UNCHANGED down
           \/ /\ Retry(h)
              /\ sender' = [sender EXCEPT !.pc = "data", !.pos = h.n, !.retries = @ + 1]
              /\ UNCHANGED down
           \/ ~AckFits(h) /\ ~Retry(h) /\ Abort
        /\ UNCHANGED <<content, disk, found, receiver, complete, faults, repeated, trouble, lost>>

NextFile ==
    /\ Gets("next", {"ZRINIT"})
    /\ Take /\ sender' = [sender EXCEPT !.pc = "offer", !.file = @ + 1]
    /\ UNCHANGED <<content, disk, found, down, receiver, complete, faults, repeated, trouble, lost>>

\* Ten headers are looked at for ZFIN.
Finish ==
    LET h == Head(up)
    IN  /\ Has("finack") /\ h.type \notin {"CAN", "BAD"} /\ Take
        /\ IF h.type = "ZFIN"
             THEN sender' = [sender EXCEPT !.pc = "done"] /\ Tell(<<Header("OO", 0)>>)
             ELSE IF sender.tries + 1 >= MaxTries THEN Abort
             ELSE sender' = [sender EXCEPT !.tries = @ + 1] /\ UNCHANGED down
        /\ UNCHANGED <<content, disk, found, receiver, complete, faults, repeated, trouble, lost>>

\* A cancelled transfer, a damaged header, or an answer nobody asked for.
SendError ==
    /\ \/ Gets("ready", Types \ {"ZRINIT"}) \/ Gets("next", Types \ {"ZRINIT"})
       \/ Gets("answer", {"CAN", "BAD"}) \/ Gets("finack", {"CAN", "BAD"})
    /\ Take /\ Abort
    /\ UNCHANGED <<content, disk, found, receiver, complete, faults, repeated, trouble, lost>>

SendInterrupted ==
    /\ sender.pc \notin Ended \cup {"start"}
    /\ Abort
    /\ trouble' = TRUE
    /\ UNCHANGED <<content, disk, found, up, receiver, complete, faults, repeated, lost>>

-----------------------------------------------------------------------------
(* Receive                                                                 *)

Meets(p, types) == receiver.pc = p /\ down # <<>> /\ Head(down).type \in types
Drop == down' = Tail(down)
Say(h) == up' = Append(up, h)

\* Mutant: the sender is not told.
ReceiveFailsSilently == receiver' = [receiver EXCEPT !.pc = "error"] /\ UNCHANGED up

\* Receive returns an error and cancels.
ReceiveFails == receiver' = [receiver EXCEPT !.pc = "error"] /\ Say(Header("CAN", 0))

ReceiveInit ==
    /\ Meets("init", {"ZRQINIT"}) \/ Meets("loop", {"ZRQINIT"})
    /\ Drop /\ Say(Header("ZRINIT", 0))
    /\ receiver' = [receiver EXCEPT !.pc = "loop"]
    /\ UNCHANGED <<content, disk, found, sender, complete, faults, repeated, trouble, lost>>

\* The file is opened and a position named.
OpenAt(f, p) ==
    /\ receiver' = [receiver EXCEPT !.pc = "loop", !.file = f, !.name = f, !.pos = p]
    /\ disk' = IF disk[f] = None THEN [disk EXCEPT ![f] = <<>>] ELSE disk
    /\ Say(Header("ZRPOS", p))

NeedsCRC(f) == disk[f] \notin {None, <<>>}

\* ZFILE: a longer file is refused, a part is verified first.
ReceiveFile ==
    LET f == Head(down).n
        size == Len(Head(down).data)
        have == IF disk[f] = None THEN 0 ELSE Len(disk[f])
    IN  /\ Meets("loop", {"ZFILE"})
        /\ Drop
        /\ IF ~Head(down).good \/ have > size THEN ReceiveFails /\ UNCHANGED disk
           ELSE IF NeedsCRC(f)
             THEN /\ receiver' = [receiver EXCEPT !.pc = "crc", !.name = f, !.pos = have,
                                                  !.repeats = 0]
                  /\ Say(Header("ZCRC", have)) /\ UNCHANGED disk
             ELSE OpenAt(f, have)
        /\ UNCHANGED <<content, found, sender, complete, faults, repeated, trouble, lost>>

Agrees(h) == h.data = disk[receiver.name]

ReceiveCRC ==
    /\ Meets("crc", {"ZCRC"})
    /\ Drop
    /\ IF Agrees(Head(down)) THEN OpenAt(receiver.name, receiver.pos)
                             ELSE ReceiveFails /\ UNCHANGED disk
    /\ UNCHANGED <<content, found, sender, complete, faults, repeated, trouble, lost>>

SameOffer(h) == h.good /\ h.n = receiver.name /\ receiver.repeats < MaxRepeats

\* A peer may have sent ZFILE again before it saw the question.
ReceiveRepeated ==
    /\ Meets("crc", {"ZFILE"})
    /\ Drop
    /\ IF SameOffer(Head(down))
         THEN receiver' = [receiver EXCEPT !.repeats = @ + 1] /\ UNCHANGED up
         ELSE ReceiveFails
    /\ UNCHANGED <<content, disk, found, sender, complete, faults, repeated, trouble, lost>>

\* Mutant: a damaged block is written.
BlockFitsAny(h) == TRUE

BlockFits(h) == h.good

ReceiveData ==
    LET h == Head(down)
        f == receiver.file
    IN  /\ Meets("loop", {"ZDATA"})
        /\ Drop
        /\ IF f = NoFile \/ h.n # receiver.pos THEN ReceiveFails /\ UNCHANGED disk
           ELSE IF ~BlockFits(h) THEN Say(Header("ZRPOS", receiver.pos)) /\ UNCHANGED <<disk, receiver>>
           ELSE IF receiver.pos + Len(h.data) > Len(content[f]) THEN ReceiveFails /\ UNCHANGED disk
           ELSE /\ disk' = [disk EXCEPT ![f] = SubSeq(@, 1, receiver.pos) \o h.data]
                /\ receiver' = [receiver EXCEPT !.pos = @ + Len(h.data)]
                /\ Say(Header("ZACK", receiver.pos + Len(h.data)))
        /\ UNCHANGED <<content, found, sender, complete, faults, repeated, trouble, lost>>

Whole(h) == h.n = receiver.pos /\ receiver.pos = Len(content[receiver.file])

ReceiveEOF ==
    /\ Meets("loop", {"ZEOF"})
    /\ Drop
    /\ IF receiver.file # NoFile /\ Whole(Head(down))
         THEN /\ complete' = complete \cup {receiver.file}
              /\ receiver' = [receiver EXCEPT !.file = NoFile]
              /\ Say(Header("ZRINIT", 0))
         ELSE ReceiveFails /\ UNCHANGED complete
    /\ UNCHANGED <<content, disk, found, sender, faults, repeated, trouble, lost>>

ReceiveFin ==
    /\ Meets("loop", {"ZFIN"})
    /\ Drop
    /\ IF receiver.file = NoFile
         THEN receiver' = [receiver EXCEPT !.pc = "over"] /\ Say(Header("ZFIN", 0))
         ELSE ReceiveFails
    /\ UNCHANGED <<content, disk, found, sender, complete, faults, repeated, trouble, lost>>

\* The two letters at the end; among 32 other bytes (a cancellation, a prompt)
\* they are missed.
ReceiveOver ==
    /\ \/ /\ Meets("over", {"OO"}) /\ Drop /\ UNCHANGED up
          /\ receiver' = [receiver EXCEPT !.pc = "done"]
       \/ /\ Meets("over", Types \ {"OO"}) /\ Drop
          /\ (UNCHANGED <<receiver, up>> \/ ReceiveFails)
    /\ UNCHANGED <<content, disk, found, sender, complete, faults, repeated, trouble, lost>>

\* The end of the stream will do, but for half of the letters.  A terminal
\* need not close when the program at its other end has ended.
ReceiveStreamEnds ==
    /\ receiver.pc = "over" /\ down = <<>> /\ sender.pc \in Ended /\ UNCHANGED down
    /\ \/ receiver' = [receiver EXCEPT !.pc = "done"] /\ UNCHANGED up
       \/ ReceiveFails
    /\ UNCHANGED <<content, disk, found, sender, complete, faults, repeated, trouble, lost>>

ReceiveError ==
    /\ \/ Meets("init", Types \ {"ZRQINIT"}) \/ Meets("crc", Types \ {"ZCRC", "ZFILE"})
       \/ Meets("loop", {"CAN", "BAD", "ZCRC", "ZRINIT", "ZRPOS", "ZACK", "OO"})
    /\ Drop /\ ReceiveFails
    /\ UNCHANGED <<content, disk, found, sender, complete, faults, repeated, trouble, lost>>

ReceiveInterrupted ==
    /\ receiver.pc \notin Ended
    /\ ReceiveFails
    /\ trouble' = TRUE
    /\ UNCHANGED <<content, disk, found, down, sender, complete, faults, repeated, lost>>

-----------------------------------------------------------------------------
(* The channel                                                             *)

\* A header, or the packet behind it, arrives damaged.
Spoil(h) ==
    {[h EXCEPT !.type = "BAD"]} \cup
    (IF h.type = "ZFILE" THEN {[h EXCEPT !.good = FALSE]} ELSE {}) \cup
    (IF h.type = "ZDATA" THEN {[h EXCEPT !.good = FALSE, !.data = <<b>>] : b \in Blocks} ELSE {})

Damage ==
    /\ faults < MaxFaults
    /\ faults' = faults + 1 /\ trouble' = TRUE
    /\ \/ /\ UNCHANGED up
          /\ \E i \in DOMAIN down : \E h \in Spoil(down[i]) :
                down[i].good /\ down' = [down EXCEPT ![i] = h]
       \/ /\ UNCHANGED down
          /\ \E i \in DOMAIN up : up' = [up EXCEPT ![i].type = "BAD"]
    /\ UNCHANGED <<content, disk, found, sender, receiver, complete, repeated, lost>>

\* The ZDLE in front of a header, or the end of a packet, arrives damaged: the
\* frame is taken for noise, or for the beginning of what comes behind it.
Lose ==
    /\ faults < MaxFaults
    /\ faults' = faults + 1 /\ trouble' = TRUE /\ lost' = TRUE
    /\ \/ UNCHANGED up /\ \E i \in DOMAIN down : down' = RemoveAt(down, i)
       \/ UNCHANGED down /\ \E i \in DOMAIN up : up' = RemoveAt(up, i)
    /\ UNCHANGED <<content, disk, found, sender, receiver, complete, repeated>>

\* A peer sends its request or its offer twice.
Repeat(i) ==
    /\ faults < MaxFaults /\ i \in DOMAIN down /\ down[i].type \in {"ZRQINIT", "ZFILE"}
    /\ faults' = faults + 1
    /\ repeated' = IF down[i].type = "ZFILE" THEN repeated + 1 ELSE repeated
    /\ down' = InsertAt(down, i, down[i])
    /\ UNCHANGED <<content, disk, found, up, sender, receiver, complete, trouble, lost>>

-----------------------------------------------------------------------------
Send == \/ Request \/ Ready \/ Offer \/ OfferAnswered \/ SendData \/ Ack \/ NextFile \/ Finish
        \/ SendError

Receive == \/ ReceiveInit \/ ReceiveFile \/ ReceiveCRC \/ ReceiveRepeated \/ ReceiveData
           \/ ReceiveEOF \/ ReceiveFin \/ ReceiveOver \/ ReceiveError

ZmodemNext ==
    \/ Send \/ Receive \/ ReceiveStreamEnds \/ SendInterrupted \/ ReceiveInterrupted
    \/ Damage \/ Lose \/ \E i \in DOMAIN down : Repeat(i)

ZmodemSpec == ZmodemInit /\ [][ZmodemNext]_zmodemVars

\* Each side goes on as soon as a frame has arrived.
FairZmodemSpec == ZmodemSpec /\ WF_zmodemVars(Send) /\ WF_zmodemVars(Receive)

-----------------------------------------------------------------------------
(* Properties                                                              *)

\* A file the receiver has closed is the file that was sent, whatever was
\* there before, and however often blocks were damaged and repeated.
ReceivedIsSent == \A f \in complete : disk[f] = content[f]

\* When either side reports success, every file has arrived.
SuccessIsShared ==
    "done" \in {sender.pc, receiver.pc} => complete = 1..Files

\* A file of the receiver that is no beginning of the one that is sent
\* stays as it was.
OthersAreKept ==
    \A f \in 1..Files :
        found[f] # None /\ ~IsPrefix(found[f], content[f]) => disk[f] = found[f]

\* Parts that fit, and requests and, for a part, offers that the peer
\* repeats, are no reason for a transfer to fail.
FailsForAReason ==
    (sender.pc = "error" \/ receiver.pc = "error") =>
        \/ trouble \/ repeated > MaxRepeats
        \/ \E f \in 1..Files :
             \/ found[f] # None /\ ~IsPrefix(found[f], content[f])
             \/ found[f] \in {None, <<>>} /\ repeated > 0

\* What arrives is what was sent, other files stay, and both sides agree on
\* success.
ArrivalsAreTrue == ZmodemTypeOK /\ ReceivedIsSent /\ SuccessIsShared /\ OthersAreKept

\* Nor does either side give up without a reason.
FilesArrive == ArrivalsAreTrue /\ FailsForAReason

\* The receiver waits for the last two letters, which nobody will send.
LettersMissed == receiver.pc = "over" /\ down = <<>>

\* Whatever is damaged, repeated or interrupted, a transfer that has begun ends
\* at both sides: nobody waits for a frame that never comes.  Only after a lost
\* frame, and for the two letters at the very end, do they wait to be interrupted.
BothEnd ==
    []<>(\/ sender.pc = "start" \/ lost
         \/ sender.pc \in Ended /\ (receiver.pc \in Ended \/ LettersMissed))
=============================================================================
