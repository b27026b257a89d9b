---------------------------- MODULE MCTransfers ----------------------------
(***************************************************************************)
(* Files on their way: transfers in the terminal (TransferRouter, Zmodem)  *)
(* and uploads (UploadQueue).  The three do not share state and are        *)
(* explored side by side: in a behaviour one of them moves, the others     *)
(* stay in one of their initial states.                                    *)
(***************************************************************************)
EXTENDS TransferRouter, Zmodem, UploadQueue, FiniteSetsExt

CONSTANTS MaxTotal,    \* bound on the blocks of all files
          MaxMeanwhile \* bound on what happens elsewhere during uploads

VARIABLE moving

all == <<moving, routerVars, zmodemVars, uploadVars>>

Sequences(n) == UNION {[1..k -> Items] : k \in 0..n}

\* Everything a server can send, longer where it begins like a header: room
\* for a header behind a false start, and for line ends and text behind it.
ShortStreams ==
    Sequences(3) \cup {<<"*", "*">> \o s : s \in Sequences(3)} \cup
    {<<"*", "*", "*", "B">> \o s : s \in Sequences(2)} \cup
    {<<"*", "*", "B", "init", "eol">> \o s : s \in Sequences(2)}

\* Two transfers.
TwoTransfers == {<<"*", "*", "B", "init", "eol", "*", "*", "B", "init", "text">>}

AllStreams == ShortStreams \cup TwoTransfers

\* All files have the same name.
MCBase == [j \in Jobs |-> "n"]

\* Blocks, directories, writers and jobs are interchangeable: the first of each
\* is the one that comes first.  (Cheaper here than a SYMMETRY of four sets.)
FirstBlock == CHOOSE b \in Blocks : TRUE
FirstDir == CHOOSE d \in Dirs : TRUE
FirstWriter == CHOOSE w \in Writers : TRUE
FirstJob == CHOOSE j \in Jobs \ Irregular : TRUE
FirstComesFirst ==
    /\ writes' = 1 => \A w \in Writers \ {FirstWriter} : writer'[w].pc = "idle"
    /\ stage'[FirstJob] = "idle" => \A j \in Jobs \ Irregular : stage'[j] = "idle"

\* What does not move is fixed first: TLC need not enumerate it.
MCInit ==
    /\ moving \in {"display", "keys", "zmodem", "uploads"}
    /\ stream \in (IF moving = "display" THEN ShortStreams ELSE TwoTransfers)
    /\ IF moving = "zmodem" THEN TRUE
       ELSE content = [f \in 1..Files |-> <<>>] /\ disk = content
    /\ IF moving = "uploads" THEN TRUE
       ELSE shown = NoDir /\ server = [p \in Dirs \X FileNames |-> "none"]
    /\ RouterInit /\ ZmodemInit /\ UploadInit
    /\ FoldSet(LAMBDA f, n : Len(content[f]) + n, 0, 1..Files) <= MaxTotal
    /\ content[1] # <<>> => content[1][1] = FirstBlock
    /\ shellDir = [t \in Terminals |-> FirstDir]
    /\ \E p \in Dirs \X FileNames : \A q \in Dirs \X FileNames : q # p => server[q] = "none"

\* The router in two scopes: short streams while nobody types ("display"), and
\* two transfers with keys.
MCNext ==
    /\ \/ /\ moving \in {"display", "keys"} /\ RouterNext /\ UNCHANGED <<zmodemVars, uploadVars>>
          /\ moving = "display" => writes' = 0
       \/ moving = "zmodem" /\ ZmodemNext /\ UNCHANGED <<routerVars, uploadVars>>
       \/ /\ moving = "uploads" /\ UploadNext /\ UNCHANGED <<routerVars, zmodemVars>>
          /\ browsed' + foreign' <= MaxMeanwhile
          \* Either something happens elsewhere, or there is an irregular file.
          /\ browsed' + foreign' > 0 => \A j \in Irregular : stage'[j] = "idle"
    /\ FirstComesFirst /\ UNCHANGED moving

MCSpec == MCInit /\ [][MCNext]_all
=============================================================================
