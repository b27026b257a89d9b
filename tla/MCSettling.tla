----------------------------- MODULE MCSettling -----------------------------
(***************************************************************************)
(* What is shown in the end, and what ends: the view of a task             *)
(* (TaskWatch), a terminal (TerminalView) with much input ("typing"),      *)
(* changes of its geometry ("resizing") or selections ("selecting"), the   *)
(* keyboard during a transfer (TransferRouter) and the transfer itself     *)
(* (Zmodem).  The four do not share state and are explored side by side:   *)
(* in a behaviour one of them moves, the others stay in one of their       *)
(* initial states.                                                         *)
(***************************************************************************)
EXTENDS TaskWatch, TerminalView, TransferRouter, Zmodem

VARIABLE moving

all == <<moving, vars, terminalVars, routerVars, zmodemVars>>

\* A transfer, with a line end behind its header.
OneTransfer == {<<"*", "*", "B", "init", "eol", "text">>}

\* What does not move is fixed first: TLC need not enumerate it.
MCInit ==
    /\ moving \in {"view", "typing", "resizing", "selecting", "router", "zmodem"}
    /\ IF moving = "zmodem" THEN TRUE
       ELSE content = [f \in 1..Files |-> <<>>] /\ disk = content
    /\ Init /\ TerminalInit /\ RouterInit /\ ZmodemInit

ViewMoves(A) == moving = "view" /\ A /\ UNCHANGED <<moving, terminalVars, routerVars, zmodemVars>>
RouterMoves(A) == moving = "router" /\ A /\ UNCHANGED <<moving, vars, terminalVars, zmodemVars>>
ZmodemMoves(A) == moving = "zmodem" /\ A /\ UNCHANGED <<moving, vars, terminalVars, routerVars>>

\* A scope bounds the user and the replies of Core, and so takes no step away
\* from a goroutine that has one.
InScope ==
    \/ moving = "typing" /\ size' = 0 /\ selectionScreen' = {}
    \/ moving = "resizing" /\ inputs' = 0 /\ selectionScreen' = {}
    \/ moving = "selecting" /\ size' = 0 /\ inputs' <= 1
TerminalMoves(A) ==
    /\ moving \in {"typing", "resizing", "selecting"} /\ A /\ InScope
    /\ UNCHANGED <<moving, vars, routerVars, zmodemVars>>

\* With the fairness of the four specifications.
MCSpec ==
    /\ MCInit
    /\ [][ViewMoves(Next) \/ TerminalMoves(TerminalNext)
          \/ RouterMoves(RouterNext) \/ ZmodemMoves(ZmodemNext)]_all
    /\ \A t \in Tasks : WF_vars(ViewMoves(Notify(t)))
    /\ WF_vars(ViewMoves(Watch)) /\ WF_vars(ViewMoves(Deliver))
    /\ WF_terminalVars(TerminalMoves(Worker)) /\ WF_terminalVars(TerminalMoves(Copier))
    /\ WF_terminalVars(TerminalMoves(Output)) /\ WF_terminalVars(TerminalMoves(Painter))
    /\ WF_terminalVars(TerminalMoves(Resizer))
    /\ WF_terminalVars(TerminalMoves(CloseInput)) /\ WF_terminalVars(TerminalMoves(CloseSource))
    /\ WF_terminalVars(TerminalMoves(ReaderEnds /\ closeStep = "closed"))
    /\ WF_routerVars(RouterMoves(Pump)) /\ WF_routerVars(RouterMoves(Timeout))
    /\ WF_routerVars(RouterMoves(closing = 1 /\ CloseRouter))
    /\ WF_zmodemVars(ZmodemMoves(Send)) /\ WF_zmodemVars(ZmodemMoves(Receive))
=============================================================================
