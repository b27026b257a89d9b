----------------------------- MODULE MCStopping -----------------------------
(***************************************************************************)
(* What must come to an end: the quit of the application (TaskService),    *)
(* the run of a model (ModelTurn) and a remote command whose caller has    *)
(* given up (RemoteCommand).  The three do not share state and are         *)
(* explored side by side: in a behaviour one of them moves, the others     *)
(* stay where they start.                                                  *)
(***************************************************************************)
EXTENDS TaskService, ModelTurn, RemoteCommand

VARIABLE moving

all == <<moving, vars, turnVars, commandVars>>

\* The task is a conversation.
MCInit ==
    /\ Init /\ TurnInit /\ CommandInit /\ mode = "conversation"
    /\ moving \in {"task", "turn", "command"}

TaskMoves(A) == moving = "task" /\ A /\ UNCHANGED <<moving, turnVars, commandVars>>
TurnMoves(A) == moving = "turn" /\ A /\ UNCHANGED <<moving, vars, commandVars>>
CommandMoves(A) == moving = "command" /\ A /\ UNCHANGED <<moving, vars, turnVars>>

\* With the fairness of the three specifications.
MCSpec ==
    /\ MCInit
    /\ [][TaskMoves(Next) \/ TurnMoves(TurnNext) \/ CommandMoves(CommandNext)]_all
    /\ \A r \in Run : WF_vars(TaskMoves(StoppedRunEnds(r)))
    /\ WF_vars(TaskMoves(Close)) /\ WF_vars(TaskMoves(CloseStore))
    /\ WF_turnVars(TurnMoves(TurnStep))
    /\ WF_commandVars(CommandMoves(~AtServer /\ Command))
    /\ \A s \in Streams : WF_commandVars(CommandMoves(Copying(s)))
=============================================================================
