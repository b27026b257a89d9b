---------------------------- MODULE MCConnections ----------------------------
(***************************************************************************)
(* The clients of the application (ConnectionManager), the terminals that  *)
(* the desktop opens on them (Workspaces), and a port forwarding (Tunnel). *)
(* The three do not share state and are explored side by side: in a        *)
(* behaviour one of them moves, the others stay in one of their initial    *)
(* states.                                                                 *)
(***************************************************************************)
EXTENDS ConnectionManager, Workspaces, Tunnel

VARIABLE moving

all == <<moving, vars, workspaceVars, tunnelVars>>

\* Hosts are interchangeable: of two configurations that differ by an exchange of
\* the hosts, only one is explored.
FirstHost == CHOOSE h \in Hosts : TRUE
FirstComesFirst ==
    \A h \in Hosts :
        /\ config[h].jump # NoHost => config[FirstHost].jump # NoHost
        /\ config[h].jump = config[FirstHost].jump => config[h].jump \in {FirstHost, NoHost}

MCInit ==
    /\ moving \in {"clients", "tabs", "tunnel"}
    /\ moving # "clients" => config = [h \in Hosts |-> NewConfig]
    /\ Init /\ FirstComesFirst /\ WorkspaceInit /\ TunnelInit

ClientsMove(A) == moving = "clients" /\ A /\ UNCHANGED <<moving, workspaceVars, tunnelVars>>
TabsMove(A) == moving = "tabs" /\ A /\ UNCHANGED <<moving, vars, tunnelVars>>
TunnelMoves(A) == moving = "tunnel" /\ A /\ UNCHANGED <<moving, vars, workspaceVars>>

\* With the fairness of the three specifications.
MCSpec ==
    /\ MCInit
    /\ [][ClientsMove(Next) \/ TabsMove(WorkspaceNext) \/ TunnelMoves(TunnelNext)]_all
    /\ \A c \in Callers : WF_vars(ClientsMove(Walks(c)))
    /\ \A n \in Client : WF_vars(ClientsMove(ClosesSocket(n))) /\ WF_vars(ClientsMove(WaitReturns(n)))
    /\ \A c \in Calls : WF_workspaceVars(TabsMove(CallGoes(c)))
    /\ WF_workspaceVars(TabsMove(\E c \in Calls : ThreadServes(c)))
    /\ WF_workspaceVars(TabsMove(\E w \in Terminals : WorkspaceCloses(w)))
    /\ WF_workspaceVars(TabsMove(QuitManager \/ QuitEnded))
    /\ WF_tunnelVars(TunnelMoves(CloseListener)) /\ WF_tunnelVars(TunnelMoves(AfterFunc))
    /\ WF_tunnelVars(TunnelMoves(MainEnds)) /\ WF_tunnelVars(TunnelMoves(UpIsOver))
=============================================================================
