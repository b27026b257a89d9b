----------------------------- MODULE Workspaces -----------------------------
(***************************************************************************)
(* Who owns the terminals of the desktop: connecting a server              *)
(* (internal/ui/app.go), splitting and closing a workspace                 *)
(* (internal/ui/workspace.go), terminals the assistant opens               *)
(* (internal/ui/companion.go), the list of terminals the assistant sees    *)
(* (internal/remote/desktop.go), and quit (internal/ui/lifecycle.go).      *)
(*                                                                         *)
(* Sessions are opened by goroutines and handed to the UI thread with      *)
(* fyne.Do.  Meanwhile tabs are closed, the assistant's run is cancelled,  *)
(* and the application quits.                                              *)
(*                                                                         *)
(* Every terminal view has one session and one id: the three are one       *)
(* number here.  A workspace is named by its first terminal.  The home tab *)
(* is there when no workspace is, and is the tab 0.                        *)
(***************************************************************************)
EXTENDS Naturals, Sequences, FiniteSets, SequencesExt

CONSTANTS
    Servers,        \* the hosts of the user
    Calls,          \* bound: the calls of Manager.Terminal
    MaxAgents,      \* bound on the calls the assistant makes
    MaxEvents       \* bound on changes of the tab and of the focus, and on shells that end

ASSUME WorkspaceAssumption ==
    /\ IsFiniteSet(Calls) /\ {MaxAgents, MaxEvents} \subseteq Nat

Terminals == 1..Cardinality(Calls)
None == 0

VARIABLES
    call,           \* connect, the split button and openAgentTerminal under way
    callbacks,      \* callbacks handed to fyne.Do
    session,        \* the sessions: "none", "open", "closed"
    workspace,      \* host, terminals, activeSession and w.ctx of a workspace
    workspaces,     \* App.workspaces, in the order of the tabs
    current,        \* the selected tab
    connecting,     \* App.connecting
    sessions,       \* DesktopTerminals.sessions
    active,         \* DesktopTerminals.active
    shutdown,       \* how far quit has come
    events          \* counter of the bound

calling == <<call, callbacks, connecting>>
terminalsDesktop == <<sessions, active>>
tabs == <<workspaces, current>>
workspaceVars == <<calling, session, workspace, tabs, terminalsDesktop, shutdown, events>>

\* u.closing, which quit sets before anything else.
QuitBegun == shutdown # "no"

NoWorkspace == [host |-> "none", panes |-> <<>>, focus |-> None, state |-> "none"]
NoCall == [kind |-> "none", host |-> "none", tab |-> None, pc |-> "new", got |-> None,
           cancelled |-> FALSE, reply |-> "none"]

Panes(w) == ToSet(workspace[w].panes)
Shown == ToSet(workspaces)

WorkspaceTypeOK ==
    /\ \A c \in Calls :
          /\ call[c].kind \in {"none", "connect", "split", "agent"} /\ call[c].got \in Terminals \cup {None}
          /\ call[c].pc \in {"new", "dial", "ask", "post", "discard", "done"}
          /\ call[c].reply \in {"none", "trusted", "opened", "refused", "given up"}
    /\ session \in [Terminals -> {"none", "open", "closed"}]
    /\ \A w \in Terminals :
          /\ workspace[w].state \in {"none", "open", "cancelled", "closed"}
          /\ workspace[w].state # "none" => w = workspace[w].panes[1] /\ workspace[w].focus \in Panes(w)
    /\ IsInjective(workspaces) /\ Shown \subseteq Terminals /\ current \in Terminals \cup {None}
    /\ sessions \subseteq Terminals /\ active \in Terminals \cup {None}
    /\ shutdown \in {"no", "manager", "workspaces", "ended"}

WorkspaceInit ==
    /\ call = [c \in Calls |-> NoCall] /\ callbacks = <<>> /\ connecting = {}
    /\ session = [s \in Terminals |-> "none"]
    /\ workspace = [w \in Terminals |-> NoWorkspace]
    /\ workspaces = <<>> /\ current = None
    /\ sessions = {} /\ active = None
    /\ shutdown = "no" /\ events = 0

-----------------------------------------------------------------------------
(***************************************************************************)
(* Tabs.                                                                   *)
(***************************************************************************)

\* selectWorkspace: the assistant's current terminal becomes the first one of
\* the tab that is selected now.
SelectWorkspace(w) == active' = w

\* tabs.Select: nothing happens when the tab is selected already.
SelectTab(w) ==
    IF w = current THEN UNCHANGED <<current, active>>
                   ELSE current' = w /\ SelectWorkspace(w)

\* The user selects a tab, or connects a server that has one.
UserSelects(w) ==
    /\ ~QuitBegun /\ w \in Shown \ {current} /\ events < MaxEvents
    /\ SelectTab(w)
    /\ events' = events + 1
    /\ UNCHANGED <<calling, session, workspace, workspaces, sessions, shutdown>>

\* View.OnFocus
FocusTerminal(s) ==
    /\ ~QuitBegun /\ current # None /\ s \in Panes(current) \ {workspace[current].focus}
    /\ events < MaxEvents /\ events' = events + 1
    /\ active' = s
    /\ workspace' = [workspace EXCEPT ![current].focus = s]
    /\ UNCHANGED <<calling, session, tabs, sessions, shutdown>>

\* newWorkspace and showWorkspace
NewWorkspace(h, s) ==
    /\ workspace' = [workspace EXCEPT ![s] = [host |-> h, panes |-> <<s>>, focus |-> s, state |-> "open"]]
    /\ sessions' = sessions \cup {s}
    /\ workspaces' = Append(workspaces, s)
    /\ SelectTab(s)

\* tabs.Remove selects the tab to the left of one that was selected.
Position(w) == CHOOSE k \in DOMAIN workspaces : workspaces[k] = w
Without(w) == RemoveAt(workspaces, Position(w))
Neighbour(w) ==
    IF Without(w) = <<>> THEN None
                         ELSE Without(w)[IF Position(w) > 1 THEN Position(w) - 1 ELSE 1]

\* closeWorkspace: the sessions are closed by a goroutine, see CloseSessions.
CloseWorkspace(w) ==
    /\ ~QuitBegun /\ w \in Shown
    /\ workspaces' = Without(w)
    /\ workspace' = [workspace EXCEPT ![w].state = "cancelled"]
    /\ sessions' = sessions \ Panes(w)
    /\ current' = IF current = w THEN Neighbour(w) ELSE current
    /\ SelectWorkspace(current')
    /\ UNCHANGED <<calling, session, shutdown, events>>

\* workspace.close, which closes each session once.
CloseSessions(w) ==
    /\ workspace' = [workspace EXCEPT ![w].state = "closed"]
    /\ session' = [s \in Terminals |-> IF s \in Panes(w) THEN "closed" ELSE session[s]]
    /\ sessions' = sessions \ Panes(w)
    /\ active' = IF active \in Panes(w) THEN None ELSE active

\* The goroutine of closeWorkspace, which has removed the ids, or that of quit,
\* which comes to it after the manager.
WorkspaceCloses(w) ==
    /\ workspace[w].state = "cancelled"
    /\ w \in sessions => shutdown = "workspaces"
    /\ CloseSessions(w)
    /\ UNCHANGED <<calling, tabs, shutdown, events>>

\* The shell ends: the tab stays, and alive says no.
SessionEnds(s) ==
    /\ session[s] = "open" /\ session' = [session EXCEPT ![s] = "closed"]
    /\ events < MaxEvents /\ events' = events + 1
    /\ UNCHANGED <<calling, workspace, tabs, terminalsDesktop, shutdown>>

-----------------------------------------------------------------------------
(***************************************************************************)
(* Opening terminals.                                                      *)
(***************************************************************************)
Begin(c, kind, h, w) ==
    /\ call[c].pc = "new" /\ \A d \in Calls : d < c => call[d].pc # "new"
    /\ call' = [call EXCEPT ![c] = [NoCall EXCEPT !.kind = kind, !.host = h, !.tab = w, !.pc = "dial"]]
    /\ UNCHANGED <<callbacks, session, workspace, workspaces, sessions, shutdown, events>>

\* connect: a server that has a workspace is shown, one that is being
\* connected is not connected again.
TabsOf(h) == {w \in Shown : workspace[w].host = h}
Busy(h) == QuitBegun \/ h \in connecting

ConnectServer(c, h) ==
    /\ ~QuitBegun /\ TabsOf(h) = {} /\ ~Busy(h)
    /\ connecting' = connecting \cup {h}
    /\ Begin(c, "connect", h, None)
    /\ UNCHANGED <<current, active>>

Split(c) ==
    /\ ~QuitBegun /\ current # None
    /\ Begin(c, "split", workspace[current].host, current)
    /\ UNCHANGED <<connecting, current, active>>

\* openAgentTerminal; the assistant may go on for a while when quit has begun.
AgentOpens(c, h) ==
    /\ Cardinality({d \in Calls : call[d].kind = "agent"}) < MaxAgents
    /\ Begin(c, "agent", h, None)
    /\ UNCHANGED <<connecting, current, active>>

\* The context of the call is cancelled: the one of the run, or of the application.
Cancel(c) ==
    /\ call[c].kind = "agent" /\ call[c].pc # "done" /\ ~call[c].cancelled
    /\ call' = [call EXCEPT ![c].cancelled = TRUE]
    /\ UNCHANGED <<callbacks, connecting, session, workspace, tabs, terminalsDesktop, shutdown, events>>

ContextEnded(c) ==
    \/ call[c].cancelled \/ QuitBegun
    \/ call[c].kind = "split" /\ workspace[call[c].tab].state # "open"

\* Manager.Terminal has a session.  A context that ends in this moment does
\* not keep it from returning.
Fresh(s) == session[s] = "none" /\ \A r \in 1..s - 1 : session[r] # "none"

TerminalOpens(c) ==
    /\ call[c].pc = "dial" /\ shutdown \in {"no", "manager"}
    /\ \E s \in Terminals :
          /\ Fresh(s)
          /\ session' = [session EXCEPT ![s] = "open"]
          /\ call' = [call EXCEPT ![c].pc = "post", ![c].got = s]
    /\ callbacks' = Append(callbacks, c)
    /\ UNCHANGED <<connecting, workspace, tabs, terminalsDesktop, shutdown, events>>

\* It fails; only the callback of connect has something to do then.
TerminalFails(c) ==
    /\ call[c].pc = "dial"
    /\ IF call[c].kind = "connect"
       THEN call' = [call EXCEPT ![c].pc = "post"] /\ callbacks' = Append(callbacks, c)
       ELSE call' = [call EXCEPT ![c].pc = "done", ![c].reply = "refused"] /\ UNCHANGED callbacks
    /\ UNCHANGED <<connecting, session, workspace, tabs, terminalsDesktop, shutdown, events>>

\* The key of the server is not known: openAgentTerminal asks, and dials again.
KeyAsks(c) ==
    /\ call[c].kind = "agent" /\ call[c].pc = "dial" /\ call[c].reply = "none"
    /\ call' = [call EXCEPT ![c].pc = "ask"]
    /\ UNCHANGED <<callbacks, connecting, session, workspace, tabs, terminalsDesktop, shutdown, events>>

UserTrusts(c) ==
    /\ call[c].pc = "ask" /\ ~ContextEnded(c)
    /\ call' = [call EXCEPT ![c].pc = "dial", ![c].reply = "trusted"]
    /\ UNCHANGED <<callbacks, connecting, session, workspace, tabs, terminalsDesktop, shutdown, events>>

\* Mutant: the question does not end with its context, and after quit nobody
\* is left to answer it.
AskEndsByUser(c) ==
    /\ call[c].pc = "ask" /\ ~ContextEnded(c)
    /\ call' = [call EXCEPT ![c].pc = "done", ![c].reply = "refused"]
    /\ UNCHANGED <<callbacks, connecting, session, workspace, tabs, terminalsDesktop, shutdown, events>>

AskEnds(c) ==
    /\ call[c].pc = "ask"
    /\ call' = [call EXCEPT ![c].pc = "done", ![c].reply = "refused"]
    /\ UNCHANGED <<callbacks, connecting, session, workspace, tabs, terminalsDesktop, shutdown, events>>

-----------------------------------------------------------------------------
(***************************************************************************)
(* The callbacks on the UI thread.                                         *)
(***************************************************************************)
Serve(c, kind) == callbacks # <<>> /\ Head(callbacks) = c /\ call[c].kind = kind /\ callbacks' = Tail(callbacks)
Ends(c) == call' = [call EXCEPT ![c].pc = "done"]
CloseOne(s) == session' = IF s = None THEN session ELSE [session EXCEPT ![s] = "closed"]

ConnectServed(c) ==
    LET s == call[c].got
    IN  /\ Serve(c, "connect") /\ Ends(c)
        /\ connecting' = connecting \ {call[c].host}
        /\ IF s = None \/ QuitBegun
           THEN CloseOne(s) /\ UNCHANGED <<workspace, tabs, terminalsDesktop>>
           ELSE NewWorkspace(call[c].host, s) /\ UNCHANGED session
        /\ UNCHANGED <<shutdown, events>>

\* Mutant: only quit is looked at, not the context of the workspace.
SplitRefusedAtQuit(c) == QuitBegun

\* The check of w.ctx: a session for a workspace that was closed is closed by
\* a goroutine.
SplitRefused(c) == ContextEnded(c)

SplitServed(c) ==
    LET s == call[c].got
        w == call[c].tab
    IN  /\ Serve(c, "split")
        /\ IF SplitRefused(c)
           THEN call' = [call EXCEPT ![c].pc = "discard"] /\ UNCHANGED <<workspace, sessions>>
           ELSE /\ Ends(c)
                /\ workspace' = [workspace EXCEPT ![w].panes = Append(@, s)]
                /\ sessions' = sessions \cup {s}
        /\ UNCHANGED <<connecting, session, tabs, active, shutdown, events>>

Discard(c) ==
    /\ call[c].pc = "discard" /\ Ends(c)
    /\ CloseOne(call[c].got)
    /\ UNCHANGED <<callbacks, connecting, workspace, tabs, terminalsDesktop, shutdown, events>>

AgentServed(c) ==
    LET s == call[c].got
        refused == ContextEnded(c)
    IN  /\ Serve(c, "agent")
        /\ call' = [call EXCEPT ![c].pc = IF call[c].reply = "given up" THEN "done" ELSE "post",
                                ![c].reply = IF @ = "given up" THEN @
                                             ELSE IF refused THEN "refused" ELSE "opened"]
        /\ IF refused
           THEN CloseOne(s) /\ UNCHANGED <<workspace, tabs, terminalsDesktop>>
           ELSE NewWorkspace(call[c].host, s) /\ UNCHANGED session
        /\ UNCHANGED <<connecting, shutdown, events>>

\* The select at the end of openAgentTerminal: the answer of the callback, or
\* the end of the context, whichever the select chooses when both are there.
AgentReturns(c) ==
    /\ call[c].kind = "agent" /\ call[c].pc = "post" /\ call[c].reply \in {"opened", "refused"}
    /\ Ends(c)
    /\ UNCHANGED <<callbacks, connecting, session, workspace, tabs, terminalsDesktop, shutdown, events>>

AgentGivesUp(c) ==
    /\ call[c].kind = "agent" /\ call[c].pc = "post" /\ ContextEnded(c)
    /\ call[c].reply # "given up"
    /\ call' = [call EXCEPT ![c].reply = "given up",
                            ![c].pc = IF c \in ToSet(callbacks) THEN "post" ELSE "done"]
    /\ CloseOne(call[c].got)
    /\ UNCHANGED <<callbacks, connecting, workspace, tabs, terminalsDesktop, shutdown, events>>

-----------------------------------------------------------------------------
(***************************************************************************)
(* Quit.  On the UI thread u.cancel cancels every workspace; a goroutine   *)
(* closes the manager, then the workspaces it has taken over.              *)
(***************************************************************************)
Quit ==
    /\ ~QuitBegun /\ shutdown' = "manager"
    /\ workspace' = [w \in Terminals |->
          IF workspace[w].state = "open" THEN [workspace[w] EXCEPT !.state = "cancelled"] ELSE workspace[w]]
    /\ workspaces' = <<>> /\ UNCHANGED current
    /\ UNCHANGED <<calling, session, terminalsDesktop, events>>

QuitManager ==
    /\ shutdown = "manager" /\ shutdown' = "workspaces"
    /\ UNCHANGED <<calling, session, workspace, tabs, terminalsDesktop, events>>

QuitEnded ==
    /\ shutdown = "workspaces" /\ \A w \in Terminals : workspace[w].state # "cancelled"
    /\ shutdown' = "ended"
    /\ UNCHANGED <<calling, session, workspace, tabs, terminalsDesktop, events>>

CallStep(c) ==
    \/ \E h \in Servers : ConnectServer(c, h) \/ AgentOpens(c, h)
    \/ Split(c) \/ Cancel(c) \/ UserTrusts(c) \/ TerminalOpens(c) \/ TerminalFails(c) \/ KeyAsks(c)
    \/ AskEnds(c) \/ ConnectServed(c) \/ SplitServed(c) \/ Discard(c) \/ AgentServed(c)
    \/ AgentReturns(c) \/ AgentGivesUp(c)

WorkspaceNext ==
    \/ \E c \in Calls : CallStep(c)
    \/ \E w \in Terminals : UserSelects(w) \/ FocusTerminal(w) \/ CloseWorkspace(w) \/ WorkspaceCloses(w)
                            \/ SessionEnds(w)
    \/ Quit \/ QuitManager \/ QuitEnded

WorkspaceSpec == WorkspaceInit /\ [][WorkspaceNext]_workspaceVars

\* Goroutines and callbacks go on.  Manager.Terminal returns once the manager
\* has closed the clients; before, a server may leave it without an answer.
\* The user answers or not.
CallGoes(c) ==
    \/ shutdown \in {"workspaces", "ended"} /\ TerminalFails(c)
    \/ AskEnds(c) /\ ContextEnded(c)
    \/ Discard(c) \/ AgentReturns(c) \/ AgentGivesUp(c)
ThreadServes(c) == ConnectServed(c) \/ SplitServed(c) \/ AgentServed(c)

WorkspaceFairness ==
    /\ \A c \in Calls : WF_workspaceVars(CallGoes(c))
    /\ WF_workspaceVars(\E c \in Calls : ThreadServes(c))
    /\ WF_workspaceVars(\E w \in Terminals : WorkspaceCloses(w))
    /\ WF_workspaceVars(QuitManager \/ QuitEnded)

FairWorkspaceSpec == WorkspaceSpec /\ WorkspaceFairness

-----------------------------------------------------------------------------
(***************************************************************************)
(* Properties.                                                             *)
(***************************************************************************)

\* An open session has one owner, which will close it or hand it on: the
\* callback that waits for the UI thread, or a workspace that is not closed.
OneOwner ==
    \A s \in Terminals : session[s] = "open" =>
        LET callers == {c \in Calls : call[c].got = s /\ (c \in ToSet(callbacks) \/ call[c].pc = "discard")}
            owners == {w \in Terminals : workspace[w].state \in {"open", "cancelled"} /\ s \in Panes(w)}
        IN  Cardinality(callers) + Cardinality(owners) = 1

\* The assistant's list has the terminals of the tabs: the id of one that was
\* closed never comes back (src/docs/companion.md).
OldIdsAreGone ==
    /\ ~QuitBegun => sessions = UNION {Panes(w) : w \in Shown}
    /\ \A w \in Terminals : workspace[w].state = "closed" => sessions \cap Panes(w) = {}

\* The assistant's current terminal is one of the selected tab.
ActiveIsShown ==
    ~QuitBegun => /\ current \in Shown \/ (current = None /\ Shown = {})
                  /\ active \in IF current = None THEN {None} ELSE Panes(current)

\* However often the user connects a server, it has one tab of the user's.
OneTabPerServer ==
    \A c, d \in Calls :
        ( /\ call[c].kind = "connect" /\ call[d].kind = "connect" /\ call[c].host = call[d].host
          /\ {call[c].got, call[d].got} \subseteq Shown ) => c = d

\* Nobody loses a terminal or reaches one that is gone.
TerminalsAreOwned ==
    WorkspaceTypeOK /\ OneOwner /\ OldIdsAreGone /\ ActiveIsShown /\ OneTabPerServer

\* It never stays otherwise: the sessions of tabs that were closed are closed,
\* and after quit all are and no call is under way, whatever the servers and
\* the dialogs do.
TerminalsRelease ==
    []<>( /\ \A w \in Terminals : workspace[w].state = "cancelled" =>
                \A s \in Panes(w) : session[s] = "closed"
          /\ QuitBegun => /\ \A s \in Terminals : session[s] # "open"
                          /\ \A c \in Calls : call[c].pc \in {"new", "done"} )

\* The assistant's current terminal is the one that had the focus last in the
\* selected tab, which is also the one the file pane follows
\* (src/docs/companion.md: in a split workspace the focus says which terminal
\* is the current one).
FocusIsActive == ~QuitBegun /\ current # None => active = workspace[current].focus
=============================================================================
