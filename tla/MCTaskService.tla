--------------------------- MODULE MCTaskService ---------------------------
(***************************************************************************)
(* TaskService on small instances.  All bounds at their largest together   *)
(* are out of TLC's reach, so each behaviour stays within one scope, chosen*)
(* in its first state: the numbers of callers at work, hosts, calls, runs, *)
(* grants, expired grants, crashes and calls given up, the entry points,   *)
(* whether the lists have the calls, and the mode.                         *)
(***************************************************************************)
EXTENDS TaskService, FiniteSets, TLC

CONSTANTS h1, h2, c1, c2,
          Scopes    \* the scopes of the run

VARIABLE scope

Small ==
    [callers |-> 1, entries |-> {"submit", "decide", "cancel"}, mode |-> "",
     hosts |-> 1, calls |-> 1, runs |-> 2, grants |-> 1, expired |-> 0, crashes |-> 0,
     left |-> 0, lists |-> {FALSE}]

Safety ==
    {\* two callers race, in a conversation
     [Small EXCEPT !.callers = 2, !.mode = "conversation"],
     \* a call is decided on, given up and replayed over three runs, its grant
     \* may expire
     [Small EXCEPT !.runs = 3, !.left = 1, !.expired = 1],
     \* two calls, one of them given up
     [Small EXCEPT !.calls = 2, !.left = 1, !.lists = {TRUE}, !.entries = {"submit", "cancel"}],
     \* a restart and a new grant
     [Small EXCEPT !.entries = {"submit", "resume", "decide"}, !.lists = BOOLEAN,
                   !.grants = 2, !.expired = 1,
                   !.crashes = 1],
     \* reads and changes on two hosts, before and after a resume
     [Small EXCEPT !.entries = {"submit", "resume"}, !.hosts = 2, !.calls = 2,
                   !.grants = 2, !.lists = {TRUE}]}

\* Two callers race to resume.
ResumeRace ==
    {[Small EXCEPT !.callers = 2, !.entries = {"submit", "resume"}, !.calls = 2,
                   !.grants = 2, !.lists = {TRUE}]}

InScope ==
    LET busy == {c \in Callers : caller[c] # Idle}
    IN  /\ Cardinality(busy) <= scope.callers
        /\ \A c \in busy : caller[c].entry \in scope.entries \cup {"none"}
        /\ "cancel" \in scope.entries \/ closed \/ \A r \in Run : ~runs[r].stopped
        /\ mode = scope.mode
        /\ Cardinality({calls[i].host : i \in DOMAIN calls}) <= scope.hosts
        /\ Len(calls) <= scope.calls
        /\ \A i \in DOMAIN calls : calls[i].listed \in scope.lists
        /\ Cardinality(left) <= scope.left
        /\ \A r \in Run : r > scope.runs => runs[r].phase = "none"
        /\ issued <= scope.grants /\ expired <= scope.expired
        /\ crashes <= scope.crashes

MCInit == Init /\ scope \in Scopes /\ InScope

MCSpec == MCInit /\ [][Next /\ UNCHANGED scope /\ InScope']_<<vars, scope>>

Symmetry == Permutations(Callers) \cup Permutations(Hosts)
=============================================================================
