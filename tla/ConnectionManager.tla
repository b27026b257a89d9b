------------------------- MODULE ConnectionManager -------------------------
(***************************************************************************)
(* internal/remote/connection.go: the SSH clients of the application, one  *)
(* per host, shared by the executor, terminals, files, tunnels and the     *)
(* monitor.  Connect loads the host, connects to its jump host first, then *)
(* takes the lock of the host, and returns the cached client or dials.     *)
(* The user edits hosts and disconnects at any time; connections break;    *)
(* Close runs at exit.                                                     *)
(*                                                                         *)
(* Steps are cut where Manager.mu and the host locks are released.         *)
(*                                                                         *)
(* Abstractions: a host's configuration is a version and a jump host, and  *)
(* stands for its digest.  Authentication, the known_hosts check and the   *)
(* handshake are the success or failure of a dial.                         *)
(***************************************************************************)
EXTENDS Naturals, Sequences

CONSTANTS Hosts, Callers,
          NoHost, NoCaller,
          MaxEdits,  \* bound on edits of hosts
          MaxDials,  \* bound on clients
          MaxDrops   \* bound on disconnections by the user and broken connections

ASSUME ManagerAssumption ==
    /\ NoHost \notin Hosts /\ NoCaller \notin Callers
    /\ {MaxEdits, MaxDials, MaxDrops} \subseteq Nat

Client == 1..MaxDials
NoClient == 0

VARIABLES
    config, edits,  \* the stored hosts
    clients,        \* Manager.clients: per host, the cached client
    closed,         \* Manager.closed
    locks,          \* Manager.locks: per host, the holder
    client,         \* per client: host, configuration, jump client, alive
    dials,          \* the number of clients
    cleaned,        \* per client: how often its cleanup ran
    reaped,         \* clients whose goroutine behind Wait is over
    dropping,       \* clients taken out of the map, still to be closed
    caller,         \* per caller: control point and variables of connect
    drops

vars == <<config, edits, clients, closed, locks, client, dials, cleaned,
          reaped, dropping, caller, drops>>

Config == [version : 0..MaxEdits, jump : Hosts \cup {NoHost}]
Level == [host : Hosts, config : Config]
ClientState == [host : Hosts, config : Config, via : Client \cup {NoClient},
                alive : BOOLEAN]

\* chain: the levels of the recursion, the last one is the innermost;
\* target: the host to resolve next; via: the client of the level below.
Call == [pc : {"idle", "resolve", "lock", "check", "replace", "drop", "dial",
               "publish", "done", "failed"},
         asked : Hosts \cup {NoHost}, chain : Seq(Level),
         target : Hosts \cup {NoHost}, via : Client \cup {NoClient},
         client : Client \cup {NoClient}, wanted : Config]
NewConfig == [version |-> 0, jump |-> NoHost]
IdleCall == [pc |-> "idle", asked |-> NoHost, chain |-> <<>>, target |-> NoHost,
             via |-> NoClient, client |-> NoClient, wanted |-> NewConfig]

TypeOK ==
    /\ config \in [Hosts -> Config] /\ edits \in 0..MaxEdits
    /\ clients \in [Hosts -> Client \cup {NoClient}]
    /\ closed \in BOOLEAN
    /\ locks \in [Hosts -> Callers \cup {NoCaller}]
    /\ client \in [1..dials -> ClientState] /\ dials \in 0..MaxDials
    /\ cleaned \in [Client -> Nat]
    /\ reaped \subseteq Client /\ dropping \subseteq Client
    /\ caller \in [Callers -> Call]
    /\ drops \in Nat

Init ==
    /\ config \in [Hosts -> {[version |-> 0, jump |-> j] : j \in Hosts \cup {NoHost}}]
    /\ edits = 0
    /\ clients = [h \in Hosts |-> NoClient] /\ closed = FALSE
    /\ locks = [h \in Hosts |-> NoCaller]
    /\ client = <<>> /\ dials = 0
    /\ cleaned = [n \in Client |-> 0]
    /\ reaped = {} /\ dropping = {}
    /\ caller = [c \in Callers |-> IdleCall]
    /\ drops = 0

-----------------------------------------------------------------------------
(* connect                                                                 *)

At(c, p) == caller[c].pc = p
Top(c) == caller[c].chain[Len(caller[c].chain)]
Goto(c, p) == caller' = [caller EXCEPT ![c].pc = p]

Unlock(h) == locks' = [locks EXCEPT ![h] = NoCaller]

\* Every level returns the error.
Fail(c) == Goto(c, "failed") /\ Unlock(Top(c).host)

\* Mutant: an early return in front of the deferred Unlock.
ReturnKeepingLock(c, n) ==
    LET below == SubSeq(caller[c].chain, 1, Len(caller[c].chain) - 1)
    IN  /\ caller' = [caller EXCEPT ![c].chain = below, ![c].client = n, ![c].via = n,
                         ![c].pc = IF below = <<>> THEN "done" ELSE "lock",
                         ![c].wanted = Top(c).config]
        /\ UNCHANGED locks

\* A level returns client n; the level above dials through it.
Return(c, n) ==
    LET below == SubSeq(caller[c].chain, 1, Len(caller[c].chain) - 1)
    IN  /\ caller' = [caller EXCEPT ![c].chain = below, ![c].client = n, ![c].via = n,
                         ![c].pc = IF below = <<>> THEN "done" ELSE "lock",
                         ![c].wanted = Top(c).config]
        /\ Unlock(Top(c).host)

Connect(c, h) ==
    /\ At(c, "idle")
    /\ caller' = [caller EXCEPT ![c].pc = "resolve", ![c].asked = h, ![c].target = h]
    /\ UNCHANGED <<config, edits, clients, closed, locks, client, dials, cleaned,
                   reaped, dropping, drops>>

\* Jump hosts are resolved before any lock is taken; a cycle is an error.
Resolve(c) ==
    LET h == caller[c].target
        seen == {caller[c].chain[i].host : i \in DOMAIN caller[c].chain}
    IN  /\ At(c, "resolve")
        /\ IF h \in seen
             THEN Goto(c, "failed")
             ELSE caller' = [caller EXCEPT
                    ![c].chain = Append(@, [host |-> h, config |-> config[h]]),
                    ![c].target = config[h].jump,
                    ![c].pc = IF config[h].jump = NoHost THEN "lock" ELSE "resolve"]
        /\ UNCHANGED <<config, edits, clients, closed, locks, client, dials,
                       cleaned, reaped, dropping, drops>>

\* The context is cancelled, or a host is missing or invalid.
ResolveFails(c) ==
    /\ At(c, "resolve")
    /\ Goto(c, "failed")
    /\ UNCHANGED <<config, edits, clients, closed, locks, client, dials, cleaned,
                   reaped, dropping, drops>>

Lock(c) ==
    /\ At(c, "lock")
    /\ locks[Top(c).host] = NoCaller
    /\ locks' = [locks EXCEPT ![Top(c).host] = c]
    /\ Goto(c, "check")
    /\ UNCHANGED <<config, edits, clients, closed, client, dials, cleaned,
                   reaped, dropping, drops>>

Usable(c, n) == n # NoClient /\ client[n].config = Top(c).config

Check(c) ==
    LET n == clients[Top(c).host]
    IN  /\ At(c, "check")
        /\ IF closed THEN Fail(c)
           ELSE IF Usable(c, n) THEN Return(c, n)
           ELSE Goto(c, IF n = NoClient THEN "dial" ELSE "replace") /\ UNCHANGED locks
        /\ UNCHANGED <<config, edits, clients, closed, client, dials, cleaned,
                       reaped, dropping, drops>>

\* Disconnect takes out whatever is cached now, then closes it.
Take(h) ==
    /\ clients' = [clients EXCEPT ![h] = NoClient]
    /\ dropping' = dropping \cup ({clients[h]} \ {NoClient})

Replace(c) ==
    /\ At(c, "replace")
    /\ Take(Top(c).host)
    /\ caller' = [caller EXCEPT ![c].pc = "drop", ![c].client = clients[Top(c).host]]
    /\ UNCHANGED <<config, edits, closed, locks, client, dials, cleaned, reaped, drops>>

Replaced(c) ==
    /\ At(c, "drop") /\ caller[c].client \notin dropping
    /\ Goto(c, "dial")
    /\ UNCHANGED <<config, edits, clients, closed, locks, client, dials, cleaned,
                   reaped, dropping, drops>>

Dial(c) ==
    /\ At(c, "dial") /\ dials < MaxDials
    /\ caller[c].via # NoClient => client[caller[c].via].alive
    /\ dials' = dials + 1
    /\ client' = Append(client, [host |-> Top(c).host, config |-> Top(c).config,
                                 via |-> caller[c].via, alive |-> TRUE])
    /\ caller' = [caller EXCEPT ![c].pc = "publish", ![c].client = dials + 1]
    /\ UNCHANGED <<config, edits, clients, closed, locks, cleaned, reaped,
                   dropping, drops>>

DialFails(c) ==
    /\ At(c, "dial")
    /\ Fail(c)
    /\ UNCHANGED <<config, edits, clients, closed, client, dials, cleaned,
                   reaped, dropping, drops>>

\* Mutant: the exit is not looked at again after the handshake.
PublishAlways(c) ==
    LET n == caller[c].client
    IN  /\ At(c, "publish")
        /\ clients' = [clients EXCEPT ![Top(c).host] = n] /\ Return(c, n)
        /\ UNCHANGED <<config, edits, closed, client, dials, cleaned, reaped,
                       dropping, drops>>

Publish(c) ==
    LET n == caller[c].client
    IN  /\ At(c, "publish")
        /\ IF closed
             THEN /\ client' = [client EXCEPT ![n].alive = FALSE]
                  /\ cleaned' = [cleaned EXCEPT ![n] = @ + 1]
                  /\ reaped' = reaped \cup {n}
                  /\ Fail(c) /\ UNCHANGED clients
             ELSE /\ clients' = [clients EXCEPT ![Top(c).host] = n]
                  /\ Return(c, n) /\ UNCHANGED <<client, cleaned, reaped>>
        /\ UNCHANGED <<config, edits, closed, dials, dropping, drops>>

-----------------------------------------------------------------------------
(* Around connect                                                          *)

\* A client that was taken out of the map is closed and cleaned up.
Drop(n) ==
    /\ n \in dropping
    /\ dropping' = dropping \ {n}
    /\ client' = [client EXCEPT ![n].alive = FALSE]
    /\ cleaned' = [cleaned EXCEPT ![n] = @ + 1]
    /\ UNCHANGED <<config, edits, clients, closed, locks, dials, reaped, caller, drops>>

\* The connection breaks, or that of its jump host did.
Breaks(n) ==
    /\ n <= dials /\ client[n].alive
    /\ LET lostJump == client[n].via # NoClient /\ ~client[client[n].via].alive
       IN  (lostJump \/ drops < MaxDrops) /\ drops' = IF lostJump THEN drops ELSE drops + 1
    /\ client' = [client EXCEPT ![n].alive = FALSE]
    /\ UNCHANGED <<config, edits, clients, closed, locks, dials, cleaned, reaped,
                   dropping, caller>>

Published(n) == \A c \in Callers : ~(At(c, "publish") /\ caller[c].client = n)

\* The goroutine behind Wait of a published client.
WaitReturns(n) ==
    /\ n <= dials /\ ~client[n].alive /\ n \notin reaped /\ Published(n)
    /\ reaped' = reaped \cup {n}
    /\ IF clients[client[n].host] = n
         THEN /\ clients' = [clients EXCEPT ![client[n].host] = NoClient]
              /\ cleaned' = [cleaned EXCEPT ![n] = @ + 1]
         ELSE UNCHANGED <<clients, cleaned>>
    /\ UNCHANGED <<config, edits, closed, locks, client, dials, dropping, caller, drops>>

Disconnect(h) ==
    /\ drops < MaxDrops /\ clients[h] # NoClient
    /\ drops' = drops + 1
    /\ Take(h)
    /\ UNCHANGED <<config, edits, closed, locks, client, dials, cleaned, reaped, caller>>

EditHost(h, jump) ==
    /\ edits < MaxEdits
    /\ edits' = edits + 1
    /\ config' = [config EXCEPT ![h] = [version |-> edits + 1, jump |-> jump]]
    /\ UNCHANGED <<clients, closed, locks, client, dials, cleaned, reaped,
                   dropping, caller, drops>>

Close ==
    /\ ~closed
    /\ closed' = TRUE
    /\ dropping' = dropping \cup ({clients[h] : h \in Hosts} \ {NoClient})
    /\ clients' = [h \in Hosts |-> NoClient]
    /\ UNCHANGED <<config, edits, locks, client, dials, cleaned, reaped, caller, drops>>

-----------------------------------------------------------------------------
Step(c) ==
    \/ Resolve(c) \/ ResolveFails(c) \/ Lock(c) \/ Check(c) \/ Replace(c)
    \/ Replaced(c) \/ Dial(c) \/ DialFails(c) \/ Publish(c)

Next ==
    \/ \E c \in Callers : Step(c) \/ \E h \in Hosts : Connect(c, h)
    \/ \E n \in Client : Drop(n) \/ Breaks(n) \/ WaitReturns(n)
    \/ \E h \in Hosts : Disconnect(h) \/ \E j \in Hosts \cup {NoHost} : EditHost(h, j)
    \/ Close

Spec == Init /\ [][Next]_vars

(***************************************************************************)
(* Fairness: goroutines run.  A dial need not end: through a jump host it  *)
(* has no timeout, because a channel takes no deadline, and the prompt for *)
(* a password stays open until the user answers it or the caller gives up. *)
(* To close a client that was dialled through a jump host is to send a     *)
(* message through it, which need not end either; others close a socket.   *)
(***************************************************************************)
Hangs(c) ==
    \/ At(c, "dial")
    \/ At(c, "drop") /\ caller[c].client \in dropping /\ client[caller[c].client].via # NoClient
    \/ At(c, "publish") /\ closed /\ client[caller[c].client].via # NoClient
Walks(c) == ~Hangs(c) /\ Step(c)
ClosesSocket(n) == Drop(n) /\ client[n].via = NoClient

FairSpec == /\ Spec
            /\ \A c \in Callers : WF_vars(Walks(c))
            /\ \A n \in Client : WF_vars(ClosesSocket(n)) /\ WF_vars(WaitReturns(n))

-----------------------------------------------------------------------------
(* Properties                                                              *)

\* The cleanup of a client (it closes the socket of the SSH agent) runs at
\* most once, and a client that left the map is cleaned up or about to be:
\* no connection is forgotten, whoever races with whom.
CleanedOnce ==
    \A n \in 1..dials :
        /\ cleaned[n] <= 1
        /\ Published(n) =>
             \/ cleaned[n] = 0 /\ clients[client[n].host] = n /\ n \notin dropping
             \/ cleaned[n] = 0 /\ clients[client[n].host] # n /\ n \in dropping
             \/ cleaned[n] = 1 /\ clients[client[n].host] # n /\ n \notin dropping

\* After Close no client is ever published, and nothing stays open but what
\* is about to be closed.
ClosedForGood ==
    closed => \A h \in Hosts : clients[h] = NoClient

\* Connect returns a client of the host it was asked for, made from the
\* configuration it loaded.
RightServer ==
    \A c \in Callers : At(c, "done") =>
        /\ client[caller[c].client].host = caller[c].asked
        /\ client[caller[c].client].config = caller[c].wanted

\* Every client serves the host and the configuration it was asked for, is
\* closed once, and none is kept after Close.
ClientsAreRight == TypeOK /\ CleanedOnce /\ ClosedForGood /\ RightServer

Returned(c) == caller[c].pc \in {"idle", "done", "failed"}

\* A call hangs, or it waits for the lock of a host that such a call holds.
Stuck(c) ==
    \/ Hangs(c)
    \/ At(c, "lock") /\ \E d \in Callers : locks[Top(c).host] = d /\ Hangs(d)

\* Every call of Connect returns, unless it hangs itself or stands directly
\* behind one that does: jump hosts, cycles and edits in between never make two
\* calls wait for each other, and nobody who waits for a lock holds another.  A
\* client that broke leaves the map.  (A call that returned is over, and a
\* client that left the map does not come back: what holds again and again
\* holds for each of them.)
ConnectionsSettle ==
    []<>( /\ \A c \in Callers : Returned(c) \/ Stuck(c)
          /\ \A h \in Hosts : clients[h] # NoClient => client[clients[h]].alive )
=============================================================================
