------------------------------- MODULE Tunnel -------------------------------
(***************************************************************************)
(* A port forwarding (internal/remote/tunnels.go, opened from the dialog   *)
(* of internal/ui/app.go): a listener and one of the connections it        *)
(* accepts, with the two goroutines that copy between a client and a       *)
(* server.  Each of these may end its half, leave, or take nothing; the    *)
(* forwarding is stopped at any time.  (Connections meet only in its end.) *)
(*                                                                         *)
(* Which end is behind SSH (local, remote) makes no difference here.  The  *)
(* connections of a dynamic forwarding are those of the socks5 library.    *)
(***************************************************************************)
EXTENDS Naturals

CONSTANT MaxSent  \* bound on what an end of the connection sends

ASSUME TunnelAssumption == MaxSent \in Nat

VARIABLES
    tunnel,  \* "open", "cancelled" (Close has begun), "closed"
    pair,    \* control points of main and up; whether conn and out are open;
             \* what the server has been told of the end: "half" or "closed"
    peer,    \* per end: what it has sent, whether it has ended
    got      \* per end: what has reached it

tunnelVars == <<tunnel, pair, peer, got>>

Sides == {"client", "server"}
Other(e) == CHOOSE d \in Sides : d # e
Stopped == tunnel # "open"
BothOpen == pair.conn /\ pair.out

TunnelTypeOK ==
    /\ tunnel \in {"open", "cancelled", "closed"}
    /\ pair \in [main : {"new", "dial", "copy", "close", "wait", "done"},
                 up : {"none", "copy", "half", "done"},
                 conn : BOOLEAN, out : BOOLEAN, told : {"nothing", "half", "closed"}]
    /\ peer \in [Sides -> [sent : 0..MaxSent, state : {"on", "ended", "gone"}]]
    /\ got \in [Sides -> 0..MaxSent]

TunnelInit ==
    /\ tunnel = "open"
    /\ pair = [main |-> "new", up |-> "none", conn |-> FALSE, out |-> FALSE, told |-> "nothing"]
    /\ peer = [e \in Sides |-> [sent |-> 0, state |-> "on"]]
    /\ got = [e \in Sides |-> 0]

Pair(p) == pair' = p /\ UNCHANGED <<tunnel, peer, got>>
Closed(p) == [p EXCEPT !.conn = FALSE, !.out = FALSE,
                       !.told = IF p.out /\ @ = "nothing" THEN "closed" ELSE @]

\* Tunnel.Close: by the user, after the context, or when Accept fails.
Stop == tunnel = "open" /\ tunnel' = "cancelled" /\ UNCHANGED <<pair, peer, got>>
CloseListener == tunnel = "cancelled" /\ tunnel' = "closed" /\ UNCHANGED <<pair, peer, got>>

PeerActs(e) ==
    /\ pair.main # "new"
    /\ \/ peer[e].state = "on" /\ peer[e].sent < MaxSent /\ peer' = [peer EXCEPT ![e].sent = @ + 1]
       \/ peer[e].state = "on" /\ peer' = [peer EXCEPT ![e].state = "ended"]
       \/ peer[e].state # "gone" /\ peer' = [peer EXCEPT ![e].state = "gone"]
    /\ UNCHANGED <<tunnel, pair, got>>

Accept ==
    /\ tunnel # "closed" /\ pair.main = "new"
    /\ Pair([pair EXCEPT !.main = "dial", !.conn = TRUE])
Answers == pair.main = "dial" /\ Pair([pair EXCEPT !.main = "copy", !.up = "copy", !.out = TRUE])
Refuses == pair.main = "dial" /\ Pair([Closed(pair) EXCEPT !.main = "done"])

\* io.Copy towards the end e.  It ends at the end of the data, when a handle is
\* closed, or, perhaps with data left, when one of the two peers has gone.
Rest(e) == peer[Other(e)].sent - got[e]
CopyTo(e) ==
    /\ BothOpen /\ Rest(e) > 0 /\ peer[e].state # "gone"
    /\ got' = [got EXCEPT ![e] = @ + 1]
    /\ UNCHANGED <<tunnel, pair, peer>>
CopyEnds(e) ==
    \/ ~BothOpen
    \/ Rest(e) = 0 /\ peer[Other(e)].state = "ended"
    \/ peer[Other(e)].state = "gone"
    \/ Rest(e) > 0 /\ peer[e].state = "gone"

\* Mutant: the whole connection is closed where its half should be.
CloseOut(p) == [p EXCEPT !.out = FALSE, !.told = "closed"]

CloseWrite(p) == IF p.out THEN [p EXCEPT !.told = "half"] ELSE p

\* The goroutine from the client to the server hands on the end of the data.
UpCopies == pair.up = "copy" /\ CopyTo("server")
UpEnds == pair.up = "copy" /\ CopyEnds("server") /\ Pair([pair EXCEPT !.up = "half"])
UpHalf == pair.up = "half" /\ Pair([CloseWrite(pair) EXCEPT !.up = "done"])

\* The other one closes both, and waits for it.
DownCopies == pair.main = "copy" /\ CopyTo("client")
DownEnds == pair.main = "copy" /\ CopyEnds("client") /\ Pair([pair EXCEPT !.main = "close"])
CloseHandles == pair.main = "close" /\ Pair([Closed(pair) EXCEPT !.main = "wait"])
PairReturns == pair.main = "wait" /\ pair.up = "done" /\ Pair([pair EXCEPT !.main = "done"])

\* Mutant: the connections outlive the forwarding.
AfterFuncNever == FALSE /\ UNCHANGED tunnelVars

\* context.AfterFunc
AfterFunc == Stopped /\ pair.main \in {"copy", "close", "wait"} /\ Pair(Closed(pair))

TunnelNext ==
    \/ Stop \/ CloseListener \/ (\E e \in Sides : PeerActs(e))
    \/ Accept \/ Answers \/ Refuses \/ UpCopies \/ UpEnds \/ UpHalf
    \/ DownCopies \/ DownEnds \/ CloseHandles \/ PairReturns \/ AfterFunc

TunnelSpec == TunnelInit /\ [][TunnelNext]_tunnelVars

\* A dial ends with its context; a copy may wait for its peers for ever, but a
\* closed handle ends it.
MainEnds == (DownEnds /\ ~BothOpen) \/ (Refuses /\ Stopped) \/ CloseHandles \/ PairReturns
UpIsOver == (UpEnds /\ ~BothOpen) \/ UpHalf

FairTunnelSpec ==
    /\ TunnelSpec
    /\ WF_tunnelVars(CloseListener) /\ WF_tunnelVars(AfterFunc)
    /\ WF_tunnelVars(MainEnds) /\ WF_tunnelVars(UpIsOver)

-----------------------------------------------------------------------------
\* As long as nobody stops the forwarding: a client that stays gets all of what
\* a server that stays has sent before the connection is closed, although it
\* has ended its own half; and the server learns of an end that was that of
\* the client only when it has all the client has sent.
TunnelDelivers ==
    /\ TunnelTypeOK
    /\ ~Stopped /\ (\A e \in Sides : peer[e].state # "gone") =>
         /\ pair.up # "none" /\ ~BothOpen =>
              peer["server"].state = "ended" /\ got["client"] = peer["server"].sent
         /\ pair.told = "half" /\ peer["server"].state = "on" =>
              peer["client"].state = "ended" /\ got["server"] = peer["client"].sent

\* Nothing of a forwarding that was stopped stays: neither its listener, nor a
\* connection, nor a goroutine, whatever the two ends do.
TunnelEnds ==
    []<>(Stopped => tunnel = "closed" /\ pair.main \in {"new", "done"} /\ ~pair.conn /\ ~pair.out)
=============================================================================
