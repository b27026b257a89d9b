-------------------------- MODULE ConnectionProofs --------------------------
(***************************************************************************)
(* The connection manager, for every set of hosts and callers and every    *)
(* number of edits, dials and breaks: what a caller that has walked down   *)
(* its chain of jump hosts holds, which client it may touch without the    *)
(* lock of Manager.mu, and why no client is cleaned up twice.  In the      *)
(* second part, the two goroutines of a forwarded connection, for every    *)
(* amount of data: what their control points imply while nobody has        *)
(* stopped the forwarding and both ends stay.  In the third part, who owns *)
(* the terminals that connections carry on the desktop.                    *)
(***************************************************************************)
EXTENDS ConnectionManager, Tunnel, Workspaces, FiniteSetTheorems, SequenceTheorems, TLAPS

Held == {"check", "replace", "drop", "dial", "publish"}

\* The levels of a call: the first is the host that was asked for.
LevelsInv(c) ==
    /\ caller[c].pc \in Held \cup {"lock"} => caller[c].chain # <<>>
    /\ caller[c].chain # <<>> => caller[c].chain[1].host = caller[c].asked
    /\ At(c, "idle") => caller[c].chain = <<>>
    /\ At(c, "resolve") =>
         caller[c].target \in Hosts /\ (caller[c].chain = <<>> => caller[c].target = caller[c].asked)

\* A call holds the lock of its innermost host from its check to its return,
\* so nobody else publishes a client of that host while it makes one.
HoldsInv(c) ==
    /\ caller[c].pc \in Held => locks[Top(c).host] = c
    /\ caller[c].pc \in {"drop", "dial", "publish"} => clients[Top(c).host] = NoClient

\* A client that is not published yet belongs to the call that made it.
NewInv(c) ==
    At(c, "publish") =>
        LET n == caller[c].client
        IN  /\ n \in 1..dials /\ client[n].host = Top(c).host /\ client[n].config = Top(c).config
            /\ cleaned[n] = 0 /\ n \notin dropping

\* RightServer, for one call.
DoneInv(c) ==
    At(c, "done") =>
        LET n == caller[c].client
        IN  n \in 1..dials /\ client[n].host = caller[c].asked /\ client[n].config = caller[c].wanted

CallerInv(c) == LevelsInv(c) /\ HoldsInv(c) /\ NewInv(c) /\ DoneInv(c)

\* A cached client is one of its host.
ClientInv ==
    /\ \A h \in Hosts : clients[h] # NoClient => clients[h] \in 1..dials /\ client[clients[h]].host = h
    /\ dropping \subseteq 1..dials
    /\ \A n \in Client : n > dials => cleaned[n] = 0

Inv == /\ TypeOK /\ ClientInv /\ CleanedOnce /\ ClosedForGood
       /\ \A c \in Callers : CallerInv(c)

-----------------------------------------------------------------------------
LEMMA Below ==
    ASSUME NEW chain \in Seq(Level), chain # <<>>
    PROVE  LET below == SubSeq(chain, 1, Len(chain) - 1)
           IN  /\ below \in Seq(Level) /\ Len(below) = Len(chain) - 1
               /\ below # <<>> => below[1] = chain[1]
               /\ below = <<>> => chain[Len(chain)] = chain[1]
               /\ chain[Len(chain)] \in Level
  <1> DEFINE m == Len(chain) - 1
             below == SubSeq(chain, 1, m)
  <1>1. Len(chain) \in Nat \ {0} /\ m \in Nat
    BY EmptySeq
  <1>2. \A i \in 1..Len(chain) : chain[i] \in Level
    BY ElementOfSeq
  <1>3. \A i \in 1..m : chain[i] \in Level
    BY <1>1, <1>2
  <1>4. m \in Int /\ 1 \in Int
    BY <1>1
  <1>5. /\ below \in Seq(Level)
        /\ Len(below) = IF 1 <= m THEN m - 1 + 1 ELSE 0
        /\ \A i \in 1..m - 1 + 1 : below[i] = chain[1 + i - 1]
    <2> HIDE DEF m
    <2>1. QED
      BY <1>3, <1>4, SubSeqProperties
  <1> HIDE DEF m, below
  <1>6. Len(below) = m
    BY <1>1, <1>5
  <1>7. ASSUME below # <<>> PROVE below[1] = chain[1]
    <2>1. m # 0
      BY <1>5, <1>6, <1>7, EmptySeq
    <2>2. QED
      BY <1>1, <1>5, <2>1
  <1>8. ASSUME below = <<>> PROVE chain[Len(chain)] = chain[1]
    <2>1. m = 0
      BY <1>6, <1>8, EmptySeq
    <2>2. QED
      BY <1>1, <2>1 DEF m
  <1>9. chain[Len(chain)] \in Level
    BY <1>1, <1>2
  <1>10. QED
    BY <1>5, <1>6, <1>7, <1>8, <1>9 DEF m, below

LEMMA Above ==
    ASSUME NEW chain \in Seq(Level), NEW l \in Level
    PROVE  LET above == Append(chain, l)
           IN  /\ above \in Seq(Level) /\ above # <<>>
               /\ above[1] = IF chain = <<>> THEN l ELSE chain[1]
               /\ above[Len(above)] = l
BY AppendProperties, EmptySeq

LEMMA SetCall ==
    ASSUME caller \in [Callers -> Call], NEW c \in Callers, NEW x \in Call,
           caller' = [caller EXCEPT ![c] = x]
    PROVE  /\ caller' \in [Callers -> Call] /\ caller'[c] = x
           /\ \A d \in Callers \ {c} : caller'[d] = caller[d]
OBVIOUS

LEMMA CallFields ==
    ASSUME NEW x \in Call
    PROVE  /\ x.chain \in Seq(Level) /\ x.asked \in Hosts \cup {NoHost} /\ x.target \in Hosts \cup {NoHost}
           /\ x.via \in Client \cup {NoClient} /\ x.client \in Client \cup {NoClient} /\ x.wanted \in Config
BY DEF Call

\* What each step makes of its call.
ReturnOf(x, n) ==
    LET below == SubSeq(x.chain, 1, Len(x.chain) - 1)
    IN  [x EXCEPT !.chain = below, !.client = n, !.via = n,
                  !.pc = IF below = <<>> THEN "done" ELSE "lock",
                  !.wanted = x.chain[Len(x.chain)].config]

PointType == {"idle", "resolve", "lock", "check", "replace", "drop", "dial", "publish", "done", "failed"}

LEMMA GotoCall ==
    ASSUME caller \in [Callers -> Call], NEW c \in Callers, NEW p \in PointType, Goto(c, p)
    PROVE  /\ caller' = [caller EXCEPT ![c] = [caller[c] EXCEPT !.pc = p]]
           /\ [caller[c] EXCEPT !.pc = p] \in Call
BY DEF Goto, Call, PointType

LEMMA ReturnCall ==
    ASSUME caller \in [Callers -> Call], NEW c \in Callers, NEW n \in Client, Return(c, n),
           caller[c].chain # <<>>
    PROVE  /\ caller' = [caller EXCEPT ![c] = ReturnOf(caller[c], n)]
           /\ ReturnOf(caller[c], n) \in Call
<1>1. Top(c) \in Level /\ SubSeq(caller[c].chain, 1, Len(caller[c].chain) - 1) \in Seq(Level)
  BY CallFields, Below DEF Top
<1>2. caller[c] \in Call
  OBVIOUS
<1>3. ReturnOf(caller[c], n) \in Call
  BY <1>1, <1>2 DEF ReturnOf, Call, Level, Top
<1>4. caller' = [caller EXCEPT ![c] = ReturnOf(caller[c], n)]
  BY DEF Return, ReturnOf, Top
<1>5. QED
  BY <1>3, <1>4


-----------------------------------------------------------------------------
\* What a step may do without disturbing the call of d.
LEMMA Undisturbed ==
    ASSUME NEW d \in Callers, CallerInv(d), caller'[d] = caller[d],
           caller[d].pc \in Held => locks'[Top(d).host] = d,
           caller[d].pc \in {"drop", "dial", "publish"} => clients'[Top(d).host] = NoClient,
           dials \in Nat, dials' \in Nat, dials <= dials',
           \A n \in 1..dials : client'[n].host = client[n].host /\ client'[n].config = client[n].config,
           At(d, "publish") => cleaned'[caller[d].client] = 0 /\ caller[d].client \notin dropping'
    PROVE  CallerInv(d)'
<1>1. LevelsInv(d)'
  BY DEF CallerInv, LevelsInv, At
<1>2. HoldsInv(d)'
  BY DEF CallerInv, HoldsInv, Top
<1>3. NewInv(d)'
  BY DEF CallerInv, NewInv, Top, At
<1>4. DoneInv(d)'
  BY DEF CallerInv, DoneInv, At
<1>5. QED
  BY <1>1, <1>2, <1>3, <1>4 DEF CallerInv

\* Two calls that hold a lock are at different hosts.
LEMMA Apart ==
    ASSUME NEW c \in Callers, NEW d \in Callers, c # d, HoldsInv(c), HoldsInv(d),
           caller[c].pc \in Held, caller[d].pc \in Held
    PROVE  Top(c).host # Top(d).host
BY DEF HoldsInv

LEMMA TopLevel ==
    ASSUME TypeOK, NEW c \in Callers, LevelsInv(c), caller[c].pc \in Held \cup {"lock"}
    PROVE  /\ caller[c] \in Call /\ caller[c].chain \in Seq(Level) /\ caller[c].chain # <<>>
           /\ Top(c) \in Level /\ Top(c).host \in Hosts /\ Top(c).config \in Config
<1>1. caller[c] \in Call
  BY DEF TypeOK
<1>2. caller[c].chain \in Seq(Level) /\ caller[c].chain # <<>>
  BY <1>1, CallFields DEF LevelsInv
<1>3. Top(c) \in Level
  BY <1>2, Below DEF Top
<1>4. QED
  BY <1>1, <1>2, <1>3 DEF Level

LEMMA SamePublished ==
    ASSUME NEW c \in Callers, ~At(c, "publish"), ~At(c, "publish")',
           \A d \in Callers \ {c} : caller'[d] = caller[d], NEW n
    PROVE  Published(n)' <=> Published(n)
BY DEF Published, At

\* A step that leaves the clients alone.
LEMMA ClientsKept ==
    ASSUME Inv, UNCHANGED <<clients, closed, client, dials, cleaned, dropping>>,
           \A n \in 1..dials : Published(n)' => Published(n)
    PROVE  ClientInv' /\ CleanedOnce' /\ ClosedForGood'
<1>1. ClientInv'
  BY DEF Inv, ClientInv
<1>2. CleanedOnce'
  BY DEF Inv, CleanedOnce
<1>3. ClosedForGood'
  BY DEF Inv, ClosedForGood
<1>4. QED
  BY <1>1, <1>2, <1>3

\* A step of c that only moves its call, and may lock or unlock a host.
LEMMA CallMoves ==
    ASSUME Inv, NEW c \in Callers, NEW x \in Call, caller' = [caller EXCEPT ![c] = x],
           ~At(c, "publish"), x.pc # "publish",
           UNCHANGED <<config, edits, clients, closed, client, dials, cleaned, reaped,
                       dropping, drops>>,
           locks' \in [Hosts -> Callers \cup {NoCaller}],
           \A d \in Callers \ {c} : caller[d].pc \in Held => locks'[Top(d).host] = d,
           CallerInv(c)'
    PROVE  Inv'
<1>1. /\ caller' \in [Callers -> Call] /\ caller'[c] = x
      /\ \A d \in Callers \ {c} : caller'[d] = caller[d]
  BY SetCall DEF Inv, TypeOK
<1>2. TypeOK'
  BY <1>1 DEF Inv, TypeOK
<1>3. \A n : Published(n)' <=> Published(n)
  BY <1>1, SamePublished DEF At
<1>4. ClientInv' /\ CleanedOnce' /\ ClosedForGood'
  BY <1>3, ClientsKept
<1>5. ASSUME NEW d \in Callers \ {c} PROVE CallerInv(d)'
  <2>1. CallerInv(d) /\ dials \in Nat
    BY DEF Inv, TypeOK
  <2>2. caller[d].pc \in {"drop", "dial", "publish"} => clients[Top(d).host] = NoClient
    BY <2>1 DEF CallerInv, HoldsInv
  <2>3. At(d, "publish") => cleaned[caller[d].client] = 0 /\ caller[d].client \notin dropping
    BY <2>1 DEF CallerInv, NewInv
  <2>4. QED
    BY <1>1, <2>1, <2>2, <2>3, Undisturbed
<1>6. QED
  BY <1>2, <1>4, <1>5 DEF Inv

LEMMA UnlockKeeps ==
    ASSUME Inv, NEW c \in Callers, caller[c].pc \in Held, Unlock(Top(c).host)
    PROVE  /\ locks' \in [Hosts -> Callers \cup {NoCaller}]
           /\ \A d \in Callers \ {c} : caller[d].pc \in Held => locks'[Top(d).host] = d
<1>1. LevelsInv(c) /\ TypeOK
  BY DEF Inv, CallerInv
<1>2. Top(c).host \in Hosts
  BY <1>1, TopLevel
<1>3. ASSUME NEW d \in Callers \ {c}, caller[d].pc \in Held PROVE locks'[Top(d).host] = d
  <2>1. HoldsInv(c) /\ HoldsInv(d) /\ LevelsInv(d)
    BY DEF Inv, CallerInv
  <2>2. Top(c).host # Top(d).host
    BY <1>3, <2>1, Apart
  <2>3. Top(d).host \in Hosts
    BY <1>1, <1>3, <2>1, TopLevel
  <2>4. QED
    BY <1>1, <1>2, <1>3, <2>1, <2>2, <2>3 DEF Unlock, HoldsInv, TypeOK
<1>4. QED
  BY <1>1, <1>2, <1>3 DEF Unlock, TypeOK

\* What is left to show of a call that left its lock with an error.
LEMMA FailedCall ==
    ASSUME NEW c \in Callers, caller[c] \in Call, caller[c].chain # <<>>, LevelsInv(c),
           caller'[c] = [caller[c] EXCEPT !.pc = "failed"]
    PROVE  CallerInv(c)'
<1>1. caller'[c].pc = "failed" /\ caller'[c].chain = caller[c].chain /\ caller'[c].asked = caller[c].asked
  BY DEF Call
<1>2. LevelsInv(c)'
  BY <1>1 DEF LevelsInv, At, Held
<1>3. HoldsInv(c)' /\ NewInv(c)' /\ DoneInv(c)'
  BY <1>1 DEF HoldsInv, NewInv, DoneInv, At, Held
<1>4. QED
  BY <1>2, <1>3 DEF CallerInv

\* A level that returns a client of its host and configuration.
LEMMA ReturnedCall ==
    ASSUME TypeOK, NEW c \in Callers, LevelsInv(c), caller[c].pc \in Held,
           NEW n \in 1..dials, client'[n].host = Top(c).host, client'[n].config = Top(c).config,
           dials' = dials, caller'[c] = ReturnOf(caller[c], n)
    PROVE  CallerInv(c)' /\ caller'[c].pc \in {"done", "lock"}
<1> DEFINE below == SubSeq(caller[c].chain, 1, Len(caller[c].chain) - 1)
<1>1. caller[c] \in Call /\ caller[c].chain \in Seq(Level) /\ caller[c].chain # <<>>
  BY TopLevel
<1>2. /\ caller'[c].chain = below /\ caller'[c].client = n /\ caller'[c].asked = caller[c].asked
      /\ caller'[c].wanted = Top(c).config
      /\ caller'[c].pc = IF below = <<>> THEN "done" ELSE "lock"
  BY <1>1 DEF ReturnOf, Call, Top
<1>3. /\ below # <<>> => below[1] = caller[c].chain[1]
      /\ below = <<>> => Top(c) = caller[c].chain[1]
  BY <1>1, Below DEF Top
<1> HIDE DEF below
<1>4. LevelsInv(c)'
  BY <1>1, <1>2, <1>3 DEF LevelsInv, At, Held
<1>5. HoldsInv(c)' /\ NewInv(c)'
  BY <1>2 DEF HoldsInv, NewInv, At, Held
<1>6. DoneInv(c)'
  BY <1>1, <1>2, <1>3 DEF DoneInv, At, LevelsInv, Held
<1>7. QED
  BY <1>2, <1>4, <1>5, <1>6 DEF CallerInv

-----------------------------------------------------------------------------
(* Clients that are closed, and clients taken out of the map               *)

\* One client is closed; nothing else of it changes, nor of another.
Closes(n) ==
    /\ client' \in [1..dials -> ClientState]
    /\ \A m \in 1..dials : client'[m].host = client[m].host /\ client'[m].config = client[m].config

LEMMA ClosesOne ==
    ASSUME TypeOK, NEW n \in 1..dials, client' = [client EXCEPT ![n].alive = FALSE]
    PROVE  Closes(n)
<1> DEFINE x == [client[n] EXCEPT !.alive = FALSE]
<1>1. client \in [1..dials -> ClientState] /\ client[n] \in ClientState
  BY DEF TypeOK
<1>2. client' = [client EXCEPT ![n] = x]
  OBVIOUS
<1>3. x \in ClientState /\ x.host = client[n].host /\ x.config = client[n].config
  BY <1>1 DEF ClientState
<1> HIDE DEF x
<1>4. QED
  BY <1>1, <1>2, <1>3 DEF Closes

\* What Take makes of the client of a host.
Taken(h) ==
    /\ clients' = [clients EXCEPT ![h] = NoClient]
    /\ dropping' = dropping \cup ({clients[h]} \ {NoClient})

LEMMA TakeKeeps ==
    ASSUME Inv, TypeOK', NEW h \in Hosts, Taken(h), UNCHANGED <<closed, client, dials, cleaned>>,
           \A n : Published(n)' <=> Published(n)
    PROVE  ClientInv' /\ CleanedOnce' /\ ClosedForGood'
<1>1. TypeOK /\ ClientInv /\ CleanedOnce /\ ClosedForGood
  BY DEF Inv
<1>2. clients'[h] = NoClient /\ \A g \in Hosts \ {h} : clients'[g] = clients[g]
  BY <1>1 DEF Taken, TypeOK
<1>3. dropping' \subseteq 1..dials
  BY <1>1 DEF ClientInv, Taken
<1>4. ClientInv'
  BY <1>1, <1>2, <1>3 DEF ClientInv
<1>5. ClosedForGood'
  BY <1>1, <1>2 DEF ClosedForGood
<1>6. ASSUME NEW n \in 1..dials
      PROVE  \/ clients'[client[n].host] = n /\ clients[client[n].host] = n /\ (n \in dropping' <=> n \in dropping)
             \/ clients'[client[n].host] # n /\ clients[client[n].host] = n /\ n \in dropping'
             \/ /\ clients'[client[n].host] # n /\ clients[client[n].host] # n
                /\ n \in dropping' <=> n \in dropping
  <2>1. client[n].host \in Hosts /\ n # NoClient
    BY <1>1 DEF TypeOK, ClientState, NoClient
  <2>2. clients[h] = n => client[n].host = h
    BY <1>1, <2>1 DEF ClientInv
  <2>3. QED
    BY <1>2, <2>1, <2>2 DEF Taken
<1>7. CleanedOnce'
  BY <1>1, <1>6 DEF CleanedOnce
<1>8. QED
  BY <1>4, <1>5, <1>7

\* The other calls keep what they hold: a client they are about to publish is
\* not in the map yet.
LEMMA TakeLeavesCalls ==
    ASSUME Inv, NEW h \in Hosts, Taken(h), UNCHANGED <<locks, client, dials, cleaned>>,
           NEW d \in Callers, caller'[d] = caller[d]
    PROVE  CallerInv(d)'
<1>1. /\ TypeOK /\ CallerInv(d) /\ LevelsInv(d) /\ HoldsInv(d) /\ NewInv(d) /\ dials \in Nat
      /\ ClientInv
  BY DEF Inv, CallerInv, TypeOK
<1>2. caller[d].pc \in Held => Top(d).host \in Hosts /\ locks[Top(d).host] = d
  BY <1>1, TopLevel DEF HoldsInv
<1>3. caller[d].pc \in {"drop", "dial", "publish"} => clients'[Top(d).host] = NoClient
  BY <1>1, <1>2 DEF HoldsInv, Held, Taken, TypeOK
<1>4. ASSUME At(d, "publish")
      PROVE  cleaned[caller[d].client] = 0 /\ caller[d].client \notin dropping'
  <2>1. /\ caller[d].client \in 1..dials /\ client[caller[d].client].host = Top(d).host
        /\ cleaned[caller[d].client] = 0 /\ caller[d].client \notin dropping
        /\ clients[Top(d).host] = NoClient
    BY <1>1, <1>4 DEF NewInv, HoldsInv, At
  <2>2. caller[d].client # NoClient
    BY <1>1, <2>1 DEF NoClient
  <2>3. clients[h] # caller[d].client
    BY <1>1, <2>1, <2>2 DEF ClientInv
  <2>4. QED
    BY <2>1, <2>3 DEF Taken
<1>5. QED
  BY <1>1, <1>2, <1>3, <1>4, Undisturbed

-----------------------------------------------------------------------------
(* The steps of a call                                                     *)

LEMMA ConnectStep ==
    ASSUME Inv, NEW c \in Callers, NEW h \in Hosts, Connect(c, h)
    PROVE  Inv'
<1> DEFINE x == [caller[c] EXCEPT !.pc = "resolve", !.asked = h, !.target = h]
<1>1. caller[c] \in Call /\ caller \in [Callers -> Call] /\ LevelsInv(c) /\ TypeOK
  BY DEF Inv, TypeOK, CallerInv
<1>2. x \in Call /\ x.pc = "resolve" /\ x.asked = h /\ x.target = h /\ x.chain = caller[c].chain
  BY <1>1 DEF Call
<1>3. caller' = [caller EXCEPT ![c] = x]
  BY <1>1 DEF Connect
<1> HIDE DEF x
<1>4. caller'[c] = x
  BY <1>1, <1>3
<1>5. CallerInv(c)'
  BY <1>1, <1>2, <1>4 DEF CallerInv, LevelsInv, HoldsInv, NewInv, DoneInv, At, Held, Connect
<1>6. \A d \in Callers \ {c} : caller[d].pc \in Held => locks[Top(d).host] = d
  BY DEF Inv, CallerInv, HoldsInv
<1>7. QED
  BY <1>1, <1>2, <1>3, <1>5, <1>6, CallMoves DEF Connect, At, TypeOK

LEMMA ResolveStep ==
    ASSUME Inv, NEW c \in Callers, Resolve(c)
    PROVE  Inv'
<1> DEFINE h == caller[c].target
           l == [host |-> h, config |-> config[h]]
           above == Append(caller[c].chain, l)
           x == [caller[c] EXCEPT !.chain = above, !.target = config[h].jump,
                                  !.pc = IF config[h].jump = NoHost THEN "lock" ELSE "resolve"]
<1>1. caller[c] \in Call /\ caller \in [Callers -> Call] /\ LevelsInv(c) /\ TypeOK
  BY DEF Inv, TypeOK, CallerInv
<1>2. caller[c].chain \in Seq(Level) /\ At(c, "resolve") /\ h \in Hosts
  BY <1>1, CallFields DEF LevelsInv, Resolve
<1>3. l \in Level /\ config[h].jump \in Hosts \cup {NoHost} /\ l.host = h
  BY <1>1, <1>2 DEF TypeOK, Level, Config
<1> HIDE DEF l
<1>4. above \in Seq(Level) /\ above # <<>> /\ above[1] = IF caller[c].chain = <<>> THEN l ELSE caller[c].chain[1]
  BY <1>2, <1>3, Above
<1> HIDE DEF above
<1>5. \A d \in Callers \ {c} : caller[d].pc \in Held => locks[Top(d).host] = d
  BY DEF Inv, CallerInv, HoldsInv
<1>6. CASE h \in {caller[c].chain[i].host : i \in DOMAIN caller[c].chain}
  <2>1. Goto(c, "failed")
    BY <1>6 DEF Resolve
  <2>2. /\ caller' = [caller EXCEPT ![c] = [caller[c] EXCEPT !.pc = "failed"]]
        /\ [caller[c] EXCEPT !.pc = "failed"] \in Call
    BY <1>1, <2>1, GotoCall DEF PointType
  <2>3. /\ caller'[c] = [caller[c] EXCEPT !.pc = "failed"] /\ caller'[c].pc = "failed"
        /\ caller'[c].chain = caller[c].chain /\ caller'[c].asked = caller[c].asked
    BY <1>1, <2>2 DEF Call
  <2>4. CallerInv(c)'
    BY <1>1, <2>3 DEF CallerInv, LevelsInv, HoldsInv, NewInv, DoneInv, At, Held
  <2>5. [caller[c] EXCEPT !.pc = "failed"].pc # "publish"
    BY <2>3
  <2>6. QED
    BY <1>1, <1>2, <1>5, <2>2, <2>4, <2>5, CallMoves DEF Resolve, At, TypeOK
<1>7. CASE h \notin {caller[c].chain[i].host : i \in DOMAIN caller[c].chain}
  <2>1. caller' = [caller EXCEPT ![c] = x]
    BY <1>1, <1>7 DEF Resolve, l, above
  <2>2. /\ x \in Call /\ x.chain = above /\ x.target = config[h].jump /\ x.asked = caller[c].asked
        /\ x.pc = IF config[h].jump = NoHost THEN "lock" ELSE "resolve"
    BY <1>1, <1>3, <1>4 DEF Call
  <2> HIDE DEF x
  <2>3. caller'[c] = x
    BY <1>1, <2>1
  <2>4. CallerInv(c)'
    BY <1>1, <1>2, <1>3, <1>4, <2>2, <2>3
       DEF CallerInv, LevelsInv, HoldsInv, NewInv, DoneInv, At, Held
  <2>5. QED
    BY <1>1, <1>2, <1>5, <2>1, <2>2, <2>4, CallMoves DEF Resolve, At, TypeOK
<1>8. QED
  BY <1>6, <1>7

LEMMA ResolveFailsStep ==
    ASSUME Inv, NEW c \in Callers, ResolveFails(c)
    PROVE  Inv'
<1>1. caller[c] \in Call /\ caller \in [Callers -> Call] /\ LevelsInv(c) /\ TypeOK
  BY DEF Inv, TypeOK, CallerInv
<1>2. /\ caller' = [caller EXCEPT ![c] = [caller[c] EXCEPT !.pc = "failed"]]
      /\ [caller[c] EXCEPT !.pc = "failed"] \in Call
  BY <1>1, GotoCall DEF PointType, ResolveFails
<1>3. /\ caller'[c] = [caller[c] EXCEPT !.pc = "failed"] /\ caller'[c].pc = "failed"
      /\ caller'[c].chain = caller[c].chain /\ caller'[c].asked = caller[c].asked
  BY <1>1, <1>2 DEF Call
<1>4. CallerInv(c)'
  BY <1>1, <1>3 DEF CallerInv, LevelsInv, HoldsInv, NewInv, DoneInv, At, Held
<1>5. \A d \in Callers \ {c} : caller[d].pc \in Held => locks[Top(d).host] = d
  BY DEF Inv, CallerInv, HoldsInv
<1>6. [caller[c] EXCEPT !.pc = "failed"].pc # "publish"
  BY <1>3
<1>7. QED
  BY <1>1, <1>2, <1>4, <1>5, <1>6, CallMoves DEF ResolveFails, At, TypeOK

LEMMA LockStep ==
    ASSUME Inv, NEW c \in Callers, Lock(c)
    PROVE  Inv'
<1> DEFINE x == [caller[c] EXCEPT !.pc = "check"]
<1>1. caller[c] \in Call /\ caller \in [Callers -> Call] /\ LevelsInv(c) /\ TypeOK
  BY DEF Inv, TypeOK, CallerInv
<1>2. caller[c].pc = "lock" /\ Top(c).host \in Hosts /\ caller[c].chain # <<>>
  BY <1>1, TopLevel DEF Lock, At
<1>3. caller' = [caller EXCEPT ![c] = x] /\ x \in Call
  BY <1>1, GotoCall DEF PointType, Lock
<1>4. x.pc = "check" /\ x.chain = caller[c].chain /\ x.asked = caller[c].asked
  BY <1>1 DEF Call
<1> HIDE DEF x
<1>5. caller'[c] = x
  BY <1>1, <1>3
<1>6. Top(c)' = Top(c) /\ locks' = [locks EXCEPT ![Top(c).host] = c] /\ locks[Top(c).host] = NoCaller
  BY <1>4, <1>5 DEF Top, Lock
<1>7. locks' \in [Hosts -> Callers \cup {NoCaller}] /\ locks'[Top(c).host] = c
  BY <1>1, <1>2, <1>6 DEF TypeOK
<1>8. CallerInv(c)'
  BY <1>1, <1>2, <1>4, <1>5, <1>6, <1>7 DEF CallerInv, LevelsInv, HoldsInv, NewInv, DoneInv, At, Held
<1>9. ASSUME NEW d \in Callers \ {c}, caller[d].pc \in Held PROVE locks'[Top(d).host] = d
  <2>1. locks[Top(d).host] = d /\ LevelsInv(d)
    BY <1>9 DEF Inv, CallerInv, HoldsInv
  <2>2. Top(d).host \in Hosts
    BY <1>1, <1>9, <2>1, TopLevel
  <2>3. QED
    BY <1>1, <1>2, <1>6, <2>1, <2>2, ManagerAssumption DEF TypeOK
<1>10. QED
  BY <1>2, <1>3, <1>4, <1>7, <1>8, <1>9, CallMoves DEF Lock, At

LEMMA CheckStep ==
    ASSUME Inv, NEW c \in Callers, Check(c)
    PROVE  Inv'
<1> DEFINE n == clients[Top(c).host]
<1>1. /\ caller[c] \in Call /\ caller \in [Callers -> Call] /\ LevelsInv(c) /\ HoldsInv(c)
      /\ TypeOK /\ ClientInv
  BY DEF Inv, TypeOK, CallerInv
<1>2. caller[c].pc = "check" /\ Top(c).host \in Hosts /\ caller[c].chain # <<>> /\ caller[c].pc \in Held
  BY <1>1, TopLevel DEF Check, At, Held
<1>3. CASE closed
  <2>1. Goto(c, "failed") /\ Unlock(Top(c).host)
    BY <1>3 DEF Check, Fail
  <2>2. /\ caller' = [caller EXCEPT ![c] = [caller[c] EXCEPT !.pc = "failed"]]
        /\ [caller[c] EXCEPT !.pc = "failed"] \in Call
    BY <1>1, <2>1, GotoCall DEF PointType
  <2>3. caller'[c] = [caller[c] EXCEPT !.pc = "failed"] /\ [caller[c] EXCEPT !.pc = "failed"].pc = "failed"
    BY <1>1, <2>2 DEF Call
  <2>4. CallerInv(c)'
    BY <1>1, <1>2, <2>3, FailedCall
  <2>5. QED
    BY <1>2, <2>1, <2>2, <2>3, <2>4, UnlockKeeps, CallMoves DEF Check, At
<1>4. CASE ~closed /\ Usable(c, n)
  <2>1. Return(c, n)
    BY <1>4 DEF Check
  <2>2. n \in 1..dials /\ client[n].host = Top(c).host /\ client[n].config = Top(c).config
    BY <1>1, <1>2, <1>4 DEF ClientInv, Usable
  <2>3. n \in Client
    BY <1>1, <1>2, <1>4 DEF TypeOK, Usable
  <2> HIDE DEF n
  <2>4. caller' = [caller EXCEPT ![c] = ReturnOf(caller[c], n)] /\ ReturnOf(caller[c], n) \in Call
    BY <1>1, <1>2, <2>1, <2>3, ReturnCall
  <2>5. caller'[c] = ReturnOf(caller[c], n)
    BY <1>1, <2>4
  <2>6. client' = client /\ dials' = dials
    BY DEF Check
  <2>7. CallerInv(c)' /\ caller'[c].pc \in {"done", "lock"}
    BY <1>1, <1>2, <2>2, <2>5, <2>6, ReturnedCall
  <2>8. Unlock(Top(c).host)
    BY <2>1 DEF Return
  <2>9. QED
    BY <1>2, <2>4, <2>5, <2>7, <2>8, UnlockKeeps, CallMoves DEF Check, At
<1>5. CASE ~closed /\ ~Usable(c, n)
  <2> DEFINE p == IF n = NoClient THEN "dial" ELSE "replace"
             x == [caller[c] EXCEPT !.pc = p]
  <2>1. Goto(c, p) /\ locks' = locks
    BY <1>5 DEF Check
  <2>2. caller' = [caller EXCEPT ![c] = x] /\ x \in Call
    BY <1>1, <2>1, GotoCall DEF PointType
  <2>3. x.pc = p /\ x.chain = caller[c].chain /\ x.asked = caller[c].asked
    BY <1>1 DEF Call
  <2> HIDE DEF x
  <2>4. caller'[c] = x
    BY <1>1, <2>2
  <2>5. Top(c)' = Top(c) /\ clients' = clients
    BY <2>3, <2>4 DEF Top, Check
  <2>6. CallerInv(c)'
    BY <1>1, <1>2, <2>1, <2>3, <2>4, <2>5
       DEF CallerInv, LevelsInv, HoldsInv, NewInv, DoneInv, At, Held
  <2>7. \A d \in Callers \ {c} : caller[d].pc \in Held => locks[Top(d).host] = d
    BY DEF Inv, CallerInv, HoldsInv
  <2>8. QED
    BY <1>1, <1>2, <2>1, <2>2, <2>3, <2>6, <2>7, CallMoves DEF Check, At, TypeOK
<1>6. QED
  BY <1>3, <1>4, <1>5

LEMMA ReplacedStep ==
    ASSUME Inv, NEW c \in Callers, Replaced(c)
    PROVE  Inv'
<1> DEFINE x == [caller[c] EXCEPT !.pc = "dial"]
<1>1. caller[c] \in Call /\ caller \in [Callers -> Call] /\ LevelsInv(c) /\ HoldsInv(c) /\ TypeOK
  BY DEF Inv, TypeOK, CallerInv
<1>2. caller[c].pc = "drop" /\ caller[c].chain # <<>>
  BY <1>1, TopLevel DEF Replaced, At, Held
<1>3. caller' = [caller EXCEPT ![c] = x] /\ x \in Call
  BY <1>1, GotoCall DEF PointType, Replaced
<1>4. x.pc = "dial" /\ x.chain = caller[c].chain /\ x.asked = caller[c].asked
  BY <1>1 DEF Call
<1> HIDE DEF x
<1>5. caller'[c] = x
  BY <1>1, <1>3
<1>6. Top(c)' = Top(c) /\ clients' = clients /\ locks' = locks
  BY <1>4, <1>5 DEF Top, Replaced
<1>7. CallerInv(c)'
  BY <1>1, <1>2, <1>4, <1>5, <1>6 DEF CallerInv, LevelsInv, HoldsInv, NewInv, DoneInv, At, Held
<1>8. \A d \in Callers \ {c} : caller[d].pc \in Held => locks[Top(d).host] = d
  BY DEF Inv, CallerInv, HoldsInv
<1>9. QED
  BY <1>1, <1>2, <1>3, <1>4, <1>6, <1>7, <1>8, CallMoves DEF Replaced, At, TypeOK

LEMMA DialFailsStep ==
    ASSUME Inv, NEW c \in Callers, DialFails(c)
    PROVE  Inv'
<1>1. caller[c] \in Call /\ caller \in [Callers -> Call] /\ LevelsInv(c) /\ TypeOK
  BY DEF Inv, TypeOK, CallerInv
<1>2. caller[c].pc = "dial" /\ caller[c].chain # <<>> /\ caller[c].pc \in Held
  BY <1>1, TopLevel DEF DialFails, At, Held
<1>3. Goto(c, "failed") /\ Unlock(Top(c).host)
  BY DEF DialFails, Fail
<1>4. /\ caller' = [caller EXCEPT ![c] = [caller[c] EXCEPT !.pc = "failed"]]
      /\ [caller[c] EXCEPT !.pc = "failed"] \in Call
  BY <1>1, <1>3, GotoCall DEF PointType
<1>5. caller'[c] = [caller[c] EXCEPT !.pc = "failed"] /\ [caller[c] EXCEPT !.pc = "failed"].pc = "failed"
  BY <1>1, <1>4 DEF Call
<1>6. CallerInv(c)'
  BY <1>1, <1>2, <1>5, FailedCall
<1>7. QED
  BY <1>2, <1>3, <1>4, <1>5, <1>6, UnlockKeeps, CallMoves DEF DialFails, At

LEMMA ReplaceStep ==
    ASSUME Inv, NEW c \in Callers, Replace(c)
    PROVE  Inv'
<1> DEFINE h == Top(c).host
           x == [caller[c] EXCEPT !.pc = "drop", !.client = clients[h]]
<1>1. /\ caller[c] \in Call /\ caller \in [Callers -> Call] /\ LevelsInv(c) /\ HoldsInv(c)
      /\ TypeOK /\ ClientInv
  BY DEF Inv, TypeOK, CallerInv
<1>2. caller[c].pc = "replace" /\ h \in Hosts /\ caller[c].chain # <<>>
  BY <1>1, TopLevel DEF Replace, At, Held
<1>3. x \in Call /\ x.pc = "drop" /\ x.chain = caller[c].chain /\ x.asked = caller[c].asked
  BY <1>1, <1>2 DEF Call, TypeOK
<1>4. caller' = [caller EXCEPT ![c] = x]
  BY <1>1 DEF Replace
<1> HIDE DEF x
<1>5. /\ caller' \in [Callers -> Call] /\ caller'[c] = x
      /\ \A d \in Callers \ {c} : caller'[d] = caller[d]
  BY <1>1, <1>3, <1>4, SetCall
<1>6. Taken(h) /\ TypeOK' /\ UNCHANGED <<closed, locks, client, dials, cleaned>>
  BY <1>1, <1>2, <1>5 DEF Replace, Take, Taken, TypeOK
<1>7. \A n : Published(n)' <=> Published(n)
  BY <1>2, <1>3, <1>5, SamePublished DEF At
<1>8. ClientInv' /\ CleanedOnce' /\ ClosedForGood'
  BY <1>2, <1>6, <1>7, TakeKeeps
<1>9. Top(c)' = Top(c) /\ clients'[h] = NoClient
  BY <1>1, <1>2, <1>3, <1>5, <1>6 DEF Top, Taken, TypeOK
<1>10. CallerInv(c)'
  BY <1>1, <1>2, <1>3, <1>5, <1>6, <1>9
     DEF CallerInv, LevelsInv, HoldsInv, NewInv, DoneInv, At, Held
<1>11. \A d \in Callers \ {c} : CallerInv(d)'
  BY <1>2, <1>5, <1>6, TakeLeavesCalls
<1>12. QED
  BY <1>6, <1>8, <1>10, <1>11 DEF Inv

LEMMA ClientIsSeq ==
    ASSUME TypeOK
    PROVE  client \in Seq(ClientState) /\ Len(client) = dials
BY LenProperties, SeqDef DEF TypeOK

LEMMA DialStep ==
    ASSUME Inv, NEW c \in Callers, Dial(c)
    PROVE  Inv'
<1> DEFINE n == dials + 1
           new == [host |-> Top(c).host, config |-> Top(c).config, via |-> caller[c].via, alive |-> TRUE]
           x == [caller[c] EXCEPT !.pc = "publish", !.client = n]
<1>1. /\ caller[c] \in Call /\ caller \in [Callers -> Call] /\ LevelsInv(c) /\ HoldsInv(c)
      /\ TypeOK /\ ClientInv /\ CleanedOnce /\ ClosedForGood
  BY DEF Inv, TypeOK, CallerInv
<1>2. /\ caller[c].pc = "dial" /\ Top(c).host \in Hosts /\ Top(c).config \in Config
      /\ caller[c].chain # <<>>
  BY <1>1, TopLevel DEF Dial, At, Held
<1>3. n \in Client /\ dials \in Nat /\ dials' = n /\ MaxDials \in Nat
  BY <1>1, ManagerAssumption DEF Dial, TypeOK, Client
<1>4. new \in ClientState /\ new.host = Top(c).host /\ new.config = Top(c).config
  BY <1>1, <1>2, CallFields DEF ClientState
<1>5. /\ x \in Call /\ x.pc = "publish" /\ x.chain = caller[c].chain /\ x.asked = caller[c].asked
      /\ x.client = n
  BY <1>1, <1>3 DEF Call
<1>6. caller' = [caller EXCEPT ![c] = x]
  BY <1>1 DEF Dial
<1>7. client' = Append(client, new)
  BY DEF Dial
<1> HIDE DEF x, new
<1>8. /\ client' \in Seq(ClientState) /\ Len(client') = n /\ client'[n] = new
      /\ \A m \in 1..dials : client'[m] = client[m]
  BY <1>1, <1>3, <1>4, <1>7, ClientIsSeq, AppendProperties
<1>9. client' \in [1..n -> ClientState]
  BY <1>8, LenProperties
<1>10. /\ caller' \in [Callers -> Call] /\ caller'[c] = x
       /\ \A d \in Callers \ {c} : caller'[d] = caller[d]
  BY <1>1, <1>5, <1>6, SetCall
<1>11. UNCHANGED <<config, edits, clients, closed, locks, cleaned, reaped, dropping, drops>>
  BY DEF Dial
<1>12. n \in 0..MaxDials
  BY <1>3 DEF Client
<1>13. TypeOK'
  BY <1>1, <1>3, <1>9, <1>10, <1>11, <1>12 DEF TypeOK
<1>14. cleaned[n] = 0 /\ n \notin dropping /\ \A m \in 1..dials : m # n /\ m \in 1..n
  BY <1>1, <1>3 DEF ClientInv
<1>15. ClientInv'
  BY <1>1, <1>3, <1>8, <1>11, <1>14 DEF ClientInv, Client
<1>16. ASSUME NEW m \in 1..n PROVE (m = n => ~Published(m)') /\ (m # n /\ Published(m)' => Published(m))
  <2>1. caller'[c].pc = "publish" /\ caller'[c].client = n
    BY <1>5, <1>10
  <2>2. QED
    BY <1>2, <1>10, <2>1 DEF Published, At
<1>17. CleanedOnce'
  <2>1. ASSUME NEW m \in 1..n
        PROVE  /\ cleaned[m] <= 1
               /\ Published(m)' =>
                    \/ cleaned[m] = 0 /\ clients[client'[m].host] = m /\ m \notin dropping
                    \/ cleaned[m] = 0 /\ clients[client'[m].host] # m /\ m \in dropping
                    \/ cleaned[m] = 1 /\ clients[client'[m].host] # m /\ m \notin dropping
    <3>1. CASE m = n
      BY <1>14, <1>16, <3>1
    <3>2. CASE m # n
      <4>1. m \in 1..dials
        BY <1>3, <3>2
      <4>2. QED
        BY <1>1, <1>8, <1>16, <4>1 DEF CleanedOnce
    <3>3. QED
      BY <3>1, <3>2
  <2>2. QED
    BY <1>3, <1>11, <2>1 DEF CleanedOnce
<1>18. ClosedForGood'
  BY <1>1, <1>11 DEF ClosedForGood
<1>19. Top(c)' = Top(c)
  BY <1>5, <1>10 DEF Top
<1>20. LevelsInv(c)' /\ HoldsInv(c)'
  BY <1>1, <1>2, <1>5, <1>10, <1>11, <1>19 DEF LevelsInv, HoldsInv, At, Held
<1>21. NewInv(c)'
  BY <1>3, <1>4, <1>5, <1>8, <1>10, <1>11, <1>14, <1>19 DEF NewInv
<1>22. DoneInv(c)'
  BY <1>5, <1>10 DEF DoneInv, At
<1>23. ASSUME NEW d \in Callers \ {c} PROVE CallerInv(d)'
  <2>1. CallerInv(d)
    BY DEF Inv
  <2>2. /\ caller[d].pc \in Held => locks[Top(d).host] = d
        /\ caller[d].pc \in {"drop", "dial", "publish"} => clients[Top(d).host] = NoClient
        /\ At(d, "publish") => cleaned[caller[d].client] = 0 /\ caller[d].client \notin dropping
    BY <2>1 DEF CallerInv, HoldsInv, NewInv
  <2>3. dials' \in Nat /\ dials <= dials'
    BY <1>3
  <2>4. QED
    BY <1>3, <1>8, <1>10, <1>11, <2>1, <2>2, <2>3, Undisturbed
<1>24. QED
  BY <1>13, <1>15, <1>17, <1>18, <1>20, <1>21, <1>22, <1>23 DEF Inv, CallerInv

LEMMA PublishStep ==
    ASSUME Inv, NEW c \in Callers, Publish(c)
    PROVE  Inv'
<1> DEFINE n == caller[c].client
           h == Top(c).host
<1>1. /\ caller[c] \in Call /\ caller \in [Callers -> Call]
      /\ LevelsInv(c) /\ HoldsInv(c) /\ NewInv(c)
      /\ TypeOK /\ ClientInv /\ CleanedOnce /\ ClosedForGood
  BY DEF Inv, TypeOK, CallerInv
<1>2. caller[c].pc = "publish" /\ h \in Hosts /\ caller[c].chain # <<>> /\ caller[c].pc \in Held
  BY <1>1, TopLevel DEF Publish, At, Held
<1>3. /\ n \in 1..dials /\ client[n].host = h /\ client[n].config = Top(c).config
      /\ cleaned[n] = 0 /\ n \notin dropping /\ clients[h] = NoClient /\ locks[h] = c
  BY <1>1, <1>2 DEF NewInv, HoldsInv, At
<1>4. dials \in Nat /\ MaxDials \in Nat /\ dials <= MaxDials /\ n \in Client /\ n # NoClient
  BY <1>1, <1>3, ManagerAssumption DEF TypeOK, Client, NoClient
\* A client that another call is about to publish is another one.
<1>5. ASSUME NEW d \in Callers \ {c}
      PROVE  /\ CallerInv(d) /\ LevelsInv(d)
             /\ caller[d].pc \in Held => Top(d).host \in Hosts /\ Top(d).host # h
             /\ At(d, "publish") => caller[d].client \in 1..dials /\ caller[d].client # n
  <2>1. CallerInv(d) /\ LevelsInv(d) /\ HoldsInv(d) /\ NewInv(d)
    BY DEF Inv, CallerInv
  <2>2. caller[d].pc \in Held => Top(d).host \in Hosts /\ Top(d).host # h
    BY <1>1, <1>2, <2>1, TopLevel, Apart
  <2>3. At(d, "publish") => caller[d].client \in 1..dials /\ caller[d].client # n
    BY <1>3, <2>1, <2>2 DEF NewInv, At, Held
  <2>4. QED
    BY <2>1, <2>2, <2>3
<1>6. UNCHANGED <<config, edits, closed, dials, dropping, drops>>
  BY DEF Publish
<1>7. CASE closed
  <2> DEFINE x == [caller[c] EXCEPT !.pc = "failed"]
  <2>1. /\ Goto(c, "failed") /\ Unlock(h) /\ clients' = clients
        /\ client' = [client EXCEPT ![n].alive = FALSE]
        /\ cleaned' = [cleaned EXCEPT ![n] = @ + 1] /\ reaped' = reaped \cup {n}
    BY <1>7 DEF Publish, Fail
  <2>2. caller' = [caller EXCEPT ![c] = x] /\ x \in Call
    BY <1>1, <2>1, GotoCall DEF PointType
  <2>3. x.pc = "failed"
    BY <1>1 DEF Call
  <2>4. /\ caller' \in [Callers -> Call] /\ caller'[c] = x
        /\ \A d \in Callers \ {c} : caller'[d] = caller[d]
    BY <1>1, <2>2, SetCall
  <2>5. CallerInv(c)'
    BY <1>1, <1>2, <2>4, FailedCall
  <2> HIDE DEF x
  <2>6. /\ locks' \in [Hosts -> Callers \cup {NoCaller}]
        /\ \A d \in Callers \ {c} : caller[d].pc \in Held => locks'[Top(d).host] = d
    BY <1>2, <2>1, UnlockKeeps
  <2>7. Closes(n)
    BY <1>1, <1>3, <2>1, ClosesOne
  <2>8. cleaned' \in [Client -> Nat] /\ cleaned'[n] = 1 /\ \A m \in Client \ {n} : cleaned'[m] = cleaned[m]
    BY <1>1, <1>3, <1>4, <2>1 DEF TypeOK
  <2>9. TypeOK'
    BY <1>1, <1>4, <1>6, <2>1, <2>4, <2>6, <2>7, <2>8 DEF TypeOK, Closes
  <2>10. ClientInv'
    BY <1>1, <1>3, <1>4, <1>6, <2>1, <2>7, <2>8 DEF ClientInv, Closes
  <2>11. ClosedForGood'
    BY <1>1, <1>6, <2>1 DEF ClosedForGood
  <2>12. CleanedOnce'
    <3>1. ASSUME NEW m \in 1..dials, m # n
          PROVE  m \in Client /\ cleaned'[m] = cleaned[m] /\ (Published(m)' => Published(m))
      <4>1. m \in Client
        BY <1>4 DEF Client
      <4>2. QED
        BY <2>4, <2>8, <3>1, <4>1 DEF Published, At
    <3>2. QED
      BY <1>1, <1>3, <1>4, <1>6, <2>1, <2>7, <2>8, <3>1 DEF CleanedOnce, Closes
  <2>13. ASSUME NEW d \in Callers \ {c} PROVE CallerInv(d)'
    <3>1. /\ caller[d].pc \in {"drop", "dial", "publish"} => clients[Top(d).host] = NoClient
          /\ At(d, "publish") => cleaned[caller[d].client] = 0 /\ caller[d].client \notin dropping
      BY <1>5 DEF CallerInv, HoldsInv, NewInv
    <3>2. At(d, "publish") => caller[d].client \in Client
      BY <1>4, <1>5 DEF Client
    <3>3. At(d, "publish") => cleaned'[caller[d].client] = 0
      BY <1>5, <2>8, <3>1, <3>2
    <3>4. QED
      BY <1>4, <1>5, <1>6, <2>1, <2>4, <2>6, <2>7, <3>1, <3>3, Undisturbed DEF Closes
  <2>14. QED
    BY <2>5, <2>9, <2>10, <2>11, <2>12, <2>13 DEF Inv
<1>8. CASE ~closed
  <2> DEFINE x == ReturnOf(caller[c], n)
  <2>1. /\ Return(c, n) /\ Unlock(h) /\ UNCHANGED <<client, cleaned, reaped>>
        /\ clients' = [clients EXCEPT ![h] = n]
    BY <1>8 DEF Publish, Return
  <2>2. caller' = [caller EXCEPT ![c] = x] /\ x \in Call
    BY <1>1, <1>2, <1>4, <2>1, ReturnCall
  <2>3. /\ caller' \in [Callers -> Call] /\ caller'[c] = x
        /\ \A d \in Callers \ {c} : caller'[d] = caller[d]
    BY <1>1, <2>2, SetCall
  <2>4. CallerInv(c)' /\ caller'[c].pc \in {"done", "lock"}
    BY <1>1, <1>2, <1>3, <1>6, <2>1, <2>3, ReturnedCall
  <2> HIDE DEF x
  <2>5. /\ locks' \in [Hosts -> Callers \cup {NoCaller}]
        /\ \A d \in Callers \ {c} : caller[d].pc \in Held => locks'[Top(d).host] = d
    BY <1>2, <2>1, UnlockKeeps
  <2>6. /\ clients' \in [Hosts -> Client \cup {NoClient}] /\ clients'[h] = n
        /\ \A g \in Hosts \ {h} : clients'[g] = clients[g]
    BY <1>1, <1>2, <1>4, <2>1 DEF TypeOK
  <2>7. TypeOK'
    BY <1>1, <1>6, <2>1, <2>3, <2>5, <2>6 DEF TypeOK
  <2>8. ClientInv'
    BY <1>1, <1>3, <1>6, <2>1, <2>6 DEF ClientInv
  <2>9. ClosedForGood'
    BY <1>6, <1>8 DEF ClosedForGood
  <2>10. CleanedOnce'
    <3>1. ASSUME NEW m \in 1..dials, m # n
          PROVE  /\ Published(m)' => Published(m)
                 /\ client[m].host \in Hosts
                 /\ clients'[client[m].host] = m <=> clients[client[m].host] = m
      <4>1. Published(m)' => Published(m)
        BY <2>3, <3>1 DEF Published, At
      <4>2. client[m].host \in Hosts /\ m # NoClient
        BY <1>1 DEF TypeOK, ClientState, NoClient
      <4>3. QED
        BY <1>3, <2>6, <3>1, <4>1, <4>2
    <3>2. QED
      BY <1>1, <1>3, <1>4, <1>6, <2>1, <2>6, <3>1 DEF CleanedOnce
  <2>11. ASSUME NEW d \in Callers \ {c} PROVE CallerInv(d)'
    <3>1. /\ caller[d].pc \in {"drop", "dial", "publish"} => clients[Top(d).host] = NoClient
          /\ At(d, "publish") => cleaned[caller[d].client] = 0 /\ caller[d].client \notin dropping
      BY <1>5 DEF CallerInv, HoldsInv, NewInv
    <3>2. caller[d].pc \in {"drop", "dial", "publish"} => clients'[Top(d).host] = NoClient
      BY <1>5, <2>6, <3>1 DEF Held
    <3>3. QED
      BY <1>4, <1>5, <1>6, <2>1, <2>3, <2>5, <3>1, <3>2, Undisturbed
  <2>12. QED
    BY <2>4, <2>7, <2>8, <2>9, <2>10, <2>11 DEF Inv
<1>9. QED
  BY <1>7, <1>8

-----------------------------------------------------------------------------
(* The other steps                                                         *)

\* None of them touches a call or a lock.
LEMMA CallsKept ==
    ASSUME Inv, UNCHANGED <<caller, locks, dials>>,
           \A n \in 1..dials : client'[n].host = client[n].host /\ client'[n].config = client[n].config,
           \A d \in Callers, g \in Hosts : clients[g] = NoClient => clients'[g] = NoClient,
           \A d \in Callers : At(d, "publish") =>
               cleaned'[caller[d].client] = 0 /\ caller[d].client \notin dropping'
    PROVE  \A d \in Callers : CallerInv(d)'
<1>1. TAKE d \in Callers
<1>2. CallerInv(d) /\ LevelsInv(d) /\ HoldsInv(d) /\ TypeOK /\ dials \in Nat
  BY DEF Inv, CallerInv, TypeOK
<1>3. caller[d].pc \in Held => Top(d).host \in Hosts
  BY <1>2, TopLevel
<1>4. caller[d].pc \in {"drop", "dial", "publish"} => clients'[Top(d).host] = NoClient
  BY <1>2, <1>3 DEF HoldsInv, Held
<1>5. caller[d].pc \in Held => locks'[Top(d).host] = d
  BY <1>2 DEF HoldsInv
<1>6. QED
  BY <1>2, <1>4, <1>5, Undisturbed

LEMMA DropStep ==
    ASSUME Inv, NEW n \in Client, Drop(n)
    PROVE  Inv'
<1>1. /\ TypeOK /\ ClientInv /\ CleanedOnce /\ ClosedForGood /\ n \in dropping
      /\ UNCHANGED <<config, edits, clients, closed, locks, dials, reaped, caller, drops>>
      /\ dropping' = dropping \ {n}
  BY DEF Inv, Drop
<1>2. n \in 1..dials /\ dials \in Nat /\ dials <= MaxDials /\ MaxDials \in Nat
  BY <1>1, ManagerAssumption DEF ClientInv, TypeOK
\* A client about to be published is not about to be closed.
<1>3. \A d \in Callers : At(d, "publish") =>
          /\ caller[d].client \in Client /\ caller[d].client # n
          /\ cleaned[caller[d].client] = 0 /\ caller[d].client \notin dropping
  BY <1>1, <1>2 DEF Inv, CallerInv, NewInv, Client
<1>4. Published(n)
  BY <1>3 DEF Published
<1>5. cleaned[n] = 0 /\ clients[client[n].host] # n
  BY <1>1, <1>2, <1>4 DEF CleanedOnce
<1>6. Closes(n)
  BY <1>1, <1>2, ClosesOne DEF Drop
<1>7. cleaned' \in [Client -> Nat] /\ cleaned'[n] = 1 /\ \A m \in Client \ {n} : cleaned'[m] = cleaned[m]
  BY <1>1, <1>5 DEF Drop, TypeOK
<1>8. TypeOK'
  BY <1>1, <1>6, <1>7 DEF TypeOK, Closes
<1>9. ClientInv'
  <2>1. ASSUME NEW m \in Client, m > dials PROVE cleaned'[m] = 0
    <3>1. m # n /\ cleaned[m] = 0
      BY <1>1, <1>2, <2>1 DEF ClientInv, TypeOK
    <3> QED
      BY <1>7, <3>1
  <2>2. dropping' \subseteq 1..dials
    BY <1>1 DEF ClientInv
  <2>3. QED
    BY <1>1, <1>6, <2>1, <2>2 DEF ClientInv, Closes
<1>10. \A m : Published(m)' <=> Published(m)
  BY <1>1 DEF Published, At
<1>11. \A m \in 1..dials : m \in Client
  BY <1>2 DEF Client
<1>12. CleanedOnce'
  BY <1>1, <1>2, <1>5, <1>6, <1>7, <1>10, <1>11 DEF CleanedOnce, Closes
<1>13. ClosedForGood'
  BY <1>1 DEF ClosedForGood
<1>14. \A d \in Callers : At(d, "publish") =>
           cleaned'[caller[d].client] = 0 /\ caller[d].client \notin dropping'
  BY <1>1, <1>3, <1>7
<1>15. \A d \in Callers : CallerInv(d)'
  BY <1>1, <1>6, <1>14, CallsKept DEF Closes
<1>16. QED
  BY <1>8, <1>9, <1>12, <1>13, <1>15 DEF Inv

LEMMA BreaksStep ==
    ASSUME Inv, NEW n \in Client, Breaks(n)
    PROVE  Inv'
<1>1. /\ TypeOK /\ ClientInv /\ CleanedOnce /\ ClosedForGood
      /\ UNCHANGED <<config, edits, clients, closed, locks, dials, cleaned, reaped, dropping, caller>>
  BY DEF Inv, Breaks
<1>2. n \in 1..dials /\ dials \in Nat
  BY <1>1, ManagerAssumption DEF TypeOK, Client, Breaks
<1>3. Closes(n) /\ drops' \in Nat
  <2>1. drops' = drops \/ drops' = drops + 1
    BY DEF Breaks
  <2>2. client' = [client EXCEPT ![n].alive = FALSE]
    BY DEF Breaks
  <2>3. drops' \in Nat
    BY <1>1, <2>1 DEF TypeOK
  <2>4. QED
    BY <1>1, <1>2, <2>2, <2>3, ClosesOne
<1>4. TypeOK'
  BY <1>1, <1>3 DEF TypeOK, Closes
<1>5. ClientInv' /\ ClosedForGood'
  BY <1>1, <1>2, <1>3 DEF ClientInv, Closes, ClosedForGood
<1>6. \A m : Published(m)' <=> Published(m)
  BY <1>1 DEF Published, At
<1>7. CleanedOnce'
  BY <1>1, <1>3, <1>6 DEF CleanedOnce, Closes
<1>8. \A d \in Callers : At(d, "publish") =>
          cleaned'[caller[d].client] = 0 /\ caller[d].client \notin dropping'
  BY <1>1 DEF Inv, CallerInv, NewInv
<1>9. \A d \in Callers : CallerInv(d)'
  BY <1>1, <1>3, <1>8, CallsKept DEF Closes
<1>10. QED
  BY <1>4, <1>5, <1>7, <1>9 DEF Inv

LEMMA WaitReturnsStep ==
    ASSUME Inv, NEW n \in Client, WaitReturns(n)
    PROVE  Inv'
<1> DEFINE h == client[n].host
<1>1. /\ TypeOK /\ ClientInv /\ CleanedOnce /\ ClosedForGood /\ Published(n)
      /\ UNCHANGED <<config, edits, closed, locks, client, dials, dropping, caller, drops>>
      /\ reaped' = reaped \cup {n}
  BY DEF Inv, WaitReturns
<1>2. /\ n \in 1..dials /\ dials \in Nat /\ n # NoClient /\ h \in Hosts
      /\ \A m \in 1..dials : m \in Client /\ client[m].host \in Hosts
  BY <1>1, ManagerAssumption DEF TypeOK, Client, WaitReturns, ClientState, NoClient
<1>3. \A d \in Callers : At(d, "publish") =>
          /\ caller[d].client \in Client /\ caller[d].client # n
          /\ cleaned[caller[d].client] = 0 /\ caller[d].client \notin dropping
  BY <1>1, <1>2 DEF Inv, CallerInv, NewInv, Published
<1>4. \A m : Published(m)' <=> Published(m)
  BY <1>1 DEF Published, At
<1>5. CASE clients[h] = n
  <2>1. /\ clients' = [clients EXCEPT ![h] = NoClient]
        /\ cleaned' = [cleaned EXCEPT ![n] = @ + 1]
    BY <1>5 DEF WaitReturns
  <2>2. cleaned[n] = 0 /\ n \notin dropping
    BY <1>1, <1>2, <1>5 DEF CleanedOnce
  <2>3. cleaned' \in [Client -> Nat] /\ cleaned'[n] = 1 /\ \A m \in Client \ {n} : cleaned'[m] = cleaned[m]
    BY <1>1, <2>1, <2>2 DEF TypeOK
  <2>4. /\ clients' \in [Hosts -> Client \cup {NoClient}] /\ clients'[h] = NoClient
        /\ \A g \in Hosts \ {h} : clients'[g] = clients[g]
    BY <1>1, <1>2, <2>1 DEF TypeOK
  <2>5. TypeOK'
    BY <1>1, <2>3, <2>4 DEF TypeOK
  <2>6. ClientInv'
    BY <1>1, <1>2, <2>3, <2>4 DEF ClientInv
  <2>7. ClosedForGood'
    BY <1>1, <2>4 DEF ClosedForGood
  <2>8. ASSUME NEW m \in 1..dials, m # n
        PROVE  clients'[client[m].host] = m <=> clients[client[m].host] = m
    <3>1. m # NoClient /\ client[m].host \in Hosts
      BY <1>2 DEF NoClient
    <3>2. QED
      BY <1>5, <2>4, <2>8, <3>1
  <2>9. CleanedOnce'
    BY <1>1, <1>2, <1>4, <2>2, <2>3, <2>4, <2>8 DEF CleanedOnce
  <2>10. \A d \in Callers : At(d, "publish") =>
             cleaned'[caller[d].client] = 0 /\ caller[d].client \notin dropping'
    BY <1>1, <1>3, <2>3
  <2>11. \A d \in Callers : CallerInv(d)'
    BY <1>1, <2>4, <2>10, CallsKept
  <2>12. QED
    BY <2>5, <2>6, <2>7, <2>9, <2>11 DEF Inv
<1>6. CASE clients[h] # n
  <2>1. clients' = clients /\ cleaned' = cleaned
    BY <1>6 DEF WaitReturns
  <2>2. TypeOK'
    BY <1>1, <2>1 DEF TypeOK
  <2>3. ClientInv' /\ CleanedOnce' /\ ClosedForGood'
    BY <1>1, <1>4, <2>1, ClientsKept
  <2>4. \A d \in Callers : CallerInv(d)'
    BY <1>1, <1>3, <2>1, CallsKept
  <2>5. QED
    BY <2>2, <2>3, <2>4 DEF Inv
<1>7. QED
  BY <1>5, <1>6

LEMMA DisconnectStep ==
    ASSUME Inv, NEW h \in Hosts, Disconnect(h)
    PROVE  Inv'
<1>1. TypeOK /\ Taken(h) /\ UNCHANGED <<closed, locks, client, dials, cleaned, caller>>
  BY DEF Inv, Disconnect, Take, Taken
<1>2. TypeOK'
  BY <1>1 DEF Disconnect, Take, Taken, TypeOK
<1>3. \A n : Published(n)' <=> Published(n)
  BY <1>1 DEF Published, At
<1>4. ClientInv' /\ CleanedOnce' /\ ClosedForGood'
  BY <1>1, <1>2, <1>3, TakeKeeps
<1>5. \A d \in Callers : CallerInv(d)'
  BY <1>1, TakeLeavesCalls
<1>6. QED
  BY <1>2, <1>4, <1>5 DEF Inv

LEMMA EditHostStep ==
    ASSUME Inv, NEW h \in Hosts, NEW j \in Hosts \cup {NoHost}, EditHost(h, j)
    PROVE  Inv'
<1>1. TypeOK /\ UNCHANGED <<clients, closed, locks, client, dials, cleaned, reaped, dropping, caller, drops>>
  BY DEF Inv, EditHost
<1>2. edits + 1 \in 0..MaxEdits
  BY <1>1, ManagerAssumption DEF EditHost, TypeOK
<1>3. [version |-> edits + 1, jump |-> j] \in Config
  BY <1>2 DEF Config
<1>4. TypeOK'
  BY <1>1, <1>2, <1>3 DEF EditHost, TypeOK
<1>5. \A n : Published(n)' <=> Published(n)
  BY <1>1 DEF Published, At
<1>6. ClientInv' /\ CleanedOnce' /\ ClosedForGood'
  BY <1>1, <1>5, ClientsKept
<1>7. \A d \in Callers : At(d, "publish") =>
          cleaned[caller[d].client] = 0 /\ caller[d].client \notin dropping
  BY DEF Inv, CallerInv, NewInv
<1>8. \A d \in Callers : CallerInv(d)'
  BY <1>1, <1>7, CallsKept
<1>9. QED
  BY <1>4, <1>6, <1>8 DEF Inv

LEMMA CloseStep ==
    ASSUME Inv, Close
    PROVE  Inv'
<1>1. /\ TypeOK /\ ClientInv /\ CleanedOnce
      /\ UNCHANGED <<config, edits, locks, client, dials, cleaned, reaped, caller, drops>>
      /\ dropping' = dropping \cup ({clients[h] : h \in Hosts} \ {NoClient})
      /\ clients' = [h \in Hosts |-> NoClient]
      /\ closed' = TRUE
  BY DEF Inv, Close
<1>2. TypeOK'
  BY <1>1 DEF TypeOK
<1>3. ClientInv'
  BY <1>1 DEF ClientInv
<1>4. ClosedForGood'
  BY <1>1 DEF ClosedForGood
<1>5. \A n : Published(n)' <=> Published(n)
  BY <1>1 DEF Published, At
<1>6. ASSUME NEW n \in 1..dials
      PROVE  /\ client[n].host \in Hosts /\ n # NoClient
             /\ clients'[client[n].host] # n
             /\ n \in dropping' <=> n \in dropping \/ clients[client[n].host] = n
  <2>1. client[n].host \in Hosts /\ n # NoClient
    BY <1>1 DEF TypeOK, ClientState, NoClient
  <2>2. \A h \in Hosts : clients[h] = n => h = client[n].host
    BY <1>1, <2>1 DEF ClientInv
  <2>3. QED
    BY <1>1, <2>1, <2>2
<1>7. CleanedOnce'
  BY <1>1, <1>5, <1>6 DEF CleanedOnce
<1>8. ASSUME NEW d \in Callers, At(d, "publish")
      PROVE  cleaned[caller[d].client] = 0 /\ caller[d].client \notin dropping'
  <2>1. NewInv(d) /\ HoldsInv(d)
    BY DEF Inv, CallerInv
  <2>2. /\ caller[d].client \in 1..dials /\ client[caller[d].client].host = Top(d).host
        /\ cleaned[caller[d].client] = 0 /\ caller[d].client \notin dropping
        /\ clients[Top(d).host] = NoClient
    BY <1>8, <2>1 DEF NewInv, HoldsInv, At
  <2>3. QED
    BY <1>6, <2>2
<1>9. \A d \in Callers : CallerInv(d)'
  BY <1>1, <1>8, CallsKept
<1>10. QED
  BY <1>2, <1>3, <1>4, <1>7, <1>9 DEF Inv

-----------------------------------------------------------------------------
LEMMA InitInv == Init => Inv
<1> SUFFICES ASSUME Init PROVE Inv
  OBVIOUS
<1>1. NewConfig \in Config /\ IdleCall \in Call
  <2>1. NewConfig \in Config
    BY ManagerAssumption DEF NewConfig, Config
  <2>2. QED
    BY <2>1, EmptySeq DEF IdleCall, Call
<1>2. config \in [Hosts -> Config]
  BY ManagerAssumption DEF Init, Config
<1>3. client \in [1..dials -> ClientState]
  BY DEF Init
<1>4. TypeOK
  <2>1. edits \in 0..MaxEdits /\ dials \in 0..MaxDials /\ drops \in Nat
    BY ManagerAssumption DEF Init
  <2>2. /\ clients \in [Hosts -> Client \cup {NoClient}] /\ locks \in [Hosts -> Callers \cup {NoCaller}]
        /\ cleaned \in [Client -> Nat] /\ caller \in [Callers -> Call]
    BY <1>1 DEF Init
  <2>3. QED
    BY <1>2, <1>3, <2>1, <2>2 DEF Init, TypeOK
<1>5. ClientInv /\ CleanedOnce /\ ClosedForGood
  BY DEF Init, ClientInv, CleanedOnce, ClosedForGood
<1>6. ASSUME NEW c \in Callers PROVE CallerInv(c)
  BY DEF Init, IdleCall, CallerInv, LevelsInv, HoldsInv, NewInv, DoneInv, At, Held
<1>7. QED
  BY <1>4, <1>5, <1>6 DEF Inv

LEMMA StepInv ==
    ASSUME Inv, NEW c \in Callers, Step(c)
    PROVE  Inv'
BY ResolveStep, ResolveFailsStep, LockStep, CheckStep, ReplaceStep, ReplacedStep, DialStep,
   DialFailsStep, PublishStep DEF Step

LEMMA NextInv == Inv /\ [Next]_vars => Inv'
<1> SUFFICES ASSUME Inv, [Next]_vars PROVE Inv'
  OBVIOUS
<1>1. CASE Next
  BY <1>1, StepInv, ConnectStep, DropStep, BreaksStep, WaitReturnsStep, DisconnectStep,
     EditHostStep, CloseStep DEF Next
<1>2. CASE UNCHANGED vars
  <2>1. TypeOK'
    BY <1>2 DEF Inv, TypeOK, vars
  <2>2. ClientInv' /\ CleanedOnce' /\ ClosedForGood'
    BY <1>2 DEF Inv, ClientInv, CleanedOnce, ClosedForGood, Published, At, vars
  <2>3. \A c \in Callers : CallerInv(c)'
    BY <1>2 DEF Inv, CallerInv, LevelsInv, HoldsInv, NewInv, DoneInv, At, Top, vars
  <2>4. QED
    BY <2>1, <2>2, <2>3 DEF Inv
<1>3. QED
  BY <1>1, <1>2

\* The cached clients, the locks of the hosts and the calls of connect fit
\* together, for any number of hosts, callers, edits and dials.
THEOREM Invariance == Spec => []Inv
BY InitInv, NextInv, PTL DEF Spec

\* Connect returns a client of the host it was asked for, no client is cleaned
\* up twice or forgotten, and none is kept after Close.
THEOREM ClientsAreRightTheorem == Spec => []ClientsAreRight
<1>1. Inv => ClientsAreRight
  BY DEF Inv, CallerInv, DoneInv, RightServer, ClientsAreRight
<1>2. QED
  BY <1>1, Invariance, PTL

-----------------------------------------------------------------------------
(* A forwarded connection                                                  *)

Uninterrupted == ~Stopped /\ \A e \in Sides : peer[e].state # "gone"

AllOf(e) == peer[e].state = "ended" /\ got[Other(e)] = peer[e].sent

\* Only what was sent arrives.
GotInv == \A e \in Sides : got[e] <= peer[Other(e)].sent

\* The second goroutine exists from the moment both handles are open; unless
\* the forwarding is stopped, only main closes them, at CloseHandles.
HandleInv ==
    /\ pair.up = "none" => pair.main \in {"new", "dial", "done"}
    /\ pair.main \in {"new", "dial"} => pair.up = "none"
    /\ pair.main = "dial" => pair.conn
    /\ ~Stopped /\ pair.main \in {"copy", "close"} => BothOpen
    /\ pair.told = "half" => pair.up = "done"

\* main is past its copy only when the server has ended and the client has all;
\* up is past its copy only in the same case the other way round, or because
\* main was earlier.
PairDoneInv ==
    Uninterrupted =>
      /\ pair.up # "none" /\ pair.main \in {"close", "wait", "done"} => AllOf("server")
      /\ pair.up \in {"half", "done"} => AllOf("client") \/ peer["server"].state = "ended"

TunnelInv == TunnelTypeOK /\ GotInv /\ HandleInv /\ PairDoneInv

-----------------------------------------------------------------------------
LEMMA OtherSide == Other("client") = "server" /\ Other("server") = "client"
BY DEF Other, Sides

LEMMA TunnelInitInv == TunnelInit => TunnelInv
BY OtherSide, TunnelAssumption
   DEF TunnelInit, TunnelInv, TunnelTypeOK, GotInv, HandleInv, PairDoneInv, AllOf, Sides, Uninterrupted, Stopped

\* A step of the forwarding itself or of its goroutines that copies nothing.
LEMMA PairControlStep ==
    ASSUME TunnelInv, Stop \/ CloseListener \/ Accept \/ Answers \/ Refuses \/ UpHalf
                \/ CloseHandles \/ PairReturns \/ AfterFunc
    PROVE  TunnelInv'
<1> USE OtherSide DEF TunnelInv, TunnelTypeOK, GotInv, HandleInv, PairDoneInv, AllOf, Uninterrupted, Stopped,
                      Sides, BothOpen, Pair
<1>1. CASE Stop
  BY <1>1 DEF Stop
<1>2. CASE CloseListener
  BY <1>2 DEF CloseListener
<1>3. CASE Accept
  BY <1>3 DEF Accept
<1>4. CASE Answers
  BY <1>4 DEF Answers
<1>5. CASE Refuses
  BY <1>5 DEF Refuses, Closed
<1>6. CASE UpHalf
  BY <1>6 DEF UpHalf, CloseWrite
<1>7. CASE CloseHandles
  BY <1>7 DEF CloseHandles, Closed
<1>8. CASE PairReturns
  BY <1>8 DEF PairReturns
<1>9. CASE AfterFunc
  BY <1>9 DEF AfterFunc, Closed
<1>10. QED
  BY <1>1, <1>2, <1>3, <1>4, <1>5, <1>6, <1>7, <1>8, <1>9

\* A step of an end, and the beginning and the end of a copy.
LEMMA PairCopyStep ==
    ASSUME TunnelInv, (\E e \in Sides : PeerActs(e)) \/ UpCopies \/ UpEnds \/ DownCopies \/ DownEnds
    PROVE  TunnelInv'
<1> USE OtherSide, TunnelAssumption
        DEF TunnelInv, TunnelTypeOK, GotInv, HandleInv, PairDoneInv, AllOf, Uninterrupted, Stopped,
            Sides, BothOpen, Pair
<1>1. ASSUME NEW e \in Sides, PeerActs(e)
      PROVE  TunnelInv'
  BY <1>1 DEF PeerActs
<1>2. CASE UpCopies
  BY <1>2 DEF UpCopies, CopyTo, Rest
<1>3. CASE UpEnds
  BY <1>3 DEF UpEnds, CopyEnds, Rest
<1>4. CASE DownCopies
  BY <1>4 DEF DownCopies, CopyTo, Rest
<1>5. CASE DownEnds
  BY <1>5 DEF DownEnds, CopyEnds, Rest
<1>6. QED
  BY <1>1, <1>2, <1>3, <1>4, <1>5

LEMMA PairStutterStep == ASSUME TunnelInv, UNCHANGED tunnelVars PROVE TunnelInv'
BY DEF TunnelInv, TunnelTypeOK, GotInv, HandleInv, PairDoneInv, AllOf, Uninterrupted, Stopped, BothOpen, tunnelVars

\* The handles, the two copies and what has arrived fit together, for any
\* amount of data.
THEOREM TunnelInvariance == TunnelSpec => []TunnelInv
<1>1. TunnelInv /\ [TunnelNext]_tunnelVars => TunnelInv'
  BY PairControlStep, PairCopyStep, PairStutterStep DEF TunnelNext
<1>2. QED
  BY TunnelInitInv, <1>1, PTL DEF TunnelSpec

\* For every amount of data: no end that stays loses any of it, and a server
\* hears of the end of a client only after its last byte (tunnels.go:80-91).
THEOREM TunnelDeliversTheorem == TunnelSpec => []TunnelDelivers
<1>1. TunnelInv => TunnelDelivers
  BY OtherSide DEF TunnelInv, TunnelTypeOK, HandleInv, PairDoneInv, AllOf, Uninterrupted, Stopped, BothOpen, Sides,
                   TunnelDelivers
<1>2. QED
  BY TunnelInvariance, <1>1, PTL

-----------------------------------------------------------------------------
(***************************************************************************)
(* The terminals of the desktop, for every set of servers and of calls,    *)
(* and every number of changes of the tab and the focus.  A session that   *)
(* was opened belongs to the call that waits for its callback, and to      *)
(* nobody else, until the callback makes a workspace of it, puts it into   *)
(* one, or closes it; DesktopInv says whose it is at every point between,  *)
(* and what a callback that comes late finds.                              *)
(***************************************************************************)

HostNames == Servers \cup {"none"}
Replies == {"none", "trusted", "opened", "refused", "given up"}
CallRecord ==
    [kind : {"none", "connect", "split", "agent"}, host : HostNames, tab : Terminals \cup {None},
     pc : {"new", "dial", "ask", "post", "discard", "done"}, got : Terminals \cup {None},
     cancelled : BOOLEAN, reply : Replies]
WorkspaceRecord ==
    [host : HostNames, panes : Seq(Terminals), focus : Terminals \cup {None},
     state : {"none", "open", "cancelled", "closed"}]

\* The callback of a call is on the UI queue.  A call waits while it, or a
\* split that lost its tab, still has its session in hand.
Queued(c) == c \in ToSet(callbacks)
Waits(c) == Queued(c) \/ call[c].pc = "discard"
Made(w) == workspace[w].state # "none"
\* The sessions of a workspace are its own until the goroutine that closes
\* the workspace has closed them.
InForce(w) == workspace[w].state \in {"open", "cancelled"}

\* Neither a callback nor a tab is there twice.
ShapeInv ==
    /\ call \in [Calls -> CallRecord]
    /\ callbacks \in Seq(Calls) /\ IsInjective(callbacks)
    /\ session \in [Terminals -> {"none", "open", "closed"}]
    /\ workspace \in [Terminals -> WorkspaceRecord]
    /\ workspaces \in Seq(Terminals) /\ IsInjective(workspaces)
    /\ current \in Terminals \cup {None}
    /\ sessions \subseteq Terminals /\ active \in Terminals \cup {None}
    /\ shutdown \in {"no", "manager", "workspaces", "ended"}

\* The context of the assistant's call has ended.
AgentOver(c) == call[c].cancelled \/ QuitBegun

\* Which control points a kind of call has, when it has a session, and when
\* openAgentTerminal gives up on a callback that may still run.
CallOk(c) ==
    /\ call[c].pc = "new" => call[c].kind = "none"
    /\ call[c].pc \in {"new", "dial", "ask"} => call[c].got = None /\ call[c].reply \in {"none", "trusted"}
    /\ Queued(c) => call[c].pc = "post" /\ call[c].reply \notin {"opened", "refused"}
    /\ call[c].pc = "post" /\ call[c].kind # "agent" => Queued(c)
    /\ call[c].pc \in {"post", "discard"} /\ call[c].kind # "connect" => call[c].got # None
    /\ call[c].pc = "discard" => call[c].kind = "split"
    /\ call[c].pc = "ask" => call[c].kind = "agent"
    /\ call[c].kind = "split" => call[c].tab # None
    /\ Queued(c) /\ call[c].kind = "agent" /\ call[c].reply = "given up" => AgentOver(c)
CallsInv == \A c \in Calls : CallOk(c)

\* Two calls never got the same session.
OwnSessionInv ==
    /\ \A c \in Calls : call[c].got # None => session[call[c].got] # "none"
    /\ \A c, d \in Calls : call[c].got = call[d].got /\ call[c].got # None => c = d

\* A workspace has its first terminal and its focus among its panes; its panes
\* are no other workspace's, and no call waits with the session of one.
PaneOk(w) ==
    /\ ~Made(w) => workspace[w].panes = <<>>
    /\ Made(w) => workspace[w].panes # <<>> /\ workspace[w].panes[1] = w /\ workspace[w].focus \in Panes(w)
    /\ \A s \in Panes(w) :
          /\ session[s] # "none"
          /\ \A v \in Terminals : s \in Panes(v) => v = w
          /\ \A c \in Calls : call[c].got = s => ~Waits(c)
PanesInv == \A w \in Terminals : PaneOk(w)

\* No open session is lost: a call that waits has it, or a workspace in force.
OwnerInv ==
    \A s \in Terminals : session[s] = "open" =>
        \/ \E c \in Calls : call[c].got = s /\ Waits(c)
        \/ \E w \in Terminals : InForce(w) /\ s \in Panes(w)

\* A workspace has a tab exactly while it is open, and none once quit began.
ShownInv ==
    /\ Shown = {w \in Terminals : workspace[w].state = "open"}
    /\ QuitBegun => Shown = {}

\* OldIdsAreGone, terminal by terminal.
IdsInv ==
    /\ ~QuitBegun => \A s \in Terminals : s \in sessions <=> \E w \in Shown : s \in Panes(w)
    /\ \A w \in Terminals : workspace[w].state = "closed" => \A s \in Panes(w) : s \notin sessions

\* App.connecting has the host of each connect under way, so no other begins
\* while it dials, waits for its callback, or has its tab.
Connects(c) == call[c].kind = "connect" /\ (call[c].pc \in {"dial", "post"} \/ call[c].got \in Shown)
OneConnectInv ==
    /\ \A c \in Calls : call[c].kind = "connect" /\ call[c].pc \in {"dial", "post"} => call[c].host \in connecting
    /\ \A c, d \in Calls : Connects(c) /\ Connects(d) /\ call[c].host = call[d].host => c = d
    /\ \A c \in Calls, w \in Terminals : Made(w) /\ call[c].got = w => workspace[w].host = call[c].host

\* What every step of the desktop keeps; TerminalsAreOwned follows from it.
DesktopInv ==
    /\ ShapeInv /\ CallsInv /\ OwnSessionInv /\ PanesInv /\ OwnerInv /\ ShownInv
    /\ IdsInv /\ ActiveIsShown /\ OneConnectInv

-----------------------------------------------------------------------------
\* The home tab is no terminal.
LEMMA TerminalsAreNumbers ==
    /\ Cardinality(Calls) \in Nat /\ Terminals \subseteq Nat /\ None \notin Terminals
BY WorkspaceAssumption, FS_CardinalityType DEF Terminals, None

\* What the operations on the callbacks and on the tabs do to the elements of
\* a sequence, and that they leave none in it twice.
LEMMA ElementsOf ==
    ASSUME NEW S, NEW s \in Seq(S)
    PROVE  /\ Len(s) \in Nat /\ DOMAIN s = 1..Len(s) /\ ToSet(s) \subseteq S
           /\ s # <<>> => s[1] \in ToSet(s) /\ 1 \in DOMAIN s
           /\ ToSet(<<>>) = {}
<1>1. Len(s) \in Nat /\ DOMAIN s = 1..Len(s) /\ \A i \in DOMAIN s : s[i] \in S
  BY LenProperties, ElementOfSeq
<1>2. s # <<>> => Len(s) # 0
  BY EmptySeq
<1>3. DOMAIN <<>> = {}
  OBVIOUS
<1> QED
  BY <1>1, <1>2, <1>3 DEF ToSet

LEMMA AppendElements ==
    ASSUME NEW S, NEW s \in Seq(S), NEW x \in S
    PROVE  /\ Append(s, x) \in Seq(S) /\ Append(s, x) # <<>>
           /\ ToSet(Append(s, x)) = ToSet(s) \cup {x}
           /\ s # <<>> => Append(s, x)[1] = s[1]
           /\ s = <<>> => Append(s, x)[1] = x
           /\ IsInjective(s) /\ x \notin ToSet(s) => IsInjective(Append(s, x))
<1> DEFINE t == Append(s, x)
<1>1. t \in Seq(S) /\ t # <<>> /\ Len(t) = Len(s) + 1 /\ t[Len(s) + 1] = x
      /\ \A i \in 1..Len(s) : t[i] = s[i]
  BY AppendProperties
<1>2. Len(s) \in Nat /\ DOMAIN s = 1..Len(s) /\ DOMAIN t = 1..Len(s) + 1
  BY <1>1, LenProperties
<1>3. ToSet(t) = ToSet(s) \cup {x}
  BY <1>1, <1>2 DEF ToSet
<1>4. ASSUME IsInjective(s), x \notin ToSet(s) PROVE IsInjective(t)
  <2> SUFFICES ASSUME NEW i \in DOMAIN t, NEW j \in DOMAIN t, t[i] = t[j] PROVE i = j
    BY DEF IsInjective
  <2> HIDE DEF t
  <2> QED
    BY <1>1, <1>2, <1>4 DEF IsInjective, ToSet
<1>5. s # <<>> => 1 \in 1..Len(s)
  BY <1>2, EmptySeq
<1> QED
  BY <1>1, <1>2, <1>3, <1>4, <1>5

LEMMA TailElements ==
    ASSUME NEW S, NEW s \in Seq(S), s # <<>>, IsInjective(s)
    PROVE  /\ Tail(s) \in Seq(S) /\ Head(s) \in ToSet(s) /\ Head(s) \in S
           /\ ToSet(Tail(s)) = ToSet(s) \ {Head(s)} /\ IsInjective(Tail(s))
<1> DEFINE t == Tail(s)
<1>1. Len(s) \in Nat \ {0} /\ DOMAIN s = 1..Len(s)
  BY EmptySeq, LenProperties
<1>2. t \in Seq(S) /\ Len(t) = Len(s) - 1 /\ \A i \in 1..Len(t) : t[i] = s[i + 1]
  BY HeadTailProperties
<1>3. DOMAIN t = 1..Len(s) - 1
  BY <1>2, LenProperties
<1>4. Head(s) = s[1] /\ Head(s) \in S
  BY <1>1, ElementOfSeq
<1> HIDE DEF t
<1>5. ToSet(t) = ToSet(s) \ {Head(s)}
  <2>1. ASSUME NEW i \in DOMAIN t PROVE t[i] \in ToSet(s) \ {s[1]}
    BY <1>1, <1>2, <1>3 DEF ToSet, IsInjective
  <2>2. ASSUME NEW i \in DOMAIN s, s[i] # s[1] PROVE s[i] \in ToSet(t)
    <3>1. i - 1 \in DOMAIN t /\ t[i - 1] = s[i]
      BY <1>1, <1>2, <1>3, <2>2
    <3> QED
      BY <3>1 DEF ToSet
  <2> QED
    BY <1>4, <2>1, <2>2 DEF ToSet
<1>6. IsInjective(t)
  <2> SUFFICES ASSUME NEW i \in DOMAIN t, NEW j \in DOMAIN t, t[i] = t[j] PROVE i = j
    BY DEF IsInjective
  <2>1. i + 1 \in DOMAIN s /\ j + 1 \in DOMAIN s /\ s[i + 1] = s[j + 1]
    BY <1>1, <1>2, <1>3
  <2>2. i + 1 = j + 1
    BY <2>1 DEF IsInjective
  <2> QED
    BY <1>3, <2>2
<1> QED
  BY <1>1, <1>2, <1>4, <1>5, <1>6 DEF ToSet, t

LEMMA RemoveElement ==
    ASSUME NEW S, NEW s \in Seq(S), IsInjective(s), NEW p \in DOMAIN s
    PROVE  /\ RemoveAt(s, p) \in Seq(S) /\ Len(RemoveAt(s, p)) = Len(s) - 1
           /\ ToSet(RemoveAt(s, p)) = ToSet(s) \ {s[p]} /\ IsInjective(RemoveAt(s, p))
<1> DEFINE t == RemoveAt(s, p)
           a == SubSeq(s, 1, p - 1)
           b == SubSeq(s, p + 1, Len(s))
<1>1. Len(s) \in Nat /\ DOMAIN s = 1..Len(s) /\ \A i \in 1..Len(s) : s[i] \in S
  BY LenProperties, ElementOfSeq
<1>2. a \in Seq(S) /\ Len(a) = p - 1 /\ \A i \in 1..p - 1 : a[i] = s[i]
  BY <1>1, SubSeqProperties
<1>3. b \in Seq(S) /\ Len(b) = Len(s) - p /\ \A i \in 1..Len(s) - p : b[i] = s[i + p]
  BY <1>1, SubSeqProperties
<1> HIDE DEF a, b
<1>4. t = a \o b
  BY DEF RemoveAt, a, b
<1> HIDE DEF t
<1>5. t \in Seq(S) /\ Len(t) = Len(s) - 1
      /\ \A i \in 1..Len(s) - 1 : t[i] = IF i < p THEN s[i] ELSE s[i + 1]
  <2>1. t \in Seq(S) /\ Len(t) = Len(a) + Len(b)
        /\ \A i \in 1..Len(a) + Len(b) : t[i] = IF i <= Len(a) THEN a[i] ELSE b[i - Len(a)]
    BY <1>2, <1>3, <1>4, ConcatProperties
  <2>2. Len(a) + Len(b) = Len(s) - 1 /\ p \in 1..Len(s)
    BY <1>1, <1>2, <1>3
  <2>3. ASSUME NEW i \in 1..Len(s) - 1 PROVE t[i] = IF i < p THEN s[i] ELSE s[i + 1]
    <3>1. CASE i < p
      BY <1>1, <1>2, <2>1, <2>2, <3>1
    <3>2. CASE i >= p
      <4>1. i - Len(a) \in 1..Len(s) - p /\ i - Len(a) + p = i + 1
        BY <1>1, <1>2, <2>2, <3>2
      <4>2. t[i] = b[i - Len(a)]
        BY <1>1, <1>2, <2>1, <2>2, <3>2
      <4>3. b[i - Len(a)] = s[(i - Len(a)) + p]
        BY <1>3, <4>1
      <4>4. ~(i < p)
        BY <1>1, <2>2, <3>2
      <4> QED
        BY <4>1, <4>2, <4>3, <4>4
    <3> QED
      BY <1>1, <2>2, <3>1, <3>2
  <2> QED
    BY <2>1, <2>2, <2>3
<1>6. DOMAIN t = 1..Len(s) - 1
  BY <1>5, LenProperties
<1>7. ToSet(t) = ToSet(s) \ {s[p]}
  <2>1. ASSUME NEW i \in DOMAIN t PROVE t[i] \in ToSet(s) \ {s[p]}
    BY <1>1, <1>5, <1>6 DEF ToSet, IsInjective
  <2>2. ASSUME NEW i \in DOMAIN s, s[i] # s[p] PROVE s[i] \in ToSet(t)
    <3>1. CASE i < p
      <4>1. i \in DOMAIN t /\ t[i] = s[i]
        BY <1>1, <1>5, <1>6, <3>1
      <4> QED
        BY <4>1 DEF ToSet
    <3>2. CASE i > p
      <4>1. i - 1 \in DOMAIN t /\ t[i - 1] = s[i]
        BY <1>1, <1>5, <1>6, <3>2
      <4> QED
        BY <4>1 DEF ToSet
    <3> QED
      BY <1>1, <2>2, <3>1, <3>2
  <2> QED
    BY <2>1, <2>2 DEF ToSet
<1>8. IsInjective(t)
  BY <1>1, <1>5, <1>6 DEF IsInjective
<1> QED
  BY <1>5, <1>7, <1>8 DEF t

-----------------------------------------------------------------------------
\* A desktop without calls and workspaces.
LEMMA DesktopInitInv == WorkspaceInit => DesktopInv
<1> SUFFICES ASSUME WorkspaceInit PROVE DesktopInv
  OBVIOUS
<1> USE DEF WorkspaceInit
<1>1. callbacks \in Seq(Calls) /\ workspaces \in Seq(Terminals) /\ <<>> \in Seq(Terminals)
      /\ ToSet(callbacks) = {} /\ Shown = {}
  BY EmptySeq, ElementsOf DEF Shown
<1>2. IsInjective(<<>>)
  BY DEF IsInjective
<1>3. NoCall \in CallRecord
  BY DEF NoCall, CallRecord, HostNames, Replies
<1>4. NoWorkspace \in WorkspaceRecord
  BY <1>1 DEF NoWorkspace, WorkspaceRecord, HostNames
<1>5. ShapeInv
  BY <1>1, <1>2, <1>3, <1>4 DEF ShapeInv
<1>6. CallsInv /\ OwnSessionInv
  BY <1>1 DEF CallsInv, CallOk, OwnSessionInv, Queued, NoCall, None
<1>7. \A w \in Terminals : workspace[w].state = "none" /\ workspace[w].panes = <<>> /\ Panes(w) = {}
  <2>1. \A w \in Terminals : workspace[w].state = "none" /\ workspace[w].panes = <<>>
    BY DEF NoWorkspace
  <2>2. ToSet(<<>>) = {}
    BY <1>1
  <2> QED
    BY <2>1, <2>2 DEF Panes
<1>8. PanesInv /\ OwnerInv /\ ShownInv
  BY <1>1, <1>7 DEF PanesInv, PaneOk, OwnerInv, ShownInv, Made, QuitBegun
<1>9. IdsInv /\ ActiveIsShown
  BY <1>1, <1>7 DEF IdsInv, ActiveIsShown
<1>10. OneConnectInv
  BY <1>7 DEF OneConnectInv, Connects, Made, NoCall
<1> QED
  BY <1>5, <1>6, <1>8, <1>9, <1>10 DEF DesktopInv

\* A step of one call, which leaves the other calls as they are.
LEMMA OneCall ==
    ASSUME CallsInv, NEW c \in Calls, call' \in [Calls -> CallRecord],
           \A d \in Calls \ {c} : call'[d] = call[d] /\ (d \in ToSet(callbacks') <=> d \in ToSet(callbacks)),
           QuitBegun => QuitBegun', CallOk(c)'
    PROVE  CallsInv'
<1> SUFFICES ASSUME NEW d \in Calls, d # c PROVE CallOk(d)'
  BY DEF CallsInv
<1>1. CallOk(d) /\ call'[d] = call[d] /\ (Queued(d)' <=> Queued(d))
  BY DEF CallsInv, Queued
<1>2. AgentOver(d) => AgentOver(d)'
  BY <1>1 DEF AgentOver
<1> QED
  BY <1>1, <1>2 DEF CallOk

\* Workspaces and ids stay; sessions may close, and only the closed are let go.
SessionsClose ==
    /\ session' \in [Terminals -> {"none", "open", "closed"}]
    /\ \A s \in Terminals : (session'[s] = "none" <=> session[s] = "none")
                             /\ (session'[s] = "open" => session[s] = "open")
OpenIsKept(c) ==
    call[c].got # None =>
        /\ Waits(c)' => Waits(c)
        /\ session'[call[c].got] = "open" /\ Waits(c) => Waits(c)'

\* The parts that say nothing of a call's control point.
LEMMA WorldStays ==
    ASSUME DesktopInv, UNCHANGED <<workspace, tabs, terminalsDesktop, shutdown>>, SessionsClose,
           \A c \in Calls : call'[c].got = call[c].got /\ OpenIsKept(c)
    PROVE  /\ OwnSessionInv' /\ PanesInv' /\ OwnerInv' /\ ShownInv' /\ IdsInv' /\ ActiveIsShown'
<1> USE DEF tabs, terminalsDesktop
<1>1. Shown' = Shown /\ (QuitBegun' <=> QuitBegun) /\ \A w \in Terminals : Panes(w)' = Panes(w)
  BY DEF Shown, QuitBegun, Panes
<1>2. \A w \in Terminals : (Made(w)' <=> Made(w)) /\ (InForce(w)' <=> InForce(w))
  BY DEF Made, InForce
<1>3. OwnSessionInv' /\ ShownInv'
  BY <1>1 DEF DesktopInv, OwnSessionInv, ShownInv, SessionsClose, ShapeInv, CallRecord
<1>4. PanesInv'
  <2> SUFFICES ASSUME NEW w \in Terminals PROVE PaneOk(w)'
    BY DEF PanesInv
  <2>1. PaneOk(w) /\ Panes(w) \subseteq Terminals
    BY ElementsOf DEF DesktopInv, PanesInv, ShapeInv, WorkspaceRecord, Panes
  <2>2. \A s \in Panes(w) : s # None
    BY <2>1, TerminalsAreNumbers
  <2> QED
    BY <1>1, <1>2, <2>1, <2>2 DEF PaneOk, SessionsClose, OpenIsKept
<1>5. OwnerInv'
  BY <1>1, <1>2, TerminalsAreNumbers DEF DesktopInv, OwnerInv, SessionsClose, OpenIsKept
<1>6. IdsInv' /\ ActiveIsShown'
  <2>1. Shown \subseteq Terminals
    BY DEF DesktopInv, ShownInv
  <2> QED
    BY <1>1, <2>1 DEF DesktopInv, IdsInv, ActiveIsShown, ShapeInv
<1> QED
  BY <1>3, <1>4, <1>5, <1>6

\* No call begins to connect, and no workspace is made.
LEMMA ConnectsStay ==
    ASSUME DesktopInv, UNCHANGED connecting, Shown' \subseteq Shown,
           \A w \in Terminals : Made(w)' => Made(w) /\ workspace'[w].host = workspace[w].host,
           \A c \in Calls : call'[c].got # None => call'[c].got = call[c].got /\ call'[c].host = call[c].host,
           \A c \in Calls : call'[c].kind = "connect" =>
               /\ call[c].kind = "connect" /\ call'[c].host = call[c].host /\ call'[c].got = call[c].got
               /\ call'[c].pc \in {"dial", "post"} => call[c].pc \in {"dial", "post"}
    PROVE  OneConnectInv'
<1>1. \A c \in Calls : Connects(c)' => Connects(c) /\ call'[c].host = call[c].host
  BY DEF Connects
<1>2. \A c, d \in Calls : Connects(c)' /\ Connects(d)' /\ call'[c].host = call'[d].host => c = d
  BY <1>1 DEF DesktopInv, OneConnectInv
<1>3. \A c \in Calls : call'[c].kind = "connect" /\ call'[c].pc \in {"dial", "post"} => call'[c].host \in connecting'
  BY DEF DesktopInv, OneConnectInv
<1>4. \A c \in Calls, w \in Terminals : Made(w)' /\ call'[c].got = w => workspace'[w].host = call'[c].host
  BY TerminalsAreNumbers DEF DesktopInv, OneConnectInv
<1> QED
  BY <1>2, <1>3, <1>4 DEF OneConnectInv

\* A call that is new takes its kind, its host and its tab.
LEMMA BeginSets ==
    ASSUME DesktopInv, NEW c \in Calls, NEW kind \in {"connect", "split", "agent"}, NEW h \in HostNames,
           NEW w \in Terminals \cup {None}, Begin(c, kind, h, w), kind = "split" => w # None
    PROVE  /\ call \in [Calls -> CallRecord] /\ call' \in [Calls -> CallRecord]
           /\ call[c].kind = "none" /\ call[c].got = None /\ ~Waits(c) /\ ~Waits(c)'
           /\ call'[c].kind = kind /\ call'[c].host = h /\ call'[c].pc = "dial" /\ call'[c].got = None
           /\ \A d \in Calls \ {c} : call'[d] = call[d]
           /\ UNCHANGED <<callbacks, session, workspace, workspaces, sessions, shutdown, events>>
           /\ CallsInv'
<1> DEFINE r == [NoCall EXCEPT !.kind = kind, !.host = h, !.tab = w, !.pc = "dial"]
<1>1. /\ r \in CallRecord /\ r.kind = kind /\ r.host = h /\ r.tab = w /\ r.pc = "dial" /\ r.got = None /\ r.reply = "none"
  BY DEF NoCall, CallRecord, HostNames, Replies
<1> HIDE DEF r
<1>2. call' = [call EXCEPT ![c] = r] /\ call[c].pc = "new"
      /\ UNCHANGED <<callbacks, session, workspace, workspaces, sessions, shutdown, events>>
  BY DEF Begin, r
<1>3. call \in [Calls -> CallRecord] /\ CallsInv
  BY DEF DesktopInv, ShapeInv
<1>4. call' \in [Calls -> CallRecord] /\ call'[c] = r /\ \A d \in Calls \ {c} : call'[d] = call[d]
  BY <1>1, <1>2, <1>3
<1>5. call[c].kind = "none" /\ call[c].got = None /\ ~Queued(c) /\ ~Queued(c)'
  BY <1>2, <1>3 DEF CallsInv, CallOk, Queued
<1>6. CallOk(c)'
  BY <1>1, <1>4, <1>5 DEF CallOk
<1>7. CallsInv'
  BY <1>2, <1>3, <1>4, <1>6, OneCall DEF QuitBegun
<1> QED
  BY <1>1, <1>2, <1>3, <1>4, <1>5, <1>7 DEF Waits

\* What a call that begins leaves alone.
LEMMA BeginShape ==
    ASSUME DesktopInv, call' \in [Calls -> CallRecord],
           UNCHANGED <<callbacks, session, workspace, workspaces, sessions, shutdown, current, active>>
    PROVE  ShapeInv'
BY DEF DesktopInv, ShapeInv

LEMMA OthersWait ==
    ASSUME NEW c \in Calls, callbacks' = callbacks, ~Waits(c), ~Waits(c)',
           \A d \in Calls \ {c} : call'[d] = call[d]
    PROVE  \A d \in Calls : Waits(d)' <=> Waits(d)
BY DEF Waits, Queued

\* connect adds the host to App.connecting before it dials, and returns early
\* when the host is there or has a tab.
LEMMA ConnectServerStep ==
    ASSUME DesktopInv, NEW c \in Calls, NEW h \in Servers, ConnectServer(c, h)
    PROVE  DesktopInv'
<1>1. /\ ~QuitBegun /\ TabsOf(h) = {} /\ ~Busy(h) /\ connecting' = connecting \cup {h}
      /\ Begin(c, "connect", h, None) /\ UNCHANGED <<current, active>>
  BY DEF ConnectServer
<1>2. /\ call \in [Calls -> CallRecord] /\ call' \in [Calls -> CallRecord]
      /\ call[c].kind = "none" /\ call[c].got = None /\ ~Waits(c) /\ ~Waits(c)'
      /\ call'[c].kind = "connect" /\ call'[c].host = h /\ call'[c].pc = "dial" /\ call'[c].got = None
      /\ \A d \in Calls \ {c} : call'[d] = call[d]
      /\ UNCHANGED <<callbacks, session, workspace, workspaces, sessions, shutdown, events>>
      /\ CallsInv'
  BY <1>1, BeginSets DEF HostNames
<1>3. ShapeInv'
  BY <1>1, <1>2, BeginShape
<1>4. \A d \in Calls : call'[d].got = call[d].got /\ OpenIsKept(d)
  BY <1>2, OthersWait DEF OpenIsKept
<1>5. OwnSessionInv' /\ PanesInv' /\ OwnerInv' /\ ShownInv' /\ IdsInv' /\ ActiveIsShown'
  BY <1>1, <1>2, <1>3, <1>4, WorldStays DEF tabs, terminalsDesktop, SessionsClose, ShapeInv
<1>6. OneConnectInv'
  <2>1. Shown' = Shown /\ None \notin Shown
    BY <1>2, TerminalsAreNumbers DEF Shown, DesktopInv, ShownInv
  <2>2. \A d \in Calls \ {c} : (Connects(d)' <=> Connects(d)) /\ call'[d].host = call[d].host
    BY <1>2, <2>1 DEF Connects
  <2>3. \A d \in Calls \ {c} : Connects(d) => call[d].host # h
    <3> SUFFICES ASSUME NEW d \in Calls \ {c}, Connects(d), call[d].host = h PROVE FALSE
      OBVIOUS
    <3>1. h \notin connecting
      BY <1>1 DEF Busy
    <3>2. call[d].got \in Shown
      BY <3>1 DEF Connects, DesktopInv, OneConnectInv
    <3>3. Made(call[d].got) /\ call[d].got \in Terminals
      BY <3>2 DEF DesktopInv, ShownInv, Made
    <3>4. workspace[call[d].got].host = h
      BY <3>3 DEF DesktopInv, OneConnectInv
    <3> QED
      BY <1>1, <3>2, <3>4 DEF TabsOf
  <2>4. \A d, e \in Calls : Connects(d)' /\ Connects(e)' /\ call'[d].host = call'[e].host => d = e
    <3> SUFFICES ASSUME NEW d \in Calls, NEW e \in Calls, Connects(d)', Connects(e)',
                        call'[d].host = call'[e].host, d # e
                 PROVE  FALSE
      OBVIOUS
    <3>1. CASE d = c
      BY <1>2, <2>2, <2>3, <3>1
    <3>2. CASE e = c
      BY <1>2, <2>2, <2>3, <3>2
    <3>3. CASE d # c /\ e # c
      BY <2>2, <3>3 DEF DesktopInv, OneConnectInv
    <3> QED
      BY <3>1, <3>2, <3>3
  <2>5. \A d \in Calls : call'[d].kind = "connect" /\ call'[d].pc \in {"dial", "post"} => call'[d].host \in connecting'
    BY <1>1, <1>2 DEF DesktopInv, OneConnectInv
  <2>6. \A d \in Calls, w \in Terminals : Made(w)' /\ call'[d].got = w => workspace'[w].host = call'[d].host
    BY <1>2, TerminalsAreNumbers DEF DesktopInv, OneConnectInv, Made
  <2> QED
    BY <2>4, <2>5, <2>6 DEF OneConnectInv
<1> QED
  BY <1>2, <1>3, <1>5, <1>6 DEF DesktopInv

\* Nothing but the calls changes, and no call connects that did not.
LEMMA CallsOnly ==
    ASSUME DesktopInv, ShapeInv', CallsInv',
           UNCHANGED <<connecting, workspace, tabs, terminalsDesktop, shutdown>>,
           \A s \in Terminals : (session'[s] = "none" <=> session[s] = "none")
                                /\ (session'[s] = "open" => session[s] = "open"),
           \A c \in Calls : call'[c].got = call[c].got /\ OpenIsKept(c),
           \A c \in Calls : call[c].got # None => call'[c].host = call[c].host,
           \A c \in Calls : call'[c].kind = "connect" =>
               /\ call[c].kind = "connect" /\ call'[c].host = call[c].host
               /\ call'[c].pc \in {"dial", "post"} => call[c].pc \in {"dial", "post"}
    PROVE  DesktopInv'
<1>1. OwnSessionInv' /\ PanesInv' /\ OwnerInv' /\ ShownInv' /\ IdsInv' /\ ActiveIsShown'
  BY WorldStays DEF SessionsClose, ShapeInv
<1>2. OneConnectInv'
  BY ConnectsStay DEF Shown, Made, tabs
<1> QED
  BY <1>1, <1>2 DEF DesktopInv

\* The split button and openAgentTerminal begin.
LEMMA SplitStep ==
    ASSUME DesktopInv, NEW c \in Calls, Split(c)
    PROVE  DesktopInv'
<1>1. workspace[current].host \in HostNames /\ current \in Terminals /\ current # None
      /\ Begin(c, "split", workspace[current].host, current) /\ UNCHANGED <<connecting, current, active>>
  BY TerminalsAreNumbers DEF Split, DesktopInv, ShapeInv, WorkspaceRecord
<1>2. /\ call \in [Calls -> CallRecord] /\ call' \in [Calls -> CallRecord]
      /\ call[c].got = None /\ ~Waits(c) /\ ~Waits(c)' /\ call'[c].kind = "split" /\ call'[c].got = None
      /\ \A d \in Calls \ {c} : call'[d] = call[d]
      /\ UNCHANGED <<callbacks, session, workspace, workspaces, sessions, shutdown, events>>
      /\ CallsInv'
  BY <1>1, BeginSets
<1>3. ShapeInv'
  BY <1>1, <1>2, BeginShape
<1>4. \A d \in Calls : OpenIsKept(d)
  BY <1>2, OthersWait DEF OpenIsKept
<1> QED
  BY <1>1, <1>2, <1>3, <1>4, CallsOnly DEF tabs, terminalsDesktop

LEMMA AgentOpensStep ==
    ASSUME DesktopInv, NEW c \in Calls, NEW h \in Servers, AgentOpens(c, h)
    PROVE  DesktopInv'
<1>1. Begin(c, "agent", h, None) /\ UNCHANGED <<connecting, current, active>>
  BY DEF AgentOpens
<1>2. /\ call \in [Calls -> CallRecord] /\ call' \in [Calls -> CallRecord]
      /\ call[c].got = None /\ ~Waits(c) /\ ~Waits(c)' /\ call'[c].kind = "agent" /\ call'[c].got = None
      /\ \A d \in Calls \ {c} : call'[d] = call[d]
      /\ UNCHANGED <<callbacks, session, workspace, workspaces, sessions, shutdown, events>>
      /\ CallsInv'
  BY <1>1, BeginSets DEF HostNames
<1>3. ShapeInv'
  BY <1>1, <1>2, BeginShape
<1>4. \A d \in Calls : OpenIsKept(d)
  BY <1>2, OthersWait DEF OpenIsKept
<1> QED
  BY <1>1, <1>2, <1>3, <1>4, CallsOnly DEF tabs, terminalsDesktop

\* The control point and the reply of a call change, and whether it is cancelled.
CallGoesTo(c, pc, cancelled, reply) ==
    /\ call \in [Calls -> CallRecord] /\ call' \in [Calls -> CallRecord]
    /\ call'[c].pc = pc /\ call'[c].cancelled = cancelled /\ call'[c].reply = reply
    /\ call'[c].kind = call[c].kind /\ call'[c].host = call[c].host
    /\ call'[c].tab = call[c].tab /\ call'[c].got = call[c].got
    /\ \A d \in Calls \ {c} : call'[d] = call[d]

\* A call moves between control points at which it has no session.
LEMMA CallStays ==
    ASSUME DesktopInv, NEW c \in Calls, NEW pc, NEW cancelled, NEW reply, CallGoesTo(c, pc, cancelled, reply),
           UNCHANGED <<callbacks, connecting, session, workspace, tabs, terminalsDesktop, shutdown>>,
           CallOk(c)', call[c].got # None => (pc = "discard" <=> call[c].pc = "discard"),
           call[c].kind = "connect" /\ pc \in {"dial", "post"} => call[c].pc \in {"dial", "post"}
    PROVE  DesktopInv'
<1>1. CallsInv'
  BY OneCall DEF DesktopInv, CallGoesTo, QuitBegun
<1>2. ShapeInv'
  BY DEF DesktopInv, ShapeInv, CallGoesTo, tabs, terminalsDesktop
<1>3. \A d \in Calls : OpenIsKept(d)
  BY DEF OpenIsKept, Waits, Queued, CallGoesTo
<1> QED
  BY <1>1, <1>2, <1>3, CallsOnly DEF CallGoesTo

LEMMA CancelStep ==
    ASSUME DesktopInv, NEW c \in Calls, Cancel(c)
    PROVE  DesktopInv'
<1>1. CallGoesTo(c, call[c].pc, TRUE, call[c].reply)
  BY DEF DesktopInv, ShapeInv, CallRecord, Cancel, CallGoesTo
<1>2. AgentOver(c)' /\ CallOk(c) /\ (Queued(c)' <=> Queued(c))
  BY <1>1 DEF DesktopInv, CallsInv, AgentOver, CallGoesTo, Cancel, Queued
<1>3. CallOk(c)'
  BY <1>1, <1>2 DEF CallOk, CallGoesTo, Cancel
<1> QED
  BY <1>1, <1>3, CallStays DEF Cancel

LEMMA KeyAsksStep ==
    ASSUME DesktopInv, NEW c \in Calls, KeyAsks(c)
    PROVE  DesktopInv'
<1>1. CallGoesTo(c, "ask", call[c].cancelled, call[c].reply)
  BY DEF DesktopInv, ShapeInv, CallRecord, KeyAsks, CallGoesTo
<1>2. CallOk(c)'
  BY <1>1 DEF DesktopInv, CallsInv, CallOk, CallGoesTo, Queued, KeyAsks
<1> QED
  BY <1>1, <1>2, CallStays DEF KeyAsks, DesktopInv, CallsInv, CallOk

LEMMA UserTrustsStep ==
    ASSUME DesktopInv, NEW c \in Calls, UserTrusts(c)
    PROVE  DesktopInv'
<1>1. CallGoesTo(c, "dial", call[c].cancelled, "trusted")
  BY DEF DesktopInv, ShapeInv, CallRecord, Replies, UserTrusts, CallGoesTo
<1>2. CallOk(c)'
  BY <1>1 DEF DesktopInv, CallsInv, CallOk, CallGoesTo, Queued, UserTrusts
<1> QED
  BY <1>1, <1>2, CallStays DEF UserTrusts, DesktopInv, CallsInv, CallOk

LEMMA AskEndsStep ==
    ASSUME DesktopInv, NEW c \in Calls, AskEnds(c)
    PROVE  DesktopInv'
<1>1. CallGoesTo(c, "done", call[c].cancelled, "refused")
  BY DEF DesktopInv, ShapeInv, CallRecord, Replies, AskEnds, CallGoesTo
<1>2. CallOk(c)'
  BY <1>1 DEF DesktopInv, CallsInv, CallOk, CallGoesTo, Queued, AskEnds
<1> QED
  BY <1>1, <1>2, CallStays DEF AskEnds, DesktopInv, CallsInv, CallOk

LEMMA AgentReturnsStep ==
    ASSUME DesktopInv, NEW c \in Calls, AgentReturns(c)
    PROVE  DesktopInv'
<1>1. CallGoesTo(c, "done", call[c].cancelled, call[c].reply)
  BY DEF DesktopInv, ShapeInv, CallRecord, Replies, AgentReturns, Ends, CallGoesTo
<1>2. CallOk(c)'
  BY <1>1 DEF DesktopInv, CallsInv, CallOk, CallGoesTo, Queued, AgentReturns
<1> QED
  BY <1>1, <1>2, CallStays DEF AgentReturns, DesktopInv, CallsInv, CallOk

\* Manager.Terminal fails: connect still has its callback, the others only end.
LEMMA TerminalFailsStep ==
    ASSUME DesktopInv, NEW c \in Calls, TerminalFails(c)
    PROVE  DesktopInv'
<1>0. call[c].pc = "dial" /\ call[c].got = None /\ ~Queued(c)
      /\ UNCHANGED <<connecting, session, workspace, tabs, terminalsDesktop, shutdown, events>>
  BY DEF TerminalFails, DesktopInv, CallsInv, CallOk
<1>1. CASE call[c].kind = "connect"
  <2>0. call' = [call EXCEPT ![c].pc = "post"] /\ callbacks' = Append(callbacks, c)
    BY <1>1 DEF TerminalFails
  <2>1. CallGoesTo(c, "post", call[c].cancelled, call[c].reply)
    BY <2>0 DEF DesktopInv, ShapeInv, CallRecord, CallGoesTo
  <2>2. callbacks' \in Seq(Calls) /\ IsInjective(callbacks') /\ ToSet(callbacks') = ToSet(callbacks) \cup {c}
    BY <1>0, <2>0, AppendElements DEF DesktopInv, ShapeInv, Queued
  <2>3. ShapeInv'
    BY <1>0, <2>1, <2>2 DEF DesktopInv, ShapeInv, CallGoesTo, tabs, terminalsDesktop
  <2>4. CallOk(c)'
    BY <1>0, <1>1, <2>1, <2>2 DEF DesktopInv, CallsInv, CallOk, CallGoesTo, Queued
  <2>5. CallsInv'
    BY <1>0, <2>1, <2>2, <2>4, OneCall DEF DesktopInv, CallGoesTo, QuitBegun
  <2>6. \A d \in Calls : OpenIsKept(d)
    BY <1>0, <2>1, <2>2 DEF OpenIsKept, Waits, Queued, CallGoesTo
  <2> QED
    BY <1>0, <1>1, <2>1, <2>3, <2>5, <2>6, CallsOnly DEF CallGoesTo
<1>2. CASE call[c].kind # "connect"
  <2>0. call' = [call EXCEPT ![c].pc = "done", ![c].reply = "refused"] /\ callbacks' = callbacks
    BY <1>2 DEF TerminalFails
  <2>1. CallGoesTo(c, "done", call[c].cancelled, "refused")
    <3>1. call \in [Calls -> CallRecord]
      BY DEF DesktopInv, ShapeInv
    <3> QED
      BY <2>0, <3>1 DEF CallRecord, Replies, CallGoesTo
  <2>2. CallOk(c)'
    <3>1. CallOk(c) /\ ~Queued(c)'
      BY <1>0, <2>0 DEF DesktopInv, CallsInv, Queued
    <3> QED
      BY <1>0, <2>1, <3>1 DEF CallOk, CallGoesTo
  <2> QED
    BY <1>0, <2>0, <2>1, <2>2, CallStays
<1> QED
  BY <1>1, <1>2

\* CloseOne closes one session at most.
LEMMA OneCloses ==
    ASSUME ShapeInv, NEW s \in Terminals, session[s] # "none", CloseOne(s)
    PROVE  /\ session' \in [Terminals -> {"none", "open", "closed"}] /\ session'[s] = "closed"
           /\ SessionsClose /\ \A r \in Terminals \ {s} : session'[r] = session[r]
<1>1. session' = [session EXCEPT ![s] = "closed"]
  BY TerminalsAreNumbers DEF CloseOne
<1> QED
  BY <1>1 DEF ShapeInv, SessionsClose

\* The session of a call, if it has one, is closed with the call's last step.
LEMMA LetGo ==
    ASSUME DesktopInv, NEW c \in Calls, CloseOne(call[c].got), ShapeInv', CallsInv',
           UNCHANGED <<workspace, tabs, terminalsDesktop, shutdown>>,
           \A d \in Calls : call'[d].got = call[d].got,
           \A d \in Calls : call[d].got # None => (Waits(d)' => Waits(d)),
           \A d \in Calls \ {c} : call[d].got # None => (Waits(d)' <=> Waits(d))
    PROVE  /\ SessionsClose /\ \A d \in Calls : OpenIsKept(d)
<1>1. CASE call[c].got = None
  <2>1. session' = session
    BY <1>1 DEF CloseOne
  <2> QED
    BY <1>1, <2>1 DEF DesktopInv, ShapeInv, SessionsClose, OpenIsKept
<1>2. CASE call[c].got # None
  <2>1. call[c].got \in Terminals /\ session[call[c].got] # "none"
    BY <1>2 DEF DesktopInv, ShapeInv, CallRecord, OwnSessionInv
  <2>2. SessionsClose /\ session'[call[c].got] = "closed"
    BY <2>1, OneCloses DEF DesktopInv
  <2> QED
    BY <2>2 DEF OpenIsKept
<1> QED
  BY <1>1, <1>2

LEMMA ShapeCloses ==
    ASSUME DesktopInv, NEW c \in Calls, CloseOne(call[c].got)
    PROVE  session' \in [Terminals -> {"none", "open", "closed"}]
BY DEF DesktopInv, ShapeInv, CloseOne

\* The steps that close the session they hold: a split whose callback was
\* refused, and openAgentTerminal when its context has ended.
LEMMA DiscardStep ==
    ASSUME DesktopInv, NEW c \in Calls, Discard(c)
    PROVE  DesktopInv'
<1>0. call[c].pc = "discard" /\ CloseOne(call[c].got) /\ call' = [call EXCEPT ![c].pc = "done"]
      /\ UNCHANGED <<callbacks, connecting, workspace, tabs, terminalsDesktop, shutdown, events>>
  BY DEF Discard, Ends
<1>1. CallGoesTo(c, "done", call[c].cancelled, call[c].reply)
  BY <1>0 DEF DesktopInv, ShapeInv, CallRecord, CallGoesTo
<1>2. CallOk(c)'
  BY <1>0, <1>1 DEF DesktopInv, CallsInv, CallOk, CallGoesTo, Queued
<1>3. CallsInv'
  BY <1>0, <1>1, <1>2, OneCall DEF DesktopInv, CallGoesTo, QuitBegun
<1>4. ShapeInv'
  BY <1>0, <1>1, ShapeCloses DEF DesktopInv, ShapeInv, CallGoesTo, tabs, terminalsDesktop
<1>5. \A d \in Calls : (Waits(d)' => Waits(d)) /\ (d # c => (Waits(d)' <=> Waits(d)))
  BY <1>0, <1>1 DEF Waits, Queued, CallGoesTo
<1>6. SessionsClose /\ \A d \in Calls : OpenIsKept(d)
  BY <1>0, <1>1, <1>3, <1>4, <1>5, LetGo DEF CallGoesTo
<1> QED
  BY <1>0, <1>1, <1>3, <1>4, <1>6, CallsOnly DEF CallGoesTo, SessionsClose

LEMMA AgentGivesUpStep ==
    ASSUME DesktopInv, NEW c \in Calls, AgentGivesUp(c)
    PROVE  DesktopInv'
<1> DEFINE pc == IF Queued(c) THEN "post" ELSE "done"
<1>0. call[c].kind = "agent" /\ call[c].pc = "post" /\ ContextEnded(c) /\ CloseOne(call[c].got)
      /\ call' = [call EXCEPT ![c].reply = "given up", ![c].pc = pc]
      /\ UNCHANGED <<callbacks, connecting, workspace, tabs, terminalsDesktop, shutdown, events>>
  BY DEF AgentGivesUp, Queued
<1>1. CallGoesTo(c, pc, call[c].cancelled, "given up")
  <2>1. pc \in {"post", "done"}
    OBVIOUS
  <2> HIDE DEF pc
  <2> QED
    BY <1>0, <2>1 DEF DesktopInv, ShapeInv, CallRecord, Replies, CallGoesTo
<1>2. CallOk(c)'
  <2>1. CallOk(c) /\ (Queued(c)' <=> Queued(c))
    BY <1>0 DEF DesktopInv, CallsInv, Queued
  <2>2. AgentOver(c)'
    BY <1>0, <1>1 DEF ContextEnded, AgentOver, CallGoesTo, QuitBegun
  <2>3. (Queued(c) => pc = "post") /\ (~Queued(c) => pc = "done")
    OBVIOUS
  <2> HIDE DEF pc
  <2> QED
    BY <1>0, <1>1, <2>1, <2>2, <2>3 DEF CallOk, CallGoesTo
<1>3. CallsInv'
  BY <1>0, <1>1, <1>2, OneCall DEF DesktopInv, CallGoesTo, QuitBegun
<1>4. ShapeInv'
  BY <1>0, <1>1, ShapeCloses DEF DesktopInv, ShapeInv, CallGoesTo, tabs, terminalsDesktop
<1>5. (Waits(c)' => Waits(c)) /\ \A d \in Calls \ {c} : Waits(d)' <=> Waits(d)
  <2>1. \A d \in Calls : Queued(d)' <=> Queued(d)
    BY <1>0 DEF Queued
  <2>2. call'[c].pc # "discard" /\ \A d \in Calls \ {c} : call'[d] = call[d]
    <3>1. pc # "discard"
      OBVIOUS
    <3> HIDE DEF pc
    <3> QED
      BY <1>1, <3>1 DEF CallGoesTo
  <2> QED
    BY <2>1, <2>2 DEF Waits
<1>6. SessionsClose /\ \A d \in Calls : OpenIsKept(d)
  BY <1>0, <1>1, <1>3, <1>4, <1>5, LetGo DEF CallGoesTo
<1> QED
  BY <1>0, <1>1, <1>3, <1>4, <1>6, CallsOnly DEF CallGoesTo, SessionsClose

\* Manager.Terminal succeeds: the session is new, is the call's, and its callback
\* is queued.
LEMMA TerminalOpensStep ==
    ASSUME DesktopInv, NEW c \in Calls, TerminalOpens(c)
    PROVE  DesktopInv'
<1> PICK s \in Terminals :
          /\ Fresh(s)
          /\ session' = [session EXCEPT ![s] = "open"]
          /\ call' = [call EXCEPT ![c].pc = "post", ![c].got = s]
  BY DEF TerminalOpens
<1>0. /\ call[c].pc = "dial" /\ call[c].got = None /\ ~Queued(c) /\ session[s] = "none" /\ s # None
      /\ callbacks' = Append(callbacks, c)
      /\ UNCHANGED <<connecting, workspace, tabs, terminalsDesktop, shutdown, events>>
  BY TerminalsAreNumbers DEF TerminalOpens, DesktopInv, CallsInv, CallOk, Fresh
<1>1. /\ call \in [Calls -> CallRecord] /\ call' \in [Calls -> CallRecord]
      /\ call'[c].pc = "post" /\ call'[c].got = s /\ call'[c].kind = call[c].kind /\ call'[c].host = call[c].host
      /\ call'[c].tab = call[c].tab /\ call'[c].reply = call[c].reply
      /\ \A d \in Calls \ {c} : call'[d] = call[d]
  <2>1. call \in [Calls -> CallRecord]
    BY DEF DesktopInv, ShapeInv
  <2> QED
    BY <2>1 DEF CallRecord
<1>2. callbacks' \in Seq(Calls) /\ IsInjective(callbacks') /\ ToSet(callbacks') = ToSet(callbacks) \cup {c}
  BY <1>0, AppendElements DEF DesktopInv, ShapeInv, Queued
<1>3. ShapeInv'
  BY <1>0, <1>1, <1>2 DEF DesktopInv, ShapeInv, tabs, terminalsDesktop
<1>4. CallsInv'
  <2>1. CallOk(c) /\ Queued(c)'
    BY <1>2 DEF DesktopInv, CallsInv, Queued
  <2>2. CallOk(c)'
    BY <1>0, <1>1, <2>1 DEF CallOk
  <2> QED
    BY <1>0, <1>1, <1>2, <2>2, OneCall DEF DesktopInv, QuitBegun
<1>5. \A d \in Calls : call[d].got # s
  BY <1>0 DEF DesktopInv, OwnSessionInv
<1>6. OwnSessionInv'
  BY <1>0, <1>1, <1>3, <1>5 DEF DesktopInv, OwnSessionInv, ShapeInv, CallRecord
<1>7. \A w \in Terminals : Panes(w)' = Panes(w) /\ (Made(w)' <=> Made(w)) /\ (InForce(w)' <=> InForce(w))
  BY <1>0 DEF Panes, Made, InForce
<1>8. \A d \in Calls \ {c} : Waits(d)' <=> Waits(d)
  BY <1>1, <1>2 DEF Waits, Queued
<1>9. PanesInv'
  <2> SUFFICES ASSUME NEW w \in Terminals PROVE PaneOk(w)'
    BY DEF PanesInv
  <2>1. PaneOk(w) /\ Panes(w) \subseteq Terminals
    BY ElementsOf DEF DesktopInv, PanesInv, ShapeInv, WorkspaceRecord, Panes
  <2>2. s \notin Panes(w)
    BY <1>0, <2>1 DEF PaneOk
  <2>3. ASSUME NEW r \in Panes(w)
        PROVE  session'[r] # "none" /\ \A d \in Calls : call'[d].got = r => ~Waits(d)'
    BY <1>0, <1>1, <1>8, <2>1, <2>2 DEF PaneOk, DesktopInv, ShapeInv
  <2>4. workspace' = workspace
    BY <1>0
  <2> QED
    BY <1>7, <2>1, <2>3, <2>4 DEF PaneOk
<1>10. OwnerInv'
  <2> SUFFICES ASSUME NEW r \in Terminals, session'[r] = "open"
               PROVE  \/ \E d \in Calls : call'[d].got = r /\ Waits(d)'
                      \/ \E w \in Terminals : InForce(w)' /\ r \in Panes(w)'
    BY DEF OwnerInv
  <2>1. CASE r = s
    BY <1>1, <1>2, <2>1 DEF Waits, Queued
  <2>2. CASE r # s
    <3>1. session[r] = "open"
      BY <2>2 DEF DesktopInv, ShapeInv
    <3>2. CASE \E d \in Calls : call[d].got = r /\ Waits(d)
      <4>1. PICK d \in Calls : call[d].got = r /\ Waits(d)
        BY <3>2
      <4>2. d # c
        BY <1>0, <4>1, TerminalsAreNumbers
      <4> QED
        BY <1>1, <1>8, <4>1, <4>2
    <3> QED
      BY <1>7, <3>1, <3>2 DEF DesktopInv, OwnerInv
  <2> QED
    BY <2>1, <2>2
<1>11. Shown' = Shown /\ (QuitBegun' <=> QuitBegun) /\ ShownInv' /\ ActiveIsShown'
  BY <1>0 DEF Shown, QuitBegun, ShownInv, ActiveIsShown, DesktopInv, tabs, terminalsDesktop, Panes
<1>12. IdsInv'
  <2>1. Shown \subseteq Terminals
    BY DEF DesktopInv, ShownInv
  <2> QED
    BY <1>0, <1>7, <1>11, <2>1 DEF DesktopInv, IdsInv, terminalsDesktop
<1>13. OneConnectInv'
  <2>1. s \notin Shown /\ ~Made(s)
    <3>1. Made(s) => s \in Panes(s)
      BY ElementsOf DEF DesktopInv, PanesInv, PaneOk, ShapeInv, WorkspaceRecord, Panes
    <3>2. ~Made(s)
      BY <1>0, <3>1 DEF DesktopInv, PanesInv, PaneOk
    <3> QED
      BY <3>2 DEF DesktopInv, ShownInv, Made
  <2>2. \A d \in Calls : Connects(d)' => Connects(d) /\ call'[d].host = call[d].host
    BY <1>0, <1>1, <1>11, <2>1 DEF Connects
  <2>3. \A d, e \in Calls : Connects(d)' /\ Connects(e)' /\ call'[d].host = call'[e].host => d = e
    BY <2>2 DEF DesktopInv, OneConnectInv
  <2>4. \A d \in Calls : call'[d].kind = "connect" /\ call'[d].pc \in {"dial", "post"} => call'[d].host \in connecting'
    BY <1>0, <1>1 DEF DesktopInv, OneConnectInv
  <2>5. \A d \in Calls, w \in Terminals : Made(w)' /\ call'[d].got = w => workspace'[w].host = call'[d].host
    BY <1>0, <1>1, <1>7, <2>1 DEF DesktopInv, OneConnectInv
  <2> QED
    BY <2>3, <2>4, <2>5 DEF OneConnectInv
<1> QED
  BY <1>3, <1>4, <1>6, <1>9, <1>10, <1>11, <1>12, <1>13 DEF DesktopInv

-----------------------------------------------------------------------------
\* What the invariant says of the sets the actions of the tabs are built from.
LEMMA PanesAreTerminals ==
    ASSUME DesktopInv
    PROVE  /\ \A w \in Terminals : Panes(w) \subseteq Terminals
           /\ \A w \in Terminals : Made(w) => w \in Panes(w)
           /\ Shown \subseteq Terminals /\ None \notin Shown
           /\ \A w \in Shown : Made(w)
<1>1. ASSUME NEW w \in Terminals
      PROVE  Panes(w) \subseteq Terminals /\ (workspace[w].panes # <<>> => workspace[w].panes[1] \in Panes(w))
  <2>1. workspace[w].panes \in Seq(Terminals)
    BY DEF DesktopInv, ShapeInv, WorkspaceRecord
  <2> QED
    BY <2>1, ElementsOf DEF Panes
<1>2. \A w \in Terminals : Made(w) => w \in Panes(w)
  BY <1>1 DEF DesktopInv, PanesInv, PaneOk
<1> QED
  BY <1>1, <1>2, TerminalsAreNumbers DEF DesktopInv, ShownInv, Made

\* No call moves, and no pane comes or goes; a workspace that is not in force
\* any more has no open session.
LEMMA PanesStay ==
    ASSUME DesktopInv, UNCHANGED calling, SessionsClose, Shown' \subseteq Shown, QuitBegun => QuitBegun',
           \A w \in Terminals :
               /\ workspace'[w].panes = workspace[w].panes /\ workspace'[w].host = workspace[w].host
               /\ (Made(w)' <=> Made(w)) /\ (Made(w) => workspace'[w].focus \in Panes(w))
               /\ InForce(w) => InForce(w)' \/ \A s \in Panes(w) : session'[s] # "open"
    PROVE  CallsInv' /\ OwnSessionInv' /\ PanesInv' /\ OwnerInv' /\ OneConnectInv'
<1>1. \A w \in Terminals : Panes(w)' = Panes(w)
  BY DEF Panes
<1>2. \A c \in Calls : call'[c] = call[c] /\ (Queued(c)' <=> Queued(c)) /\ (Waits(c)' <=> Waits(c))
  BY DEF calling, Queued, Waits
<1>3. CallsInv'
  <2> SUFFICES ASSUME NEW c \in Calls PROVE CallOk(c)'
    BY DEF CallsInv
  <2>1. CallOk(c) /\ (AgentOver(c) => AgentOver(c)')
    BY <1>2 DEF DesktopInv, CallsInv, AgentOver
  <2> QED
    BY <1>2, <2>1 DEF CallOk
<1>4. OwnSessionInv'
  BY <1>2 DEF DesktopInv, OwnSessionInv, SessionsClose, ShapeInv, CallRecord
<1>5. PanesInv'
  <2> SUFFICES ASSUME NEW w \in Terminals PROVE PaneOk(w)'
    BY DEF PanesInv
  <2>1. PaneOk(w) /\ Panes(w) \subseteq Terminals
    BY PanesAreTerminals DEF DesktopInv, PanesInv
  <2>2. \A s \in Panes(w) : session'[s] # "none"
    BY <2>1 DEF PaneOk, SessionsClose
  <2> QED
    BY <1>1, <1>2, <2>1, <2>2 DEF PaneOk
<1>6. OwnerInv'
  <2> SUFFICES ASSUME NEW s \in Terminals, session'[s] = "open"
               PROVE  \/ \E c \in Calls : call'[c].got = s /\ Waits(c)'
                      \/ \E w \in Terminals : InForce(w)' /\ s \in Panes(w)'
    BY DEF OwnerInv
  <2>1. session[s] = "open"
    BY DEF SessionsClose
  <2> QED
    BY <1>1, <1>2, <2>1 DEF DesktopInv, OwnerInv
<1>7. OneConnectInv'
  BY <1>2, ConnectsStay DEF calling
<1> QED
  BY <1>3, <1>4, <1>5, <1>6, <1>7

LEMMA SessionsStay ==
    ASSUME DesktopInv, UNCHANGED session
    PROVE  SessionsClose
BY DEF DesktopInv, ShapeInv, SessionsClose

\* Selecting a tab or a pane makes a pane of the selected tab active.
LEMMA UserSelectsStep ==
    ASSUME DesktopInv, NEW w \in Terminals, UserSelects(w)
    PROVE  DesktopInv'
<1>1. /\ ~QuitBegun /\ w \in Shown /\ current' = w /\ active' = w
      /\ UNCHANGED <<calling, session, workspace, workspaces, sessions, shutdown>>
  BY DEF UserSelects, SelectTab, SelectWorkspace
<1>2. Shown' = Shown /\ (QuitBegun' <=> QuitBegun)
      /\ \A v \in Terminals : Panes(v)' = Panes(v) /\ (Made(v)' <=> Made(v)) /\ (InForce(v)' <=> InForce(v))
  BY <1>1 DEF Shown, QuitBegun, Panes, Made, InForce
<1>3. CallsInv' /\ OwnSessionInv' /\ PanesInv' /\ OwnerInv' /\ OneConnectInv'
  <2>1. \A v \in Terminals : Made(v) => workspace[v].focus \in Panes(v)
    BY DEF DesktopInv, PanesInv, PaneOk
  <2> QED
    BY <1>1, <1>2, <2>1, SessionsStay, PanesStay
<1>4. ShapeInv' /\ ShownInv'
  BY <1>1, <1>2 DEF DesktopInv, ShapeInv, ShownInv, calling
<1>5. IdsInv' /\ ActiveIsShown'
  <2>1. w \in Panes(w) /\ w # None
    BY <1>1, PanesAreTerminals, TerminalsAreNumbers
  <2> QED
    BY <1>1, <1>2, <2>1, PanesAreTerminals DEF DesktopInv, IdsInv, ActiveIsShown
<1> QED
  BY <1>3, <1>4, <1>5 DEF DesktopInv

LEMMA FocusTerminalStep ==
    ASSUME DesktopInv, NEW s \in Terminals, FocusTerminal(s)
    PROVE  DesktopInv'
<1>1. /\ ~QuitBegun /\ current # None /\ s \in Panes(current) /\ active' = s
      /\ workspace' = [workspace EXCEPT ![current].focus = s]
      /\ UNCHANGED <<calling, session, tabs, sessions, shutdown>>
  BY DEF FocusTerminal
<1>2. current \in Terminals
  BY <1>1 DEF DesktopInv, ShapeInv
<1>3. /\ workspace' \in [Terminals -> WorkspaceRecord]
      /\ \A v \in Terminals : /\ workspace'[v].panes = workspace[v].panes /\ workspace'[v].host = workspace[v].host
                              /\ workspace'[v].state = workspace[v].state
                              /\ workspace'[v].focus = IF v = current THEN s ELSE workspace[v].focus
  <2>1. workspace \in [Terminals -> WorkspaceRecord]
    BY DEF DesktopInv, ShapeInv
  <2> QED
    BY <1>1, <1>2, <2>1 DEF WorkspaceRecord
<1>4. Shown' = Shown /\ (QuitBegun' <=> QuitBegun)
      /\ \A v \in Terminals : Panes(v)' = Panes(v) /\ (Made(v)' <=> Made(v)) /\ (InForce(v)' <=> InForce(v))
  BY <1>1, <1>3 DEF Shown, QuitBegun, Panes, Made, InForce, tabs
<1>5. CallsInv' /\ OwnSessionInv' /\ PanesInv' /\ OwnerInv' /\ OneConnectInv'
  <2>1. \A v \in Terminals : Made(v) => workspace'[v].focus \in Panes(v)
    BY <1>1, <1>3 DEF DesktopInv, PanesInv, PaneOk
  <2> QED
    BY <1>1, <1>3, <1>4, <2>1, SessionsStay, PanesStay
<1>6. ShapeInv' /\ ShownInv'
  BY <1>1, <1>3, <1>4 DEF DesktopInv, ShapeInv, ShownInv, calling, tabs
<1>7. IdsInv' /\ ActiveIsShown'
  BY <1>1, <1>2, <1>3, <1>4, PanesAreTerminals DEF DesktopInv, IdsInv, ActiveIsShown, tabs
<1> QED
  BY <1>5, <1>6, <1>7 DEF DesktopInv

\* The tab that takes the place of a closed one is another tab that is shown.
LEMMA NeighbourIsShown ==
    ASSUME DesktopInv, NEW w \in Shown
    PROVE  /\ Without(w) \in Seq(Terminals) /\ IsInjective(Without(w))
           /\ ToSet(Without(w)) = Shown \ {w}
           /\ Neighbour(w) \in Shown \ {w} \/ (Neighbour(w) = None /\ Shown \ {w} = {})
<1> DEFINE p == Position(w)
           n == Len(workspaces)
           left == Without(w)
<1>1. workspaces \in Seq(Terminals) /\ IsInjective(workspaces)
  BY DEF DesktopInv, ShapeInv
<1>2. n \in Nat /\ DOMAIN workspaces = 1..n
  BY <1>1, LenProperties
<1>3. p \in DOMAIN workspaces /\ workspaces[p] = w
  BY DEF Position, Shown, ToSet
<1>4. left \in Seq(Terminals) /\ Len(left) = n - 1 /\ ToSet(left) = Shown \ {w} /\ IsInjective(left)
  BY <1>1, <1>3, RemoveElement DEF Without, Shown
<1>5. DOMAIN left = 1..n - 1
  BY <1>4, LenProperties
<1>6. CASE left = <<>>
  BY <1>4, <1>6, ElementsOf DEF Neighbour
<1>7. CASE left # <<>>
  <2> DEFINE i == IF p > 1 THEN p - 1 ELSE 1
  <2>1. i \in DOMAIN left
    BY <1>2, <1>3, <1>4, <1>5, <1>7, EmptySeq
  <2>2. Neighbour(w) = left[i]
    BY <1>7 DEF Neighbour
  <2>3. left[i] \in ToSet(left)
    BY <2>1 DEF ToSet
  <2> QED
    BY <1>4, <2>2, <2>3
<1> QED
  BY <1>4, <1>6, <1>7

\* closeWorkspace takes the tab and the ids away and leaves the sessions open;
\* the goroutine it starts closes them.
LEMMA CloseWorkspaceStep ==
    ASSUME DesktopInv, NEW w \in Terminals, CloseWorkspace(w)
    PROVE  DesktopInv'
<1>1. /\ ~QuitBegun /\ w \in Shown /\ workspaces' = Without(w)
      /\ workspace' = [workspace EXCEPT ![w].state = "cancelled"]
      /\ sessions' = sessions \ Panes(w)
      /\ current' = IF current = w THEN Neighbour(w) ELSE current
      /\ active' = current'
      /\ UNCHANGED <<calling, session, shutdown, events>>
  BY DEF CloseWorkspace, SelectWorkspace
<1>2. /\ Without(w) \in Seq(Terminals) /\ IsInjective(Without(w)) /\ Shown' = Shown \ {w}
      /\ Neighbour(w) \in Shown \ {w} \/ (Neighbour(w) = None /\ Shown \ {w} = {})
  BY <1>1, NeighbourIsShown DEF Shown
<1>3. /\ workspace' \in [Terminals -> WorkspaceRecord]
      /\ \A v \in Terminals : /\ workspace'[v].panes = workspace[v].panes /\ workspace'[v].host = workspace[v].host
                              /\ workspace'[v].focus = workspace[v].focus
                              /\ workspace'[v].state = IF v = w THEN "cancelled" ELSE workspace[v].state
  <2>1. workspace \in [Terminals -> WorkspaceRecord]
    BY DEF DesktopInv, ShapeInv
  <2> QED
    BY <1>1, <2>1 DEF WorkspaceRecord
<1>4. workspace[w].state = "open"
  BY <1>1 DEF DesktopInv, ShownInv
<1>5. (QuitBegun' <=> QuitBegun)
      /\ \A v \in Terminals : Panes(v)' = Panes(v) /\ (Made(v)' <=> Made(v)) /\ (InForce(v)' <=> InForce(v))
  BY <1>1, <1>3, <1>4 DEF QuitBegun, Panes, Made, InForce
<1>6. CallsInv' /\ OwnSessionInv' /\ PanesInv' /\ OwnerInv' /\ OneConnectInv'
  <2>1. \A v \in Terminals : Made(v) => workspace'[v].focus \in Panes(v)
    BY <1>3 DEF DesktopInv, PanesInv, PaneOk
  <2> QED
    BY <1>1, <1>2, <1>3, <1>5, <2>1, SessionsStay, PanesStay
<1>7. current' \in Shown' \/ (current' = None /\ Shown' = {})
  BY <1>1, <1>2 DEF DesktopInv, ActiveIsShown
<1>8. ShapeInv' /\ ShownInv'
  <2>1. ShownInv'
    BY <1>1, <1>2, <1>3, <1>5 DEF DesktopInv, ShownInv
  <2>2. current' \in Terminals \cup {None}
    BY <1>2, <1>7, PanesAreTerminals
  <2> QED
    BY <1>1, <1>2, <1>3, <2>1, <2>2 DEF DesktopInv, ShapeInv, calling
<1>9. IdsInv'
  <2>1. \A v \in Terminals : \A s \in Panes(v) : s \in Panes(w) => v = w
    BY DEF DesktopInv, PanesInv, PaneOk
  <2>2. ASSUME NEW s \in Terminals
        PROVE  s \in sessions' <=> \E v \in Shown' : s \in Panes(v)'
    <3>1. s \in sessions <=> \E v \in Shown : s \in Panes(v)
      BY <1>1 DEF DesktopInv, IdsInv
    <3>2. \A v \in Shown : s \in Panes(v) /\ s \in Panes(w) => v = w
      BY <2>1, PanesAreTerminals
    <3>3. \A v \in Shown' : v \in Shown /\ v # w /\ Panes(v)' = Panes(v)
      BY <1>2, <1>5, PanesAreTerminals
    <3>4. \A v \in Shown : v # w => v \in Shown' /\ Panes(v)' = Panes(v)
      BY <1>2, <1>5, PanesAreTerminals
    <3> QED
      BY <1>1, <3>1, <3>2, <3>3, <3>4
  <2>3. \A v \in Terminals : workspace'[v].state = "closed" => \A s \in Panes(v)' : s \notin sessions'
    BY <1>1, <1>3, <1>5 DEF DesktopInv, IdsInv
  <2> QED
    BY <2>2, <2>3 DEF IdsInv
<1>10. ActiveIsShown'
  <2>1. \A v \in Shown' : v \in ToSet(workspace'[v].panes)
    BY <1>2, <1>3, PanesAreTerminals DEF Panes
  <2>2. current' # None => current' \in ToSet(workspace'[current'].panes)
    BY <1>7, <2>1
  <2> QED
    BY <1>1, <1>7, <2>2 DEF ActiveIsShown, Panes
<1> QED
  BY <1>6, <1>8, <1>9, <1>10 DEF DesktopInv

LEMMA WorkspaceClosesStep ==
    ASSUME DesktopInv, NEW w \in Terminals, WorkspaceCloses(w)
    PROVE  DesktopInv'
<1>1. /\ workspace[w].state = "cancelled"
      /\ workspace' = [workspace EXCEPT ![w].state = "closed"]
      /\ session' = [s \in Terminals |-> IF s \in Panes(w) THEN "closed" ELSE session[s]]
      /\ sessions' = sessions \ Panes(w)
      /\ active' = IF active \in Panes(w) THEN None ELSE active
      /\ UNCHANGED <<calling, tabs, shutdown, events>>
  BY DEF WorkspaceCloses, CloseSessions
<1>2. w \notin Shown
  BY <1>1 DEF DesktopInv, ShownInv
<1>3. /\ workspace' \in [Terminals -> WorkspaceRecord]
      /\ \A v \in Terminals : /\ workspace'[v].panes = workspace[v].panes /\ workspace'[v].host = workspace[v].host
                              /\ workspace'[v].focus = workspace[v].focus
                              /\ workspace'[v].state = IF v = w THEN "closed" ELSE workspace[v].state
  <2>1. workspace \in [Terminals -> WorkspaceRecord]
    BY DEF DesktopInv, ShapeInv
  <2> QED
    BY <1>1, <2>1 DEF WorkspaceRecord
<1>4. Shown' = Shown /\ (QuitBegun' <=> QuitBegun)
      /\ \A v \in Terminals : Panes(v)' = Panes(v) /\ (Made(v)' <=> Made(v)) /\ (v # w => (InForce(v)' <=> InForce(v)))
  BY <1>1, <1>3 DEF Shown, QuitBegun, Panes, Made, InForce, tabs
<1>5. SessionsClose /\ \A s \in Panes(w) : session'[s] # "open"
  <2>1. \A s \in Panes(w) : s \in Terminals /\ session[s] # "none"
    BY PanesAreTerminals DEF DesktopInv, PanesInv, PaneOk
  <2>2. \A s \in Terminals : session'[s] = IF s \in Panes(w) THEN "closed" ELSE session[s]
    BY <1>1
  <2>3. session' \in [Terminals -> {"none", "open", "closed"}]
    BY <1>1 DEF DesktopInv, ShapeInv
  <2> QED
    BY <2>1, <2>2, <2>3 DEF SessionsClose
<1>6. CallsInv' /\ OwnSessionInv' /\ PanesInv' /\ OwnerInv' /\ OneConnectInv'
  <2>1. \A v \in Terminals : Made(v) => workspace'[v].focus \in Panes(v)
    BY <1>3 DEF DesktopInv, PanesInv, PaneOk
  <2> QED
    BY <1>1, <1>3, <1>4, <1>5, <2>1, PanesStay
<1>7. ShapeInv' /\ ShownInv'
  BY <1>1, <1>2, <1>3, <1>4, <1>5 DEF DesktopInv, ShapeInv, ShownInv, calling, tabs, SessionsClose
<1>8. \A v \in Terminals : \A s \in Panes(v) : s \in Panes(w) => v = w
  BY DEF DesktopInv, PanesInv, PaneOk
<1>9. IdsInv'
  <2>1. ASSUME ~QuitBegun, NEW s \in Terminals
        PROVE  s \in sessions' <=> \E v \in Shown' : s \in Panes(v)'
    <3>1. s \in sessions <=> \E v \in Shown : s \in Panes(v)
      BY <2>1 DEF DesktopInv, IdsInv
    <3>2. \A v \in Shown : s \in Panes(v) => s \notin Panes(w)
      BY <1>2, <1>8, PanesAreTerminals
    <3>3. \A v \in Shown : Panes(v)' = Panes(v)
      BY <1>4, PanesAreTerminals
    <3> QED
      BY <1>1, <1>4, <3>1, <3>2, <3>3
  <2>2. \A v \in Terminals : workspace'[v].state = "closed" => \A s \in Panes(v)' : s \notin sessions'
    BY <1>1, <1>3, <1>4 DEF DesktopInv, IdsInv
  <2> QED
    BY <1>4, <2>1, <2>2 DEF IdsInv
<1>10. ActiveIsShown'
  <2>1. CASE QuitBegun
    BY <1>4, <2>1 DEF ActiveIsShown
  <2>2. CASE ~QuitBegun
    <3>1. current \in Shown \/ (current = None /\ Shown = {})
      BY <2>2 DEF DesktopInv, ActiveIsShown
    <3>2. CASE current = None
      <4>1. active = None
        BY <2>2, <3>2 DEF DesktopInv, ActiveIsShown
      <4>2. active' = None /\ current' = None
        BY <1>1, <3>2, <4>1 DEF tabs
      <4> QED
        BY <1>4, <3>1, <3>2, <4>2 DEF ActiveIsShown
    <3>3. CASE current # None
      <4>1. active \in Panes(current) /\ current \in Shown /\ current \in Terminals
        BY <2>2, <3>1, <3>3, PanesAreTerminals DEF DesktopInv, ActiveIsShown
      <4>2. active \notin Panes(w)
        BY <1>2, <1>8, <4>1
      <4>3. active' = active /\ current' = current
        BY <1>1, <4>2 DEF tabs
      <4> QED
        BY <1>4, <3>3, <4>1, <4>3 DEF ActiveIsShown
    <3> QED
      BY <3>2, <3>3
  <2> QED
    BY <2>1, <2>2
<1> QED
  BY <1>6, <1>7, <1>9, <1>10 DEF DesktopInv

\* A shell that ends closes its session and leaves its pane.
LEMMA SessionEndsStep ==
    ASSUME DesktopInv, NEW s \in Terminals, SessionEnds(s)
    PROVE  DesktopInv'
<1>1. session[s] = "open" /\ session' = [session EXCEPT ![s] = "closed"]
      /\ UNCHANGED <<calling, workspace, tabs, terminalsDesktop, shutdown>>
  BY DEF SessionEnds
<1>2. SessionsClose
  BY <1>1 DEF DesktopInv, ShapeInv, SessionsClose
<1>3. Shown' = Shown /\ (QuitBegun' <=> QuitBegun)
      /\ \A v \in Terminals : Panes(v)' = Panes(v) /\ (Made(v)' <=> Made(v)) /\ (InForce(v)' <=> InForce(v))
  BY <1>1 DEF Shown, QuitBegun, Panes, Made, InForce, tabs
<1>4. CallsInv' /\ OwnSessionInv' /\ PanesInv' /\ OwnerInv' /\ OneConnectInv'
  <2>1. \A v \in Terminals : Made(v) => workspace[v].focus \in Panes(v)
    BY DEF DesktopInv, PanesInv, PaneOk
  <2> QED
    BY <1>1, <1>2, <1>3, <2>1, PanesStay
<1>5. ShapeInv' /\ ShownInv'
  BY <1>1, <1>2, <1>3 DEF DesktopInv, ShapeInv, ShownInv, calling, tabs, terminalsDesktop, SessionsClose
<1>6. IdsInv' /\ ActiveIsShown'
  BY <1>1, <1>3, PanesAreTerminals DEF DesktopInv, IdsInv, ActiveIsShown, tabs, terminalsDesktop
<1> QED
  BY <1>4, <1>5, <1>6 DEF DesktopInv

\* Quit takes every tab at once, and then closes what the workspaces have.
LEMMA QuitStep ==
    ASSUME DesktopInv, Quit
    PROVE  DesktopInv'
<1>1. /\ shutdown' = "manager" /\ workspaces' = <<>> /\ UNCHANGED current
      /\ workspace' = [w \in Terminals |->
            IF workspace[w].state = "open" THEN [workspace[w] EXCEPT !.state = "cancelled"] ELSE workspace[w]]
      /\ UNCHANGED <<calling, session, terminalsDesktop, events>>
  BY DEF Quit
<1>2. /\ workspace' \in [Terminals -> WorkspaceRecord]
      /\ \A v \in Terminals :
            /\ workspace'[v].panes = workspace[v].panes /\ workspace'[v].host = workspace[v].host
            /\ workspace'[v].focus = workspace[v].focus
            /\ workspace'[v].state = IF workspace[v].state = "open" THEN "cancelled" ELSE workspace[v].state
  <2>1. workspace \in [Terminals -> WorkspaceRecord]
    BY DEF DesktopInv, ShapeInv
  <2> QED
    BY <1>1, <2>1 DEF WorkspaceRecord
<1>3. Shown' = {} /\ workspaces' \in Seq(Terminals) /\ IsInjective(workspaces') /\ QuitBegun'
  <2>1. workspaces' \in Seq(Terminals) /\ IsInjective(workspaces')
    BY <1>1, EmptySeq DEF IsInjective
  <2>2. ToSet(<<>>) = {}
    BY EmptySeq, ElementsOf DEF DesktopInv, ShapeInv
  <2> QED
    BY <1>1, <2>1, <2>2 DEF Shown, QuitBegun
<1>4. \A v \in Terminals : Panes(v)' = Panes(v) /\ (Made(v)' <=> Made(v)) /\ (InForce(v)' <=> InForce(v))
  BY <1>2 DEF Panes, Made, InForce
<1>5. CallsInv' /\ OwnSessionInv' /\ PanesInv' /\ OwnerInv' /\ OneConnectInv'
  <2>1. \A v \in Terminals : Made(v) => workspace'[v].focus \in Panes(v)
    BY <1>2 DEF DesktopInv, PanesInv, PaneOk
  <2> QED
    BY <1>1, <1>2, <1>3, <1>4, <2>1, SessionsStay, PanesStay
<1>6. ShapeInv' /\ ShownInv'
  BY <1>1, <1>2, <1>3 DEF DesktopInv, ShapeInv, ShownInv, calling, terminalsDesktop
<1>7. IdsInv' /\ ActiveIsShown'
  BY <1>1, <1>2, <1>3, <1>4 DEF DesktopInv, IdsInv, ActiveIsShown, terminalsDesktop
<1> QED
  BY <1>5, <1>6, <1>7 DEF DesktopInv

LEMMA QuitGoesOnStep ==
    ASSUME DesktopInv, QuitManager \/ QuitEnded
    PROVE  DesktopInv'
<1>1. /\ QuitBegun /\ QuitBegun' /\ shutdown' \in {"manager", "workspaces", "ended"}
      /\ UNCHANGED <<calling, session, workspace, tabs, terminalsDesktop, events>>
  BY DEF QuitManager, QuitEnded, QuitBegun
<1>2. Shown' = Shown
      /\ \A v \in Terminals : Panes(v)' = Panes(v) /\ (Made(v)' <=> Made(v)) /\ (InForce(v)' <=> InForce(v))
  BY <1>1 DEF Shown, Panes, Made, InForce, tabs
<1>3. CallsInv' /\ OwnSessionInv' /\ PanesInv' /\ OwnerInv' /\ OneConnectInv'
  <2>1. \A v \in Terminals : Made(v) => workspace[v].focus \in Panes(v)
    BY DEF DesktopInv, PanesInv, PaneOk
  <2> QED
    BY <1>1, <1>2, <2>1, SessionsStay, PanesStay
<1>4. ShapeInv' /\ ShownInv'
  BY <1>1, <1>2 DEF DesktopInv, ShapeInv, ShownInv, calling, tabs, terminalsDesktop
<1>5. IdsInv' /\ ActiveIsShown'
  BY <1>1, <1>2 DEF DesktopInv, IdsInv, ActiveIsShown, terminalsDesktop
<1> QED
  BY <1>3, <1>4, <1>5 DEF DesktopInv

-----------------------------------------------------------------------------
\* The callback of a call is run: it leaves the queue, and the call goes on.
CallIsServed(c, pc, reply) ==
    /\ CallGoesTo(c, pc, call[c].cancelled, reply)
    /\ Queued(c) /\ callbacks' \in Seq(Calls) /\ IsInjective(callbacks')
    /\ \A d \in Calls : Queued(d)' <=> Queued(d) /\ d # c

\* The UI thread takes the first callback off the queue.
LEMMA QueueServes ==
    ASSUME DesktopInv, NEW c \in Calls, NEW kind, Serve(c, kind)
    PROVE  /\ Queued(c) /\ callbacks' \in Seq(Calls) /\ IsInjective(callbacks')
           /\ \A d \in Calls : Queued(d)' <=> Queued(d) /\ d # c
BY TailElements DEF Serve, DesktopInv, ShapeInv, Queued

LEMMA ServedCalls ==
    ASSUME DesktopInv, NEW c \in Calls, NEW pc, NEW reply, CallIsServed(c, pc, reply),
           UNCHANGED shutdown,
           \/ pc = "done"
           \/ pc = "discard" /\ call[c].kind = "split"
           \/ pc = "post" /\ call[c].kind = "agent"
    PROVE  CallsInv'
<1>1. CallOk(c) /\ ~Queued(c)'
  BY DEF CallIsServed, DesktopInv, CallsInv
<1>2. CallOk(c)'
  BY <1>1 DEF CallIsServed, CallGoesTo, CallOk
<1> QED
  BY <1>2, OneCall DEF DesktopInv, CallIsServed, CallGoesTo, Queued, QuitBegun

\* A callback that is refused closes the session of its call.
LEMMA RefusedKeeps ==
    ASSUME DesktopInv, NEW c \in Calls, NEW pc, NEW reply, CallIsServed(c, pc, reply), CallsInv',
           CloseOne(call[c].got), pc # "discard",
           UNCHANGED <<workspace, tabs, terminalsDesktop, shutdown>>
    PROVE  /\ ShapeInv' /\ OwnSessionInv' /\ PanesInv' /\ OwnerInv' /\ ShownInv' /\ IdsInv' /\ ActiveIsShown'
<1>1. ShapeInv'
  BY ShapeCloses DEF DesktopInv, ShapeInv, CallIsServed, CallGoesTo, tabs, terminalsDesktop
<1>2. \A d \in Calls : call'[d].got = call[d].got
  BY DEF CallIsServed, CallGoesTo
<1>3. (Waits(c)' => Waits(c)) /\ \A d \in Calls \ {c} : Waits(d)' <=> Waits(d)
  BY DEF CallIsServed, CallGoesTo, Waits
<1>4. SessionsClose /\ \A d \in Calls : OpenIsKept(d)
  BY <1>1, <1>2, <1>3, LetGo
<1> QED
  BY <1>1, <1>2, <1>4, WorldStays

\* A session that waits for its callback is in no workspace, and no workspace
\* is named after it.
LEMMA WaitingIsNew ==
    ASSUME DesktopInv, NEW c \in Calls, Waits(c), call[c].got # None
    PROVE  LET s == call[c].got
           IN  /\ s \in Terminals /\ session[s] # "none"
               /\ ~Made(s) /\ s \notin Shown /\ Panes(s) = {}
               /\ \A w \in Terminals : s \notin Panes(w)
               /\ \A d \in Calls : call[d].got = s => d = c
<1> DEFINE s == call[c].got
<1>1. s \in Terminals /\ session[s] # "none" /\ \A d \in Calls : call[d].got = s => d = c
  BY DEF DesktopInv, ShapeInv, CallRecord, OwnSessionInv
<1>2. \A w \in Terminals : s \notin Panes(w)
  BY DEF DesktopInv, PanesInv, PaneOk
<1>3. ~Made(s)
  BY <1>1, <1>2, PanesAreTerminals
<1>4. Panes(s) = {}
  <2>1. workspace[s].panes = <<>> /\ workspace[s].panes \in Seq(Terminals)
    BY <1>1, <1>3 DEF DesktopInv, PanesInv, PaneOk, ShapeInv, WorkspaceRecord
  <2> QED
    BY <2>1, ElementsOf DEF Panes
<1> QED
  BY <1>1, <1>2, <1>3, <1>4, PanesAreTerminals

\* addWorkspace: the new tab is the session's, is selected, and its terminal has
\* an id.
LEMMA NewWorkspaceKeeps ==
    ASSUME DesktopInv, NEW c \in Calls, NEW pc \in {"done", "post"}, NEW reply, CallIsServed(c, pc, reply),
           NEW s \in Terminals, call[c].got = s, NewWorkspace(call[c].host, s), ~QuitBegun,
           UNCHANGED <<session, shutdown>>
    PROVE  /\ ShapeInv' /\ OwnSessionInv' /\ PanesInv' /\ OwnerInv' /\ ShownInv' /\ IdsInv' /\ ActiveIsShown'
           /\ Shown' = Shown \cup {s}
           /\ \A w \in Terminals \ {s} : workspace'[w] = workspace[w]
           /\ workspace'[s].host = call[c].host
<1> DEFINE new == [host |-> call[c].host, panes |-> <<s>>, focus |-> s, state |-> "open"]
<1>0. /\ Queued(c) /\ s \in Terminals /\ session[s] # "none" /\ ~Made(s) /\ s \notin Shown /\ Panes(s) = {}
      /\ \A w \in Terminals : s \notin Panes(w)
      /\ \A d \in Calls : call[d].got = s => d = c
  BY WaitingIsNew, TerminalsAreNumbers DEF Waits, CallIsServed
<1>1. /\ workspace' = [workspace EXCEPT ![s] = new]
      /\ sessions' = sessions \cup {s}
      /\ workspaces' = Append(workspaces, s)
      /\ SelectTab(s)
  BY DEF NewWorkspace
<1>2. new \in WorkspaceRecord /\ ToSet(<<s>>) = {s} /\ <<s>> # <<>> /\ <<s>>[1] = s
  <2>1. <<s>> \in Seq(Terminals) /\ ToSet(<<s>>) = {s}
    BY <1>0 DEF ToSet
  <2>2. call[c].host \in HostNames
    BY DEF DesktopInv, ShapeInv, CallRecord
  <2> QED
    BY <1>0, <2>1, <2>2 DEF WorkspaceRecord
<1>3. /\ workspace' \in [Terminals -> WorkspaceRecord] /\ workspace'[s] = new
      /\ \A w \in Terminals \ {s} : workspace'[w] = workspace[w]
  BY <1>0, <1>1, <1>2 DEF DesktopInv, ShapeInv
<1>4. workspace'[s].host = call[c].host /\ workspace'[s].panes = <<s>> /\ workspace'[s].focus = s
      /\ workspace'[s].state = "open"
  BY <1>3
<1> HIDE DEF new
<1>5. workspaces' \in Seq(Terminals) /\ IsInjective(workspaces') /\ Shown' = Shown \cup {s}
  BY <1>0, <1>1, AppendElements DEF DesktopInv, ShapeInv, Shown
<1>6. current' = s /\ active' = s
  <2>1. current # s
    BY <1>0, TerminalsAreNumbers DEF DesktopInv, ActiveIsShown
  <2> QED
    BY <1>1, <2>1 DEF SelectTab, SelectWorkspace
<1>7. ShapeInv'
  BY <1>0, <1>1, <1>3, <1>5, <1>6 DEF DesktopInv, ShapeInv, CallIsServed, CallGoesTo
<1>8. (QuitBegun' <=> QuitBegun) /\ Panes(s)' = {s} /\ Made(s)' /\ InForce(s)'
      /\ \A w \in Terminals \ {s} : Panes(w)' = Panes(w) /\ (Made(w)' <=> Made(w)) /\ (InForce(w)' <=> InForce(w))
  BY <1>2, <1>3, <1>4 DEF QuitBegun, Panes, Made, InForce
<1>9. \A d \in Calls : call'[d].got = call[d].got /\ (Waits(d)' <=> Waits(d) /\ d # c)
  BY DEF CallIsServed, CallGoesTo, Waits
<1>10. OwnSessionInv'
  BY <1>9 DEF DesktopInv, OwnSessionInv
<1>11. PanesInv'
  <2> SUFFICES ASSUME NEW w \in Terminals PROVE PaneOk(w)'
    BY DEF PanesInv
  <2>1. \A v \in Terminals : s \in Panes(v)' => v = s
    BY <1>0, <1>8
  <2>2. CASE w = s
    BY <1>0, <1>2, <1>4, <1>8, <1>9, <2>1, <2>2 DEF PaneOk
  <2>3. CASE w # s
    <3>1. PaneOk(w) /\ Panes(w)' = Panes(w) /\ workspace'[w] = workspace[w] /\ (Made(w)' <=> Made(w))
      BY <1>3, <1>8, <2>3 DEF DesktopInv, PanesInv
    <3>2. \A r \in Panes(w) : r # s
      BY <1>0
    <3>3. \A r \in Panes(w) : \A v \in Terminals : r \in Panes(v)' => v = w
      BY <1>8, <3>1, <3>2 DEF PaneOk
    <3> QED
      BY <1>9, <3>1, <3>3 DEF PaneOk
  <2> QED
    BY <2>2, <2>3
<1>12. OwnerInv'
  <2> SUFFICES ASSUME NEW r \in Terminals, session'[r] = "open"
               PROVE  \/ \E d \in Calls : call'[d].got = r /\ Waits(d)'
                      \/ \E w \in Terminals : InForce(w)' /\ r \in Panes(w)'
    BY DEF OwnerInv
  <2>1. CASE r = s
    BY <1>0, <1>8, <2>1
  <2>2. CASE r # s
    <3>1. CASE \E d \in Calls : call[d].got = r /\ Waits(d)
      BY <1>9, <2>2, <3>1
    <3>2. CASE \E w \in Terminals : InForce(w) /\ r \in Panes(w)
      BY <1>0, <1>8, <3>2
    <3> QED
      BY <3>1, <3>2 DEF DesktopInv, OwnerInv
  <2> QED
    BY <2>1, <2>2
<1>13. ShownInv'
  BY <1>0, <1>3, <1>4, <1>5, <1>8 DEF DesktopInv, ShownInv
<1>14. IdsInv'
  <2>1. ASSUME NEW r \in Terminals
        PROVE  r \in sessions' <=> \E v \in Shown' : r \in Panes(v)'
    <3>1. r \in sessions <=> \E v \in Shown : r \in Panes(v)
      BY DEF DesktopInv, IdsInv
    <3>2. \A v \in Shown : Panes(v)' = Panes(v)
      BY <1>0, <1>8, PanesAreTerminals
    <3> QED
      BY <1>1, <1>5, <1>8, <3>1, <3>2
  <2>2. ASSUME NEW v \in Terminals, workspace'[v].state = "closed", NEW r \in Panes(v)'
        PROVE  r \notin sessions'
    <3>1. v # s
      BY <1>4, <2>2
    <3>2. r \in Panes(v) /\ r # s /\ workspace[v].state = "closed"
      BY <1>0, <1>3, <1>8, <2>2, <3>1
    <3> QED
      BY <1>1, <3>2 DEF DesktopInv, IdsInv
  <2> QED
    BY <2>1, <2>2 DEF IdsInv
<1>15. ActiveIsShown'
  BY <1>0, <1>2, <1>4, <1>5, <1>6, TerminalsAreNumbers DEF ActiveIsShown, Panes
<1> QED
  BY <1>3, <1>4, <1>5, <1>7, <1>10, <1>11, <1>12, <1>13, <1>14, <1>15

\* When a callback has run, no call connects that did not.
LEMMA ServedConnects ==
    ASSUME DesktopInv, NEW c \in Calls, NEW pc, NEW reply, CallIsServed(c, pc, reply),
           call[c].kind = "connect" => pc = "done",
           connecting' = IF call[c].kind = "connect" THEN connecting \ {call[c].host} ELSE connecting,
           \A d \in Calls : call[d].got \in Shown' \ Shown => d = c,
           \A w \in Terminals : Made(w)' =>
               \/ Made(w) /\ workspace'[w].host = workspace[w].host
               \/ call[c].got = w /\ workspace'[w].host = call[c].host /\ \A d \in Calls : call[d].got = w => d = c
    PROVE  OneConnectInv'
<1>1. \A d \in Calls : call'[d].got = call[d].got /\ call'[d].host = call[d].host /\ call'[d].kind = call[d].kind
      /\ (d # c => call'[d].pc = call[d].pc)
  BY DEF CallIsServed, CallGoesTo
<1>2. call[c].kind = "connect" => Connects(c)
  BY DEF Connects, DesktopInv, CallsInv, CallOk, CallIsServed
<1>3. \A d \in Calls : Connects(d)' => Connects(d)
  BY <1>1, <1>2 DEF Connects
<1>4. \A d, e \in Calls : Connects(d)' /\ Connects(e)' /\ call'[d].host = call'[e].host => d = e
  BY <1>1, <1>3 DEF DesktopInv, OneConnectInv
<1>5. ASSUME NEW d \in Calls, call'[d].kind = "connect", call'[d].pc \in {"dial", "post"}
      PROVE  call'[d].host \in connecting'
  <2>1. call[c].kind = "connect" => d # c
    BY <1>5 DEF CallIsServed, CallGoesTo
  <2>2. CASE call[c].kind = "connect"
    <3>1. Connects(d) /\ Connects(c) /\ d # c /\ call[d].host \in connecting
      BY <1>1, <1>2, <1>5, <2>1, <2>2 DEF Connects, DesktopInv, OneConnectInv
    <3>2. call[d].host # call[c].host
      BY <3>1 DEF DesktopInv, OneConnectInv
    <3> QED
      BY <1>1, <2>2, <3>1, <3>2
  <2>3. CASE call[c].kind # "connect"
    <3>1. d # c
      BY <1>1, <1>5, <2>3
    <3> QED
      BY <1>1, <1>5, <2>3, <3>1 DEF DesktopInv, OneConnectInv
  <2> QED
    BY <2>2, <2>3
<1>6. \A d \in Calls, w \in Terminals : Made(w)' /\ call'[d].got = w => workspace'[w].host = call'[d].host
  BY <1>1 DEF DesktopInv, OneConnectInv
<1> QED
  BY <1>4, <1>5, <1>6 DEF OneConnectInv

\* A callback either makes a workspace of the session or closes it.
LEMMA ServedKeeps ==
    ASSUME DesktopInv, NEW c \in Calls, NEW pc \in {"done", "post"}, NEW reply, CallIsServed(c, pc, reply),
           pc = "post" => call[c].kind = "agent",
           connecting' = IF call[c].kind = "connect" THEN connecting \ {call[c].host} ELSE connecting,
           UNCHANGED shutdown,
           \/ CloseOne(call[c].got) /\ UNCHANGED <<workspace, tabs, terminalsDesktop>>
           \/ /\ call[c].got # None /\ ~QuitBegun
              /\ NewWorkspace(call[c].host, call[c].got) /\ UNCHANGED session
    PROVE  DesktopInv'
<1>1. CallsInv'
  BY ServedCalls
<1>2. CASE CloseOne(call[c].got) /\ UNCHANGED <<workspace, tabs, terminalsDesktop>>
  <2>1. ShapeInv' /\ OwnSessionInv' /\ PanesInv' /\ OwnerInv' /\ ShownInv' /\ IdsInv' /\ ActiveIsShown'
    BY <1>1, <1>2, RefusedKeeps
  <2>2. Shown' = Shown /\ \A w \in Terminals : (Made(w)' <=> Made(w)) /\ workspace'[w] = workspace[w]
    BY <1>2 DEF Shown, Made, tabs
  <2>3. OneConnectInv'
    BY <2>2, ServedConnects
  <2> QED
    BY <1>1, <2>1, <2>3 DEF DesktopInv
<1>3. ASSUME NEW s \in Terminals, call[c].got = s, ~QuitBegun, NewWorkspace(call[c].host, s), UNCHANGED session
      PROVE  DesktopInv'
  <2>1. /\ ShapeInv' /\ OwnSessionInv' /\ PanesInv' /\ OwnerInv' /\ ShownInv' /\ IdsInv' /\ ActiveIsShown'
        /\ Shown' = Shown \cup {s} /\ workspace'[s].host = call[c].host
        /\ \A w \in Terminals \ {s} : workspace'[w] = workspace[w]
    BY <1>3, NewWorkspaceKeeps
  <2>2. \A d \in Calls : call[d].got = s => d = c
    BY <1>3, TerminalsAreNumbers DEF DesktopInv, OwnSessionInv
  <2>3. \A w \in Terminals \ {s} : Made(w)' <=> Made(w)
    BY <2>1 DEF Made
  <2>4. OneConnectInv'
    BY <1>3, <2>1, <2>2, <2>3, ServedConnects
  <2> QED
    BY <1>1, <2>1, <2>4 DEF DesktopInv
<1>4. call[c].got # None => call[c].got \in Terminals
  BY DEF DesktopInv, ShapeInv, CallRecord
<1> QED
  BY <1>2, <1>3, <1>4

\* The callbacks of connect and of openAgentTerminal.
LEMMA ConnectServedStep ==
    ASSUME DesktopInv, NEW c \in Calls, ConnectServed(c)
    PROVE  DesktopInv'
<1>1. /\ Serve(c, "connect") /\ call' = [call EXCEPT ![c].pc = "done"] /\ call[c].kind = "connect"
      /\ connecting' = connecting \ {call[c].host} /\ UNCHANGED <<shutdown, events>>
  BY DEF ConnectServed, Ends, Serve
<1>2. CallGoesTo(c, "done", call[c].cancelled, call[c].reply)
  BY <1>1 DEF DesktopInv, ShapeInv, CallRecord, CallGoesTo
<1>3. CallIsServed(c, "done", call[c].reply)
  BY <1>1, <1>2, QueueServes DEF CallIsServed
<1>4. \/ CloseOne(call[c].got) /\ UNCHANGED <<workspace, tabs, terminalsDesktop>>
      \/ /\ call[c].got # None /\ ~QuitBegun
         /\ NewWorkspace(call[c].host, call[c].got) /\ UNCHANGED session
  BY DEF ConnectServed
<1> QED
  BY <1>1, <1>3, <1>4, ServedKeeps

LEMMA AgentServedStep ==
    ASSUME DesktopInv, NEW c \in Calls, AgentServed(c)
    PROVE  DesktopInv'
<1> DEFINE refused == ContextEnded(c)
           pc == IF call[c].reply = "given up" THEN "done" ELSE "post"
           reply == IF call[c].reply = "given up" THEN "given up"
                    ELSE IF refused THEN "refused" ELSE "opened"
<1>0. call \in [Calls -> CallRecord] /\ CallOk(c)
  BY DEF DesktopInv, ShapeInv, CallsInv
<1>1. /\ Serve(c, "agent") /\ call[c].kind = "agent" /\ UNCHANGED <<connecting, shutdown, events>>
      /\ call' = [call EXCEPT ![c].pc = pc, ![c].reply = reply]
  BY <1>0 DEF AgentServed, Serve, CallRecord
<1>2. CallGoesTo(c, pc, call[c].cancelled, reply)
  <2>1. pc \in {"done", "post"} /\ reply \in Replies
    BY DEF Replies
  <2> HIDE DEF pc, reply
  <2> QED
    BY <1>0, <1>1, <2>1 DEF CallRecord, CallGoesTo
<1>3. CallIsServed(c, pc, reply)
  BY <1>1, <1>2, QueueServes DEF CallIsServed
<1>4. Queued(c) /\ call[c].got # None
  BY <1>0, <1>1, <1>3 DEF CallIsServed, CallOk
<1>5. \/ CloseOne(call[c].got) /\ UNCHANGED <<workspace, tabs, terminalsDesktop>>
      \/ /\ call[c].got # None /\ ~QuitBegun
         /\ NewWorkspace(call[c].host, call[c].got) /\ UNCHANGED session
  BY <1>4 DEF AgentServed, ContextEnded
<1>6. pc \in {"done", "post"}
  OBVIOUS
<1> HIDE DEF pc, reply
<1> QED
  BY <1>1, <1>3, <1>5, <1>6, ServedKeeps

\* The new pane of a workspace that is there has one session and one id.
LEMMA SplitOpensStep ==
    ASSUME DesktopInv, NEW c \in Calls, SplitServed(c), ~SplitRefused(c)
    PROVE  DesktopInv'
<1>0. call \in [Calls -> CallRecord] /\ CallOk(c) /\ workspace \in [Terminals -> WorkspaceRecord]
  BY DEF DesktopInv, ShapeInv, CallsInv
<1>1. /\ Serve(c, "split") /\ call[c].kind = "split" /\ call' = [call EXCEPT ![c].pc = "done"]
      /\ workspace' = [workspace EXCEPT ![call[c].tab].panes = Append(@, call[c].got)]
      /\ sessions' = sessions \cup {call[c].got}
      /\ UNCHANGED <<connecting, session, tabs, active, shutdown, events>>
  BY DEF SplitServed, Serve, Ends
<1>2. CallGoesTo(c, "done", call[c].cancelled, call[c].reply)
  BY <1>0, <1>1 DEF CallRecord, CallGoesTo
<1>3. CallIsServed(c, "done", call[c].reply)
  BY <1>1, <1>2, QueueServes DEF CallIsServed
<1>4. CallsInv'
  BY <1>1, <1>3, ServedCalls
<1>5. PICK s \in Terminals : call[c].got = s
  BY <1>0, <1>1, <1>3 DEF CallIsServed, CallOk, CallRecord
<1>6. PICK w \in Terminals : call[c].tab = w
  BY <1>0, <1>1, <1>3 DEF CallOk, CallRecord
<1>7. ~QuitBegun /\ workspace[w].state = "open" /\ w \in Shown /\ Made(w)
  BY <1>1, <1>6 DEF SplitRefused, ContextEnded, DesktopInv, ShownInv, Made
<1>8. /\ Queued(c) /\ session[s] # "none" /\ ~Made(s) /\ s \notin Shown
      /\ \A v \in Terminals : s \notin Panes(v)
      /\ \A d \in Calls : call[d].got = s => d = c
  BY <1>3, <1>5, WaitingIsNew, TerminalsAreNumbers DEF Waits, CallIsServed
<1>9. /\ workspace[w].panes \in Seq(Terminals) /\ workspace[w].panes # <<>> /\ workspace[w].panes[1] = w
      /\ workspace[w].focus \in Panes(w)
  BY <1>0, <1>7 DEF WorkspaceRecord, DesktopInv, PanesInv, PaneOk
<1>10. LET p == Append(workspace[w].panes, s)
       IN  p \in Seq(Terminals) /\ p # <<>> /\ p[1] = w /\ ToSet(p) = Panes(w) \cup {s}
  BY <1>9, AppendElements DEF Panes
<1>11. /\ workspace' \in [Terminals -> WorkspaceRecord]
       /\ \A v \in Terminals : /\ workspace'[v].host = workspace[v].host /\ workspace'[v].state = workspace[v].state
                               /\ workspace'[v].focus = workspace[v].focus
       /\ \A v \in Terminals \ {w} : workspace'[v] = workspace[v]
       /\ workspace'[w].panes = Append(workspace[w].panes, s)
  BY <1>0, <1>1, <1>5, <1>6, <1>10 DEF WorkspaceRecord
<1>12. Shown' = Shown /\ (QuitBegun' <=> QuitBegun) /\ Panes(w)' = Panes(w) \cup {s}
       /\ \A v \in Terminals : (Made(v)' <=> Made(v)) /\ (InForce(v)' <=> InForce(v)) /\ (v # w => Panes(v)' = Panes(v))
  BY <1>1, <1>10, <1>11 DEF Shown, QuitBegun, Panes, Made, InForce, tabs
<1>13. \A d \in Calls : call'[d].got = call[d].got /\ (Waits(d)' <=> Waits(d) /\ d # c)
  BY <1>3 DEF CallIsServed, CallGoesTo, Waits
<1>14. ShapeInv'
  BY <1>1, <1>3, <1>5, <1>11 DEF DesktopInv, ShapeInv, CallIsServed, CallGoesTo, tabs
<1>15. OwnSessionInv' /\ ShownInv'
  BY <1>1, <1>11, <1>12, <1>13 DEF DesktopInv, OwnSessionInv, ShownInv
<1>16. PanesInv'
  <2> SUFFICES ASSUME NEW v \in Terminals PROVE PaneOk(v)'
    BY DEF PanesInv
  <2>1. \A u \in Terminals : s \in Panes(u)' <=> u = w
    BY <1>8, <1>12
  <2>2. PaneOk(v)
    BY DEF DesktopInv, PanesInv
  <2>3. ASSUME NEW r \in Panes(v)'
        PROVE  /\ session'[r] # "none"
               /\ \A u \in Terminals : r \in Panes(u)' => u = v
               /\ \A d \in Calls : call'[d].got = r => ~Waits(d)'
    <3>1. CASE r = s
      BY <1>1, <1>8, <1>13, <2>1, <2>3, <3>1
    <3>2. CASE r # s
      <4>1. r \in Panes(v) /\ \A u \in Terminals : r \in Panes(u)' => r \in Panes(u)
        BY <1>12, <2>3, <3>2
      <4> QED
        BY <1>1, <1>13, <2>2, <4>1 DEF PaneOk
    <3> QED
      BY <3>1, <3>2
  <2>4. ~Made(v)' => workspace'[v].panes = <<>>
    BY <1>7, <1>11, <1>12, <2>2 DEF PaneOk
  <2>5. Made(v)' => workspace'[v].panes # <<>> /\ workspace'[v].panes[1] = v /\ workspace'[v].focus \in Panes(v)'
    BY <1>9, <1>10, <1>11, <1>12, <2>2 DEF PaneOk
  <2> QED
    BY <2>3, <2>4, <2>5 DEF PaneOk
<1>17. OwnerInv'
  <2> SUFFICES ASSUME NEW r \in Terminals, session'[r] = "open"
               PROVE  \/ \E d \in Calls : call'[d].got = r /\ Waits(d)'
                      \/ \E v \in Terminals : InForce(v)' /\ r \in Panes(v)'
    BY DEF OwnerInv
  <2>1. CASE r = s
    <3>1. InForce(w)'
      BY <1>7, <1>12 DEF InForce
    <3> QED
      BY <1>12, <2>1, <3>1
  <2>2. CASE r # s
    <3>1. CASE \E d \in Calls : call[d].got = r /\ Waits(d)
      BY <1>5, <1>13, <2>2, <3>1
    <3>2. CASE \E v \in Terminals : InForce(v) /\ r \in Panes(v)
      BY <1>12, <3>2
    <3> QED
      BY <1>1, <3>1, <3>2 DEF DesktopInv, OwnerInv
  <2> QED
    BY <2>1, <2>2
<1>18. IdsInv'
  <2>1. ASSUME NEW r \in Terminals
        PROVE  r \in sessions' <=> \E v \in Shown' : r \in Panes(v)'
    <3>1. r \in sessions <=> \E v \in Shown : r \in Panes(v)
      BY <1>7 DEF DesktopInv, IdsInv
    <3>2. \A v \in Shown : v \in Terminals
      BY PanesAreTerminals
    <3> QED
      BY <1>1, <1>5, <1>7, <1>12, <3>1, <3>2
  <2>2. ASSUME NEW v \in Terminals, workspace'[v].state = "closed", NEW r \in Panes(v)'
        PROVE  r \notin sessions'
    <3>1. v # w /\ workspace[v].state = "closed"
      BY <1>7, <1>11, <2>2
    <3>2. r \in Panes(v) /\ r # s
      BY <1>8, <1>12, <2>2, <3>1
    <3> QED
      BY <1>1, <1>5, <3>1, <3>2 DEF DesktopInv, IdsInv
  <2> QED
    BY <2>1, <2>2 DEF IdsInv
<1>19. ActiveIsShown'
  <2>1. current \in Shown \/ (current = None /\ Shown = {})
    BY <1>7 DEF DesktopInv, ActiveIsShown
  <2>2. current' = current /\ active' = active /\ current # None /\ current \in Terminals
    BY <1>1, <1>7, <2>1, PanesAreTerminals DEF tabs
  <2>3. active \in Panes(current)
    BY <1>7, <2>2 DEF DesktopInv, ActiveIsShown
  <2>4. \A v \in Terminals : Panes(v) \subseteq Panes(v)'
    BY <1>12
  <2>5. active \in ToSet(workspace'[current].panes)
    BY <2>2, <2>3, <2>4 DEF Panes
  <2> QED
    BY <1>12, <2>1, <2>2, <2>5 DEF ActiveIsShown, Panes
<1>20. OneConnectInv'
  BY <1>1, <1>3, <1>11, <1>12, ServedConnects
<1> QED
  BY <1>4, <1>14, <1>15, <1>16, <1>17, <1>18, <1>19, <1>20 DEF DesktopInv

\* The callback of a split finds its tab gone, or adds a pane to it.
LEMMA SplitServedStep ==
    ASSUME DesktopInv, NEW c \in Calls, SplitServed(c)
    PROVE  DesktopInv'
<1>1. CASE SplitRefused(c)
  <2>1. /\ Serve(c, "split") /\ call[c].kind = "split" /\ call' = [call EXCEPT ![c].pc = "discard"]
        /\ UNCHANGED <<connecting, session, workspace, sessions, tabs, active, shutdown, events>>
    BY <1>1 DEF SplitServed, Serve
  <2>2. CallGoesTo(c, "discard", call[c].cancelled, call[c].reply)
    BY <2>1 DEF DesktopInv, ShapeInv, CallRecord, CallGoesTo
  <2>3. CallIsServed(c, "discard", call[c].reply)
    BY <2>1, <2>2, QueueServes DEF CallIsServed
  <2>4. CallsInv'
    BY <2>1, <2>3, ServedCalls
  <2>5. ShapeInv'
    BY <2>1, <2>3 DEF DesktopInv, ShapeInv, CallIsServed, CallGoesTo, tabs
  <2>6. \A d \in Calls : OpenIsKept(d)
    BY <2>3 DEF OpenIsKept, Waits, CallIsServed, CallGoesTo
  <2> QED
    BY <2>1, <2>2, <2>4, <2>5, <2>6, CallsOnly DEF CallGoesTo, terminalsDesktop
<1> QED
  BY <1>1, SplitOpensStep

-----------------------------------------------------------------------------
\* A step of other parts of the program.
LEMMA DesktopStutters == ASSUME DesktopInv, UNCHANGED workspaceVars PROVE DesktopInv'
<1>1. UNCHANGED <<call, callbacks, connecting, session, workspace, tabs, terminalsDesktop, shutdown>>
  BY DEF workspaceVars, calling, tabs, terminalsDesktop
<1>2. ShapeInv'
  BY <1>1 DEF DesktopInv, ShapeInv, tabs, terminalsDesktop
<1>3. CallsInv'
  BY <1>1 DEF DesktopInv, CallsInv, CallOk, Queued, AgentOver, QuitBegun
<1>4. \A c \in Calls : call'[c].got = call[c].got /\ OpenIsKept(c)
  BY <1>1 DEF OpenIsKept, Waits, Queued
<1>5. SessionsClose
  BY <1>1 DEF DesktopInv, ShapeInv, SessionsClose
<1>6. OwnSessionInv' /\ PanesInv' /\ OwnerInv' /\ ShownInv' /\ IdsInv' /\ ActiveIsShown'
  BY <1>1, <1>4, <1>5, WorldStays
<1>7. Shown' = Shown
  BY <1>1 DEF Shown, tabs
<1>8. OneConnectInv'
  BY <1>1, <1>7, ConnectsStay DEF Made
<1> QED
  BY <1>2, <1>3, <1>6, <1>8 DEF DesktopInv

LEMMA CallStepKeeps == ASSUME DesktopInv, NEW c \in Calls, CallStep(c) PROVE DesktopInv'
BY ConnectServerStep, AgentOpensStep, SplitStep, CancelStep, UserTrustsStep, TerminalOpensStep, TerminalFailsStep,
   KeyAsksStep, AskEndsStep, ConnectServedStep, SplitServedStep, DiscardStep, AgentServedStep, AgentReturnsStep,
   AgentGivesUpStep DEF CallStep

LEMMA DesktopNextInv == DesktopInv /\ [WorkspaceNext]_workspaceVars => DesktopInv'
<1> SUFFICES ASSUME DesktopInv, [WorkspaceNext]_workspaceVars PROVE DesktopInv'
  OBVIOUS
<1>1. ASSUME NEW c \in Calls, CallStep(c) PROVE DesktopInv'
  BY <1>1, CallStepKeeps
<1>2. ASSUME NEW w \in Terminals,
             UserSelects(w) \/ FocusTerminal(w) \/ CloseWorkspace(w) \/ WorkspaceCloses(w) \/ SessionEnds(w)
      PROVE  DesktopInv'
  BY <1>2, UserSelectsStep, FocusTerminalStep, CloseWorkspaceStep, WorkspaceClosesStep, SessionEndsStep
<1>3. CASE Quit \/ QuitManager \/ QuitEnded
  BY <1>3, QuitStep, QuitGoesOnStep
<1> QED
  BY <1>1, <1>2, <1>3, DesktopStutters DEF WorkspaceNext

\* In every state of the desktop a session that Manager.Terminal opened is held
\* by the one call whose callback waits, or is a pane of one workspace; tabs,
\* ids and the selected pane agree with the workspaces that are open, whatever
\* was closed, cancelled or quit between the dial and its callback
\* (fyne.Do in app.go, workspace.go and companion.go).
THEOREM DesktopInvariance == WorkspaceSpec => []DesktopInv
BY DesktopInitInv, DesktopNextInv, PTL DEF WorkspaceSpec

LEMMA InvIsOwned == DesktopInv => TerminalsAreOwned
<1> SUFFICES ASSUME DesktopInv PROVE TerminalsAreOwned
  OBVIOUS
<1>1. WorkspaceTypeOK
  <2>1. \A c \in Calls :
          /\ call[c].kind \in {"none", "connect", "split", "agent"} /\ call[c].got \in Terminals \cup {None}
          /\ call[c].pc \in {"new", "dial", "ask", "post", "discard", "done"}
          /\ call[c].reply \in {"none", "trusted", "opened", "refused", "given up"}
    BY DEF DesktopInv, ShapeInv, CallRecord, Replies
  <2>2. \A w \in Terminals :
          /\ workspace[w].state \in {"none", "open", "cancelled", "closed"}
          /\ workspace[w].state # "none" => w = workspace[w].panes[1] /\ workspace[w].focus \in Panes(w)
    BY DEF DesktopInv, ShapeInv, WorkspaceRecord, PanesInv, PaneOk, Made
  <2> QED
    BY <2>1, <2>2, PanesAreTerminals DEF DesktopInv, ShapeInv, WorkspaceTypeOK
<1>2. OneOwner
  <2> SUFFICES ASSUME NEW s \in Terminals, session[s] = "open"
               PROVE  LET callers == {c \in Calls : call[c].got = s /\ (c \in ToSet(callbacks) \/ call[c].pc = "discard")}
                          owners == {w \in Terminals : workspace[w].state \in {"open", "cancelled"} /\ s \in Panes(w)}
                      IN  Cardinality(callers) + Cardinality(owners) = 1
    BY DEF OneOwner
  <2> DEFINE callers == {c \in Calls : call[c].got = s /\ (c \in ToSet(callbacks) \/ call[c].pc = "discard")}
             owners == {w \in Terminals : workspace[w].state \in {"open", "cancelled"} /\ s \in Panes(w)}
  <2>1. callers = {c \in Calls : call[c].got = s /\ Waits(c)} /\ owners = {w \in Terminals : InForce(w) /\ s \in Panes(w)}
    BY DEF Waits, Queued, InForce
  <2> HIDE DEF callers, owners
  <2>2. \A c, d \in callers : c = d
    BY <2>1, TerminalsAreNumbers DEF DesktopInv, OwnSessionInv
  <2>3. \A v, w \in owners : v = w
    BY <2>1 DEF DesktopInv, PanesInv, PaneOk
  <2>4. callers = {} \/ owners = {}
    BY <2>1 DEF DesktopInv, PanesInv, PaneOk
  <2>5. callers # {} \/ owners # {}
    BY <2>1 DEF DesktopInv, OwnerInv
  <2>6. \/ callers = {} /\ \E w : owners = {w}
        \/ owners = {} /\ \E c : callers = {c}
    <3>1. CASE callers = {}
      <4>1. PICK w \in owners : TRUE
        BY <2>5, <3>1
      <4>2. owners = {w}
        BY <2>3, <4>1
      <4> QED
        BY <3>1, <4>2
    <3>2. CASE callers # {}
      <4>1. PICK c \in callers : TRUE
        BY <3>2
      <4>2. callers = {c}
        BY <2>2, <4>1
      <4> QED
        BY <2>4, <3>2, <4>2
    <3> QED
      BY <3>1, <3>2
  <2>7. /\ Cardinality({}) = 0
        /\ \A x : Cardinality({x}) = 1
    BY FS_Singleton, FS_EmptySet
  <2>8. \/ Cardinality(callers) = 0 /\ Cardinality(owners) = 1
        \/ Cardinality(owners) = 0 /\ Cardinality(callers) = 1
    BY <2>6, <2>7, Zenon
  <2>9. Cardinality(callers) + Cardinality(owners) = 1
    BY <2>8
  <2> QED
    BY <2>9 DEF callers, owners
<1>3. OldIdsAreGone
  <2>1. ASSUME ~QuitBegun PROVE sessions = UNION {Panes(w) : w \in Shown}
    <3>1. \A s \in Terminals : s \in sessions <=> \E w \in Shown : s \in Panes(w)
      BY <2>1 DEF DesktopInv, IdsInv
    <3>2. sessions \subseteq Terminals /\ \A w \in Shown : Panes(w) \subseteq Terminals
      BY PanesAreTerminals DEF DesktopInv, ShapeInv
    <3> QED
      BY <3>1, <3>2
  <2>2. \A w \in Terminals : workspace[w].state = "closed" => sessions \cap Panes(w) = {}
    BY DEF DesktopInv, IdsInv
  <2> QED
    BY <2>1, <2>2 DEF OldIdsAreGone
<1>4. ActiveIsShown
  BY DEF DesktopInv
<1>5. OneTabPerServer
  BY DEF DesktopInv, OneConnectInv, Connects, OneTabPerServer
<1> QED
  BY <1>1, <1>2, <1>3, <1>4, <1>5 DEF TerminalsAreOwned

\* Nobody loses a terminal or reaches one that is gone: every open session has
\* exactly one owner, DesktopTerminals lists the terminals of the tabs and none
\* of a tab that was closed, its active one is in the selected tab, and a server
\* the user connects has one tab (closeWorkspace, addWorkspace, connect and quit).
THEOREM TerminalsAreOwnedTheorem == WorkspaceSpec => []TerminalsAreOwned
BY DesktopInvariance, InvIsOwned, PTL
=============================================================================
