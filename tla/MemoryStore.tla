---------------------------- MODULE MemoryStore ----------------------------
(***************************************************************************)
(* The assistant's long-term memory: internal/agent/memory_backend.go and  *)
(* the middleware of memory.go that uses it.                               *)
(*                                                                         *)
(* A turn of a task opens one backend per scope.  Turns of several tasks   *)
(* overlap with each other and with the user, who deletes documents and    *)
(* switches memory off and on.  Every operation holds Service.memoryMu,    *)
(* and so is one step; what happens between two operations of a turn is    *)
(* what matters.                                                           *)
(*                                                                         *)
(* Abstractions: a document is a set of facts with a version, which stands *)
(* for the Digest over content and time; an operation that is refused or   *)
(* whose write fails changes nothing and is no step.  What the model reads *)
(* and decides to write is open.                                           *)
(***************************************************************************)
EXTENDS Integers

CONSTANTS Backends,  \* memoryBackend objects, each used by one turn
          Scopes,    \* "preferences" and one per host
          Names,     \* paths of Markdown documents
          Facts,
          NoBackend,
          MaxWrites, \* bound on writes
          MaxUser    \* bound on deletions and switches of the user

ASSUME MemoryAssumption ==
    /\ NoBackend \notin Backends
    /\ MaxWrites \in Nat /\ MaxUser \in Nat

VARIABLES
    docs,        \* per scope and name: the stored document
    generation,  \* per scope: MemorySettings.Generation
    global,      \* MemorySettings of "global"
    phase,       \* per backend: progress of its turn
    backend,     \* per backend: scope and captured generations
    revisions,   \* per backend and name: version, 0 when there is none
    writes, user,
    known,       \* history: facts of the documents it read, and its own
    touched,     \* history: facts of the documents it read, wrote or edited
    outdated,    \* history: backends that a deletion or a switch concerns
    lost         \* history: <<backend, name, fact>> a Write removed unread

memoryVars == <<docs, generation, global, phase, backend, revisions, writes, user,
                known, touched, outdated, lost>>

memoryHistory == <<known, touched, outdated, lost>>

Doc == [version : Nat, content : SUBSET Facts, by : Backends \cup {NoBackend}]
NoDoc == [version |-> 0, content |-> {}, by |-> NoBackend]
Exists(s, n) == docs[s][n].version # 0

Phase == {"none", "built", "reading", "working", "extracting", "ended"}
Backend == [scope : Scopes, generation : Nat, global : Nat]

MemoryTypeOK ==
    /\ docs \in [Scopes -> [Names -> Doc]]
    /\ generation \in [Scopes -> Nat]
    /\ global \in [disabled : BOOLEAN, generation : Nat]
    /\ phase \in [Backends -> Phase]
    /\ backend \in [Backends -> Backend]
    /\ revisions \in [Backends -> [Names -> Nat]]
    /\ writes \in Nat /\ user \in Nat
    /\ known \in [Backends -> [Names -> SUBSET Facts]]
    /\ touched \in [Backends -> [Names -> SUBSET Facts]]
    /\ outdated \subseteq Backends
    /\ lost \subseteq Backends \X Names \X Facts

\* A new installation.
MemoryInit ==
    /\ docs = [s \in Scopes |-> [n \in Names |-> NoDoc]]
    /\ generation = [s \in Scopes |-> 0]
    /\ global = [disabled |-> FALSE, generation |-> 0]
    /\ phase = [b \in Backends |-> "none"]
    /\ backend \in [Backends -> {[scope |-> s, generation |-> 0, global |-> 0] :
                                   s \in Scopes}]
    /\ revisions = [b \in Backends |-> [n \in Names |-> 0]]
    /\ writes = 0 /\ user = 0
    /\ known = [b \in Backends |-> [n \in Names |-> {}]]
    /\ touched = [b \in Backends |-> [n \in Names |-> {}]]
    /\ outdated = {} /\ lost = {}

-----------------------------------------------------------------------------
(* The user, in the dialog "manage memory"                                 *)

Concerned(S) == {b \in Backends : phase[b] # "none" /\ backend[b].scope \in S}

\* Mutant: the switch is only a switch.
SetMemoryEnabledOnly(enabled) ==
    /\ user < MaxUser
    /\ user' = user + 1
    /\ global' = [disabled |-> ~enabled, generation |-> global.generation]
    /\ outdated' = outdated \cup Concerned(Scopes)
    /\ UNCHANGED <<docs, generation, phase, backend, revisions, writes, known,
                   touched, lost>>

SetMemoryEnabled(enabled) ==
    /\ user < MaxUser
    /\ user' = user + 1
    /\ global' = [disabled |-> ~enabled, generation |-> global.generation + 1]
    /\ outdated' = outdated \cup Concerned(Scopes)
    /\ UNCHANGED <<docs, generation, phase, backend, revisions, writes, known,
                   touched, lost>>

\* The generation is stored first.  When the document cannot be deleted
\* then, it stays, and the turns under way are shut out all the same.
DeleteMemory(s, n, deleted) ==
    /\ Exists(s, n)
    /\ user < MaxUser
    /\ user' = user + 1
    /\ generation' = [generation EXCEPT ![s] = @ + 1]
    /\ docs' = IF deleted THEN [docs EXCEPT ![s][n] = NoDoc] ELSE docs
    /\ outdated' = outdated \cup Concerned({s})
    /\ UNCHANGED <<global, phase, backend, revisions, writes, known, touched, lost>>

-----------------------------------------------------------------------------
(* A turn                                                                  *)

InPhase(b, p) == phase[b] = p
EnterPhase(b, p) == phase' = [phase EXCEPT ![b] = p]

NewMemoryBackend(b) ==
    /\ InPhase(b, "none")
    /\ EnterPhase(b, "built")
    /\ backend' = [backend EXCEPT ![b] =
          [scope |-> backend[b].scope, generation |-> generation[backend[b].scope],
           global |-> global.generation]]
    /\ UNCHANGED <<docs, generation, global, revisions, writes, user, memoryHistory>>

BeforeAgent(b) ==
    /\ InPhase(b, "built")
    /\ EnterPhase(b, IF global.disabled THEN "working" ELSE "reading")
    /\ UNCHANGED <<docs, generation, global, backend, revisions, writes, user,
                   memoryHistory>>

Answer(b) ==
    /\ InPhase(b, "reading")
    /\ EnterPhase(b, "working")
    /\ UNCHANGED <<docs, generation, global, backend, revisions, writes, user,
                   memoryHistory>>

AfterAgent(b) ==
    /\ InPhase(b, "working")
    /\ EnterPhase(b, IF global.disabled THEN "ended" ELSE "extracting")
    /\ UNCHANGED <<docs, generation, global, backend, revisions, writes, user,
                   memoryHistory>>

\* The extraction is over, or the turn's context was cancelled.
TurnEnds(b) ==
    /\ phase[b] \in {"built", "reading", "working", "extracting"}
    /\ EnterPhase(b, "ended")
    /\ UNCHANGED <<docs, generation, global, backend, revisions, writes, user,
                   memoryHistory>>

-----------------------------------------------------------------------------
(* The operations of a backend                                             *)

\* Mutant: the settings of the scope are not looked at.
ValidGlobally(b) ==
    /\ ~global.disabled
    /\ global.generation = backend[b].global

valid(b) ==
    /\ ~global.disabled
    /\ global.generation = backend[b].global
    /\ generation[backend[b].scope] = backend[b].generation

Keep(b, n, version, read, all) ==
    /\ revisions' = [revisions EXCEPT ![b][n] = version]
    /\ known' = [known EXCEPT ![b][n] = @ \cup read]
    /\ touched' = [touched EXCEPT ![b][n] = @ \cup all]

\* A read may ask for some lines only; the revision is that of the whole,
\* and so the whole counts as read here.
Read(b, n) ==
    LET doc == docs[backend[b].scope][n]
    IN  /\ phase[b] \in {"reading", "extracting"}
        /\ valid(b)
        /\ Exists(backend[b].scope, n)
        /\ Keep(b, n, doc.version, doc.content, doc.content)
        /\ UNCHANGED <<docs, generation, global, phase, backend, writes, user,
                       outdated, lost>>

\* memoryBackend.write: the document is replaced, and the writer has its
\* new version.
Store(b, n, content, read, all) ==
    /\ valid(b)
    /\ writes < MaxWrites
    /\ writes' = writes + 1
    /\ docs' = [docs EXCEPT ![backend[b].scope][n] =
          [version |-> writes + 1, content |-> content, by |-> b]]
    /\ Keep(b, n, writes + 1, read, all)
    /\ UNCHANGED <<generation, global, phase, backend, user, outdated>>

\* Mutant: whoever writes last wins.
WriteUnchecked(b, n, content) ==
    LET old == docs[backend[b].scope][n]
    IN  /\ InPhase(b, "extracting")
        /\ Store(b, n, content, content, content)
        /\ lost' = lost \cup {<<b, n, f>> : f \in (old.content \ content) \ known[b][n]}

Write(b, n, content) ==
    LET old == docs[backend[b].scope][n]
    IN  /\ InPhase(b, "extracting")
        /\ Exists(backend[b].scope, n) => revisions[b][n] = old.version
        /\ Store(b, n, content, content, content)
        /\ lost' = lost \cup {<<b, n, f>> : f \in (old.content \ content) \ known[b][n]}

\* One fact of the current content is replaced by another; the rest of the
\* document stays, whether or not the backend has read it.
Edit(b, n, oldFact, newFact) ==
    LET old == docs[backend[b].scope][n]
    IN  /\ InPhase(b, "extracting")
        /\ Exists(backend[b].scope, n) /\ oldFact \in old.content
        /\ Store(b, n, (old.content \ {oldFact}) \cup {newFact},
                 {oldFact, newFact}, old.content \cup {newFact})
        /\ UNCHANGED lost

-----------------------------------------------------------------------------
Turn(b) ==
    \/ NewMemoryBackend(b) \/ BeforeAgent(b) \/ Answer(b) \/ AfterAgent(b)
    \/ TurnEnds(b)
    \/ \E n \in Names :
         \/ Read(b, n)
         \/ \E content \in SUBSET Facts : Write(b, n, content)
         \/ \E f, g \in Facts : Edit(b, n, f, g)

MemoryNext ==
    \/ \E b \in Backends : Turn(b)
    \/ \E enabled \in BOOLEAN : SetMemoryEnabled(enabled)
    \/ \E s \in Scopes, n \in Names, deleted \in BOOLEAN : DeleteMemory(s, n, deleted)

MemorySpec == MemoryInit /\ [][MemoryNext]_memoryVars

-----------------------------------------------------------------------------
(* Properties                                                              *)

\* A turn that was under way when the user deleted a document of its scope or
\* switched memory off or on writes no document any more, and while memory is
\* off nobody does: what was deleted does not come back.
NoWriteBack ==
    [][\A s \in Scopes, n \in Names :
          docs'[s][n] # docs[s][n] /\ docs'[s][n].version # 0
            => docs'[s][n].by \notin outdated /\ ~global.disabled]_memoryVars

\* Nor does such a turn read anything more.
NoLateReading ==
    [][\A b \in outdated : known'[b] = known[b]]_memoryVars

\* A turn whose view of the memory is outdated neither writes nor reads it.
OutdatedIsStopped == NoWriteBack /\ NoLateReading

\* A Write never removes a fact that came into the document after the writer
\* last read, wrote or edited it.
NoLostUpdate == \A x \in lost : x[3] \in touched[x[1]][x[2]]

\* No fact is lost to a Write whose turn has not touched the document since the
\* fact came in.  What a turn touched with an Edit it need not have read:
\* NoBlindOverwrite says more, and the code does not keep it.
MemoryIsKept == MemoryTypeOK /\ NoLostUpdate

\* A Write only removes facts of documents its turn has read, or its own: the
\* promise that the check of the version that was read keeps a turn from
\* overwriting what another one has just updated.
NoBlindOverwrite == lost = {}
=============================================================================
