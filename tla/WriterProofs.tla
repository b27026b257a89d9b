---------------------------- MODULE WriterProofs ----------------------------
(***************************************************************************)
(* Several writers of the same thing, none of which may undo the work of   *)
(* another.  The memory of the assistant (MemoryStore), for every set of   *)
(* backends, scopes, documents and facts; and files of servers, for every  *)
(* set of writers, contents, jobs and blocks, and any number of changes by *)
(* other programs: replacing one (FileReplace) and copying one             *)
(* (FileTransfer).                                                         *)
(***************************************************************************)
EXTENDS MemoryStore, FileReplace, FileTransfer, SequenceTheorems, TLAPS

(***************************************************************************)
(* The memory of the assistant                                             *)
(*                                                                         *)
(* That an outdated turn writes nothing rests on the generations only ever *)
(* growing: a turn keeps the ones it captured, so a turn that a deletion   *)
(* or a switch concerns stays behind (BehindInv).  That a Write removes    *)
(* nothing new rests on a version naming one content (VersionInv).         *)
(***************************************************************************)

\* What a turn captured is never ahead of the settings, and an outdated turn
\* is behind one of them for good.
BehindInv ==
    /\ \A b \in Backends : phase[b] # "none" =>
          /\ backend[b].generation <= generation[backend[b].scope]
          /\ backend[b].global <= global.generation
    /\ \A b \in outdated :
          /\ phase[b] # "none"
          /\ \/ backend[b].generation < generation[backend[b].scope]
             \/ backend[b].global < global.generation

\* A backend that has the version of the stored document had all of its
\* content in its hands.
VersionInv ==
    /\ \A s \in Scopes, n \in Names : docs[s][n].version <= writes
    /\ \A b \in Backends, n \in Names :
          /\ revisions[b][n] <= writes
          /\ LET doc == docs[backend[b].scope][n]
             IN  doc.version # 0 /\ revisions[b][n] = doc.version
                   => doc.content \subseteq touched[b][n]
    /\ \A s \in Scopes, n \in Names :
          docs[s][n].version = 0 => docs[s][n].content = {}

MemoryInv == MemoryTypeOK /\ BehindInv /\ VersionInv /\ NoLostUpdate

MemoryPhases(b) == \/ NewMemoryBackend(b) \/ BeforeAgent(b) \/ Answer(b)
             \/ AfterAgent(b) \/ TurnEnds(b)

-----------------------------------------------------------------------------
\* The disjuncts of a step, for a proof by cases.
LEMMA MemoryCases ==
    ASSUME [MemoryNext]_memoryVars
    PROVE  \/ \E b \in Backends : MemoryPhases(b)
           \/ \E b \in Backends, n \in Names : Read(b, n)
           \/ \E b \in Backends, n \in Names, facts \in SUBSET Facts :
                 Write(b, n, facts)
           \/ \E b \in Backends, n \in Names, f \in Facts, g \in Facts : Edit(b, n, f, g)
           \/ \E enabled \in BOOLEAN : SetMemoryEnabled(enabled)
           \/ \E s \in Scopes, n \in Names, deleted \in BOOLEAN : DeleteMemory(s, n, deleted)
           \/ UNCHANGED memoryVars
  BY DEF MemoryNext, Turn, MemoryPhases

\* Each operation keeps the types of the documents, settings and turns.
LEMMA MemoryTypeStep == MemoryTypeOK /\ [MemoryNext]_memoryVars => MemoryTypeOK'
<1> SUFFICES ASSUME MemoryTypeOK, [MemoryNext]_memoryVars PROVE MemoryTypeOK'
  OBVIOUS
<1> USE MemoryAssumption DEF MemoryTypeOK, Doc, NoDoc, Backend, Phase, memoryHistory
<1>1. ASSUME NEW b \in Backends, MemoryPhases(b) PROVE MemoryTypeOK'
  <2>1. phase' \in [Backends -> Phase]
    BY <1>1 DEF MemoryPhases, NewMemoryBackend, BeforeAgent, Answer, AfterAgent, TurnEnds,
                EnterPhase
  <2>2. backend' \in [Backends -> Backend]
    BY <1>1 DEF MemoryPhases, NewMemoryBackend, BeforeAgent, Answer, AfterAgent, TurnEnds
  <2> QED
    BY <1>1, <2>1, <2>2 DEF MemoryPhases, NewMemoryBackend, BeforeAgent, Answer, AfterAgent,
                            TurnEnds
<1>2. ASSUME NEW b \in Backends, NEW n \in Names, Read(b, n) PROVE MemoryTypeOK'
  BY <1>2 DEF Read, Keep
<1>3. ASSUME NEW b \in Backends, NEW n \in Names, NEW facts \in SUBSET Facts,
             Write(b, n, facts)
      PROVE  MemoryTypeOK'
  BY <1>3 DEF Write, Store, Keep
<1>4. ASSUME NEW b \in Backends, NEW n \in Names, NEW f \in Facts, NEW g \in Facts,
             Edit(b, n, f, g)
      PROVE  MemoryTypeOK'
  BY <1>4 DEF Edit, Store, Keep
<1>5. ASSUME NEW enabled \in BOOLEAN, SetMemoryEnabled(enabled) PROVE MemoryTypeOK'
  BY <1>5 DEF SetMemoryEnabled, Concerned
<1>6. ASSUME NEW s \in Scopes, NEW n \in Names, NEW deleted \in BOOLEAN,
             DeleteMemory(s, n, deleted)
      PROVE  MemoryTypeOK'
  BY <1>6 DEF DeleteMemory, Concerned
<1>7. ASSUME UNCHANGED memoryVars PROVE MemoryTypeOK'
  BY <1>7 DEF memoryVars
<1> QED
  BY <1>1, <1>2, <1>3, <1>4, <1>5, <1>6, <1>7, MemoryCases

-----------------------------------------------------------------------------
\* The settings only move on: a turn never catches up.
LEMMA BehindStep == MemoryTypeOK /\ BehindInv /\ [MemoryNext]_memoryVars => BehindInv'
<1> SUFFICES ASSUME MemoryTypeOK, BehindInv, [MemoryNext]_memoryVars PROVE BehindInv'
  OBVIOUS
<1> USE DEF MemoryTypeOK, BehindInv, Backend, memoryHistory
<1>1. ASSUME NEW b \in Backends, MemoryPhases(b) PROVE BehindInv'
  BY <1>1 DEF MemoryPhases, NewMemoryBackend, BeforeAgent, Answer, AfterAgent, TurnEnds,
              EnterPhase, InPhase, Phase
<1>2. ASSUME NEW b \in Backends, NEW n \in Names, Read(b, n) PROVE BehindInv'
  BY <1>2 DEF Read
<1>3. ASSUME NEW b \in Backends, NEW n \in Names, NEW facts \in SUBSET Facts,
             Write(b, n, facts)
      PROVE  BehindInv'
  BY <1>3 DEF Write, Store
<1>4. ASSUME NEW b \in Backends, NEW n \in Names, NEW f \in Facts, NEW g \in Facts,
             Edit(b, n, f, g)
      PROVE  BehindInv'
  BY <1>4 DEF Edit, Store
<1>5. ASSUME NEW enabled \in BOOLEAN, SetMemoryEnabled(enabled) PROVE BehindInv'
  BY <1>5 DEF SetMemoryEnabled, Concerned
<1>6. ASSUME NEW s \in Scopes, NEW n \in Names, NEW deleted \in BOOLEAN,
             DeleteMemory(s, n, deleted)
      PROVE  BehindInv'
  BY <1>6 DEF DeleteMemory, Concerned
<1>7. ASSUME UNCHANGED memoryVars PROVE BehindInv'
  BY <1>7 DEF memoryVars
<1> QED
  BY <1>1, <1>2, <1>3, <1>4, <1>5, <1>6, <1>7, MemoryCases

\* memoryBackend.write gives the document a version nobody has but the writer.
LEMMA StoreEffect ==
    ASSUME MemoryTypeOK, VersionInv,
           NEW b \in Backends, NEW n \in Names, NEW facts \in SUBSET Facts,
           NEW read \in SUBSET Facts, NEW all \in SUBSET Facts,
           facts \subseteq all, Store(b, n, facts, read, all)
    PROVE  VersionInv'
<1> USE DEF MemoryTypeOK, Doc, Backend
<1>1. \A s \in Scopes, m \in Names : docs'[s][m] =
         IF s = backend[b].scope /\ m = n
           THEN [version |-> writes + 1, content |-> facts, by |-> b]
           ELSE docs[s][m]
  BY DEF Store
<1>2. \A c \in Backends, m \in Names :
         /\ revisions'[c][m] = IF c = b /\ m = n THEN writes + 1 ELSE revisions[c][m]
         /\ touched'[c][m] = IF c = b /\ m = n THEN touched[c][m] \cup all
                                              ELSE touched[c][m]
  BY DEF Store, Keep
<1>3. writes' = writes + 1 /\ backend' = backend
  BY DEF Store
<1>4. ASSUME NEW s \in Scopes, NEW m \in Names
      PROVE  /\ docs'[s][m].version <= writes'
             /\ docs'[s][m].version = 0 => docs'[s][m].content = {}
  <2>1. CASE s = backend[b].scope /\ m = n
    BY <2>1, <1>1, <1>3
  <2>2. CASE ~(s = backend[b].scope /\ m = n)
    <3>1. docs'[s][m] = docs[s][m]
      BY <2>2, <1>1
    <3>2. docs[s][m].version \in Nat
      OBVIOUS
    <3> QED
      BY <3>1, <3>2, <1>3 DEF VersionInv
  <2> QED
    BY <2>1, <2>2
<1>5. ASSUME NEW c \in Backends, NEW m \in Names
      PROVE  /\ revisions'[c][m] <= writes'
             /\ docs'[backend'[c].scope][m].version # 0
                  /\ revisions'[c][m] = docs'[backend'[c].scope][m].version
                => docs'[backend'[c].scope][m].content \subseteq touched'[c][m]
  <2>0. backend[c].scope \in Scopes /\ backend'[c].scope = backend[c].scope
    BY <1>3
  <2>1. revisions[c][m] \in Nat /\ docs[backend[c].scope][m].version \in Nat
    BY <2>0
  <2>2. revisions[c][m] <= writes /\ docs[backend[c].scope][m].version <= writes
    BY <2>0 DEF VersionInv
  <2>3. CASE c = b /\ m = n
    <3>1. docs'[backend'[c].scope][m].content = facts
      BY <2>0, <2>3, <1>1
    <3>2. revisions'[c][m] = writes + 1 /\ touched'[c][m] = touched[c][m] \cup all
      BY <2>3, <1>2
    <3> QED
      BY <3>1, <3>2, <1>3
  <2>4. CASE ~(c = b /\ m = n)
    <3>1. revisions'[c][m] = revisions[c][m] /\ touched'[c][m] = touched[c][m]
      BY <2>4, <1>2
    <3>2. CASE backend[c].scope = backend[b].scope /\ m = n
      <4>1. docs'[backend'[c].scope][m].version = writes + 1
        BY <3>2, <1>1, <2>0
      <4> QED
        BY <4>1, <3>1, <2>1, <2>2, <1>3
    <3>3. CASE ~(backend[c].scope = backend[b].scope /\ m = n)
      <4>1. docs'[backend'[c].scope][m] = docs[backend[c].scope][m]
        BY <3>3, <1>1, <2>0
      <4> QED
        BY <4>1, <3>1, <2>1, <2>2, <1>3 DEF VersionInv
    <3> QED
      BY <3>2, <3>3
  <2> QED
    BY <2>3, <2>4
<1> QED
  BY <1>4, <1>5 DEF VersionInv

\* A version keeps naming one content.
LEMMA VersionStep == MemoryTypeOK /\ VersionInv /\ [MemoryNext]_memoryVars => VersionInv'
<1> SUFFICES ASSUME MemoryTypeOK, VersionInv, [MemoryNext]_memoryVars PROVE VersionInv'
  OBVIOUS
<1>1. ASSUME NEW b \in Backends, MemoryPhases(b) PROVE VersionInv'
  <2>1. \A c \in Backends : backend'[c].scope = backend[c].scope
    BY <1>1 DEF MemoryTypeOK, Backend, MemoryPhases, NewMemoryBackend, BeforeAgent, Answer,
                AfterAgent, TurnEnds
  <2> QED
    BY <1>1, <2>1 DEF VersionInv, MemoryPhases, NewMemoryBackend, BeforeAgent, Answer,
                      AfterAgent, TurnEnds, memoryHistory
<1>2. ASSUME NEW b \in Backends, NEW n \in Names, Read(b, n) PROVE VersionInv'
  <2> DEFINE doc == docs[backend[b].scope][n]
  <2>1. \A c \in Backends, m \in Names :
           /\ revisions'[c][m] = IF c = b /\ m = n THEN doc.version ELSE revisions[c][m]
           /\ touched'[c][m] = IF c = b /\ m = n THEN touched[c][m] \cup doc.content
                                                ELSE touched[c][m]
    BY <1>2 DEF Read, Keep, MemoryTypeOK
  <2>2. docs' = docs /\ backend' = backend /\ writes' = writes
    BY <1>2 DEF Read
  <2>3. doc.version <= writes
    BY DEF VersionInv, MemoryTypeOK, Backend
  <2>4. ASSUME NEW c \in Backends, NEW m \in Names
        PROVE  /\ revisions'[c][m] <= writes'
               /\ docs'[backend'[c].scope][m].version # 0
                    /\ revisions'[c][m] = docs'[backend'[c].scope][m].version
                  => docs'[backend'[c].scope][m].content \subseteq touched'[c][m]
    <3>1. CASE c = b /\ m = n
      BY <3>1, <2>1, <2>2, <2>3
    <3>2. CASE ~(c = b /\ m = n)
      <4>1. revisions'[c][m] = revisions[c][m] /\ touched'[c][m] = touched[c][m]
        BY <3>2, <2>1
      <4> QED
        BY <4>1, <2>2 DEF VersionInv
    <3> QED
      BY <3>1, <3>2
  <2> QED
    BY <2>2, <2>4 DEF VersionInv
<1>3. ASSUME NEW b \in Backends, NEW n \in Names, NEW facts \in SUBSET Facts,
             Write(b, n, facts)
      PROVE  VersionInv'
  BY <1>3, StoreEffect DEF Write
<1>4. ASSUME NEW b \in Backends, NEW n \in Names, NEW f \in Facts, NEW g \in Facts,
             Edit(b, n, f, g)
      PROVE  VersionInv'
  <2> DEFINE before == docs[backend[b].scope][n].content
  <2>1. before \subseteq Facts
    BY DEF MemoryTypeOK, Doc, Backend
  <2> QED
    BY <1>4, <2>1, StoreEffect DEF Edit
<1>5. ASSUME NEW enabled \in BOOLEAN, SetMemoryEnabled(enabled) PROVE VersionInv'
  BY <1>5 DEF SetMemoryEnabled, VersionInv
<1>6. ASSUME NEW s \in Scopes, NEW n \in Names, NEW deleted \in BOOLEAN,
             DeleteMemory(s, n, deleted)
      PROVE  VersionInv'
  BY <1>6 DEF DeleteMemory, VersionInv, NoDoc, MemoryTypeOK, Doc, Backend
<1>7. ASSUME UNCHANGED memoryVars PROVE VersionInv'
  BY <1>7 DEF memoryVars, VersionInv
<1> QED
  BY <1>1, <1>2, <1>3, <1>4, <1>5, <1>6, <1>7, MemoryCases

\* Write has the version it replaces, and so had its content.
LEMMA LostStep == MemoryInv /\ [MemoryNext]_memoryVars => NoLostUpdate'
<1> SUFFICES ASSUME MemoryInv, [MemoryNext]_memoryVars PROVE NoLostUpdate'
  OBVIOUS
<1> USE DEF MemoryInv, MemoryTypeOK, NoLostUpdate
<1>1. ASSUME NEW b \in Backends, MemoryPhases(b) PROVE NoLostUpdate'
  BY <1>1 DEF MemoryPhases, NewMemoryBackend, BeforeAgent, Answer, AfterAgent, TurnEnds, memoryHistory
<1>2. ASSUME NEW b \in Backends, NEW n \in Names, Read(b, n) PROVE NoLostUpdate'
  BY <1>2 DEF Read, Keep
<1>3. ASSUME NEW b \in Backends, NEW n \in Names, NEW facts \in SUBSET Facts,
             Write(b, n, facts)
      PROVE  NoLostUpdate'
  <2> DEFINE before == docs[backend[b].scope][n]
  <2>1. before.content \subseteq touched[b][n]
    BY <1>3 DEF Write, VersionInv, Exists, Backend, Doc
  <2>2. \A x \in lost : touched[x[1]][x[2]] \subseteq touched'[x[1]][x[2]]
    BY <1>3 DEF Write, Store, Keep
  <2>3. touched[b][n] \subseteq touched'[b][n]
    BY <1>3 DEF Write, Store, Keep
  <2> QED
    BY <1>3, <2>1, <2>2, <2>3 DEF Write
<1>4. ASSUME NEW b \in Backends, NEW n \in Names, NEW f \in Facts, NEW g \in Facts,
             Edit(b, n, f, g)
      PROVE  NoLostUpdate'
  BY <1>4 DEF Edit, Store, Keep
<1>5. ASSUME NEW enabled \in BOOLEAN, SetMemoryEnabled(enabled) PROVE NoLostUpdate'
  BY <1>5 DEF SetMemoryEnabled
<1>6. ASSUME NEW s \in Scopes, NEW n \in Names, NEW deleted \in BOOLEAN,
             DeleteMemory(s, n, deleted)
      PROVE  NoLostUpdate'
  BY <1>6 DEF DeleteMemory
<1>7. ASSUME UNCHANGED memoryVars PROVE NoLostUpdate'
  BY <1>7 DEF memoryVars
<1> QED
  BY <1>1, <1>2, <1>3, <1>4, <1>5, <1>6, <1>7, MemoryCases

-----------------------------------------------------------------------------
\* MemoryInv holds of a new installation and is kept by each operation.
THEOREM MemoryInvariance == MemorySpec => []MemoryInv
<1>1. MemoryInit => MemoryInv
  <2> SUFFICES ASSUME MemoryInit PROVE MemoryInv
    OBVIOUS
  <2>1. MemoryTypeOK
    BY MemoryAssumption DEF MemoryInit, MemoryTypeOK, Doc, NoDoc, Backend, Phase
  <2>2. BehindInv
    BY DEF MemoryInit, BehindInv
  <2>3. VersionInv /\ NoLostUpdate
    BY <2>1 DEF MemoryInit, VersionInv, NoLostUpdate, NoDoc, MemoryTypeOK, Backend
  <2> QED
    BY <2>1, <2>2, <2>3 DEF MemoryInv
<1>2. MemoryInv /\ [MemoryNext]_memoryVars => MemoryInv'
  BY MemoryTypeStep, BehindStep, VersionStep, LostStep DEF MemoryInv
<1> QED
  BY <1>1, <1>2, PTL DEF MemorySpec

\* The documents, settings and turns of the memory keep their types.
THEOREM MemoryTypeCorrect == MemorySpec => []MemoryTypeOK
<1>1. MemoryInv => MemoryTypeOK
  BY DEF MemoryInv
<1> QED
  BY <1>1, MemoryInvariance, PTL

\* The revision check of Write: nothing is removed that came in after the
\* writer last read, wrote or edited the document.
THEOREM NoLostUpdateTheorem == MemorySpec => []NoLostUpdate
<1>1. MemoryInv => NoLostUpdate
  BY DEF MemoryInv
<1> QED
  BY <1>1, MemoryInvariance, PTL

\* An outdated turn does not pass valid.
LEMMA OutdatedIsInvalid ==
    ASSUME MemoryTypeOK, BehindInv, NEW b \in Backends, valid(b) PROVE b \notin outdated
<1>1. /\ global.generation = backend[b].global
      /\ generation[backend[b].scope] = backend[b].generation
  BY DEF valid
<1>2. backend[b].global \in Nat /\ backend[b].generation \in Nat
  BY DEF MemoryTypeOK, Backend
<1> QED
  BY <1>1, <1>2 DEF BehindInv

\* After a deletion or a switch no turn under way writes to the documents
\* concerned, and nobody does while memory is off.
THEOREM NoWriteBackTheorem == MemorySpec => NoWriteBack
<1> DEFINE Kept == \A s \in Scopes, n \in Names :
                      docs'[s][n] # docs[s][n] /\ docs'[s][n].version # 0
                        => docs'[s][n].by \notin outdated /\ ~global.disabled
<1>1. ASSUME MemoryInv, [MemoryNext]_memoryVars PROVE Kept
  <2> USE <1>1 DEF MemoryInv
  <2>1. ASSUME NEW b \in Backends, NEW n \in Names, NEW facts, NEW read, NEW all,
               Store(b, n, facts, read, all)
        PROVE  Kept
    <3>1. b \notin outdated /\ ~global.disabled
      BY <2>1, OutdatedIsInvalid DEF Store, valid
    <3> QED
      BY <2>1, <3>1 DEF Store, MemoryTypeOK, Backend
  <2>2. ASSUME NEW s \in Scopes, NEW n \in Names, NEW deleted \in BOOLEAN,
               DeleteMemory(s, n, deleted)
        PROVE  Kept
    BY <2>2 DEF DeleteMemory, NoDoc, MemoryTypeOK
  <2>3. ASSUME UNCHANGED docs PROVE Kept
    BY <2>3
  <2> QED
    BY <2>1, <2>2, <2>3, MemoryCases DEF MemoryPhases, NewMemoryBackend, BeforeAgent, Answer,
       AfterAgent, TurnEnds, Read, Write, Edit, SetMemoryEnabled, memoryVars
<1> QED
  BY <1>1, MemoryInvariance, PTL DEF MemorySpec, NoWriteBack

\* Nor does an outdated turn read anything.
THEOREM NoLateReadingTheorem == MemorySpec => NoLateReading
<1>1. ASSUME MemoryInv, [MemoryNext]_memoryVars PROVE \A b \in outdated : known'[b] = known[b]
  <2> USE <1>1 DEF MemoryInv
  <2>1. ASSUME NEW b \in Backends, NEW n \in Names, NEW version, NEW read, NEW all,
               valid(b), Keep(b, n, version, read, all)
        PROVE  \A c \in outdated : known'[c] = known[c]
    <3>1. b \notin outdated
      BY <2>1, OutdatedIsInvalid
    <3> QED
      BY <2>1, <3>1 DEF Keep, MemoryTypeOK
  <2>2. CASE UNCHANGED known
    BY <2>2
  <2>3. ASSUME NEW b \in Backends, MemoryPhases(b) PROVE UNCHANGED known
    BY <2>3 DEF MemoryPhases, NewMemoryBackend, BeforeAgent, Answer, AfterAgent, TurnEnds, memoryHistory
  <2>4. ASSUME NEW b \in Backends, NEW n \in Names, Read(b, n)
        PROVE  \A c \in outdated : known'[c] = known[c]
    BY <2>1, <2>4 DEF Read
  <2>5. ASSUME NEW b \in Backends, NEW n \in Names, NEW facts \in SUBSET Facts, Write(b, n, facts)
        PROVE  \A c \in outdated : known'[c] = known[c]
    BY <2>1, <2>5 DEF Write, Store
  <2>6. ASSUME NEW b \in Backends, NEW n \in Names, NEW f \in Facts, NEW g \in Facts, Edit(b, n, f, g)
        PROVE  \A c \in outdated : known'[c] = known[c]
    BY <2>1, <2>6 DEF Edit, Store
  <2>7. ASSUME NEW enabled \in BOOLEAN, SetMemoryEnabled(enabled) PROVE UNCHANGED known
    BY <2>7 DEF SetMemoryEnabled
  <2>8. ASSUME NEW s \in Scopes, NEW n \in Names, NEW deleted \in BOOLEAN, DeleteMemory(s, n, deleted)
        PROVE  UNCHANGED known
    BY <2>8 DEF DeleteMemory
  <2>9. CASE UNCHANGED memoryVars
    BY <2>9 DEF memoryVars, memoryHistory
  <2> QED
    BY <2>2, <2>3, <2>4, <2>5, <2>6, <2>7, <2>8, <2>9, MemoryCases
<1> QED
  BY <1>1, MemoryInvariance, PTL DEF MemorySpec, NoLateReading

\* Facts are only removed by a turn that knew them.
THEOREM MemoryIsKeptTheorem == MemorySpec => []MemoryIsKept
  BY MemoryTypeCorrect, NoLostUpdateTheorem, PTL DEF MemoryIsKept

\* After a deletion or a switch, the turns under way are stopped for good.
THEOREM OutdatedIsStoppedTheorem == MemorySpec => OutdatedIsStopped
  BY NoWriteBackTheorem, NoLateReadingTheorem DEF OutdatedIsStopped

-----------------------------------------------------------------------------
(***************************************************************************)
(* Replacing a file                                                        *)
(*                                                                         *)
(* The safety of the rename rests on what is known in front of it: the     *)
(* temporary file is complete, the file is the one that was compared       *)
(* unless somebody raced, and that one is in the backup.  RenameInv states *)
(* it for the control points from the comparison on, HistoryInv what a     *)
(* writer has done when it is at a control point.                          *)
(***************************************************************************)

Window == {"backup", "tmp", "write", "rename"}

TmpInv ==
    \A w \in Writers :
        /\ pc[w] \in {"idle", "open", "backup", "tmp"} => tmp[w] = Absent
        /\ pc[w] = "rename" => tmp[w] = content[w]
        /\ pc[w] \in Result /\ connected[w] => tmp[w] = Absent

RenameInv ==
    \A w \in Writers :
        /\ expected[w] # Torn
        /\ pc[w] \in Window => old[w] = expected[w] /\ (w \notin raced => file = old[w])
        /\ pc[w] \in {"tmp", "write", "rename"} /\ old[w] # Absent => backup[w] = old[w]

HistoryInv ==
    \A w \in Writers :
        /\ pc[w] \in {"idle", "open"} \cup Window => replaced[w] = "nothing"
        /\ (pc[w] = "remove" /\ result[w] \in {"refused", "failed"}) => replaced[w] = "nothing"
        /\ pc[w] \in {"refused", "failed"} => replaced[w] = "nothing"
        /\ (pc[w] = "remove" /\ result[w] = "done") => replaced[w] # "nothing"
        /\ pc[w] = "done" => replaced[w] # "nothing"

Inv ==
    /\ TypeOK /\ NeverTorn /\ TmpInv /\ RenameInv /\ HistoryInv
    /\ ReplacedIsSaved /\ NewReplacesNothing

-----------------------------------------------------------------------------
\* Nothing has been written when the writers start.
LEMMA InitInv == Init => Inv
  <1> SUFFICES ASSUME Init PROVE Inv
    OBVIOUS
  <1> USE ReplaceAssumption
  <1>1. TypeOK
    BY DEF Init, TypeOK, Files, Result, Point
  <1>2. NeverTorn /\ TmpInv /\ RenameInv
    BY DEF Init, NeverTorn, TmpInv, RenameInv, Window, Result
  <1>3. HistoryInv
    BY DEF Init, HistoryInv, Window
  <1>4. ReplacedIsSaved /\ NewReplacesNothing
    BY DEF Init, ReplacedIsSaved, NewReplacesNothing
  <1> QED
    BY <1>1, <1>2, <1>3, <1>4 DEF Inv

\* The types are preserved: every assignment of WriteFile stays in its set.
LEMMA TypeStep == TypeOK /\ [Next]_vars => TypeOK'
  <1> SUFFICES ASSUME TypeOK, [Next]_vars PROVE TypeOK'
    OBVIOUS
  <1> USE ReplaceAssumption DEF TypeOK, Files, Result, Point, At, Goto, Leave, local
  <1>1. ASSUME NEW w \in Writers, ReadFile(w) PROVE TypeOK'
    BY <1>1 DEF ReadFile
  <1>2. ASSUME NEW w \in Writers, Compare(w) PROVE TypeOK'
    BY <1>2 DEF Compare
  <1>3. ASSUME NEW w \in Writers, Refuse(w) \/ BackUp(w) \/ BackUpFails(w) PROVE TypeOK'
    BY <1>3 DEF Refuse, BackUp, BackUpFails
  <1>4. ASSUME NEW w \in Writers, CreateTmp(w) \/ CreateTmpFails(w) PROVE TypeOK'
    BY <1>4 DEF CreateTmp, CreateTmpFails
  <1>5. ASSUME NEW w \in Writers, WriteTmp(w) \/ WriteTmpFails(w) PROVE TypeOK'
    BY <1>5 DEF WriteTmp, WriteTmpFails
  <1>6. ASSUME NEW w \in Writers, Rename(w) PROVE TypeOK'
    BY <1>6 DEF Rename, InWindow
  <1>7. ASSUME NEW w \in Writers, RenameFails(w) \/ RemoveTmp(w) PROVE TypeOK'
    BY <1>7 DEF RenameFails, RemoveTmp
  <1>8. ASSUME NEW w \in Writers, Disconnect(w) \/ Interrupted(w) PROVE TypeOK'
    BY <1>8 DEF Disconnect, Interrupted
  <1>9. ASSUME NEW c \in Contents \cup {Absent}, ForeignChange(c) PROVE TypeOK'
    BY <1>9 DEF ForeignChange, InWindow
  <1>10. CASE UNCHANGED vars
    BY <1>10 DEF vars
  <1> QED
    BY <1>1, <1>2, <1>3, <1>4, <1>5, <1>6, <1>7, <1>8, <1>9, <1>10 DEF Next, Step

\* The temporary file is complete when it is renamed, and is gone at the end.
LEMMA TmpStep == TypeOK /\ TypeOK' /\ TmpInv /\ [Next]_vars => TmpInv'
  <1> SUFFICES ASSUME TypeOK, TypeOK', TmpInv, [Next]_vars PROVE TmpInv'
    OBVIOUS
  <1> USE ReplaceAssumption DEF TypeOK, Files, Result, Point, At, Goto, Leave, local, TmpInv
  <1>1. ASSUME NEW w \in Writers, ReadFile(w) PROVE TmpInv'
    BY <1>1 DEF ReadFile
  <1>2. ASSUME NEW w \in Writers, Compare(w) PROVE TmpInv'
    BY <1>2 DEF Compare
  <1>3. ASSUME NEW w \in Writers, Refuse(w) \/ BackUp(w) \/ BackUpFails(w) PROVE TmpInv'
    BY <1>3 DEF Refuse, BackUp, BackUpFails
  <1>4. ASSUME NEW w \in Writers, CreateTmp(w) \/ CreateTmpFails(w) PROVE TmpInv'
    BY <1>4 DEF CreateTmp, CreateTmpFails
  <1>5. ASSUME NEW w \in Writers, WriteTmp(w) \/ WriteTmpFails(w) PROVE TmpInv'
    BY <1>5 DEF WriteTmp, WriteTmpFails
  <1>6. ASSUME NEW w \in Writers, Rename(w) PROVE TmpInv'
    BY <1>6 DEF Rename
  <1>7. ASSUME NEW w \in Writers, RenameFails(w) \/ RemoveTmp(w) PROVE TmpInv'
    BY <1>7 DEF RenameFails, RemoveTmp
  <1>8. ASSUME NEW w \in Writers, Disconnect(w) \/ Interrupted(w) PROVE TmpInv'
    BY <1>8 DEF Disconnect, Interrupted
  <1>9. ASSUME NEW c \in Contents \cup {Absent}, ForeignChange(c) PROVE TmpInv'
    BY <1>9 DEF ForeignChange
  <1>10. CASE UNCHANGED vars
    BY <1>10 DEF vars
  <1> QED
    BY <1>1, <1>2, <1>3, <1>4, <1>5, <1>6, <1>7, <1>8, <1>9, <1>10 DEF Next, Step

\* The path never holds a part of a content: only complete files are renamed.
LEMMA TornStep == TypeOK /\ TypeOK' /\ NeverTorn /\ TmpInv /\ [Next]_vars => NeverTorn'
  <1> SUFFICES ASSUME TypeOK, TypeOK', NeverTorn, TmpInv, [Next]_vars PROVE NeverTorn'
    OBVIOUS
  <1> USE ReplaceAssumption DEF TypeOK, Files, Result, Point, At, Goto, Leave, local, NeverTorn, TmpInv
  <1>1. ASSUME NEW w \in Writers, ReadFile(w) PROVE NeverTorn'
    BY <1>1 DEF ReadFile
  <1>2. ASSUME NEW w \in Writers, Compare(w) PROVE NeverTorn'
    BY <1>2 DEF Compare
  <1>3. ASSUME NEW w \in Writers, Refuse(w) \/ BackUp(w) \/ BackUpFails(w) PROVE NeverTorn'
    BY <1>3 DEF Refuse, BackUp, BackUpFails
  <1>4. ASSUME NEW w \in Writers, CreateTmp(w) \/ CreateTmpFails(w) PROVE NeverTorn'
    BY <1>4 DEF CreateTmp, CreateTmpFails
  <1>5. ASSUME NEW w \in Writers, WriteTmp(w) \/ WriteTmpFails(w) PROVE NeverTorn'
    BY <1>5 DEF WriteTmp, WriteTmpFails
  <1>6. ASSUME NEW w \in Writers, Rename(w) PROVE NeverTorn'
    BY <1>6 DEF Rename
  <1>7. ASSUME NEW w \in Writers, RenameFails(w) \/ RemoveTmp(w) PROVE NeverTorn'
    BY <1>7 DEF RenameFails, RemoveTmp
  <1>8. ASSUME NEW w \in Writers, Disconnect(w) \/ Interrupted(w) PROVE NeverTorn'
    BY <1>8 DEF Disconnect, Interrupted
  <1>9. ASSUME NEW c \in Contents \cup {Absent}, ForeignChange(c) PROVE NeverTorn'
    BY <1>9 DEF ForeignChange
  <1>10. CASE UNCHANGED vars
    BY <1>10 DEF vars
  <1> QED
    BY <1>1, <1>2, <1>3, <1>4, <1>5, <1>6, <1>7, <1>8, <1>9, <1>10 DEF Next, Step

\* What was compared is in place unless somebody raced, and in the backup.
LEMMA RenameStep == TypeOK /\ TypeOK' /\ NeverTorn /\ TmpInv /\ RenameInv /\ [Next]_vars => RenameInv'
  <1> SUFFICES ASSUME TypeOK, TypeOK', NeverTorn, TmpInv, RenameInv, [Next]_vars PROVE RenameInv'
    OBVIOUS
  <1> USE ReplaceAssumption DEF TypeOK, Files, Result, Point, At, Goto, Leave, local, NeverTorn, TmpInv, RenameInv, Window
  <1>1. ASSUME NEW w \in Writers, ReadFile(w) PROVE RenameInv'
    BY <1>1 DEF ReadFile
  <1>2. ASSUME NEW w \in Writers, Compare(w) PROVE RenameInv'
    BY <1>2 DEF Compare, Agrees
  <1>3. ASSUME NEW w \in Writers, Refuse(w) \/ BackUp(w) \/ BackUpFails(w) PROVE RenameInv'
    BY <1>3 DEF Refuse, BackUp, BackUpFails
  <1>4. ASSUME NEW w \in Writers, CreateTmp(w) \/ CreateTmpFails(w) PROVE RenameInv'
    BY <1>4 DEF CreateTmp, CreateTmpFails
  <1>5. ASSUME NEW w \in Writers, WriteTmp(w) \/ WriteTmpFails(w) PROVE RenameInv'
    BY <1>5 DEF WriteTmp, WriteTmpFails
  <1>6. ASSUME NEW w \in Writers, Rename(w) PROVE RenameInv'
    BY <1>6 DEF Rename, InWindow, Possible
  <1>7. ASSUME NEW w \in Writers, RenameFails(w) \/ RemoveTmp(w) PROVE RenameInv'
    BY <1>7 DEF RenameFails, RemoveTmp
  <1>8. ASSUME NEW w \in Writers, Disconnect(w) \/ Interrupted(w) PROVE RenameInv'
    BY <1>8 DEF Disconnect, Interrupted
  <1>9. ASSUME NEW c \in Contents \cup {Absent}, ForeignChange(c) PROVE RenameInv'
    BY <1>9 DEF ForeignChange, InWindow
  <1>10. CASE UNCHANGED vars
    BY <1>10 DEF vars
  <1> QED
    BY <1>1, <1>2, <1>3, <1>4, <1>5, <1>6, <1>7, <1>8, <1>9, <1>10 DEF Next, Step

\* What a writer has replaced agrees with where it is and what it will return.
LEMMA HistoryStep == TypeOK /\ TypeOK' /\ NeverTorn /\ HistoryInv /\ [Next]_vars => HistoryInv'
  <1> SUFFICES ASSUME TypeOK, TypeOK', NeverTorn, HistoryInv, [Next]_vars PROVE HistoryInv'
    OBVIOUS
  <1> USE ReplaceAssumption DEF TypeOK, Files, Result, Point, At, Goto, Leave, local, NeverTorn, HistoryInv, Window
  <1>1. ASSUME NEW w \in Writers, ReadFile(w) PROVE HistoryInv'
    BY <1>1 DEF ReadFile
  <1>2. ASSUME NEW w \in Writers, Compare(w) PROVE HistoryInv'
    BY <1>2 DEF Compare
  <1>3. ASSUME NEW w \in Writers, Refuse(w) \/ BackUp(w) \/ BackUpFails(w) PROVE HistoryInv'
    BY <1>3 DEF Refuse, BackUp, BackUpFails
  <1>4. ASSUME NEW w \in Writers, CreateTmp(w) \/ CreateTmpFails(w) PROVE HistoryInv'
    BY <1>4 DEF CreateTmp, CreateTmpFails
  <1>5. ASSUME NEW w \in Writers, WriteTmp(w) \/ WriteTmpFails(w) PROVE HistoryInv'
    BY <1>5 DEF WriteTmp, WriteTmpFails
  <1>6. ASSUME NEW w \in Writers, Rename(w) PROVE HistoryInv'
    BY <1>6 DEF Rename
  <1>7. ASSUME NEW w \in Writers, RenameFails(w) \/ RemoveTmp(w) PROVE HistoryInv'
    BY <1>7 DEF RenameFails, RemoveTmp
  <1>8. ASSUME NEW w \in Writers, Disconnect(w) \/ Interrupted(w) PROVE HistoryInv'
    BY <1>8 DEF Disconnect, Interrupted
  <1>9. ASSUME NEW c \in Contents \cup {Absent}, ForeignChange(c) PROVE HistoryInv'
    BY <1>9 DEF ForeignChange
  <1>10. CASE UNCHANGED vars
    BY <1>10 DEF vars
  <1> QED
    BY <1>1, <1>2, <1>3, <1>4, <1>5, <1>6, <1>7, <1>8, <1>9, <1>10 DEF Next, Step

\* A rename replaces what is in the backup, unless somebody raced.
LEMMA SavedStep == TypeOK /\ TypeOK' /\ RenameInv /\ HistoryInv /\ ReplacedIsSaved /\ [Next]_vars => ReplacedIsSaved'
  <1> SUFFICES ASSUME TypeOK, TypeOK', RenameInv, HistoryInv, ReplacedIsSaved, [Next]_vars PROVE ReplacedIsSaved'
    OBVIOUS
  <1> USE ReplaceAssumption DEF TypeOK, Files, Result, Point, At, Goto, Leave, local, RenameInv, HistoryInv, ReplacedIsSaved, Window
  <1>1. ASSUME NEW w \in Writers, ReadFile(w) PROVE ReplacedIsSaved'
    BY <1>1 DEF ReadFile
  <1>2. ASSUME NEW w \in Writers, Compare(w) PROVE ReplacedIsSaved'
    BY <1>2 DEF Compare
  <1>3. ASSUME NEW w \in Writers, Refuse(w) \/ BackUp(w) \/ BackUpFails(w) PROVE ReplacedIsSaved'
    BY <1>3 DEF Refuse, BackUp, BackUpFails
  <1>4. ASSUME NEW w \in Writers, CreateTmp(w) \/ CreateTmpFails(w) PROVE ReplacedIsSaved'
    BY <1>4 DEF CreateTmp, CreateTmpFails
  <1>5. ASSUME NEW w \in Writers, WriteTmp(w) \/ WriteTmpFails(w) PROVE ReplacedIsSaved'
    BY <1>5 DEF WriteTmp, WriteTmpFails
  <1>6. ASSUME NEW w \in Writers, Rename(w) PROVE ReplacedIsSaved'
    BY <1>6 DEF Rename
  <1>7. ASSUME NEW w \in Writers, RenameFails(w) \/ RemoveTmp(w) PROVE ReplacedIsSaved'
    BY <1>7 DEF RenameFails, RemoveTmp
  <1>8. ASSUME NEW w \in Writers, Disconnect(w) \/ Interrupted(w) PROVE ReplacedIsSaved'
    BY <1>8 DEF Disconnect, Interrupted
  <1>9. ASSUME NEW c \in Contents \cup {Absent}, ForeignChange(c) PROVE ReplacedIsSaved'
    BY <1>9 DEF ForeignChange
  <1>10. CASE UNCHANGED vars
    BY <1>10 DEF vars
  <1> QED
    BY <1>1, <1>2, <1>3, <1>4, <1>5, <1>6, <1>7, <1>8, <1>9, <1>10 DEF Next, Step

\* The rename of a new file replaces nothing.
LEMMA NewStep == TypeOK /\ TypeOK' /\ RenameInv /\ HistoryInv /\ NewReplacesNothing /\ [Next]_vars => NewReplacesNothing'
  <1> SUFFICES ASSUME TypeOK, TypeOK', RenameInv, HistoryInv, NewReplacesNothing, [Next]_vars PROVE NewReplacesNothing'
    OBVIOUS
  <1> USE ReplaceAssumption DEF TypeOK, Files, Result, Point, At, Goto, Leave, local, RenameInv, HistoryInv, NewReplacesNothing, Window
  <1>1. ASSUME NEW w \in Writers, ReadFile(w) PROVE NewReplacesNothing'
    BY <1>1 DEF ReadFile
  <1>2. ASSUME NEW w \in Writers, Compare(w) PROVE NewReplacesNothing'
    BY <1>2 DEF Compare
  <1>3. ASSUME NEW w \in Writers, Refuse(w) \/ BackUp(w) \/ BackUpFails(w) PROVE NewReplacesNothing'
    BY <1>3 DEF Refuse, BackUp, BackUpFails
  <1>4. ASSUME NEW w \in Writers, CreateTmp(w) \/ CreateTmpFails(w) PROVE NewReplacesNothing'
    BY <1>4 DEF CreateTmp, CreateTmpFails
  <1>5. ASSUME NEW w \in Writers, WriteTmp(w) \/ WriteTmpFails(w) PROVE NewReplacesNothing'
    BY <1>5 DEF WriteTmp, WriteTmpFails
  <1>6. ASSUME NEW w \in Writers, Rename(w) PROVE NewReplacesNothing'
    BY <1>6 DEF Rename, Possible, Overwrites, Supported
  <1>7. ASSUME NEW w \in Writers, RenameFails(w) \/ RemoveTmp(w) PROVE NewReplacesNothing'
    BY <1>7 DEF RenameFails, RemoveTmp
  <1>8. ASSUME NEW w \in Writers, Disconnect(w) \/ Interrupted(w) PROVE NewReplacesNothing'
    BY <1>8 DEF Disconnect, Interrupted
  <1>9. ASSUME NEW c \in Contents \cup {Absent}, ForeignChange(c) PROVE NewReplacesNothing'
    BY <1>9 DEF ForeignChange
  <1>10. CASE UNCHANGED vars
    BY <1>10 DEF vars
  <1> QED
    BY <1>1, <1>2, <1>3, <1>4, <1>5, <1>6, <1>7, <1>8, <1>9, <1>10 DEF Next, Step

-----------------------------------------------------------------------------
\* Inv is an inductive invariant of WriteFile under all interleavings.
THEOREM Invariance == Spec => []Inv
  <1>1. Inv /\ [Next]_vars => Inv'
    BY TypeStep, TmpStep, TornStep, RenameStep, HistoryStep, SavedStep, NewStep DEF Inv
  <1> QED
    BY InitInv, <1>1, PTL DEF Spec

\* The variables of WriteFile keep their types.
THEOREM TypeCorrect == Spec => []TypeOK
  BY Invariance, PTL DEF Inv

\* Outside the window it documents, WriteFile replaces only a content its
\* caller has read and its backup holds.
THEOREM ReplacedIsSavedTheorem == Spec => []ReplacedIsSaved
  BY Invariance, PTL DEF Inv

\* WriteFile never replaces a file when it was to create one.
THEOREM NewReplacesNothingTheorem == Spec => []NewReplacesNothing
  BY Invariance, PTL DEF Inv

\* No reader of the path sees a part of a content.
THEOREM NeverTornTheorem == Spec => []NeverTorn
  BY Invariance, PTL DEF Inv

\* An error of WriteFile other than a lost answer means the file is as it
\* was, and success that it was replaced.
THEOREM ReportIsTrueTheorem == Spec => []ReportIsTrue
  <1>1. Inv => ReportIsTrue
    BY DEF Inv, HistoryInv, ReportIsTrue
  <1> QED
    BY Invariance, <1>1, PTL

\* WriteFile leaves no temporary file behind while it is connected.
THEOREM NoLitterTheorem == Spec => []NoLitter
  <1>1. Inv => NoLitter
    BY DEF Inv, TmpInv, NoLitter, Result
  <1> QED
    BY Invariance, <1>1, PTL

\* WriteFile as a whole: for any number of writers of one path.
THEOREM ReplaceIsSafeTheorem == Spec => []ReplaceIsSafe
  BY TypeCorrect, ReplacedIsSavedTheorem, NewReplacesNothingTheorem, NeverTornTheorem,
     ReportIsTrueTheorem, NoLitterTheorem, PTL DEF ReplaceIsSafe

-----------------------------------------------------------------------------
(***************************************************************************)
(* A transfer                                                              *)
(***************************************************************************)

Before == {"idle", "snapshot", "stat", "source", "target", "notstarted"}
Opened == {"compare", "copy", "hash", "check", "done", "mismatch"}

\* A job has a file from OpenTarget on, and writes only then; one that resumes
\* only behind its comparison.
PlaceInv ==
    \A j \in Jobs :
        /\ point[j] \in Before => handle[j] = NoFile
        /\ point[j] \in Opened => handle[j] # NoFile
        /\ handle[j] = NoFile => j \notin wrote
        /\ mode[j] = "new" => handle[j] \in {j, NoFile}
        /\ mode[j] = "resume" /\ point[j] \in {"compare", "mismatch"} => j \notin wrote

\* The private copy of an assistant's job is what was approved, and what was
\* hashed is what is sent.
SentInv ==
    /\ \A j \in Agents : point[j] \notin {"idle", "snapshot", "notstarted"} => staged[j] = approved
    /\ \A j \in Jobs : point[j] = "check" /\ j \notin disturbed => sum[j] = Sent(j)

\* The open file is the one at the path, unless others have moved it.
PathInv == \A j \in Jobs : handle[j] # NoFile /\ j \notin crossed => path = handle[j]

Begins(f, g) == Len(f) <= Len(g) /\ \A i \in 1..Len(f) : f[i] = g[i]

\* A job that resumes is behind what it has found, which is still there.
KeptInv ==
    \A j \in Jobs : mode[j] = "resume" /\ handle[j] # NoFile =>
        /\ offset[j] = Len(kept[j])
        /\ point[j] = "copy" => offset[j] <= pos[j]
        /\ j \notin crossed => Begins(kept[j], inode[handle[j]])

\* And what it has found it has compared with what it sends.
MatchInv ==
    \A j \in Agents :
        mode[j] = "resume" /\ (point[j] = "copy" \/ j \in wrote) /\ j \notin crossed =>
            Begins(kept[j], staged[j])

TransferInv ==
    TransferTypeOK /\ PlaceInv /\ SentInv /\ Verified /\ PathInv /\ KeptInv /\ MatchInv

-----------------------------------------------------------------------------
LEMMA FunctionIsSeq ==
    ASSUME NEW S, NEW n \in Nat, NEW f \in [1..n -> S]
    PROVE  f \in Seq(S) /\ Len(f) = n
OBVIOUS

LEMMA ContentFacts ==
    ASSUME NEW f \in Content
    PROVE  /\ f \in Seq(Blocks \cup {Zero}) /\ Len(f) \in 0..MaxLen
           /\ f \in [1..Len(f) -> Blocks \cup {Zero}]
<1>1. PICK n \in 0..MaxLen : f \in [1..n -> Blocks \cup {Zero}]
  BY DEF Content
<1>2. QED
  BY <1>1, FunctionIsSeq, TransferAssumption

LEMMA PlainFacts ==
    ASSUME NEW f \in Plain
    PROVE  f \in Content /\ Len(f) \in 0..MaxLen /\ f \in [1..Len(f) -> Blocks]
<1>1. PICK n \in 0..MaxLen : f \in [1..n -> Blocks]
  BY DEF Plain
<1>2. f \in [1..n -> Blocks \cup {Zero}]
  BY <1>1
<1>3. QED
  BY <1>1, <1>2, FunctionIsSeq, TransferAssumption DEF Content

LEMMA NothingIsPlain == <<>> \in Plain /\ <<>> \in Content /\ Len(<<>>) = 0
<1>1. <<>> \in [1..0 -> Blocks] /\ Len(<<>>) = 0
  BY EmptySeq
<1>2. <<>> \in Plain
  BY <1>1, TransferAssumption DEF Plain
<1>3. QED
  BY <1>1, <1>2, PlainFacts

\* A block is written in a file, or behind its end.
LEMMA WriteIsContent ==
    ASSUME NEW f \in Content, NEW p \in 1..MaxLen, NEW b \in Blocks
    PROVE  /\ WriteAt(f, p, b) \in Content
           /\ Len(WriteAt(f, p, b)) = IF Len(f) < p THEN p ELSE Len(f)
           /\ \A k \in 1..Len(f) : k # p => WriteAt(f, p, b)[k] = f[k]
<1> DEFINE n == IF Len(f) < p THEN p ELSE Len(f)
<1>1. /\ n \in 0..MaxLen /\ n \in Nat /\ 1..Len(f) \subseteq 1..n
      /\ \A k \in 1..Len(f) : f[k] \in Blocks \cup {Zero}
  BY ContentFacts, TransferAssumption
<1>2. WriteAt(f, p, b) = [k \in 1..n |-> IF k = p THEN b ELSE IF k <= Len(f) THEN f[k] ELSE Zero]
  BY DEF WriteAt
<1>3. \A k \in 1..n : k <= Len(f) => k \in 1..Len(f)
  BY ContentFacts, <1>1
<1> HIDE DEF n
<1>4. WriteAt(f, p, b) \in [1..n -> Blocks \cup {Zero}]
  BY <1>1, <1>2, <1>3
<1>5. Len(WriteAt(f, p, b)) = n
  BY <1>1, <1>4, FunctionIsSeq
<1>6. WriteAt(f, p, b) \in Content
  BY <1>1, <1>4 DEF Content
<1>7. \A k \in 1..Len(f) : k # p => WriteAt(f, p, b)[k] = f[k]
  <2> TAKE k \in 1..Len(f)
  <2>1. k \in 1..n /\ k <= Len(f)
    BY <1>1, ContentFacts
  <2>2. QED
    BY <2>1, <1>2
<1>8. QED
  BY <1>5, <1>6, <1>7 DEF n

LEMMA BeginsItself == ASSUME NEW f \in Content PROVE Begins(f, f)
BY ContentFacts DEF Begins

LEMMA BeginningIsPrefix ==
    ASSUME NEW f \in Content, NEW g \in Content, Begins(f, g)
    PROVE  IsPrefix(f, g)
<1>1. /\ Len(f) \in Nat /\ Len(g) \in Nat /\ Len(f) <= Len(g)
      /\ \A i \in 1..Len(f) : f[i] \in Blocks \cup {Zero} /\ g[i] = f[i]
  BY ContentFacts DEF Begins
<1> DEFINE a == SubSeq(f, 1, Len(f))
           b == SubSeq(g, 1, Len(f))
<1>2. /\ a \in Seq(Blocks \cup {Zero}) /\ b \in Seq(Blocks \cup {Zero})
      /\ Len(a) = Len(f) /\ Len(b) = Len(f)
      /\ \A i \in 1..Len(f) : a[i] = f[i] /\ b[i] = g[i]
  <2>1. 1 \in Int /\ Len(f) \in Int
    BY <1>1
  <2>2. /\ a \in Seq(Blocks \cup {Zero})
        /\ Len(a) = IF 1 <= Len(f) THEN Len(f) - 1 + 1 ELSE 0
        /\ \A i \in 1..Len(f) - 1 + 1 : a[i] = f[1 + i - 1]
    BY <1>1, <2>1, SubSeqProperties
  <2>3. /\ b \in Seq(Blocks \cup {Zero})
        /\ Len(b) = IF 1 <= Len(f) THEN Len(f) - 1 + 1 ELSE 0
        /\ \A i \in 1..Len(f) - 1 + 1 : b[i] = g[1 + i - 1]
    BY <1>1, <2>1, SubSeqProperties
  <2> HIDE DEF a, b
  <2>4. QED
    BY <1>1, <2>2, <2>3
<1> HIDE DEF a, b
<1>3. a = b
  BY <1>1, <1>2, SeqEqual
<1>4. QED
  BY <1>1, <1>3 DEF IsPrefix, a, b

\* A write behind a beginning leaves it.
LEMMA WriteKeepsBeginning ==
    ASSUME NEW k \in Content, NEW f \in Content, NEW p \in 1..MaxLen, NEW b \in Blocks,
           Begins(k, f), Len(k) < p
    PROVE  Begins(k, WriteAt(f, p, b))
<1>1. Len(k) \in Nat /\ Len(f) \in Nat /\ Len(k) <= Len(f) /\ p \in Nat
  BY ContentFacts, TransferAssumption DEF Begins
<1>2. \A i \in 1..Len(k) : i \in 1..Len(f) /\ i # p
  BY <1>1
<1>3. QED
  BY <1>1, <1>2, WriteIsContent DEF Begins

\* What SamePrefix finds.
LEMMA SameBeginning ==
    ASSUME NEW f \in Content, NEW g \in Content, NEW k \in Content,
           Len(k) <= Len(g), SubSeq(g, 1, Len(k)) = SubSeq(f, 1, Len(k)), Begins(k, f)
    PROVE  Begins(k, g)
<1>1. /\ Len(k) \in Int /\ 1 \in Int /\ Len(k) <= Len(f) /\ Len(f) \in Nat /\ Len(g) \in Nat
      /\ \A i \in 1..Len(k) : f[i] \in Blocks \cup {Zero} /\ g[i] \in Blocks \cup {Zero}
  BY ContentFacts DEF Begins
<1>2. /\ \A i \in 1..Len(k) - 1 + 1 : SubSeq(f, 1, Len(k))[i] = f[1 + i - 1]
      /\ \A i \in 1..Len(k) - 1 + 1 : SubSeq(g, 1, Len(k))[i] = g[1 + i - 1]
  BY <1>1, SubSeqProperties
<1>3. \A i \in 1..Len(k) : f[i] = g[i]
  BY <1>1, <1>2
<1>4. QED
  BY <1>3 DEF Begins

\* Steps that neither open a file nor write one.
Reads(j) ==
    \/ Start(j) \/ Snapshot(j) \/ Lstat(j) \/ NotStarted(j) \/ OpenSource(j) \/ OpenRefused(j)
    \/ ComparePrefix(j) \/ CopyEnds(j) \/ HashSource(j) \/ Check(j) \/ Fail(j)

LEMMA ReadsFrame ==
    ASSUME NEW j \in Jobs, Reads(j)
    PROVE  UNCHANGED <<ends, mode, offset, handle, history>>
BY DEF Reads, Start, Snapshot, Lstat, NotStarted, OpenSource, OpenRefused, ComparePrefix, CopyEnds,
       HashSource, Check, Fail

\* Such a step moves its own job to another place.
LEMMA ReadsPoint ==
    ASSUME NEW j \in Jobs, Reads(j)
    PROVE  \E p \in JobPoint : point' = [point EXCEPT ![j] = p]
<1>1. CASE Start(j) \/ Lstat(j) \/ Check(j)
  BY <1>1 DEF Start, Lstat, Check, Proceed, JobPoint
<1>2. CASE Snapshot(j) \/ ComparePrefix(j)
  BY <1>2 DEF Snapshot, ComparePrefix, Proceed, JobPoint
<1>3. CASE NotStarted(j) \/ OpenSource(j) \/ OpenRefused(j)
  BY <1>3 DEF NotStarted, OpenSource, OpenRefused, Proceed, JobPoint
<1>4. CASE CopyEnds(j) \/ HashSource(j) \/ Fail(j)
  BY <1>4 DEF CopyEnds, HashSource, Fail, Proceed, JobPoint
<1>5. QED
  BY <1>1, <1>2, <1>3, <1>4 DEF Reads

LEMMA TransferSteps ==
    TransferNext =>
        \/ \E j \in Jobs : Reads(j) \/ OpenTarget(j) \/ CopyBlock(j)
        \/ \E c \in Plain : ChangeSource(c) \/ WriteTarget(c)
        \/ \E i \in {"other", NoFile} : MoveTarget(i)
BY DEF TransferNext, JobStep, Reads

LEMMA SentIsPlain == ASSUME TransferTypeOK, NEW j \in Jobs PROVE Sent(j) \in Plain
BY DEF Sent, TransferTypeOK

-----------------------------------------------------------------------------
LEMMA TransferInitInv == TransferInit => TransferInv
<1> SUFFICES ASSUME TransferInit PROVE TransferInv
  OBVIOUS
<1> USE TransferAssumption
<1>1. TransferTypeOK
  <2>1. inode \in [Inodes -> Content]
    <3>1. PICK c \in Plain : inode = [i \in Inodes |-> IF i = path THEN c ELSE <<>>]
      BY DEF TransferInit
    <3>2. c \in Content
      BY PlainFacts
    <3>3. QED
      BY <3>1, <3>2, NothingIsPlain
  <2>2. /\ staged \in [Jobs -> Plain] /\ sum \in [Jobs -> Plain] /\ kept \in [Jobs -> Content]
    BY NothingIsPlain DEF TransferInit
  <2>3. QED
    BY <2>1, <2>2 DEF TransferInit, TransferTypeOK, JobPoint, Inodes
<1>2. PlaceInv /\ SentInv /\ Verified /\ PathInv /\ KeptInv /\ MatchInv
  BY DEF TransferInit, PlaceInv, Before, Opened, SentInv, Verified, PathInv, KeptInv, MatchInv
<1>3. QED
  BY <1>1, <1>2 DEF TransferInv

LEMMA TransferTypeStep ==
    ASSUME TransferTypeOK, PlaceInv, [TransferNext]_transferVars
    PROVE  TransferTypeOK'
<1> USE TransferAssumption
<1>1. ASSUME NEW j \in Jobs, Reads(j) PROVE TransferTypeOK'
  <2>1. point' \in [Jobs -> JobPoint]
    <3>1. PICK p \in JobPoint : point' = [point EXCEPT ![j] = p]
      BY <1>1, ReadsPoint
    <3>2. QED
      BY <3>1 DEF TransferTypeOK
  <2>2. Sent(j) \in Plain /\ Len(Sent(j)) \in 0..MaxLen
    BY SentIsPlain, PlainFacts
  <2>3. /\ \E f \in Plain : staged' \in {staged, [staged EXCEPT ![j] = f]}
        /\ \E f \in Plain : sum' \in {sum, [sum EXCEPT ![j] = f]}
        /\ \E n \in 0..MaxLen : total' \in {total, [total EXCEPT ![j] = n]}
        /\ \E n \in 0..MaxLen : pos' \in {pos, [pos EXCEPT ![j] = n]}
    <3>1. source \in Plain /\ offset[j] \in 0..MaxLen
      BY DEF TransferTypeOK
    <3>2. CASE Snapshot(j)
      BY <2>2, <3>1, <3>2 DEF Snapshot
    <3>3. CASE OpenSource(j) \/ HashSource(j)
      BY <2>2, <3>3 DEF OpenSource, HashSource
    <3>4. CASE ComparePrefix(j)
      BY <2>2, <3>1, <3>4 DEF ComparePrefix
    <3>5. CASE Start(j) \/ Lstat(j) \/ NotStarted(j) \/ OpenRefused(j) \/ CopyEnds(j) \/ Check(j) \/ Fail(j)
      BY <2>2, <3>5 DEF Start, Lstat, NotStarted, OpenRefused, CopyEnds, Check, Fail
    <3>6. QED
      BY <1>1, <3>2, <3>3, <3>4, <3>5 DEF Reads
  <2>4. /\ staged' \in [Jobs -> Plain] /\ sum' \in [Jobs -> Plain]
        /\ total' \in [Jobs -> 0..MaxLen] /\ pos' \in [Jobs -> 0..MaxLen]
    BY <2>3 DEF TransferTypeOK
  <2>5. QED
    BY <1>1, <2>1, <2>4, ReadsFrame DEF TransferTypeOK, ends, history
<1>2. ASSUME NEW j \in Jobs, OpenTarget(j) PROVE TransferTypeOK'
  <2> DEFINE i == IF path = NoFile THEN j ELSE path
  <2>1. i \in Inodes /\ path' = i /\ handle' = [handle EXCEPT ![j] = i]
    BY <1>2 DEF OpenTarget, TransferTypeOK, Inodes
  <2>2. inode' \in [Inodes -> Content]
    BY <1>2, <2>1, NothingIsPlain DEF OpenTarget, TransferTypeOK
  <2>3. inode'[i] \in Content /\ inode[i] \in Content /\ Len(inode'[i]) \in 0..MaxLen
    BY <2>1, <2>2, ContentFacts DEF TransferTypeOK
  <2>4. offset' \in [Jobs -> 0..MaxLen] /\ kept' \in [Jobs -> Content]
    BY <1>2, <2>1, <2>3 DEF OpenTarget, TransferTypeOK
  <2>5. crossed' \subseteq Jobs /\ disturbed' \subseteq Jobs /\ wrote' \subseteq Jobs
    BY <1>2 DEF OpenTarget, Touch, OpenAt, Verifying, TransferTypeOK
  <2>6. point' \in [Jobs -> JobPoint]
    BY <1>2 DEF OpenTarget, Proceed, TransferTypeOK, JobPoint
  <2>7. UNCHANGED <<source, approved, meddling, mode, staged, total, pos, sum>>
    BY <1>2 DEF OpenTarget
  <2>8. path' \in Inodes \cup {NoFile} /\ handle' \in [Jobs -> Inodes \cup {NoFile}]
    BY <2>1 DEF TransferTypeOK
  <2>9. QED
    BY <2>2, <2>4, <2>5, <2>6, <2>7, <2>8 DEF TransferTypeOK
<1>3. ASSUME NEW j \in Jobs, CopyBlock(j) PROVE TransferTypeOK'
  <2>1. Sent(j) \in Plain /\ Len(Sent(j)) \in 0..MaxLen /\ Sent(j) \in [1..Len(Sent(j)) -> Blocks]
    BY SentIsPlain, PlainFacts
  <2>2. pos[j] \in Nat /\ pos[j] + 1 \in 1..Len(Sent(j)) /\ pos[j] + 1 \in 1..MaxLen
    BY <1>3, <2>1 DEF CopyBlock, TransferTypeOK
  <2>3. handle[j] \in Inodes /\ inode[handle[j]] \in Content
    BY <1>3 DEF CopyBlock, TransferTypeOK, PlaceInv, Opened
  <2> DEFINE f == WriteAt(inode[handle[j]], pos[j] + 1, Sent(j)[pos[j] + 1])
  <2>4. f \in Content
    <3>1. Sent(j)[pos[j] + 1] \in Blocks
      BY <2>1, <2>2
    <3>2. QED
      BY <2>2, <2>3, <3>1, WriteIsContent
  <2>5. inode' \in [Inodes -> Content] /\ pos' \in [Jobs -> 0..MaxLen]
    <3>1. inode' = [inode EXCEPT ![handle[j]] = f] /\ pos' = [pos EXCEPT ![j] = pos[j] + 1]
      BY <1>3 DEF CopyBlock
    <3> HIDE DEF f
    <3>2. inode' \in [Inodes -> Content]
      BY <2>4, <3>1 DEF TransferTypeOK
    <3>3. pos[j] + 1 \in 0..MaxLen
      BY <2>2
    <3>4. pos' \in [Jobs -> 0..MaxLen]
      BY <3>1, <3>3 DEF TransferTypeOK
    <3>5. QED
      BY <3>2, <3>4
  <2>6. crossed' \subseteq Jobs /\ disturbed' \subseteq Jobs /\ wrote' \subseteq Jobs
    BY <1>3 DEF CopyBlock, Touch, OpenAt, Verifying, TransferTypeOK
  <2>7. QED
    BY <1>3, <2>5, <2>6 DEF CopyBlock, TransferTypeOK
<1>4. ASSUME NEW c \in Plain, ChangeSource(c) PROVE TransferTypeOK'
  BY <1>4 DEF ChangeSource, Verifying, TransferTypeOK
<1>5. ASSUME NEW c \in Plain, WriteTarget(c) PROVE TransferTypeOK'
  <2>1. c \in Content
    BY PlainFacts
  <2>2. QED
    BY <1>5, <2>1 DEF WriteTarget, Touch, OpenAt, Verifying, TransferTypeOK
<1>6. ASSUME NEW i \in {"other", NoFile}, MoveTarget(i) PROVE TransferTypeOK'
  <2>1. PICK c \in Plain \cup {<<>>} : inode' = [inode EXCEPT !["other"] = c]
    BY <1>6 DEF MoveTarget
  <2>2. c \in Content
    BY <2>1, PlainFacts, NothingIsPlain
  <2>3. QED
    BY <1>6, <2>1, <2>2 DEF MoveTarget, Touch, OpenAt, Verifying, TransferTypeOK, Inodes
<1>7. CASE UNCHANGED transferVars
  BY <1>7 DEF transferVars, ends, history, TransferTypeOK
<1>8. QED
  BY <1>1, <1>2, <1>3, <1>4, <1>5, <1>6, <1>7, TransferSteps

LEMMA PlaceStep ==
    ASSUME TransferTypeOK, PlaceInv, [TransferNext]_transferVars
    PROVE  PlaceInv'
<1> USE TransferAssumption
<1>1. ASSUME NEW j \in Jobs, Reads(j) PROVE PlaceInv'
  BY <1>1, ReadsFrame
     DEF TransferTypeOK, PlaceInv, Before, Opened, history, Proceed, Reads, Start, Snapshot, Lstat,
         NotStarted, OpenSource, OpenRefused, ComparePrefix, CopyEnds, HashSource, Check, Fail
<1>2. ASSUME NEW j \in Jobs, OpenTarget(j) PROVE PlaceInv'
  <2>1. /\ point[j] = "target" /\ point' = [point EXCEPT ![j] = "compare"] /\ mode' = mode
        /\ handle' = [handle EXCEPT ![j] = IF path = NoFile THEN j ELSE path]
        /\ mode[j] = "new" => path = NoFile
    BY <1>2 DEF OpenTarget, Proceed, Exclusive
  <2>2. wrote' = wrote \/ wrote' = wrote \cup {j}
    BY <1>2 DEF OpenTarget
  <2>3. mode[j] = "resume" => wrote' = wrote
    BY <1>2 DEF OpenTarget, Truncates
  <2>4. QED
    BY <2>1, <2>2, <2>3 DEF TransferTypeOK, PlaceInv, Before, Opened
<1>3. ASSUME NEW j \in Jobs, CopyBlock(j) PROVE PlaceInv'
  BY <1>3 DEF TransferTypeOK, PlaceInv, Before, Opened, CopyBlock
<1>4. CASE UNCHANGED <<point, mode, handle, wrote>>
  BY <1>4 DEF PlaceInv, Before, Opened
<1>5. QED
  BY <1>1, <1>2, <1>3, <1>4, TransferSteps
     DEF transferVars, history, ChangeSource, WriteTarget, MoveTarget

\* What is sent changes with the source, and when the private copy is made.
LEMMA SentStep ==
    ASSUME TransferTypeOK, SentInv, [TransferNext]_transferVars
    PROVE  SentInv'
<1> USE TransferAssumption DEF Sent
<1>1. ASSUME NEW j \in Jobs, Reads(j) PROVE SentInv'
  <2>1. UNCHANGED <<source, approved, disturbed>>
    BY <1>1, ReadsFrame DEF ends, history
  <2>2. CASE Snapshot(j)
    BY <2>1, <2>2 DEF TransferTypeOK, SentInv, Snapshot, Proceed
  <2>3. CASE HashSource(j)
    BY <2>1, <2>3 DEF TransferTypeOK, SentInv, HashSource, Proceed
  <2>4. CASE ~Snapshot(j) /\ ~HashSource(j)
    <3>1. /\ UNCHANGED <<staged, sum>> /\ (point'[j] \in {"idle", "snapshot", "notstarted"} \/ j \notin Agents
                \/ point[j] \notin {"idle", "snapshot", "notstarted"})
          /\ \A k \in Jobs : point'[k] = "check" => point[k] = "check"
          /\ \A k \in Jobs \ {j} : point'[k] = point[k]
      BY <1>1, <2>4 DEF TransferTypeOK, Proceed, Reads, Start, Lstat, NotStarted, OpenSource, OpenRefused,
                        ComparePrefix, CopyEnds, Check, Fail
    <3>2. QED
      BY <2>1, <3>1 DEF SentInv
  <2>5. QED
    BY <2>2, <2>3, <2>4
<1>2. ASSUME NEW j \in Jobs, OpenTarget(j) PROVE SentInv'
  BY <1>2 DEF TransferTypeOK, SentInv, OpenTarget, Proceed, Touch
<1>3. ASSUME NEW j \in Jobs, CopyBlock(j) PROVE SentInv'
  BY <1>3 DEF TransferTypeOK, SentInv, CopyBlock, Touch
<1>4. ASSUME NEW c \in Plain, ChangeSource(c) PROVE SentInv'
  BY <1>4 DEF TransferTypeOK, SentInv, ChangeSource, Verifying
<1>5. ASSUME NEW c \in Plain, WriteTarget(c) PROVE SentInv'
  BY <1>5 DEF SentInv, WriteTarget, Touch
<1>6. ASSUME NEW i \in {"other", NoFile}, MoveTarget(i) PROVE SentInv'
  BY <1>6 DEF SentInv, MoveTarget, Touch
<1>7. CASE UNCHANGED transferVars
  BY <1>7 DEF transferVars, ends, history, SentInv
<1>8. QED
  BY <1>1, <1>2, <1>3, <1>4, <1>5, <1>6, <1>7, TransferSteps

\* After its last check a job is disturbed by whatever changes its files.
LEMMA VerifiedStep ==
    ASSUME TransferTypeOK, SentInv, Verified, [TransferNext]_transferVars
    PROVE  Verified'
<1> USE TransferAssumption DEF Sent, Verifying
<1>1. ASSUME NEW j \in Jobs, Reads(j) PROVE Verified'
  <2>1. UNCHANGED <<source, path, inode, disturbed>>
    BY <1>1, ReadsFrame DEF ends, history
  <2>2. CASE Snapshot(j)
    BY <2>1, <2>2 DEF TransferTypeOK, Verified, Snapshot, Proceed
  <2>3. CASE Check(j)
    BY <2>1, <2>3 DEF TransferTypeOK, SentInv, Verified, Check, HashAgrees, Proceed
  <2>4. CASE ~Snapshot(j) /\ ~Check(j)
    <3>1. staged' = staged /\ \A k \in Jobs : point'[k] = "done" => point[k] = "done"
      BY <1>1, <2>4 DEF TransferTypeOK, Proceed, Reads, Start, Lstat, NotStarted, OpenSource, OpenRefused,
                        ComparePrefix, CopyEnds, HashSource, Fail
    <3>2. QED
      BY <2>1, <3>1 DEF Verified
  <2>5. QED
    BY <2>2, <2>3, <2>4
<1>2. ASSUME NEW j \in Jobs, OpenTarget(j) PROVE Verified'
  BY <1>2 DEF TransferTypeOK, Verified, OpenTarget, Proceed, Touch, Inodes
<1>3. ASSUME NEW j \in Jobs, CopyBlock(j) PROVE Verified'
  BY <1>3 DEF TransferTypeOK, Verified, CopyBlock, Touch
<1>4. ASSUME NEW c \in Plain, ChangeSource(c) PROVE Verified'
  BY <1>4 DEF TransferTypeOK, Verified, ChangeSource
<1>5. ASSUME NEW c \in Plain, WriteTarget(c) PROVE Verified'
  BY <1>5 DEF TransferTypeOK, Verified, WriteTarget, Touch
<1>6. ASSUME NEW i \in {"other", NoFile}, MoveTarget(i) PROVE Verified'
  BY <1>6 DEF TransferTypeOK, Verified, MoveTarget, Touch
<1>7. CASE UNCHANGED transferVars
  BY <1>7 DEF transferVars, ends, history, Verified
<1>8. QED
  BY <1>1, <1>2, <1>3, <1>4, <1>5, <1>6, <1>7, TransferSteps

\* Whoever takes the path away from an open file crosses those who have it open.
LEMMA PathStep ==
    ASSUME TransferTypeOK, PlaceInv, PathInv, [TransferNext]_transferVars
    PROVE  PathInv'
<1> USE TransferAssumption DEF TransferTypeOK, PathInv, Inodes
<1>1. ASSUME NEW j \in Jobs, OpenTarget(j) PROVE PathInv'
  BY <1>1 DEF OpenTarget, Touch
<1>2. ASSUME NEW i \in {"other", NoFile}, MoveTarget(i) PROVE PathInv'
  BY <1>2 DEF MoveTarget, Touch, OpenAt
<1>3. CASE UNCHANGED <<path, handle>> /\ crossed \subseteq crossed'
  BY <1>3
<1>4. QED
  BY <1>1, <1>2, <1>3, TransferSteps, ReadsFrame
     DEF transferVars, ends, history, CopyBlock, Touch, ChangeSource, WriteTarget

\* A job only adds behind what it has found.
LEMMA KeptStep ==
    ASSUME TransferTypeOK, PlaceInv, KeptInv, [TransferNext]_transferVars
    PROVE  KeptInv'
<1> USE TransferAssumption
<1>1. ASSUME NEW j \in Jobs, Reads(j) PROVE KeptInv'
  <2>1. UNCHANGED <<inode, mode, offset, handle, kept, crossed>>
    BY <1>1, ReadsFrame DEF ends, history
  <2>2. \A k \in Jobs : point'[k] = "copy" =>
          \/ point[k] = "copy" /\ pos'[k] = pos[k]
          \/ pos'[k] = offset[k]
    <3>1. CASE ComparePrefix(j)
      BY <3>1 DEF ComparePrefix, Proceed, TransferTypeOK
    <3>2. CASE Start(j) \/ Snapshot(j) \/ Lstat(j) \/ NotStarted(j)
      BY <3>2 DEF Start, Snapshot, Lstat, NotStarted, Proceed, TransferTypeOK
    <3>3. CASE OpenSource(j) \/ OpenRefused(j) \/ CopyEnds(j)
      BY <3>3 DEF OpenSource, OpenRefused, CopyEnds, Proceed, TransferTypeOK
    <3>4. CASE HashSource(j) \/ Check(j) \/ Fail(j)
      BY <3>4 DEF HashSource, Check, Fail, Proceed, TransferTypeOK
    <3>5. QED
      BY <1>1, <3>1, <3>2, <3>3, <3>4 DEF Reads
  <2> SUFFICES ASSUME NEW k \in Jobs, mode[k] = "resume", handle[k] # NoFile
               PROVE  /\ offset[k] = Len(kept[k])
                      /\ point'[k] = "copy" => offset[k] <= pos'[k]
                      /\ k \notin crossed => Begins(kept[k], inode[handle[k]])
    BY <2>1 DEF KeptInv
  <2>3. /\ offset[k] = Len(kept[k])
        /\ point[k] = "copy" => offset[k] <= pos[k]
        /\ k \notin crossed => Begins(kept[k], inode[handle[k]])
    BY DEF KeptInv
  <2>4. offset[k] \in 0..MaxLen
    BY DEF TransferTypeOK
  <2>5. offset[k] <= offset[k]
    <3>1. offset[k] \in Int
      BY <2>4
    <3>2. QED
      BY <3>1
  <2>6. QED
    BY <2>2, <2>3, <2>5
<1>2. ASSUME NEW j \in Jobs, OpenTarget(j) PROVE KeptInv'
  <2> DEFINE i == IF path = NoFile THEN j ELSE path
  <2>1. /\ point[j] = "target" /\ point' = [point EXCEPT ![j] = "compare"] /\ UNCHANGED <<mode, pos>>
        /\ i \in Inodes /\ handle' = [handle EXCEPT ![j] = i]
        /\ offset' = [offset EXCEPT ![j] = Len(inode'[i])] /\ kept' = [kept EXCEPT ![j] = inode[i]]
        /\ inode' = IF Truncates(j) THEN [inode EXCEPT ![i] = <<>>] ELSE inode
    BY <1>2 DEF OpenTarget, Proceed, TransferTypeOK, Inodes
  <2>2. crossed \subseteq crossed' /\ (inode'[i] # inode[i] => OpenAt(i) \ {j} \subseteq crossed')
    BY <1>2 DEF OpenTarget, Touch
  <2>3. mode[j] = "resume" => inode' = inode /\ Begins(kept'[j], inode'[handle'[j]])
    BY <2>1, BeginsItself DEF Truncates, TransferTypeOK
  <2> SUFFICES ASSUME NEW k \in Jobs, mode'[k] = "resume", handle'[k] # NoFile
               PROVE  /\ offset'[k] = Len(kept'[k])
                      /\ point'[k] = "copy" => offset'[k] <= pos'[k]
                      /\ k \notin crossed' => Begins(kept'[k], inode'[handle'[k]])
    BY DEF KeptInv
  <2>4. CASE k = j
    BY <2>1, <2>3, <2>4 DEF TransferTypeOK
  <2>5. CASE k # j
    <3>1. UNCHANGED <<offset[k], kept[k], point[k], pos[k], handle[k], mode[k]>>
      BY <2>1, <2>5 DEF TransferTypeOK
    <3>2. k \notin crossed' => inode'[handle[k]] = inode[handle[k]]
      BY <2>1, <2>2, <2>5 DEF OpenAt, TransferTypeOK
    <3>3. QED
      BY <2>2, <3>1, <3>2 DEF KeptInv
  <2>6. QED
    BY <2>4, <2>5
<1>3. ASSUME NEW j \in Jobs, CopyBlock(j) PROVE KeptInv'
  <2> DEFINE f == inode[handle[j]]
             p == pos[j] + 1
             b == Sent(j)[p]
  <2>1. Sent(j) \in Plain /\ Len(Sent(j)) \in 0..MaxLen /\ Sent(j) \in [1..Len(Sent(j)) -> Blocks]
    BY SentIsPlain, PlainFacts
  <2>2. point[j] = "copy" /\ pos[j] \in Nat /\ p \in 1..MaxLen /\ b \in Blocks
    <3>1. point[j] = "copy" /\ pos[j] \in Nat /\ p \in 1..MaxLen /\ p \in 1..Len(Sent(j))
      BY <1>3, <2>1 DEF CopyBlock, TransferTypeOK
    <3>2. QED
      BY <2>1, <3>1
  <2>3. handle[j] \in Inodes /\ f \in Content
    BY <2>2 DEF TransferTypeOK, PlaceInv, Opened
  <2>4. /\ inode' = [inode EXCEPT ![handle[j]] = WriteAt(f, p, b)] /\ pos' = [pos EXCEPT ![j] = p]
        /\ crossed' = crossed \cup (OpenAt(handle[j]) \ {j})
        /\ UNCHANGED <<point, mode, offset, handle, kept>>
    BY <1>3 DEF CopyBlock, Touch
  <2> HIDE DEF f, p, b
  <2> SUFFICES ASSUME NEW k \in Jobs, mode[k] = "resume", handle[k] # NoFile
               PROVE  /\ offset[k] = Len(kept[k])
                      /\ point[k] = "copy" => offset[k] <= pos'[k]
                      /\ k \notin crossed' => Begins(kept[k], inode'[handle[k]])
    BY <2>4 DEF KeptInv
  <2>5. offset[k] = Len(kept[k]) /\ offset[k] \in Nat /\ kept[k] \in Content
    BY DEF KeptInv, TransferTypeOK
  <2>6. point[k] = "copy" => offset[k] <= pos'[k]
    BY <2>4, <2>5 DEF KeptInv, TransferTypeOK, p
  <2>7. ASSUME k \notin crossed' PROVE Begins(kept[k], inode'[handle[k]])
    <3>1. Begins(kept[k], inode[handle[k]])
      BY <2>4, <2>7 DEF KeptInv
    <3>2. CASE k = j
      <4>1. Len(kept[j]) < p
        BY <2>2, <2>5, <3>2 DEF KeptInv, p
      <4>2. Begins(kept[j], WriteAt(f, p, b))
        BY <2>2, <2>3, <2>5, <3>1, <3>2, <4>1, WriteKeepsBeginning DEF f
      <4>3. QED
        BY <2>3, <2>4, <3>2, <4>2 DEF TransferTypeOK
    <3>3. CASE k # j
      <4>1. handle[k] # handle[j]
        BY <2>4, <2>7, <3>3 DEF OpenAt
      <4>2. QED
        BY <2>4, <3>1, <4>1 DEF TransferTypeOK
    <3>4. QED
      BY <3>2, <3>3
  <2>8. QED
    BY <2>5, <2>6, <2>7
<1>4. ASSUME NEW c \in Plain, WriteTarget(c) PROVE KeptInv'
  <2>1. /\ inode' = [inode EXCEPT ![path] = c] /\ crossed' = crossed \cup (OpenAt(path) \ {"other"})
        /\ UNCHANGED <<point, mode, offset, pos, handle, kept>>
    BY <1>4 DEF WriteTarget, Touch
  <2>2. \A k \in Jobs : k \notin crossed' => handle[k] # path /\ k \notin crossed
    BY <2>1 DEF OpenAt
  <2>3. QED
    BY <2>1, <2>2 DEF KeptInv, TransferTypeOK
<1>5. ASSUME NEW i \in {"other", NoFile}, MoveTarget(i) PROVE KeptInv'
  <2>1. /\ \E c : inode' = [inode EXCEPT !["other"] = c]
        /\ crossed \subseteq crossed' /\ \A k \in Jobs : handle[k] # "other"
        /\ UNCHANGED <<point, mode, offset, pos, handle, kept>>
    BY <1>5 DEF MoveTarget, Touch, OpenAt
  <2>2. QED
    BY <2>1 DEF KeptInv, TransferTypeOK
<1>6. CASE UNCHANGED <<inode, point, mode, offset, pos, handle, kept, crossed>>
  BY <1>6 DEF KeptInv
<1>7. QED
  BY <1>1, <1>2, <1>3, <1>4, <1>5, <1>6, TransferSteps
     DEF transferVars, ends, history, ChangeSource

\* What a job that resumes writes behind is a beginning of what it sends.
LEMMA MatchStep ==
    ASSUME TransferTypeOK, PlaceInv, PathInv, KeptInv, MatchInv, [TransferNext]_transferVars
    PROVE  MatchInv'
<1> USE TransferAssumption
<1>1. ASSUME NEW j \in Jobs, ComparePrefix(j) PROVE MatchInv'
  <2>1. UNCHANGED <<inode, path, mode, staged, offset, handle, kept, wrote, crossed>>
    BY <1>1 DEF ComparePrefix, ends, history
  <2>2. \A k \in Jobs \ {j} : point'[k] = point[k]
    BY <1>1 DEF ComparePrefix, Proceed, TransferTypeOK
  <2>3. ASSUME j \in Agents, mode[j] = "resume", point'[j] = "copy", j \notin crossed
        PROVE  Begins(kept[j], staged[j])
    <3>1. point[j] = "compare" /\ handle[j] # NoFile /\ path = handle[j] /\ (offset[j] > 0 => SamePrefix(j))
      BY <1>1, <2>3 DEF ComparePrefix, Proceed, TransferTypeOK, PlaceInv, Opened, PathInv
    <3>2. offset[j] = Len(kept[j]) /\ Begins(kept[j], inode[path]) /\ offset[j] \in Nat
      BY <2>3, <3>1 DEF KeptInv, TransferTypeOK
    <3>3. staged[j] \in Content /\ Sent(j) = staged[j] /\ kept[j] \in Content
      BY <2>3, PlainFacts DEF Sent, TransferTypeOK
    <3>4. CASE offset[j] = 0
      BY <3>2, <3>3, <3>4, ContentFacts, TransferAssumption DEF Begins
    <3>5. CASE offset[j] > 0
      <4>1. /\ Len(kept[j]) <= Len(staged[j])
            /\ SubSeq(staged[j], 1, Len(kept[j])) = SubSeq(inode[path], 1, Len(kept[j]))
        BY <3>1, <3>2, <3>3, <3>5 DEF SamePrefix
      <4>2. inode[path] \in Content
        BY <3>1 DEF TransferTypeOK
      <4>3. QED
        BY <3>2, <3>3, <4>1, <4>2, SameBeginning
    <3>6. QED
      BY <3>2, <3>4, <3>5
  <2>4. j \in wrote => j \notin Agents \/ mode[j] # "resume"
    BY <1>1 DEF ComparePrefix, PlaceInv
  <2>5. QED
    BY <2>1, <2>2, <2>3, <2>4 DEF MatchInv
<1>2. ASSUME NEW j \in Jobs, Reads(j), ~ComparePrefix(j) PROVE MatchInv'
  <2>1. UNCHANGED <<mode, kept, wrote, crossed>> /\ handle' = handle
    BY <1>2, ReadsFrame DEF history
  <2>2. \A k \in Jobs : (point'[k] = "copy" => point[k] = "copy") /\ (staged'[k] # staged[k] => handle[k] = NoFile /\ point'[k] # "copy")
    BY <1>2 DEF TransferTypeOK, PlaceInv, Before, Proceed, Reads, Start, Snapshot, Lstat, NotStarted,
                OpenSource, OpenRefused, CopyEnds, HashSource, Check, Fail
  <2>3. QED
    BY <2>1, <2>2 DEF MatchInv, PlaceInv
<1>3. ASSUME NEW j \in Jobs, OpenTarget(j) PROVE MatchInv'
  <2>1. /\ point[j] = "target" /\ point' = [point EXCEPT ![j] = "compare"] /\ UNCHANGED <<mode, staged>>
        /\ \A k \in Jobs \ {j} : kept'[k] = kept[k]
        /\ wrote \subseteq wrote' /\ wrote' \subseteq wrote \cup {j} /\ crossed \subseteq crossed'
        /\ mode[j] = "resume" => wrote' = wrote
    BY <1>3 DEF OpenTarget, Proceed, Touch, TransferTypeOK, Truncates
  <2>2. j \notin wrote
    BY <2>1 DEF PlaceInv, Before
  <2>3. QED
    BY <2>1, <2>2 DEF MatchInv, TransferTypeOK
<1>4. ASSUME NEW j \in Jobs, CopyBlock(j) PROVE MatchInv'
  BY <1>4 DEF CopyBlock, Touch, MatchInv
<1>5. CASE UNCHANGED <<point, mode, staged, kept, wrote>> /\ crossed \subseteq crossed'
  BY <1>5 DEF MatchInv
<1>6. QED
  BY <1>1, <1>2, <1>3, <1>4, <1>5, TransferSteps
     DEF transferVars, ends, history, ChangeSource, WriteTarget, MoveTarget, Touch

\* What a transfer has read, written and found fits together, for any jobs,
\* blocks, lengths and changes by other programs.
THEOREM TransferInvariance == TransferSpec => []TransferInv
<1>1. TransferInv /\ [TransferNext]_transferVars => TransferInv'
  BY TransferTypeStep, PlaceStep, SentStep, VerifiedStep, PathStep, KeptStep, MatchStep DEF TransferInv
<1>2. QED
  BY TransferInitInv, <1>1, PTL DEF TransferSpec

\* A job that reports success has left its source at the path, and one of the
\* assistant what the user has approved, unless somebody came after its last
\* check (Manager.transfer, uploadLocal).
THEOREM SuccessIsVerifiedTheorem == TransferSpec => []SuccessIsVerified
<1>1. TransferInv => SuccessIsVerified
  BY TransferAssumption DEF TransferInv, SentInv, Verified, ApprovedIsSent, Sent, SuccessIsVerified
<1>2. QED
  BY <1>1, TransferInvariance, PTL

\* A job for a new file writes only its own, one that resumes only behind what
\* it has found and compared, and one that was refused nothing.
THEOREM ForeignIsKeptTheorem == TransferSpec => []ForeignIsKept
<1>1. TransferInv => ForeignIsKept
  <2> SUFFICES ASSUME TransferInv PROVE ForeignIsKept
    OBVIOUS
  <2> USE TransferAssumption DEF TransferInv
  <2>1. NewWritesItsOwn /\ RefusedIsUntouched
    BY DEF PlaceInv, Before, NewWritesItsOwn, RefusedIsUntouched
  <2>2. ResumeKeeps
    BY BeginningIsPrefix DEF KeptInv, TransferTypeOK, ResumeKeeps
  <2>3. ResumeMatches
    BY BeginningIsPrefix, PlainFacts DEF MatchInv, TransferTypeOK, ResumeMatches
  <2>4. QED
    BY <2>1, <2>2, <2>3 DEF ForeignIsKept
<1>2. QED
  BY <1>1, TransferInvariance, PTL
=============================================================================
