--------------------------- MODULE ExecutorProofs ---------------------------
(***************************************************************************)
(* Proofs about Executor for every set of attempts, hosts and requests.    *)
(*                                                                         *)
(* None of the properties is inductive by itself.  Inv adds what connects  *)
(* the program counter of an attempt with the row it owns, with the lock   *)
(* it holds and with what the server may have seen of it.                  *)
(***************************************************************************)
EXTENDS Executor, TLAPS

Owning == {"prepare", "dispatch", "await", "finish"}
Holding == {"check", "claim"} \cup Owning

\* An attempt has a request once it began; it runs in a process that is up;
\* only a change waits for a lock.
ControlInv ==
    /\ \A i \in Attempts : pc[i] # "idle" => request[i] \in Requests
    /\ \A i \in Attempts : pc[i] \in Active => process = "up"
    /\ \A i \in Attempts : pc[i] = "queue" => Mutates(request[i].op)
    /\ \A i \in Attempts : pc[i] # "done" => reported[i] = "none"

\* A row is a claim of the attempt that inserted it.
RowInv ==
    \A k \in Key :
        executions[k].status # "none" =>
            /\ executions[k].id \in Attempts
            /\ pc[executions[k].id] \in Owning \cup {"done", "dead"}
            /\ executions[k].request \in Requests
            /\ executions[k].request = request[executions[k].id]
            /\ KeyOf(executions[k].request) = k

NoOwnerInv ==
    \A k \in Key : executions[k].status = "none" => executions[k].id = NoAttempt

\* Between its claim and its return an attempt owns a running row.
OwnerInv ==
    \A i \in Attempts :
        pc[i] \in Owning =>
            /\ executions[KeyOf(request[i])].id = i
            /\ executions[KeyOf(request[i])].status = "running"

\* A server was contacted only for an attempt that owns its row.
RemoteInv ==
    \A i \in Attempts :
        remote[i] # "none" =>
            /\ pc[i] \in {"await", "finish", "done", "dead"}
            /\ request[i] \in Requests
            /\ executions[KeyOf(request[i])].id = i
            /\ executions[KeyOf(request[i])].status # "none"

\* A change holds its host's lock from the check until it returns.
LockInv ==
    \A i \in Attempts :
        pc[i] \in Holding /\ Mutates(request[i].op)
          => locks[request[i].host] = i

\* What the outcome of a change says about the server.
OutcomeInv ==
    \A i \in Attempts :
        /\ pc[i] = "await" /\ Mutates(request[i].op) => remote[i] # "none"
        /\ pc[i] = "finish" /\ Mutates(request[i].op) =>
             /\ outcome[i] \in {"ok", "error", "lost"}
             /\ outcome[i] = "ok" => remote[i] # "none"
             /\ ~Delivers(request[i].op) =>
                  /\ outcome[i] = "ok" => remote[i] = "done"
                  /\ outcome[i] = "error" => remote[i] # "inflight"

\* An attempt that is late cannot pass the check.
LateInv ==
    \A i \in late :
        /\ pc[i] \in {"queue", "check", "done", "dead"}
        /\ pc[i] \in {"queue", "check"} => i \in cancelled \/ authority[i] # "valid"
        /\ remote[i] = "none"
        /\ \A k \in Key : executions[k].id # i

Inv ==
    /\ TypeOK /\ ControlInv /\ RowInv /\ NoOwnerInv /\ OwnerInv /\ RemoteInv
    /\ LockInv /\ OutcomeInv /\ LateInv
    /\ VerdictMatchesServer /\ ReportIsDurable /\ NoStaleRunning

-----------------------------------------------------------------------------
\* The identity of a request is a key of the executions table.
LEMMA KeyOfRequest == \A r \in Requests : KeyOf(r) \in Key
  BY DEF Key

\* Each variable keeps its type through every step of Execute, of the server
\* and of Recover.
LEMMA TypeStep == TypeOK /\ ControlInv /\ [Next]_vars => TypeOK'
<1> SUFFICES ASSUME TypeOK, ControlInv, [Next]_vars
             PROVE  TypeOK'
  OBVIOUS
<1> USE RequestsAssumption, MaxCrashesAssumption, KeyOfRequest
    DEF TypeOK, PC, Active, Status
<1>1. ASSUME NEW i \in Attempts, NEW r \in Requests, Begin(i, r)
      PROVE  TypeOK'
  BY <1>1 DEF Begin, Goto
<1>2. ASSUME NEW i \in Attempts, Lock(i) \/ LeaveQueue(i) \/ CheckAuthority(i)
      PROVE  TypeOK'
  BY <1>2 DEF Lock, LeaveQueue, CheckAuthority, Goto, Return, Forget
<1>3. ASSUME NEW i \in Attempts, Claim(i) \/ ClaimFails(i)
      PROVE  TypeOK'
  <2>1. request[i] \in Requests
    BY <1>3 DEF Claim, ClaimFails, ControlInv
  <2>2. executions' \in [Key -> Row]
    BY <1>3, <2>1 DEF Claim, ClaimFails, Insert, Row
  <2>3. executions[KeyOf(request[i])].status \in Status \cup {"none"}
    BY <2>1 DEF Row
  <2> QED
    BY <1>3, <2>2, <2>3 DEF Claim, ClaimFails, Goto, Return, Forget
<1>4. ASSUME NEW i \in Attempts, Prepare(i) \/ PrepareFails(i)
      PROVE  TypeOK'
  <2>1. executions' \in [Key -> Row]
    BY <1>4 DEF Prepare, PrepareFails, SetStatus, WithStatus, Row
  <2> QED
    BY <1>4, <2>1 DEF Prepare, PrepareFails, Goto, Return, Forget
<1>5. ASSUME NEW i \in Attempts,
             Dispatch(i) \/ FailBeforeContact(i) \/ Answer(i) \/ LoseAnswer(i)
      PROVE  TypeOK'
  BY <1>5 DEF Dispatch, FailBeforeContact, Answer, LoseAnswer, Goto, Ends
<1>6. ASSUME NEW i \in Attempts, Finish(i) \/ FinishFails(i)
      PROVE  TypeOK'
  <2>1. StatusOf(request[i].op, outcome[i]) \in Status
    BY DEF StatusOf
  <2>2. executions' \in [Key -> Row]
    BY <1>6, <2>1 DEF Finish, FinishFails, SetStatus, WithStatus, Row
  <2> QED
    BY <1>6, <2>1, <2>2 DEF Finish, FinishFails, Return, Forget
<1>7. ASSUME NEW i \in Attempts,
             \/ CancelContext(i) \/ ExpireGrant(i) \/ ServerActs(i)
             \/ Block(i) \/ Unblock(i)
      PROVE  TypeOK'
  BY <1>7 DEF CancelContext, ExpireGrant, ServerActs, Block, Unblock, Queued
<1>8. ASSUME NEW h \in Hosts, EditHost(h)
      PROVE  TypeOK'
  BY <1>8 DEF EditHost, Queued
<1>9. CASE Crash \/ Restart \/ RecoverDone
  BY <1>9 DEF Crash, Restart, RecoverDone
<1>10. ASSUME NEW k \in Key, RecoverRow(k)
       PROVE  TypeOK'
  BY <1>10 DEF RecoverRow, WithStatus, Row
<1>11. CASE UNCHANGED vars
  BY <1>11 DEF vars
<1> QED
  BY <1>1, <1>2, <1>3, <1>4, <1>5, <1>6, <1>7, <1>8, <1>9, <1>10, <1>11
  DEF Next, Step

\* What Claim does to the table: it adds the attempt's row or nothing.
LEMMA ClaimEffect ==
    ASSUME Inv, NEW i \in Attempts, Claim(i) \/ ClaimFails(i)
    PROVE  /\ request[i] \in Requests /\ KeyOf(request[i]) \in Key
           /\ \A k \in Key : k # KeyOf(request[i]) => executions'[k] = executions[k]
           /\ \/ executions'[KeyOf(request[i])] = executions[KeyOf(request[i])]
              \/ /\ executions[KeyOf(request[i])].status = "none"
                 /\ executions'[KeyOf(request[i])].id = i
                 /\ executions'[KeyOf(request[i])].request = request[i]
                 /\ executions'[KeyOf(request[i])].status = "running"
                 /\ pc'[i] \in {"prepare", "done"}
           /\ pc'[i] = "prepare"
                => /\ executions[KeyOf(request[i])].status = "none"
                   /\ executions'[KeyOf(request[i])].id = i
                   /\ executions'[KeyOf(request[i])].status = "running"
<1>1. request[i] \in Requests /\ KeyOf(request[i]) \in Key
  BY KeyOfRequest DEF Inv, ControlInv, Claim, ClaimFails
<1> DEFINE key == KeyOf(request[i])
<1>2. executions \in [Key -> Row]
  BY DEF Inv, TypeOK
<1>3. CASE Claim(i)
  BY <1>1, <1>2, <1>3
  DEF Claim, Insert, Goto, Return, Forget, Inv, TypeOK
<1>4. CASE ClaimFails(i)
  BY <1>1, <1>2, <1>4
  DEF ClaimFails, Insert, Return, Forget, Inv, TypeOK
<1> QED
  BY <1>1, <1>3, <1>4

\* Saving a verdict changes the status of the attempt's own row only.
LEMMA SettleEffect ==
    ASSUME Inv, NEW i \in Attempts, NEW s, pc[i] \in Owning,
           SetStatus(i, s)
    PROVE  /\ request[i] \in Requests /\ KeyOf(request[i]) \in Key
           /\ \A k \in Key : k # KeyOf(request[i]) => executions'[k] = executions[k]
           /\ executions'[KeyOf(request[i])].id = i
           /\ executions'[KeyOf(request[i])].request
                = executions[KeyOf(request[i])].request
           /\ executions'[KeyOf(request[i])].status = s
<1>1. request[i] \in Requests /\ KeyOf(request[i]) \in Key
  BY KeyOfRequest DEF Inv, ControlInv, Owning
<1> QED
  BY <1>1 DEF Inv, TypeOK, SetStatus, WithStatus, OwnerInv

\* Control points, requests and results of an attempt stay consistent.
LEMMA ControlStep == Inv /\ [Next]_vars => ControlInv'
<1> SUFFICES ASSUME Inv, [Next]_vars
             PROVE  ControlInv'
  OBVIOUS
<1> USE RequestsAssumption DEF Inv, TypeOK, ControlInv, PC, Active, Status, Mutates
<1>1. ASSUME NEW i \in Attempts, NEW r \in Requests, Begin(i, r)
      PROVE  ControlInv'
  BY <1>1 DEF Begin, Goto
<1>2. ASSUME NEW i \in Attempts, Lock(i)
      PROVE  ControlInv'
  BY <1>2 DEF Lock
<1>3. ASSUME NEW i \in Attempts, LeaveQueue(i) \/ CheckAuthority(i)
      PROVE  ControlInv'
  BY <1>3 DEF LeaveQueue, CheckAuthority, Goto, Return, Forget
<1>4. ASSUME NEW i \in Attempts, Claim(i) \/ ClaimFails(i)
      PROVE  ControlInv'
  BY <1>4 DEF Claim, ClaimFails, Insert, Goto, Return, Forget
<1>5. ASSUME NEW i \in Attempts, Prepare(i) \/ PrepareFails(i)
      PROVE  ControlInv'
  BY <1>5 DEF Prepare, PrepareFails, SetStatus, WithStatus, Goto, Return, Forget
<1>6. ASSUME NEW i \in Attempts,
             Dispatch(i) \/ FailBeforeContact(i) \/ Answer(i) \/ LoseAnswer(i)
      PROVE  ControlInv'
  BY <1>6 DEF Dispatch, FailBeforeContact, Answer, LoseAnswer, Goto, Ends
<1>7. ASSUME NEW i \in Attempts, Finish(i) \/ FinishFails(i)
      PROVE  ControlInv'
  BY <1>7 DEF Finish, FinishFails, SetStatus, WithStatus, Return, Forget
<1>8. ASSUME NEW i \in Attempts,
             \/ CancelContext(i) \/ ExpireGrant(i) \/ ServerActs(i)
             \/ Block(i) \/ Unblock(i)
      PROVE  ControlInv'
  BY <1>8 DEF CancelContext, ExpireGrant, ServerActs, Block, Unblock
<1>9. ASSUME NEW h \in Hosts, EditHost(h)
      PROVE  ControlInv'
  BY <1>9 DEF EditHost
<1>10. CASE Crash
  BY <1>10 DEF Crash
<1>11. CASE Restart \/ RecoverDone
  BY <1>11 DEF Restart, RecoverDone
<1>12. ASSUME NEW k \in Key, RecoverRow(k)
       PROVE  ControlInv'
  BY <1>12 DEF RecoverRow, WithStatus
<1>13. CASE UNCHANGED vars
  BY <1>13 DEF vars
<1> QED
  BY <1>1, <1>2, <1>3, <1>4, <1>5, <1>6, <1>7, <1>8, <1>9, <1>10, <1>11, <1>12, <1>13
  DEF Next, Step

\* A row keeps its owner and its request, and the owner does not restart.
LEMMA RowStep == Inv /\ [Next]_vars => (RowInv /\ NoOwnerInv)'
<1> SUFFICES ASSUME Inv, [Next]_vars
             PROVE  (RowInv /\ NoOwnerInv)'
  OBVIOUS
<1> USE RequestsAssumption, KeyOfRequest
    DEF Inv, TypeOK, PC, Active, Owning, Holding,
        ControlInv, RowInv, NoOwnerInv, OwnerInv, Row, Status
<1>1. ASSUME NEW i \in Attempts, NEW r \in Requests, Begin(i, r)
      PROVE  (RowInv /\ NoOwnerInv)'
  BY <1>1 DEF Begin, Goto
<1>2. ASSUME NEW i \in Attempts, Lock(i)
      PROVE  (RowInv /\ NoOwnerInv)'
  BY <1>2 DEF Lock
<1>3. ASSUME NEW i \in Attempts, LeaveQueue(i) \/ CheckAuthority(i)
      PROVE  (RowInv /\ NoOwnerInv)'
  BY <1>3 DEF LeaveQueue, CheckAuthority, Goto, Return, Forget
<1>4. ASSUME NEW i \in Attempts, Claim(i) \/ ClaimFails(i)
      PROVE  (RowInv /\ NoOwnerInv)'
  <2>1. pc[i] = "claim" /\ request' = request
        /\ \A j \in Attempts : j # i => pc'[j] = pc[j]
        /\ pc'[i] \in {"prepare", "done"}
    BY <1>4 DEF Claim, ClaimFails, Goto, Return, Forget
  <2>2. ASSUME NEW k \in Key, executions'[k] = executions[k]
        PROVE  RowInv!(k)'
    BY <2>1, <2>2
  <2>3. ASSUME NEW k \in Key, executions'[k] # executions[k]
        PROVE  RowInv!(k)'
    BY <1>4, <2>1, <2>3, ClaimEffect
  <2>4. RowInv'
    BY <2>2, <2>3
  <2>5. \A k \in Key : executions'[k].status = "none" => executions'[k] = executions[k]
    BY <1>4, ClaimEffect
  <2> QED
    BY <2>4, <2>5
<1>5. ASSUME NEW i \in Attempts, Prepare(i) \/ PrepareFails(i)
      PROVE  (RowInv /\ NoOwnerInv)'
  <2>1. CASE SetStatus(i, "failed") /\ PrepareFails(i)
    BY <2>1, SettleEffect DEF PrepareFails, Return
  <2>2. CASE UNCHANGED executions
    BY <1>5, <2>2 DEF Prepare, PrepareFails, Goto, Return
  <2> QED
    BY <1>5, <2>1, <2>2 DEF Prepare, PrepareFails
<1>6. ASSUME NEW i \in Attempts,
             Dispatch(i) \/ FailBeforeContact(i) \/ Answer(i) \/ LoseAnswer(i)
      PROVE  (RowInv /\ NoOwnerInv)'
  BY <1>6 DEF Dispatch, FailBeforeContact, Answer, LoseAnswer, Goto, Ends
<1>7. ASSUME NEW i \in Attempts, Finish(i) \/ FinishFails(i)
      PROVE  (RowInv /\ NoOwnerInv)'
  <2>1. CASE Finish(i)
    BY <2>1, SettleEffect DEF Finish, Return, Forget, StatusOf
  <2>2. CASE FinishFails(i)
    BY <2>2 DEF FinishFails, Return, Forget
  <2> QED
    BY <1>7, <2>1, <2>2
<1>8. ASSUME NEW i \in Attempts,
             \/ CancelContext(i) \/ ExpireGrant(i) \/ ServerActs(i)
             \/ Block(i) \/ Unblock(i)
      PROVE  (RowInv /\ NoOwnerInv)'
  BY <1>8 DEF CancelContext, ExpireGrant, ServerActs, Block, Unblock
<1>9. ASSUME NEW h \in Hosts, EditHost(h)
      PROVE  (RowInv /\ NoOwnerInv)'
  BY <1>9 DEF EditHost
<1>10. CASE Crash
  BY <1>10 DEF Crash
<1>11. CASE Restart \/ RecoverDone
  BY <1>11 DEF Restart, RecoverDone
<1>12. ASSUME NEW k \in Key, RecoverRow(k)
       PROVE  (RowInv /\ NoOwnerInv)'
  BY <1>12 DEF RecoverRow, WithStatus
<1>13. CASE UNCHANGED vars
  BY <1>13 DEF vars
<1> QED
  BY <1>1, <1>2, <1>3, <1>4, <1>5, <1>6, <1>7, <1>8, <1>9, <1>10, <1>11, <1>12, <1>13
  DEF Next, Step

\* Between claim and return the row stays running and the attempt's own.
LEMMA OwnerStep == Inv /\ [Next]_vars => OwnerInv'
<1> SUFFICES ASSUME Inv, [Next]_vars
             PROVE  OwnerInv'
  OBVIOUS
<1> USE RequestsAssumption, KeyOfRequest
    DEF Inv, TypeOK, PC, Active, Owning, Holding,
        ControlInv, RowInv, OwnerInv, Row, Status
<1>1. ASSUME NEW i \in Attempts, NEW r \in Requests, Begin(i, r)
      PROVE  OwnerInv'
  BY <1>1 DEF Begin, Goto
<1>2. ASSUME NEW i \in Attempts, Lock(i)
      PROVE  OwnerInv'
  BY <1>2 DEF Lock
<1>3. ASSUME NEW i \in Attempts, LeaveQueue(i) \/ CheckAuthority(i)
      PROVE  OwnerInv'
  BY <1>3 DEF LeaveQueue, CheckAuthority, Goto, Return, Forget
<1>4. ASSUME NEW i \in Attempts, Claim(i) \/ ClaimFails(i)
      PROVE  OwnerInv'
  <2>1. pc[i] = "claim" /\ request' = request /\ remote' = remote
        /\ (\A j \in Attempts : j # i => pc'[j] = pc[j])
        /\ pc'[i] \in {"prepare", "done"}
    BY <1>4 DEF Claim, ClaimFails, Goto, Return, Forget
  <2> QED
    BY <1>4, <2>1, ClaimEffect
<1>5. ASSUME NEW i \in Attempts, Prepare(i) \/ PrepareFails(i)
      PROVE  OwnerInv'
  <2>1. CASE SetStatus(i, "failed") /\ PrepareFails(i)
    BY <2>1, SettleEffect DEF PrepareFails, Return, Forget
  <2>2. CASE UNCHANGED executions
    BY <1>5, <2>2 DEF Prepare, PrepareFails, Goto, Return, Forget
  <2> QED
    BY <1>5, <2>1, <2>2 DEF Prepare, PrepareFails
<1>6. ASSUME NEW i \in Attempts,
             Dispatch(i) \/ FailBeforeContact(i) \/ Answer(i) \/ LoseAnswer(i)
      PROVE  OwnerInv'
  BY <1>6 DEF Dispatch, FailBeforeContact, Answer, LoseAnswer, Goto, Ends
<1>7. ASSUME NEW i \in Attempts, Finish(i) \/ FinishFails(i)
      PROVE  OwnerInv'
  <2>1. CASE Finish(i)
    BY <2>1, SettleEffect DEF Finish, Return, Forget, StatusOf
  <2>2. CASE FinishFails(i)
    BY <2>2 DEF FinishFails, Return, Forget
  <2> QED
    BY <1>7, <2>1, <2>2
<1>8. ASSUME NEW i \in Attempts,
             \/ CancelContext(i) \/ ExpireGrant(i) \/ ServerActs(i)
             \/ Block(i) \/ Unblock(i)
      PROVE  OwnerInv'
  BY <1>8 DEF CancelContext, ExpireGrant, ServerActs, Block, Unblock
<1>9. ASSUME NEW h \in Hosts, EditHost(h)
      PROVE  OwnerInv'
  BY <1>9 DEF EditHost
<1>10. CASE Crash
  BY <1>10 DEF Crash
<1>11. CASE Restart \/ RecoverDone
  BY <1>11 DEF Restart, RecoverDone
<1>12. ASSUME NEW k \in Key, RecoverRow(k)
       PROVE  OwnerInv'
  BY <1>12 DEF RecoverRow, WithStatus
<1>13. CASE UNCHANGED vars
  BY <1>13 DEF vars
<1> QED
  BY <1>1, <1>2, <1>3, <1>4, <1>5, <1>6, <1>7, <1>8, <1>9, <1>10, <1>11, <1>12, <1>13
  DEF Next, Step

\* Only the owner of a row contacts the server, and it stays the owner.
LEMMA RemoteStep == Inv /\ [Next]_vars => RemoteInv'
<1> SUFFICES ASSUME Inv, [Next]_vars
             PROVE  RemoteInv'
  OBVIOUS
<1> USE RequestsAssumption, KeyOfRequest
    DEF Inv, TypeOK, PC, Active, Owning, Holding,
        ControlInv, RowInv, OwnerInv, RemoteInv, Row, Status
<1>1. ASSUME NEW i \in Attempts, NEW r \in Requests, Begin(i, r)
      PROVE  RemoteInv'
  BY <1>1 DEF Begin, Goto
<1>2. ASSUME NEW i \in Attempts, Lock(i)
      PROVE  RemoteInv'
  BY <1>2 DEF Lock
<1>3. ASSUME NEW i \in Attempts, LeaveQueue(i) \/ CheckAuthority(i)
      PROVE  RemoteInv'
  BY <1>3 DEF LeaveQueue, CheckAuthority, Goto, Return, Forget
<1>4. ASSUME NEW i \in Attempts, Claim(i) \/ ClaimFails(i)
      PROVE  RemoteInv'
  <2>1. pc[i] = "claim" /\ request' = request /\ remote' = remote
        /\ (\A j \in Attempts : j # i => pc'[j] = pc[j])
        /\ pc'[i] \in {"prepare", "done"}
    BY <1>4 DEF Claim, ClaimFails, Goto, Return, Forget
  <2> QED
    BY <1>4, <2>1, ClaimEffect
<1>5. ASSUME NEW i \in Attempts, Prepare(i) \/ PrepareFails(i)
      PROVE  RemoteInv'
  <2>1. CASE SetStatus(i, "failed") /\ PrepareFails(i)
    BY <2>1, SettleEffect DEF PrepareFails, Return, Forget
  <2>2. CASE UNCHANGED executions
    BY <1>5, <2>2 DEF Prepare, PrepareFails, Goto, Return, Forget
  <2> QED
    BY <1>5, <2>1, <2>2 DEF Prepare, PrepareFails
<1>6. ASSUME NEW i \in Attempts,
             Dispatch(i) \/ FailBeforeContact(i) \/ Answer(i) \/ LoseAnswer(i)
      PROVE  RemoteInv'
  BY <1>6 DEF Dispatch, FailBeforeContact, Answer, LoseAnswer, Goto, Ends
<1>7. ASSUME NEW i \in Attempts, Finish(i) \/ FinishFails(i)
      PROVE  RemoteInv'
  <2>1. CASE Finish(i)
    BY <2>1, SettleEffect DEF Finish, Return, Forget, StatusOf
  <2>2. CASE FinishFails(i)
    BY <2>2 DEF FinishFails, Return, Forget
  <2> QED
    BY <1>7, <2>1, <2>2
<1>8. ASSUME NEW i \in Attempts,
             \/ CancelContext(i) \/ ExpireGrant(i) \/ ServerActs(i)
             \/ Block(i) \/ Unblock(i)
      PROVE  RemoteInv'
  BY <1>8 DEF CancelContext, ExpireGrant, ServerActs, Block, Unblock
<1>9. ASSUME NEW h \in Hosts, EditHost(h)
      PROVE  RemoteInv'
  BY <1>9 DEF EditHost
<1>10. CASE Crash
  BY <1>10 DEF Crash
<1>11. CASE Restart \/ RecoverDone
  BY <1>11 DEF Restart, RecoverDone
<1>12. ASSUME NEW k \in Key, RecoverRow(k)
       PROVE  RemoteInv'
  BY <1>12 DEF RecoverRow, WithStatus
<1>13. CASE UNCHANGED vars
  BY <1>13 DEF vars
<1> QED
  BY <1>1, <1>2, <1>3, <1>4, <1>5, <1>6, <1>7, <1>8, <1>9, <1>10, <1>11, <1>12, <1>13
  DEF Next, Step

\* The lock of a host is not taken while its holder runs.
LEMMA LockStep == Inv /\ [Next]_vars => LockInv'
<1> SUFFICES ASSUME Inv, [Next]_vars
             PROVE  LockInv'
  OBVIOUS
<1> USE RequestsAssumption
    DEF Inv, TypeOK, PC, Active, Holding, Owning, ControlInv, LockInv,
        MutatingOps, LocalOps, Mutates
<1>1. ASSUME NEW i \in Attempts, NEW r \in Requests, Begin(i, r)
      PROVE  LockInv'
  BY <1>1 DEF Begin, Goto
<1>2. ASSUME NEW i \in Attempts, Lock(i)
      PROVE  LockInv'
  BY <1>2 DEF Lock
<1>3. ASSUME NEW i \in Attempts, LeaveQueue(i) \/ CheckAuthority(i)
      PROVE  LockInv'
  BY <1>3 DEF LeaveQueue, CheckAuthority, Goto, Return, Forget
<1>4. ASSUME NEW i \in Attempts, Claim(i) \/ ClaimFails(i)
      PROVE  LockInv'
  BY <1>4 DEF Claim, ClaimFails, Insert, Goto, Return, Forget
<1>5. ASSUME NEW i \in Attempts, Prepare(i) \/ PrepareFails(i)
      PROVE  LockInv'
  BY <1>5 DEF Prepare, PrepareFails, SetStatus, WithStatus, Goto, Return, Forget
<1>6. ASSUME NEW i \in Attempts,
             Dispatch(i) \/ FailBeforeContact(i) \/ Answer(i) \/ LoseAnswer(i)
      PROVE  LockInv'
  BY <1>6 DEF Dispatch, FailBeforeContact, Answer, LoseAnswer, Goto, Ends
<1>7. ASSUME NEW i \in Attempts, Finish(i) \/ FinishFails(i)
      PROVE  LockInv'
  BY <1>7 DEF Finish, FinishFails, SetStatus, WithStatus, Return, Forget
<1>8. ASSUME NEW i \in Attempts,
             \/ CancelContext(i) \/ ExpireGrant(i) \/ ServerActs(i)
             \/ Block(i) \/ Unblock(i)
      PROVE  LockInv'
  BY <1>8 DEF CancelContext, ExpireGrant, ServerActs, Block, Unblock
<1>9. ASSUME NEW h \in Hosts, EditHost(h)
      PROVE  LockInv'
  BY <1>9 DEF EditHost
<1>10. CASE Crash
  BY <1>10 DEF Crash
<1>11. CASE Restart \/ RecoverDone
  BY <1>11 DEF Restart, RecoverDone
<1>12. ASSUME NEW k \in Key, RecoverRow(k)
       PROVE  LockInv'
  BY <1>12 DEF RecoverRow, WithStatus
<1>13. CASE UNCHANGED vars
  BY <1>13 DEF vars
<1> QED
  BY <1>1, <1>2, <1>3, <1>4, <1>5, <1>6, <1>7, <1>8, <1>9, <1>10, <1>11, <1>12, <1>13
  DEF Next, Step

\* The outcome of a change is about the server's state when it was observed.
LEMMA OutcomeStep == Inv /\ [Next]_vars => OutcomeInv'
<1> SUFFICES ASSUME Inv, [Next]_vars
             PROVE  OutcomeInv'
  OBVIOUS
<1> USE RequestsAssumption
    DEF Inv, TypeOK, PC, Active, ControlInv, OutcomeInv, RemoteInv,
        MutatingOps, LocalOps, Mutates, IsLocal
<1>1. ASSUME NEW i \in Attempts, NEW r \in Requests, Begin(i, r)
      PROVE  OutcomeInv'
  BY <1>1 DEF Begin, Goto
<1>2. ASSUME NEW i \in Attempts, Lock(i)
      PROVE  OutcomeInv'
  BY <1>2 DEF Lock
<1>3. ASSUME NEW i \in Attempts, LeaveQueue(i) \/ CheckAuthority(i)
      PROVE  OutcomeInv'
  BY <1>3 DEF LeaveQueue, CheckAuthority, Goto, Return, Forget
<1>4. ASSUME NEW i \in Attempts, Claim(i) \/ ClaimFails(i)
      PROVE  OutcomeInv'
  BY <1>4 DEF Claim, ClaimFails, Insert, Goto, Return, Forget
<1>5. ASSUME NEW i \in Attempts, Prepare(i) \/ PrepareFails(i)
      PROVE  OutcomeInv'
  BY <1>5 DEF Prepare, PrepareFails, SetStatus, WithStatus, Goto, Return, Forget
<1>6. ASSUME NEW i \in Attempts,
             Dispatch(i) \/ FailBeforeContact(i) \/ Answer(i) \/ LoseAnswer(i)
      PROVE  OutcomeInv'
  <2>1. CASE Dispatch(i)
    BY <1>6, <2>1 DEF Dispatch, Goto
  <2>2. CASE FailBeforeContact(i)
    <3>1. remote[i] # "inflight" /\ remote' = remote
      BY <2>2 DEF FailBeforeContact
    <3> QED
      BY <2>2, <3>1 DEF FailBeforeContact, Ends
  <2>3. CASE Answer(i)
    <3>1. /\ pc[i] = "await" /\ UNCHANGED <<request, remote>>
          /\ IsLocal(request[i].op) \/ remote[i] = "done" \/ Delivers(request[i].op)
      BY <2>3 DEF Answer
    <3>2. PICK o \in {"ok", "error"} : Ends(i, o)
      BY <2>3 DEF Answer
    <3>3. /\ pc'[i] = "finish" /\ outcome'[i] = o
          /\ \A j \in Attempts : j # i => pc'[j] = pc[j] /\ outcome'[j] = outcome[j]
      BY <3>2 DEF Ends
    <3>4. Mutates(request[i].op) => ~IsLocal(request[i].op)
      OBVIOUS
    <3> QED
      BY <3>1, <3>2, <3>3, <3>4
  <2>4. CASE LoseAnswer(i)
    BY <2>4 DEF LoseAnswer, Ends
  <2> QED
    BY <1>6, <2>1, <2>2, <2>3, <2>4
<1>7. ASSUME NEW i \in Attempts, Finish(i) \/ FinishFails(i)
      PROVE  OutcomeInv'
  BY <1>7 DEF Finish, FinishFails, SetStatus, WithStatus, Return, Forget
<1>8. ASSUME NEW i \in Attempts,
             \/ CancelContext(i) \/ ExpireGrant(i) \/ ServerActs(i)
             \/ Block(i) \/ Unblock(i)
      PROVE  OutcomeInv'
  BY <1>8 DEF CancelContext, ExpireGrant, ServerActs, Block, Unblock
<1>9. ASSUME NEW h \in Hosts, EditHost(h)
      PROVE  OutcomeInv'
  BY <1>9 DEF EditHost
<1>10. CASE Crash
  BY <1>10 DEF Crash
<1>11. CASE Restart \/ RecoverDone
  BY <1>11 DEF Restart, RecoverDone
<1>12. ASSUME NEW k \in Key, RecoverRow(k)
       PROVE  OutcomeInv'
  BY <1>12 DEF RecoverRow, WithStatus
<1>13. CASE UNCHANGED vars
  BY <1>13 DEF vars
<1> QED
  BY <1>1, <1>2, <1>3, <1>4, <1>5, <1>6, <1>7, <1>8, <1>9, <1>10, <1>11, <1>12, <1>13
  DEF Next, Step

\* A late attempt ends without a row.
LEMMA LateStep == Inv /\ [Next]_vars => LateInv'
<1> SUFFICES ASSUME Inv, [Next]_vars
             PROVE  LateInv'
  OBVIOUS
<1> USE RequestsAssumption, KeyOfRequest
    DEF Inv, TypeOK, PC, Active, Owning, Holding,
        ControlInv, LateInv, BeforeContact, Queued, RowInv, NoOwnerInv, OwnerInv, RemoteInv
<1>1. ASSUME NEW i \in Attempts, NEW r \in Requests, Begin(i, r)
      PROVE  LateInv'
  BY <1>1 DEF Begin, Goto
<1>2. ASSUME NEW i \in Attempts, Lock(i)
      PROVE  LateInv'
  BY <1>2 DEF Lock
<1>3. ASSUME NEW i \in Attempts, LeaveQueue(i) \/ CheckAuthority(i)
      PROVE  LateInv'
  BY <1>3 DEF LeaveQueue, CheckAuthority, Goto, Return, Forget
<1>4. ASSUME NEW i \in Attempts, Claim(i) \/ ClaimFails(i)
      PROVE  LateInv'
  <2>1. pc[i] = "claim" /\ request' = request /\ remote' = remote
        /\ (\A j \in Attempts : j # i => pc'[j] = pc[j])
        /\ pc'[i] \in {"prepare", "done"} /\ late' = late
        /\ \A j \in Attempts : j # i => authority'[j] = authority[j]
    BY <1>4 DEF Claim, ClaimFails, Goto, Return, Forget
  <2>2. i \notin late
    BY <2>1
  <2>3. \A k \in Key : executions'[k].id = executions[k].id \/ executions'[k].id = i
    BY <1>4, ClaimEffect
  <2>4. ASSUME NEW j \in late
        PROVE  /\ pc'[j] \in {"queue", "check", "done", "dead"}
               /\ pc'[j] \in {"queue", "check"}
                    => j \in cancelled' \/ authority'[j] # "valid"
               /\ remote'[j] = "none"
               /\ \A k \in Key : executions'[k].id # j
    <3>1. j \in Attempts /\ j # i
      BY <2>2, <2>4
    <3>2. pc'[j] = pc[j] /\ authority'[j] = authority[j] /\ remote'[j] = remote[j]
      BY <2>1, <3>1
    <3>6. j \in cancelled <=> j \in cancelled'
      BY <1>4, <3>1 DEF Claim, ClaimFails, Goto, Return, Forget
    <3>3. /\ pc[j] \in {"queue", "check", "done", "dead"}
          /\ pc[j] \in {"queue", "check"} => j \in cancelled \/ authority[j] # "valid"
          /\ remote[j] = "none"
      BY <2>4
    <3>4. \A k \in Key : executions[k].id # j
      BY <2>4
    <3>5. \A k \in Key : executions'[k].id # j
      BY <2>3, <3>1, <3>4
    <3> QED
      BY <3>2, <3>3, <3>5, <3>6
  <2> QED
    BY <2>1, <2>4
<1>5. ASSUME NEW i \in Attempts, Prepare(i) \/ PrepareFails(i)
      PROVE  LateInv'
  <2>1. CASE SetStatus(i, "failed") /\ PrepareFails(i)
    BY <2>1, SettleEffect DEF PrepareFails, Return, Forget
  <2>2. CASE UNCHANGED executions
    BY <1>5, <2>2 DEF Prepare, PrepareFails, Goto, Return, Forget
  <2> QED
    BY <1>5, <2>1, <2>2 DEF Prepare, PrepareFails
<1>6. ASSUME NEW i \in Attempts,
             Dispatch(i) \/ FailBeforeContact(i) \/ Answer(i) \/ LoseAnswer(i)
      PROVE  LateInv'
  BY <1>6 DEF Dispatch, FailBeforeContact, Answer, LoseAnswer, Goto, Ends
<1>7. ASSUME NEW i \in Attempts, Finish(i) \/ FinishFails(i)
      PROVE  LateInv'
  <2>1. CASE Finish(i)
    BY <2>1, SettleEffect DEF Finish, Return, Forget, StatusOf
  <2>2. CASE FinishFails(i)
    BY <2>2 DEF FinishFails, Return, Forget
  <2> QED
    BY <1>7, <2>1, <2>2
<1>8. ASSUME NEW i \in Attempts,
             \/ CancelContext(i) \/ ExpireGrant(i) \/ ServerActs(i)
             \/ Block(i) \/ Unblock(i)
      PROVE  LateInv'
  BY <1>8 DEF CancelContext, ExpireGrant, ServerActs, Block, Unblock
<1>9. ASSUME NEW h \in Hosts, EditHost(h)
      PROVE  LateInv'
  BY <1>9 DEF EditHost
<1>10. CASE Crash
  BY <1>10 DEF Crash
<1>11. CASE Restart \/ RecoverDone
  BY <1>11 DEF Restart, RecoverDone
<1>12. ASSUME NEW k \in Key, RecoverRow(k)
       PROVE  LateInv'
  BY <1>12 DEF RecoverRow, WithStatus
<1>13. CASE UNCHANGED vars
  BY <1>13 DEF vars
<1> QED
  BY <1>1, <1>2, <1>3, <1>4, <1>5, <1>6, <1>7, <1>8, <1>9, <1>10, <1>11, <1>12, <1>13
  DEF Next, Step

\* A verdict on a change is saved when the server is known to have ended it.
LEMMA VerdictStep == Inv /\ [Next]_vars => VerdictMatchesServer'
<1> SUFFICES ASSUME Inv, [Next]_vars
             PROVE  VerdictMatchesServer'
  OBVIOUS
<1> USE RequestsAssumption, KeyOfRequest
    DEF Inv, TypeOK, PC, Active, Owning, Holding,
        ControlInv, RowInv, OwnerInv, RemoteInv, OutcomeInv, VerdictMatchesServer, Row, Status
<1>1. ASSUME NEW i \in Attempts, NEW r \in Requests, Begin(i, r)
      PROVE  VerdictMatchesServer'
  BY <1>1 DEF Begin, Goto
<1>2. ASSUME NEW i \in Attempts, Lock(i)
      PROVE  VerdictMatchesServer'
  BY <1>2 DEF Lock
<1>3. ASSUME NEW i \in Attempts, LeaveQueue(i) \/ CheckAuthority(i)
      PROVE  VerdictMatchesServer'
  BY <1>3 DEF LeaveQueue, CheckAuthority, Goto, Return, Forget
<1>4. ASSUME NEW i \in Attempts, Claim(i) \/ ClaimFails(i)
      PROVE  VerdictMatchesServer'
  <2>1. pc[i] = "claim" /\ request' = request /\ remote' = remote
        /\ (\A j \in Attempts : j # i => pc'[j] = pc[j])
        /\ pc'[i] \in {"prepare", "done"}
    BY <1>4 DEF Claim, ClaimFails, Goto, Return, Forget
  <2> QED
    BY <1>4, <2>1, ClaimEffect
<1>5. ASSUME NEW i \in Attempts, Prepare(i) \/ PrepareFails(i)
      PROVE  VerdictMatchesServer'
  <2>1. CASE SetStatus(i, "failed") /\ PrepareFails(i)
    BY <2>1, SettleEffect DEF PrepareFails, Return, Forget
  <2>2. CASE UNCHANGED executions
    BY <1>5, <2>2 DEF Prepare, PrepareFails, Goto, Return, Forget
  <2> QED
    BY <1>5, <2>1, <2>2 DEF Prepare, PrepareFails
<1>6. ASSUME NEW i \in Attempts,
             Dispatch(i) \/ FailBeforeContact(i) \/ Answer(i) \/ LoseAnswer(i)
      PROVE  VerdictMatchesServer'
  BY <1>6 DEF Dispatch, FailBeforeContact, Answer, LoseAnswer, Goto, Ends
<1>7. ASSUME NEW i \in Attempts, Finish(i) \/ FinishFails(i)
      PROVE  VerdictMatchesServer'
  <2>1. CASE Finish(i)
    BY <2>1, SettleEffect DEF Finish, Return, Forget, StatusOf, ReadOnlyAnswer, MutatingOps,
                            LocalOps, Mutates
  <2>2. CASE FinishFails(i)
    BY <2>2 DEF FinishFails, Return, Forget
  <2> QED
    BY <1>7, <2>1, <2>2
<1>8. ASSUME NEW i \in Attempts,
             \/ CancelContext(i) \/ ExpireGrant(i) \/ ServerActs(i)
             \/ Block(i) \/ Unblock(i)
      PROVE  VerdictMatchesServer'
  BY <1>8 DEF CancelContext, ExpireGrant, ServerActs, Block, Unblock
<1>9. ASSUME NEW h \in Hosts, EditHost(h)
      PROVE  VerdictMatchesServer'
  BY <1>9 DEF EditHost
<1>10. CASE Crash
  BY <1>10 DEF Crash
<1>11. CASE Restart \/ RecoverDone
  BY <1>11 DEF Restart, RecoverDone
<1>12. ASSUME NEW k \in Key, RecoverRow(k)
       PROVE  VerdictMatchesServer'
  BY <1>12 DEF RecoverRow, WithStatus
<1>13. CASE UNCHANGED vars
  BY <1>13 DEF vars
<1> QED
  BY <1>1, <1>2, <1>3, <1>4, <1>5, <1>6, <1>7, <1>8, <1>9, <1>10, <1>11, <1>12, <1>13
  DEF Next, Step

\* A reported verdict is in the table and stays there.
LEMMA ReportStep == Inv /\ [Next]_vars => ReportIsDurable'
<1> SUFFICES ASSUME Inv, [Next]_vars
             PROVE  ReportIsDurable'
  OBVIOUS
<1> USE RequestsAssumption, KeyOfRequest
    DEF Inv, TypeOK, PC, Active, Owning, Holding,
        ControlInv, RowInv, OwnerInv, ReportIsDurable, Row, Status
<1>1. ASSUME NEW i \in Attempts, NEW r \in Requests, Begin(i, r)
      PROVE  ReportIsDurable'
  BY <1>1 DEF Begin, Goto
<1>2. ASSUME NEW i \in Attempts, Lock(i)
      PROVE  ReportIsDurable'
  BY <1>2 DEF Lock
<1>3. ASSUME NEW i \in Attempts, LeaveQueue(i) \/ CheckAuthority(i)
      PROVE  ReportIsDurable'
  BY <1>3 DEF LeaveQueue, CheckAuthority, Goto, Return, Forget
<1>4. ASSUME NEW i \in Attempts, Claim(i) \/ ClaimFails(i)
      PROVE  ReportIsDurable'
  <2>1. pc[i] = "claim" /\ request' = request /\ remote' = remote
        /\ (\A j \in Attempts : j # i => pc'[j] = pc[j])
        /\ pc'[i] \in {"prepare", "done"}
    BY <1>4 DEF Claim, ClaimFails, Goto, Return, Forget
  <2>2. \A k \in Key : executions[k].status # "none" => executions'[k] = executions[k]
    BY <1>4, ClaimEffect
  <2>3. ASSUME NEW j \in Attempts, j # i,
               reported'[j] \in {"succeeded", "failed", "unknown"}
        PROVE  executions'[KeyOf(request[j])].status = reported'[j]
    <3>1. reported'[j] = reported[j]
      BY <1>4, <2>3 DEF Claim, ClaimFails, Goto, Return, Forget
    <3>2. KeyOf(request[j]) \in Key
      BY <2>3, <3>1
    <3> QED
      BY <2>2, <2>3, <3>1, <3>2
  <2>4. ASSUME reported'[i] \in {"succeeded", "failed", "unknown"}
        PROVE  executions'[KeyOf(request[i])].status = reported'[i]
    <3>1. request[i] \in Requests /\ reported[i] = "none"
      BY <2>1
    <3>2. /\ executions[KeyOf(request[i])].status # "none"
          /\ reported'[i] = executions[KeyOf(request[i])].status
      BY <1>4, <2>4, <3>1 DEF Claim, ClaimFails, Goto, Return, Forget
    <3> QED
      BY <2>2, <3>1, <3>2
  <2> QED
    BY <2>1, <2>3, <2>4
<1>5. ASSUME NEW i \in Attempts, Prepare(i) \/ PrepareFails(i)
      PROVE  ReportIsDurable'
  <2>1. CASE SetStatus(i, "failed") /\ PrepareFails(i)
    BY <2>1, SettleEffect DEF PrepareFails, Return, Forget
  <2>2. CASE UNCHANGED executions
    BY <1>5, <2>2 DEF Prepare, PrepareFails, Goto, Return, Forget
  <2> QED
    BY <1>5, <2>1, <2>2 DEF Prepare, PrepareFails
<1>6. ASSUME NEW i \in Attempts,
             Dispatch(i) \/ FailBeforeContact(i) \/ Answer(i) \/ LoseAnswer(i)
      PROVE  ReportIsDurable'
  BY <1>6 DEF Dispatch, FailBeforeContact, Answer, LoseAnswer, Goto, Ends
<1>7. ASSUME NEW i \in Attempts, Finish(i) \/ FinishFails(i)
      PROVE  ReportIsDurable'
  <2>1. CASE Finish(i)
    BY <2>1, SettleEffect DEF Finish, Return, Forget, StatusOf
  <2>2. CASE FinishFails(i)
    BY <2>2 DEF FinishFails, Return, Forget
  <2> QED
    BY <1>7, <2>1, <2>2
<1>8. ASSUME NEW i \in Attempts,
             \/ CancelContext(i) \/ ExpireGrant(i) \/ ServerActs(i)
             \/ Block(i) \/ Unblock(i)
      PROVE  ReportIsDurable'
  BY <1>8 DEF CancelContext, ExpireGrant, ServerActs, Block, Unblock
<1>9. ASSUME NEW h \in Hosts, EditHost(h)
      PROVE  ReportIsDurable'
  BY <1>9 DEF EditHost
<1>10. CASE Crash
  BY <1>10 DEF Crash
<1>11. CASE Restart \/ RecoverDone
  BY <1>11 DEF Restart, RecoverDone
<1>12. ASSUME NEW k \in Key, RecoverRow(k)
       PROVE  ReportIsDurable'
  BY <1>12 DEF RecoverRow, WithStatus
<1>13. CASE UNCHANGED vars
  BY <1>13 DEF vars
<1> QED
  BY <1>1, <1>2, <1>3, <1>4, <1>5, <1>6, <1>7, <1>8, <1>9, <1>10, <1>11, <1>12, <1>13
  DEF Next, Step

\* No attempt dies while the process is up.
LEMMA StaleStep == Inv /\ [Next]_vars => NoStaleRunning'
<1> SUFFICES ASSUME Inv, [Next]_vars
             PROVE  NoStaleRunning'
  OBVIOUS
<1> USE RequestsAssumption, KeyOfRequest
    DEF Inv, TypeOK, PC, Active, Owning, Holding,
        ControlInv, RowInv, OwnerInv, NoStaleRunning, Row, Status
<1>1. ASSUME NEW i \in Attempts, NEW r \in Requests, Begin(i, r)
      PROVE  NoStaleRunning'
  BY <1>1 DEF Begin, Goto
<1>2. ASSUME NEW i \in Attempts, Lock(i)
      PROVE  NoStaleRunning'
  BY <1>2 DEF Lock
<1>3. ASSUME NEW i \in Attempts, LeaveQueue(i) \/ CheckAuthority(i)
      PROVE  NoStaleRunning'
  BY <1>3 DEF LeaveQueue, CheckAuthority, Goto, Return, Forget
<1>4. ASSUME NEW i \in Attempts, Claim(i) \/ ClaimFails(i)
      PROVE  NoStaleRunning'
  <2>1. pc[i] = "claim" /\ request' = request /\ remote' = remote
        /\ (\A j \in Attempts : j # i => pc'[j] = pc[j])
        /\ pc'[i] \in {"prepare", "done"}
    BY <1>4 DEF Claim, ClaimFails, Goto, Return, Forget
  <2>2. ASSUME NEW k \in Key, process = "up", executions'[k].status = "running"
        PROVE  pc'[executions'[k].id] # "dead"
    <3>1. CASE executions'[k] = executions[k]
      BY <2>1, <2>2, <3>1
    <3>2. CASE executions'[k] # executions[k]
      BY <1>4, <2>1, <3>2, ClaimEffect
    <3> QED
      BY <3>1, <3>2
  <2> QED
    BY <1>4, <2>2 DEF Claim, ClaimFails
<1>5. ASSUME NEW i \in Attempts, Prepare(i) \/ PrepareFails(i)
      PROVE  NoStaleRunning'
  <2>1. CASE SetStatus(i, "failed") /\ PrepareFails(i)
    BY <2>1, SettleEffect DEF PrepareFails, Return, Forget
  <2>2. CASE UNCHANGED executions
    BY <1>5, <2>2 DEF Prepare, PrepareFails, Goto, Return, Forget
  <2> QED
    BY <1>5, <2>1, <2>2 DEF Prepare, PrepareFails
<1>6. ASSUME NEW i \in Attempts,
             Dispatch(i) \/ FailBeforeContact(i) \/ Answer(i) \/ LoseAnswer(i)
      PROVE  NoStaleRunning'
  BY <1>6 DEF Dispatch, FailBeforeContact, Answer, LoseAnswer, Goto, Ends
<1>7. ASSUME NEW i \in Attempts, Finish(i) \/ FinishFails(i)
      PROVE  NoStaleRunning'
  <2>1. CASE Finish(i)
    BY <2>1, SettleEffect DEF Finish, Return, Forget, StatusOf
  <2>2. CASE FinishFails(i)
    BY <2>2 DEF FinishFails, Return, Forget
  <2> QED
    BY <1>7, <2>1, <2>2
<1>8. ASSUME NEW i \in Attempts,
             \/ CancelContext(i) \/ ExpireGrant(i) \/ ServerActs(i)
             \/ Block(i) \/ Unblock(i)
      PROVE  NoStaleRunning'
  BY <1>8 DEF CancelContext, ExpireGrant, ServerActs, Block, Unblock
<1>9. ASSUME NEW h \in Hosts, EditHost(h)
      PROVE  NoStaleRunning'
  BY <1>9 DEF EditHost
<1>10. CASE Crash
  BY <1>10 DEF Crash
<1>11. CASE Restart \/ RecoverDone
  BY <1>11 DEF Restart, RecoverDone
<1>12. ASSUME NEW k \in Key, RecoverRow(k)
       PROVE  NoStaleRunning'
  BY <1>12 DEF RecoverRow, WithStatus
<1>13. CASE UNCHANGED vars
  BY <1>13 DEF vars
<1> QED
  BY <1>1, <1>2, <1>3, <1>4, <1>5, <1>6, <1>7, <1>8, <1>9, <1>10, <1>11, <1>12, <1>13
  DEF Next, Step

-----------------------------------------------------------------------------
\* Inv holds initially and every step preserves it.
THEOREM Invariance == Spec => []Inv
<1>1. Init => Inv
  <2> SUFFICES ASSUME Init
               PROVE  Inv
    OBVIOUS
  <2>1. TypeOK
    BY DEF Init, TypeOK, NoRow, Row, Status, PC, Active
  <2>2. \A k \in Key : executions[k].status = "none" /\ executions[k].id = NoAttempt
    BY DEF Init, NoRow
  <2>3. RowInv /\ NoOwnerInv /\ VerdictMatchesServer /\ NoStaleRunning
    BY <2>2 DEF RowInv, NoOwnerInv, VerdictMatchesServer, NoStaleRunning
  <2>4. ControlInv /\ OwnerInv /\ RemoteInv /\ LockInv /\ OutcomeInv /\ LateInv
          /\ ReportIsDurable
    BY DEF Init, ControlInv, OwnerInv, RemoteInv, LockInv, OutcomeInv, LateInv,
           ReportIsDurable, Active, Owning, Holding
  <2> QED
    BY <2>1, <2>3, <2>4 DEF Inv
<1>2. Inv /\ [Next]_vars => Inv'
  <2> SUFFICES ASSUME Inv, [Next]_vars
               PROVE  Inv'
    OBVIOUS
  <2>1. TypeOK'
    BY TypeStep DEF Inv
  <2>2. ControlInv' /\ RowInv' /\ NoOwnerInv' /\ OwnerInv' /\ RemoteInv'
    BY ControlStep, RowStep, OwnerStep, RemoteStep
  <2>3. LockInv' /\ OutcomeInv' /\ LateInv'
    BY LockStep, OutcomeStep, LateStep
  <2>4. VerdictMatchesServer' /\ ReportIsDurable' /\ NoStaleRunning'
    BY VerdictStep, ReportStep, StaleStep
  <2> QED
    BY <2>1, <2>2, <2>3, <2>4 DEF Inv
<1> QED
  BY <1>1, <1>2, PTL DEF Spec

\* The types of the executor's state, of the rows and of the server's view.
THEOREM TypeCorrect == Spec => []TypeOK
<1>1. Inv => TypeOK
  BY DEF Inv
<1> QED
  BY <1>1, Invariance, PTL

\* Execute contacts a server at most once for a (task id, call id): whoever
\* contacted it owns the row, and a row has one owner.
THEOREM AtMostOnceTheorem == Spec => []AtMostOnce
<1>1. Inv => AtMostOnce
  BY DEF Inv, RemoteInv, AtMostOnce
<1> QED
  BY <1>1, Invariance, PTL

\* Finish never records a known result of a change that is still under way,
\* terminal input apart, and "succeeded" of input only once it was sent.
THEOREM VerdictMatchesServerTheorem == Spec => []VerdictMatchesServer
<1>1. Inv => VerdictMatchesServer
  BY DEF Inv
<1> QED
  BY <1>1, Invariance, PTL

\* What Execute returned stays what the table says, over crash and Recover.
THEOREM ReportIsDurableTheorem == Spec => []ReportIsDurable
<1>1. Inv => ReportIsDurable
  BY DEF Inv
<1> QED
  BY <1>1, Invariance, PTL

\* Changes overlap on a host only after one of them was given up as unknown or
\* was terminal input: two attempts that still wait would both hold the lock.
THEOREM OverlapTheorem == Spec => []OverlapOnlyAfterUnknown
<1>1. Inv => OverlapOnlyAfterUnknown
  <2> SUFFICES ASSUME Inv, NEW i \in Attempts, NEW j \in Attempts, i # j,
                      remote[i] = "inflight", remote[j] = "inflight",
                      Mutates(request[i].op), Mutates(request[j].op),
                      request[i].host = request[j].host
               PROVE  \E a \in {i, j} :
                        /\ pc[a] \in {"finish", "done", "dead"}
                        /\ \/ executions[KeyOf(request[a])].status
                                \in {"unknown", "running"}
                           \/ Delivers(request[a].op)
    BY DEF OverlapOnlyAfterUnknown
  <2>1. ~(pc[i] = "await" /\ pc[j] = "await")
    BY DEF Inv, LockInv, Holding, Owning
  <2>2. PICK a \in {i, j} : pc[a] # "await"
    BY <2>1
  <2>3. a \in Attempts /\ remote[a] = "inflight" /\ Mutates(request[a].op)
    BY <2>2
  <2>4. /\ pc[a] \in {"finish", "done", "dead"}
        /\ request[a] \in Requests /\ KeyOf(request[a]) \in Key
        /\ executions[KeyOf(request[a])].id = a
        /\ executions[KeyOf(request[a])].status # "none"
    BY <2>2, <2>3, KeyOfRequest DEF Inv, RemoteInv
  <2>5. executions[KeyOf(request[a])].request = request[a]
    BY <2>4 DEF Inv, RowInv
  <2>6. \/ executions[KeyOf(request[a])].status \notin {"succeeded", "failed"}
        \/ Delivers(request[a].op)
    BY <2>3, <2>4, <2>5 DEF Inv, VerdictMatchesServer
  <2>7. executions[KeyOf(request[a])].status \in Status
    BY <2>4 DEF Inv, TypeOK, Row
  <2> QED
    BY <2>2, <2>4, <2>6, <2>7 DEF Status
<1> QED
  BY <1>1, Invariance, PTL

\* The check after the lock stops every change that lost its authority or
\* its context while it waited.
THEOREM LateNeverRunsTheorem == Spec => []LateNeverRuns
<1>1. Inv => LateNeverRuns
  BY DEF Inv, LateInv, LateNeverRuns
<1> QED
  BY <1>1, Invariance, PTL

\* When the application is up again, no row of the process that died runs.
THEOREM NoStaleRunningTheorem == Spec => []NoStaleRunning
<1>1. Inv => NoStaleRunning
  BY DEF Inv
<1> QED
  BY <1>1, Invariance, PTL

\* The whole promise of the ledger of calls.
THEOREM OncePerCallTheorem == Spec => []OncePerCall
  BY AtMostOnceTheorem, LateNeverRunsTheorem, OverlapTheorem, PTL DEF OncePerCall

\* And of what stands in it.
THEOREM RecordsAreTrueTheorem == Spec => []RecordsAreTrue
  BY VerdictMatchesServerTheorem, ReportIsDurableTheorem, NoStaleRunningTheorem, PTL
  DEF RecordsAreTrue

-----------------------------------------------------------------------------
(* Executor implements ExecutionLedger.  A step that changes neither the   *)
(* status of a row nor the set of contacted attempts stutters; the others  *)
(* are one step of the ledger.                                             *)

StatusMap == [k \in Key |-> executions[k].status]
ContactMap == [k \in Key |-> {i \in Attempts :
                                remote[i] # "none" /\ KeyOf(request[i]) = k}]

\* A step that changes no status and no contact is a stutter of the ledger.
LEMMA Stutter ==
    ASSUME TypeOK, UNCHANGED executions,
           \A i \in Attempts : (remote[i] # "none") <=> (remote'[i] # "none"),
           \A i \in Attempts : remote[i] # "none" => request'[i] = request[i]
    PROVE  StatusMap' = StatusMap /\ ContactMap' = ContactMap
<1>1. StatusMap' = StatusMap
  BY DEF StatusMap
<1>2. ASSUME NEW k \in Key
      PROVE  {i \in Attempts : remote'[i] # "none" /\ KeyOf(request'[i]) = k}
               = {i \in Attempts : remote[i] # "none" /\ KeyOf(request[i]) = k}
  OBVIOUS
<1> QED
  BY <1>1, <1>2 DEF ContactMap

\* A change of one row's status, with the contacts left alone.
LEMMA OneRow ==
    ASSUME TypeOK, NEW k \in Key, NEW s,
           \A l \in Key : l # k => executions'[l] = executions[l],
           executions'[k].status = s, UNCHANGED <<remote, request>>
    PROVE  StatusMap' = [StatusMap EXCEPT ![k] = s] /\ ContactMap' = ContactMap
<1>1. StatusMap' = [StatusMap EXCEPT ![k] = s]
  BY DEF StatusMap
<1> QED
  BY <1>1 DEF ContactMap

\* Every step of Execute, of the server and of Recover is a step of the ledger.
LEMMA LedgerStep ==
    Inv /\ [Next]_vars => \/ UNCHANGED <<StatusMap, ContactMap>>
                          \/ \E k \in Key :
                               \/ /\ StatusMap[k] = "none"
                                  /\ StatusMap' = [StatusMap EXCEPT ![k] = "running"]
                                  /\ UNCHANGED ContactMap
                               \/ \E i \in Attempts :
                                    /\ StatusMap[k] = "running"
                                    /\ ContactMap[k] = {}
                                    /\ ContactMap' = [ContactMap EXCEPT ![k] = {i}]
                                    /\ UNCHANGED StatusMap
                               \/ \E v \in {"succeeded", "failed", "unknown"} :
                                    /\ StatusMap[k] = "running"
                                    /\ StatusMap' = [StatusMap EXCEPT ![k] = v]
                                    /\ UNCHANGED ContactMap
<1> DEFINE OpenStep(k) == /\ StatusMap[k] = "none"
                          /\ StatusMap' = [StatusMap EXCEPT ![k] = "running"]
                          /\ UNCHANGED ContactMap
           ContactStep(k, i) == /\ StatusMap[k] = "running"
                                /\ ContactMap[k] = {}
                                /\ ContactMap' = [ContactMap EXCEPT ![k] = {i}]
                                /\ UNCHANGED StatusMap
           SettleStep(k, v) == /\ StatusMap[k] = "running"
                               /\ StatusMap' = [StatusMap EXCEPT ![k] = v]
                               /\ UNCHANGED ContactMap
           Simulated == \/ UNCHANGED <<StatusMap, ContactMap>>
                        \/ \E k \in Key :
                             \/ OpenStep(k)
                             \/ \E i \in Attempts : ContactStep(k, i)
                             \/ \E v \in {"succeeded", "failed", "unknown"} :
                                    SettleStep(k, v)
<1> SUFFICES ASSUME Inv, [Next]_vars
             PROVE  Simulated
  OBVIOUS
<1>t. TypeOK
  BY DEF Inv
<1>1. ASSUME NEW i \in Attempts, NEW r \in Requests, Begin(i, r)
      PROVE  Simulated
  <2>1. \A j \in Attempts : remote[j] # "none" => request'[j] = request[j]
    BY <1>1 DEF Begin, Inv, RemoteInv, TypeOK
  <2> QED
    BY <1>1, <1>t, <2>1, Stutter DEF Begin
<1>2. ASSUME NEW i \in Attempts,
             \/ Lock(i) \/ LeaveQueue(i) \/ CheckAuthority(i) \/ Prepare(i)
             \/ FailBeforeContact(i) \/ Answer(i) \/ LoseAnswer(i) \/ FinishFails(i)
             \/ CancelContext(i) \/ ExpireGrant(i) \/ Block(i) \/ Unblock(i)
      PROVE  Simulated
  <2>1. UNCHANGED <<executions, remote, request>>
    BY <1>2 DEF Lock, LeaveQueue, CheckAuthority, Prepare, FailBeforeContact,
                Answer, LoseAnswer, FinishFails, CancelContext, ExpireGrant,
                Block, Unblock
  <2> QED
    BY <1>t, <2>1, Stutter
<1>3. ASSUME NEW i \in Attempts, Claim(i) \/ ClaimFails(i)
      PROVE  Simulated
  <2> DEFINE k == KeyOf(request[i])
  <2>1. UNCHANGED <<remote, request>>
    BY <1>3 DEF Claim, ClaimFails
  <2>2. CASE executions'[k] = executions[k]
    <3>1. executions' = executions
      BY <1>3, <2>2, ClaimEffect, TypeStep DEF Inv, TypeOK
    <3> QED
      BY <1>t, <2>1, <3>1, Stutter
  <2>3. CASE executions'[k] # executions[k]
    <3>1. k \in Key /\ executions[k].status = "none" /\ executions'[k].status = "running"
      BY <1>3, <2>3, ClaimEffect
    <3>2. OpenStep(k)
      BY <1>3, <1>t, <2>1, <3>1, ClaimEffect, OneRow DEF StatusMap
    <3> QED
      BY <3>1, <3>2
  <2> QED
    BY <2>2, <2>3
<1>4. ASSUME NEW i \in Attempts, NEW v \in {"succeeded", "failed", "unknown"},
             pc[i] \in Owning, SetStatus(i, v), UNCHANGED <<remote, request>>
      PROVE  Simulated
  <2>1. /\ KeyOf(request[i]) \in Key
        /\ executions[KeyOf(request[i])].status = "running"
    BY <1>4, SettleEffect DEF Inv, OwnerInv
  <2>2. SettleStep(KeyOf(request[i]), v)
    BY <1>4, <1>t, <2>1, SettleEffect, OneRow DEF StatusMap
  <2> QED
    BY <2>1, <2>2
<1>5. ASSUME NEW i \in Attempts, PrepareFails(i)
      PROVE  Simulated
  <2>1. CASE SetStatus(i, "failed")
    BY <1>4, <1>5, <2>1 DEF PrepareFails, Owning
  <2>2. CASE UNCHANGED executions
    BY <1>5, <1>t, <2>2, Stutter DEF PrepareFails
  <2> QED
    BY <1>5, <2>1, <2>2 DEF PrepareFails
<1>6. ASSUME NEW i \in Attempts, Finish(i)
      PROVE  Simulated
  <2>1. StatusOf(request[i].op, outcome[i]) \in {"succeeded", "failed", "unknown"}
    BY DEF StatusOf
  <2> QED
    BY <1>4, <1>6, <2>1 DEF Finish, Owning
<1>7. ASSUME NEW i \in Attempts, Dispatch(i)
      PROVE  Simulated
  <2>1. CASE UNCHANGED remote
    BY <1>7, <1>t, <2>1, Stutter DEF Dispatch
  <2>2. CASE remote' = [remote EXCEPT ![i] = "inflight"]
    <3> DEFINE k == KeyOf(request[i])
    <3>1. /\ k \in Key /\ request[i] \in Requests
          /\ executions[k].id = i /\ executions[k].status = "running"
          /\ remote[i] = "none"
      BY <1>7, KeyOfRequest DEF Inv, ControlInv, OwnerInv, RemoteInv, TypeOK,
                                Dispatch, Owning, PC
    <3>2. \A j \in Attempts : remote[j] # "none" /\ j # i => KeyOf(request[j]) # k
      BY <3>1 DEF Inv, RemoteInv
    <3>3. ContactMap[k] = {}
      BY <3>1, <3>2 DEF ContactMap
    <3>4. \A l \in Key : l # k => ContactMap'[l] = ContactMap[l]
      BY <1>7, <1>t, <2>2, <3>1 DEF ContactMap, Dispatch, TypeOK
    <3>5. ContactMap'[k] = {i}
      BY <1>7, <1>t, <2>2, <3>1, <3>2 DEF ContactMap, Dispatch, TypeOK
    <3>6. ContactMap' = [ContactMap EXCEPT ![k] = {i}]
      BY <3>1, <3>4, <3>5 DEF ContactMap
    <3>7. StatusMap' = StatusMap /\ StatusMap[k] = "running"
      BY <1>7, <3>1 DEF StatusMap, Dispatch
    <3> QED
      BY <3>1, <3>3, <3>6, <3>7
  <2> QED
    BY <1>7, <2>1, <2>2 DEF Dispatch
<1>8. ASSUME NEW i \in Attempts, ServerActs(i)
      PROVE  Simulated
  BY <1>8, <1>t, Stutter DEF ServerActs, TypeOK
<1>9. CASE Crash \/ Restart \/ RecoverDone \/ \E h \in Hosts : EditHost(h)
  <2>1. UNCHANGED <<executions, remote, request>>
    BY <1>9 DEF Crash, Restart, RecoverDone, EditHost
  <2> QED
    BY <1>t, <2>1, Stutter
<1>10. ASSUME NEW k \in Key, RecoverRow(k)
       PROVE  Simulated
  <2>1. /\ executions[k].status = "running" /\ executions'[k].status = "unknown"
        /\ \A l \in Key : l # k => executions'[l] = executions[l]
        /\ UNCHANGED <<remote, request>>
    BY <1>10 DEF RecoverRow, WithStatus, Inv, TypeOK
  <2>2. SettleStep(k, "unknown")
    BY <1>t, <2>1, OneRow DEF StatusMap
  <2> QED
    BY <2>2
<1>11. CASE UNCHANGED vars
  BY <1>11, <1>t, Stutter DEF vars
<1> QED
  BY <1>1, <1>2, <1>3, <1>5, <1>6, <1>7, <1>8, <1>9, <1>10, <1>11 DEF Next, Step

\* The execution records are an ExecutionLedger: a call is claimed before it
\* is dispatched, dispatched at most once and judged at most once.
THEOREM Refinement == Spec => RefinesLedger
<1>1. Init => Ledger!LedgerInit
  BY DEF Init, NoRow, Ledger!LedgerInit
<1>2. Inv /\ [Next]_vars => [Ledger!LedgerNext]_(Ledger!ledgerVars)
  BY LedgerStep DEF Ledger!LedgerNext, Ledger!ledgerVars, Ledger!Open,
     Ledger!Contact, Ledger!Settle, Ledger!Verdicts, StatusMap, ContactMap
<1> QED
  BY <1>1, <1>2, Invariance, PTL DEF Spec, RefinesLedger, Ledger!LedgerSpec

=============================================================================
