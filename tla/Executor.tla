------------------------------ MODULE Executor ------------------------------
(***************************************************************************)
(* internal/remote/executor.go (Execute), internal/remote/authorization.go *)
(* (checkAuthority) and the execution records of internal/store/store.go   *)
(* (Claim, Finish, Recover).                                               *)
(*                                                                         *)
(* Every invocation of Execute is an attempt with its own program counter; *)
(* attempts run concurrently, wait for a per-host lock, may be cancelled,  *)
(* may lose their authority while they wait, and may fail at each call of  *)
(* the store.  The server acts on a request at any time after it was       *)
(* contacted, even when nobody waits for the answer any more.  The process *)
(* may crash between any two steps; at the next start Recover turns every  *)
(* record that is still "running" into "unknown".                          *)
(*                                                                         *)
(* Opening a session and setting up SFTP take no context: with a server    *)
(* that is silent there an attempt is stuck, whatever happens to its ctx.  *)
(*                                                                         *)
(* Abstractions: an attempt's identity stands for the random id Claim      *)
(* generates; a request stands for its SHA-256 digest; the output of an    *)
(* operation is left out.  ExitCode and err are kept as an outcome:        *)
(*   "ok"     err = nil                                                    *)
(*   "error"  err # nil and ExitCode >= 0                                  *)
(*   "lost"   err # nil and ExitCode < 0                                   *)
(***************************************************************************)
EXTENDS Naturals, FiniteSets

CONSTANTS Attempts,    \* invocations of Execute
          Hosts,
          Requests,    \* domain.Request, with the fields that decide control
          NoAttempt, NoRequest, NoHost,
          MaxCrashes   \* bound on the number of crashes

LocalOps == {"local_stat", "local_list", "local_read"}

MutatingOps == {"upload_local", "terminal_write", "file_write",
                "service_restart", "package_install", "shell"}

CommandOps == {"observe", "service_status", "logs",
               "service_restart", "package_install", "shell"}

TerminalOps == {"terminal_connect", "terminal_read", "terminal_write"}

Operations == LocalOps \cup MutatingOps \cup CommandOps \cup TerminalOps
                \cup {"file_hash", "file_read"}

ASSUME RequestsAssumption ==
    /\ \A r \in Requests :
          /\ r.op \in Operations
          /\ r.host \in Hosts \cup {NoHost}
          /\ r.host = NoHost <=> r.op \in LocalOps
    /\ NoHost \notin Hosts
    /\ NoRequest \notin Requests
    /\ NoAttempt \notin Attempts

ASSUME MaxCrashesAssumption == MaxCrashes \in Nat

KeyOf(r) == <<r.task, r.call>>
Key == {KeyOf(r) : r \in Requests}

Mutates(op) == op \in MutatingOps
IsLocal(op) == op \in LocalOps

VARIABLES
    executions,  \* the executions table: [Key -> row]
    locks,       \* Executor.locks: the attempt in each host's channel
    pc, request, \* per attempt: control point and argument
    cancelled,   \* attempts whose ctx is done
    stuck,       \* attempts that wait in a call that takes no context
    authority,   \* per attempt: what its Check function would answer now
    outcome,     \* per attempt: ExitCode and err of the operation
    reported,    \* per attempt: what Execute returned
    remote,      \* per attempt: what the server did with its request
    process,     \* "up", "down", or "recovering" while Store.Recover runs
    crashes,
    late         \* history: lost their ctx or authority while queued

vars == <<executions, locks, pc, request, cancelled, stuck, authority,
          outcome, reported, remote, process, crashes, late>>

Status == {"running", "succeeded", "failed", "unknown"}
NoRow == [id |-> NoAttempt, request |-> NoRequest, status |-> "none"]
Row == [id : Attempts \cup {NoAttempt}, request : Requests \cup {NoRequest},
        status : Status \cup {"none"}]

Active == {"queue", "check", "claim", "prepare", "dispatch", "await", "finish"}
PC == Active \cup {"idle", "done", "dead"}

TypeOK ==
    /\ executions \in [Key -> Row]
    /\ locks \in [Hosts -> Attempts \cup {NoAttempt}]
    /\ pc \in [Attempts -> PC]
    /\ request \in [Attempts -> Requests \cup {NoRequest}]
    /\ cancelled \in SUBSET Attempts
    /\ stuck \in SUBSET Attempts
    /\ authority \in [Attempts -> {"valid", "expired", "edited"}]
    /\ outcome \in [Attempts -> {"none", "ok", "error", "lost"}]
    /\ reported \in [Attempts -> Status \cup {"none", "error"}]
    /\ remote \in [Attempts -> {"none", "inflight", "done"}]
    /\ process \in {"up", "down", "recovering"}
    /\ crashes \in Nat
    /\ late \in SUBSET Attempts

Init ==
    /\ executions = [k \in Key |-> NoRow]
    /\ locks = [h \in Hosts |-> NoAttempt]
    /\ pc = [i \in Attempts |-> "idle"]
    /\ request = [i \in Attempts |-> NoRequest]
    /\ cancelled = {}
    /\ stuck = {}
    /\ authority = [i \in Attempts |-> "valid"]
    /\ outcome = [i \in Attempts |-> "none"]
    /\ reported = [i \in Attempts |-> "none"]
    /\ remote = [i \in Attempts |-> "none"]
    /\ process = "up"
    /\ crashes = 0
    /\ late = {}

-----------------------------------------------------------------------------
(* The environment of an attempt: the user stops the task, the grant       *)
(* expires, or the host's configuration is edited so that its digest no    *)
(* longer equals the one in the grant.  Once the server was contacted all  *)
(* three come to the same as LoseAnswer, which is always possible then.    *)

BeforeContact == {"queue", "check", "claim", "prepare", "dispatch"}

Queued(S) == {i \in S : pc[i] = "queue"}

CancelContext(i) ==
    /\ pc[i] \in BeforeContact /\ i \notin cancelled
    /\ cancelled' = cancelled \cup {i}
    /\ late' = late \cup Queued({i})
    /\ UNCHANGED <<executions, locks, pc, request, authority, outcome,
                   reported, remote, process, crashes, stuck>>

ExpireGrant(i) ==
    /\ pc[i] \in BeforeContact /\ authority[i] = "valid"
    /\ authority' = [authority EXCEPT ![i] = "expired"]
    /\ late' = late \cup Queued({i})
    /\ UNCHANGED <<executions, locks, pc, request, cancelled, outcome,
                   reported, remote, process, crashes, stuck>>

EditHost(h) ==
    LET holders == {i \in Attempts : /\ pc[i] \in BeforeContact
                                     /\ authority[i] = "valid"
                                     /\ request[i].host = h}
    IN  /\ holders # {}
        /\ authority' = [i \in Attempts |->
                            IF i \in holders THEN "edited" ELSE authority[i]]
        /\ late' = late \cup Queued(holders)
        /\ UNCHANGED <<executions, locks, pc, request, cancelled, outcome,
                       reported, remote, process, crashes, stuck>>

\* The server falls silent in Manager.connect, NewSession, Start or
\* sftp.NewClient, before the request is sent or after it (file_write opens
\* SFTP a second time to verify); perhaps it speaks again.
Opens(op) == op \notin LocalOps \cup {"terminal_read", "terminal_write"}

Block(i) ==
    /\ pc[i] \in {"dispatch", "await"} /\ i \notin stuck
    /\ Opens(request[i].op)
    /\ stuck' = stuck \cup {i}
    /\ UNCHANGED <<executions, locks, pc, request, cancelled, authority,
                   outcome, reported, remote, process, crashes, late>>

Unblock(i) ==
    /\ i \in stuck
    /\ stuck' = stuck \ {i}
    /\ UNCHANGED <<executions, locks, pc, request, cancelled, authority,
                   outcome, reported, remote, process, crashes, late>>

-----------------------------------------------------------------------------
(* Execute                                                                 *)

\* What an attempt knows besides its request ends with it.
Forget(i) ==
    /\ cancelled' = cancelled \ {i}
    /\ authority' = [authority EXCEPT ![i] = "valid"]
    /\ outcome' = [outcome EXCEPT ![i] = "none"]

\* Mutant: the host lock is not released.
ReturnWithoutUnlock(i, value) ==
    /\ pc' = [pc EXCEPT ![i] = "done"]
    /\ reported' = [reported EXCEPT ![i] = value]
    /\ Forget(i)
    /\ UNCHANGED locks

\* Every return runs the deferred release of the host lock.
Return(i, value) ==
    /\ pc' = [pc EXCEPT ![i] = "done"]
    /\ reported' = [reported EXCEPT ![i] = value]
    /\ locks' = [h \in Hosts |-> IF locks[h] = i THEN NoAttempt ELSE locks[h]]
    /\ Forget(i)

Goto(i, label) ==
    /\ pc' = [pc EXCEPT ![i] = label]
    /\ UNCHANGED <<reported, locks, cancelled, authority, outcome>>

\* The operation is over, with ExitCode and err as o says.
Ends(i, o) ==
    /\ pc' = [pc EXCEPT ![i] = "finish"]
    /\ outcome' = [outcome EXCEPT ![i] = o]
    /\ UNCHANGED <<reported, locks, cancelled, authority>>

Begin(i, r) ==
    /\ process = "up" /\ pc[i] = "idle"
    /\ request' = [request EXCEPT ![i] = r]
    /\ Goto(i, IF Mutates(r.op) THEN "queue" ELSE "check")
    /\ UNCHANGED <<executions, remote, process, crashes, late, stuck>>

\* Mutant: the lock is taken whoever holds it.
LockWithoutWaiting(i) ==
    /\ pc[i] = "queue"
    /\ locks' = [locks EXCEPT ![request[i].host] = i]
    /\ pc' = [pc EXCEPT ![i] = "check"]
    /\ UNCHANGED <<executions, request, cancelled, authority, outcome,
                   reported, remote, process, crashes, late, stuck>>

\* select: the channel send may win even when ctx is already done.
Lock(i) ==
    /\ pc[i] = "queue"
    /\ locks[request[i].host] = NoAttempt
    /\ locks' = [locks EXCEPT ![request[i].host] = i]
    /\ pc' = [pc EXCEPT ![i] = "check"]
    /\ UNCHANGED <<executions, request, cancelled, authority, outcome,
                   reported, remote, process, crashes, late, stuck>>

LeaveQueue(i) ==
    /\ pc[i] = "queue" /\ i \in cancelled
    /\ Return(i, "error")
    /\ UNCHANGED <<executions, request, remote, process, crashes, late, stuck>>

CheckAuthority(i) ==
    /\ pc[i] = "check"
    /\ IF i \notin cancelled /\ authority[i] = "valid"
         THEN Goto(i, "claim")
         ELSE Return(i, "error")
    /\ UNCHANGED <<executions, request, remote, process, crashes, late, stuck>>

\* INSERT ... ON CONFLICT(task_id, call_id) DO NOTHING
Insert(i) ==
    LET k == KeyOf(request[i])
    IN  executions' = [executions EXCEPT ![k] =
            IF @.status = "none"
              THEN [id |-> i, request |-> request[i], status |-> "running"]
              ELSE @]

\* INSERT, then SELECT.  A row is never deleted and only its owner or
\* Recover changes it, so the two statements behave as one step.
Claim(i) ==
    LET old == executions[KeyOf(request[i])]
    IN  /\ pc[i] = "claim"
        /\ Insert(i)
        /\ \/ old.status = "none" /\ Goto(i, "prepare")
           \/ /\ old.status # "none" /\ old.request = request[i]
              /\ Return(i, old.status)
           \/ /\ old.status # "none" /\ old.request # request[i]
              /\ Return(i, "error")
        /\ UNCHANGED <<request, remote, process, crashes, late, stuck>>

\* The INSERT or the SELECT after it fails.
ClaimFails(i) ==
    /\ pc[i] = "claim"
    /\ Insert(i) \/ UNCHANGED executions
    /\ Return(i, "error")
    /\ UNCHANGED <<request, remote, process, crashes, late, stuck>>

WithStatus(row, status) ==
    [id |-> row.id, request |-> row.request, status |-> status]

\* UPDATE executions SET payload = ... WHERE id = ...
SetStatus(i, status) ==
    executions' = [executions EXCEPT ![KeyOf(request[i])] = WithStatus(@, status)]

\* Store.Artifact creates the output file; Finish saves its path in the row.
Prepare(i) ==
    /\ pc[i] = "prepare"
    /\ Goto(i, "dispatch")
    /\ UNCHANGED <<executions, request, remote, process, crashes, late, stuck>>

\* No file: "failed" is saved, or not, when Finish fails as well.
\* A file, but its path cannot be saved: the row stays "running".
PrepareFails(i) ==
    /\ pc[i] = "prepare"
    /\ SetStatus(i, "failed") \/ UNCHANGED executions
    /\ Return(i, "error")
    /\ UNCHANGED <<request, remote, process, crashes, late, stuck>>

\* Local operations contact no server.  Manager.connect refuses a host whose
\* configuration changed; an open terminal is used without that check;
\* uploadLocal repeats checkAuthority once its snapshot is verified.
MayContact(i) ==
    LET op == request[i].op
    IN  /\ i \notin cancelled
        /\ op = "upload_local" => authority[i] = "valid"
        /\ op \notin {"terminal_read", "terminal_write"}
              => authority[i] # "edited"

Dispatch(i) ==
    /\ pc[i] = "dispatch" /\ i \notin stuck
    /\ Goto(i, "await")
    /\ \/ IsLocal(request[i].op) /\ UNCHANGED remote
       \/ /\ ~IsLocal(request[i].op) /\ MayContact(i)
          /\ remote' = [remote EXCEPT ![i] = "inflight"]
    /\ UNCHANGED <<executions, request, process, crashes, late, stuck>>

\* Refused arguments, no connection, a changed source file: nothing was sent.
\* Only uploadLocal can tell (started = false), and reports ExitCode 0.
FailBeforeContact(i) ==
    /\ pc[i] = "dispatch" /\ i \notin stuck /\ ~IsLocal(request[i].op)
    /\ Ends(i, IF request[i].op = "upload_local" THEN "error" ELSE "lost")
    /\ UNCHANGED <<executions, request, remote, process, crashes, late, stuck>>

\* The server carries the request out, whether or not anyone still waits.
ServerActs(i) ==
    /\ remote[i] = "inflight"
    /\ remote' = [remote EXCEPT ![i] = "done"]
    /\ UNCHANGED <<executions, locks, pc, request, cancelled, authority,
                   outcome, reported, process, crashes, late, stuck>>

\* Terminal input is delivered when its bytes are written to the session;
\* what the shell makes of them is still to come.
Delivers(op) == op = "terminal_write"

\* The operation ended and its end was observed.  "error": a non-zero exit
\* status, or the captured output could not be stored after ExitCode was set.
Answer(i) ==
    LET op == request[i].op
    IN  /\ pc[i] = "await" /\ i \notin stuck
        /\ IsLocal(op) \/ remote[i] = "done" \/ Delivers(op)
        /\ \E o \in {"ok"} \cup (IF op \in {"file_read", "upload_local"}
                                  THEN {} ELSE {"error"}) :
              Ends(i, o)
        /\ UNCHANGED <<executions, request, remote, process, crashes, late, stuck>>

\* Timeout, cancellation, broken connection, failed check after a write.
LoseAnswer(i) ==
    /\ pc[i] = "await" /\ i \notin stuck
    /\ Ends(i, "lost")
    /\ UNCHANGED <<executions, request, remote, process, crashes, late, stuck>>

\* Operations that cannot have changed anything when their answer is lost.
ReadOnlyAnswer == LocalOps \cup {"file_hash", "file_read", "terminal_read",
                                "terminal_connect"}

\* Mutant: every error counts as a failure.
StatusOfIgnoringLoss(op, o) == IF o = "ok" THEN "succeeded" ELSE "failed"

StatusOf(op, o) ==
    IF o = "ok" THEN "succeeded"
    ELSE IF o = "lost" /\ op \notin ReadOnlyAnswer THEN "unknown" ELSE "failed"

Finish(i) ==
    /\ pc[i] = "finish"
    /\ LET status == StatusOf(request[i].op, outcome[i])
       IN  SetStatus(i, status) /\ Return(i, status)
    /\ UNCHANGED <<request, remote, process, crashes, late, stuck>>

FinishFails(i) ==
    /\ pc[i] = "finish"
    /\ Return(i, "error")
    /\ UNCHANGED <<executions, request, remote, process, crashes, late, stuck>>

-----------------------------------------------------------------------------
(* Exit of the process and the next start: main calls Store.Recover before *)
(* anything else and exits when it fails.                                  *)

Crash ==
    /\ process # "down" /\ crashes < MaxCrashes
    /\ process' = "down"
    /\ crashes' = crashes + 1
    /\ pc' = [i \in Attempts |-> IF pc[i] \in Active THEN "dead" ELSE pc[i]]
    /\ locks' = [h \in Hosts |-> NoAttempt]
    /\ cancelled' = {} /\ stuck' = {}
    /\ authority' = [i \in Attempts |-> "valid"]
    /\ outcome' = [i \in Attempts |-> "none"]
    /\ UNCHANGED <<executions, request, reported, remote, late>>

Restart ==
    /\ process = "down"
    /\ process' = "recovering"
    /\ UNCHANGED <<executions, locks, pc, request, cancelled, authority,
                   outcome, reported, remote, crashes, late, stuck>>

\* Mutant: the task's status instead of the execution's.
RecoverRowInterrupts(k) ==
    /\ process = "recovering"
    /\ executions[k].status = "running"
    /\ executions' = [executions EXCEPT ![k] = WithStatus(@, "interrupted")]
    /\ UNCHANGED <<locks, pc, request, cancelled, authority, outcome,
                   reported, remote, process, crashes, late, stuck>>

\* Mutant: every record becomes unknown, not only the running ones.
RecoverAnyRow(k) ==
    /\ process = "recovering"
    /\ executions[k].status \notin {"none", "unknown"}
    /\ executions' = [executions EXCEPT ![k] = WithStatus(@, "unknown")]
    /\ UNCHANGED <<locks, pc, request, cancelled, authority, outcome,
                   reported, remote, process, crashes, late, stuck>>

RecoverRow(k) ==
    /\ process = "recovering"
    /\ executions[k].status = "running"
    /\ executions' = [executions EXCEPT ![k] = WithStatus(@, "unknown")]
    /\ UNCHANGED <<locks, pc, request, cancelled, authority, outcome,
                   reported, remote, process, crashes, late, stuck>>

RecoverDone ==
    /\ process = "recovering"
    /\ \A k \in Key : executions[k].status # "running"
    /\ process' = "up"
    /\ UNCHANGED <<executions, locks, pc, request, cancelled, authority,
                   outcome, reported, remote, crashes, late, stuck>>

-----------------------------------------------------------------------------
Step(i) ==
    \/ Lock(i) \/ LeaveQueue(i) \/ CheckAuthority(i)
    \/ Claim(i) \/ ClaimFails(i) \/ Prepare(i) \/ PrepareFails(i)
    \/ Dispatch(i) \/ FailBeforeContact(i) \/ Answer(i) \/ LoseAnswer(i)
    \/ Finish(i) \/ FinishFails(i)

Next ==
    \/ \E i \in Attempts :
         \/ \E r \in Requests : Begin(i, r)
         \/ Step(i)
         \/ CancelContext(i) \/ ExpireGrant(i) \/ ServerActs(i)
         \/ Block(i) \/ Unblock(i)
    \/ \E h \in Hosts : EditHost(h)
    \/ Crash \/ Restart \/ RecoverDone
    \/ \E k \in Key : RecoverRow(k)

Spec == Init /\ [][Next]_vars

(***************************************************************************)
(* Fairness: a goroutine that can take a step takes one (the operation's   *)
(* context has a deadline, so waiting for an answer ends with LoseAnswer), *)
(* and a send on a lock channel that stays possible succeeds.  Nothing is  *)
(* assumed of a server that is silent: Unblock is not fair.                *)
(***************************************************************************)
FairSpec == Spec /\ \A i \in Attempts : WF_vars(Step(i))

-----------------------------------------------------------------------------
(* Properties                                                              *)

\* A tool call reaches a server at most once, whatever is retried, resumed,
\* cancelled or restarted ("A duplicate call is never redispatched").
AtMostOnce ==
    \A i, j \in Attempts :
        ( /\ remote[i] # "none" /\ remote[j] # "none"
          /\ KeyOf(request[i]) = KeyOf(request[j]) ) => i = j

\* A recorded verdict on a change agrees with the server.  "succeeded" means
\* that it was carried out, or, for terminal input, that it was sent: a
\* delivery is no result of a command ("终端输入成功只代表交付成功").  After
\* "succeeded" or "failed" nothing of any other change is still under way.
VerdictMatchesServer ==
    \A k \in Key :
        LET row == executions[k]
            op == row.request.op
        IN  row.status \in {"succeeded", "failed"} /\ Mutates(op)
              => /\ row.status = "succeeded" => remote[row.id] # "none"
                 /\ ~Delivers(op) =>
                      /\ row.status = "succeeded" => remote[row.id] = "done"
                      /\ remote[row.id] # "inflight"

\* What Execute told the agent is what the database says from then on, over
\* crashes, restarts and repeated calls.
ReportIsDurable ==
    \A i \in Attempts :
        reported[i] \in {"succeeded", "failed", "unknown"}
          => executions[KeyOf(request[i])].status = reported[i]

\* Two changes may be under way on one host only when the executor has left
\* one of them behind: its record says that its result is not known, or it
\* is terminal input, of which a record says no more than that it was sent.
OverlapOnlyAfterUnknown ==
    \A i, j \in Attempts :
        ( /\ i # j /\ remote[i] = "inflight" /\ remote[j] = "inflight"
          /\ Mutates(request[i].op) /\ Mutates(request[j].op)
          /\ request[i].host = request[j].host )
        => \E a \in {i, j} :
              /\ pc[a] \in {"finish", "done", "dead"}
              /\ \/ executions[KeyOf(request[a])].status \in {"unknown", "running"}
                 \/ Delivers(request[a].op)

\* A change that lost its authority or its context while it waited for the
\* host lock neither enters the execution records nor reaches the server.
LateNeverRuns ==
    \A i \in late : /\ remote[i] = "none"
                    /\ \A k \in Key : executions[k].id # i

\* Recover leaves no record of an earlier process "running".
NoStaleRunning ==
    process = "up" =>
        \A k \in Key : executions[k].status = "running"
                         => pc[executions[k].id] # "dead"

\* What the ledger of calls is for: a call has at most one effect, has none
\* when it came too late, and overlaps another only where that is recorded.
OncePerCall == AtMostOnce /\ LateNeverRuns /\ OverlapOnlyAfterUnknown

\* The records can be believed: their verdicts agree with the servers, they
\* stay what the agent was told, and none speaks of a process that is gone.
RecordsAreTrue == VerdictMatchesServer /\ ReportIsDurable /\ NoStaleRunning

\* The execution records behave as ExecutionLedger.
Ledger == INSTANCE ExecutionLedger WITH
            verdict <- [k \in Key |-> executions[k].status],
            contacts <- [k \in Key |-> {i \in Attempts :
                            remote[i] # "none" /\ KeyOf(request[i]) = k}]

RefinesLedger == Ledger!LedgerSpec

\* Only a silent server keeps a caller, and of the other calls only changes
\* of the same host, which one cancellation sets free.
StuckHolder(i) ==
    /\ pc[i] = "queue" /\ i \notin cancelled
    /\ locks[request[i].host] \in stuck

CallersReturn ==
    \A i \in Attempts :
        []<>(pc[i] \notin Active \/ i \in stuck \/ StuckHolder(i))
=============================================================================
