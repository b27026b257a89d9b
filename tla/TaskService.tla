---------------------------- MODULE TaskService ----------------------------
(***************************************************************************)
(* internal/agent/service.go: the life of one task.  The entry points      *)
(* Submit, Resume, Decide and Cancel are called from goroutines of the     *)
(* desktop (App.work) and from its event thread; Stop and Close run at     *)
(* quit.  start launches a run, a goroutine that lets the model call tools *)
(* (tools.go, executeTool), verifies results (verification.go) and at its  *)
(* end writes the task document back.                                      *)
(*                                                                         *)
(* Every entry point is split where another goroutine can act: between a   *)
(* Load and the Put that follows it, and around Service.mu.  start holds   *)
(* mu from its first check to its Put, and so is one step.  The process    *)
(* may crash between any two steps.  executeTool is split where it reads   *)
(* the executions, the approval and claims its row: a call that was given  *)
(* up, by a stopped run or by a turn that Submit preempts, goes on beside  *)
(* what follows.                                                           *)
(*                                                                         *)
(* Abstractions: a tool call is a number; a grant is a number, ordered by  *)
(* time of issue (domain.ID is random, only equality is used by the code); *)
(* the task document keeps its status, its grant and whether ExpiresAt was *)
(* set to zero.  remote.Executor is the component of module Executor: here *)
(* a call gets a row, and the row gets a verdict; its lock per host, which *)
(* excludes some of the orders allowed here, is left out.  TurnLoop and    *)
(* the model belong to a library: they choose tool calls, replay an        *)
(* interrupted one after a resume, and end when they are stopped.          *)
(***************************************************************************)
EXTENDS Naturals, Sequences

CONSTANTS Hosts,
          Callers,     \* goroutines that call the service
          Entries,     \* the entry points they use
          MaxCalls,    \* bound on tool calls
          MaxRuns,     \* bound on runs
          MaxGrants,   \* bound on grants
          MaxCrashes

ASSUME BoundsAssumption ==
    /\ {MaxCalls, MaxRuns, MaxCrashes} \subseteq Nat
    /\ MaxGrants \in Nat \ {0}
    /\ Entries \subseteq {"submit", "resume", "decide", "cancel"}

Call == 1..MaxCalls
Run == 1..MaxRuns
Grant == 1..MaxGrants

VARIABLES
    mode,       \* Task.Mode, empty unless NewConversation made the task
    doc,        \* the stored task: status, grant, live (ExpiresAt not zero)
    calls,      \* the tool calls the model has made: host, kind, and whether the
                \* task's lists of automatic operations and resources have it
    approvals,  \* per call: the stored Approval
    results,    \* the executions of the task in row order
    verified,   \* per host: the call the Verification names, or 0
    runs,       \* per run: its in-memory task and progress
    left,       \* the calls of executeTool that go on after they were given up
    active,     \* Service.active: the run of the task, or 0
    closed,     \* Service.closed
    quit,       \* progress of the desktop's quit
    caller,     \* per caller: control point and loaded documents
    issued,     \* the last grant that was issued
    expired,    \* grants up to this one are past ExpiresAt
    process, crashes,
    oldGrant,   \* history: the last grant issued before the last crash
    consents    \* history: <<call, grant>> the user said yes to

vars == <<mode, doc, calls, approvals, results, verified, runs, left,
          active, closed, quit, caller, issued, expired, process, crashes, oldGrant, consents>>

documents == <<doc, calls, approvals, results, verified>>
service == <<runs, left, active, closed, quit>>
world == <<mode, expired, process, crashes, oldGrant>>

TaskStatus == {"ready", "running", "awaiting_approval", "interrupted",
               "blocked", "failed", "completed", "needs_verification"}
Task == [status : TaskStatus, grant : Grant, live : BOOLEAN]

Approval == [state : {"none", "asked", "accepted", "rejected"},
             grant : Grant \cup {0}]
NoApproval == [state |-> "none", grant |-> 0]

RowStatus == {"running", "succeeded", "failed", "unknown"}

\* Where a call is in executeTool: made; past checkKnownResults; past Evaluate
\* and its approval; past Claim.
Step == {"called", "checked", "cleared", "executing"}
Tool == [call : Call, grant : Grant, step : Step]

RunState == [phase : {"none", "turn", "save", "over"}, grant : Grant \cup {0},
             stopped : BOOLEAN, call : Call \cup {0}, step : Step \cup {"none"},
             pending : BOOLEAN, err : {"none", "failed", "blocked"}, status : TaskStatus]
NoRun == [phase |-> "none", grant |-> 0, stopped |-> FALSE, call |-> 0,
          step |-> "none", pending |-> FALSE, err |-> "none", status |-> "ready"]

NewDoc == [status |-> "ready", grant |-> 1, live |-> TRUE]

\* What an entry point holds in local variables between two steps.
Local == [entry : {"none"} \cup Entries,
          pc : {"idle", "load", "results", "put", "start"},
          task : Task, call : Call \cup {0}, approval : Approval]
Idle == [entry |-> "none", pc |-> "idle", task |-> NewDoc, call |-> 0,
         approval |-> NoApproval]

TypeOK ==
    /\ mode \in {"conversation", ""} /\ doc \in Task
    /\ calls \in Seq([host : Hosts, kind : {"change", "read"}, listed : BOOLEAN])
    /\ approvals \in [Call -> Approval]
    /\ results \in Seq([call : Call, status : RowStatus, grant : Grant, late : BOOLEAN])
    /\ verified \in [Hosts -> Call \cup {0}]
    /\ runs \in [Run -> RunState] /\ left \subseteq Tool
    /\ active \in Run \cup {0}
    /\ closed \in BOOLEAN
    /\ quit \in [stage : {"open", "stopped", "waiting", "closed"},
                run : Run \cup {0}]
    /\ caller \in [Callers -> Local]
    /\ issued \in Grant /\ expired \in Grant \cup {0}
    /\ process \in {"up", "down", "recovering"} /\ crashes \in Nat
    /\ oldGrant \in Grant \cup {0}
    /\ consents \subseteq Call \X Grant

\* NewTask has stored the task.
Init ==
    /\ mode \in {"conversation", ""} /\ doc = NewDoc
    /\ calls = <<>>
    /\ approvals = [n \in Call |-> NoApproval]
    /\ results = <<>>
    /\ verified = [h \in Hosts |-> 0]
    /\ runs = [r \in Run |-> NoRun] /\ left = {}
    /\ active = 0
    /\ closed = FALSE
    /\ quit = [stage |-> "open", run |-> 0]
    /\ caller = [c \in Callers |-> Idle]
    /\ issued = 1 /\ expired = 0
    /\ process = "up" /\ crashes = 0
    /\ oldGrant = 0
    /\ consents = {}


-----------------------------------------------------------------------------
(* Entry points                                                            *)

\* The process runs and its store is open.
Up == process = "up" /\ quit.stage # "closed"

At(c, entry, pc) == Up /\ caller[c].entry = entry /\ caller[c].pc = pc

Enter(c, entry) == Up /\ entry \in Entries /\ caller[c] = Idle

Leave(c) == caller' = [caller EXCEPT ![c] = Idle]
Goto(c, pc) == caller' = [caller EXCEPT ![c].pc = pc]
ThenStart(c) == caller' = [caller EXCEPT ![c] = [Idle EXCEPT !.pc = "start"]]

\* ExpiresAt is still in the future.
InForce(t) == t.live /\ t.grant > expired

\* The first step reads Service.active under mu.  For a submission to a run
\* see Preempt.
Submit(c) ==
    /\ Enter(c, "submit")
    /\ active = 0
    /\ caller' = [caller EXCEPT ![c].entry = "submit", ![c].pc = "load"]
    /\ UNCHANGED <<documents, service, world, issued, consents>>

SubmitLoad(c) ==
    /\ At(c, "submit", "load")
    /\ IF doc.status \in {"awaiting_approval", "interrupted"}
         THEN caller' = [caller EXCEPT ![c].task = doc, ![c].pc = "put"]
         ELSE ThenStart(c)
    /\ UNCHANGED <<documents, service, world, issued, consents>>

\* The text is added to Updates of the document that was loaded.
SubmitPut(c) ==
    /\ At(c, "submit", "put")
    /\ doc' = caller[c].task
    /\ ThenStart(c)
    /\ UNCHANGED <<calls, approvals, results, verified, service, world,
                   issued, consents>>

Resume(c) ==
    /\ Enter(c, "resume")
    /\ caller' = [caller EXCEPT ![c].entry = "resume", ![c].pc = "results",
                                ![c].task = doc]
    /\ UNCHANGED <<documents, service, world, issued, consents>>

Unsettled(row) == row.status \in {"unknown", "running"}

ResumeResults(c) ==
    /\ At(c, "resume", "results")
    /\ IF \E i \in DOMAIN results : Unsettled(results[i])
         THEN Leave(c) ELSE Goto(c, "put")
    /\ UNCHANGED <<documents, service, world, issued, consents>>

\* A new grant, and the document as it was loaded.
ResumePut(c) ==
    /\ At(c, "resume", "put") /\ issued < MaxGrants
    /\ issued' = issued + 1
    /\ doc' = [caller[c].task EXCEPT !.grant = issued', !.live = TRUE]
    /\ ThenStart(c)
    /\ UNCHANGED <<calls, approvals, results, verified, service, world,
                   consents>>

\* The dialog offers a stored approval; it is loaded first.
Decide(c, n) ==
    /\ Enter(c, "decide")
    /\ approvals[n].state # "none"
    /\ caller' = [caller EXCEPT ![c].entry = "decide", ![c].pc = "load",
                                ![c].call = n, ![c].approval = approvals[n]]
    /\ UNCHANGED <<documents, service, world, issued, consents>>

DecideLoad(c) ==
    /\ At(c, "decide", "load")
    /\ IF caller[c].approval.grant = doc.grant /\ InForce(doc)
         THEN Goto(c, "put") ELSE Leave(c)
    /\ UNCHANGED <<documents, service, world, issued, consents>>

DecidePut(c, accept) ==
    LET n == caller[c].call
        g == caller[c].approval.grant
    IN  /\ At(c, "decide", "put")
        /\ approvals' = [approvals EXCEPT ![n] =
              [state |-> IF accept THEN "accepted" ELSE "rejected", grant |-> g]]
        /\ consents' = IF accept THEN consents \cup {<<n, g>>} ELSE consents
        /\ ThenStart(c)
        /\ UNCHANGED <<doc, calls, results, verified, service, world, issued>>

\* Mutant: the context of the run is not cancelled.
StopNothing(r) == UNCHANGED runs

StopRun(r) == runs' = [runs EXCEPT ![r].stopped = TRUE]

\* With a run: stop its loop and cancel its context.
Cancel(c) ==
    /\ Enter(c, "cancel")
    /\ IF active # 0
         THEN StopRun(active) /\ UNCHANGED caller
         ELSE /\ caller' = [caller EXCEPT ![c].entry = "cancel", ![c].pc = "load"]
              /\ UNCHANGED runs
    /\ UNCHANGED <<documents, left, active, closed, quit, world, issued, consents>>

CancelLoad(c) ==
    /\ At(c, "cancel", "load")
    /\ IF doc.status \in {"awaiting_approval", "ready"}
         THEN caller' = [caller EXCEPT ![c].task = doc, ![c].pc = "put"]
         ELSE Leave(c)
    /\ UNCHANGED <<documents, service, world, issued, consents>>

CancelPut(c) ==
    /\ At(c, "cancel", "put")
    /\ doc' = [caller[c].task EXCEPT !.status = "interrupted", !.live = FALSE]
    /\ Leave(c)
    /\ UNCHANGED <<calls, approvals, results, verified, service, world,
                   issued, consents>>

\* An error of the store ends an entry point between any two of its steps.
CallFails(c) ==
    /\ process = "up" /\ caller[c] # Idle
    /\ Leave(c)
    /\ UNCHANGED <<documents, service, world, issued, consents>>

\* Mutant: a run is started after Stop.
StartAfterStop(c, r) ==
    /\ Up /\ caller[c].pc = "start"
    /\ active = 0 /\ InForce(doc)
    /\ runs[r].phase = "none" /\ \A q \in Run : q < r => runs[q].phase # "none"
    /\ doc' = [doc EXCEPT !.status = "running"]
    /\ runs' = [runs EXCEPT ![r] = [NoRun EXCEPT !.phase = "turn",
                                                !.grant = doc.grant]]
    /\ active' = r
    /\ Leave(c)
    /\ UNCHANGED <<calls, approvals, results, verified, left, closed, quit,
                   world, issued, consents>>

\* Service.start, under mu from the first check to the Put.  The run keeps
\* the task it loads for its whole life.
Start(c, r) ==
    /\ Up /\ caller[c].pc = "start"
    /\ ~closed /\ active = 0 /\ InForce(doc)
    /\ runs[r].phase = "none" /\ \A q \in Run : q < r => runs[q].phase # "none"
    /\ doc' = [doc EXCEPT !.status = "running"]
    /\ runs' = [runs EXCEPT ![r] = [NoRun EXCEPT !.phase = "turn",
                                                !.grant = doc.grant]]
    /\ active' = r
    /\ Leave(c)
    /\ UNCHANGED <<calls, approvals, results, verified, left, closed, quit,
                   world, issued, consents>>

-----------------------------------------------------------------------------
(* A run                                                                   *)

InTurn(r) == /\ Up /\ runs[r].phase = "turn" /\ runs[r].call = 0
             /\ ~runs[r].pending /\ runs[r].err = "none"

\* In executeTool, before Execute.
InTool(r) == /\ Up /\ runs[r].phase = "turn"
             /\ runs[r].call # 0 /\ runs[r].step # "executing"

KindOf(n) == calls[n].kind
HostOf(n) == calls[n].host
RowOf(n) == {i \in DOMAIN results : results[i].call = n}

\* Mutant: an execution under way does not hinder a change.
SettledButRunning == \A i \in DOMAIN results : results[i].status # "unknown"

\* checkKnownResults
Settled == \A i \in DOMAIN results : ~Unsettled(results[i])

WithRun(r, run) == runs' = [runs EXCEPT ![r] = run]
elsewhere == <<active, closed, quit, caller, issued, world, consents>>
runEnv == <<left, elsewhere>>

\* The model makes a tool call, with a new identity.
ToolCall(r, h, kind, listed) ==
    /\ InTurn(r) /\ Len(calls) < MaxCalls
    /\ calls' = Append(calls, [host |-> h, kind |-> kind, listed |-> listed])
    /\ WithRun(r, [runs[r] EXCEPT !.call = Len(calls) + 1, !.step = "called"])
    /\ UNCHANGED <<doc, approvals, results, verified, runEnv>>

\* The loop resumes from its checkpoint: the interrupted call comes back.
Replay(r, n) ==
    /\ InTurn(r) /\ n \in DOMAIN calls /\ approvals[n].state # "none"
    /\ WithRun(r, [runs[r] EXCEPT !.call = n, !.step = "called"])
    /\ UNCHANGED <<documents, runEnv>>

\* What follows is said of t, a run with its call or a call that was given up.
ToCheck(t) == t.step = "called" /\ KindOf(t.call) = "change"
ToEvaluate(t) == t.step = "checked" \/ (t.step = "called" /\ KindOf(t.call) = "read")

Authorized(t) == t.grant > expired

Decision(t) == LET a == approvals[t.call]
               IN  IF a.grant = t.grant THEN a.state ELSE "none"

\* Evaluate: what the task's lists have is automatic, a change like a read.
\* ApprovedFor: the rest needs the user's consent under the run's grant.
Approved(t) == calls[t.call].listed \/ Decision(t) = "accepted"

\* A change while a result is not known: an error that ends the run.
RefuseChange(r) ==
    /\ InTool(r) /\ ToCheck(runs[r]) /\ ~Settled
    /\ WithRun(r, [runs[r] EXCEPT !.call = 0, !.step = "none", !.err = "failed"])
    /\ UNCHANGED <<documents, runEnv>>

\* An expired grant, or a call the user rejected: the model gets a message.
Feedback(r) ==
    /\ InTool(r) /\ ToEvaluate(runs[r])
    /\ ~Authorized(runs[r]) \/ (~Approved(runs[r]) /\ Decision(runs[r]) = "rejected")
    /\ WithRun(r, [runs[r] EXCEPT !.call = 0, !.step = "none"])
    /\ UNCHANGED <<documents, runEnv>>

\* compose.Interrupt, and consumeEvents stores the question; when that
\* fails the run is pending without it.
Ask(r) ==
    LET n == runs[r].call
    IN  /\ InTool(r) /\ ToEvaluate(runs[r]) /\ Authorized(runs[r])
        /\ ~Approved(runs[r]) /\ Decision(runs[r]) # "rejected"
        /\ WithRun(r, [runs[r] EXCEPT !.call = 0, !.step = "none", !.pending = TRUE])
        /\ \/ approvals' = [approvals EXCEPT ![n] =
                  [state |-> "asked", grant |-> runs[r].grant]]
           \/ UNCHANGED approvals
        /\ UNCHANGED <<doc, calls, results, verified, runEnv>>

\* checkKnownResults, or Evaluate and the approval, let the call pass.
Passes(t, step) ==
    \/ ToCheck(t) /\ Settled /\ step = "checked"
    \/ ToEvaluate(t) /\ Authorized(t) /\ Approved(t) /\ step = "cleared"

Advance(r, step) ==
    /\ InTool(r) /\ Passes(runs[r], step)
    /\ WithRun(r, [runs[r] EXCEPT !.step = step])
    /\ UNCHANGED <<documents, runEnv>>

\* Execute passes its second check of the authority and claims a row.  The
\* two are one step here: what may come between them is in Executor.
Claim(t, late) ==
    /\ t.step = "cleared" /\ Authorized(t) /\ RowOf(t.call) = {}
    /\ results' = Append(results, [call |-> t.call, status |-> "running",
                                   grant |-> t.grant, late |-> late])

Execute(r) ==
    /\ InTool(r) /\ Claim(runs[r], FALSE)
    /\ WithRun(r, [runs[r] EXCEPT !.step = "executing"])
    /\ UNCHANGED <<doc, calls, approvals, verified, runEnv>>

AfterResult(run, status) ==
    [run EXCEPT !.call = 0, !.step = "none", !.err =
        IF status \in {"unknown", "running"} THEN "failed" ELSE @]

\* A call that has a row is not executed again.
Recorded(r) ==
    /\ InTool(r) /\ runs[r].step = "cleared" /\ Authorized(runs[r])
    /\ \E i \in RowOf(runs[r].call) :
          WithRun(r, AfterResult(runs[r], results[i].status))
    /\ UNCHANGED <<documents, runEnv>>

\* "running": the verdict could not be saved.
Verdict(n, status) ==
    \E i \in RowOf(n) : results' = [results EXCEPT ![i].status = status]

ExecuteReturns(r, status) ==
    /\ Up /\ runs[r].phase = "turn" /\ runs[r].step = "executing"
    /\ Verdict(runs[r].call, status)
    /\ WithRun(r, AfterResult(runs[r], status))
    /\ UNCHANGED <<doc, calls, approvals, verified, runEnv>>

\* The call of a run goes on without it.
LeaveCall(r) ==
    left' = IF runs[r].call = 0 THEN left
            ELSE left \cup {[call |-> runs[r].call, grant |-> runs[r].grant,
                             step |-> runs[r].step]}

\* Submit to a run pushes its text with WithPreemptTimeout: the turn ends
\* after its tool calls, or after 30 seconds without the one at work, and
\* the run goes on with the text in a turn of its own.
Preempt(r) ==
    /\ Up /\ "submit" \in Entries /\ active = r
    /\ runs[r].phase = "turn" /\ runs[r].call # 0 /\ ~runs[r].stopped
    /\ LeaveCall(r)
    /\ WithRun(r, [runs[r] EXCEPT !.call = 0, !.step = "none"])
    /\ UNCHANGED <<documents, elsewhere>>

\* A call that was given up ends, at an error or a question nobody hears, or
\* goes on: only Execute looks at its context, and not after it has claimed.
LeftEnds(t) ==
    /\ Up /\ t \in left /\ t.step # "executing"
    /\ left' = left \ {t}
    /\ UNCHANGED <<documents, runs, elsewhere>>

LeftAdvances(t, step) ==
    /\ Up /\ t \in left /\ Passes(t, step)
    /\ left' = (left \ {t}) \cup {[t EXCEPT !.step = step]}
    /\ UNCHANGED <<documents, runs, elsewhere>>

LeftExecutes(t) ==
    /\ Up /\ t \in left /\ Claim(t, TRUE)
    /\ left' = (left \ {t}) \cup {[t EXCEPT !.step = "executing"]}
    /\ UNCHANGED <<doc, calls, approvals, verified, runs, elsewhere>>

LeftReturns(t, status) ==
    /\ Up /\ t \in left /\ t.step = "executing"
    /\ Verdict(t.call, status)
    /\ left' = left \ {t}
    /\ UNCHANGED <<doc, calls, approvals, verified, runs, elsewhere>>

LastRow(i) == \A j \in DOMAIN results :
    HostOf(results[j].call) = HostOf(results[i].call) => j <= i

\* verifyResult: the last execution on its host, a read that succeeded.
\* Other evidence is answered with feedback.
Verify(r, i) ==
    LET n == results[i].call
    IN  /\ InTurn(r) /\ i \in DOMAIN results /\ Settled
        /\ KindOf(n) = "read" /\ results[i].status = "succeeded" /\ LastRow(i)
        /\ verified' = [verified EXCEPT ![HostOf(n)] = n]
        /\ UNCHANGED <<doc, calls, approvals, results, runs, runEnv>>

\* verifyResult with a result that is not known, an error of the store or
\* of Execute, a broken stream (blocked), an empty answer (blocked).
RunFails(r, err) ==
    /\ InTurn(r) \/ InTool(r)
    /\ WithRun(r, [runs[r] EXCEPT !.call = 0, !.step = "none", !.err = err])
    /\ UNCHANGED <<documents, runEnv>>

\* Mutant: one verified host is enough.
OneVerified ==
    /\ results # <<>> /\ Settled
    /\ \E i \in DOMAIN results :
          LastRow(i) /\ verified[HostOf(results[i].call)] = results[i].call

AllVerified ==
    /\ results # <<>> /\ Settled
    /\ \A i \in DOMAIN results :
          LastRow(i) => verified[HostOf(results[i].call)] = results[i].call

FinalStatus(r) ==
    CASE runs[r].pending -> "awaiting_approval"
      [] ~runs[r].pending /\ runs[r].stopped -> "interrupted"
      [] ~runs[r].pending /\ ~runs[r].stopped /\ runs[r].err # "none" -> runs[r].err
      [] OTHER -> IF mode = "conversation" /\ results = <<>> THEN "ready"
                  ELSE IF AllVerified THEN "completed"
                  ELSE "needs_verification"

\* loop.Wait returns: the model has answered, an approval is pending, an
\* error was met, or the loop was stopped, perhaps with a tool still at
\* work.  An ExitReason without any of these is an interruption.
RunExit(r) ==
    /\ Up /\ runs[r].phase = "turn"
    /\ runs[r].call = 0 \/ runs[r].stopped
    /\ \E status \in {FinalStatus(r)} \cup (IF InTurn(r) THEN {"interrupted"} ELSE {}) :
          WithRun(r, [runs[r] EXCEPT !.phase = "save", !.status = status,
                                     !.call = 0, !.step = "none"])
    /\ LeaveCall(r)
    /\ UNCHANGED <<documents, elsewhere>>

\* Under mu: the task the run has kept since start is stored (or that
\* fails, unnoticed) and the run leaves Service.active.
RunSave(r) ==
    /\ Up /\ runs[r].phase = "save"
    /\ \/ doc' = [status |-> runs[r].status, grant |-> runs[r].grant, live |-> TRUE]
       \/ UNCHANGED doc
    /\ active' = 0
    /\ WithRun(r, [NoRun EXCEPT !.phase = "over"])
    /\ UNCHANGED <<calls, approvals, results, verified, left, closed, quit, caller,
                   issued, world, consents>>

-----------------------------------------------------------------------------
(* Time, quit and crash                                                    *)

GrantExpires ==
    /\ process = "up" /\ expired < issued
    /\ expired' = expired + 1
    /\ UNCHANGED <<documents, service, caller, issued, mode, process,
                   crashes, oldGrant, consents>>

\* App.quit calls Stop, closes the connections and then calls Close.
Stop ==
    /\ process = "up" /\ quit.stage = "open"
    /\ closed' = TRUE
    /\ IF active # 0 THEN StopRun(active) ELSE UNCHANGED runs
    /\ quit' = [stage |-> "stopped", run |-> 0]
    /\ UNCHANGED <<documents, left, active, caller, issued, world, consents>>

\* Close stops again and collects the runs it has to wait for.
Close ==
    /\ process = "up" /\ quit.stage = "stopped"
    /\ IF active # 0 THEN StopRun(active) ELSE UNCHANGED runs
    /\ quit' = [stage |-> "waiting", run |-> active]
    /\ UNCHANGED <<documents, left, active, closed, caller, issued, world, consents>>

\* Their done channels are closed; quit closes the store next.
CloseStore ==
    /\ process = "up" /\ quit.stage = "waiting"
    /\ quit.run # 0 => runs[quit.run].phase = "over"
    /\ quit' = [stage |-> "closed", run |-> 0]
    /\ UNCHANGED <<documents, runs, left, active, closed, caller, issued,
                   world, consents>>

Crash ==
    /\ process # "down" /\ crashes < MaxCrashes
    /\ process' = "down" /\ crashes' = crashes + 1
    /\ runs' = [r \in Run |-> IF runs[r].phase = "none" THEN NoRun
                                 ELSE [NoRun EXCEPT !.phase = "over"]]
    /\ left' = {} /\ active' = 0 /\ closed' = FALSE
    /\ quit' = [stage |-> "open", run |-> 0]
    /\ caller' = [c \in Callers |-> Idle]
    /\ oldGrant' = issued
    /\ UNCHANGED <<documents, issued, mode, expired, consents>>

\* Store.Recover, first the executions, then the tasks; both are repeated
\* when the process ends in between.
RecoverResults ==
    /\ process = "down"
    /\ process' = "recovering"
    /\ results' = [i \in DOMAIN results |->
          [results[i] EXCEPT !.status = IF @ = "running" THEN "unknown" ELSE @]]
    /\ UNCHANGED <<doc, calls, approvals, verified, service, caller, issued,
                   mode, expired, crashes, oldGrant, consents>>

RecoverTask ==
    /\ process = "recovering"
    /\ process' = "up"
    /\ doc' = [doc EXCEPT !.live = FALSE, !.status =
          IF @ \in {"running", "awaiting_approval"} THEN "interrupted" ELSE @]
    /\ UNCHANGED <<calls, approvals, results, verified, service, caller, issued,
                   mode, expired, crashes, oldGrant, consents>>

-----------------------------------------------------------------------------
CallerStep(c) ==
    \/ Submit(c) \/ SubmitLoad(c) \/ SubmitPut(c)
    \/ Resume(c) \/ ResumeResults(c) \/ ResumePut(c)
    \/ DecideLoad(c) \/ \E accept \in BOOLEAN : DecidePut(c, accept)
    \/ Cancel(c) \/ CancelLoad(c) \/ CancelPut(c)
    \/ CallFails(c)
    \/ \E n \in Call : Decide(c, n)
    \/ \E r \in Run : Start(c, r)

RunStep(r) ==
    \/ \E h \in Hosts, kind \in {"change", "read"}, listed \in BOOLEAN :
          ToolCall(r, h, kind, listed)
    \/ \E n \in Call : Replay(r, n)
    \/ RefuseChange(r) \/ Feedback(r) \/ Ask(r) \/ Execute(r) \/ Recorded(r)
    \/ \E step \in {"checked", "cleared"} : Advance(r, step)
    \/ \E status \in RowStatus : ExecuteReturns(r, status)
    \/ \E i \in Call : Verify(r, i)
    \/ \E err \in {"failed", "blocked"} : RunFails(r, err)
    \/ Preempt(r) \/ RunExit(r) \/ RunSave(r)

LeftStep(t) ==
    \/ LeftEnds(t) \/ LeftExecutes(t)
    \/ \E step \in {"checked", "cleared"} : LeftAdvances(t, step)
    \/ \E status \in RowStatus : LeftReturns(t, status)

Next ==
    \/ \E c \in Callers : CallerStep(c)
    \/ \E r \in Run : RunStep(r)
    \/ \E t \in left : LeftStep(t)
    \/ GrantExpires \/ Stop \/ Close \/ CloseStore
    \/ Crash \/ RecoverResults \/ RecoverTask

Spec == Init /\ [][Next]_vars

(***************************************************************************)
(* Fairness: a stopped loop returns from Wait (TurnLoop.Stop with          *)
(* WithImmediate), the run's goroutine then saves, and the goroutine of    *)
(* App.quit makes progress.  Nothing is assumed of users and models.       *)
(***************************************************************************)
StoppedRunEnds(r) == runs[r].stopped /\ (RunExit(r) \/ RunSave(r))

FairSpec ==
    /\ Spec
    /\ \A r \in Run : WF_vars(StoppedRunEnds(r))
    /\ WF_vars(Close) /\ WF_vars(CloseStore)

-----------------------------------------------------------------------------
(* Properties                                                              *)

\* A task has one run at a time, however Submit, Resume and Decide race.
OneRun ==
    \A q, r \in Run :
        {runs[q].phase, runs[r].phase} \subseteq {"turn", "save"} => q = r

\* No change is made after an execution whose result is not known
\* (checkKnownResults), over preempted turns, abandoned runs and restarts,
\* unless one of the two was claimed by a call that had been given up: the
\* check and the claim are two steps.
NoChangeWhileUnknown ==
    \A i, j \in DOMAIN results :
        i < j /\ KindOf(results[j].call) = "change" /\ Unsettled(results[i])
           => results[i].late \/ results[j].late

\* What was executed is on the task's lists or was consented to by the user,
\* this call and under the grant of the run that made it; a call is executed
\* at most once.
ExecutionsHaveConsent ==
    \A i \in DOMAIN results :
        /\ ~calls[results[i].call].listed
              => <<results[i].call, results[i].grant>> \in consents
        /\ RowOf(results[i].call) = {i}

\* After a restart nothing runs under a grant of the earlier process: only
\* Resume gives a new one.
RestartNeedsResume ==
    /\ \A r \in Run : runs[r].phase \in {"turn", "save"} => runs[r].grant > oldGrant
    /\ \A t \in left : t.grant > oldGrant

\* A task that rests as completed has, on every host it touched, a
\* successful read as its last execution, or one that began after it was
\* given up.
CompletedIsVerified ==
    doc.status = "completed" /\ active = 0 =>
        /\ results # <<>>
        /\ \A i \in DOMAIN results : LastRow(i) =>
              \/ results[i].late
              \/ KindOf(results[i].call) = "read" /\ results[i].status = "succeeded"

\* Every execution was allowed when it was made: by the lists or the user, by
\* a grant of this process, and a change with no earlier result in doubt.
ExecutionsAreAllowed ==
    NoChangeWhileUnknown /\ ExecutionsHaveConsent /\ RestartNeedsResume

\* The store is closed only when no run has anything left to save.
StoreOutlivesRuns ==
    quit.stage = "closed" =>
        active = 0 /\ \A r \in Run : runs[r].phase \notin {"turn", "save"}

\* The runs of a task follow one another and all end before the store does.
RunsAreOrderly == TypeOK /\ OneRun /\ StoreOutlivesRuns

\* Quit ends: once Stop was called, the store is closed or the process dies.
QuitEnds == []<>(quit.stage \in {"open", "closed"} \/ process # "up")
=============================================================================
