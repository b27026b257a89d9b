-------------------------- MODULE TaskServiceProofs --------------------------
(***************************************************************************)
(* Proofs about TaskService for every number of callers, hosts, tool calls,*)
(* runs, grants and crashes.                                               *)
(*                                                                         *)
(* The invariants the runs check are not inductive.  That runs follow one  *)
(* another rests on Service.active naming the only run (ActiveInv); that   *)
(* no change is made on top of an unknown result, on a row being left      *)
(* "running" only by the call that waits for it (WaitInv) and on what a    *)
(* change that is past its check has behind it (CheckedInv); consent, on   *)
(* the stored approvals and what is known of a call past Evaluate          *)
(* (ConsentInv); and that a restart needs a new grant, on the documents    *)
(* that entry points carry in local variables (GrantInv).                  *)
(* That a completed task is verified rests on every place that may say     *)
(* "completed" (CompletedInv), and holds outside one race (LoneResume).    *)
(***************************************************************************)
EXTENDS TaskService, TLAPS

Running(r) == runs[r].phase \in {"turn", "save"}

\* Runs, calls that were given up and executions name calls that the model has
\* made.  A run is in executeTool only while it is in its turn.
CallsInv ==
    /\ \A r \in Run : runs[r].call \in DOMAIN calls \cup {0}
    /\ \A t \in left : t.call \in DOMAIN calls
    /\ \A i \in DOMAIN results : results[i].call \in DOMAIN calls
    /\ \A r \in Run : /\ runs[r].call = 0 <=> runs[r].step = "none"
                      /\ runs[r].call # 0 => runs[r].phase = "turn"

\* Service.active names the run that is not over, also while quit waits for
\* it; nothing is left of a process that is down.
ActiveInv ==
    /\ \A r \in Run : Running(r) => active = r
    /\ active # 0 => Running(active)
    /\ quit.stage # "open" => closed
    /\ quit.stage = "waiting" => active \in {0, quit.run}
    /\ quit.stage = "closed" => active = 0
    /\ process # "up" =>
         /\ active = 0 /\ quit.stage = "open" /\ left = {}
         /\ \A c \in Callers : caller[c] = Idle
         /\ \A r \in Run : runs[r].call = 0

Waiting(r) == runs[r].step = "executing"
HasRow(n) == \E i \in DOMAIN results : results[i].call = n /\ results[i].status = "running"

\* A call has one row at most; while Execute is under way the row says so, and
\* no two of them wait for one row.
WaitInv ==
    /\ \A i, j \in DOMAIN results : results[i].call = results[j].call => i = j
    /\ \A r \in Run : Waiting(r) => HasRow(runs[r].call)
    /\ \A t \in left : t.step = "executing" => HasRow(t.call)
    /\ \A q, r \in Run : Waiting(q) /\ Waiting(r) /\ runs[q].call = runs[r].call => q = r
    /\ \A r \in Run, t \in left : Waiting(r) /\ t.step = "executing" => t.call # runs[r].call
    /\ \A t, u \in left : t.step = "executing" /\ u.step = "executing" /\ t.call = u.call => t = u

\* Behind a change that is past checkKnownResults, only a call that was given up
\* can have left a result in doubt.
CheckedInv ==
    \A r \in Run : runs[r].step \in {"checked", "cleared"} =>
        (KindOf(runs[r].call) = "change" =>
            \A i \in DOMAIN results : Unsettled(results[i]) => results[i].late)

\* A decision is about a call, and about the grant its question was asked under.
DecideInv ==
    \A c \in Callers : caller[c].entry = "decide" =>
        caller[c].call \in Call /\ (caller[c].pc = "put" => caller[c].approval.grant \in Grant)

\* The call t may be executed as far as the user is concerned.
Granted(t) == calls[t.call].listed \/ <<t.call, t.grant>> \in consents

\* What is stored as accepted is what the user said yes to, and what is past
\* Evaluate may be executed.
ConsentInv ==
    /\ \A n \in Call : approvals[n].state = "accepted" => <<n, approvals[n].grant>> \in consents
    /\ \A r \in Run : runs[r].step = "cleared" => Granted(runs[r])
    /\ \A t \in left : t.step = "cleared" => Granted(t)

\* A task in force, stored or about to be stored again by Submit, has a grant of
\* this process.
GrantInv ==
    /\ oldGrant <= issued
    /\ process = "up" /\ doc.live => doc.grant > oldGrant
    /\ \A c \in Callers :
          caller[c].entry = "submit" /\ caller[c].pc = "put" /\ caller[c].task.live
             => caller[c].task.grant > oldGrant

Inv == /\ TypeOK /\ CallsInv /\ ActiveInv /\ WaitInv /\ CheckedInv /\ DecideInv /\ ConsentInv
       /\ GrantInv /\ NoChangeWhileUnknown /\ ExecutionsHaveConsent /\ RestartNeedsResume

-----------------------------------------------------------------------------
\* The steps of an entry point by what they change: its own variables; the task
\* document; or more than that.
Enters(c) == \/ Submit(c) \/ SubmitLoad(c) \/ Resume(c) \/ ResumeResults(c)
             \/ DecideLoad(c) \/ CancelLoad(c) \/ CallFails(c)
             \/ \E n \in Call : Decide(c, n)
Stores(c) == SubmitPut(c) \/ ResumePut(c) \/ CancelPut(c)

\* The steps of a run that change nothing but the run itself; those that give up
\* its call; and those that store something.
Alone(r) == \/ \E n \in Call : Replay(r, n)
            \/ \E step \in {"checked", "cleared"} : Advance(r, step)
            \/ RefuseChange(r) \/ Feedback(r) \/ Recorded(r)
            \/ \E err \in {"failed", "blocked"} : RunFails(r, err)
GivesUp(r) == RunExit(r) \/ Preempt(r)
Calls(r) == \E h \in Hosts, kind \in {"change", "read"}, listed \in BOOLEAN : ToolCall(r, h, kind, listed)
Returns(r) == \E status \in RowStatus : ExecuteReturns(r, status)
Verifies(r) == \E i \in Call : Verify(r, i)
RunKeepsLeft(r) == Alone(r) \/ Ask(r) \/ Execute(r) \/ RunSave(r) \/ Calls(r) \/ Returns(r) \/ Verifies(r)

LEMMA Cases ==
    ASSUME [Next]_vars
    PROVE  \/ \E c \in Callers : Enters(c) \/ Stores(c) \/ Cancel(c)
           \/ \E c \in Callers, accept \in BOOLEAN : DecidePut(c, accept)
           \/ \E c \in Callers, r \in Run : Start(c, r)
           \/ \E r \in Run : RunKeepsLeft(r) \/ GivesUp(r)
           \/ \E t \in left : LeftStep(t)
           \/ GrantExpires \/ Stop \/ Close \/ CloseStore
           \/ Crash \/ RecoverResults \/ RecoverTask
           \/ UNCHANGED vars
  BY DEF Next, CallerStep, RunStep, Enters, Stores, Alone, GivesUp, Calls, Returns, Verifies, RunKeepsLeft

LEMMA Values ==
    /\ NewDoc \in Task /\ NoApproval \in Approval /\ Idle \in Local /\ NoRun \in RunState
    /\ 1 \in Grant /\ Grant \subseteq Nat /\ Call \subseteq Nat /\ 0 \notin Call
    /\ Run \subseteq Nat /\ 0 \notin Run
  BY BoundsAssumption DEF NewDoc, Task, TaskStatus, NoApproval, Approval, Idle, Local, NoRun, RunState,
                          Grant, Call, Run

OthersKeep(c) == \A d \in Callers \ {c} : caller'[d] = caller[d]

LEMMA EntersFrame ==
    ASSUME TypeOK, DecideInv, NEW c \in Callers, Enters(c)
    PROVE  /\ UNCHANGED <<documents, service, world, issued, consents>>
           /\ caller' \in [Callers -> Local] /\ OthersKeep(c)
           /\ process = "up"
           /\ caller'[c].entry = "submit" /\ caller'[c].pc = "put" => caller'[c].task = doc
           /\ caller'[c].entry = "decide" =>
                caller'[c].call \in Call /\ (caller'[c].pc = "put" => caller'[c].approval.grant \in Grant)
<1> DEFINE Frame == /\ UNCHANGED <<documents, service, world, issued, consents>>
                    /\ caller' \in [Callers -> Local] /\ OthersKeep(c)
                    /\ process = "up"
                    /\ caller'[c].entry = "submit" /\ caller'[c].pc = "put" => caller'[c].task = doc
                    /\ caller'[c].entry = "decide" =>
                         caller'[c].call \in Call /\ (caller'[c].pc = "put" => caller'[c].approval.grant \in Grant)
<1>c. caller[c] \in Local /\ doc \in Task /\ caller \in [Callers -> Local] /\ approvals \in [Call -> Approval]
  BY DEF TypeOK
<1>d. caller[c].entry = "decide" => caller[c].call \in Call
  BY DEF DecideInv
<1>e. doc.grant \in Grant
  BY <1>c DEF Task
<1> USE Values, <1>c, <1>d, <1>e DEF Local, OthersKeep, At, Enter, Up, Goto, Leave, ThenStart
<1>1. CASE Submit(c)
  BY <1>1 DEF Submit, Idle
<1>2. CASE SubmitLoad(c)
  BY <1>2 DEF SubmitLoad, Idle
<1>3. CASE Resume(c)
  BY <1>3 DEF Resume
<1>4. CASE ResumeResults(c)
  BY <1>4 DEF ResumeResults, Idle
<1>5. CASE DecideLoad(c)
  BY <1>5 DEF DecideLoad, Idle
<1>6. CASE CancelLoad(c)
  BY <1>6 DEF CancelLoad, Idle
<1>7. CASE CallFails(c)
  BY <1>7 DEF CallFails, Idle
<1>8. ASSUME NEW n \in Call, Decide(c, n) PROVE Frame
  BY <1>8 DEF Decide
<1>9. QED
  BY <1>1, <1>2, <1>3, <1>4, <1>5, <1>6, <1>7, <1>8 DEF Enters

-----------------------------------------------------------------------------
\* The values a run is set to are runs.
LEMMA FinalStatusType == ASSUME NEW r \in Run, runs[r] \in RunState PROVE FinalStatus(r) \in TaskStatus
  BY DEF FinalStatus, TaskStatus, RunState

\* The values of a run outside of executeTool, and in it.
Quiet(y) == y.call = 0 /\ y.step = "none"
Same(y, x) == y.phase = x.phase /\ y.grant = x.grant

\* y is x outside of executeTool.
Leaves(y, x) ==
    \/ y = [x EXCEPT !.call = 0, !.step = "none"]
    \/ y = [x EXCEPT !.call = 0, !.step = "none", !.pending = TRUE]
    \/ \E err \in {"failed", "blocked"} : y = [x EXCEPT !.call = 0, !.step = "none", !.err = err]
    \/ \E s \in RowStatus : y = AfterResult(x, s)

LEMMA LeavesValue ==
    ASSUME NEW x \in RunState, NEW y, Leaves(y, x)
    PROVE  y \in RunState /\ Quiet(y) /\ Same(y, x) /\ y.status = x.status
<1> DEFINE Goal == y \in RunState /\ Quiet(y) /\ Same(y, x) /\ y.status = x.status
<1> USE Values DEF RunState, Quiet, Same
<1>1. CASE y = [x EXCEPT !.call = 0, !.step = "none"]
  BY <1>1
<1>2. CASE y = [x EXCEPT !.call = 0, !.step = "none", !.pending = TRUE]
  BY <1>2
<1>3. ASSUME NEW err \in {"failed", "blocked"}, y = [x EXCEPT !.call = 0, !.step = "none", !.err = err]
      PROVE  Goal
  BY <1>3
<1>4. ASSUME NEW s \in RowStatus, y = AfterResult(x, s) PROVE Goal
  BY <1>4 DEF AfterResult
<1>5. QED
  BY <1>1, <1>2, <1>3, <1>4 DEF Leaves

\* x with its last status, and x with call n.
SavedRun(x, s) == [x EXCEPT !.phase = "save", !.status = s, !.call = 0, !.step = "none"]
CalledRun(x, n) == [x EXCEPT !.call = n, !.step = "called"]

LEMMA SavedValue ==
    ASSUME NEW x \in RunState, NEW s \in TaskStatus
    PROVE  LET y == SavedRun(x, s)
           IN  y \in RunState /\ Quiet(y) /\ y.phase = "save" /\ y.grant = x.grant /\ y.status = s
  BY Values DEF RunState, Quiet, SavedRun

LEMMA StepValue ==
    ASSUME NEW x \in RunState, NEW s \in Step, NEW y, y = [x EXCEPT !.step = s]
    PROVE  y \in RunState /\ y.step = s /\ y.call = x.call /\ Same(y, x) /\ y.status = x.status
  BY DEF RunState, Same

LEMMA CalledValue ==
    ASSUME NEW x \in RunState, NEW n \in Call
    PROVE  LET y == CalledRun(x, n)
           IN  y \in RunState /\ y.step = "called" /\ y.call = n /\ Same(y, x)
  BY DEF RunState, Same, Step, CalledRun

LEMMA StoppedValue ==
    ASSUME NEW x \in RunState, NEW y, y = [x EXCEPT !.stopped = TRUE]
    PROVE  y \in RunState /\ y.step = x.step /\ y.call = x.call /\ Same(y, x) /\ y.status = x.status
  BY DEF RunState, Same

LEMMA NewValues ==
    /\ LET y == [NoRun EXCEPT !.phase = "over"] IN y \in RunState /\ Quiet(y) /\ y.phase = "over"
    /\ \A g \in Grant : LET y == [NoRun EXCEPT !.phase = "turn", !.grant = g]
                        IN  y \in RunState /\ Quiet(y) /\ y.phase = "turn" /\ y.grant = g
  BY Values DEF RunState, Quiet, NoRun

\* What the types say of a run, and of a row.
LEMMA RunType ==
    ASSUME TypeOK, NEW r \in Run
    PROVE  /\ runs \in [Run -> RunState] /\ runs[r] \in RunState
           /\ runs[r].call \in Call \cup {0} /\ runs[r].grant \in Grant \cup {0}
           /\ runs[r].status \in TaskStatus
           /\ runs[r].step \in Step \cup {"none"} /\ runs[r].phase \in {"none", "turn", "save", "over"}
  BY DEF TypeOK, RunState

Row == [call : Call, status : RowStatus, grant : Grant, late : BOOLEAN]
ToolCalls == [host : Hosts, kind : {"change", "read"}, listed : BOOLEAN]

LEMMA SequenceTypes == TypeOK => /\ results \in Seq(Row) /\ Len(results) \in Nat
                                 /\ calls \in Seq(ToolCalls) /\ Len(calls) \in Nat
<1>1. TypeOK => results \in Seq(Row) /\ calls \in Seq(ToolCalls)
  BY DEF TypeOK, Row, ToolCalls
<1>2. QED
  BY <1>1

LEMMA NextGrant == ASSUME NEW g \in Grant \cup {0}, NEW h \in Grant, g < h PROVE g + 1 \in Grant
  BY BoundsAssumption DEF Grant

LEMMA NextCall == ASSUME NEW n \in Nat, n < MaxCalls PROVE n + 1 \in Call
  BY BoundsAssumption DEF Call

LEMMA RowValues ==
    /\ \A n \in Call, s \in RowStatus, g \in Grant, l \in BOOLEAN :
          [call |-> n, status |-> s, grant |-> g, late |-> l] \in Row
    /\ \A row \in Row, s \in RowStatus : [row EXCEPT !.status = s] \in Row
    /\ "running" \in RowStatus /\ "unknown" \in RowStatus
  BY DEF Row, RowStatus

LEMMA NumberTypes == TypeOK => issued \in Nat /\ expired \in Nat /\ oldGrant \in Nat
<1>1. TypeOK => issued \in Grant /\ expired \in Grant \cup {0} /\ oldGrant \in Grant \cup {0}
  BY DEF TypeOK
<1>2. QED
  BY <1>1 DEF Grant

LEMMA RowType ==
    ASSUME TypeOK, NEW i \in DOMAIN results
    PROVE  /\ results[i].call \in Call /\ results[i].status \in RowStatus /\ results[i].grant \in Grant
           /\ i \in 1..Len(results) /\ results[i] \in Row
<1>1. results[i] \in Row /\ i \in 1..Len(results)
  BY SequenceTypes
<1>2. QED
  BY <1>1 DEF Row

\* What a step of a run does to runs: all but this one stay, and it stays a run.
OthersRun(r) == \A q \in Run \ {r} : runs'[q] = runs[q]

LEMMA RunFrame ==
    ASSUME TypeOK, NEW r \in Run, RunKeepsLeft(r) \/ GivesUp(r)
    PROVE  /\ runs' \in [Run -> RunState] /\ OthersRun(r) /\ process = "up"
           /\ UNCHANGED <<mode, closed, quit, caller, issued, world, consents>>
           /\ RunKeepsLeft(r) => UNCHANGED left
<1> DEFINE Frame == /\ runs' \in [Run -> RunState] /\ OthersRun(r) /\ process = "up"
                    /\ UNCHANGED <<mode, closed, quit, caller, issued, world, consents>>
<1> USE RunType
    DEF runEnv, elsewhere, world, documents, OthersRun, WithRun, InTool, InTurn, Up
<1>y. ASSUME NEW y \in RunState, runs' = [runs EXCEPT ![r] = y]
      PROVE  runs' \in [Run -> RunState] /\ OthersRun(r)
  BY <1>y
<1>z. ASSUME NEW y, Leaves(y, runs[r]), runs' = [runs EXCEPT ![r] = y]
      PROVE  runs' \in [Run -> RunState] /\ OthersRun(r)
  BY <1>y, <1>z, LeavesValue
<1>1. ASSUME NEW n \in Call, Replay(r, n) PROVE Frame /\ UNCHANGED left
  <2>1. CalledRun(runs[r], n) \in RunState
    BY CalledValue
  <2>2. QED
    BY <1>1, <1>y, <2>1 DEF Replay, CalledRun
<1>2. CASE RefuseChange(r)
  <2>1. Leaves([runs[r] EXCEPT !.call = 0, !.step = "none", !.err = "failed"], runs[r])
    BY DEF Leaves
  <2>2. QED
    BY <1>2, <1>z, <2>1 DEF RefuseChange
<1>3. CASE Feedback(r)
  <2>1. Leaves([runs[r] EXCEPT !.call = 0, !.step = "none"], runs[r])
    BY DEF Leaves
  <2>2. QED
    BY <1>3, <1>z, <2>1 DEF Feedback
<1>4. CASE Recorded(r)
  <2>1. PICK i \in RowOf(runs[r].call) : runs' = [runs EXCEPT ![r] = AfterResult(runs[r], results[i].status)]
    BY <1>4 DEF Recorded
  <2>2. results[i].status \in RowStatus
    BY <2>1, RowType DEF RowOf
  <2>3. Leaves(AfterResult(runs[r], results[i].status), runs[r])
    BY <2>2 DEF Leaves
  <2>4. QED
    BY <1>4, <1>z, <2>1, <2>3 DEF Recorded
<1>5. ASSUME RunExit(r) PROVE Frame
  <2>1. FinalStatus(r) \in TaskStatus /\ "interrupted" \in TaskStatus
    BY FinalStatusType DEF TaskStatus
  <2>2. PICK s \in {FinalStatus(r)} \cup (IF InTurn(r) THEN {"interrupted"} ELSE {}) :
           runs' = [runs EXCEPT ![r] = [runs[r] EXCEPT !.phase = "save", !.status = s,
                                                       !.call = 0, !.step = "none"]]
    BY <1>5 DEF RunExit
  <2>3. s \in TaskStatus
    BY <2>1, <2>2
  <2>4. SavedRun(runs[r], s) \in RunState
    BY <2>3, SavedValue
  <2>5. runs' = [runs EXCEPT ![r] = SavedRun(runs[r], s)]
    BY <2>2 DEF SavedRun
  <2>6. runs' \in [Run -> RunState] /\ OthersRun(r)
    BY <1>y, <2>4, <2>5
  <2>7. QED
    BY <1>5, <2>6 DEF RunExit
<1>6. ASSUME NEW err \in {"failed", "blocked"}, RunFails(r, err) PROVE Frame /\ UNCHANGED left
  <2>1. Leaves([runs[r] EXCEPT !.call = 0, !.step = "none", !.err = err], runs[r])
    BY DEF Leaves
  <2>2. QED
    BY <1>6, <1>z, <2>1 DEF RunFails
<1>7. CASE Ask(r)
  <2>1. Leaves([runs[r] EXCEPT !.call = 0, !.step = "none", !.pending = TRUE], runs[r])
    BY DEF Leaves
  <2>2. QED
    BY <1>7, <1>z, <2>1 DEF Ask
<1>8. ASSUME Execute(r) PROVE Frame /\ UNCHANGED left
  <2>1. "executing" \in Step
    BY DEF Step
  <2>2. [runs[r] EXCEPT !.step = "executing"] \in RunState
    BY <2>1, StepValue
  <2>3. QED
    BY <1>8, <1>y, <2>2 DEF Execute
<1>9. CASE RunSave(r)
  <2>1. [NoRun EXCEPT !.phase = "over"] \in RunState
    BY NewValues
  <2>2. QED
    BY <1>9, <1>y, <2>1 DEF RunSave
<1>10. ASSUME NEW h \in Hosts, NEW kind \in {"change", "read"}, NEW l \in BOOLEAN, ToolCall(r, h, kind, l)
       PROVE  Frame /\ UNCHANGED left
  <2>1. Len(calls) + 1 \in Call
    BY <1>10, SequenceTypes, NextCall DEF ToolCall
  <2>2. CalledRun(runs[r], Len(calls) + 1) \in RunState
    BY <2>1, CalledValue
  <2>3. QED
    BY <1>10, <1>y, <2>2 DEF ToolCall, CalledRun
<1>11. ASSUME NEW status \in RowStatus, ExecuteReturns(r, status) PROVE Frame /\ UNCHANGED left
  <2>1. Leaves(AfterResult(runs[r], status), runs[r])
    BY DEF Leaves
  <2>2. QED
    BY <1>11, <1>z, <2>1 DEF ExecuteReturns
<1>12. ASSUME NEW i \in Call, Verify(r, i) PROVE Frame /\ UNCHANGED left
  BY <1>12 DEF Verify
<1>13. ASSUME NEW step \in {"checked", "cleared"}, Advance(r, step) PROVE Frame /\ UNCHANGED left
  <2>1. step \in Step
    BY DEF Step
  <2>2. [runs[r] EXCEPT !.step = step] \in RunState
    BY <2>1, StepValue
  <2>3. QED
    BY <1>13, <1>y, <2>2 DEF Advance
<1>14. ASSUME Preempt(r) PROVE Frame
  <2>1. Leaves([runs[r] EXCEPT !.call = 0, !.step = "none"], runs[r])
    BY DEF Leaves
  <2>2. runs' \in [Run -> RunState] /\ OthersRun(r)
    BY <1>14, <1>z, <2>1 DEF Preempt
  <2>3. QED
    BY <1>14, <2>2 DEF Preempt
<1>15. QED
  BY <1>1, <1>2, <1>3, <1>4, <1>5, <1>6, <1>7, <1>8, <1>9, <1>10, <1>11, <1>12, <1>13, <1>14
     DEF Alone, RunKeepsLeft, GivesUp, Calls, Returns, Verifies

\* A call that is given up, and one that goes on after that.
Given(r) == [call |-> runs[r].call, grant |-> runs[r].grant, step |-> runs[r].step]
Moved(t, step) == [t EXCEPT !.step = step]

LEMMA LeftValues ==
    ASSUME NEW t \in Tool, NEW step \in Step
    PROVE  LET u == Moved(t, step)
           IN  u \in Tool /\ u.call = t.call /\ u.grant = t.grant /\ u.step = step
  BY DEF Tool, Moved

LEMMA LeftFrame ==
    ASSUME TypeOK, NEW t \in left, LeftStep(t)
    PROVE  /\ t \in Tool /\ process = "up"
           /\ UNCHANGED <<doc, calls, approvals, verified, runs, elsewhere>>
           /\ \/ left' = left \ {t}
              \/ \E step \in {"checked", "cleared"} :
                    /\ LeftAdvances(t, step) /\ left' = (left \ {t}) \cup {Moved(t, step)}
              \/ LeftExecutes(t) /\ left' = (left \ {t}) \cup {Moved(t, "executing")}
<1>1. t \in Tool
  BY DEF TypeOK
<1>2. QED
  BY <1>1 DEF LeftStep, LeftEnds, LeftAdvances, LeftExecutes, LeftReturns, documents, Moved, Up

LEMMA GiveUpFrame ==
    ASSUME TypeOK, NEW r \in Run, GivesUp(r)
    PROVE  /\ left' = left \/ (runs[r].call # 0 /\ left' = left \cup {Given(r)})
           /\ Quiet(runs'[r]) /\ runs[r].phase = "turn"
           /\ UNCHANGED <<documents, elsewhere>>
           /\ \/ runs'[r].phase = "turn" /\ Preempt(r)
              \/ runs'[r].phase = "save" /\ RunExit(r)
           /\ runs'[r].grant = runs[r].grant
<1> USE RunType DEF WithRun
<1>1. LeaveCall(r) => left' = left \/ (runs[r].call # 0 /\ left' = left \cup {Given(r)})
  BY DEF LeaveCall, Given
<1>2. CASE Preempt(r)
  <2>1. runs'[r] = [runs[r] EXCEPT !.call = 0, !.step = "none"]
    BY <1>2 DEF Preempt
  <2>2. Quiet(runs'[r]) /\ Same(runs'[r], runs[r])
    BY <2>1, LeavesValue DEF Leaves
  <2>3. QED
    BY <1>1, <1>2, <2>2 DEF Preempt, Same
<1>3. CASE RunExit(r)
  <2>1. FinalStatus(r) \in TaskStatus /\ "interrupted" \in TaskStatus
    BY FinalStatusType DEF TaskStatus
  <2>2. PICK s \in {FinalStatus(r)} \cup (IF InTurn(r) THEN {"interrupted"} ELSE {}) :
           runs' = [runs EXCEPT ![r] = [runs[r] EXCEPT !.phase = "save", !.status = s,
                                                       !.call = 0, !.step = "none"]]
    BY <1>3 DEF RunExit
  <2>3. s \in TaskStatus
    BY <2>1, <2>2
  <2>4. runs'[r] = SavedRun(runs[r], s)
    BY <2>2 DEF SavedRun
  <2>5. Quiet(runs'[r]) /\ runs'[r].phase = "save" /\ runs'[r].grant = runs[r].grant
    BY <2>3, <2>4, SavedValue
  <2>6. QED
    BY <1>1, <1>3, <2>5 DEF RunExit
<1>4. QED
  BY <1>2, <1>3 DEF GivesUp

\* What a step of a run does to it.
RunChange(r) ==
    /\ Running(r)' => Running(r) /\ runs'[r].grant = runs[r].grant
    /\ Running(r) => Running(r)' \/ active' = 0
    /\ runs'[r].phase = "save" => RunExit(r) \/ runs'[r] = runs[r]
    /\ \/ Quiet(runs'[r])
       \/ /\ runs'[r].phase = "turn" /\ runs'[r].step = "called"
          /\ runs'[r].call \in DOMAIN calls' \cap Call
       \/ runs'[r] = runs[r]
       \/ /\ runs'[r].phase = "turn" /\ runs'[r].call = runs[r].call /\ runs[r].call # 0
          /\ \/ \E step \in {"checked", "cleared"} :
                   Advance(r, step) /\ runs'[r].step = step
             \/ Execute(r) /\ runs'[r].step = "executing"

LEMMA RunChanges ==
    ASSUME TypeOK, NEW r \in Run, RunKeepsLeft(r) \/ GivesUp(r)
    PROVE  RunChange(r)
<1> USE RunType DEF WithRun
<1>a. ASSUME Leaves(runs'[r], runs[r]), runs[r].phase = "turn" PROVE RunChange(r)
  <2>1. Quiet(runs'[r]) /\ Same(runs'[r], runs[r])
    BY <1>a, LeavesValue
  <2>2. QED
    BY <1>a, <2>1 DEF RunChange, Running, Same
<1>1. ASSUME NEW n \in Call, Replay(r, n) PROVE RunChange(r)
  <2>1. n \in DOMAIN calls' /\ runs[r].phase = "turn"
        /\ runs'[r] = CalledRun(runs[r], n)
    BY <1>1 DEF Replay, InTurn, documents, CalledRun
  <2>2. runs'[r].step = "called" /\ runs'[r].call = n /\ Same(runs'[r], runs[r])
    BY <2>1, CalledValue
  <2>3. QED
    BY <2>1, <2>2 DEF Same, RunChange, Running
<1>2. ASSUME RefuseChange(r) \/ Feedback(r) \/ Ask(r)
      PROVE  RunChange(r)
  <2>1. \/ runs'[r] = [runs[r] EXCEPT !.call = 0, !.step = "none"]
        \/ runs'[r] = [runs[r] EXCEPT !.call = 0, !.step = "none", !.pending = TRUE]
        \/ runs'[r] = [runs[r] EXCEPT !.call = 0, !.step = "none", !.err = "failed"]
    BY <1>2 DEF RefuseChange, Feedback, Ask
  <2>2. Leaves(runs'[r], runs[r])
    BY <2>1 DEF Leaves
  <2>3. runs[r].phase = "turn"
    BY <1>2 DEF RefuseChange, Feedback, Ask, InTool
  <2>4. QED
    BY <1>a, <2>2, <2>3
<1>3. ASSUME NEW err \in {"failed", "blocked"}, RunFails(r, err) PROVE RunChange(r)
  <2>1. runs'[r] = [runs[r] EXCEPT !.call = 0, !.step = "none", !.err = err]
    BY <1>3 DEF RunFails
  <2>2. Leaves(runs'[r], runs[r])
    BY <2>1 DEF Leaves
  <2>3. runs[r].phase = "turn"
    BY <1>3 DEF RunFails, InTurn, InTool
  <2>4. QED
    BY <1>a, <2>2, <2>3
<1>4. CASE Recorded(r)
  <2>1. PICK i \in DOMAIN results : runs'[r] = AfterResult(runs[r], results[i].status)
    BY <1>4 DEF Recorded, RowOf
  <2>2. Leaves(runs'[r], runs[r])
    BY <2>1, RowType DEF Leaves
  <2>3. runs[r].phase = "turn"
    BY <1>4 DEF Recorded, InTool
  <2>4. QED
    BY <1>a, <2>2, <2>3
<1>5. CASE GivesUp(r)
  BY <1>5, GiveUpFrame DEF RunChange, Running
<1>6. CASE RunSave(r)
  <2>1. active' = 0 /\ runs'[r] = [NoRun EXCEPT !.phase = "over"]
    BY <1>6 DEF RunSave
  <2>2. QED
    BY <2>1, NewValues DEF RunChange, Running
<1>7. ASSUME NEW h \in Hosts, NEW kind \in {"change", "read"}, NEW l \in BOOLEAN, ToolCall(r, h, kind, l)
      PROVE  RunChange(r)
  <2>1. runs[r].phase = "turn" /\ runs'[r] = CalledRun(runs[r], Len(calls) + 1)
    BY <1>7 DEF ToolCall, InTurn, CalledRun
  <2>2. Len(calls) + 1 \in Call
    BY <1>7, SequenceTypes, NextCall DEF ToolCall
  <2>3. Len(calls) + 1 \in DOMAIN calls'
    BY <1>7, SequenceTypes DEF ToolCall
  <2>4. runs'[r].step = "called" /\ runs'[r].call = Len(calls) + 1 /\ Same(runs'[r], runs[r])
    BY <2>1, <2>2, CalledValue
  <2>5. QED
    BY <2>1, <2>2, <2>3, <2>4 DEF Same, RunChange, Running
<1>8. ASSUME NEW status \in RowStatus, ExecuteReturns(r, status) PROVE RunChange(r)
  <2>1. runs'[r] = AfterResult(runs[r], status)
    BY <1>8 DEF ExecuteReturns
  <2>2. Leaves(runs'[r], runs[r])
    BY <2>1 DEF Leaves
  <2>3. runs[r].phase = "turn"
    BY <1>8 DEF ExecuteReturns
  <2>4. QED
    BY <1>a, <2>2, <2>3
<1>9. ASSUME NEW i \in Call, Verify(r, i) PROVE RunChange(r)
  BY <1>9 DEF Verify, RunChange, Running
<1>10. ASSUME NEW step \in {"checked", "cleared"}, Advance(r, step) PROVE RunChange(r)
  <2>1. step \in Step
    BY DEF Step
  <2>2. runs[r].phase = "turn" /\ runs[r].call # 0 /\ runs'[r] = [runs[r] EXCEPT !.step = step]
    BY <1>10 DEF Advance, InTool
  <2>3. runs'[r].step = step /\ runs'[r].call = runs[r].call /\ Same(runs'[r], runs[r])
    BY <2>1, <2>2, StepValue
  <2>4. QED
    BY <1>10, <2>2, <2>3 DEF Same, RunChange, Running
<1>11. CASE Execute(r)
  <2>1. "executing" \in Step
    BY DEF Step
  <2>2. runs[r].phase = "turn" /\ runs[r].call # 0 /\ runs'[r] = [runs[r] EXCEPT !.step = "executing"]
    BY <1>11 DEF Execute, InTool
  <2>3. runs'[r].step = "executing" /\ runs'[r].call = runs[r].call /\ Same(runs'[r], runs[r])
    BY <2>1, <2>2, StepValue
  <2>4. QED
    BY <1>11, <2>2, <2>3 DEF Same, RunChange, Running
<1>12. QED
  BY <1>1, <1>2, <1>3, <1>4, <1>5, <1>6, <1>7, <1>8, <1>9, <1>10, <1>11
     DEF Alone, RunKeepsLeft, Calls, Returns, Verifies

\* Cancel, Stop and Close tell a run to stop, and nothing else.
SameButStopped ==
    /\ runs' \in [Run -> RunState] /\ left' = left
    /\ \A r \in Run : /\ runs'[r].phase = runs[r].phase /\ runs'[r].grant = runs[r].grant
                      /\ runs'[r].call = runs[r].call /\ runs'[r].step = runs[r].step
                      /\ runs'[r].status = runs[r].status

LEMMA StopFrame ==
    ASSUME TypeOK, IF active # 0 THEN StopRun(active) ELSE UNCHANGED runs, UNCHANGED left
    PROVE  SameButStopped
<1>1. CASE active = 0
  BY <1>1 DEF TypeOK, SameButStopped
<1>2. CASE active # 0
  <2>1. PICK s \in Run : s = active
    BY <1>2 DEF TypeOK
  <2>2. [runs[s] EXCEPT !.stopped = TRUE] \in RunState
    BY RunType, StoppedValue
  <2>3. runs' = [runs EXCEPT ![s] = [runs[s] EXCEPT !.stopped = TRUE]]
    BY <1>2, <2>1 DEF StopRun
  <2>4. runs' \in [Run -> RunState] /\ (\A r \in Run \ {s} : runs'[r] = runs[r])
        /\ runs'[s] = [runs[s] EXCEPT !.stopped = TRUE]
    BY <2>2, <2>3, RunType
  <2>5. /\ runs'[s].phase = runs[s].phase /\ runs'[s].grant = runs[s].grant
        /\ runs'[s].call = runs[s].call /\ runs'[s].step = runs[s].step
        /\ runs'[s].status = runs[s].status
    BY <2>4, RunType, StoppedValue DEF Same
  <2>6. QED
    BY <2>4, <2>5 DEF SameButStopped
<1>3. QED
  BY <1>1, <1>2

\* What the entry points store: a task with the grant of the loaded one, or, in
\* Resume, with a new one; Cancel's is no longer in force.
LEMMA StoresFrame ==
    ASSUME TypeOK, NEW c \in Callers, Stores(c)
    PROVE  /\ UNCHANGED <<calls, approvals, results, verified, service, world, consents>>
           /\ caller' \in [Callers -> Local] /\ OthersKeep(c) /\ caller'[c].entry = "none"
           /\ doc' \in Task /\ issued' \in Grant /\ issued <= issued' /\ process = "up"
           /\ \/ doc' = caller[c].task /\ caller[c].entry = "submit" /\ caller[c].pc = "put"
              \/ doc'.grant = issued' /\ issued < issued'
              \/ ~doc'.live
<1>1. /\ caller[c] \in Local /\ caller \in [Callers -> Local] /\ doc \in Task /\ caller[c].task \in Task
      /\ issued \in Grant
  BY DEF TypeOK, Local
<1> USE <1>1, Values DEF At, Up, Leave, ThenStart, OthersKeep
<1>2. [Idle EXCEPT !.pc = "start"] \in Local /\ [Idle EXCEPT !.pc = "start"].entry = "none"
      /\ Idle.entry = "none"
  BY DEF Idle, Local
<1>3. CASE SubmitPut(c)
  BY <1>2, <1>3 DEF SubmitPut
<1>4. CASE ResumePut(c)
  <2>1. issued' \in Grant /\ issued < issued'
    BY <1>4, BoundsAssumption DEF ResumePut, Grant
  <2>2. [caller[c].task EXCEPT !.grant = issued', !.live = TRUE] \in Task
    BY <2>1 DEF Task
  <2>3. doc'.grant = issued'
    BY <1>4 DEF ResumePut, Task
  <2>4. QED
    BY <1>2, <1>4, <2>1, <2>2, <2>3 DEF ResumePut
<1>5. CASE CancelPut(c)
  <2>1. /\ [caller[c].task EXCEPT !.status = "interrupted", !.live = FALSE] \in Task
        /\ ~[caller[c].task EXCEPT !.status = "interrupted", !.live = FALSE].live
    BY DEF Task, TaskStatus
  <2>2. QED
    BY <1>2, <1>5, <2>1 DEF CancelPut
<1>6. QED
  BY <1>3, <1>4, <1>5 DEF Stores

\* What is said of a run that has claimed a row, and of a call that was given up.
LEMMA ClaimValues ==
    ASSUME TypeOK, NEW n \in Call, NEW g \in Grant \cup {0}, NEW t, NEW late \in BOOLEAN,
           t.call = n, t.grant = g, Claim(t, late)
    PROVE  /\ results' \in Seq(Row)
           /\ DOMAIN results' = DOMAIN results \cup {Len(results) + 1} /\ Len(results) \in Nat
           /\ DOMAIN results = 1..Len(results)
           /\ \A i \in DOMAIN results : results'[i] = results[i]
           /\ LET row == results'[Len(results) + 1]
              IN  row.call = n /\ row.grant = g /\ row.late = late /\ row.status = "running"
           /\ \A i \in DOMAIN results : results[i].call # n
           /\ t.step = "cleared"
<1>1. g \in Grant
  BY NumberTypes DEF Claim, Authorized, Grant
<1> DEFINE row == [call |-> n, status |-> "running", grant |-> g, late |-> late]
<1>2. results' = Append(results, row) /\ RowOf(n) = {} /\ t.step = "cleared"
  BY DEF Claim
<1>3. row \in Row
  BY <1>1, RowValues
<1>4. row.call = n /\ row.grant = g /\ row.late = late /\ row.status = "running"
  OBVIOUS
<1> HIDE DEF row
<1>5. results' \in Seq(Row)
  BY <1>2, <1>3, SequenceTypes
<1>6. /\ DOMAIN results' = DOMAIN results \cup {Len(results) + 1} /\ Len(results) \in Nat
      /\ DOMAIN results = 1..Len(results)
      /\ \A i \in DOMAIN results : results'[i] = results[i]
      /\ results'[Len(results) + 1] = row
  BY <1>2, SequenceTypes
<1>7. \A i \in DOMAIN results : results[i].call # n
  BY <1>2 DEF RowOf
<1>8. QED
  BY <1>2, <1>4, <1>5, <1>6, <1>7

Claims(n, late) ==
    /\ results' \in Seq(Row)
    /\ DOMAIN results' = DOMAIN results \cup {Len(results) + 1} /\ Len(results) \in Nat
    /\ DOMAIN results = 1..Len(results)
    /\ \A i \in DOMAIN results : results'[i] = results[i]
    /\ LET row == results'[Len(results) + 1]
       IN  row.call = n /\ row.late = late /\ row.status = "running"
    /\ \A i \in DOMAIN results : results[i].call # n
    /\ UNCHANGED <<calls, consents>>

LEMMA ExecuteClaims ==
    ASSUME TypeOK, NEW r \in Run, Execute(r)
    PROVE  /\ Claims(runs[r].call, FALSE) /\ runs[r].call \in Call /\ runs[r].step = "cleared"
           /\ results'[Len(results) + 1].grant = runs[r].grant
           /\ runs[r].phase = "turn"
<1>1. runs[r].call \in Call /\ runs[r].grant \in Grant \cup {0} /\ runs[r].phase = "turn"
  BY RunType DEF Execute, InTool
<1>2. Claim(runs[r], FALSE) /\ UNCHANGED <<calls, consents>>
  BY DEF Execute, runEnv, elsewhere
<1>3. runs[r].step = "cleared" /\ results'[Len(results) + 1].grant = runs[r].grant
  BY <1>1, <1>2, ClaimValues
<1>4. Claims(runs[r].call, FALSE)
  BY <1>1, <1>2, ClaimValues DEF Claims
<1>5. QED
  BY <1>1, <1>3, <1>4

LEMMA LeftClaims ==
    ASSUME TypeOK, NEW t \in left, LeftExecutes(t)
    PROVE  /\ Claims(t.call, TRUE) /\ t.call \in Call /\ t.step = "cleared"
           /\ results'[Len(results) + 1].grant = t.grant
<1>1. t.call \in Call /\ t.grant \in Grant \cup {0}
  BY DEF TypeOK, Tool
<1>2. Claim(t, TRUE) /\ UNCHANGED <<calls, consents>>
  BY DEF LeftExecutes, elsewhere
<1>3. QED
  BY <1>1, <1>2, ClaimValues DEF Claims

\* How a step changes the executions: Execute adds one; its return and Recover
\* change the status of one, or of all that are running.
SameRows ==
    /\ DOMAIN results' = DOMAIN results
    /\ \A i \in DOMAIN results : /\ results'[i].call = results[i].call
                                 /\ results'[i].grant = results[i].grant
                                 /\ results'[i].late = results[i].late

\* The row of call n gets a verdict.
Returned(n) ==
    /\ SameRows /\ results' \in Seq(Row)
    /\ \E i \in DOMAIN results : /\ results[i].call = n
                                 /\ \A j \in DOMAIN results \ {i} : results'[j] = results[j]

LEMMA VerdictRow ==
    ASSUME TypeOK, NEW n \in Call, NEW status \in RowStatus, Verdict(n, status)
    PROVE  Returned(n)
<1>1. PICK i \in RowOf(n) : results' = [results EXCEPT ![i].status = status]
  BY DEF Verdict
<1> DEFINE row == [results[i] EXCEPT !.status = status]
<1>2. i \in DOMAIN results /\ results[i].call = n
  BY <1>1 DEF RowOf
<1>3. results[i] \in Row /\ row \in Row
  BY <1>2, RowType, RowValues
<1>4. row.call = results[i].call /\ row.grant = results[i].grant /\ row.late = results[i].late
  BY <1>3 DEF Row
<1>5. results' = [results EXCEPT ![i] = row]
  BY <1>1
<1> HIDE DEF row
<1>6. /\ DOMAIN results' = DOMAIN results /\ results'[i] = row
      /\ \A j \in DOMAIN results \ {i} : results'[j] = results[j]
      /\ results' \in Seq(Row)
  BY <1>2, <1>3, <1>5, SequenceTypes
<1>7. SameRows
  BY <1>2, <1>4, <1>6 DEF SameRows
<1>8. QED
  BY <1>2, <1>6, <1>7 DEF Returned

LEMMA RecoverRows ==
    ASSUME TypeOK, RecoverResults
    PROVE  /\ SameRows
           /\ \A i \in DOMAIN results : ~Unsettled(results[i]) => results'[i].status = results[i].status
<1>1. DOMAIN results' = DOMAIN results
  BY SequenceTypes DEF RecoverResults
<1>2. ASSUME NEW i \in DOMAIN results
      PROVE  /\ results'[i].call = results[i].call /\ results'[i].grant = results[i].grant
             /\ results'[i].late = results[i].late
             /\ ~Unsettled(results[i]) => results'[i].status = results[i].status
  <2>1. results'[i] = [results[i] EXCEPT !.status = IF @ = "running" THEN "unknown" ELSE @]
    BY DEF RecoverResults
  <2>2. results[i] \in Row
    BY RowType
  <2>3. QED
    BY <2>1, <2>2 DEF Row, Unsettled
<1>3. QED
  BY <1>1, <1>2 DEF SameRows

\* The types of what a step of a run stores.
LEMMA RunStoreTypes ==
    ASSUME TypeOK, CallsInv, RestartNeedsResume, NEW r \in Run
    PROVE  /\ Ask(r) => approvals' \in [Call -> Approval]
           /\ Execute(r) => results' \in Seq(Row)
           /\ RunSave(r) => doc' \in Task
           /\ Calls(r) => calls' \in Seq(ToolCalls)
           /\ Returns(r) => results' \in Seq(Row)
           /\ GivesUp(r) => left' \subseteq Tool
<1> USE RunType, SequenceTypes
<1>1. Ask(r) => approvals' \in [Call -> Approval]
  <2>1. approvals \in [Call -> Approval] /\ [state |-> "asked", grant |-> runs[r].grant] \in Approval
    BY DEF TypeOK, Approval
  <2>2. QED
    BY <2>1 DEF Ask
<1>2. Execute(r) => results' \in Seq(Row)
  BY ExecuteClaims DEF Claims
<1>3. ASSUME RunSave(r) PROVE doc' \in Task
  <2>2. runs[r].grant \in Grant
    BY <1>3, NumberTypes DEF RunSave, RestartNeedsResume
  <2>3. [status |-> runs[r].status, grant |-> runs[r].grant, live |-> TRUE] \in Task
    BY <2>2 DEF Task
  <2>4. QED
    BY <1>3, <2>3 DEF RunSave, TypeOK
<1>4. ASSUME NEW h \in Hosts, NEW kind \in {"change", "read"}, NEW l \in BOOLEAN, ToolCall(r, h, kind, l)
      PROVE  calls' \in Seq(ToolCalls)
  <2>1. [host |-> h, kind |-> kind, listed |-> l] \in ToolCalls
    BY DEF ToolCalls
  <2>2. QED
    BY <1>4, <2>1 DEF ToolCall
<1>5. ASSUME NEW status \in RowStatus, ExecuteReturns(r, status) PROVE results' \in Seq(Row)
  <2>1. runs[r].call \in Call
    BY <1>5 DEF ExecuteReturns, CallsInv
  <2>2. QED
    BY <1>5, <2>1, VerdictRow DEF ExecuteReturns, Returned
<1>6. ASSUME GivesUp(r) PROVE left' \subseteq Tool
  <2>1. left' = left \/ (runs[r].call # 0 /\ left' = left \cup {Given(r)})
    BY <1>6, GiveUpFrame
  <2>2. ASSUME runs[r].call # 0 PROVE Given(r) \in Tool
    <3>1. runs[r].step \in Step
      BY <2>2 DEF CallsInv
    <3>2. runs[r].grant \in Grant
      BY <1>6, GiveUpFrame, NumberTypes DEF RestartNeedsResume
    <3>3. QED
      BY <2>2, <3>1, <3>2 DEF Given, Tool
  <2>3. left \subseteq Tool
    BY DEF TypeOK
  <2>4. QED
    BY <2>1, <2>2, <2>3
<1>7. QED
  BY <1>1, <1>2, <1>3, <1>4, <1>5, <1>6 DEF Calls, Returns

-----------------------------------------------------------------------------
\* Every step keeps the types.
LEMMA TypeStep == ASSUME TypeOK, CallsInv, DecideInv, RestartNeedsResume, [Next]_vars PROVE TypeOK'
<1>a. TypeOK <=> /\ mode \in {"conversation", ""} /\ doc \in Task
                 /\ calls \in Seq(ToolCalls) /\ approvals \in [Call -> Approval]
                 /\ results \in Seq(Row) /\ verified \in [Hosts -> Call \cup {0}]
                 /\ runs \in [Run -> RunState] /\ left \subseteq Tool /\ active \in Run \cup {0}
                 /\ closed \in BOOLEAN
                 /\ quit \in [stage : {"open", "stopped", "waiting", "closed"}, run : Run \cup {0}]
                 /\ caller \in [Callers -> Local]
                 /\ issued \in Grant /\ expired \in Grant \cup {0}
                 /\ process \in {"up", "down", "recovering"} /\ crashes \in Nat
                 /\ oldGrant \in Grant \cup {0} /\ consents \subseteq Call \X Grant
  BY DEF TypeOK, Row, ToolCalls
<1>b. TypeOK' <=> /\ mode' \in {"conversation", ""} /\ doc' \in Task
                  /\ calls' \in Seq(ToolCalls) /\ approvals' \in [Call -> Approval]
                  /\ results' \in Seq(Row) /\ verified' \in [Hosts -> Call \cup {0}]
                  /\ runs' \in [Run -> RunState] /\ left' \subseteq Tool /\ active' \in Run \cup {0}
                  /\ closed' \in BOOLEAN
                  /\ quit' \in [stage : {"open", "stopped", "waiting", "closed"}, run : Run \cup {0}]
                  /\ caller' \in [Callers -> Local]
                  /\ issued' \in Grant /\ expired' \in Grant \cup {0}
                  /\ process' \in {"up", "down", "recovering"} /\ crashes' \in Nat
                  /\ oldGrant' \in Grant \cup {0} /\ consents' \subseteq Call \X Grant
  BY DEF TypeOK, Row, ToolCalls
<1>1. ASSUME NEW c \in Callers, Enters(c) PROVE TypeOK'
  BY <1>1, <1>a, <1>b, EntersFrame DEF documents, service, world
<1>2. ASSUME NEW c \in Callers, Stores(c) PROVE TypeOK'
  BY <1>2, <1>a, <1>b, StoresFrame DEF service, world
<1>3. ASSUME NEW c \in Callers, Cancel(c) PROVE TypeOK'
  <2>1. runs' \in [Run -> RunState]
    BY <1>3, StopFrame DEF Cancel, SameButStopped
  <2>2. caller' \in [Callers -> Local]
    <3>1. active = 0 => "cancel" \in Entries /\ caller[c] \in Local
      BY <1>3, <1>a DEF Cancel, Enter
    <3>2. active = 0 => [caller[c] EXCEPT !.entry = "cancel", !.pc = "load"] \in Local
      BY <3>1 DEF Local
    <3>3. QED
      BY <1>3, <1>a, <3>2 DEF Cancel
  <2>3. QED
    BY <1>3, <1>a, <1>b, <2>1, <2>2 DEF Cancel, documents, world
<1>4. ASSUME NEW c \in Callers, NEW accept \in BOOLEAN, DecidePut(c, accept) PROVE TypeOK'
  <2>1. caller[c] \in Local /\ caller[c].call \in Call \cup {0} /\ caller[c].approval.grant \in Grant \cup {0}
    BY <1>a DEF Local, Approval
  <2>2. [Idle EXCEPT !.pc = "start"] \in Local
    BY Values DEF Idle, Local
  <2>3. caller' \in [Callers -> Local]
    BY <1>4, <1>a, <2>2 DEF DecidePut, ThenStart
  <2>4. [state |-> IF accept THEN "accepted" ELSE "rejected", grant |-> caller[c].approval.grant] \in Approval
    BY <2>1 DEF Approval
  <2>5. approvals' \in [Call -> Approval]
    BY <1>4, <1>a, <2>4 DEF DecidePut
  <2>6. consents' \subseteq Call \X Grant
    <3>1. caller[c].call \in Call /\ caller[c].approval.grant \in Grant
      BY <1>4 DEF DecidePut, DecideInv, At
    <3>2. consents' \in {consents, consents \cup {<<caller[c].call, caller[c].approval.grant>>}}
      BY <1>4 DEF DecidePut
    <3>3. consents \subseteq Call \X Grant
      BY <1>a
    <3>4. QED
      BY <3>1, <3>2, <3>3
  <2>7. QED
    BY <1>4, <1>a, <1>b, <2>3, <2>5, <2>6 DEF DecidePut, service, world
<1>5. ASSUME NEW c \in Callers, NEW r \in Run, Start(c, r) PROVE TypeOK'
  <2>1. caller' \in [Callers -> Local]
    BY <1>5, <1>a, Values DEF Start, Leave
  <2>2. doc.grant \in Grant /\ [doc EXCEPT !.status = "running"] \in Task
    BY <1>a DEF Task, TaskStatus
  <2>3. [NoRun EXCEPT !.phase = "turn", !.grant = doc.grant] \in RunState
    BY <2>2, NewValues, Values
  <2>4. QED
    BY <1>5, <1>a, <1>b, <2>1, <2>2, <2>3 DEF Start, world
<1>6. ASSUME NEW r \in Run, RunKeepsLeft(r) \/ GivesUp(r) PROVE TypeOK'
  <2>1. runs' \in [Run -> RunState]
        /\ UNCHANGED <<mode, closed, quit, caller, issued, world, consents>>
        /\ (RunKeepsLeft(r) => UNCHANGED left)
    BY <1>6, RunFrame
  <2>2. ASSUME Alone(r) PROVE UNCHANGED <<documents, active>>
    BY <2>2 DEF Alone, Replay, Advance, RefuseChange, Feedback, Recorded, RunFails, runEnv, elsewhere
  <2>3. CASE Alone(r)
    BY <1>a, <1>b, <2>1, <2>2, <2>3 DEF documents, world, RunKeepsLeft
  <2>4. CASE Ask(r)
    BY <1>a, <1>b, <2>1, <2>4, RunStoreTypes DEF Ask, runEnv, elsewhere, world, RunKeepsLeft
  <2>5. CASE Execute(r)
    BY <1>a, <1>b, <2>1, <2>5, RunStoreTypes DEF Execute, runEnv, elsewhere, world, RunKeepsLeft
  <2>6. CASE RunSave(r)
    BY <1>a, <1>b, <2>1, <2>6, RunStoreTypes DEF RunSave, world, RunKeepsLeft
  <2>7. CASE GivesUp(r)
    BY <1>a, <1>b, <2>1, <2>7, RunStoreTypes, GiveUpFrame DEF documents, elsewhere, world
  <2>8. CASE Calls(r)
    <3>1. UNCHANGED <<doc, approvals, results, verified, active>>
      BY <2>8 DEF Calls, ToolCall, runEnv, elsewhere
    <3>2. QED
      BY <1>a, <1>b, <2>1, <2>8, <3>1, RunStoreTypes DEF world, RunKeepsLeft
  <2>9. CASE Returns(r)
    <3>1. UNCHANGED <<doc, calls, approvals, verified, active>>
      BY <2>9 DEF Returns, ExecuteReturns, runEnv, elsewhere
    <3>2. QED
      BY <1>a, <1>b, <2>1, <2>9, <3>1, RunStoreTypes DEF world, RunKeepsLeft
  <2>10. CASE Verifies(r)
    <3>1. PICK i \in Call : Verify(r, i)
      BY <2>10 DEF Verifies
    <3>2. QED
      BY <1>a, <1>b, <3>1, RowType DEF Verify, runEnv, elsewhere, world
  <2>11. QED
    BY <1>6, <2>3, <2>4, <2>5, <2>6, <2>7, <2>8, <2>9, <2>10 DEF RunKeepsLeft
<1>7. ASSUME NEW t \in left, LeftStep(t) PROVE TypeOK'
  <2>1. t \in Tool /\ UNCHANGED <<doc, calls, approvals, verified, runs, elsewhere>>
    BY <1>7, LeftFrame
  <2>2. left' \subseteq Tool
    <3>1. "executing" \in Step /\ "checked" \in Step /\ "cleared" \in Step
      BY DEF Step
    <3>2. \A step \in Step : Moved(t, step) \in Tool
      BY <2>1, LeftValues
    <3>3. left \subseteq Tool
      BY <1>a
    <3>4. \/ left' = left \ {t}
          \/ \E step \in {"checked", "cleared"} : left' = (left \ {t}) \cup {Moved(t, step)}
          \/ left' = (left \ {t}) \cup {Moved(t, "executing")}
      BY <1>7, LeftFrame
    <3>5. QED
      BY <3>1, <3>2, <3>3, <3>4
  <2>3. results' \in Seq(Row)
    <3>1. CASE LeftEnds(t) \/ \E step \in {"checked", "cleared"} : LeftAdvances(t, step)
      BY <1>a, <3>1 DEF LeftEnds, LeftAdvances, documents
    <3>2. CASE LeftExecutes(t)
      BY <3>2, LeftClaims DEF Claims
    <3>3. ASSUME NEW status \in RowStatus, LeftReturns(t, status) PROVE results' \in Seq(Row)
      <4>1. t.call \in Call
        BY <2>1 DEF Tool
      <4>2. QED
        BY <3>3, <4>1, VerdictRow DEF LeftReturns, Returned
    <3>4. QED
      BY <1>7, <3>1, <3>2, <3>3 DEF LeftStep
  <2>4. QED
    BY <1>a, <1>b, <2>1, <2>2, <2>3 DEF elsewhere, world
<1>10. CASE GrantExpires
  <2>1. expired' \in Grant \cup {0}
    BY <1>10, <1>a, NextGrant DEF GrantExpires
  <2>2. QED
    BY <1>10, <1>a, <1>b, <2>1 DEF GrantExpires, documents, service
<1>11. CASE Stop
  BY <1>11, <1>a, <1>b, StopFrame DEF Stop, SameButStopped, documents, world
<1>12. CASE Close
  BY <1>12, <1>a, <1>b, StopFrame DEF Close, SameButStopped, documents, world
<1>13. CASE CloseStore
  BY <1>13, <1>a, <1>b DEF CloseStore, documents, world
<1>14. CASE Crash
  <2>1. runs' \in [Run -> RunState]
    BY <1>14, NewValues, Values DEF Crash
  <2>2. /\ caller' \in [Callers -> Local]
        /\ quit' \in [stage : {"open", "stopped", "waiting", "closed"}, run : Run \cup {0}]
    BY <1>14, Values DEF Crash
  <2>3. QED
    <3>1. crashes' = crashes + 1 /\ oldGrant' = issued
      BY <1>14 DEF Crash
    <3>2. crashes \in Nat /\ issued \in Grant
      BY <1>a
    <3>3. crashes' \in Nat /\ oldGrant' \in Grant \cup {0}
      BY <3>1, <3>2
    <3>4. QED
      BY <1>14, <1>a, <1>b, <2>1, <2>2, <3>3 DEF Crash, documents
<1>15. CASE RecoverResults
  <2> DEFINE row(i) == [results[i] EXCEPT !.status = IF @ = "running" THEN "unknown" ELSE @]
  <2>1. \A i \in DOMAIN results : row(i) \in Row
    BY RowType, RowValues
  <2>2. results' = [i \in DOMAIN results |-> row(i)]
    BY <1>15 DEF RecoverResults
  <2> HIDE DEF row
  <2>3. results' \in Seq(Row)
    <3>1. DOMAIN results = 1..Len(results) /\ Len(results) \in Nat
      BY SequenceTypes
    <3>2. QED
      BY <2>1, <2>2, <3>1
  <2>4. QED
    BY <1>15, <1>a, <1>b, <2>3 DEF RecoverResults, service
<1>16. CASE RecoverTask
  <2>1. doc' \in Task
    BY <1>16, <1>a DEF RecoverTask, Task, TaskStatus
  <2>2. QED
    BY <1>16, <1>a, <1>b, <2>1 DEF RecoverTask, service
<1>17. CASE UNCHANGED vars
  BY <1>17, <1>a, <1>b DEF vars, documents, service, world
<1>18. QED
  BY Cases, <1>1, <1>2, <1>3, <1>4, <1>5, <1>6, <1>7, <1>10, <1>11, <1>12, <1>13,
     <1>14, <1>15, <1>16, <1>17

-----------------------------------------------------------------------------
\* What the other steps do to the runs.
LEMMA StartChange ==
    ASSUME TypeOK, NEW c \in Callers, NEW r \in Run, Start(c, r)
    PROVE  /\ runs'[r].phase = "turn" /\ runs'[r].grant = doc.grant
           /\ Quiet(runs'[r]) /\ OthersRun(r)
           /\ active = 0 /\ active' = r /\ ~closed /\ process = "up" /\ InForce(doc)
           /\ caller'[c] = Idle /\ OthersKeep(c)
           /\ UNCHANGED <<calls, approvals, results, verified, left, closed, quit, world, issued, consents>>
<1>1. doc.grant \in Grant /\ runs \in [Run -> RunState] /\ caller \in [Callers -> Local]
  BY DEF TypeOK, Task
<1>2. runs'[r] = [NoRun EXCEPT !.phase = "turn", !.grant = doc.grant] /\ OthersRun(r)
  BY <1>1 DEF Start, OthersRun
<1>3. runs'[r].phase = "turn" /\ runs'[r].grant = doc.grant /\ Quiet(runs'[r])
  BY <1>1, <1>2, NewValues
<1>4. QED
  BY <1>1, <1>2, <1>3 DEF Start, Leave, OthersKeep, Up

LEMMA CrashChange ==
    ASSUME TypeOK, Crash
    PROVE  /\ \A r \in Run : Quiet(runs'[r]) /\ runs'[r].phase \in {"none", "over"}
           /\ \A c \in Callers : caller'[c] = Idle
           /\ left' = {}
  BY DEF Crash, NoRun, Quiet

LEMMA CallsGrow ==
    ASSUME TypeOK, DecideInv, [Next]_vars
    PROVE  DOMAIN calls \subseteq DOMAIN calls' /\ \A n \in DOMAIN calls : calls'[n] = calls[n]
<1>1. ASSUME NEW r \in Run, Calls(r)
      PROVE  DOMAIN calls \subseteq DOMAIN calls' /\ \A n \in DOMAIN calls : calls'[n] = calls[n]
  <2>1. PICK h \in Hosts, kind \in {"change", "read"}, l \in BOOLEAN :
           calls' = Append(calls, [host |-> h, kind |-> kind, listed |-> l])
    BY <1>1 DEF Calls, ToolCall
  <2>2. QED
    BY <2>1, SequenceTypes
<1>2. ASSUME NEW r \in Run, RunKeepsLeft(r) \/ GivesUp(r), ~Calls(r) PROVE UNCHANGED calls
  BY <1>2 DEF RunKeepsLeft, GivesUp, Alone, Replay, Advance, RefuseChange, Feedback, Recorded, RunExit, Preempt,
              RunFails, Ask, Execute, RunSave, Returns, ExecuteReturns, Verifies, Verify, documents
<1>3. ASSUME NEW c \in Callers, Enters(c) \/ Stores(c) PROVE UNCHANGED calls
  BY <1>3, EntersFrame, StoresFrame DEF documents
<1>4. ASSUME NEW t \in left, LeftStep(t) PROVE UNCHANGED calls
  BY <1>4, LeftFrame
<1>5. QED
  BY <1>1, <1>2, <1>3, <1>4, Cases
     DEF Cancel, DecidePut, Start, GrantExpires, Stop, Close, CloseStore, Crash, RecoverResults, RecoverTask,
         documents, vars

\* Who is in executeTool is the active run.
LEMMA InCall ==
    ASSUME CallsInv, ActiveInv, NEW r \in Run, runs[r].step # "none"
    PROVE  active = r /\ process = "up" /\ runs[r].call # 0 /\ runs[r].phase = "turn"
  BY DEF CallsInv, ActiveInv, Running

\* Besides the two steps that claim a row, executions keep what they are about,
\* and what is known stays known: a verdict goes to the row that is running.
Settling ==
    /\ SameRows
    /\ \A i \in DOMAIN results : ~Unsettled(results[i]) => results'[i].status = results[i].status

LEMMA RowCases ==
    ASSUME TypeOK, CallsInv, DecideInv, WaitInv, [Next]_vars
    PROVE  \/ \E r \in Run : Execute(r)
           \/ \E t \in left : LeftExecutes(t)
           \/ Settling
<1>v. ASSUME NEW n \in Call, HasRow(n), Returned(n) PROVE Settling
  BY <1>v DEF WaitInv, HasRow, Returned, Settling, Unsettled
<1>u. UNCHANGED results => Settling
  BY DEF Settling, SameRows
<1>1. ASSUME NEW r \in Run, Returns(r) PROVE Settling
  <2>1. PICK status \in RowStatus : ExecuteReturns(r, status)
    BY <1>1 DEF Returns
  <2>2. runs[r].call \in Call /\ HasRow(runs[r].call) /\ Verdict(runs[r].call, status)
    BY <2>1, RunType, Values DEF ExecuteReturns, CallsInv, WaitInv, Waiting
  <2>3. QED
    BY <1>v, <2>2, VerdictRow
<1>2. ASSUME NEW t \in left, NEW status \in RowStatus, LeftReturns(t, status) PROVE Settling
  <2>1. t.call \in Call /\ HasRow(t.call) /\ Verdict(t.call, status)
    BY <1>2 DEF LeftReturns, WaitInv, TypeOK, Tool
  <2>2. QED
    BY <1>v, <2>1, VerdictRow
<1>3. ASSUME NEW r \in Run, RunKeepsLeft(r) \/ GivesUp(r), ~Execute(r), ~Returns(r) PROVE UNCHANGED results
  BY <1>3 DEF RunKeepsLeft, GivesUp, Alone, Replay, Advance, RefuseChange, Feedback, Recorded, RunExit, Preempt,
              RunFails, Ask, RunSave, Calls, ToolCall, Verifies, Verify, documents
<1>4. ASSUME NEW t \in left, LeftStep(t), ~LeftExecutes(t),
             ~\E status \in RowStatus : LeftReturns(t, status)
      PROVE  UNCHANGED results
  BY <1>4 DEF LeftStep, LeftEnds, LeftAdvances, documents
<1>5. ASSUME NEW c \in Callers, Enters(c) \/ Stores(c) PROVE UNCHANGED results
  BY <1>5, EntersFrame, StoresFrame DEF documents
<1>6. RecoverResults => Settling
  BY RecoverRows DEF Settling
<1>7. QED
  BY <1>u, <1>1, <1>2, <1>3, <1>4, <1>5, <1>6, Cases
     DEF Cancel, DecidePut, Start, GrantExpires, Stop, Close, CloseStore, Crash, RecoverTask, documents, vars

\* How a step changes the runs.
LEMMA RunCases ==
    ASSUME TypeOK, DecideInv, [Next]_vars
    PROVE  \/ UNCHANGED runs
           \/ SameButStopped
           \/ \E r \in Run : RunChange(r) /\ OthersRun(r)
           \/ \E c \in Callers, r \in Run : Start(c, r)
           \/ Crash
<1>1. ASSUME NEW c \in Callers, Enters(c) \/ Stores(c) PROVE UNCHANGED runs
  BY <1>1, EntersFrame, StoresFrame DEF service
<1>2. ASSUME NEW c \in Callers, Cancel(c) PROVE SameButStopped
  BY <1>2, StopFrame DEF Cancel
<1>3. ASSUME Stop \/ Close PROVE SameButStopped
  BY <1>3, StopFrame DEF Stop, Close
<1>4. ASSUME NEW t \in left, LeftStep(t) PROVE UNCHANGED runs
  BY <1>4, LeftFrame
<1>5. ASSUME NEW r \in Run, RunKeepsLeft(r) \/ GivesUp(r) PROVE RunChange(r) /\ OthersRun(r)
  BY <1>5, RunChanges, RunFrame
<1>6. QED
  BY Cases, <1>1, <1>2, <1>3, <1>4, <1>5
     DEF DecidePut, GrantExpires, CloseStore, RecoverResults, RecoverTask, service, vars

\* How a step changes the calls that were given up.
LEMMA LeftCases ==
    ASSUME TypeOK, DecideInv, [Next]_vars
    PROVE  \/ left' \subseteq left
           \/ \E r \in Run : GivesUp(r) /\ runs[r].call # 0 /\ left' = left \cup {Given(r)}
           \/ \E t \in left, step \in {"checked", "cleared"} :
                 LeftAdvances(t, step) /\ left' = (left \ {t}) \cup {Moved(t, step)}
           \/ \E t \in left : LeftExecutes(t) /\ left' = (left \ {t}) \cup {Moved(t, "executing")}
<1>1. ASSUME NEW c \in Callers, Enters(c) \/ Stores(c) PROVE UNCHANGED left
  BY <1>1, EntersFrame, StoresFrame DEF service
<1>2. ASSUME NEW r \in Run, RunKeepsLeft(r) PROVE UNCHANGED left
  BY <1>2, RunFrame
<1>3. ASSUME NEW r \in Run, GivesUp(r)
      PROVE  left' \subseteq left \/ (runs[r].call # 0 /\ left' = left \cup {Given(r)})
  BY <1>3, GiveUpFrame
<1>4. ASSUME NEW t \in left, LeftStep(t)
      PROVE  \/ left' \subseteq left
             \/ \E step \in {"checked", "cleared"} :
                   LeftAdvances(t, step) /\ left' = (left \ {t}) \cup {Moved(t, step)}
             \/ LeftExecutes(t) /\ left' = (left \ {t}) \cup {Moved(t, "executing")}
  BY <1>4, LeftFrame
<1>5. QED
  BY Cases, <1>1, <1>2, <1>3, <1>4
     DEF Cancel, DecidePut, Start, GrantExpires, Stop, Close, CloseStore, Crash, RecoverResults, RecoverTask,
         service, vars

-----------------------------------------------------------------------------
\* Every step keeps the parts of the invariant.
LEMMA CallsStep ==
    ASSUME TypeOK, DecideInv, CallsInv, WaitInv, [Next]_vars
    PROVE  CallsInv'
<1> DEFINE Fits(x) == /\ x.call \in DOMAIN calls' \cup {0}
                      /\ x.call = 0 <=> x.step = "none"
                      /\ x.call # 0 => x.phase = "turn"
<1>1. ASSUME NEW q \in Run PROVE Fits(runs'[q])
  <2>1. Fits(runs[q])
    BY CallsGrow DEF CallsInv
  <2>2. ASSUME NEW r \in Run, RunChange(r), OthersRun(r) PROVE Fits(runs'[q])
    <3>1. CASE Quiet(runs'[r])
      BY <2>1, <2>2, <3>1 DEF OthersRun, Quiet
    <3>2. CASE /\ runs'[r].phase = "turn" /\ runs'[r].step = "called"
               /\ runs'[r].call \in DOMAIN calls' \cap Call
      BY <2>1, <2>2, <3>2, Values DEF OthersRun
    <3>3. CASE runs'[r] = runs[r]
      BY <2>1, <2>2, <3>3 DEF OthersRun
    <3>4. CASE /\ runs'[r].phase = "turn" /\ runs'[r].call = runs[r].call /\ runs[r].call # 0
               /\ runs'[r].step \in {"checked", "cleared", "executing"}
      <4>1. runs[r].call \in DOMAIN calls'
        BY <3>4, CallsGrow DEF CallsInv
      <4>2. QED
        BY <2>1, <2>2, <3>4, <4>1 DEF OthersRun
    <3>5. QED
      BY <2>2, <3>1, <3>2, <3>3, <3>4 DEF RunChange
  <2>3. ASSUME NEW c \in Callers, NEW r \in Run, Start(c, r) PROVE Fits(runs'[q])
    BY <2>1, <2>3, StartChange DEF OthersRun, Quiet
  <2>4. CASE Crash
    BY <2>4, CrashChange DEF Quiet
  <2>5. QED
    BY <2>1, <2>2, <2>3, <2>4, RunCases DEF SameButStopped
<1>2. ASSUME NEW i \in DOMAIN results' PROVE results'[i].call \in DOMAIN calls'
  <2>1. i \in DOMAIN results => results[i].call \in DOMAIN calls'
    BY CallsGrow DEF CallsInv
  <2>2. ASSUME NEW r \in Run, Execute(r) PROVE results'[i].call \in DOMAIN calls'
    <3>1. runs[r].call \in DOMAIN calls'
      BY <2>2, ExecuteClaims, CallsGrow, Values DEF CallsInv
    <3>2. Claims(runs[r].call, FALSE)
      BY <2>2, ExecuteClaims
    <3>3. QED
      BY <2>1, <3>1, <3>2 DEF Claims
  <2>3. ASSUME NEW t \in left, LeftExecutes(t) PROVE results'[i].call \in DOMAIN calls'
    <3>1. t.call \in DOMAIN calls'
      BY CallsGrow DEF CallsInv
    <3>2. Claims(t.call, TRUE)
      BY <2>3, LeftClaims
    <3>3. QED
      BY <2>1, <3>1, <3>2 DEF Claims
  <2>4. QED
    BY <2>1, <2>2, <2>3, RowCases DEF Settling, SameRows
<1>3. ASSUME NEW t \in left' PROVE t.call \in DOMAIN calls'
  <2>1. \A u \in left : u.call \in DOMAIN calls'
    BY CallsGrow DEF CallsInv
  <2>2. \A u \in left, step \in Step : Moved(u, step).call = u.call
    BY LeftValues DEF TypeOK
  <2>3. \A r \in Run : runs[r].call # 0 => Given(r).call \in DOMAIN calls'
    BY CallsGrow DEF CallsInv, Given
  <2>4. "checked" \in Step /\ "cleared" \in Step /\ "executing" \in Step
    BY DEF Step
  <2>5. QED
    BY <2>1, <2>2, <2>3, <2>4, LeftCases
<1>4. QED
  BY <1>1, <1>2, <1>3 DEF CallsInv

LEMMA ActiveStep ==
    ASSUME TypeOK, DecideInv, CallsInv, ActiveInv, [Next]_vars
    PROVE  ActiveInv'
<1> USE DEF ActiveInv
<1>r. active \in Run \cup {0} /\ 0 \notin Run
  BY Values DEF TypeOK
<1>1. ASSUME NEW c \in Callers, Enters(c) \/ Stores(c) PROVE ActiveInv'
  BY <1>1, EntersFrame, StoresFrame DEF service, world, Running
<1>2. ASSUME NEW c \in Callers, Cancel(c) PROVE ActiveInv'
  <2>1. SameButStopped /\ UNCHANGED <<active, closed, quit, world>> /\ process = "up"
    BY <1>2, StopFrame DEF Cancel, Enter, Up
  <2>2. QED
    BY <1>r, <2>1 DEF SameButStopped, Running, world
<1>3. ASSUME NEW c \in Callers, NEW accept \in BOOLEAN, DecidePut(c, accept) PROVE ActiveInv'
  BY <1>3 DEF DecidePut, At, Up, service, world, Running
<1>4. ASSUME NEW c \in Callers, NEW r \in Run, Start(c, r) PROVE ActiveInv'
  BY <1>r, <1>4, StartChange DEF OthersRun, Running, world, Quiet
<1>5. ASSUME NEW r \in Run, RunChange(r), OthersRun(r), process = "up",
             active' = active \/ (active' = 0 /\ RunSave(r)),
             UNCHANGED <<mode, closed, quit, caller, issued, world, consents>>
      PROVE  ActiveInv'
  <2>1. Running(r)' => Running(r)
    BY <1>5 DEF RunChange
  <2>2. Running(r) => Running(r)' \/ active' = 0
    BY <1>5 DEF RunChange
  <2>3. RunSave(r) => ~Running(r)'
    BY RunType, NewValues DEF RunSave, WithRun, Running
  <2>4. active' = 0 => \A q \in Run : ~Running(q)'
    BY <1>5, <1>r, <2>1, <2>3 DEF OthersRun, Running, RunSave
  <2>5. QED
    BY <1>5, <1>r, <2>1, <2>2, <2>4 DEF OthersRun, Running, world
<1>6. ASSUME NEW r \in Run, RunKeepsLeft(r) \/ GivesUp(r) PROVE ActiveInv'
  <2>1. active' = active \/ (active' = 0 /\ RunSave(r))
    BY <1>6 DEF RunKeepsLeft, GivesUp, Alone, Replay, Advance, RefuseChange, Feedback, Recorded, RunExit, Preempt,
                RunFails, Ask, Execute, RunSave, Calls, ToolCall, Returns, ExecuteReturns, Verifies, Verify,
                runEnv, elsewhere
  <2>2. QED
    BY <1>5, <1>6, <2>1, RunChanges, RunFrame
<1>7. CASE Stop \/ Close
  <2>1. SameButStopped /\ UNCHANGED <<active, world, caller>> /\ process = "up"
    BY <1>7, StopFrame DEF Stop, Close
  <2>2. CASE Stop
    <3>1. closed' /\ quit'.stage = "stopped"
      BY <2>2 DEF Stop
    <3>2. QED
      BY <1>r, <2>1, <3>1 DEF SameButStopped, Running, world
  <2>3. CASE Close
    <3>1. closed' = closed /\ quit.stage = "stopped" /\ quit'.stage = "waiting" /\ quit'.run = active
      BY <2>3 DEF Close
    <3>2. QED
      BY <1>r, <2>1, <3>1 DEF SameButStopped, Running, world
  <2>4. QED
    BY <1>7, <2>2, <2>3
<1>8. CASE CloseStore
  <2>1. /\ quit.stage = "waiting" /\ quit'.stage = "closed" /\ process = "up"
        /\ quit.run # 0 => runs[quit.run].phase = "over"
        /\ UNCHANGED <<runs, active, closed, world, caller>>
    BY <1>8 DEF CloseStore
  <2>2. active = 0
    BY <1>r, <2>1 DEF Running
  <2>3. QED
    BY <1>r, <2>1, <2>2 DEF Running, world
<1>9. CASE Crash
  BY <1>9, CrashChange DEF Crash, Quiet, Running
<1>10. ASSUME NEW t \in left, LeftStep(t) PROVE ActiveInv'
  <2>1. process = "up" /\ UNCHANGED <<runs, elsewhere>>
    BY <1>10, LeftFrame
  <2>2. QED
    BY <2>1 DEF elsewhere, world, Running
<1>11. CASE GrantExpires \/ RecoverResults \/ RecoverTask \/ UNCHANGED vars
  BY <1>11 DEF GrantExpires, RecoverResults, RecoverTask, vars, service, world, Running
<1>12. QED
  BY Cases, <1>1, <1>2, <1>3, <1>4, <1>6, <1>7, <1>8, <1>9, <1>10, <1>11

\* WaitInv after a step that makes nobody wait who did not.
WaitKept ==
    /\ \A i, j \in DOMAIN results' : results'[i].call = results'[j].call => i = j
    /\ \A r \in Run : Waiting(r)' => Waiting(r) /\ runs'[r].call = runs[r].call /\ HasRow(runs[r].call)'
    /\ \A t \in left' : t.step = "executing" =>
          /\ HasRow(t.call)'
          /\ t \in left \/ \E r \in Run : Waiting(r) /\ ~Waiting(r)' /\ t.call = runs[r].call /\ t = Given(r)

LEMMA WaitKeptStep == ASSUME WaitInv, WaitKept PROVE WaitInv'
<1>1. \A r \in Run : Waiting(r)' => HasRow(runs[r].call)'
  BY DEF WaitKept
<1>2. \A i, j \in DOMAIN results' : results'[i].call = results'[j].call => i = j
  BY DEF WaitKept
<1>3. \A q, r \in Run : Waiting(q)' /\ Waiting(r)' /\ runs'[q].call = runs'[r].call => q = r
  BY DEF WaitKept, WaitInv
<1>4. ASSUME NEW r \in Run, NEW t \in left', Waiting(r)', t.step = "executing" PROVE t.call # runs'[r].call
  BY <1>4 DEF WaitKept, WaitInv
<1>5. ASSUME NEW t \in left', NEW u \in left', t.step = "executing", u.step = "executing", t.call = u.call
      PROVE  t = u
  BY <1>5 DEF WaitKept, WaitInv
<1>6. QED
  BY <1>1, <1>2, <1>3, <1>4, <1>5 DEF WaitKept, WaitInv, Waiting

RowNow(m) == \E i \in DOMAIN results' : results'[i].call = m /\ results'[i].status = "running"

\* The rows once a row was claimed.
LEMMA ClaimedRows ==
    ASSUME WaitInv, NEW n, NEW late, Claims(n, late)
    PROVE  /\ \A i, j \in DOMAIN results' : results'[i].call = results'[j].call => i = j
           /\ \A m : HasRow(m) => HasRow(m)' /\ m # n
           /\ HasRow(n)'
BY DEF WaitInv, Claims, HasRow

\* The rows once a row got its verdict.
LEMMA ReturnedRows ==
    ASSUME WaitInv, NEW n, HasRow(n), Returned(n)
    PROVE  /\ \A i, j \in DOMAIN results' : results'[i].call = results'[j].call => i = j
           /\ \A m : HasRow(m) /\ m # n => HasRow(m)'
  BY DEF WaitInv, Returned, SameRows, HasRow

LEMMA WaitStep ==
    ASSUME TypeOK, DecideInv, CallsInv, ActiveInv, WaitInv, [Next]_vars
    PROVE  WaitInv'
<1>u. \A i, j \in DOMAIN results : results[i].call = results[j].call => i = j
  BY DEF WaitInv
<1>1. ASSUME UNCHANGED <<runs, results>>, left' \subseteq left PROVE WaitInv'
  BY <1>1 DEF WaitInv, Waiting, HasRow
<1>2. ASSUME NEW c \in Callers, Enters(c) \/ Stores(c) PROVE WaitInv'
  BY <1>1, <1>2, EntersFrame, StoresFrame DEF service, documents
<1>3. ASSUME SameButStopped, UNCHANGED results PROVE WaitInv'
  BY <1>3 DEF SameButStopped, WaitInv, Waiting, HasRow
<1>4. ASSUME NEW c \in Callers, Cancel(c) PROVE WaitInv'
  BY <1>3, <1>4, StopFrame DEF Cancel, documents
<1>5. CASE Stop \/ Close
  BY <1>3, <1>5, StopFrame DEF Stop, Close, documents
<1>6. ASSUME NEW c \in Callers, NEW r \in Run, Start(c, r) PROVE WaitInv'
  BY <1>6, StartChange DEF Quiet, OthersRun, WaitInv, Waiting, HasRow
<1>7. CASE Crash
  BY <1>7, CrashChange DEF Quiet, WaitInv, Waiting, Crash, documents
<1>8. CASE RecoverResults
  <2>1. \A r \in Run : ~Waiting(r)
    BY <1>8, InCall DEF RecoverResults, Waiting
  <2>2. left' = {} /\ runs' = runs
    BY <1>8 DEF ActiveInv, RecoverResults, service
  <2>3. \A i, j \in DOMAIN results' : results'[i].call = results'[j].call => i = j
    BY <1>8, <1>u, RecoverRows DEF SameRows
  <2>4. QED
    BY <2>1, <2>2, <2>3 DEF WaitInv, Waiting
<1>9. ASSUME NEW r \in Run, Execute(r) PROVE WaitInv'
  <2> DEFINE n == runs[r].call
  <2>1. /\ Claims(n, FALSE) /\ n \in Call /\ left' = left /\ OthersRun(r)
        /\ runs'[r].step = "executing" /\ runs'[r].call = n
    <3>1. runs'[r] = [runs[r] EXCEPT !.step = "executing"] /\ "executing" \in Step
      BY <1>9, RunType DEF Execute, WithRun, Step
    <3>2. runs'[r].step = "executing" /\ runs'[r].call = n
      BY <3>1, RunType, StepValue
    <3>3. Claims(n, FALSE) /\ n \in Call
      BY <1>9, ExecuteClaims
    <3>4. RunKeepsLeft(r)
      BY <1>9 DEF RunKeepsLeft
    <3>5. left' = left /\ OthersRun(r)
      BY <3>4, RunFrame
    <3>6. QED
      BY <3>2, <3>3, <3>5
  <2>2. /\ \A i, j \in DOMAIN results' : results'[i].call = results'[j].call => i = j
        /\ HasRow(n)'
        /\ \A m : HasRow(m) => m # n /\ RowNow(m)
    <3>1. HasRow(n)' /\ \A m : HasRow(m) => HasRow(m)' /\ m # n
      BY <2>1, ClaimedRows
    <3>2. \A m : HasRow(m)' => RowNow(m)
      BY DEF HasRow, RowNow
    <3>3. QED
      BY <2>1, <3>1, <3>2, ClaimedRows
  <2>3. \A q \in Run \ {r} : Waiting(q)' => Waiting(q) /\ runs'[q].call = runs[q].call
    BY <2>1 DEF OthersRun, Waiting
  <2>4. \A q \in Run \ {r} : Waiting(q)' => runs'[q].call # n
    BY <2>2, <2>3 DEF WaitInv
  <2>5. \A q \in Run : Waiting(q)' => HasRow(runs[q].call)'
    <3>1. ASSUME NEW q \in Run \ {r}, Waiting(q)' PROVE HasRow(runs[q].call)'
      <4>1. HasRow(runs[q].call) /\ runs'[q].call = runs[q].call
        BY <2>3, <3>1 DEF WaitInv
      <4>2. RowNow(runs'[q].call)
        BY <2>2, <4>1
      <4>3. QED
        BY <4>2 DEF HasRow, RowNow
    <3>2. HasRow(runs[r].call)'
      BY <2>1, <2>2 DEF HasRow
    <3>3. QED
      BY <3>1, <3>2
  <2>6. \A t \in left : t.step = "executing" => t.call # n /\ HasRow(t.call)'
    BY <2>2 DEF WaitInv, HasRow, RowNow
  <2>7. \A p, q \in Run : Waiting(p)' /\ Waiting(q)' /\ runs'[p].call = runs'[q].call => p = q
    BY <2>1, <2>3, <2>4 DEF WaitInv
  <2>8. \A q \in Run, t \in left : Waiting(q)' /\ t.step = "executing" => t.call # runs'[q].call
    BY <2>1, <2>3, <2>6 DEF WaitInv
  <2>9. QED
    BY <2>1, <2>2, <2>5, <2>6, <2>7, <2>8 DEF WaitInv, Waiting
<1>10. ASSUME NEW r \in Run, Returns(r) PROVE WaitInv'
  <2> DEFINE n == runs[r].call
  <2>1. PICK status \in RowStatus : ExecuteReturns(r, status)
    BY <1>10 DEF Returns
  <2>2. Waiting(r) /\ n \in Call /\ HasRow(n) /\ Verdict(n, status) /\ runs'[r] = AfterResult(runs[r], status)
    BY <2>1, RunType, Values DEF ExecuteReturns, CallsInv, WaitInv, Waiting, WithRun
  <2>3. Returned(n) /\ OthersRun(r) /\ left' = left /\ runs'[r].step = "none"
    <3>1. Returned(n)
      BY <2>2, VerdictRow
    <3>2. RunKeepsLeft(r)
      BY <1>10 DEF RunKeepsLeft
    <3>3. Leaves(runs'[r], runs[r])
      BY <2>2 DEF Leaves
    <3>4. runs'[r].step = "none"
      BY <3>3, RunType, LeavesValue DEF Quiet
    <3>5. QED
      BY <3>1, <3>2, <3>4, RunFrame
  <2>4. WaitKept
    <3>1. \A m : HasRow(m) /\ m # n => RowNow(m)
      BY <2>2, <2>3, ReturnedRows DEF HasRow, RowNow
    <3>2. \A q \in Run : Waiting(q)' => q # r /\ Waiting(q) /\ runs'[q] = runs[q] /\ runs[q].call # n
      BY <2>2, <2>3 DEF OthersRun, Waiting, WaitInv
    <3>3. \A q \in Run : Waiting(q)' => HasRow(runs[q].call)'
      BY <3>1, <3>2 DEF WaitInv, HasRow, RowNow
    <3>4. \A t \in left : t.step = "executing" => HasRow(t.call)'
      BY <2>2, <3>1 DEF WaitInv, HasRow, RowNow
    <3>5. QED
      BY <2>2, <2>3, <3>2, <3>3, <3>4, ReturnedRows DEF WaitKept
  <2>5. QED
    BY <2>4, WaitKeptStep
<1>11. ASSUME NEW r \in Run, RunKeepsLeft(r), ~Execute(r), ~Returns(r) PROVE WaitInv'
  <2>1. UNCHANGED <<results, left>> /\ RunChange(r) /\ OthersRun(r)
    BY <1>11, RunFrame, RunChanges
       DEF RunKeepsLeft, Alone, Replay, Advance, RefuseChange, Feedback, Recorded,
           RunFails, Ask, RunSave, Calls, ToolCall, Verifies, Verify, documents
  <2>2. \A q \in Run : Waiting(q)' => Waiting(q) /\ runs'[q].call = runs[q].call
    BY <1>11, <2>1 DEF RunChange, OthersRun, Waiting, Quiet
  <2>3. QED
    BY <2>1, <2>2 DEF WaitInv, Waiting, HasRow
<1>12. ASSUME NEW r \in Run, GivesUp(r) PROVE WaitInv'
  <2>1. /\ UNCHANGED results /\ OthersRun(r) /\ runs'[r].step = "none"
        /\ left' = left \/ left' = left \cup {Given(r)}
    BY <1>12, GiveUpFrame, RunFrame DEF documents, Quiet
  <2>2. \A q \in Run : Waiting(q)' => Waiting(q) /\ runs'[q].call = runs[q].call
    BY <2>1 DEF OthersRun, Waiting
  <2>3. Given(r).call = runs[r].call /\ Given(r).step = "executing" => Waiting(r)
    BY DEF Given, Waiting
  <2>4. ~Waiting(r)' /\ Given(r).call = runs[r].call
    BY <2>1 DEF Waiting, Given
  <2>5. WaitKept
    <3>1. \A q \in Run : Waiting(q)' => HasRow(runs[q].call)'
      BY <2>1, <2>2 DEF WaitInv, HasRow
    <3>2. \A t \in left' : t.step = "executing" => HasRow(t.call)'
      BY <2>1, <2>3, <2>4 DEF WaitInv, HasRow
    <3>3. QED
      BY <1>u, <2>1, <2>2, <2>3, <2>4, <3>1, <3>2 DEF WaitKept
  <2>6. QED
    BY <2>5, WaitKeptStep
<1>13. ASSUME NEW t \in left, LeftStep(t) PROVE WaitInv'
  <2>0. UNCHANGED runs /\ t \in Tool
    BY <1>13, LeftFrame
  <2>1. CASE LeftEnds(t)
    BY <1>1, <2>0, <2>1 DEF LeftEnds, documents
  <2>2. ASSUME NEW step \in {"checked", "cleared"}, LeftAdvances(t, step) PROVE WaitInv'
    <3>1. UNCHANGED results /\ left' = (left \ {t}) \cup {Moved(t, step)}
      BY <2>2 DEF LeftAdvances, documents, Moved
    <3>2. Moved(t, step).step # "executing"
      BY <2>0, LeftValues DEF Step
    <3>3. \A u \in left' : u.step = "executing" => u \in left
      BY <3>1, <3>2
    <3>4. QED
      BY <2>0, <3>1, <3>3 DEF WaitInv, Waiting, HasRow
  <2>3. CASE LeftExecutes(t)
    <3> DEFINE n == t.call
               u == Moved(t, "executing")
    <3>1. /\ Claims(n, TRUE) /\ left' = (left \ {t}) \cup {u}
          /\ u.step = "executing" /\ u.call = n
      BY <2>0, <2>3, LeftClaims, LeftValues DEF LeftExecutes, Moved, Step
    <3> HIDE DEF u
    <3>2. /\ \A i, j \in DOMAIN results' : results'[i].call = results'[j].call => i = j
          /\ HasRow(n)'
          /\ \A m : HasRow(m) => m # n /\ RowNow(m)
      <4>1. HasRow(n)' /\ \A m : HasRow(m) => HasRow(m)' /\ m # n
        BY <3>1, ClaimedRows
      <4>2. \A m : HasRow(m)' => RowNow(m)
        BY DEF HasRow, RowNow
      <4>3. QED
        BY <3>1, <4>1, <4>2, ClaimedRows
    <3>3. ASSUME NEW q \in Run, Waiting(q)' PROVE Waiting(q) /\ runs'[q].call # n /\ HasRow(runs[q].call)'
      <4>1. Waiting(q) /\ runs'[q].call = runs[q].call
        BY <2>0, <3>3 DEF Waiting
      <4>2. HasRow(runs[q].call)
        BY <4>1 DEF WaitInv
      <4>3. runs'[q].call # n /\ RowNow(runs'[q].call)
        BY <3>2, <4>1, <4>2
      <4>4. QED
        BY <4>1, <4>3 DEF HasRow, RowNow
    <3>4. \A v \in left' : v.step = "executing" => v = u \/ (v \in left /\ v.call # n)
      BY <3>1, <3>2 DEF WaitInv
    <3>5. \A v \in left' : v.step = "executing" => HasRow(v.call)'
      BY <3>1, <3>2, <3>4 DEF WaitInv, HasRow, RowNow
    <3>6. \A q \in Run, v \in left' : Waiting(q)' /\ v.step = "executing" => v.call # runs'[q].call
      BY <2>0, <3>1, <3>3, <3>4 DEF WaitInv
    <3>7. \A v, w \in left' : v.step = "executing" /\ w.step = "executing" /\ v.call = w.call => v = w
      BY <3>1, <3>4 DEF WaitInv
    <3>8. \A p, q \in Run : Waiting(p)' /\ Waiting(q)' /\ runs'[p].call = runs'[q].call => p = q
      BY <2>0, <3>3 DEF WaitInv
    <3>9. QED
      BY <3>2, <3>3, <3>5, <3>6, <3>7, <3>8 DEF WaitInv, Waiting
  <2>4. ASSUME NEW status \in RowStatus, LeftReturns(t, status) PROVE WaitInv'
    <3> DEFINE n == t.call
    <3>1. /\ left' = left \ {t} /\ n \in Call /\ t.step = "executing" /\ HasRow(n) /\ Verdict(n, status)
      BY <2>0, <2>4 DEF LeftReturns, WaitInv, Tool
    <3>2. Returned(n)
      BY <3>1, VerdictRow
    <3>3. \A m : HasRow(m) /\ m # n => RowNow(m)
      BY <3>1, <3>2, ReturnedRows DEF HasRow, RowNow
    <3>4. \A q \in Run : Waiting(q)' => Waiting(q) /\ runs'[q].call = runs[q].call /\ HasRow(runs[q].call)'
      BY <2>0, <3>1, <3>3 DEF WaitInv, Waiting, HasRow, RowNow
    <3>5. \A v \in left' : v.step = "executing" => v \in left /\ HasRow(v.call)'
      BY <3>1, <3>3 DEF WaitInv, HasRow, RowNow
    <3>6. WaitKept
      BY <3>1, <3>2, <3>4, <3>5, ReturnedRows DEF WaitKept
    <3>7. QED
      BY <3>6, WaitKeptStep
  <2>5. QED
    BY <1>13, <2>1, <2>2, <2>3, <2>4 DEF LeftStep
<1>14. QED
  BY Cases, <1>1, <1>2, <1>4, <1>5, <1>6, <1>7, <1>8, <1>9, <1>10, <1>11, <1>12, <1>13
     DEF DecidePut, GrantExpires, CloseStore, RecoverTask, service, documents, vars

\* Who is past a check has in doubt before it only what calls given up have left.
LEMMA CheckedStep ==
    ASSUME TypeOK, DecideInv, CallsInv, ActiveInv, WaitInv, CheckedInv, [Next]_vars
    PROVE  CheckedInv'
<1> SUFFICES ASSUME NEW q \in Run, runs'[q].step \in {"checked", "cleared"},
                    calls'[runs'[q].call].kind = "change",
                    NEW i \in DOMAIN results', Unsettled(results'[i])
             PROVE  results'[i].late
  BY DEF CheckedInv, KindOf
<1>1. /\ runs[q].step # "none" /\ runs[q].call # 0 /\ active = q
      /\ runs[q].step # "executing" /\ runs'[q].call = runs[q].call
      /\ \/ runs'[q].step = runs[q].step
         \/ Advance(q, "checked")
         \/ Advance(q, "cleared")
  <2>1. ASSUME NEW r \in Run, RunChange(r), OthersRun(r), q = r
        PROVE  /\ runs[q].step \notin {"none", "executing"} /\ runs'[q].call = runs[q].call
               /\ \/ runs'[q].step = runs[q].step
                  \/ Advance(q, "checked")
                  \/ Advance(q, "cleared")
    <3>1. CASE runs'[q] = runs[q]
      BY <3>1
    <3>2. ASSUME NEW step \in {"checked", "cleared"}, Advance(q, step), runs'[q].call = runs[q].call
          PROVE  /\ runs[q].step \notin {"none", "executing"}
                 /\ Advance(q, "checked") \/ Advance(q, "cleared")
      BY <3>2 DEF Advance, InTool, CallsInv
    <3>3. QED
      BY <2>1, <3>1, <3>2 DEF RunChange, Quiet
  <2>2. ASSUME NEW r \in Run, RunChange(r), OthersRun(r), q # r PROVE runs'[q] = runs[q]
    BY <2>2 DEF OthersRun
  <2>3. ASSUME NEW c \in Callers, NEW r \in Run, Start(c, r) PROVE runs'[q] = runs[q]
    BY <2>3, StartChange DEF Quiet, OthersRun
  <2>4. ~Crash
    BY CrashChange DEF Quiet
  <2>5. /\ runs[q].step \notin {"none", "executing"} /\ runs'[q].call = runs[q].call
        /\ \/ runs'[q].step = runs[q].step
           \/ Advance(q, "checked")
           \/ Advance(q, "cleared")
    BY RunCases, <2>1, <2>2, <2>3, <2>4 DEF SameButStopped
  <2>6. QED
    BY <2>5, InCall
<1>2. calls[runs[q].call].kind = "change"
  BY <1>1, CallsGrow DEF CallsInv
<1>3. CASE Advance(q, "checked") \/ Advance(q, "cleared")
  <2>1. UNCHANGED results
    BY <1>3 DEF Advance, documents
  <2>2. (ToCheck(runs[q]) /\ Settled) \/ runs[q].step = "checked"
    BY <1>2, <1>3 DEF Advance, Passes, ToEvaluate, KindOf
  <2>3. QED
    BY <1>2, <2>1, <2>2 DEF Settled, CheckedInv, KindOf
<1>4. CASE runs'[q].step = runs[q].step
  <2>1. \A j \in DOMAIN results : Unsettled(results[j]) => results[j].late
    BY <1>2, <1>4 DEF CheckedInv, KindOf
  <2>2. ASSUME NEW r \in Run, Execute(r) PROVE FALSE
    <3>1. active = r /\ runs[r].step = "cleared"
      BY <2>2, ExecuteClaims, InCall
    <3>2. runs'[r].step = "executing"
      <4>1. runs'[r] = [runs[r] EXCEPT !.step = "executing"] /\ "executing" \in Step
        BY <2>2, RunType DEF Execute, WithRun, Step
      <4>2. QED
        BY <4>1, RunType, StepValue
    <3>3. QED
      BY <1>1, <3>1, <3>2
  <2>3. ASSUME NEW t \in left, LeftExecutes(t) PROVE results'[i].late
    BY <2>1, <2>3, LeftClaims DEF Claims
  <2>4. CASE Settling
    BY <2>1, <2>4 DEF Settling, SameRows, Unsettled
  <2>5. QED
    BY <2>2, <2>3, <2>4, RowCases
<1>5. QED
  BY <1>1, <1>3, <1>4

LEMMA CallerCases ==
    ASSUME TypeOK, DecideInv, [Next]_vars
    PROVE  \/ UNCHANGED caller
           \/ \A c \in Callers : caller'[c] = Idle
           \/ \E c \in Callers : OthersKeep(c) /\ caller'[c].entry \notin {"submit", "decide"}
           \/ \E c \in Callers : Enters(c)
<1>c. caller \in [Callers -> Local] /\ Idle.entry = "none" /\ [Idle EXCEPT !.pc = "start"].entry = "none"
  BY DEF TypeOK, Idle
<1>1. ASSUME NEW c \in Callers, Cancel(c)
      PROVE  UNCHANGED caller \/ (OthersKeep(c) /\ caller'[c].entry = "cancel")
  <2>1. \/ UNCHANGED caller
        \/ caller' = [caller EXCEPT ![c].entry = "cancel", ![c].pc = "load"]
    BY <1>1 DEF Cancel
  <2>2. QED
    BY <1>c, <2>1 DEF OthersKeep, Local
<1>2. ASSUME NEW c \in Callers, NEW accept \in BOOLEAN, DecidePut(c, accept)
      PROVE  OthersKeep(c) /\ caller'[c].entry = "none"
  BY <1>c, <1>2 DEF DecidePut, ThenStart, OthersKeep
<1>3. QED
  BY Cases, <1>c, <1>1, <1>2, RunFrame, LeftFrame, StoresFrame, StartChange, CrashChange
     DEF elsewhere, GrantExpires, Stop, Close, CloseStore, RecoverResults, RecoverTask, vars

LEMMA DecideStep == ASSUME TypeOK, DecideInv, [Next]_vars PROVE DecideInv'
<1>1. Idle.entry = "none"
  BY DEF Idle
<1>2. ASSUME NEW c \in Callers, Enters(c) PROVE DecideInv'
  BY <1>2, EntersFrame DEF DecideInv, OthersKeep
<1>3. QED
  BY CallerCases, <1>1, <1>2 DEF DecideInv, OthersKeep

\* Consent is not withdrawn, and what a call is does not change.
LEMMA ConsentsGrow == ASSUME TypeOK, DecideInv, [Next]_vars PROVE consents \subseteq consents'
<1>1. ASSUME NEW c \in Callers, NEW accept \in BOOLEAN, DecidePut(c, accept) PROVE consents \subseteq consents'
  BY <1>1 DEF DecidePut
<1>2. ASSUME NEW c \in Callers, Enters(c) \/ Stores(c) PROVE UNCHANGED consents
  BY <1>2, EntersFrame, StoresFrame
<1>3. QED
  BY Cases, <1>1, <1>2, RunFrame, LeftFrame
     DEF elsewhere, Cancel, Start, GrantExpires, Stop, Close, CloseStore, Crash, RecoverResults, RecoverTask, vars

\* What was granted to a call is still granted, however the call is recorded.
LEMMA StillGranted ==
    ASSUME TypeOK, DecideInv, [Next]_vars, NEW t, NEW u, Granted(t), t.call \in DOMAIN calls,
           u.call = t.call, u.grant = t.grant
    PROVE  calls'[u.call].listed \/ <<u.call, u.grant>> \in consents'
  BY CallsGrow, ConsentsGrow DEF Granted

\* What Evaluate and its approval let pass was granted.
LEMMA PassesGranted ==
    ASSUME ConsentInv, NEW t, Passes(t, "cleared"), t.call \in Call PROVE Granted(t)
<1>1. Approved(t)
  BY DEF Passes
<1>2. CASE Decision(t) = "accepted"
  <2>1. approvals[t.call].grant = t.grant /\ approvals[t.call].state = "accepted"
    BY <1>2 DEF Decision
  <2>2. QED
    BY <2>1 DEF ConsentInv, Granted
<1>3. QED
  BY <1>1, <1>2 DEF Approved, Granted

LEMMA ConsentStep ==
    ASSUME TypeOK, DecideInv, CallsInv, ActiveInv, ConsentInv, [Next]_vars
    PROVE  ConsentInv'
<1>1. \A n \in Call : approvals'[n].state = "accepted" => <<n, approvals'[n].grant>> \in consents'
  <2> DEFINE Goal == \A n \in Call : approvals'[n].state = "accepted" => <<n, approvals'[n].grant>> \in consents'
  <2>t. approvals \in [Call -> Approval]
    BY DEF TypeOK
  <2>1. ASSUME NEW c \in Callers, NEW accept \in BOOLEAN, DecidePut(c, accept) PROVE Goal
    BY <2>1, <2>t DEF DecidePut, ConsentInv
  <2>2. ASSUME NEW r \in Run, Ask(r) PROVE Goal
    BY <2>2, <2>t DEF Ask, ConsentInv, runEnv, elsewhere
  <2>3. ASSUME UNCHANGED <<approvals, consents>> PROVE Goal
    BY <2>3 DEF ConsentInv
  <2>4. ASSUME NEW c \in Callers, Enters(c) \/ Stores(c) \/ Cancel(c)
        PROVE  UNCHANGED <<approvals, consents>>
    BY <2>4, EntersFrame, StoresFrame DEF Cancel, documents
  <2>5. ASSUME NEW r \in Run, RunKeepsLeft(r) \/ GivesUp(r), ~Ask(r) PROVE UNCHANGED <<approvals, consents>>
    BY <2>5, RunFrame
       DEF RunKeepsLeft, GivesUp, Alone, Replay, Advance, RefuseChange, Feedback, Recorded, RunExit, Preempt,
           RunFails, Execute, RunSave, Calls, ToolCall, Returns, ExecuteReturns, Verifies, Verify, documents
  <2>6. ASSUME NEW t \in left, LeftStep(t) PROVE UNCHANGED <<approvals, consents>>
    BY <2>6, LeftFrame DEF elsewhere
  <2>7. QED
    BY Cases, <2>1, <2>2, <2>3, <2>4, <2>5, <2>6
       DEF Start, GrantExpires, Stop, Close, CloseStore, Crash, RecoverResults, RecoverTask, documents, vars
<1>2. ASSUME NEW q \in Run, runs'[q].step = "cleared"
      PROVE  calls'[runs'[q].call].listed \/ <<runs'[q].call, runs'[q].grant>> \in consents'
  <2>1. ASSUME NEW r \in Run, RunChange(r), OthersRun(r), q = r
        PROVE  /\ runs'[q].call = runs[q].call /\ runs'[q].grant = runs[q].grant /\ runs[q].call # 0
               /\ Granted(runs[q])
    <3>1. runs'[q].call = runs[q].call /\ (runs'[q] = runs[q] \/ Advance(q, "cleared"))
      BY <1>2, <2>1 DEF RunChange, Quiet
    <3>2. runs[q].step # "none" /\ runs[q].call # 0
      BY <1>2, <3>1 DEF CallsInv, Advance, InTool
    <3>3. runs'[q].grant = runs[q].grant
      <4>1. CASE runs'[q] = runs[q]
        BY <4>1
      <4>2. CASE Advance(q, "cleared")
        <5>1. runs'[q] = [runs[q] EXCEPT !.step = "cleared"] /\ "cleared" \in Step
          BY <4>2, RunType DEF Advance, WithRun, Step
        <5>2. QED
          BY <5>1, RunType, StepValue DEF Same
      <4>3. QED
        BY <3>1, <4>1, <4>2
    <3>4. Granted(runs[q])
      <4>1. CASE runs'[q] = runs[q]
        BY <1>2, <4>1 DEF ConsentInv
      <4>2. CASE Advance(q, "cleared")
        BY <3>2, <4>2, RunType, PassesGranted DEF Advance
      <4>3. QED
        BY <3>1, <4>1, <4>2
    <3>5. QED
      BY <3>1, <3>2, <3>3, <3>4
  <2>2. ASSUME runs'[q].step = runs[q].step, runs'[q].call = runs[q].call, runs'[q].grant = runs[q].grant
        PROVE  runs[q].call # 0 /\ Granted(runs[q])
    BY <1>2, <2>2 DEF ConsentInv, CallsInv
  <2>3. ASSUME NEW c \in Callers, NEW r \in Run, Start(c, r) PROVE runs'[q] = runs[q]
    BY <1>2, <2>3, StartChange DEF Quiet, OthersRun
  <2>4. ~Crash
    BY <1>2, CrashChange DEF Quiet
  <2>5. /\ runs'[q].call = runs[q].call /\ runs'[q].grant = runs[q].grant /\ runs[q].call # 0
        /\ Granted(runs[q])
    BY RunCases, <2>1, <2>2, <2>3, <2>4 DEF SameButStopped, OthersRun
  <2>6. runs[q].call \in DOMAIN calls
    BY <2>5 DEF CallsInv
  <2>7. PICK u : u.call = runs'[q].call /\ u.grant = runs'[q].grant
    OBVIOUS
  <2>8. QED
    BY <2>5, <2>6, <2>7, StillGranted
<1>3. ASSUME NEW u \in left', u.step = "cleared"
      PROVE  calls'[u.call].listed \/ <<u.call, u.grant>> \in consents'
  <2>1. ASSUME u \in left PROVE calls'[u.call].listed \/ <<u.call, u.grant>> \in consents'
    BY <1>3, <2>1, StillGranted DEF ConsentInv, CallsInv
  <2>2. ASSUME NEW r \in Run, runs[r].call # 0, u = Given(r)
        PROVE  calls'[u.call].listed \/ <<u.call, u.grant>> \in consents'
    <3>1. u.call = runs[r].call /\ u.grant = runs[r].grant /\ u.step = runs[r].step
      BY <2>2 DEF Given
    <3>2. Granted(runs[r]) /\ runs[r].call \in DOMAIN calls
      BY <1>3, <2>2, <3>1 DEF ConsentInv, CallsInv
    <3>3. QED
      BY <3>1, <3>2, StillGranted
  <2>3. ASSUME NEW t \in left, NEW step \in {"checked", "cleared"}, LeftAdvances(t, step), u = Moved(t, step)
        PROVE  calls'[u.call].listed \/ <<u.call, u.grant>> \in consents'
    <3>1. t \in Tool /\ step \in Step
      BY DEF TypeOK, Step
    <3>2. u.call = t.call /\ u.grant = t.grant /\ u.step = step
      BY <2>3, <3>1, LeftValues
    <3>3. Granted(t) /\ t.call \in DOMAIN calls
      BY <1>3, <2>3, <3>1, <3>2, PassesGranted DEF LeftAdvances, Tool, CallsInv
    <3>4. QED
      BY <3>2, <3>3, StillGranted
  <2>4. ASSUME NEW t \in left PROVE Moved(t, "executing").step # "cleared"
    BY LeftValues DEF TypeOK, Step
  <2>5. QED
    BY <1>3, <2>1, <2>2, <2>3, <2>4, LeftCases
<1>4. QED
  BY <1>1, <1>2, <1>3 DEF ConsentInv, Granted

LEMMA NoChangeStep ==
    ASSUME TypeOK, DecideInv, CallsInv, WaitInv, CheckedInv, NoChangeWhileUnknown, [Next]_vars
    PROVE  NoChangeWhileUnknown'
<1> DEFINE Change(n) == calls[n].kind = "change"
<1>k. \A n \in DOMAIN calls : (calls'[n].kind = "change") <=> Change(n)
  BY CallsGrow
<1>d. \A i \in DOMAIN results : results[i].call \in DOMAIN calls
  BY DEF CallsInv
<1>o. \A i, j \in DOMAIN results : i < j /\ Change(results[j].call) /\ Unsettled(results[i])
                                      => results[i].late \/ results[j].late
  BY DEF NoChangeWhileUnknown, KindOf
<1>g. NoChangeWhileUnknown' <=>
        \A i, j \in DOMAIN results' :
           i < j /\ calls'[results'[j].call].kind = "change" /\ Unsettled(results'[i])
              => results'[i].late \/ results'[j].late
  BY DEF NoChangeWhileUnknown, KindOf, Unsettled
<1>c. ASSUME NEW n \in Call, NEW late \in BOOLEAN, Claims(n, late),
             Change(n) => late \/ \A i \in DOMAIN results : Unsettled(results[i]) => results[i].late
      PROVE  NoChangeWhileUnknown'
  <2>1. ASSUME NEW i \in DOMAIN results', NEW j \in DOMAIN results',
               i < j, calls'[results'[j].call].kind = "change", Unsettled(results'[i])
        PROVE  results'[i].late \/ results'[j].late
    <3>1. i \in DOMAIN results /\ results'[i] = results[i] /\ calls' = calls
      <4>1. i # Len(results) + 1
        BY <1>c, <2>1 DEF Claims
      <4>2. QED
        BY <1>c, <4>1 DEF Claims
    <3>2. CASE j \in DOMAIN results
      BY <1>c, <1>d, <1>k, <1>o, <2>1, <3>1, <3>2 DEF Claims
    <3>3. CASE j = Len(results) + 1
      BY <1>c, <2>1, <3>1, <3>3 DEF Claims
    <3>4. QED
      BY <1>c, <3>2, <3>3 DEF Claims
  <2>2. QED
    BY <1>g, <2>1
<1>1. ASSUME NEW r \in Run, Execute(r) PROVE NoChangeWhileUnknown'
  <2>1. Claims(runs[r].call, FALSE) /\ runs[r].call \in Call /\ runs[r].step = "cleared"
    BY <1>1, ExecuteClaims
  <2>2. QED
    BY <1>c, <2>1 DEF CheckedInv, KindOf
<1>2. ASSUME NEW t \in left, LeftExecutes(t) PROVE NoChangeWhileUnknown'
  BY <1>c, <1>2, LeftClaims
<1>3. CASE Settling
  <2>1. \A i \in DOMAIN results : Change(results'[i].call) <=> Change(results[i].call)
    BY <1>3 DEF Settling, SameRows
  <2> HIDE DEF Change
  <2>2. QED
    BY <1>3, <1>d, <1>g, <1>k, <1>o DEF Settling, SameRows, Unsettled
<1>4. QED
  BY RowCases, <1>1, <1>2, <1>3

LEMMA ExecutionsStep ==
    ASSUME TypeOK, DecideInv, CallsInv, WaitInv, WaitInv', ConsentInv, ExecutionsHaveConsent, [Next]_vars
    PROVE  ExecutionsHaveConsent'
<1>1. \A i \in DOMAIN results' : RowOf(results[i].call)' = {i}
  BY DEF WaitInv, RowOf
<1>2. ASSUME NEW i \in DOMAIN results'
      PROVE  calls'[results'[i].call].listed \/ <<results'[i].call, results'[i].grant>> \in consents'
  <2>1. ASSUME i \in DOMAIN results, results'[i].call = results[i].call, results'[i].grant = results[i].grant
        PROVE  calls'[results'[i].call].listed \/ <<results'[i].call, results'[i].grant>> \in consents'
    <3>1. results[i].call \in DOMAIN calls /\ Granted(results[i])
      BY <2>1 DEF CallsInv, ExecutionsHaveConsent, Granted
    <3>2. PICK row : row = results'[i]
      OBVIOUS
    <3>3. QED
      BY <2>1, <3>1, <3>2, StillGranted
  <2>2. ASSUME NEW n \in Call, NEW late, NEW t, Claims(n, late), t.call = n, t.grant = results'[Len(results) + 1].grant,
               Granted(t), n \in DOMAIN calls
        PROVE  calls'[results'[i].call].listed \/ <<results'[i].call, results'[i].grant>> \in consents'
    <3>1. CASE i \in DOMAIN results
      BY <2>1, <2>2, <3>1 DEF Claims
    <3>2. CASE i = Len(results) + 1
      <4>1. results'[i].call = n /\ results'[i].grant = t.grant
        BY <2>2, <3>2 DEF Claims
      <4>2. PICK row : row = results'[i]
        OBVIOUS
      <4>3. QED
        BY <2>2, <4>1, <4>2, StillGranted
    <3>3. QED
      BY <2>2, <3>1, <3>2 DEF Claims
  <2>3. ASSUME NEW r \in Run, Execute(r)
        PROVE  calls'[results'[i].call].listed \/ <<results'[i].call, results'[i].grant>> \in consents'
    <3>1. /\ Claims(runs[r].call, FALSE) /\ runs[r].call \in Call /\ runs[r].step = "cleared"
          /\ runs[r].grant = results'[Len(results) + 1].grant
      BY <2>3, ExecuteClaims
    <3>2. Granted(runs[r]) /\ runs[r].call \in DOMAIN calls
      BY <3>1, Values DEF ConsentInv, CallsInv
    <3>3. QED
      BY <2>2, <3>1, <3>2
  <2>4. ASSUME NEW t \in left, LeftExecutes(t)
        PROVE  calls'[results'[i].call].listed \/ <<results'[i].call, results'[i].grant>> \in consents'
    <3>1. /\ Claims(t.call, TRUE) /\ t.call \in Call /\ t.step = "cleared"
          /\ t.grant = results'[Len(results) + 1].grant
      BY <2>4, LeftClaims
    <3>2. Granted(t) /\ t.call \in DOMAIN calls
      BY <3>1 DEF ConsentInv, CallsInv
    <3>3. QED
      BY <2>2, <3>1, <3>2
  <2>5. QED
    BY RowCases, <2>1, <2>3, <2>4 DEF Settling, SameRows
<1>3. QED
  BY <1>1, <1>2 DEF ExecutionsHaveConsent

LEMMA OldGrantKept == ASSUME TypeOK, DecideInv, [Next]_vars PROVE Crash \/ UNCHANGED oldGrant
<1>1. ASSUME NEW c \in Callers, Enters(c) \/ Stores(c) PROVE UNCHANGED oldGrant
  BY <1>1, EntersFrame, StoresFrame DEF world
<1>2. QED
  BY Cases, <1>1, RunFrame, LeftFrame
     DEF elsewhere, Cancel, DecidePut, Start, GrantExpires, Stop, Close, CloseStore, RecoverResults, RecoverTask, world, vars

LEMMA RestartStep ==
    ASSUME TypeOK, DecideInv, CallsInv, GrantInv, RestartNeedsResume, [Next]_vars
    PROVE  RestartNeedsResume'
<1>1. ASSUME NEW q \in Run, Running(q)' PROVE runs'[q].grant > oldGrant'
  <2>a. Running(q) => runs[q].grant > oldGrant
    BY DEF RestartNeedsResume, Running
  <2>1. ASSUME NEW c \in Callers, NEW r \in Run, Start(c, r) PROVE runs'[q].grant > oldGrant'
    BY <1>1, <2>1, <2>a, StartChange DEF GrantInv, InForce, OthersRun, Running, world
  <2>2. ~Crash
    BY <1>1, CrashChange DEF Running
  <2>3. ASSUME NEW r \in Run, RunChange(r), OthersRun(r), UNCHANGED oldGrant
        PROVE  runs'[q].grant > oldGrant'
    BY <1>1, <2>3, <2>a DEF RunChange, OthersRun, Running
  <2>4. ASSUME UNCHANGED runs \/ SameButStopped, UNCHANGED oldGrant PROVE runs'[q].grant > oldGrant'
    BY <1>1, <2>4, <2>a DEF SameButStopped, Running
  <2>5. QED
    BY RunCases, OldGrantKept, <2>1, <2>2, <2>3, <2>4
<1>2. ASSUME NEW u \in left' PROVE u.grant > oldGrant'
  <2>1. ~Crash /\ UNCHANGED oldGrant
    BY <1>2, CrashChange, OldGrantKept
  <2>2. ASSUME NEW r \in Run, GivesUp(r), u = Given(r) PROVE u.grant > oldGrant
    BY <2>2, GiveUpFrame DEF Given, RestartNeedsResume
  <2>3. ASSUME NEW t \in left, NEW step \in Step, u = Moved(t, step) PROVE u.grant > oldGrant
    <3>1. t \in Tool /\ t.grant > oldGrant
      BY DEF TypeOK, RestartNeedsResume
    <3>2. u.grant = t.grant
      BY <2>3, <3>1, LeftValues
    <3>3. QED
      BY <3>1, <3>2
  <2>4. "checked" \in Step /\ "cleared" \in Step /\ "executing" \in Step
    BY DEF Step
  <2>5. u.grant > oldGrant
    BY <1>2, <2>2, <2>3, <2>4, LeftCases DEF RestartNeedsResume
  <2>6. QED
    BY <2>1, <2>5
<1>3. QED
  BY <1>1, <1>2 DEF RestartNeedsResume, Running

LEMMA GrantStep ==
    ASSUME TypeOK, DecideInv, RestartNeedsResume, GrantInv, [Next]_vars
    PROVE  GrantInv'
<1>d. doc.grant \in Grant /\ Idle.entry = "none"
  BY DEF TypeOK, Task, Idle
<1>n. issued \in Nat /\ oldGrant \in Nat /\ doc.grant \in Nat /\ Idle.entry = "none"
  BY <1>d, NumberTypes, Values
<1>1. ASSUME NEW c \in Callers, Enters(c) PROVE GrantInv'
  BY <1>1, EntersFrame DEF GrantInv, OthersKeep, documents, world
<1>2. ASSUME NEW c \in Callers, Stores(c) PROVE GrantInv'
  <2>1. /\ OthersKeep(c) /\ caller'[c].entry = "none" /\ UNCHANGED oldGrant
        /\ issued' \in Nat /\ issued <= issued' /\ process' = "up" /\ process = "up"
        /\ \/ doc' = caller[c].task /\ caller[c].entry = "submit" /\ caller[c].pc = "put"
           \/ doc'.grant = issued' /\ issued < issued'
           \/ ~doc'.live
    BY <1>2, StoresFrame, Values DEF world
  <2>2. oldGrant <= issued'
    BY <1>n, <2>1 DEF GrantInv
  <2>3. doc'.live => doc'.grant > oldGrant'
    BY <1>n, <2>1 DEF GrantInv
  <2>4. QED
    BY <2>1, <2>2, <2>3 DEF GrantInv, OthersKeep
<1>3. ASSUME NEW c \in Callers, NEW r \in Run, Start(c, r) PROVE GrantInv'
  <2>1. doc'.grant = doc.grant /\ doc.live
    BY <1>3 DEF Start, InForce, TypeOK, Task
  <2>2. QED
    BY <1>3, <1>n, <2>1, StartChange DEF GrantInv, OthersKeep, world
<1>4. ASSUME NEW r \in Run, RunSave(r) PROVE GrantInv'
  <2>1. doc' = doc \/ doc'.grant = runs[r].grant
    BY <1>4 DEF RunSave
  <2>2. runs[r].grant > oldGrant /\ UNCHANGED <<process, oldGrant, issued, caller>>
    BY <1>4 DEF RunSave, RestartNeedsResume, world
  <2>3. QED
    BY <2>1, <2>2 DEF GrantInv
<1>5. CASE Crash
  <2>1. process' = "down" /\ oldGrant' = issued /\ issued' = issued
    BY <1>5 DEF Crash
  <2>2. QED
    BY <1>5, <1>n, <2>1, CrashChange DEF GrantInv
<1>6. CASE RecoverResults
  BY <1>6 DEF RecoverResults, GrantInv
<1>7. CASE RecoverTask
  <2>1. ~doc'.live /\ UNCHANGED <<issued, oldGrant, caller>>
    BY <1>7 DEF RecoverTask, TypeOK, Task
  <2>2. QED
    BY <2>1 DEF GrantInv
<1>8. ASSUME UNCHANGED <<doc, process, oldGrant, issued>>,
             \/ UNCHANGED caller
             \/ \E c \in Callers : OthersKeep(c) /\ caller'[c].entry # "submit"
      PROVE  GrantInv'
  BY <1>8 DEF GrantInv, OthersKeep
<1>9. ASSUME NEW c \in Callers, Cancel(c) \/ \E accept \in BOOLEAN : DecidePut(c, accept)
      PROVE  GrantInv'
  <2>1. UNCHANGED <<doc, process, oldGrant, issued>>
    BY <1>9 DEF Cancel, DecidePut, documents, world
  <2>2. caller \in [Callers -> Local]
    BY DEF TypeOK
  <2>3. \/ caller' = caller
        \/ caller' = [caller EXCEPT ![c].entry = "cancel", ![c].pc = "load"]
        \/ caller' = [caller EXCEPT ![c] = [Idle EXCEPT !.pc = "start"]]
    BY <1>9 DEF Cancel, DecidePut, ThenStart
  <2>4. [Idle EXCEPT !.pc = "start"].entry = "none"
    BY DEF Idle
  <2>5. caller' = caller \/ (OthersKeep(c) /\ caller'[c].entry # "submit")
    BY <2>2, <2>3, <2>4 DEF OthersKeep, Local
  <2>6. QED
    BY <1>8, <2>1, <2>5
<1>10. ASSUME NEW r \in Run, RunKeepsLeft(r) \/ GivesUp(r), ~RunSave(r) PROVE GrantInv'
  <2>1. UNCHANGED <<process, oldGrant, issued, caller>>
    BY <1>10, RunFrame DEF world
  <2>2. UNCHANGED doc
    BY <1>10
       DEF RunKeepsLeft, GivesUp, Alone, Replay, Advance, RefuseChange, Feedback, Recorded, RunExit, Preempt,
           RunFails, Ask, Execute, Calls, ToolCall, Returns, ExecuteReturns, Verifies, Verify, documents
  <2>3. QED
    BY <1>8, <2>1, <2>2
<1>11. CASE GrantExpires \/ Stop \/ Close \/ CloseStore \/ UNCHANGED vars
  BY <1>8, <1>11 DEF GrantExpires, Stop, Close, CloseStore, documents, world, vars
<1>12. ASSUME NEW t \in left, LeftStep(t) PROVE GrantInv'
  BY <1>8, <1>12, LeftFrame DEF elsewhere, world
<1>13. QED
  BY Cases, <1>1, <1>2, <1>3, <1>4, <1>5, <1>6, <1>7, <1>9, <1>10, <1>11, <1>12

-----------------------------------------------------------------------------
LEMMA InitInv == ASSUME Init PROVE Inv
<1>i. /\ mode \in {"conversation", ""} /\ doc = NewDoc
      /\ calls = <<>> /\ results = <<>> /\ approvals = [n \in Call |-> NoApproval]
      /\ verified = [h \in Hosts |-> 0] /\ runs = [r \in Run |-> NoRun] /\ left = {} /\ active = 0
      /\ closed = FALSE /\ quit = [stage |-> "open", run |-> 0]
      /\ caller = [c \in Callers |-> Idle] /\ issued = 1 /\ expired = 0
      /\ process = "up" /\ crashes = 0 /\ oldGrant = 0 /\ consents = {}
  BY DEF Init
<1>s. calls \in Seq(ToolCalls) /\ results \in Seq(Row)
      /\ DOMAIN calls = {} /\ DOMAIN results = {}
  <2>1. \A S : <<>> \in Seq(S)
    OBVIOUS
  <2>2. DOMAIN <<>> = {}
    OBVIOUS
  <2>3. QED
    BY <1>i, <2>1, <2>2
<1>1. TypeOK
  <2>1. calls \in Seq([host : Hosts, kind : {"change", "read"}, listed : BOOLEAN])
    BY <1>s DEF ToolCalls
  <2>2. results \in Seq([call : Call, status : RowStatus, grant : Grant, late : BOOLEAN])
    BY <1>s DEF Row
  <2>3. /\ doc \in Task /\ approvals \in [Call -> Approval] /\ verified \in [Hosts -> Call \cup {0}]
        /\ runs \in [Run -> RunState] /\ caller \in [Callers -> Local]
        /\ quit \in [stage : {"open", "stopped", "waiting", "closed"}, run : Run \cup {0}]
    BY <1>i, Values
  <2>4. /\ left \subseteq Tool /\ active \in Run \cup {0} /\ closed \in BOOLEAN /\ issued \in Grant
        /\ expired \in Grant \cup {0} /\ process \in {"up", "down", "recovering"} /\ crashes \in Nat
        /\ oldGrant \in Grant \cup {0} /\ consents \subseteq Call \X Grant
    BY <1>i, Values
  <2>5. QED
    BY <1>i, <2>1, <2>2, <2>3, <2>4 DEF TypeOK
<1>2. \A r \in Run : runs[r].phase = "none" /\ runs[r].call = 0 /\ runs[r].step = "none"
  BY <1>i DEF NoRun
<1>3. \A c \in Callers : caller[c] = Idle /\ caller[c].entry = "none"
  BY <1>i DEF Idle
<1>4. CallsInv /\ ActiveInv /\ WaitInv /\ CheckedInv
  BY <1>i, <1>s, <1>2, <1>3 DEF CallsInv, ActiveInv, WaitInv, CheckedInv, Running, Waiting
<1>5. DecideInv /\ ConsentInv
  BY <1>i, <1>2, <1>3 DEF DecideInv, ConsentInv, NoApproval
<1>6. GrantInv
  <2>1. doc.grant = 1
    BY <1>i DEF NewDoc
  <2>2. 0 <= 1 /\ 1 > 0
    OBVIOUS
  <2>3. \A c \in Callers : caller[c].entry # "submit"
    BY <1>3
  <2>4. QED
    BY <1>i, <2>1, <2>2, <2>3 DEF GrantInv
<1>7. NoChangeWhileUnknown /\ ExecutionsHaveConsent /\ RestartNeedsResume
  BY <1>i, <1>s, <1>2 DEF NoChangeWhileUnknown, ExecutionsHaveConsent, RestartNeedsResume
<1>8. QED
  BY <1>1, <1>4, <1>5, <1>6, <1>7 DEF Inv

LEMMA NextInv == ASSUME Inv, [Next]_vars PROVE Inv'
<1> USE DEF Inv
<1>1. TypeOK' /\ CallsInv' /\ ActiveInv' /\ WaitInv' /\ CheckedInv'
  BY TypeStep, CallsStep, ActiveStep, WaitStep, CheckedStep
<1>2. DecideInv' /\ ConsentInv' /\ GrantInv'
  BY DecideStep, ConsentStep, GrantStep
<1>3. NoChangeWhileUnknown' /\ ExecutionsHaveConsent' /\ RestartNeedsResume'
  BY <1>1, NoChangeStep, ExecutionsStep, RestartStep
<1>4. QED
  BY <1>1, <1>2, <1>3

\* Service.active, the stored approvals, the rows and the documents that entry
\* points carry agree with each other in every state of service.go.
THEOREM Invariance == Spec => []Inv
<1>1. Init => Inv
  BY InitInv
<1>2. Inv /\ [Next]_vars => Inv'
  BY NextInv
<1>3. QED
  BY <1>1, <1>2, PTL DEF Spec

\* The runs of a task follow one another, however Submit, Resume and Decide race
\* in front of Service.start, and all of them end before quit closes the store.
THEOREM RunsAreOrderlyTheorem == Spec => []RunsAreOrderly
<1>1. ASSUME Inv PROVE RunsAreOrderly
  <2>1. TypeOK /\ ActiveInv
    BY <1>1 DEF Inv
  <2>2. OneRun
    BY <2>1 DEF OneRun, ActiveInv, Running
  <2>3. StoreOutlivesRuns
    BY <2>1, Values DEF StoreOutlivesRuns, ActiveInv, Running
  <2>4. QED
    BY <2>1, <2>2, <2>3 DEF RunsAreOrderly
<1>2. Inv => RunsAreOrderly
  BY <1>1
<1>3. QED
  BY Invariance, <1>2, PTL

\* Every execution executeTool makes is on the task's lists or has the user's
\* consent to this call, under a grant of this process; and a change follows no
\* result in doubt, over crashes and restarts, unless a call that had been given
\* up claimed one of the two rows.
THEOREM ExecutionsAreAllowedTheorem == Spec => []ExecutionsAreAllowed
<1>1. Inv => ExecutionsAreAllowed
  BY DEF Inv, ExecutionsAreAllowed
<1>2. QED
  BY Invariance, <1>1, PTL
(***************************************************************************)
(* A completed task is verified, unless a run begins while Resume holds a  *)
(* document that says "completed": Resume then writes that document back   *)
(* over what the run has left.  In every other behaviour the executions    *)
(* stay as they were when the run found all hosts verified, but for calls   *)
(* that were given up before.                                              *)
(***************************************************************************)
\* Calls that were given up aside, everything is known, and the last execution
\* on every host is a read that succeeded.
AllRead ==
    /\ DOMAIN results # {}
    /\ \A i \in DOMAIN results :
          ~results[i].late =>
             /\ ~Unsettled(results[i])
             /\ LastRow(i) => KindOf(results[i].call) = "read" /\ results[i].status = "succeeded"

\* A Verification names a read that succeeded.
VerifiedInv ==
    \A h \in Hosts : verified[h] # 0 =>
        /\ verified[h] \in DOMAIN calls /\ KindOf(verified[h]) = "read"
        /\ \E i \in DOMAIN results : results[i].call = verified[h] /\ results[i].status = "succeeded"

\* Wherever "completed" stands, stored, about to be stored or loaded, it is true.
CompletedInv ==
    /\ VerifiedInv
    /\ \A r \in Run : runs[r].phase = "save" /\ runs[r].status = "completed" => AllRead
    /\ doc.status = "completed" => active = 0 /\ AllRead
    /\ \A c \in Callers :
          /\ caller[c].entry = "resume" /\ caller[c].task.status = "completed" => AllRead
          /\ caller[c].entry = "submit" /\ caller[c].pc = "put" => caller[c].task.status # "completed"

\* No run is under way while Resume holds a completed task.
LoneResume ==
    \A c \in Callers :
        caller[c].entry = "resume" /\ caller[c].task.status = "completed" => active = 0

\* An execution whose result is known keeps it.
LEMMA KnownStays ==
    ASSUME TypeOK, DecideInv, CallsInv, WaitInv, [Next]_vars, NEW i \in DOMAIN results, ~Unsettled(results[i])
    PROVE  i \in DOMAIN results' /\ results'[i].call = results[i].call
           /\ results'[i].status = results[i].status /\ results'[i].late = results[i].late
<1>1. ASSUME NEW r \in Run, Execute(r) PROVE i \in DOMAIN results' /\ results'[i] = results[i]
  BY <1>1, ExecuteClaims DEF Claims
<1>2. ASSUME NEW t \in left, LeftExecutes(t) PROVE i \in DOMAIN results' /\ results'[i] = results[i]
  BY <1>2, LeftClaims DEF Claims
<1>3. QED
  BY <1>1, <1>2, RowCases DEF Settling, SameRows

\* With no run in front of the model only calls that were given up are executed.
LEMMA AllReadStays ==
    ASSUME Inv, AllRead, [Next]_vars, \A r \in Run : runs[r].phase # "turn"
    PROVE  AllRead'
<1>1. TypeOK /\ DecideInv /\ WaitInv /\ CallsInv
  BY DEF Inv
<1>2. /\ DOMAIN results \subseteq DOMAIN results'
      /\ \A i \in DOMAIN results : results'[i].call = results[i].call /\ results'[i].late = results[i].late
      /\ \A i \in DOMAIN results' : ~results'[i].late => i \in DOMAIN results
  <2>1. ~ \E r \in Run : Execute(r)
    BY <1>1, ExecuteClaims
  <2>2. CASE Settling
    BY <2>2 DEF Settling, SameRows
  <2>3. ASSUME NEW t \in left, LeftExecutes(t)
        PROVE  /\ DOMAIN results' = DOMAIN results \cup {Len(results) + 1}
               /\ \A i \in DOMAIN results : results'[i] = results[i]
               /\ results'[Len(results) + 1].late
    BY <1>1, <2>3, LeftClaims DEF Claims
  <2>4. QED
    BY <1>1, <2>1, <2>2, <2>3, RowCases
<1>3. ASSUME NEW i \in DOMAIN results, ~results[i].late
      PROVE  ~Unsettled(results[i]) /\ results'[i].status = results[i].status
  BY <1>1, <1>3, KnownStays DEF AllRead
<1>4. \A i \in DOMAIN results : calls'[results[i].call] = calls[results[i].call]
  BY <1>1, CallsGrow DEF CallsInv
<1>5. ASSUME NEW i \in DOMAIN results, LastRow(i)' PROVE LastRow(i)
  <2>1. ASSUME NEW j \in DOMAIN results, calls[results[j].call].host = calls[results[i].call].host PROVE j <= i
    <3>1. /\ j \in DOMAIN results' /\ results'[j].call = results[j].call /\ results'[i].call = results[i].call
          /\ calls'[results[j].call] = calls[results[j].call] /\ calls'[results[i].call] = calls[results[i].call]
      BY <1>2, <1>4
    <3>2. \A k \in DOMAIN results' :
             calls'[results'[k].call].host = calls'[results'[i].call].host => k <= i
      BY <1>5 DEF LastRow, HostOf
    <3>3. QED
      BY <2>1, <3>1, <3>2
  <2>2. QED
    BY <2>1 DEF LastRow, HostOf
<1>6. ASSUME NEW i \in DOMAIN results', ~results'[i].late
      PROVE  /\ ~Unsettled(results'[i])
             /\ LastRow(i)' => calls'[results'[i].call].kind = "read" /\ results'[i].status = "succeeded"
  <2>0. i \in DOMAIN results /\ ~results[i].late /\ results'[i].call = results[i].call
    BY <1>2, <1>6
  <2>1. ~Unsettled(results'[i])
    BY <1>3, <2>0 DEF Unsettled
  <2>2. ASSUME LastRow(i)'
        PROVE  calls'[results'[i].call].kind = "read" /\ results'[i].status = "succeeded"
    <3>1. calls[results[i].call].kind = "read" /\ results[i].status = "succeeded"
      BY <1>5, <2>0, <2>2 DEF AllRead, KindOf
    <3>2. QED
      BY <1>3, <1>4, <2>0, <3>1
  <2>3. QED
    BY <2>1, <2>2
<1>7. DOMAIN results' # {}
  BY <1>2 DEF AllRead
<1>8. QED
  BY <1>6, <1>7 DEF AllRead, KindOf

LEMMA VerifiedStep == ASSUME Inv, VerifiedInv, [Next]_vars PROVE VerifiedInv'
<1>1. TypeOK /\ DecideInv /\ WaitInv /\ CallsInv
  BY DEF Inv
<1>2. ASSUME NEW n \in DOMAIN calls, KindOf(n) = "read",
             \E i \in DOMAIN results : results[i].call = n /\ results[i].status = "succeeded"
      PROVE  /\ n \in DOMAIN calls' /\ KindOf(n)' = "read"
             /\ \E i \in DOMAIN results' : results'[i].call = n /\ results'[i].status = "succeeded"
  <2>1. PICK i \in DOMAIN results : results[i].call = n /\ results[i].status = "succeeded"
    BY <1>2
  <2>2. ~Unsettled(results[i])
    BY <2>1 DEF Unsettled
  <2>3. QED
    BY <1>1, <1>2, <2>1, <2>2, KnownStays, CallsGrow DEF KindOf
<1>3. ASSUME NEW h \in Hosts, verified'[h] # 0
      PROVE  /\ verified'[h] \in DOMAIN calls /\ KindOf(verified'[h]) = "read"
             /\ \E i \in DOMAIN results : results[i].call = verified'[h] /\ results[i].status = "succeeded"
  <2>1. CASE UNCHANGED verified
    BY <1>3, <2>1 DEF VerifiedInv
  <2>2. ASSUME NEW r \in Run, NEW i \in Call, Verify(r, i)
        PROVE  /\ verified'[h] \in DOMAIN calls /\ KindOf(verified'[h]) = "read"
               /\ \E k \in DOMAIN results : results[k].call = verified'[h] /\ results[k].status = "succeeded"
    <3>1. /\ i \in DOMAIN results /\ KindOf(results[i].call) = "read"
          /\ results[i].status = "succeeded"
          /\ verified' = [verified EXCEPT ![HostOf(results[i].call)] = results[i].call]
      BY <2>2 DEF Verify
    <3>2. results[i].call \in DOMAIN calls
      BY <1>1, <3>1 DEF CallsInv
    <3>3. verified'[h] \in {verified[h], results[i].call}
      BY <1>1, <3>1 DEF TypeOK
    <3>4. QED
      BY <1>3, <3>1, <3>2, <3>3 DEF VerifiedInv
  <2>3. UNCHANGED verified \/ \E r \in Run, i \in Call : Verify(r, i)
    <3>1. ASSUME NEW c \in Callers, Enters(c) \/ Stores(c) PROVE UNCHANGED verified
      BY <1>1, <3>1, EntersFrame, StoresFrame DEF documents
    <3>2. ASSUME NEW r \in Run, RunKeepsLeft(r) \/ GivesUp(r), ~Verifies(r) PROVE UNCHANGED verified
      BY <3>2
         DEF RunKeepsLeft, GivesUp, Alone, Replay, Advance, RefuseChange, Feedback, Recorded, RunExit, Preempt,
             RunFails, Ask, Execute, RunSave, Calls, ToolCall, Returns, ExecuteReturns, documents
    <3>3. ASSUME NEW t \in left, LeftStep(t) PROVE UNCHANGED verified
      BY <1>1, <3>3, LeftFrame
    <3>4. QED
      BY Cases, <3>1, <3>2, <3>3
         DEF Verifies, Cancel, DecidePut, Start, GrantExpires, Stop, Close, CloseStore, Crash, RecoverResults,
             RecoverTask, documents, vars
  <2>4. QED
    BY <2>1, <2>2, <2>3
<1>4. QED
  BY <1>2, <1>3 DEF VerifiedInv

\* A run that finds all hosts verified finds all of them read.
LEMMA FinalIsRead ==
    ASSUME Inv, VerifiedInv, NEW r \in Run, FinalStatus(r) = "completed"
    PROVE  AllRead
<1>1. TypeOK /\ WaitInv /\ CallsInv
  BY DEF Inv
<1>2. AllVerified
  <2>1. runs[r].err \in {"none", "failed", "blocked"}
    BY <1>1, RunType DEF RunState
  <2>2. QED
    BY <2>1 DEF FinalStatus
<1>3. DOMAIN results # {}
  <2>1. results \in Seq(Row) /\ results # <<>>
    BY <1>1, <1>2, SequenceTypes DEF AllVerified
  <2> DEFINE l == Len(results)
  <2>2. l \in Nat /\ l # 0 /\ DOMAIN results = 1..l
    BY <2>1
  <2> HIDE DEF l
  <2>3. 1 \in 1..l
    BY <2>2
  <2>4. QED
    BY <2>2, <2>3
<1>4. ASSUME NEW i \in DOMAIN results, LastRow(i)
      PROVE  KindOf(results[i].call) = "read" /\ results[i].status = "succeeded"
  <2> DEFINE n == results[i].call
             h == HostOf(n)
  <2>1. verified[h] = n
    BY <1>2, <1>4 DEF AllVerified
  <2>2. n \in DOMAIN calls /\ n # 0
    BY <1>1, RowType, Values DEF CallsInv
  <2> HIDE DEF n
  <2>3. h \in Hosts
    <3>1. calls[n] \in ToolCalls
      BY <1>1, <2>2, SequenceTypes
    <3>2. calls[n].host \in Hosts
      BY <3>1 DEF ToolCalls
    <3>3. QED
      BY <3>2 DEF HostOf
  <2>4. PICK k \in DOMAIN results : results[k].call = n /\ results[k].status = "succeeded"
    BY <2>1, <2>2, <2>3 DEF VerifiedInv
  <2>5. k = i
    BY <1>1, <2>4 DEF WaitInv, n
  <2>6. KindOf(n) = "read"
    BY <2>1, <2>2, <2>3 DEF VerifiedInv
  <2>7. QED
    BY <2>4, <2>5, <2>6 DEF n
<1>5. QED
  BY <1>2, <1>3, <1>4 DEF AllRead, AllVerified, Settled

\* A run gets its final status in RunExit and keeps it until it is saved.
LEMMA SaveCases ==
    ASSUME TypeOK, DecideInv, [Next]_vars, NEW r \in Run, runs'[r].phase = "save"
    PROVE  RunExit(r) \/ (runs[r].phase = "save" /\ runs'[r].status = runs[r].status)
<1>1. ASSUME NEW q \in Run, RunChange(q), OthersRun(q) PROVE RunExit(r) \/ runs'[r] = runs[r]
  BY <1>1 DEF RunChange, OthersRun
<1>2. ASSUME NEW c \in Callers, NEW q \in Run, Start(c, q) PROVE runs'[r] = runs[r]
  BY <1>2, StartChange DEF OthersRun
<1>3. ~Crash
  BY CrashChange
<1>4. QED
  BY RunCases, <1>1, <1>2, <1>3 DEF SameButStopped

\* What a step can make of the status of the stored task.
LEMMA StatusCases ==
    ASSUME TypeOK, DecideInv, [Next]_vars
    PROVE  \/ UNCHANGED doc /\ active' \in {active, 0}
           \/ doc'.status = doc.status /\ active' = active
           \/ doc'.status \in {"interrupted", "running"}
           \/ \E c \in Callers : SubmitPut(c) \/ ResumePut(c)
           \/ \E r \in Run : RunSave(r)
<1>d. doc \in Task
  BY DEF TypeOK
<1>1. ASSUME NEW c \in Callers, Enters(c) PROVE UNCHANGED doc /\ active' = active
  BY <1>1, EntersFrame DEF documents, service
<1>2. ASSUME NEW c \in Callers, CancelPut(c) PROVE doc'.status = "interrupted"
  <2>1. caller[c].task \in Task
    BY DEF TypeOK, Local
  <2>2. QED
    BY <1>2, <2>1 DEF CancelPut, Task
<1>3. ASSUME NEW c \in Callers, NEW r \in Run, Start(c, r) PROVE doc'.status = "running"
  BY <1>3, <1>d DEF Start, Task
<1>4. ASSUME RecoverTask
      PROVE  active' = active /\ (doc'.status = doc.status \/ doc'.status = "interrupted")
  BY <1>4, <1>d DEF RecoverTask, service, Task
<1>5. ASSUME NEW r \in Run, RunKeepsLeft(r) \/ GivesUp(r), ~RunSave(r) PROVE UNCHANGED doc /\ active' = active
  BY <1>5 DEF RunKeepsLeft, GivesUp, Alone, Replay, Advance, RefuseChange, Feedback, Recorded, RunExit, Preempt,
              RunFails, Ask, Execute, Calls, ToolCall, Returns, ExecuteReturns, Verifies, Verify, documents,
              runEnv, elsewhere
<1>6. ASSUME NEW t \in left, LeftStep(t) PROVE UNCHANGED doc /\ active' = active
  BY <1>6, LeftFrame DEF elsewhere
<1>7. ASSUME \/ \E c \in Callers : Cancel(c)
             \/ \E c \in Callers, accept \in BOOLEAN : DecidePut(c, accept)
             \/ GrantExpires \/ Stop \/ Close \/ CloseStore \/ Crash \/ RecoverResults \/ UNCHANGED vars
      PROVE  UNCHANGED doc /\ active' \in {active, 0}
  BY <1>7 DEF Cancel, DecidePut, GrantExpires, Stop, Close, CloseStore, Crash, RecoverResults, documents,
              service, vars
<1>8. QED
  BY Cases, <1>1, <1>2, <1>3, <1>4, <1>5, <1>6, <1>7 DEF Stores

\* How an entry point that loads a task comes by it.
LEMMA LoadCases ==
    ASSUME TypeOK, DecideInv, [Next]_vars, NEW c \in Callers, caller'[c].entry \in {"submit", "resume"}
    PROVE  \/ caller'[c] = caller[c]
           \/ Submit(c) \/ SubmitLoad(c) \/ Resume(c) \/ ResumeResults(c)
<1>c. caller \in [Callers -> Local] /\ Idle.entry = "none" /\ [Idle EXCEPT !.pc = "start"].entry = "none"
  BY DEF TypeOK, Idle
<1>d. caller[c] \in Local
  BY <1>c
<1>1. ASSUME NEW d \in Callers \ {c}, OthersKeep(d) PROVE caller'[c] = caller[c]
  BY <1>1 DEF OthersKeep
<1>2. ASSUME NEW d \in Callers, Enters(d) \/ Stores(d) PROVE OthersKeep(d)
  BY <1>2, EntersFrame, StoresFrame
<1>3. ASSUME NEW d \in Callers, Cancel(d) PROVE OthersKeep(d)
  <2>1. \/ UNCHANGED caller
        \/ caller' = [caller EXCEPT ![d].entry = "cancel", ![d].pc = "load"]
    BY <1>3 DEF Cancel
  <2>2. QED
    BY <1>c, <2>1 DEF OthersKeep
<1>4. ASSUME NEW d \in Callers, NEW accept \in BOOLEAN, DecidePut(d, accept)
      PROVE  OthersKeep(d) /\ caller'[d].entry = "none"
  BY <1>c, <1>4 DEF DecidePut, ThenStart, OthersKeep
<1>5. ASSUME Stores(c) PROVE FALSE
  BY <1>5, StoresFrame
<1>6. ASSUME Cancel(c) PROVE caller'[c] = caller[c]
  <2>1. \/ UNCHANGED caller
        \/ caller' = [caller EXCEPT ![c].entry = "cancel", ![c].pc = "load"]
    BY <1>6 DEF Cancel
  <2>2. CASE UNCHANGED caller
    BY <2>2
  <2>3. CASE caller' = [caller EXCEPT ![c].entry = "cancel", ![c].pc = "load"]
    <3>1. caller'[c].entry = "cancel"
      BY <1>c, <1>d, <2>3 DEF Local
    <3>2. QED
      BY <3>1
  <2>4. QED
    BY <2>1, <2>2, <2>3
<1>7. ASSUME Enters(c)
      PROVE  Submit(c) \/ SubmitLoad(c) \/ Resume(c) \/ ResumeResults(c)
  <2>1. ASSUME DecideLoad(c) PROVE FALSE
    <3>1. \/ caller'[c] = Idle
          \/ caller'[c] = [caller[c] EXCEPT !.pc = "put"]
      BY <1>c, <2>1 DEF DecideLoad, Goto, Leave
    <3>2. caller[c].entry = "decide"
      BY <2>1 DEF DecideLoad, At
    <3>3. QED
      BY <1>c, <1>d, <3>1, <3>2 DEF Local
  <2>2. ASSUME CancelLoad(c) PROVE FALSE
    <3>1. \/ caller'[c] = Idle
          \/ caller'[c] = [caller[c] EXCEPT !.task = doc, !.pc = "put"]
      BY <1>c, <2>2 DEF CancelLoad, Leave
    <3>2. caller[c].entry = "cancel"
      BY <2>2 DEF CancelLoad, At
    <3>3. QED
      BY <1>c, <1>d, <3>1, <3>2 DEF Local
  <2>3. ASSUME CallFails(c) PROVE FALSE
    BY <1>c, <2>3 DEF CallFails, Leave
  <2>4. ASSUME NEW n \in Call, Decide(c, n) PROVE FALSE
    BY <1>c, <1>d, <2>4 DEF Decide, Local
  <2>5. QED
    BY <1>7, <2>1, <2>2, <2>3, <2>4 DEF Enters
<1>8. ASSUME NEW d \in Callers, NEW r \in Run, Start(d, r) PROVE caller'[c] = caller[c]
  BY <1>1, <1>8, <1>c, StartChange DEF OthersKeep
<1>9. ASSUME Crash PROVE FALSE
  BY <1>9, <1>c, CrashChange
<1>10. ASSUME NEW r \in Run, RunKeepsLeft(r) \/ GivesUp(r) PROVE UNCHANGED caller
  BY <1>10, RunFrame
<1>11. ASSUME \/ GrantExpires \/ Stop \/ Close \/ CloseStore \/ RecoverResults \/ RecoverTask
              \/ UNCHANGED vars
       PROVE  UNCHANGED caller
  BY <1>11 DEF GrantExpires, Stop, Close, CloseStore, RecoverResults, RecoverTask, vars
<1>12. ASSUME NEW d \in Callers, Enters(d) \/ Stores(d) \/ Cancel(d)
       PROVE  \/ caller'[c] = caller[c]
              \/ Submit(c) \/ SubmitLoad(c) \/ Resume(c) \/ ResumeResults(c)
  BY <1>1, <1>2, <1>3, <1>5, <1>6, <1>7, <1>12
<1>13. ASSUME NEW d \in Callers, NEW accept \in BOOLEAN, DecidePut(d, accept)
       PROVE  caller'[c] = caller[c]
  BY <1>1, <1>4, <1>13
<1>14. ASSUME NEW t \in left, LeftStep(t) PROVE UNCHANGED caller
  BY <1>14, LeftFrame DEF elsewhere
<1>15. QED
  BY Cases, <1>8, <1>9, <1>10, <1>11, <1>12, <1>13, <1>14

LEMMA CompletedInit == ASSUME Init PROVE CompletedInv
<1>1. /\ doc.status = "ready" /\ \A h \in Hosts : verified[h] = 0
      /\ \A r \in Run : runs[r].phase = "none"
      /\ \A c \in Callers : caller[c].entry = "none"
  BY DEF Init, NewDoc, NoRun, Idle
<1>2. QED
  BY <1>1 DEF CompletedInv, VerifiedInv

LEMMA CompletedStep ==
    ASSUME Inv, CompletedInv, LoneResume, [Next]_vars
    PROVE  CompletedInv'
<1>1. TypeOK /\ WaitInv /\ DecideInv /\ ActiveInv /\ VerifiedInv
  BY DEF Inv, CompletedInv
<1>2. ASSUME AllRead, active = 0 PROVE AllRead'
  <2>1. \A r \in Run : runs[r].phase # "turn"
    BY <1>1, <1>2, Values DEF ActiveInv, Running
  <2>2. QED
    BY <1>2, <2>1, AllReadStays
<1>3. ASSUME AllRead, NEW r \in Run, runs[r].phase = "save" PROVE AllRead'
  <2>1. \A q \in Run : runs[q].phase # "turn"
    BY <1>1, <1>3 DEF ActiveInv, Running
  <2>2. QED
    BY <1>3, <2>1, AllReadStays
<1>4. VerifiedInv'
  BY <1>1, VerifiedStep
<1>5. ASSUME NEW r \in Run, runs'[r].phase = "save", runs'[r].status = "completed"
      PROVE  AllRead'
  <2>1. CASE RunExit(r)
    <3>1. runs \in [Run -> RunState] /\ runs[r] \in RunState
      BY <1>1, RunType
    <3>2. PICK s \in {FinalStatus(r), "interrupted"} : runs'[r] = SavedRun(runs[r], s)
      <4>1. PICK s \in {FinalStatus(r)} \cup (IF InTurn(r) THEN {"interrupted"} ELSE {}) :
               runs' = [runs EXCEPT ![r] = SavedRun(runs[r], s)]
        BY <2>1 DEF RunExit, WithRun, SavedRun
      <4>2. s \in {FinalStatus(r), "interrupted"}
        BY <4>1
      <4>3. runs'[r] = SavedRun(runs[r], s)
        BY <3>1, <4>1
      <4>4. QED
        BY <4>2, <4>3
    <3>3. FinalStatus(r) = "completed"
      <4>1. s \in TaskStatus
        BY <3>1, <3>2, FinalStatusType DEF TaskStatus
      <4>2. s = "completed"
        BY <1>5, <3>1, <3>2, <4>1, SavedValue
      <4>3. QED
        BY <3>2, <4>2
    <3>4. AllRead
      BY <1>1, <3>3, FinalIsRead
    <3>5. UNCHANGED <<results, calls>>
      BY <2>1 DEF RunExit, documents
    <3>6. QED
      BY <3>4, <3>5 DEF AllRead, LastRow, HostOf, KindOf, Unsettled
  <2>2. CASE runs[r].phase = "save" /\ runs'[r].status = runs[r].status
    BY <1>3, <1>5, <2>2 DEF CompletedInv
  <2>3. QED
    BY <1>1, <1>5, <2>1, <2>2, SaveCases
<1>6. ASSUME doc'.status = "completed" PROVE active' = 0 /\ AllRead'
  <2>1. CASE doc'.status = doc.status /\ active' \in {active, 0}
    BY <1>2, <1>6, <2>1 DEF CompletedInv
  <2>2. ASSUME NEW c \in Callers, SubmitPut(c) PROVE FALSE
    BY <1>6, <2>2 DEF SubmitPut, At, CompletedInv
  <2>3. ASSUME NEW c \in Callers, ResumePut(c) PROVE active' = 0 /\ AllRead'
    <3>1. caller[c].task \in Task
      BY <1>1 DEF TypeOK, Local
    <3>2. /\ caller[c].entry = "resume" /\ active' = active
          /\ doc' = [caller[c].task EXCEPT !.grant = issued', !.live = TRUE]
      BY <2>3 DEF ResumePut, At, service
    <3>3. caller[c].task.status = "completed"
      BY <1>6, <3>1, <3>2 DEF Task
    <3>4. QED
      BY <1>2, <3>2, <3>3 DEF LoneResume, CompletedInv
  <2>4. ASSUME NEW r \in Run, RunSave(r) PROVE active' = 0 /\ AllRead'
    <3>1. active' = 0 /\ runs[r].phase = "save"
      BY <2>4 DEF RunSave
    <3>2. doc' = doc \/ doc'.status = runs[r].status
      BY <2>4 DEF RunSave
    <3>3. AllRead
      BY <1>6, <3>1, <3>2 DEF CompletedInv
    <3>4. QED
      BY <1>3, <3>1, <3>3
  <2>5. QED
    BY <1>1, <1>6, <2>1, <2>2, <2>3, <2>4, StatusCases
<1>7. ASSUME NEW c \in Callers, caller'[c].entry = "resume", caller'[c].task.status = "completed"
      PROVE  AllRead'
  <2>1. caller \in [Callers -> Local] /\ caller[c] \in Local /\ Idle.entry = "none"
        /\ [Idle EXCEPT !.pc = "start"].entry = "none"
    BY <1>1 DEF TypeOK, Idle
  <2>2. CASE caller[c].entry = "resume" /\ caller'[c].task = caller[c].task
    BY <1>2, <1>7, <2>2 DEF LoneResume, CompletedInv
  <2>3. CASE Resume(c)
    <3>1. caller'[c].task = doc
      BY <2>1, <2>3 DEF Resume, Local
    <3>2. QED
      BY <1>2, <1>7, <3>1 DEF CompletedInv
  <2>4. CASE ResumeResults(c)
    <3>1. caller[c].entry = "resume"
      BY <2>4 DEF ResumeResults, At
    <3>2. caller'[c] = Idle \/ caller'[c] = [caller[c] EXCEPT !.pc = "put"]
      BY <2>1, <2>4 DEF ResumeResults, Leave, Goto
    <3>3. caller'[c].task = caller[c].task
      BY <1>7, <2>1, <3>2 DEF Local
    <3>4. QED
      BY <2>2, <3>1, <3>3
  <2>5. CASE Submit(c)
    BY <1>7, <2>1, <2>5 DEF Submit, Local
  <2>6. CASE SubmitLoad(c)
    <3>1. caller[c].entry = "submit"
      BY <2>6 DEF SubmitLoad, At
    <3>2. \/ caller'[c] = [caller[c] EXCEPT !.task = doc, !.pc = "put"]
          \/ caller'[c] = [Idle EXCEPT !.pc = "start"]
      BY <2>1, <2>6 DEF SubmitLoad, ThenStart
    <3>3. QED
      BY <1>7, <2>1, <3>1, <3>2 DEF Local
  <2>7. QED
    BY <1>1, <1>7, <2>2, <2>3, <2>4, <2>5, <2>6, LoadCases
<1>8. ASSUME NEW c \in Callers, caller'[c].entry = "submit", caller'[c].pc = "put"
      PROVE  caller'[c].task.status # "completed"
  <2>1. caller \in [Callers -> Local] /\ caller[c] \in Local /\ Idle.entry = "none"
        /\ [Idle EXCEPT !.pc = "start"].entry = "none"
    BY <1>1 DEF TypeOK, Idle
  <2>2. CASE caller'[c] = caller[c]
    BY <1>8, <2>2 DEF CompletedInv
  <2>3. CASE SubmitLoad(c)
    <3>1. \/ /\ doc.status \in {"awaiting_approval", "interrupted"}
             /\ caller'[c] = [caller[c] EXCEPT !.task = doc, !.pc = "put"]
          \/ caller'[c] = [Idle EXCEPT !.pc = "start"]
      BY <2>1, <2>3 DEF SubmitLoad, ThenStart
    <3>2. QED
      BY <1>8, <2>1, <3>1 DEF Local
  <2>4. CASE Submit(c)
    <3>1. caller'[c].pc = "load"
      BY <2>1, <2>4 DEF Submit, Local
    <3>2. QED
      BY <1>8, <3>1
  <2>5. CASE Resume(c)
    <3>1. caller'[c].entry = "resume"
      BY <2>1, <2>5 DEF Resume, Local
    <3>2. QED
      BY <1>8, <3>1
  <2>6. CASE ResumeResults(c)
    <3>1. caller[c].entry = "resume"
      BY <2>6 DEF ResumeResults, At
    <3>2. caller'[c] = Idle \/ caller'[c] = [caller[c] EXCEPT !.pc = "put"]
      BY <2>1, <2>6 DEF ResumeResults, Leave, Goto
    <3>3. QED
      BY <1>8, <2>1, <3>1, <3>2 DEF Local
  <2>7. QED
    BY <1>1, <1>8, <2>2, <2>3, <2>4, <2>5, <2>6, LoadCases
<1>9. QED
  BY <1>4, <1>5, <1>6, <1>7, <1>8 DEF CompletedInv

\* A task that rests as completed has a successful read as the last execution on
\* every host, unless a run began while Resume held the completed document: this
\* race (service.go, Resume against start) is the only way to lose it.
THEOREM CompletedIsVerifiedTheorem == Spec /\ []LoneResume => []CompletedIsVerified
<1>1. CompletedInv => CompletedIsVerified
  <2>1. DOMAIN <<>> = {}
    OBVIOUS
  <2>2. QED
    BY <2>1 DEF CompletedInv, CompletedIsVerified, AllRead
<1>2. Init => CompletedInv
  BY CompletedInit
<1>3. Inv /\ CompletedInv /\ LoneResume /\ [Next]_vars => CompletedInv'
  BY CompletedStep
<1>4. QED
  BY <1>1, <1>2, <1>3, Invariance, PTL DEF Spec
=============================================================================
