----------------------------- MODULE ModelTurn -----------------------------
(***************************************************************************)
(* One run of the assistant, seen from its limits: requests to the model   *)
(* with retries (internal/agent/model_retry.go), the reply read from a     *)
(* stream (events.go), tool calls, and the feedback a wrong call gets      *)
(* (tool_recovery.go, runtime_observer.go and the unknown tool of          *)
(* tools.go).  Tools run one after the other.  The main agent may delegate *)
(* to a worker, which has its own loop and shares the wrapped tools.       *)
(*                                                                         *)
(* Abstractions: a request is the pair of canonical arguments and error    *)
(* message that feedback counts; an error of the model is transient (429,  *)
(* 5xx, timeout), known (401, 403, 400, 404, 422) or other.  The loop over *)
(* iterations is Eino's, and so is its bound.                              *)
(***************************************************************************)
EXTENDS Naturals

CONSTANTS Wrapped,       \* tools behind a recoveryTool, the unknown tool too
          Observed,      \* "task" and "write_todos", of the main agent only
          Requests,
          CallLimit,     \* 3 in retryModelCall
          RequestLimit,  \* 3 in feedback
          BudgetLimit,   \* 12 in take
          MaxIterations, \* 100 in buildAgent
          NoTool, NoRequest

ASSUME TurnAssumption ==
    /\ {CallLimit, RequestLimit, BudgetLimit, MaxIterations} \subseteq Nat \ {0}
    /\ Wrapped \cap Observed = {} /\ "task" \in Observed
    /\ NoTool \notin Wrapped \cup Observed
    /\ NoRequest \notin Requests

\* The counter of attempts belongs to the recoveryTool; the observer has one
\* for both of its tools.
Counters == Wrapped \cup {NoTool}
CounterOf(t) == IF t \in Wrapped THEN t ELSE NoTool

VARIABLES
    pc,         \* where the run is
    attempt,    \* attempt of retryModelCall, from 0
    agent,      \* the agent that is at work
    iteration,  \* per agent
    call,       \* the tool call under way
    attempts,   \* recoveryTool.attempts
    failures,   \* correctionBudget.failures
    cancelled,  \* ctx.Err() # nil
    outcome,
    given,      \* history: feedback the model got, per counter and request
    corrections,\* history: feedback the model got from wrapped tools
    streams,    \* history: streams opened in this iteration
    late        \* history: a request or a call was started after the cancel

turnVars == <<pc, attempt, agent, iteration, call, attempts, failures,
              cancelled, outcome, given, corrections, streams, late>>

counters == <<attempts, failures, given, corrections>>
loop == <<attempt, agent, iteration, call, streams>>

Agents == {"operator", "worker"}

Outcome == {"none", "answered", "waiting", "blocked", "failed", "cancelled"}
Count == [Counters -> [Requests -> Nat]]

TurnTypeOK ==
    /\ pc \in {"request", "calling", "backoff", "stream", "tool", "feedback", "ended"}
    /\ attempt \in 0..(CallLimit - 1)
    /\ agent \in Agents /\ iteration \in [Agents -> 1..MaxIterations]
    /\ call \in [tool : Wrapped \cup Observed \cup {NoTool},
                request : Requests \cup {NoRequest}]
    /\ attempts \in Count /\ given \in Count
    /\ failures \in Nat /\ streams \in Nat
    /\ corrections \in Nat
    /\ cancelled \in BOOLEAN /\ late \in BOOLEAN
    /\ outcome \in Outcome

NoCall == [tool |-> NoTool, request |-> NoRequest]

TurnInit ==
    /\ pc = "request" /\ attempt = 0 /\ call = NoCall
    /\ agent = "operator" /\ iteration = [a \in Agents |-> 1]
    /\ attempts = [t \in Counters |-> [r \in Requests |-> 0]]
    /\ given = [t \in Counters |-> [r \in Requests |-> 0]]
    /\ failures = 0 /\ streams = 0 /\ corrections = 0
    /\ cancelled = FALSE /\ late = FALSE /\ outcome = "none"

End(o) == pc' = "ended" /\ outcome' = o
Go(p) == pc' = p /\ UNCHANGED outcome

-----------------------------------------------------------------------------
(* Requests to the model                                                   *)

Request ==
    /\ pc = "request"
    /\ IF cancelled THEN End("cancelled") /\ UNCHANGED late
                    ELSE Go("calling") /\ late' = (late \/ cancelled)
    /\ UNCHANGED <<loop, counters, cancelled>>

\* The stream is established; from here on nothing is requested again.
Established ==
    /\ pc = "calling"
    /\ Go("stream") /\ streams' = streams + 1
    /\ UNCHANGED <<attempt, agent, iteration, call, counters, cancelled, late>>

LastAttempt == attempt = CallLimit - 1

RequestFails(kind) ==
    /\ pc = "calling"
    /\ IF cancelled THEN End("cancelled")
       ELSE IF kind = "transient" /\ ~LastAttempt THEN Go("backoff")
       ELSE End(IF kind = "other" THEN "failed" ELSE "blocked")
    /\ UNCHANGED <<loop, counters, cancelled, late>>

\* select: the timer and the context may both be ready.
BackOff ==
    /\ pc = "backoff"
    /\ Go("request") /\ attempt' = attempt + 1
    /\ UNCHANGED <<agent, iteration, call, streams, counters, cancelled, late>>

BackOffCancelled ==
    /\ pc = "backoff" /\ cancelled
    /\ End("cancelled")
    /\ UNCHANGED <<loop, counters, cancelled, late>>

-----------------------------------------------------------------------------
(* The reply                                                               *)

StreamBreaks ==
    /\ pc = "stream"
    /\ End(IF cancelled THEN "cancelled"
           ELSE IF agent = "operator" THEN "blocked" ELSE "failed")
    /\ UNCHANGED <<loop, counters, cancelled, late>>

\* Mutant: the iterations are not counted.
NextIterationUncounted(a) ==
    /\ Go("request") /\ attempt' = 0 /\ streams' = 0
    /\ agent' = a /\ call' = NoCall
    /\ UNCHANGED iteration

\* The result of a tool goes to the model in the next iteration of agent a.
NextIteration(a) ==
    /\ IF iteration[a] = MaxIterations
         THEN End("failed") /\ UNCHANGED <<iteration, attempt, streams>>
         ELSE /\ Go("request") /\ attempt' = 0 /\ streams' = 0
              /\ iteration' = [iteration EXCEPT ![a] = @ + 1]
    /\ agent' = a /\ call' = NoCall

\* A reply without a tool call ends the run, or the worker: its answer is the
\* result of the main agent's task call.  Only the main agent's reply must
\* not be empty.
Reply(empty) ==
    /\ pc = "stream"
    /\ IF agent = "worker"
         THEN NextIteration("operator")
         ELSE End(IF empty THEN "blocked" ELSE "answered") /\ UNCHANGED loop
    /\ UNCHANGED <<counters, cancelled, late>>

-----------------------------------------------------------------------------
(* Tools                                                                   *)

ToolsOf(a) == IF a = "operator" THEN Wrapped \cup Observed ELSE Wrapped

\* The reply asks for a call; its context is looked at before the tool.
CallTool(t) ==
    /\ pc = "stream" /\ t \in ToolsOf(agent)
    /\ IF cancelled THEN End("cancelled") ELSE Go("tool")
    /\ call' = [tool |-> t, request |-> NoRequest]
    /\ late' = (late \/ (cancelled /\ pc' = "tool"))
    /\ UNCHANGED <<attempt, agent, iteration, streams, counters, cancelled>>

\* A task with good arguments starts a worker.
Delegate ==
    /\ pc = "tool" /\ call.tool = "task" /\ agent = "operator"
    /\ agent' = "worker" /\ iteration' = [iteration EXCEPT !["worker"] = 1]
    /\ Go("request") /\ attempt' = 0 /\ streams' = 0 /\ call' = NoCall
    /\ UNCHANGED <<counters, cancelled, late>>

ToolReturns ==
    /\ pc = "tool"
    /\ NextIteration(agent)
    /\ UNCHANGED <<counters, cancelled, late>>

\* Cancellation, an approval interrupt, a storage fault and an unknown result
\* keep their control flow.
ToolFails(o) ==
    /\ pc = "tool"
    /\ End(IF cancelled THEN "cancelled" ELSE o)
    /\ UNCHANGED <<loop, counters, cancelled, late>>

\* Mutant: the limit is looked at before the failure is counted.
TooOftenLate(c, r) == attempts[c][r] > RequestLimit

TooOften(c, r) == attempts[c][r] + 1 > RequestLimit

\* Wrong arguments, or a correctableError of the tool.
Correctable(r) ==
    LET c == CounterOf(call.tool)
    IN  /\ pc = "tool"
        /\ attempts' = [attempts EXCEPT ![c][r] = @ + 1]
        /\ call' = [tool |-> call.tool, request |-> r]
        /\ IF TooOften(c, r) THEN End("blocked") ELSE Go("feedback")
        /\ UNCHANGED <<attempt, agent, iteration, streams, failures, given,
                       corrections, cancelled, late>>

\* correctionBudget.take
take == failures' = failures + 1 /\ failures < BudgetLimit
takeFails == failures' = failures + 1 /\ failures >= BudgetLimit

\* The recoveryTool inside runtimeObserver has no budget.
HasBudget == call.tool \in Wrapped

GiveFeedback ==
    LET c == CounterOf(call.tool)
    IN  /\ pc = "feedback"
        /\ IF HasBudget THEN take ELSE UNCHANGED failures
        /\ given' = [given EXCEPT ![c][call.request] = @ + 1]
        /\ corrections' = IF HasBudget THEN corrections + 1 ELSE corrections
        /\ NextIteration(agent)
        /\ UNCHANGED <<attempts, cancelled, late>>

OutOfBudget ==
    /\ pc = "feedback" /\ HasBudget
    /\ takeFails
    /\ End("blocked")
    /\ UNCHANGED <<loop, attempts, given, corrections, cancelled, late>>

\* The record of the feedback cannot be stored.
RecordFails ==
    /\ pc = "feedback" /\ HasBudget
    /\ take
    /\ End("failed")
    /\ UNCHANGED <<loop, attempts, given, corrections, cancelled, late>>

CancelTurn ==
    /\ pc # "ended" /\ ~cancelled
    /\ cancelled' = TRUE
    /\ UNCHANGED <<pc, loop, counters, outcome, late>>

-----------------------------------------------------------------------------
TurnStep ==
    \/ Request \/ Established \/ BackOff \/ BackOffCancelled
    \/ \E kind \in {"transient", "known", "other"} : RequestFails(kind)
    \/ StreamBreaks \/ \E empty \in BOOLEAN : Reply(empty)
    \/ \E t \in Wrapped \cup Observed : CallTool(t)
    \/ Delegate \/ ToolReturns \/ \E o \in {"failed", "waiting"} : ToolFails(o)
    \/ \E r \in Requests : Correctable(r)
    \/ GiveFeedback \/ OutOfBudget \/ RecordFails

TurnNext == TurnStep \/ CancelTurn

TurnSpec == TurnInit /\ [][TurnNext]_turnVars

(***************************************************************************)
(* Fairness: requests to the model have a timeout of 180 seconds (models.  *)
(* go) and tool calls one of their own, so each step is taken in the end.  *)
(***************************************************************************)
FairTurnSpec == TurnSpec /\ WF_turnVars(TurnStep)

-----------------------------------------------------------------------------
(* Properties                                                              *)

\* The same wrong request gets feedback at most RequestLimit times, by the
\* main agent and the worker together.
SameRequestStops ==
    \A c \in Counters, r \in Requests : given[c][r] <= RequestLimit

\* Changing the tool does not help: wrapped tools give at most BudgetLimit
\* feedbacks in a run, to the main agent and the worker together.
BudgetIsShared == corrections <= BudgetLimit

\* Once a stream was established, an iteration opens no other: text and tool
\* calls that were already seen are not repeated.
NoReplay == streams <= 1

\* After the cancel no request to the model and no tool call is started.
NothingAfterCancel == ~late

\* A run is bounded in all it may repeat: feedback to the model, streams of an
\* iteration, and anything at all once it was cancelled.
TurnIsBounded == TurnTypeOK /\ SameRequestStops /\ BudgetIsShared /\ NoReplay /\ NothingAfterCancel

\* A run that has turned to the model ends, whatever the model does.
RunEnds == pc = "calling" ~> pc = "ended"
=============================================================================
