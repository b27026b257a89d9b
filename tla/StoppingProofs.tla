--------------------------- MODULE StoppingProofs ---------------------------
(***************************************************************************)
(* How one run and one command stop, for any limits, tools, requests,      *)
(* streams and chunks.  A run is bounded because feedback is counted       *)
(* before it is given.  What Command returns is final because the gate is  *)
(* closed in front of the return, or both streams have ended.              *)
(***************************************************************************)
EXTENDS ModelTurn, RemoteCommand, FiniteSetTheorems, SequenceTheorems, TLAPS

(***************************************************************************)
(* One run of the assistant                                                *)
(***************************************************************************)

\* A retry is only waited for while one is left; a call of a tool that gets
\* feedback is known by its tool and its request.
PlaceInv ==
    /\ pc = "backoff" => ~LastAttempt
    /\ pc \in {"tool", "feedback"} => call.tool \in Wrapped \cup Observed
    /\ pc = "feedback" => call.request \in Requests

\* Feedback is counted before it is given, and one that is owed was counted
\* within the limit.
CountInv ==
    /\ \A c \in Counters, r \in Requests : given[c][r] <= attempts[c][r] /\ given[c][r] <= RequestLimit
    /\ pc = "feedback" =>
         LET c == CounterOf(call.tool)
         IN  given[c][call.request] < attempts[c][call.request] /\ attempts[c][call.request] <= RequestLimit

BudgetInv == corrections <= failures /\ corrections <= BudgetLimit

StreamInv == streams <= 1 /\ (pc \in {"request", "calling", "backoff"} => streams = 0)

TurnInv == TurnTypeOK /\ PlaceInv /\ CountInv /\ BudgetInv /\ StreamInv /\ NothingAfterCancel

-----------------------------------------------------------------------------
LEMMA CounterIsCounter == \A t : CounterOf(t) \in Counters
BY DEF CounterOf, Counters

LEMMA TurnInitInv == TurnInit => TurnInv
<1> SUFFICES ASSUME TurnInit PROVE TurnInv
  OBVIOUS
<1>1. attempt \in 0..(CallLimit - 1) /\ iteration \in [Agents -> 1..MaxIterations]
  BY TurnAssumption DEF TurnInit
<1>2. attempts \in Count /\ given \in Count
  BY DEF TurnInit, Count
<1>3. TurnTypeOK
  BY <1>1, <1>2 DEF TurnInit, TurnTypeOK, Agents, Outcome, NoCall
<1>4. CountInv
  BY TurnAssumption DEF TurnInit, CountInv
<1>5. PlaceInv /\ BudgetInv /\ StreamInv /\ NothingAfterCancel
  BY TurnAssumption DEF TurnInit, PlaceInv, BudgetInv, StreamInv, NothingAfterCancel
<1>6. QED
  BY <1>3, <1>4, <1>5 DEF TurnInv

\* Steps that give no feedback and ask for none.
LEMMA CountersKept ==
    ASSUME TurnInv, UNCHANGED counters, pc' # "feedback"
    PROVE  /\ attempts' \in Count /\ given' \in Count /\ failures' \in Nat /\ corrections' \in Nat
           /\ CountInv' /\ BudgetInv'
BY DEF TurnInv, TurnTypeOK, CountInv, BudgetInv, counters

\* What NextIteration does to the loop of an agent.
LEMMA NextIterationGives ==
    ASSUME TurnInv, NEW a \in Agents, NextIteration(a)
    PROVE  /\ pc' \in {"request", "ended"} /\ outcome' \in Outcome
           /\ attempt' \in 0..(CallLimit - 1) /\ agent' \in Agents
           /\ iteration' \in [Agents -> 1..MaxIterations]
           /\ call' = NoCall /\ streams' \in Nat
           /\ PlaceInv' /\ StreamInv'
<1>1. TurnTypeOK /\ StreamInv /\ iteration \in [Agents -> 1..MaxIterations] /\ iteration[a] \in 1..MaxIterations
  BY DEF TurnInv, TurnTypeOK
<1>2. agent' \in Agents /\ call' = NoCall
  BY DEF NextIteration
<1>3. CASE iteration[a] = MaxIterations
  BY <1>1, <1>2, <1>3 DEF NextIteration, End, Outcome, TurnTypeOK, StreamInv, PlaceInv
<1>4. CASE iteration[a] # MaxIterations
  <2>1. /\ pc' = "request" /\ outcome' = outcome /\ attempt' = 0 /\ streams' = 0
        /\ iteration' = [iteration EXCEPT ![a] = @ + 1]
    BY <1>4 DEF NextIteration, Go
  <2>2. iteration[a] + 1 \in 1..MaxIterations
    BY <1>1, <1>4, TurnAssumption
  <2>3. iteration' \in [Agents -> 1..MaxIterations]
    BY <1>1, <2>1, <2>2
  <2>4. attempt' \in 0..(CallLimit - 1)
    BY <2>1, TurnAssumption
  <2>5. QED
    BY <1>1, <1>2, <2>1, <2>3, <2>4 DEF TurnTypeOK, StreamInv, PlaceInv
<1>5. QED
  BY <1>3, <1>4

LEMMA NoCallType ==
    NoCall \in [tool : Wrapped \cup Observed \cup {NoTool}, request : Requests \cup {NoRequest}]
BY DEF NoCall

-----------------------------------------------------------------------------
\* Requests to the model, breaks of a stream and the cancel.
LEMMA RequestSteps ==
    ASSUME TurnInv,
           \/ Request \/ Established \/ BackOff \/ BackOffCancelled
           \/ \E kind \in {"transient", "known", "other"} : RequestFails(kind)
           \/ StreamBreaks
    PROVE  TurnInv'
<1>1. /\ TurnTypeOK /\ PlaceInv /\ StreamInv /\ NothingAfterCancel
      /\ UNCHANGED <<agent, iteration, call, attempts, failures, given, corrections, cancelled>>
      /\ pc' # "feedback" /\ pc' # "tool" /\ outcome' \in Outcome
      /\ pc' \in {"request", "calling", "backoff", "stream", "ended"}
  BY DEF TurnInv, TurnTypeOK, Request, Established, BackOff, BackOffCancelled, RequestFails,
         StreamBreaks, End, Go, loop, counters, Outcome
<1>2. CountInv' /\ BudgetInv'
  BY <1>1, CountersKept DEF counters
<1>3. NothingAfterCancel' /\ late' \in BOOLEAN
  <2>1. CASE Request
    BY <1>1, <2>1 DEF Request, NothingAfterCancel, TurnTypeOK
  <2>2. CASE ~Request
    <3>1. late' = late
      BY <2>2 DEF Established, BackOff, BackOffCancelled, RequestFails, StreamBreaks
    <3>2. QED
      BY <1>1, <3>1 DEF NothingAfterCancel, TurnTypeOK
  <2>3. QED
    BY <2>1, <2>2
<1>4. attempt' \in 0..(CallLimit - 1) /\ streams' \in Nat
  <2>1. CASE BackOff
    BY <1>1, <2>1, TurnAssumption DEF BackOff, PlaceInv, LastAttempt, TurnTypeOK
  <2>2. CASE ~BackOff
    BY <1>1, <2>2 DEF Request, Established, BackOffCancelled, RequestFails, StreamBreaks, loop, TurnTypeOK
  <2>3. QED
    BY <2>1, <2>2
<1>5. PlaceInv'
  BY <1>1 DEF Request, Established, BackOff, BackOffCancelled, RequestFails, StreamBreaks, loop,
              End, Go, PlaceInv, LastAttempt
<1>6. StreamInv'
  BY <1>1 DEF Request, Established, BackOff, BackOffCancelled, RequestFails, StreamBreaks, loop,
              End, Go, StreamInv
<1>7. TurnTypeOK'
  BY <1>1, <1>3, <1>4 DEF TurnTypeOK
<1>8. QED
  BY <1>2, <1>3, <1>5, <1>6, <1>7 DEF TurnInv

LEMMA CancelStep ==
    ASSUME TurnInv, CancelTurn
    PROVE  TurnInv'
BY DEF CancelTurn, TurnInv, TurnTypeOK, PlaceInv, LastAttempt, CountInv, BudgetInv, StreamInv,
       NothingAfterCancel, loop, counters

\* The run goes on with the next iteration of an agent.
LEMMA GoesOn ==
    ASSUME TurnInv, NEW a \in Agents, NextIteration(a), UNCHANGED <<counters, cancelled, late>>
    PROVE  TurnInv'
<1>1. /\ pc' \in {"request", "ended"} /\ outcome' \in Outcome
      /\ attempt' \in 0..(CallLimit - 1) /\ agent' \in Agents
      /\ iteration' \in [Agents -> 1..MaxIterations]
      /\ call' = NoCall /\ streams' \in Nat
      /\ PlaceInv' /\ StreamInv'
  BY NextIterationGives
<1>2. /\ attempts' \in Count /\ given' \in Count /\ failures' \in Nat /\ corrections' \in Nat
      /\ CountInv' /\ BudgetInv'
  BY <1>1, CountersKept
<1>3. TurnTypeOK'
  BY <1>1, <1>2, NoCallType DEF TurnInv, TurnTypeOK
<1>4. QED
  BY <1>1, <1>2, <1>3 DEF TurnInv, NothingAfterCancel

\* The run ends without another feedback.
LEMMA Ends ==
    ASSUME TurnInv, NEW o \in Outcome, End(o), UNCHANGED <<loop, counters, cancelled, late>>
    PROVE  TurnInv'
<1>1. pc' = "ended"
  BY DEF End
<1>2. /\ attempts' \in Count /\ given' \in Count /\ failures' \in Nat /\ corrections' \in Nat
      /\ CountInv' /\ BudgetInv'
  BY <1>1, CountersKept
<1>3. TurnTypeOK'
  BY <1>1, <1>2 DEF TurnInv, TurnTypeOK, End, loop
<1>4. QED
  BY <1>1, <1>2, <1>3 DEF TurnInv, NothingAfterCancel, PlaceInv, StreamInv, loop

LEMMA ReplyStep ==
    ASSUME TurnInv, NEW empty \in BOOLEAN, Reply(empty)
    PROVE  TurnInv'
<1>1. CASE agent = "worker"
  BY <1>1, GoesOn DEF Reply, Agents
<1>2. CASE agent # "worker"
  BY <1>2, Ends DEF Reply, Outcome
<1>3. QED
  BY <1>1, <1>2

LEMMA ToolReturnsStep ==
    ASSUME TurnInv, ToolReturns
    PROVE  TurnInv'
BY GoesOn DEF ToolReturns, TurnInv, TurnTypeOK

LEMMA ToolFailsStep ==
    ASSUME TurnInv, NEW o \in {"failed", "waiting"}, ToolFails(o)
    PROVE  TurnInv'
BY Ends DEF ToolFails, Outcome

LEMMA CallToolStep ==
    ASSUME TurnInv, NEW t \in Wrapped \cup Observed, CallTool(t)
    PROVE  TurnInv'
<1>1. /\ pc' \in {"tool", "ended"} /\ outcome' \in Outcome /\ (cancelled => pc' = "ended")
      /\ call' = [tool |-> t, request |-> NoRequest] /\ UNCHANGED counters
  BY DEF CallTool, End, Go, Outcome, TurnInv, TurnTypeOK
<1>2. /\ attempts' \in Count /\ given' \in Count /\ failures' \in Nat /\ corrections' \in Nat
      /\ CountInv' /\ BudgetInv'
  BY <1>1, CountersKept
<1>3. late' = FALSE
  BY <1>1 DEF CallTool, TurnInv, TurnTypeOK, NothingAfterCancel
<1>4. call' \in [tool : Wrapped \cup Observed \cup {NoTool}, request : Requests \cup {NoRequest}]
  BY <1>1
<1>5. TurnTypeOK'
  BY <1>1, <1>2, <1>3, <1>4 DEF CallTool, TurnInv, TurnTypeOK
<1>6. PlaceInv' /\ StreamInv'
  BY <1>1 DEF CallTool, TurnInv, PlaceInv, StreamInv
<1>7. QED
  BY <1>2, <1>3, <1>5, <1>6 DEF TurnInv, NothingAfterCancel

LEMMA DelegateStep ==
    ASSUME TurnInv, Delegate
    PROVE  TurnInv'
<1>1. /\ pc' = "request" /\ agent' = "worker" /\ attempt' = 0 /\ streams' = 0 /\ call' = NoCall
      /\ iteration' = [iteration EXCEPT !["worker"] = 1] /\ outcome' = outcome
      /\ UNCHANGED <<counters, cancelled, late>>
  BY DEF Delegate, Go
<1>2. /\ attempts' \in Count /\ given' \in Count /\ failures' \in Nat /\ corrections' \in Nat
      /\ CountInv' /\ BudgetInv'
  BY <1>1, CountersKept
<1>3. attempt' \in 0..(CallLimit - 1) /\ 1 \in 1..MaxIterations
  BY <1>1, TurnAssumption
<1>4. iteration' \in [Agents -> 1..MaxIterations]
  BY <1>1, <1>3 DEF TurnInv, TurnTypeOK
<1>5. TurnTypeOK'
  BY <1>1, <1>2, <1>3, <1>4, NoCallType DEF TurnInv, TurnTypeOK, Agents
<1>6. PlaceInv' /\ StreamInv' /\ NothingAfterCancel'
  BY <1>1 DEF TurnInv, PlaceInv, StreamInv, NothingAfterCancel
<1>7. QED
  BY <1>2, <1>5, <1>6 DEF TurnInv

-----------------------------------------------------------------------------
(* Feedback                                                                *)

\* One more in a counter.
LEMMA CountOne ==
    ASSUME NEW f \in Count, NEW c \in Counters, NEW r \in Requests,
           NEW g, g = [f EXCEPT ![c][r] = @ + 1]
    PROVE  /\ g \in Count /\ g[c][r] = f[c][r] + 1
           /\ \A d \in Counters, q \in Requests : d # c \/ q # r => g[d][q] = f[d][q]
           /\ \A d \in Counters, q \in Requests : f[d][q] \in Nat /\ f[d][q] <= g[d][q]
<1>1. \A d \in Counters, q \in Requests : f[d][q] \in Nat
  BY DEF Count
<1>2. g \in Count
  BY <1>1 DEF Count
<1>3. g[c][r] = f[c][r] + 1
  BY DEF Count
<1>4. \A d \in Counters, q \in Requests : d # c \/ q # r => g[d][q] = f[d][q]
  BY DEF Count
<1>5. QED
  BY <1>1, <1>2, <1>3, <1>4

LEMMA CorrectableStep ==
    ASSUME TurnInv, NEW r \in Requests, Correctable(r)
    PROVE  TurnInv'
<1> DEFINE c == CounterOf(call.tool)
<1>1. c \in Counters /\ TurnTypeOK /\ CountInv /\ attempts \in Count /\ given \in Count
      /\ call.tool \in Wrapped \cup Observed
  BY CounterIsCounter DEF TurnInv, TurnTypeOK, PlaceInv, Correctable
<1>2. /\ attempts' = [attempts EXCEPT ![c][r] = @ + 1] /\ call' = [tool |-> call.tool, request |-> r]
      /\ UNCHANGED <<attempt, agent, iteration, streams, failures, given, corrections, cancelled, late>>
      /\ pc' \in {"feedback", "ended"} /\ outcome' \in Outcome
      /\ pc' = "feedback" => ~TooOften(c, r)
  BY <1>1 DEF Correctable, End, Go, Outcome, TurnTypeOK
<1> HIDE DEF c
<1>3. /\ attempts' \in Count /\ attempts'[c][r] = attempts[c][r] + 1
      /\ \A d \in Counters, q \in Requests : attempts[d][q] \in Nat /\ attempts[d][q] <= attempts'[d][q]
      /\ \A d \in Counters, q \in Requests : attempts'[d][q] \in Nat
  BY <1>1, <1>2, CountOne DEF Count
<1>4. \A d \in Counters, q \in Requests : given[d][q] \in Nat
  BY <1>1 DEF Count
<1>5. call' \in [tool : Wrapped \cup Observed \cup {NoTool}, request : Requests \cup {NoRequest}]
  BY <1>1, <1>2
<1>6. TurnTypeOK'
  BY <1>1, <1>2, <1>3, <1>5 DEF TurnTypeOK
<1>7. call'.tool = call.tool /\ call'.request = r
  BY <1>2
<1>8. CountInv'
  <2>1. \A d \in Counters, q \in Requests : given'[d][q] <= attempts'[d][q] /\ given'[d][q] <= RequestLimit
    BY <1>1, <1>2, <1>3, <1>4 DEF CountInv
  <2>2. ASSUME pc' = "feedback"
        PROVE  given'[c][r] < attempts'[c][r] /\ attempts'[c][r] <= RequestLimit
    BY <1>1, <1>2, <1>3, <1>4, <2>2, TurnAssumption DEF CountInv, TooOften
  <2>3. CounterOf(call'.tool) = c
    BY <1>7 DEF c
  <2>4. QED
    BY <1>7, <2>1, <2>2, <2>3 DEF CountInv
<1>9. PlaceInv' /\ StreamInv' /\ BudgetInv' /\ NothingAfterCancel'
  BY <1>1, <1>2, <1>7 DEF TurnInv, PlaceInv, StreamInv, BudgetInv, NothingAfterCancel
<1>10. QED
  BY <1>6, <1>8, <1>9 DEF TurnInv

LEMMA GiveFeedbackStep ==
    ASSUME TurnInv, GiveFeedback
    PROVE  TurnInv'
<1> DEFINE c == CounterOf(call.tool)
           r == call.request
<1>1. /\ c \in Counters /\ r \in Requests /\ TurnTypeOK /\ CountInv /\ BudgetInv
      /\ attempts \in Count /\ given \in Count /\ agent \in Agents /\ pc = "feedback"
  BY CounterIsCounter DEF TurnInv, TurnTypeOK, PlaceInv, GiveFeedback
<1>2. /\ given' = [given EXCEPT ![c][r] = @ + 1] /\ UNCHANGED <<attempts, cancelled, late>>
      /\ NextIteration(agent)
  BY DEF GiveFeedback
<1>3. given[c][r] < attempts[c][r] /\ attempts[c][r] <= RequestLimit
  BY <1>1 DEF CountInv
<1>4. /\ pc' \in {"request", "ended"} /\ outcome' \in Outcome
      /\ attempt' \in 0..(CallLimit - 1) /\ agent' \in Agents
      /\ iteration' \in [Agents -> 1..MaxIterations]
      /\ call' = NoCall /\ streams' \in Nat
      /\ PlaceInv' /\ StreamInv'
  BY <1>1, <1>2, NextIterationGives
<1>5. failures' \in Nat /\ corrections' \in Nat /\ BudgetInv'
  <2>1. failures \in Nat /\ corrections \in Nat /\ BudgetLimit \in Nat
    BY <1>1, TurnAssumption DEF TurnTypeOK
  <2>2. CASE HasBudget
    BY <1>1, <2>1, <2>2 DEF GiveFeedback, take, BudgetInv
  <2>3. CASE ~HasBudget
    BY <1>1, <2>1, <2>3 DEF GiveFeedback, BudgetInv
  <2>4. QED
    BY <2>2, <2>3
<1> HIDE DEF c, r
<1>6. /\ given' \in Count /\ given'[c][r] = given[c][r] + 1
      /\ \A d \in Counters, q \in Requests : d # c \/ q # r => given'[d][q] = given[d][q]
      /\ \A d \in Counters, q \in Requests : given[d][q] \in Nat /\ attempts[d][q] \in Nat
  BY <1>1, <1>2, CountOne DEF Count
<1>7. CountInv'
  <2>1. ASSUME NEW d \in Counters, NEW q \in Requests
        PROVE  given'[d][q] <= attempts'[d][q] /\ given'[d][q] <= RequestLimit
    <3>1. CASE d = c /\ q = r
      BY <1>1, <1>2, <1>3, <1>6, <3>1, TurnAssumption
    <3>2. CASE ~(d = c /\ q = r)
      BY <1>1, <1>2, <1>6, <3>2 DEF CountInv
    <3>3. QED
      BY <3>1, <3>2
  <2>2. QED
    BY <1>4, <2>1 DEF CountInv
<1>8. TurnTypeOK'
  BY <1>1, <1>2, <1>4, <1>5, <1>6, NoCallType DEF TurnTypeOK
<1>9. QED
  BY <1>2, <1>4, <1>5, <1>7, <1>8 DEF TurnInv, NothingAfterCancel

\* The feedback is counted against the budget, but not given.
LEMMA FeedbackEnds ==
    ASSUME TurnInv, OutOfBudget \/ RecordFails
    PROVE  TurnInv'
<1>1. /\ TurnTypeOK /\ CountInv /\ BudgetInv /\ failures' = failures + 1 /\ pc' = "ended"
      /\ outcome' \in Outcome /\ UNCHANGED <<loop, attempts, given, corrections, cancelled, late>>
  BY DEF TurnInv, OutOfBudget, RecordFails, End, take, takeFails, Outcome
<1>2. TurnTypeOK'
  BY <1>1 DEF TurnTypeOK, loop
<1>3. CountInv'
  BY <1>1 DEF CountInv
<1>4. BudgetInv'
  BY <1>1 DEF BudgetInv, TurnTypeOK
<1>5. QED
  BY <1>1, <1>2, <1>3, <1>4 DEF TurnInv, PlaceInv, StreamInv, NothingAfterCancel, loop

LEMMA TurnNextInv == TurnInv /\ [TurnNext]_turnVars => TurnInv'
<1> SUFFICES ASSUME TurnInv, [TurnNext]_turnVars PROVE TurnInv'
  OBVIOUS
<1>1. CASE TurnStep
  BY <1>1, RequestSteps, ReplyStep, CallToolStep, DelegateStep, ToolReturnsStep, ToolFailsStep,
     CorrectableStep, GiveFeedbackStep, FeedbackEnds DEF TurnStep
<1>2. CASE CancelTurn
  BY <1>2, CancelStep
<1>3. CASE UNCHANGED turnVars
  BY <1>3 DEF turnVars, TurnInv, TurnTypeOK, PlaceInv, LastAttempt, CountInv, BudgetInv, StreamInv,
              NothingAfterCancel
<1>4. QED
  BY <1>1, <1>2, <1>3 DEF TurnNext

\* The counters and the place of a run fit together, for any limits, tools and
\* requests.
THEOREM TurnInvariance == TurnSpec => []TurnInv
BY TurnInitInv, TurnNextInv, PTL DEF TurnSpec

\* Whatever the model does: the same wrong request gets feedback at most
\* RequestLimit times, all wrong requests together at most BudgetLimit times,
\* an iteration opens one stream, and nothing starts after the cancel.
THEOREM TurnIsBoundedTheorem == TurnSpec => []TurnIsBounded
<1>1. TurnInv => TurnIsBounded
  BY DEF TurnInv, TurnIsBounded, CountInv, SameRequestStops, BudgetInv, BudgetIsShared, StreamInv, NoReplay
<1>2. QED
  BY <1>1, TurnInvariance, PTL

-----------------------------------------------------------------------------
(***************************************************************************)
(* One command on a server                                                 *)
(***************************************************************************)

\* The goroutines of the streams start with the command.
OpenInv ==
    /\ main \in {"session", "start"} => \A s \in Streams : copier[s] = "idle"
    /\ (\E s \in Streams : copier[s] = "idle") =>
          done = "empty" /\ \A s \in Streams : copier[s] = "idle" /\ copied[s] = 0
    /\ main \notin {"session", "start", "returned"} => \A s \in Streams : copier[s] # "idle"

\* The gate is with the stream that writes.
GateInv == \A s \in Streams : copier[s] = "write" <=> gate = s

\* The gate is closed when Command gives up, and only then.
GivenUpInv ==
    /\ gateClosed => gate = Nobody /\ main \in {"closing", "returned"}
    /\ main = "closing" => gateClosed
    /\ main = "returned" => gateClosed \/ done # "empty" \/ \A s \in Streams : copier[s] = "idle"
    /\ main # "returned" => result = "none"
    /\ result = "exit" => done = "exit" /\ ~gateClosed

\* Wait answers when both streams have ended.
WaitInv ==
    /\ done # "empty" => \A s \in Streams : copier[s] \in {"ended", "error"}
    /\ done = "exit" => proc = "exited"

OutputInv ==
    /\ main = "returned" => output = prefix
    /\ EventsAreOutput

\* An answer that was there when the context ended is taken by the first poll.
EarlyInv ==
    /\ ~ended => main \in {"session", "start", "select", "returned"}
    /\ early => done # "empty" /\ main \in {"select", "poll", "returned"} /\ result # "unknown"

\* A chunk that was read is in the artifact, or its stream is about to write it.
Pending(s) == IF copier[s] \in {"wait", "write"} THEN 1 ELSE 0

ArtifactInv ==
    \A s \in Streams :
        /\ ~failed /\ ~gateClosed => InArtifact(s) + Pending(s) = copied[s]
        /\ copier[s] = "error" => failed
        /\ link /\ copier[s] = "ended" /\ (main # "returned" \/ result = "exit") =>
             proc = "exited" /\ copied[s] = emitted[s]

CommandInv ==
    /\ CommandTypeOK /\ OpenInv /\ GateInv /\ GivenUpInv /\ WaitInv /\ OutputInv /\ EarlyInv /\ ArtifactInv

-----------------------------------------------------------------------------
LEMMA InArtifactIsNat ==
    ASSUME CommandTypeOK, NEW s \in Streams
    PROVE  InArtifact(s) \in Nat
<1>1. DOMAIN artifact = 1..Len(artifact) /\ Len(artifact) \in Nat
  BY LenProperties DEF CommandTypeOK
<1>2. IsFiniteSet(1..Len(artifact))
  BY <1>1, FS_Interval
<1>3. IsFiniteSet({i \in DOMAIN artifact : artifact[i] = s})
  BY <1>1, <1>2, FS_Subset
<1>4. QED
  BY <1>3, FS_CardinalityType DEF InArtifact

\* A chunk more in the artifact.
LEMMA InArtifactMore ==
    ASSUME CommandTypeOK, NEW s \in Streams, artifact' = Append(artifact, s)
    PROVE  /\ artifact' \in Seq(Streams)
           /\ InArtifact(s)' = InArtifact(s) + 1
           /\ \A t \in Streams \ {s} : InArtifact(t)' = InArtifact(t)
           /\ \A t \in Streams : InArtifact(t) \in Nat
<1> DEFINE At(t) == {i \in 1..Len(artifact) : artifact[i] = t}
           AtNext(t) == {i \in 1..Len(artifact') : artifact'[i] = t}
<1>1. /\ artifact \in Seq(Streams) /\ artifact' \in Seq(Streams)
      /\ Len(artifact) \in Nat /\ Len(artifact') = Len(artifact) + 1
      /\ artifact'[Len(artifact) + 1] = s
      /\ \A i \in 1..Len(artifact) : artifact'[i] = artifact[i]
      /\ DOMAIN artifact = 1..Len(artifact) /\ DOMAIN artifact' = 1..Len(artifact')
  BY AppendProperties, LenProperties DEF CommandTypeOK
<1>2. \A t \in Streams : InArtifact(t) = Cardinality(At(t)) /\ InArtifact(t)' = Cardinality(AtNext(t))
  BY <1>1 DEF InArtifact
<1>3. \A t \in Streams : IsFiniteSet(At(t))
  <2>1. IsFiniteSet(1..Len(artifact))
    BY <1>1, FS_Interval
  <2>2. QED
    BY <2>1, FS_Subset
<1>4. AtNext(s) = At(s) \cup {Len(artifact) + 1} /\ Len(artifact) + 1 \notin At(s)
  BY <1>1
<1>5. \A t \in Streams \ {s} : AtNext(t) = At(t)
  BY <1>1
<1>6. \A t \in Streams : Cardinality(At(t)) \in Nat
  BY <1>3, FS_CardinalityType
<1> HIDE DEF At, AtNext
<1>7. Cardinality(AtNext(s)) = Cardinality(At(s)) + 1
  BY <1>3, <1>4, FS_AddElement
<1>8. QED
  BY <1>1, <1>2, <1>5, <1>6, <1>7

LEMMA CommandInitInv == CommandInit => CommandInv
<1> SUFFICES ASSUME CommandInit PROVE CommandInv
  OBVIOUS
<1>1. \A s \in Streams : InArtifact(s) = 0
  <2>1. \A s \in Streams : {i \in DOMAIN artifact : artifact[i] = s} = {}
    BY DEF CommandInit
  <2>2. QED
    BY <2>1, FS_EmptySet DEF InArtifact
<1>2. CommandTypeOK
  <2>1. artifact \in Seq(Streams) /\ prefix \in Seq(Streams) /\ events \in Seq(Streams) /\ output \in Seq(Streams)
    BY EmptySeq DEF CommandInit
  <2>2. emitted \in [Streams -> 0..MaxChunks] /\ copied \in [Streams -> 0..MaxChunks]
    BY CommandAssumption DEF CommandInit
  <2>3. QED
    BY <2>1, <2>2 DEF CommandInit, CommandTypeOK
<1>3. ArtifactInv
  BY <1>1 DEF CommandInit, ArtifactInv, Pending
<1>4. OpenInv /\ GateInv /\ GivenUpInv /\ WaitInv /\ OutputInv /\ EarlyInv
  BY CommandAssumption
     DEF CommandInit, OpenInv, GateInv, GivenUpInv, WaitInv, OutputInv, EventsAreOutput, EarlyInv
<1>5. QED
  BY <1>2, <1>3, <1>4 DEF CommandInv

LEMMA ServerSteps ==
    ASSUME CommandInv, (\E s \in Streams : Emit(s)) \/ Begin \/ Exit \/ Break \/ EndContext
    PROVE  CommandInv'
<1>1. UNCHANGED <<copying, gate, gateClosed, captured, done, reply>>
  BY DEF Emit, Begin, Exit, Break, EndContext
<1>2. CommandTypeOK /\ OpenInv /\ GateInv /\ GivenUpInv /\ WaitInv /\ OutputInv /\ EarlyInv /\ ArtifactInv
  BY DEF CommandInv
<1>3. CommandTypeOK'
  <2>1. /\ proc' \in {"none", "running", "exited"} /\ link' \in BOOLEAN /\ ended' \in BOOLEAN /\ early' \in BOOLEAN
    BY <1>2 DEF CommandTypeOK, Emit, Begin, Exit, Break, EndContext, server
  <2>2. emitted' \in [Streams -> 0..MaxChunks]
    <3>1. CASE \E s \in Streams : Emit(s)
      <4>1. PICK s \in Streams : Emit(s)
        BY <3>1
      <4>2. emitted[s] + 1 \in 0..MaxChunks
        BY <1>2, <4>1, CommandAssumption DEF CommandTypeOK, Emit
      <4>3. QED
        BY <1>2, <4>1, <4>2 DEF CommandTypeOK, Emit
    <3>2. CASE ~\E s \in Streams : Emit(s)
      BY <1>2, <3>2 DEF CommandTypeOK, Begin, Exit, Break, EndContext, server
    <3>3. QED
      BY <3>1, <3>2
  <2>3. QED
    BY <1>1, <1>2, <2>1, <2>2 DEF CommandTypeOK, copying, captured, reply
<1>4. OpenInv' /\ GateInv' /\ GivenUpInv' /\ OutputInv'
  BY <1>1, <1>2 DEF OpenInv, GateInv, GivenUpInv, OutputInv, EventsAreOutput, copying, captured, reply
<1>5. WaitInv'
  BY <1>1, <1>2 DEF WaitInv, copying, captured, reply, Emit, Begin, Exit, Break, EndContext, server
<1>6. EarlyInv'
  <2>1. CASE EndContext
    <3>1. /\ main \in {"session", "start", "select"} /\ result = "none" /\ ended' = TRUE
          /\ early' => done # "empty"
      BY <1>2, <2>1 DEF EndContext, EarlyInv, GivenUpInv
    <3>2. done # "empty" => main = "select"
      BY <1>2, <3>1, CommandAssumption DEF OpenInv, WaitInv
    <3>3. QED
      BY <1>1, <3>1, <3>2 DEF EarlyInv, reply
  <2>2. CASE ~EndContext
    <3>1. ended' = ended /\ early' = early
      BY <2>2 DEF Emit, Begin, Exit, Break
    <3>2. QED
      BY <1>1, <1>2, <3>1 DEF EarlyInv, reply
  <2>3. QED
    BY <2>1, <2>2
<1>7. ArtifactInv'
  <2>1. \A s \in Streams : InArtifact(s)' = InArtifact(s) /\ Pending(s)' = Pending(s)
    BY <1>1 DEF InArtifact, Pending, copying, captured
  <2>2. ASSUME NEW s \in Streams, link', copier'[s] = "ended", main' # "returned" \/ result' = "exit"
        PROVE  proc' = "exited" /\ copied'[s] = emitted'[s]
    BY <1>1, <1>2, <2>2 DEF ArtifactInv, copying, reply, Emit, Begin, Exit, Break, EndContext, server
  <2>3. QED
    BY <1>1, <1>2, <2>1, <2>2 DEF ArtifactInv, copying, captured
<1>8. QED
  BY <1>3, <1>4, <1>5, <1>6, <1>7 DEF CommandInv

\* A stream that reads, ends or waits for the gate.
LEMMA CopySteps ==
    ASSUME CommandInv, NEW s \in Streams, Read(s) \/ StreamEnds(s) \/ EnterGate(s)
    PROVE  CommandInv'
<1>1. UNCHANGED <<server, gateClosed, captured, ended, done, reply, early>>
  BY DEF Read, StreamEnds, EnterGate
<1>2. CommandTypeOK /\ OpenInv /\ GateInv /\ GivenUpInv /\ WaitInv /\ OutputInv /\ EarlyInv /\ ArtifactInv
  BY DEF CommandInv
<1>3. CommandTypeOK'
  <2>1. /\ copier' \in [Streams -> {"idle", "read", "wait", "write", "ended", "error"}]
        /\ gate' \in Streams \cup {Nobody}
    BY <1>2 DEF CommandTypeOK, Read, StreamEnds, EnterGate
  <2>2. copied' \in [Streams -> 0..MaxChunks]
    <3>1. CASE Read(s)
      <4>1. copied[s] + 1 \in 0..MaxChunks
        BY <1>2, <3>1, CommandAssumption DEF CommandTypeOK, Read
      <4>2. QED
        BY <1>2, <3>1, <4>1 DEF CommandTypeOK, Read
    <3>2. CASE ~Read(s)
      BY <1>2, <3>2 DEF CommandTypeOK, StreamEnds, EnterGate
    <3>3. QED
      BY <3>1, <3>2
  <2>3. QED
    BY <1>1, <1>2, <2>1, <2>2 DEF CommandTypeOK, server, captured, reply
<1>4. \A t \in Streams \ {s} : copier'[t] = copier[t] /\ copied'[t] = copied[t]
  BY <1>2 DEF CommandTypeOK, Read, StreamEnds, EnterGate
<1>5. copier[s] \in {"read", "wait"} /\ done = "empty" /\ done' = "empty"
  BY <1>1, <1>2 DEF WaitInv, CommandTypeOK, Read, StreamEnds, EnterGate
<1>6. GateInv'
  BY <1>2, <1>4, CommandAssumption DEF GateInv, CommandTypeOK, Read, StreamEnds, EnterGate
<1>7. GivenUpInv'
  BY <1>1, <1>2 DEF GivenUpInv, Read, StreamEnds, EnterGate, reply
<1>8. WaitInv' /\ OutputInv' /\ EarlyInv'
  BY <1>1, <1>2, <1>5 DEF WaitInv, OutputInv, EventsAreOutput, EarlyInv, captured, reply, server
<1>9. ArtifactInv'
  <2>1. \A t \in Streams : InArtifact(t)' = InArtifact(t)
    BY <1>1 DEF InArtifact, captured
  <2>2. ASSUME NEW t \in Streams
        PROVE  /\ ~failed' /\ ~gateClosed' => InArtifact(t)' + Pending(t)' = copied'[t]
               /\ copier'[t] = "error" => failed'
               /\ link' /\ copier'[t] = "ended" /\ (main' # "returned" \/ result' = "exit") =>
                    proc' = "exited" /\ copied'[t] = emitted'[t]
    <3>1. CASE t # s
      BY <1>1, <1>2, <1>4, <2>1, <3>1 DEF ArtifactInv, Pending, captured, server, reply
    <3>2. CASE t = s
      <4>1. /\ copied[s] \in Nat /\ InArtifact(s) \in Nat
            /\ ~failed /\ ~gateClosed => InArtifact(s) + Pending(s) = copied[s]
            /\ main = "returned" => result # "exit"
        BY <1>2, <1>5, InArtifactIsNat DEF CommandTypeOK, ArtifactInv, GivenUpInv
      <4>2. copier \in [Streams -> {"idle", "read", "wait", "write", "ended", "error"}] /\ copied \in [Streams -> 0..MaxChunks]
        BY <1>2 DEF CommandTypeOK
      <4>3. CASE Read(s)
        <5>1. copier[s] = "read" /\ copier'[s] = "wait" /\ copied'[s] = copied[s] + 1
          BY <4>2, <4>3 DEF Read
        <5>2. QED
          BY <1>1, <2>1, <3>2, <4>1, <5>1 DEF Pending, captured
      <4>4. CASE StreamEnds(s)
        <5>1. copier[s] = "read" /\ copier'[s] = "ended" /\ copied' = copied
          BY <4>2, <4>4 DEF StreamEnds
        <5>2. link /\ (main # "returned" \/ result = "exit") => proc = "exited" /\ copied[s] = emitted[s]
          BY <4>1, <4>4 DEF StreamEnds
        <5>3. QED
          BY <1>1, <2>1, <3>2, <4>1, <5>1, <5>2 DEF Pending, captured, server, reply
      <4>5. CASE EnterGate(s)
        <5>1. /\ copier[s] = "wait" /\ copied' = copied
              /\ copier'[s] = IF gateClosed THEN "read" ELSE "write"
          BY <4>2, <4>5 DEF EnterGate
        <5>2. QED
          BY <1>1, <2>1, <3>2, <4>1, <5>1 DEF Pending, captured
      <4>6. QED
        BY <4>3, <4>4, <4>5
    <3>3. QED
      BY <3>1, <3>2
  <2>3. QED
    BY <2>2 DEF ArtifactInv
<1>10. OpenInv'
  <2>1. \A t \in Streams : copier[t] # "idle" /\ copier'[t] # "idle"
    BY <1>2, <1>4, <1>5 DEF OpenInv, CommandTypeOK, Read, StreamEnds, EnterGate
  <2>2. QED
    BY <1>1, <1>2, <2>1, CommandAssumption DEF OpenInv, reply
<1>11. QED
  BY <1>3, <1>6, <1>7, <1>8, <1>9, <1>10 DEF CommandInv

\* A stream with the gate writes, and leaves it.
LEMMA WriteSteps ==
    ASSUME CommandInv, NEW s \in Streams, Write(s) \/ WriteFails(s)
    PROVE  CommandInv'
<1>1. UNCHANGED <<server, copied, gateClosed, ended, done, reply, early>>
  BY DEF Write, WriteFails
<1>2. CommandTypeOK /\ OpenInv /\ GateInv /\ GivenUpInv /\ WaitInv /\ OutputInv /\ EarlyInv /\ ArtifactInv
  BY DEF CommandInv
<1>3. copier[s] = "write" /\ gate = s /\ gate' = Nobody /\ s # Nobody
  BY <1>2, CommandAssumption DEF GateInv, Write, WriteFails
<1>4. ~gateClosed /\ done = "empty" /\ main # "returned" /\ main # "closing"
  BY <1>2, <1>3 DEF GivenUpInv, WaitInv
<1>5. /\ copier' \in [Streams -> {"idle", "read", "wait", "write", "ended", "error"}]
      /\ copier'[s] = IF Write(s) THEN "read" ELSE "error"
      /\ \A t \in Streams \ {s} : copier'[t] = copier[t] /\ copier'[t] # "write"
  <2>1. \A t \in Streams \ {s} : copier[t] # "write"
    BY <1>2, <1>3 DEF GateInv
  <2>2. CASE Write(s)
    BY <1>2, <2>1, <2>2 DEF Write, CommandTypeOK
  <2>3. CASE ~Write(s)
    BY <1>2, <2>1, <2>3 DEF WriteFails, CommandTypeOK
  <2>4. QED
    BY <2>2, <2>3
<1>6. /\ artifact' \in Seq(Streams) /\ prefix' \in Seq(Streams) /\ events' \in Seq(Streams)
      /\ failed' \in BOOLEAN
  <2>1. artifact \in Seq(Streams) /\ prefix \in Seq(Streams) /\ events \in Seq(Streams) /\ failed \in BOOLEAN
    BY <1>2 DEF CommandTypeOK
  <2>2. /\ Append(artifact, s) \in Seq(Streams) /\ Append(prefix, s) \in Seq(Streams)
        /\ Append(events, s) \in Seq(Streams)
    BY <2>1, AppendProperties
  <2>3. QED
    BY <2>1, <2>2 DEF Write, WriteFails, Keep, Report, Reports
<1>7. CommandTypeOK'
  BY <1>1, <1>2, <1>3, <1>5, <1>6 DEF CommandTypeOK, server, reply
<1>8. GateInv'
  BY <1>3, <1>5, CommandAssumption DEF GateInv
<1>9. GivenUpInv' /\ WaitInv' /\ EarlyInv'
  BY <1>1, <1>2, <1>3, <1>4 DEF GivenUpInv, WaitInv, EarlyInv, reply, server
<1>10. OutputInv'
  BY <1>1, <1>2, <1>4 DEF OutputInv, EventsAreOutput, Write, WriteFails, Keep, Report, Reports, reply
<1>11. ArtifactInv'
  <2>1. CASE Write(s)
    <3>1. artifact' = Append(artifact, s) /\ failed' = failed
      BY <2>1 DEF Write
    <3>2. /\ InArtifact(s)' = InArtifact(s) + 1 /\ InArtifact(s) \in Nat
          /\ \A t \in Streams \ {s} : InArtifact(t)' = InArtifact(t)
      BY <1>2, <3>1, InArtifactMore
    <3>3. QED
      BY <1>1, <1>2, <1>3, <1>5, <2>1, <3>1, <3>2 DEF ArtifactInv, Pending, server, reply
  <2>2. CASE ~Write(s)
    <3>1. failed' = TRUE
      BY <2>2 DEF WriteFails
    <3>2. QED
      BY <1>1, <1>2, <1>5, <2>2, <3>1 DEF ArtifactInv, server, reply
  <2>3. QED
    BY <2>1, <2>2
<1>12. OpenInv'
  <2>1. \A t \in Streams : copier[t] # "idle" /\ copier'[t] # "idle"
    BY <1>2, <1>3, <1>5 DEF OpenInv
  <2>2. QED
    BY <1>1, <1>2, <2>1, CommandAssumption DEF OpenInv, reply
<1>13. QED
  BY <1>7, <1>8, <1>9, <1>10, <1>11, <1>12 DEF CommandInv

LEMMA WaitStep ==
    ASSUME CommandInv, Wait
    PROVE  CommandInv'
<1>1. /\ UNCHANGED <<server, copying, gate, gateClosed, captured, ended, reply, early>>
      /\ done = "empty" /\ done' \in {"exit", "error"} /\ (done' = "exit" => proc = "exited")
      /\ \A s \in Streams : copier[s] \in {"ended", "error"}
  BY DEF Wait
<1>2. CommandTypeOK /\ OpenInv /\ GateInv /\ GivenUpInv /\ WaitInv /\ OutputInv /\ EarlyInv /\ ArtifactInv
  BY DEF CommandInv
<1>3. CommandTypeOK' /\ GateInv' /\ WaitInv' /\ OutputInv'
  BY <1>1, <1>2 DEF CommandTypeOK, GateInv, WaitInv, OutputInv, EventsAreOutput, server, copying, captured, reply
<1>4. GivenUpInv' /\ EarlyInv'
  BY <1>1, <1>2 DEF GivenUpInv, EarlyInv, reply
<1>5. ArtifactInv'
  BY <1>1, <1>2 DEF ArtifactInv, InArtifact, Pending, server, copying, captured, reply
<1>6. OpenInv'
  BY <1>1, <1>2, CommandAssumption DEF OpenInv, copying, reply
<1>7. QED
  BY <1>3, <1>4, <1>5, <1>6 DEF CommandInv

\* Opening the session and starting the command.
LEMMA OpenSteps ==
    ASSUME CommandInv, NewSession \/ Started \/ OpenFails
    PROVE  CommandInv'
<1>1. /\ UNCHANGED <<server, copied, gate, gateClosed, captured, ended, done, early>>
      /\ main \in {"session", "start"} /\ main' \in {"start", "select", "returned"}
      /\ result' \in {result, "error"} /\ output' \in {output, prefix}
  BY DEF NewSession, Started, OpenFails, ReturnWith, copying
<1>2. CommandTypeOK /\ OpenInv /\ GateInv /\ GivenUpInv /\ WaitInv /\ OutputInv /\ EarlyInv /\ ArtifactInv
  BY DEF CommandInv
<1>3. /\ \A s \in Streams : copier[s] = "idle" /\ copied[s] = 0
      /\ done = "empty" /\ ~gateClosed /\ ~early /\ result = "none"
  BY <1>1, <1>2, CommandAssumption DEF OpenInv, GivenUpInv, EarlyInv, CommandTypeOK
<1>4. /\ copier' \in [Streams -> {"idle", "read"}]
      /\ main' = "select" => \A s \in Streams : copier'[s] = "read"
      /\ main' # "select" => copier' = copier
  <2>1. copier \in [Streams -> {"idle", "read"}]
    BY <1>2, <1>3 DEF CommandTypeOK
  <2>2. CASE Started
    BY <1>3, <2>2 DEF Started
  <2>3. CASE ~Started
    BY <2>1, <2>3 DEF NewSession, OpenFails, ReturnWith, copying
  <2>4. QED
    BY <2>2, <2>3
<1>5. CommandTypeOK'
  BY <1>1, <1>2, <1>4 DEF CommandTypeOK, server, captured
<1>6. OpenInv' /\ WaitInv'
  BY <1>1, <1>3, <1>4 DEF OpenInv, WaitInv
<1>7. GateInv'
  <2>1. \A s \in Streams : gate # s
    BY <1>2, <1>3 DEF GateInv
  <2>2. QED
    BY <1>1, <1>4, <2>1 DEF GateInv
<1>8. main' = "returned" => output' = prefix /\ copier' = copier
  BY <1>1, <1>4 DEF NewSession, Started, OpenFails, ReturnWith
<1>9. main' # "returned" => result' = "none"
  BY <1>1, <1>3 DEF NewSession, Started, OpenFails, ReturnWith
<1>10. GivenUpInv' /\ EarlyInv'
  BY <1>1, <1>3, <1>8, <1>9 DEF GivenUpInv, EarlyInv
<1>11. OutputInv'
  BY <1>1, <1>2, <1>8 DEF OutputInv, EventsAreOutput, captured
<1>12. ArtifactInv'
  <2>1. ASSUME NEW s \in Streams
        PROVE  /\ ~failed' /\ ~gateClosed' => InArtifact(s)' + Pending(s)' = copied'[s]
               /\ copier'[s] \notin {"error", "ended"}
    <3>1. InArtifact(s)' = InArtifact(s) /\ copied' = copied /\ failed' = failed
      BY <1>1 DEF InArtifact, captured
    <3>2. Pending(s) = 0 /\ Pending(s)' = 0 /\ copier'[s] \notin {"error", "ended"}
      BY <1>3, <1>4 DEF Pending
    <3>3. ~failed /\ ~gateClosed => InArtifact(s) + Pending(s) = copied[s]
      BY <1>2 DEF ArtifactInv
    <3>4. QED
      BY <1>1, <3>1, <3>2, <3>3
  <2>2. QED
    BY <2>1 DEF ArtifactInv
<1>13. QED
  BY <1>5, <1>6, <1>7, <1>10, <1>11, <1>12 DEF CommandInv

\* What Command does once the command is started.
WaitsForExit == TakeExit \/ SeeCancel \/ Poll \/ Signal \/ GraceEnds \/ Freeze \/ ReturnUnknown

LEMMA CommandSteps ==
    ASSUME CommandInv, WaitsForExit
    PROVE  CommandInv'
<1>1. /\ UNCHANGED <<server, copying, gate, captured, ended, done, early>>
  BY DEF WaitsForExit, TakeExit, SeeCancel, Poll, Signal, GraceEnds, Freeze, ReturnUnknown
<1>2. CommandTypeOK /\ OpenInv /\ GateInv /\ GivenUpInv /\ WaitInv /\ OutputInv /\ EarlyInv /\ ArtifactInv
  BY DEF CommandInv
<1>3. main \notin {"session", "start", "returned"} /\ main' \notin {"session", "start"}
  BY DEF WaitsForExit, TakeExit, SeeCancel, Poll, Signal, GraceEnds, Freeze, ReturnUnknown, ReturnWith
<1>4. CommandTypeOK'
  <2>1. /\ main' \in {"select", "poll", "signal", "grace", "freeze", "closing", "returned"}
        /\ result' \in {"none", "exit", "error", "unknown"}
    BY <1>2 DEF CommandTypeOK, WaitsForExit, TakeExit, SeeCancel, Poll, Signal, GraceEnds, Freeze,
                ReturnUnknown, ReturnWith
  <2>2. output' \in Seq(Streams) /\ gateClosed' \in BOOLEAN
    BY <1>2 DEF CommandTypeOK, WaitsForExit, TakeExit, SeeCancel, Poll, Signal, GraceEnds, Freeze,
                ReturnUnknown, ReturnWith
  <2>3. QED
    BY <1>1, <1>2, <2>1, <2>2 DEF CommandTypeOK, server, copying, captured
<1>5. GateInv' /\ WaitInv'
  BY <1>1, <1>2 DEF GateInv, WaitInv, server, copying
<1>6. OutputInv'
  BY <1>1, <1>2 DEF OutputInv, EventsAreOutput, captured, WaitsForExit, TakeExit, SeeCancel, Poll, Signal,
                    GraceEnds, Freeze, ReturnUnknown, ReturnWith
<1>7. GivenUpInv'
  BY <1>1, <1>2 DEF GivenUpInv, CommandTypeOK, WaitsForExit, TakeExit, SeeCancel, Poll, Signal,
                    GraceEnds, Freeze, ReturnUnknown, ReturnWith
<1>8. EarlyInv'
  BY <1>1, <1>2 DEF EarlyInv, GivenUpInv, CommandTypeOK, WaitsForExit, TakeExit, SeeCancel, Poll, Signal,
                    GraceEnds, Freeze, ReturnUnknown, ReturnWith
<1>9. gateClosed' \/ ~gateClosed
  BY DEF WaitsForExit, TakeExit, SeeCancel, Poll, Signal, GraceEnds, Freeze, ReturnUnknown
<1>10. ArtifactInv'
  BY <1>1, <1>2, <1>3, <1>9 DEF ArtifactInv, InArtifact, Pending, server, copying, captured
<1>11. OpenInv'
  BY <1>1, <1>2, <1>3 DEF OpenInv, copying
<1>12. QED
  BY <1>4, <1>5, <1>6, <1>7, <1>8, <1>10, <1>11 DEF CommandInv

LEMMA CommandNextInv == CommandInv /\ [CommandNext]_commandVars => CommandInv'
<1> SUFFICES ASSUME CommandInv, [CommandNext]_commandVars PROVE CommandInv'
  OBVIOUS
<1>1. CASE CommandNext
  BY <1>1, ServerSteps, CopySteps, WriteSteps, WaitStep, OpenSteps, CommandSteps
     DEF CommandNext, Copying, Command, WaitsForExit
<1>2. CASE UNCHANGED commandVars
  <2>1. CommandTypeOK'
    BY <1>2 DEF commandVars, CommandInv, CommandTypeOK
  <2>2. OpenInv' /\ GateInv' /\ GivenUpInv' /\ WaitInv' /\ OutputInv' /\ EarlyInv'
    BY <1>2 DEF commandVars, CommandInv, OpenInv, GateInv, GivenUpInv, WaitInv, OutputInv, EventsAreOutput, EarlyInv
  <2>3. ArtifactInv'
    BY <1>2 DEF commandVars, CommandInv, ArtifactInv, InArtifact, Pending
  <2>4. QED
    BY <2>1, <2>2, <2>3 DEF CommandInv
<1>3. QED
  BY <1>1, <1>2

\* The gate, the streams and the answer of a command fit together, for any
\* number of streams and chunks.
THEOREM CommandInvariance == CommandSpec => []CommandInv
BY CommandInitInv, CommandNextInv, PTL DEF CommandSpec

\* What the executor reads when Command has returned stays as it is, one
\* stream writes at a time, and the events shown live are what is recorded.
THEOREM OutputIsFinalTheorem == CommandSpec => []OutputIsFinal
<1>1. CommandInv => OutputIsFinal
  <2> SUFFICES ASSUME CommandInv PROVE OutputIsFinal
    OBVIOUS
  <2>1. Frozen
    BY CommandAssumption DEF CommandInv, Frozen, GateInv, GivenUpInv, WaitInv, OutputInv
  <2>2. OneWriter
    <3>1. CASE gate \in Streams
      <4>1. {s \in Streams : copier[s] = "write"} = {gate}
        BY <3>1 DEF CommandInv, GateInv
      <4>2. Cardinality({gate}) = 1
        BY FS_Singleton
      <4>3. QED
        BY <4>1, <4>2 DEF OneWriter
    <3>2. CASE gate \notin Streams
      <4>1. {s \in Streams : copier[s] = "write"} = {}
        BY <3>2 DEF CommandInv, GateInv
      <4>2. QED
        BY <4>1, FS_EmptySet DEF OneWriter
    <3>3. QED
      BY <3>1, <3>2
  <2>3. QED
    BY <2>1, <2>2 DEF CommandInv, OutputInv, OutputIsFinal
<1>2. QED
  BY <1>1, CommandInvariance, PTL

\* An exit status comes with all the output of the process while the
\* connection stays, and one that was there before the context ended is never
\* reported as unknown.
THEOREM ExitIsKnownTheorem == CommandSpec => []ExitIsKnown
<1>1. CommandInv => ExitIsKnown
  <2> SUFFICES ASSUME CommandInv PROVE ExitIsKnown
    OBVIOUS
  <2>1. ASSUME result = "exit", ~failed, link, NEW s \in Streams
        PROVE  proc = "exited" /\ InArtifact(s) = emitted[s]
    <3>1. done = "exit" /\ ~gateClosed
      BY <2>1 DEF CommandInv, GivenUpInv
    <3>2. copier[s] = "ended" /\ proc = "exited"
      BY <2>1, <3>1 DEF CommandInv, WaitInv, ArtifactInv
    <3>3. copied[s] = emitted[s] /\ InArtifact(s) + 0 = copied[s]
      BY <2>1, <3>1, <3>2 DEF CommandInv, ArtifactInv, Pending
    <3>4. InArtifact(s) \in Nat
      BY InArtifactIsNat DEF CommandInv
    <3>5. QED
      BY <3>2, <3>3, <3>4
  <2>2. result = "exit" => proc = "exited"
    BY DEF CommandInv, GivenUpInv, WaitInv
  <2>3. QED
    BY <2>1, <2>2 DEF ExitIsKnown, ExitIsComplete, ExitComesFirst, CommandInv, EarlyInv
<1>2. QED
  BY <1>1, CommandInvariance, PTL

=============================================================================
