--------------------------- MODULE RemoteCommand ---------------------------
(***************************************************************************)
(* Manager.Command (internal/remote/session.go) under Executor.Execute:    *)
(* one command on a server, its two output streams, and a caller who may  *)
(* stop waiting.  Command opens a session on the connection, starts the    *)
(* command, and goroutines copy the streams into the capture of the        *)
(* executor through a gate they share; another waits for the exit.  When   *)
(* the context ends, Command sends SIGTERM, waits two seconds more, then   *)
(* closes the gate and the session and returns "unknown".  The executor    *)
(* reads the capture as soon as Command has returned.                      *)
(*                                                                         *)
(* NewSession, Start, Signal and Close take no context: a server that is   *)
(* silent, or reads nothing, holds them as long as the connection is up.   *)
(*                                                                         *)
(* Abstractions: output is a number of chunks per stream; an exit status   *)
(* is known or not.                                                        *)
(***************************************************************************)
EXTENDS Naturals, Sequences, FiniteSets

CONSTANTS Streams, Nobody,
          MaxChunks, \* bound on the chunks of a stream
          MaxPrefix  \* chunks the capture keeps in memory and reports as events

ASSUME CommandAssumption ==
    /\ Streams # {} /\ Nobody \notin Streams
    /\ {MaxChunks, MaxPrefix} \subseteq Nat

VARIABLES
    proc,      \* the process on the server
    emitted,   \* per stream: chunks the process has written
    link,      \* the connection is up
    copied,    \* per stream: chunks its goroutine has read
    copier,    \* per stream: control point of its goroutine
    gate,      \* who holds outputGate.mu
    gateClosed,\* outputGate.closed
    artifact,  \* the chunks written to the artifact
    prefix,    \* capture.prefix
    events,    \* chunks stored as events of the task
    failed,    \* capture.err is set
    ended,     \* the context has ended
    done,      \* what Wait has sent on the channel done
    main,      \* control point of Command
    result,    \* what Command has returned
    output,    \* what the executor has read
    early      \* history: done was filled when the context ended

commandVars == <<proc, emitted, link, copied, copier, gate, gateClosed, artifact,
                 prefix, events, failed, ended, done, main, result, output, early>>

CommandTypeOK ==
    /\ proc \in {"none", "running", "exited"}
    /\ emitted \in [Streams -> 0..MaxChunks] /\ copied \in [Streams -> 0..MaxChunks]
    /\ link \in BOOLEAN /\ gateClosed \in BOOLEAN /\ failed \in BOOLEAN
    /\ copier \in [Streams -> {"idle", "read", "wait", "write", "ended", "error"}]
    /\ gate \in Streams \cup {Nobody}
    /\ artifact \in Seq(Streams) /\ prefix \in Seq(Streams) /\ events \in Seq(Streams)
    /\ ended \in BOOLEAN /\ early \in BOOLEAN
    /\ done \in {"empty", "exit", "error"}
    /\ main \in {"session", "start", "select", "poll", "signal", "grace", "freeze",
                 "closing", "returned"}
    /\ result \in {"none", "exit", "error", "unknown"}
    /\ output \in Seq(Streams)

CommandInit ==
    /\ proc = "none" /\ emitted = [s \in Streams |-> 0] /\ link = TRUE
    /\ copied = [s \in Streams |-> 0] /\ copier = [s \in Streams |-> "idle"]
    /\ gate = Nobody /\ gateClosed = FALSE
    /\ artifact = <<>> /\ prefix = <<>> /\ events = <<>> /\ failed = FALSE
    /\ ended = FALSE /\ done = "empty" /\ main = "session"
    /\ result = "none" /\ output = <<>> /\ early = FALSE

server == <<proc, emitted, link>>
copying == <<copied, copier>>
captured == <<artifact, prefix, events, failed>>
reply == <<main, result, output>>

-----------------------------------------------------------------------------
(* The server and the connection                                           *)

\* The server starts the command, before or after Start learns of it.
Begin ==
    /\ proc = "none" /\ main = "start" /\ link
    /\ proc' = "running"
    /\ UNCHANGED <<emitted, link, copying, gate, gateClosed, captured, ended, done,
                   reply, early>>

Emit(s) ==
    /\ proc = "running" /\ link /\ emitted[s] < MaxChunks
    /\ emitted' = [emitted EXCEPT ![s] = @ + 1]
    /\ UNCHANGED <<proc, link, copying, gate, gateClosed, captured, ended, done,
                   reply, early>>

\* The process ends, by itself or by SIGTERM; it may also ignore SIGTERM.
Exit ==
    /\ proc = "running"
    /\ proc' = "exited"
    /\ UNCHANGED <<emitted, link, copying, gate, gateClosed, captured, ended, done,
                   reply, early>>

Break ==
    /\ link
    /\ link' = FALSE
    /\ UNCHANGED <<proc, emitted, copying, gate, gateClosed, captured, ended, done,
                   reply, early>>

EndContext ==
    /\ ~ended /\ main # "returned"
    /\ ended' = TRUE /\ early' = (done # "empty")
    /\ UNCHANGED <<server, copying, gate, gateClosed, captured, done, reply>>

-----------------------------------------------------------------------------
(* The goroutines of the session                                           *)

\* A chunk has arrived; serialWriter.Write waits for the gate.
Read(s) ==
    /\ copier[s] = "read" /\ copied[s] < emitted[s]
    /\ copied' = [copied EXCEPT ![s] = @ + 1]
    /\ copier' = [copier EXCEPT ![s] = "wait"]
    /\ UNCHANGED <<server, gate, gateClosed, captured, ended, done, reply, early>>

\* The stream ends with the process or the connection, or is closed after
\* Command has returned.
StreamEnds(s) ==
    /\ copier[s] = "read"
    /\ \/ proc = "exited" /\ copied[s] = emitted[s]
       \/ ~link
       \/ main = "returned"
    /\ copier' = [copier EXCEPT ![s] = "ended"]
    /\ UNCHANGED <<server, copied, gate, gateClosed, captured, ended, done, reply, early>>

\* A closed gate swallows the chunk.
EnterGate(s) ==
    /\ copier[s] = "wait" /\ gate = Nobody
    /\ IF gateClosed THEN copier' = [copier EXCEPT ![s] = "read"] /\ UNCHANGED gate
                 ELSE copier' = [copier EXCEPT ![s] = "write"] /\ gate' = s
    /\ UNCHANGED <<server, copied, gateClosed, captured, ended, done, reply, early>>

\* There is room in the prefix.
Reports(p) == Len(p) < MaxPrefix

Keep(s) == prefix' = IF Len(prefix) < MaxPrefix THEN Append(prefix, s) ELSE prefix
Report(s) == events' = IF Reports(prefix) THEN Append(events, s) ELSE events

\* capture.Write: the artifact, the prefix, and an event for what went into
\* the prefix.
Write(s) ==
    /\ copier[s] = "write"
    /\ artifact' = Append(artifact, s) /\ Keep(s) /\ Report(s)
    /\ copier' = [copier EXCEPT ![s] = "read"] /\ gate' = Nobody
    /\ UNCHANGED <<server, copied, gateClosed, failed, ended, done, reply, early>>

\* The artifact or the event cannot be written; the goroutine of the stream
\* ends with the error.
WriteFails(s) ==
    /\ copier[s] = "write"
    /\ failed' = TRUE /\ Keep(s)
    /\ \/ Report(s) /\ UNCHANGED artifact
       \/ Reports(prefix) /\ artifact' = Append(artifact, s) /\ UNCHANGED events
    /\ copier' = [copier EXCEPT ![s] = "error"] /\ gate' = Nobody
    /\ UNCHANGED <<server, copied, gateClosed, ended, done, reply, early>>

\* Session.Wait: the exit status, or none if the connection broke, or the
\* error of a stream; both streams have ended.
Wait ==
    /\ done = "empty"
    /\ proc = "exited" \/ ~link \/ main = "returned"
    /\ \A s \in Streams : copier[s] \in {"ended", "error"}
    /\ \/ proc = "exited" /\ done' = "exit"
       \/ /\ ~link \/ main = "returned" \/ \E s \in Streams : copier[s] = "error"
          /\ done' = "error"
    /\ UNCHANGED <<server, copying, gate, gateClosed, captured, ended, reply, early>>

-----------------------------------------------------------------------------
(* Command and the executor behind it                                      *)

ReturnWith(r) == main' = "returned" /\ result' = r /\ output' = prefix

NewSession ==
    /\ main = "session" /\ link
    /\ main' = "start"
    /\ UNCHANGED <<server, copying, gate, gateClosed, captured, ended, done, result,
                   output, early>>

\* The server has started the command: the goroutines of the streams are
\* started, and the one that waits for the exit.
Started ==
    /\ main = "start" /\ proc # "none" /\ link
    /\ copier' = [s \in Streams |-> "read"] /\ main' = "select"
    /\ UNCHANGED <<server, copied, gate, gateClosed, captured, ended, done, result,
                   output, early>>

\* The server refuses the session or the command, or the connection is gone.
OpenFails ==
    /\ main \in {"session", "start"}
    /\ ReturnWith("error")
    /\ UNCHANGED <<server, copying, gate, gateClosed, captured, ended, done, early>>

\* The exit is taken in either select, and asked for first when the context
\* has ended.
TakeExit ==
    /\ main \in {"select", "poll", "grace"} /\ done # "empty"
    /\ ReturnWith(done)
    /\ UNCHANGED <<server, copying, gate, gateClosed, captured, ended, done, early>>

\* Mutant: Command gives up as soon as the context ends.
SeeCancelAnyway ==
    /\ main = "select" /\ ended
    /\ main' = "freeze"
    /\ UNCHANGED <<server, copying, gate, gateClosed, captured, ended, done, result,
                   output, early>>

SeeCancel ==
    /\ main = "select" /\ ended
    /\ main' = "poll"
    /\ UNCHANGED <<server, copying, gate, gateClosed, captured, ended, done, result,
                   output, early>>

Poll ==
    /\ main = "poll" /\ done = "empty"
    /\ main' = "signal"
    /\ UNCHANGED <<server, copying, gate, gateClosed, captured, ended, done, result,
                   output, early>>

Signal ==
    /\ main = "signal"
    /\ main' = "grace"
    /\ UNCHANGED <<server, copying, gate, gateClosed, captured, ended, done, result,
                   output, early>>

\* Mutant: two seconds are not enough, it waits for the exit.
GraceEndsNever == FALSE /\ UNCHANGED commandVars

\* The two seconds are over, and no exit has ended the select before.
GraceEnds ==
    /\ main = "grace" /\ done = "empty"
    /\ main' = "freeze"
    /\ UNCHANGED <<server, copying, gate, gateClosed, captured, ended, done, result,
                   output, early>>

\* Mutant: the gate is not closed.
FreezeNot ==
    /\ main = "freeze" /\ gate = Nobody
    /\ main' = "closing"
    /\ UNCHANGED <<server, copying, gate, gateClosed, captured, ended, done, result,
                   output, early>>

Freeze ==
    /\ main = "freeze" /\ gate = Nobody
    /\ gateClosed' = TRUE /\ main' = "closing"
    /\ UNCHANGED <<server, copying, gate, captured, ended, done, result, output, early>>

\* The session is closed.
ReturnUnknown ==
    /\ main = "closing"
    /\ ReturnWith("unknown")
    /\ UNCHANGED <<server, copying, gate, gateClosed, captured, ended, done, early>>

-----------------------------------------------------------------------------
Copying(s) == Read(s) \/ StreamEnds(s) \/ EnterGate(s) \/ Write(s) \/ WriteFails(s)
Command ==
    \/ NewSession \/ Started \/ OpenFails \/ TakeExit \/ SeeCancel \/ Poll \/ Signal
    \/ GraceEnds \/ Freeze \/ ReturnUnknown

CommandNext ==
    \/ \E s \in Streams : Emit(s) \/ Copying(s)
    \/ Begin \/ Exit \/ Break \/ EndContext \/ Wait \/ Command

CommandSpec == CommandInit /\ [][CommandNext]_commandVars

\* Command is in a call that waits for the server, or for room to write to it,
\* and takes no context.  A connection that breaks ends the call.
AtServer == link /\ main \in {"session", "start", "signal", "closing"}

\* Goroutines run and a timer fires; nothing is assumed of the server, the
\* process and the connection.
FairCommandSpec ==
    /\ CommandSpec /\ WF_commandVars(~AtServer /\ Command)
    /\ \A s \in Streams : WF_commandVars(Copying(s))

-----------------------------------------------------------------------------
(* Properties                                                              *)

\* What the executor reads when Command has returned is final: no stream
\* writes into the capture, or is about to, while it is read or later.
Frozen ==
    main = "returned" =>
        /\ output = prefix
        /\ \A s \in Streams : copier[s] # "write"

\* The streams never write at the same time.
OneWriter == Cardinality({s \in Streams : copier[s] = "write"}) <= 1

\* The chunks of a stream in the artifact.
InArtifact(s) == Cardinality({i \in DOMAIN artifact : artifact[i] = s})

\* An exit status comes with all the output of the process, also when the
\* context ended meanwhile, as long as the connection stays.
ExitIsComplete ==
    result = "exit" /\ ~failed /\ link =>
        /\ proc = "exited"
        /\ \A s \in Streams : InArtifact(s) = emitted[s]

\* An exit that was there before the context ended is never reported as
\* unknown.
ExitComesFirst == early => result # "unknown"

\* The events that the task shows live are the output that is recorded.
EventsAreOutput == ~failed => events = prefix

\* The output of a command is one sequence that is final when Command returns.
OutputIsFinal == CommandTypeOK /\ Frozen /\ OneWriter /\ EventsAreOutput

\* An exit status is never lost to a cancel, nor reported with half its output.
ExitIsKnown == ExitIsComplete /\ ExitComesFirst

\* Once the context has ended, Command returns, unless the server holds it in a
\* call that takes no context: it waits neither for the exit nor for a stream.
CancelReturns == []<>(ended => main = "returned" \/ AtServer)
=============================================================================
