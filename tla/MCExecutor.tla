----------------------------- MODULE MCExecutor -----------------------------
(* Two attempts at a time, one host.                                       *)
EXTENDS Executor

CONSTANT h1

Request(task, call, op, body) ==
    [task |-> task, call |-> call, op |-> op, body |-> body,
     host |-> IF op \in LocalOps THEN NoHost ELSE h1]

\* A change, the same identity with other arguments, a rival for the host,
\* terminal input, a remote and a local read.
MCRequests ==
    {Request("t1", "c1", "file_write", "x"), Request("t1", "c1", "file_write", "y"),
     Request("t2", "c1", "upload_local", "x"), Request("t2", "c2", "terminal_write", "x"),
     Request("t1", "c2", "file_read", "x"), Request("t1", "c3", "local_read", "x")}
=============================================================================
