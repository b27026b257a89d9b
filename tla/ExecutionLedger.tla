--------------------------- MODULE ExecutionLedger ---------------------------
(***************************************************************************)
(* What the execution records of NexShell promise, independently of how    *)
(* Executor.Execute and Store.Claim / Finish / Recover achieve it.         *)
(*                                                                         *)
(* A tool call (task id, call id) is claimed at most once.  While its      *)
(* record is "running" at most one attempt contacts the server for it.     *)
(* The record is settled once, and its verdict is never rewritten: a       *)
(* settled call is neither contacted again nor judged again.               *)
(***************************************************************************)
EXTENDS FiniteSets

CONSTANTS Key,       \* identities of tool calls: (task id, call id)
          Attempts   \* invocations of Execute

VARIABLES verdict,   \* verdict[k]: the status of k's record, "none" if absent
          contacts   \* contacts[k]: attempts that contacted a server for k

ledgerVars == <<verdict, contacts>>

Verdicts == {"succeeded", "failed", "unknown"}

LedgerInit ==
    /\ verdict = [k \in Key |-> "none"]
    /\ contacts = [k \in Key |-> {}]

\* The intent is recorded before any server is contacted.
Open(k) ==
    /\ verdict[k] = "none"
    /\ verdict' = [verdict EXCEPT ![k] = "running"]
    /\ UNCHANGED contacts

Contact(k, i) ==
    /\ verdict[k] = "running"
    /\ contacts[k] = {}
    /\ contacts' = [contacts EXCEPT ![k] = {i}]
    /\ UNCHANGED verdict

Settle(k, v) ==
    /\ verdict[k] = "running"
    /\ verdict' = [verdict EXCEPT ![k] = v]
    /\ UNCHANGED contacts

LedgerNext ==
    \E k \in Key :
        \/ Open(k)
        \/ \E i \in Attempts : Contact(k, i)
        \/ \E v \in Verdicts : Settle(k, v)

LedgerSpec == LedgerInit /\ [][LedgerNext]_ledgerVars
=============================================================================
