----------------------------- MODULE MCWriters -----------------------------
(***************************************************************************)
(* Those who write the same thing: turns of the assistant with its memory  *)
(* (MemoryStore), the editor and a tool with a file of a server            *)
(* (FileReplace), and transfers of the desktop and of an assistant with    *)
(* one target (FileTransfer).  The three do not share state and are        *)
(* explored side by side: in a behaviour one of them moves, the others     *)
(* stay in one of their initial states.                                    *)
(***************************************************************************)
EXTENDS MemoryStore, FileReplace, FileTransfer, TLC

CONSTANT MaxTotal  \* bound on the blocks of source and target together

VARIABLE moving

all == <<moving, memoryVars, vars, transferVars>>

MCInit ==
    /\ MemoryInit /\ Init /\ TransferInit
    /\ moving \in {"memory", "replace", "transfer"}
    /\ moving # "memory" => \A b \in Backends : backend[b].scope = "preferences"
    /\ moving # "replace" =>
         /\ file = Absent /\ posix
         /\ \A v, w \in Writers : content[v] = content[w]
    /\ moving # "transfer" =>
         /\ source = <<>> /\ path = NoFile
         /\ \A j \in Jobs : mode[j] = "new"
    /\ Len(source) + Len(inode["first"]) <= MaxTotal

MCNext ==
    /\ \/ moving = "memory" /\ MemoryNext /\ UNCHANGED <<vars, transferVars>>
       \/ moving = "replace" /\ Next /\ UNCHANGED <<memoryVars, transferVars>>
       \/ moving = "transfer" /\ TransferNext /\ UNCHANGED <<memoryVars, vars>>
    /\ UNCHANGED moving

MCSpec == MCInit /\ [][MCNext]_all

Symmetry == Permutations(Contents) \cup Permutations(Blocks)
=============================================================================
