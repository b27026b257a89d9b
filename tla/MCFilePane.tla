----------------------------- MODULE MCFilePane -----------------------------
(***************************************************************************)
(* The file pane in three scopes: with operations, beside one terminal     *)
(* that stays where it is ("acting"); with more gestures on the rows of    *)
(* one directory ("picking"); and without operations, beside two terminals *)
(* ("following").                                                          *)
(***************************************************************************)
EXTENDS MCFileBrowser

CONSTANTS MaxMoves \* bound on inputs, changes of directory and failures together

VARIABLE scope

MCInit ==
    /\ Init /\ scope \in {"acting", "picking", "following"}
    /\ scope = "acting" => cwd = [s \in Sessions |-> <<"a">>]
    /\ scope = "picking" => cwd = [s \in Sessions |-> <<"b">>]

Quiet == focus' = First /\ cds' = 0 /\ failures' = 0

InScope ==
    \/ scope = "acting" /\ Quiet /\ inputs' <= MaxMoves
    \/ scope = "picking" /\ Quiet /\ follow' /\ ~manual'
    \/ scope = "following" /\ ops' = <<>> /\ inputs' + cds' + failures' <= MaxMoves

MCNext == Next /\ UNCHANGED scope /\ InScope

MCSpec ==
    /\ MCInit /\ [][MCNext]_<<vars, scope>>
    /\ WF_vars(RunQueue) /\ WF_vars(\E i \in DOMAIN listing : ListPost(i))
=============================================================================
