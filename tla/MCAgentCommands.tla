-------------------------- MODULE MCAgentCommands --------------------------
(* Instances of AgentCommands for TLC.                                     *)
EXTENDS AgentCommands, TLC

\* The states past which LatestToggleWins cannot fail any more: its premise is
\* lost for good when toggles have crossed, or when one ended otherwise than
\* done and no report of it is to come.
Promising ==
    /\ ~crossed
    /\ \A c \in Cmd : row[c].status \in {"failed", "expired", "cancelled"} => AtWork(c)

\* The handlers are interchangeable.
Interchangeable == Permutations(Calls)
=============================================================================
