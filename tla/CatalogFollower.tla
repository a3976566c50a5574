-------------------------- MODULE CatalogFollower --------------------------
(***************************************************************************)
(* What replication promises, without outbox, sequence numbers, requests   *)
(* or failures: the agent's catalog goes through a history of states, and  *)
(* central shows one of them, only ever moving on to a later one.          *)
(***************************************************************************)
EXTENDS Naturals, Sequences

CONSTANTS Path, Val, None

VARIABLES
    past,    \* the catalogs the agent has had, oldest first
    at,      \* the index of the one central has caught up with
    shown    \* the catalog central shows

Catalog == [Path -> Val \cup {None}]

Init ==
    /\ past = <<[p \in Path |-> None]>>
    /\ at = 1
    /\ shown = [p \in Path |-> None]

\* The agent's catalog changes.
Change ==
    /\ \E c \in Catalog : past' = Append(past, c)
    /\ UNCHANGED <<at, shown>>

\* Central catches up with some later state, not necessarily the latest.
CatchUp ==
    \E n \in 1..Len(past) :
      /\ at < n
      /\ at' = n
      /\ shown' = past[n]
      /\ UNCHANGED past

Next == Change \/ CatchUp

Spec == Init /\ [][Next]_<<past, at, shown>>
=============================================================================
