--------------------------- MODULE MCReplication ---------------------------
(* Small instances of Replication for TLC. *)
EXTENDS Replication, TLC

\* Values and handlers are interchangeable.  Paths are too, but permuting them
\* is left out: it costs more than it saves on two paths.
Interchangeable == Permutations(Val) \cup Permutations(Handlers)
=============================================================================
