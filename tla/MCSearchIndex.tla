--------------------------- MODULE MCSearchIndex ---------------------------
(* The search index projection on two items and two workers. *)
EXTENDS SearchIndex
=============================================================================
