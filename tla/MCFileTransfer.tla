--------------------------- MODULE MCFileTransfer ---------------------------
EXTENDS FileTransfer

CONSTANTS v1, v2

\* Samples do not tell the versions apart; the first is too large for a full hash.
MCContent == v1 :> <<"a", "m", "z">> @@ v2 :> <<"a", "z">>

\* Bound: a second fault only for a file that is in the catalog as it is.
Disturbed == faults = 2 => edits = 0 /\ catalog.full = source
=============================================================================
