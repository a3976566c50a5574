---------------------------- MODULE MCReconcile ----------------------------
(* Small instances of Reconcile for TLC. *)
EXTENDS Reconcile

\* No action and no property of these runs reads outage, raised and ledger (the
\* drain's signals to the supervisor are in pendingReset): states that differ only in
\* them are the same state.
Observed == <<local, log, rows, sent, awaited, armed, req, items, last,
              indexVars, sweepVars, job>>
=============================================================================
