----------------------------- MODULE Reconcile -----------------------------
(***************************************************************************)
(* The full-manifest reconcile, composed with incremental replication:     *)
(* the agent's supervisor and sweeper (agent/internal/reconcile), the      *)
(* rebuilt marker of its index (agent/internal/index), and central's three *)
(* reconcile endpoints (backend/filearr/agentsync.py).                     *)
(*                                                                         *)
(* A sweep projects the local index once (the manifest), posts its digest, *)
(* and, unless central's active rows have the same one, pages the manifest *)
(* into a staging session and asks central to make its rows equal to it.   *)
(* A reset sweep also sets the watermark to 0 and marks the whole outbox   *)
(* as sent.  Digests are abstracted to the manifests they are taken of.    *)
(*                                                                         *)
(* One reconcile request is at central at a time: the sweeps of a daemon   *)
(* run one after the other, and a request it gave up on is assumed to end  *)
(* before the next one starts.  It overlaps with replication requests.     *)
(***************************************************************************)
EXTENDS Replication

CONSTANT MaxRebuilds   \* bound on how often the local index is lost

ASSUME RebuildAssumption == MaxRebuilds \in Nat

VARIABLES
    rooted,      \* agent: the roots table has the root
    marker,      \* agent: the durable rebuilt_pending flag
    mem,         \* agent: Store.Rebuilt, in memory
    superseded,  \* agent: sent rows whose batch_id a reset epilogue wrote
    pendingReset, \* agent: a trigger that asks for a reset is pending
    sweep,       \* agent: the sweep under way
    job,         \* central: the reconcile request in hand
    rebuilds     \* how often the index was lost

indexVars == <<rooted, marker, mem, superseded, rebuilds>>
sweepVars == <<pendingReset, sweep>>
syncVars  == <<vars, indexVars, sweepVars, job>>

Manifest == [Path -> Val \cup {None}]
NoPaths  == [p \in Path |-> None]
Steps    == {"start", "rows", "finish"}

Sweep == [st       : Steps \cup {"off", "epilogue", "close"},
          rebuilt  : BOOLEAN,
          reset    : BOOLEAN,
          again    : BOOLEAN,   \* the second attempt
          roots    : BOOLEAN,   \* there was a root to sweep
          failed   : BOOLEAN,
          manifest : Manifest]
NoSweep == [st |-> "off", rebuilt |-> FALSE, reset |-> FALSE, again |-> FALSE,
            roots |-> FALSE, failed |-> FALSE, manifest |-> NoPaths]

Job == [op       : Steps \cup {"none"},
        st       : {"idle", "called", "known", "loaded"},
        waited   : BOOLEAN,     \* the sweep waits for the answer
        flag     : BOOLEAN,     \* rebuilt of a start, reset_seq of a finish
        manifest : Manifest,
        seen     : BOOLEAN,     \* the loaded agent row has a watermark
        base     : [Path -> Row]]
NoJob == [op |-> "none", st |-> "idle", waited |-> FALSE, flag |-> FALSE,
          manifest |-> NoPaths, seen |-> FALSE, base |-> NoRows]

\* index.Open of a file that did not exist sets the marker, not the memory.
SyncInit ==
    /\ Init
    /\ rooted = FALSE
    /\ marker = TRUE
    /\ mem = FALSE
    /\ superseded = {}
    /\ pendingReset = FALSE
    /\ sweep = NoSweep
    /\ job = NoJob
    /\ rebuilds = 0

-----------------------------------------------------------------------------
(* The agent's index and process.                                          *)

\* EnsureRoot, at the start of the first scan.
EnsureRoot ==
    /\ ~rooted
    /\ rooted' = TRUE
    /\ UNCHANGED <<vars, marker, mem, superseded, rebuilds, sweepVars, job>>

\* The process ends: the sweep under way and the triggers are forgotten, a
\* handler at work for it goes on.
Forget ==
    /\ pendingReset' = FALSE
    /\ sweep' = NoSweep
    /\ job' = [job EXCEPT !.waited = FALSE]

SyncRestart ==
    /\ Restart
    /\ Forget
    /\ mem' = FALSE
    /\ UNCHANGED <<rooted, marker, superseded, rebuilds>>

\* The process starts on a corrupt or outdated index: ensureIntegrity deletes
\* the file, and Open flags the empty one.  Seq_nos start again at 1.
\* Bound: no replication request is at central then, so that log always
\* explains the batches in hand; a handler from before the rebuild that commits
\* after it is not explored.
Rebuild ==
    /\ rebuilds < MaxRebuilds
    /\ \A h \in Handlers : req[h].st = "idle"
    /\ rebuilds' = rebuilds + 1
    /\ local' = NoPaths
    /\ log' = <<>>
    /\ rows' = {}
    /\ sent' = {}
    /\ superseded' = {}
    /\ rooted' = FALSE
    /\ marker' = TRUE
    /\ mem' = TRUE
    /\ awaited' = None
    /\ armed' = TRUE
    /\ outage' = FALSE
    /\ raised' = {}
    /\ Forget
    /\ UNCHANGED <<req, centralVars>>

-----------------------------------------------------------------------------
(* The supervisor.                                                         *)

\* CursorDeadEnd: Trigger(TRUE) when the drain signals a dead end.  The other
\* triggers (the ticker, the startup catch-up, Reconnected) ask for a sweep
\* without a reset and may come at any time, so they need no state: whenever
\* no sweep runs, one of them may be pending.
CursorDeadEnd == armed /\ ~armed'

\* rebuiltSignal, the roots, and the projection of the manifest.
Projected(force) ==
    /\ sweep.st = "off"
    /\ sweep' = [st       |-> IF rooted THEN "start" ELSE "epilogue",
                 rebuilt  |-> marker \/ mem,
                 reset    |-> marker \/ mem \/ force,
                 again    |-> FALSE,
                 roots    |-> rooted,
                 failed   |-> FALSE,
                 manifest |-> local]
    /\ UNCHANGED <<vars, indexVars, job>>

\* Run: the coalesced triggers become one sweep.
Begin ==
    /\ pendingReset' = FALSE
    /\ Projected(pendingReset)

\* RunNow: the reconcile command of central, through the same gate.
RunNow(force) ==
    /\ UNCHANGED pendingReset
    /\ Projected(force)

-----------------------------------------------------------------------------
(* The sweep of the root.                                                  *)

\* Start, SendRows and Finish each post and wait.
Call ==
    /\ sweep.st \in Steps
    /\ job.st = "idle"
    /\ job' = [NoJob EXCEPT !.op = sweep.st, !.st = "called", !.waited = TRUE,
                            !.flag = CASE sweep.st = "start"  -> sweep.rebuilt
                                       [] sweep.st = "rows"   -> FALSE
                                       [] sweep.st = "finish" -> sweep.reset,
                            !.manifest = sweep.manifest]
    /\ UNCHANGED <<vars, indexVars, sweepVars>>

\* What the sweep does with the answer, if it still waits for one.
Answer(next) ==
    /\ job' = NoJob
    /\ sweep' = IF job.waited THEN next ELSE sweep
    /\ UNCHANGED <<pendingReset, indexVars>>

Fails == [sweep EXCEPT !.st = "epilogue", !.failed = TRUE]
GoesOn(st) == [sweep EXCEPT !.st = st]

\* An unknown session restarts the root once.
Restarts == IF sweep.again THEN Fails
            ELSE [sweep EXCEPT !.st = "start", !.again = TRUE]

\* The HTTP client's timeout or a broken connection.  An answer that is lost
\* on its way is a request given up on before it was carried out.
GiveUp ==
    /\ job.waited
    /\ sweep' = Fails
    /\ job' = [job EXCEPT !.waited = FALSE]
    /\ UNCHANGED <<vars, indexVars, pendingReset>>

\* Mutant: the epilogue stamps the newest row only.
SupersededNewest == {s \in Unsent : \A t \in Unsent : t <= s}

\* MarkAllSent.
MarkAllSent == Unsent

\* The reset epilogue, failed or not.
Supersede ==
    /\ sweep.st = "epilogue"
    /\ sweep' = GoesOn("close")
    /\ IF sweep.reset
       THEN /\ sent' = sent \cup MarkAllSent
            /\ superseded' = superseded \cup MarkAllSent
       ELSE UNCHANGED <<sent, superseded>>
    /\ UNCHANGED <<local, log, rows, drainVars, req, centralVars, rooted, marker,
                   mem, rebuilds, pendingReset, job>>

\* Mutant: the marker is cleared whatever became of the sweep.
ClearedFailed == sweep.rebuilt /\ sweep.roots

\* ClearRebuiltPending: only after a sweep that carried rebuilt to central.
Cleared == sweep.rebuilt /\ ~sweep.failed /\ sweep.roots

\* The end of Sweep.
Close ==
    /\ sweep.st = "close"
    /\ sweep' = NoSweep
    /\ marker' = (marker /\ ~Cleared)
    /\ UNCHANGED <<vars, rooted, mem, superseded, rebuilds, pendingReset, job>>

-----------------------------------------------------------------------------
(* Central: the reconcile endpoints.                                       *)

\* _authenticate_agent loads the agent row.
Authenticate ==
    /\ job.st = "called"
    /\ job' = [job EXCEPT !.st = "known", !.seen = last # 0]
    /\ UNCHANGED <<vars, indexVars, sweepVars>>

\* compute_central_digest (start), or the session and the item rows (finish).
JobLoad ==
    /\ job.st = "known"
    /\ job.op # "rows"
    /\ job' = [job EXCEPT !.st = "loaded", !.base = items]
    /\ UNCHANGED <<vars, indexVars, sweepVars>>

\* _load_live_session: the session outlived its TTL (404).  Nothing else ends a
\* session between the requests of one sweep.
JobGone ==
    /\ job.st = "known"
    /\ job.op # "start"
    /\ Answer(Restarts)
    /\ UNCHANGED vars

\* agent.last_contiguous_seq_no = 0, written if the loaded copy says otherwise.
Reset == last' = IF job.flag /\ job.seen THEN 0 ELSE last

\* Mutant: the row counts are compared, the digests are not.
MatchesCount == Cardinality({p \in Path : job.manifest[p] # None})
                  = Cardinality({p \in Path : job.base[p].status = "active"})

\* compute_central_digest over the active rows, against the agent's digest.
Matches == \A p \in Path :
    job.manifest[p] = IF job.base[p].status = "active" THEN job.base[p].val ELSE None

\* reconcile_start: in sync, or a fresh session.
CommitStart ==
    /\ job.st = "loaded"
    /\ job.op = "start"
    /\ IF Matches
       THEN /\ Reset
            /\ Answer(GoesOn("epilogue"))
       ELSE /\ UNCHANGED last
            /\ Answer(GoesOn(IF job.manifest = NoPaths THEN "finish" ELSE "rows"))
    /\ UNCHANGED <<agentVars, drainVars, req, items, ledger>>

\* reconcile_stage_rows: the staged rows are the job's manifest.
CommitRows ==
    /\ job.st = "known"
    /\ job.op = "rows"
    /\ Answer(GoesOn("finish"))
    /\ UNCHANGED vars

\* Mutant: an active row the manifest does not name is left alone.
JoinedKept(old, v) == IF v = None THEN old ELSE [status |-> "active", val |-> v]

\* The anti-join: what becomes of a path whose manifest entry is v.
Joined(old, v) ==
    IF v # None THEN [status |-> "active", val |-> v]
    ELSE IF old.status = "active" THEN [old EXCEPT !.status = "missing"] ELSE old

\* Another transaction inserted a path this one inserts: the unique index
\* refuses it and the transaction is rolled back.
JoinConflict == \E p \in Path : /\ job.manifest[p] # None
                                /\ job.base[p].status = "absent"
                                /\ items[p].status # "absent"

\* reconcile_finish: the anti-join, the reset and the end of the session.
CommitFinish ==
    /\ job.st = "loaded"
    /\ job.op = "finish"
    /\ IF JoinConflict
       THEN /\ Answer(Fails)
            /\ UNCHANGED <<items, last>>
       ELSE /\ items' = [p \in Path |->
                   Flush(items[p], job.base[p], Joined(job.base[p], job.manifest[p]))]
            /\ Reset
            /\ Answer(GoesOn("epilogue"))
    /\ UNCHANGED <<agentVars, drainVars, req, ledger>>

\* Maintenance mode, a server error or a central restart: nothing is committed.
JobRefuse ==
    /\ job.st # "idle"
    /\ Answer(Fails)
    /\ UNCHANGED vars

-----------------------------------------------------------------------------

\* SetCursor, with the signal and the batch_ids it erases.
SyncSetCursor(h) ==
    /\ SetCursor(h)
    /\ pendingReset' = (pendingReset \/ CursorDeadEnd)
    /\ superseded' = superseded \cap sent'
    /\ UNCHANGED <<rooted, marker, mem, rebuilds, sweep, job>>

\* PruneSent, with the superseded rows it deletes.
SyncPrune(k) ==
    /\ PruneSent(k)
    /\ superseded' = superseded \cap sent'
    /\ UNCHANGED <<rooted, marker, mem, rebuilds, sweepVars, job>>

\* Every other step of replication.
Replicate ==
    /\ \/ rooted /\ Scan
       \/ \E h \in Handlers :
            \/ Post(h) \/ MarkSent(h) \/ BackOff(h) \/ Timeout(h)
            \/ Check(h) \/ Load(h) \/ Commit(h) \/ Refuse(h)
    /\ UNCHANGED <<indexVars, sweepVars, job>>

SyncNext ==
    \/ Replicate
    \/ \E h \in Handlers : SyncSetCursor(h)
    \/ \E k \in rows : SyncPrune(k)
    \/ SyncRestart \/ EnsureRoot \/ Rebuild
    \/ Begin \/ \E force \in BOOLEAN : RunNow(force)
    \/ Call \/ GiveUp \/ Supersede \/ Close
    \/ Authenticate \/ JobLoad \/ JobGone
    \/ CommitStart \/ CommitRows \/ CommitFinish \/ JobRefuse

SyncSpec == SyncInit /\ [][SyncNext]_syncVars

\* What disturbs the exchange: a process that ends, an index that is lost, a
\* request that fails or is given up on, an operator who forces a reset.
Disturbance ==
    \/ SyncRestart \/ Rebuild
    \/ GiveUp \/ JobGone \/ JobRefuse
    \/ \E h \in Handlers : Timeout(h) \/ Refuse(h)
    \/ RunNow(TRUE)

\* The disturbances end at some time; after that the drain, the handlers and
\* the sweeper go on with what they can do, and the ticker keeps triggering.
SyncFairness ==
    /\ <>[][~Disturbance]_syncVars
    /\ WF_syncVars(EnsureRoot)
    /\ WF_syncVars(Begin \/ Call \/ Supersede \/ Close)
    /\ WF_syncVars(Authenticate \/ JobLoad \/ CommitStart \/ CommitRows \/ CommitFinish)
    /\ \A h \in Handlers :
         /\ WF_syncVars(Replicate /\ (Check(h) \/ Load(h) \/ Commit(h)))
         /\ WF_syncVars(Replicate /\ (Post(h) \/ MarkSent(h) \/ BackOff(h)))
         /\ WF_syncVars(SyncSetCursor(h))

FairSyncSpec == SyncSpec /\ SyncFairness

-----------------------------------------------------------------------------
(* Properties.                                                             *)

\* The marker is cleared only once central has forgotten the old numbering:
\* with the marker gone the watermark never lies ahead of the agent's own
\* seq_nos, where a 409 would fast-forward fresh events away as already sent
\* (rebuiltSignal).  Through failed sweeps, late handlers, restarts between
\* the two statements of the epilogue, and sweeps before the first scan.
MarkerIsHonest == ~marker => last <= Len(log)

\* Why it holds.  A request at central is about events of the current index
\* (ExchangeBase), so once the watermark is not ahead it stays so until the
\* next rebuild.  A sweep that may clear the marker has brought it there when it
\* reaches its epilogue, because the request it waits for carries its flag, and
\* a handler that does not write the 0 has seen a watermark of 0.
ExchangeBase ==
    /\ local \in Manifest
    /\ log \in Seq(Event)
    /\ rows \subseteq 1..Len(log)
    /\ last \in Nat
    /\ DOMAIN req = Handlers
    /\ \A h \in Handlers :
         /\ {"st", "final"} \subseteq DOMAIN req[h]
         /\ req[h].st # "idle" => req[h].final \in 1..Len(log)

JobBase ==
    /\ {"op", "st", "waited", "flag", "seen"} \subseteq DOMAIN job
    /\ {job.waited, job.flag, job.seen} \subseteq BOOLEAN

NotAhead == last <= Len(log)

MarkerInv ==
    /\ ExchangeBase
    /\ JobBase
    /\ sweep \in Sweep
    /\ {marker, mem, rooted} \subseteq BOOLEAN
    /\ ~marker => NotAhead
    /\ sweep.st \in {"epilogue", "close"} /\ Cleared => NotAhead
    /\ sweep.rebuilt => sweep.reset
    /\ job.waited => /\ job.op = sweep.st
                     /\ sweep.st \in Steps
                     /\ sweep.st = "start" => job.flag = sweep.rebuilt
                     /\ sweep.st = "finish" => job.flag = sweep.reset
    /\ job.waited /\ job.st \in {"known", "loaded"} /\ ~job.seen => NotAhead

\* Once scanning and disturbances pause, central comes to show the agent's
\* catalog for good, whatever was lost before: overlapping replays, a rebuilt index, events
\* fast-forwarded or superseded unseen.
EventuallyReconciled == <>[](View = local)

\* PruneSent's comment: the reset sweep is the way out of a dead end.  Once the
\* disturbances are over, central expects a row the agent has or will write.
DeadEndIsRepaired == <>[](last + 1 \in rows \cup {Len(log) + 1})
=============================================================================
