---------------------------- MODULE Replication ----------------------------
(***************************************************************************)
(* The incremental replication path: an agent's local index and            *)
(* transactional outbox (agent/internal/{scan,outbox}), the drain loop     *)
(* that posts batches, and central's replication-batch endpoint            *)
(* (backend/filearr/{agentsync.py,api/agent_commands.py}).                 *)
(*                                                                         *)
(* One agent and one of its roots, i.e. one central library, are modelled. *)
(* A catalog row is abstracted to a value in Val: two rows have the same   *)
(* value when size, mtime and hashes agree.  Created and modified events   *)
(* are both "upserted": central collapses them (plan_upserts).             *)
(*                                                                         *)
(* A slot h in Handlers is one request handler of central, together with   *)
(* the response on its way back.  With one slot, requests never overlap.   *)
(* With two, a request the agent has given up on (client timeout, agent    *)
(* restart) may still be running while its retry runs: an abandoned        *)
(* handler is not cancelled.                                               *)
(***************************************************************************)
EXTENDS Naturals, FiniteSets, Sequences

CONSTANTS
    Path,      \* relative paths under the root
    Val,       \* abstract file states
    None,      \* "no such path", "no value", "nobody is waited for"
    Handlers,  \* central's request handlers serving this agent
    MaxRows,   \* the drain's row cap per batch (Config.MaxRows)
    MaxSeq     \* bound on the number of events the agent writes

ASSUME NoneAssumption == None \notin Path \cup Val \cup Handlers
ASSUME MaxAssumption == MaxRows \in Nat \ {0} /\ MaxSeq \in Nat

VARIABLES
    local,     \* agent: the active items of the local index, path -> value
    log,       \* agent: every event ever written; its index is its seq_no
    rows,      \* agent: the seq_nos of the outbox rows that still exist
    sent,      \* agent: those of them stamped sent_at
    awaited,   \* agent: the handler whose answer flush waits for, or None
    armed,     \* agent: deadEndArmed
    outage,    \* agent: firstFailure is set
    raised,    \* agent: signals raised to the Observer
    req,       \* central: what each request handler is doing
    items,     \* central: the library's item rows
    last,      \* central: agents.last_contiguous_seq_no
    ledger     \* central: the seq_nos in agent_replication_log

agentVars   == <<local, log, rows, sent>>
drainVars   == <<awaited, armed, outage, raised>>
centralVars == <<items, last, ledger>>
vars == <<local, log, rows, sent, awaited, armed, outage, raised, req,
          items, last, ledger>>

-----------------------------------------------------------------------------
(* Data.                                                                   *)

Signals == {"reconnected", "dead_end"}

\* The wire event, outbox.Event / AgentEvent: a tombstone carries no file
\* state, and only a moved event has a from_rel_path.
Event ==
    [op : {"upserted"}, path : Path, from : {None}, val : Val]
      \cup [op : {"deleted"}, path : Path, from : {None}, val : {None}]
      \cup [op : {"moved"}, path : Path, from : Path, val : Val]

\* An item row as far as replication reads or writes it.
Row == [status : {"absent", "active", "missing"}, val : Val \cup {None}]
NoRow == [status |-> "absent", val |-> None]
NoRows == [p \in Path |-> NoRow]

Request == [st       : {"idle", "received", "accepted", "loaded", "replied"},
            first    : Nat,
            final    : Nat,
            seqs     : SUBSET Nat,
            seen     : Nat,
            base     : [Path -> Row],
            code     : {"none", "200", "409", "error"},
            expected : Nat]

Idle == [st |-> "idle", first |-> 0, final |-> 0, seqs |-> {}, seen |-> 0,
         base |-> NoRows, code |-> "none", expected |-> 0]

Unsent == rows \ sent

\* The paths an event changes and what each of them is afterwards: a moved
\* event deletes from_rel_path and upserts rel_path.
Touched(e) == {e.path} \cup (IF e.op = "moved" THEN {e.from} ELSE {})
Effect(e, p) == IF e.path = p /\ e.op # "deleted" THEN e.val ELSE None

\* The operators below are about a log l: the agent's, or a prefix of it.
TouchedBy(l, S) == UNION {Touched(l[s]) : s \in S}

\* Mutant: the first event of the batch that touches a path wins.
WinnerIsFirst(l, S, p) ==
    CHOOSE s \in S : /\ p \in Touched(l[s])
                     /\ \A t \in S : p \in Touched(l[t]) => t >= s

\* plan_upserts: the last event of the batch that touches a path wins.  None
\* means the path is tombstoned, a value means it is upserted.
Winner(l, S, p) ==
    CHOOSE s \in S : /\ p \in Touched(l[s])
                     /\ \A t \in S : p \in Touched(l[t]) => t <= s
Plan(l, S, p) == Effect(l[Winner(l, S, p)], p)

\* The catalog after the first n events: what the agent's index was then.
Replay(l, n) == [p \in Path |-> IF p \in TouchedBy(l, 1..n)
                                THEN Plan(l, 1..n, p) ELSE None]

\* What central shows of the library: its active rows.
View == [p \in Path |-> IF items[p].status = "active" THEN items[p].val ELSE None]

-----------------------------------------------------------------------------
(* The agent's scan.  Every mutation of the local index and its outbox row *)
(* commit in one transaction.                                              *)

Init ==
    /\ local = [p \in Path |-> None]
    /\ log = <<>>
    /\ rows = {}
    /\ sent = {}
    /\ awaited = None
    /\ armed = TRUE
    /\ outage = FALSE
    /\ raised = {}
    /\ req = [h \in Handlers |-> Idle]
    /\ items = NoRows
    /\ last = 0
    /\ ledger = {}

\* outbox.Write: the row's AUTOINCREMENT seq_no is one more than any before.
Write(e) ==
    /\ Len(log) < MaxSeq
    /\ log' = Append(log, e)
    /\ rows' = rows \cup {Len(log) + 1}
    /\ UNCHANGED <<sent, drainVars, req, centralVars>>

\* diffEntry: a new file, a changed one, or one that reappeared.
Upsert(p, v) ==
    /\ local[p] # v
    /\ local' = [local EXCEPT ![p] = v]
    /\ Write([op |-> "upserted", path |-> p, from |-> None, val |-> v])

\* detectAndTombstone, second half: an active row the walk did not see.
Tombstone(p) ==
    /\ local[p] # None
    /\ local' = [local EXCEPT ![p] = None]
    /\ Write([op |-> "deleted", path |-> p, from |-> None, val |-> None])

\* Mutant: a rename is reported as if only its target had changed.
MoveAsUpsert(p, q) ==
    /\ p # q
    /\ local[p] # None
    /\ local[q] # None
    /\ local' = [local EXCEPT ![p] = None]
    /\ Write([op |-> "upserted", path |-> q, from |-> None, val |-> local[q]])

\* detectMoves: the walk has already committed q as a new file with p's hash and
\* size (its mtime may differ, so which values match is left open); q's row is
\* dropped, p's row takes its place, and one moved event is written.
Move(p, q) ==
    /\ p # q
    /\ local[p] # None
    /\ local[q] # None
    /\ local' = [local EXCEPT ![p] = None]
    /\ Write([op |-> "moved", path |-> q, from |-> p, val |-> local[q]])

-----------------------------------------------------------------------------
(* The drain: Replicator.Run and flush.                                    *)

\* Unsent and assemble: the head of the unsent rows, at least one, at most
\* MaxRows, any shorter head being what the byte cap can leave.
Post(h) ==
    /\ awaited = None
    /\ req[h].st = "idle"
    /\ \E lo, hi \in Unsent :
         LET seqs == {s \in Unsent : s <= hi} IN
         /\ \A s \in Unsent : lo <= s
         /\ Cardinality(seqs) <= MaxRows
         /\ req' = [req EXCEPT ![h] = [Idle EXCEPT !.st = "received",
                                                   !.first = lo,
                                                   !.final = hi,
                                                   !.seqs = seqs]]
    /\ awaited' = h
    /\ UNCHANGED <<agentVars, armed, outage, raised, centralVars>>

\* The tail of a Run iteration: a failed flush starts (or continues) an
\* outage; contact ends it, tells the Observer, and re-arms the signal.
Failed == outage' = TRUE
Contact ==
    /\ outage' = FALSE
    /\ armed' = TRUE
    /\ raised' = IF outage THEN raised \cup {"reconnected"} ELSE raised

\* flush, case 200: MarkSent(firstSeq, lastSeq).
MarkSent(h) ==
    /\ awaited = h
    /\ req[h].st = "replied"
    /\ req[h].code = "200"
    /\ sent' = sent \cup (rows \cap (req[h].first .. req[h].final))
    /\ awaited' = None
    /\ req' = [req EXCEPT ![h] = Idle]
    /\ Contact
    /\ UNCHANGED <<local, log, rows, centralVars>>

\* Mutants: the fast-forward takes the expected row too; it is missing.  The
\* rewind leaves the expected row out.
ForwardedInclusive(e) == {s \in Unsent : s <= e}
ForwardedNever(e) == {s \in Unsent : FALSE}
RewoundExclusive(e) == {s \in sent : s > e}

\* SetCursor's two arms.
Forwarded(e) == {s \in Unsent : s < e}
Rewound(e)   == {s \in sent : s >= e}

\* flush, case 409: SetCursor(expected_seq_no).  If neither arm touched a row
\* the flush fails with ErrCursorDeadEnd, signalled once per episode.
SetCursor(h) ==
    /\ awaited = h
    /\ req[h].st = "replied"
    /\ req[h].code = "409"
    /\ LET e == req[h].expected IN
         /\ sent' = (sent \cup Forwarded(e)) \ Rewound(e)
         /\ IF Forwarded(e) = {} /\ Rewound(e) = {}
            THEN /\ armed' = FALSE
                 /\ raised' = IF armed THEN raised \cup {"dead_end"} ELSE raised
                 /\ Failed
            ELSE Contact
    /\ awaited' = None
    /\ req' = [req EXCEPT ![h] = Idle]
    /\ UNCHANGED <<local, log, rows, centralVars>>

\* flush, default case: any other status is retried after a backoff.
BackOff(h) ==
    /\ awaited = h
    /\ req[h].st = "replied"
    /\ req[h].code = "error"
    /\ Failed
    /\ awaited' = None
    /\ req' = [req EXCEPT ![h] = Idle]
    /\ UNCHANGED <<agentVars, armed, raised, centralVars>>

\* Giving up on a request: an answer under way is lost, a handler still at
\* work goes on.
Abandon(h) == req' = IF req[h].st = "replied" THEN [req EXCEPT ![h] = Idle] ELSE req

\* post: the HTTP client's timeout, or a broken connection.
Timeout(h) ==
    /\ awaited = h
    /\ Abandon(h)
    /\ awaited' = None
    /\ Failed
    /\ UNCHANGED <<agentVars, armed, raised, centralVars>>

\* The daemon stops or is killed, and runs again: what Run holds in memory is
\* lost, the SQLite file is not.
Restart ==
    /\ IF awaited = None THEN req' = req ELSE Abandon(awaited)
    /\ awaited' = None
    /\ armed' = TRUE
    /\ outage' = FALSE
    /\ raised' = {}
    /\ UNCHANGED <<agentVars, centralVars>>

\* Mutant: the cutoff does not respect the order of the rows.
PruneSentOutOfOrder(k) ==
    /\ k \in sent
    /\ \E t \in rows : k < t
    /\ rows' = rows \ {k}
    /\ sent' = sent \cap rows'
    /\ UNCHANGED <<local, log, drainVars, req, centralVars>>

\* PruneSent: sent rows older than the cutoff go, the newest row stays.
\* sent_at never decreases along the sent rows, so the cutoff cuts at a seq_no:
\* outbox.go:364 compares RFC3339Nano texts, taken here as in the order of time,
\* which two of the same second with trimmed zeros may not be.
PruneSent(k) ==
    /\ rows' = rows \ {s \in sent : s <= k /\ \E t \in rows : s < t}
    /\ rows' # rows
    /\ sent' = sent \cap rows'
    /\ UNCHANGED <<local, log, drainVars, req, centralVars>>

-----------------------------------------------------------------------------
(* Central: the replication-batch endpoint.                                *)

\* The answer goes to the agent only if it still waits for it.
Reply(h, code, e) ==
    req' = [req EXCEPT ![h] =
              IF h = awaited
              THEN [Idle EXCEPT !.st = "replied", !.first = req[h].first,
                                !.final = req[h].final, !.seqs = req[h].seqs,
                                !.code = code, !.expected = e]
              ELSE Idle]

\* Mutant: a replay is accepted.
CheckBatchTakesStale(r, n) == IF r.first > n + 1 THEN n + 1 ELSE 0

\* check_batch against the watermark n: 0 if the batch is an exact contiguous
\* continuation, else the seq_no to resend from (stale and gap, internal_gap).
\* Entries are read in primary-key order, so duplicate and non_monotonic
\* cannot occur, and an empty batch is never posted.
CheckBatch(r, n) ==
    IF r.first # n + 1 THEN n + 1
    ELSE IF r.first..r.final \subseteq r.seqs THEN 0
    ELSE CHOOSE e \in r.first..r.final :
           e \notin r.seqs /\ r.first..(e - 1) \subseteq r.seqs

\* apply_replication_batch up to apply_batch: authentication loads the agent
\* row, and check_batch runs on that copy of the watermark.
Check(h) ==
    /\ req[h].st = "received"
    /\ LET e == CheckBatch(req[h], last) IN
         IF e = 0
         THEN req' = [req EXCEPT ![h].st = "accepted", ![h].seen = last]
         ELSE Reply(h, "409", e)
    /\ UNCHANGED <<agentVars, drainVars, centralVars>>

\* apply_batch, preload: the rows the plan may touch.
Load(h) ==
    /\ req[h].st = "accepted"
    /\ req' = [req EXCEPT ![h].st = "loaded",
                          ![h].base = [p \in Path |->
                              IF p \in TouchedBy(log, req[h].seqs) THEN items[p] ELSE NoRow]]
    /\ UNCHANGED <<agentVars, drainVars, centralVars>>

\* The row the unit of work leaves for a touched path, computed on the loaded
\* copy: an upsert activates it whatever its status was, a tombstone of an
\* absent row is a counted no-op.
Target(S, p, old) ==
    IF Plan(log, S, p) # None THEN [status |-> "active", val |-> Plan(log, S, p)]
    ELSE IF old.status = "absent" THEN old ELSE [old EXCEPT !.status = "missing"]

\* The flush writes only the columns that differ from the loaded copy.
Flush(cur, old, new) ==
    [status |-> IF new.status # old.status THEN new.status ELSE cur.status,
     val    |-> IF new.val # old.val THEN new.val ELSE cur.val]

Applied(S, base) ==
    [p \in Path |-> IF p \in TouchedBy(log, S)
                    THEN Flush(items[p], base[p], Target(S, p, base[p]))
                    ELSE items[p]]

\* Two inserts of the same (library_id, rel_path): the unique index refuses
\* the second one and the whole transaction is rolled back.
Conflict(S, base) ==
    \E p \in TouchedBy(log, S) : /\ Plan(log, S, p) # None
                            /\ base[p].status = "absent"
                            /\ items[p].status # "absent"

\* Mutant: the watermark is incremented by the size of the batch.
AdvanceBySize(r) == last + Cardinality(r.seqs)

\* The watermark is compared with, and written over, the copy loaded at
\* authentication (an UPDATE of the agents row without a lock).
Advance(r) == IF r.final > r.seen THEN r.final ELSE last

\* apply_batch from the upserts to the commit, and the response.
Commit(h) ==
    LET r == req[h] IN
    /\ r.st = "loaded"
    /\ IF Conflict(r.seqs, r.base)
       THEN /\ Reply(h, "error", 0)
            /\ UNCHANGED centralVars
       ELSE /\ items' = Applied(r.seqs, r.base)
            /\ ledger' = ledger \cup r.seqs
            /\ last' = Advance(r)
            /\ Reply(h, "200", 0)
    /\ UNCHANGED <<agentVars, drainVars>>

\* Maintenance mode (503), 401/403/404/413, a server error or a central
\* restart: nothing is committed.
Refuse(h) ==
    /\ req[h].st \in {"received", "accepted", "loaded"}
    /\ Reply(h, "error", 0)
    /\ UNCHANGED <<agentVars, drainVars, centralVars>>

-----------------------------------------------------------------------------

Scan == \E p \in Path :
          \/ \E v \in Val : Upsert(p, v)
          \/ Tombstone(p)
          \/ \E q \in Path : Move(p, q)

Next ==
    \/ Scan
    \/ Restart
    \/ \E k \in rows : PruneSent(k)
    \/ \E h \in Handlers :
         \/ Post(h) \/ MarkSent(h) \/ SetCursor(h) \/ BackOff(h) \/ Timeout(h)
         \/ Check(h) \/ Load(h) \/ Commit(h) \/ Refuse(h)

Spec == Init /\ [][Next]_vars
Serve(h) == Check(h) \/ Load(h) \/ Commit(h) \/ Refuse(h)

\* The drain loop polls and handles an answer it gets, a handler ends (if only
\* with an error), and not every attempt that reaches a step of the exchange is
\* refused, times out or loses its answer there.  Nothing is assumed of scans,
\* prunes and restarts.
Fairness ==
    \A h \in Handlers :
      /\ WF_vars(Post(h))
      /\ WF_vars(BackOff(h))
      /\ WF_vars(Serve(h))
      /\ SF_vars(awaited = h /\ Check(h))
      /\ SF_vars(awaited = h /\ Load(h))
      /\ SF_vars(awaited = h /\ Commit(h))
      /\ SF_vars(MarkSent(h))
      /\ SF_vars(SetCursor(h))

FairSpec == Spec /\ Fairness

-----------------------------------------------------------------------------
(* Properties.                                                             *)

\* Every variable has its type: seq_nos are numbers of written events, the
\* outbox holds only such rows, and a request in hand is well formed.
TypeOK ==
    /\ local \in [Path -> Val \cup {None}]
    /\ log \in Seq(Event)
    /\ rows \subseteq 1..Len(log)
    /\ sent \subseteq rows
    /\ awaited \in Handlers \cup {None}
    /\ armed \in BOOLEAN
    /\ outage \in BOOLEAN
    /\ raised \subseteq Signals
    /\ req \in [Handlers -> Request]
    /\ items \in [Path -> Row]
    /\ last \in Nat
    /\ ledger \subseteq 1..Len(log)

\* The outbox is gap-free in the form the drain relies on: the retained rows
\* are a suffix of what was written, and the sent ones are the older part.
\* Hence a posted batch has no internal gap, through prunes, cursor moves in
\* both directions, lost answers and restarts.  A cutoff is taken to respect the
\* order of time, see PruneSent.
OutboxShape ==
    /\ \A s \in rows : s..Len(log) \subseteq rows
    /\ \A s \in sent : \A t \in rows : t < s => t \in sent

\* Block-don't-drop: an event leaves the drain (stamped sent, or pruned) only
\* after central has committed it to the ledger, whatever is lost, retried,
\* fast-forwarded or answered by an overlapping handler.
SentWasApplied == (1..Len(log)) \ Unsent \subseteq ledger

\* The watermark never covers an event central has not applied, although it is
\* written from a copy that may be stale.
WatermarkCovered == 1..last \subseteq ledger

\* What holds of the exchange between drain and handlers at any moment: a batch
\* in hand is a contiguous stretch of the log; the awaited one starts at the
\* oldest unsent row; an accepted one continues a prefix central has; and an
\* answer tells the truth about the ledger.
ExchangeInv ==
    /\ awaited # None => req[awaited].st # "idle"
    /\ \A h \in Handlers :
         /\ req[h].st # "idle" =>
              /\ req[h].first \in 1..req[h].final
              /\ req[h].final <= Len(log)
              /\ req[h].seqs = req[h].first .. req[h].final
         /\ req[h].st # "idle" /\ h = awaited =>
              /\ {req[h].first, req[h].final} \subseteq Unsent
              /\ \A s \in Unsent : req[h].first <= s
         /\ req[h].st \in {"accepted", "loaded"} =>
              /\ req[h].seen + 1 = req[h].first
              /\ 1..req[h].seen \subseteq ledger
         /\ req[h].st = "replied" =>
              /\ h = awaited
              /\ req[h].code = "200" => req[h].seqs \subseteq ledger
              /\ req[h].code = "409" =>
                   /\ req[h].expected \notin {0, req[h].first}
                   /\ 1..(req[h].expected - 1) \subseteq ledger

IndInv == TypeOK /\ OutboxShape /\ WatermarkCovered /\ SentWasApplied /\ ExchangeInv

\* ErrCursorDeadEnd is raised only when central really expects an event the
\* outbox no longer holds: a late or repeated 409 never triggers the reset
\* reconcile while a rewind could still supply the row.
DeadEndIsReal ==
    [][\A h \in Handlers :
         SetCursor(h) /\ "dead_end" \in raised' \ raised => req[h].expected \notin rows]_vars

\* Central shows exactly the catalog the agent had after the event the
\* watermark names: batches collapse (last event per path wins, a moved is a
\* delete and an upsert) without ever showing a state the agent never had.
CentralIsPrefix == View = Replay(log, last)

\* Replication implements the abstract follower: central only ever shows a
\* catalog the agent had, and only ever moves on to a later one.
Follower == INSTANCE CatalogFollower
              WITH past  <- [n \in 1..(Len(log) + 1) |-> Replay(log, n - 1)],
                   at    <- last + 1,
                   shown <- View

Follows == Follower!Spec

\* The log explains the index: replaying every event gives the local catalog.  It
\* is about which event a change of a row writes (scan.go, emit): row and event are
\* one transaction there, and one step here.
LogExplainsLocal == Replay(log, Len(log)) = local

\* Why it holds when requests do not overlap: nobody else moves the watermark
\* or the rows between a handler's reads and its commit.
FollowInv ==
    /\ last <= Len(log)
    /\ CentralIsPrefix
    /\ LogExplainsLocal
    /\ \A h \in Handlers :
         /\ req[h].st \in {"accepted", "loaded"} => req[h].seen = last
         /\ req[h].st = "loaded" =>
              \A p \in Path \cap TouchedBy(log, req[h].seqs) : req[h].base[p] = items[p]

\* Once scanning pauses, the drain ends with every row acknowledged and
\* central showing the agent's catalog.
EventuallySynced == <>[](Unsent = {} /\ View = local)
=============================================================================
