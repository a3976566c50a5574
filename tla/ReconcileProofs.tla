-------------------------- MODULE ReconcileProofs --------------------------
(***************************************************************************)
(* Once the rebuilt marker is cleared, central's watermark is never ahead  *)
(* of the agent's own seq_nos (the inductive invariant is Reconcile's      *)
(* MarkerInv), and the outbox stays gap-free through resets and rebuilds   *)
(* (HeadInv): for every number of handlers, paths, events and rebuilds.    *)
(***************************************************************************)
EXTENDS Reconcile, TLAPS

-----------------------------------------------------------------------------
(* Replication steps.                                                      *)

\* What a replication step may do to the exchange: it keeps ExchangeBase, the
\* log only grows, and the watermark moves only to an event of the log.
Mild ==
    /\ ExchangeBase'
    /\ Len(log) \in Nat /\ Len(log') \in Nat
    /\ Len(log) <= Len(log')
    /\ last' = last \/ last' <= Len(log)

\* A step that leaves the log, the rows and the watermark alone is mild if every
\* request in hand afterwards was in hand before, with the same last event.
LEMMA MildIfKept ==
    ASSUME ExchangeBase, UNCHANGED <<local, log, last>>,
           rows' \subseteq rows,
           DOMAIN req' = Handlers,
           \A g \in Handlers :
             /\ {"st", "final"} \subseteq DOMAIN req'[g]
             /\ req'[g].st # "idle" => req[g].st # "idle" /\ req'[g].final = req[g].final
    PROVE  Mild
<1>1. Len(log) \in Nat
  BY DEF ExchangeBase
<1>2. ExchangeBase'
  BY DEF ExchangeBase
<1> QED
  BY <1>1, <1>2 DEF Mild

\* Write appends an event (Upsert, Tombstone, Move).
LEMMA WriteMild ==
    ASSUME ExchangeBase, NEW e \in Event, Write(e), local' \in Manifest
    PROVE  Mild
<1>1. Len(log) \in Nat /\ log' \in Seq(Event) /\ Len(log') = Len(log) + 1
  <2>1. log \in Seq(Event) /\ log' = Append(log, e)
    BY DEF ExchangeBase, Write
  <2> QED
    BY <2>1
<1>2. rows' \subseteq 1..Len(log') /\ 1..Len(log) \subseteq 1..Len(log')
  <2>1. rows \subseteq 1..Len(log) /\ rows' = rows \cup {Len(log) + 1}
    BY DEF ExchangeBase, Write
  <2>2. \A n \in Nat : 1..(n + 1) = 1..n \cup {n + 1}
    OBVIOUS
  <2>3. 1..Len(log') = 1..Len(log) \cup {Len(log) + 1}
    BY <1>1, <2>2
  <2> QED
    BY <2>1, <2>3
<1>3. UNCHANGED <<req, last>>
  BY DEF Write, centralVars
<1>4. ExchangeBase'
  BY <1>1, <1>2, <1>3 DEF ExchangeBase
<1> QED
  BY <1>1, <1>3, <1>4 DEF Mild

\* Every event of a scan is well formed.
LEMMA ScanMild == ASSUME ExchangeBase, Scan PROVE Mild
<1>0. local \in [Path -> Val \cup {None}]
  BY DEF ExchangeBase, Manifest
<1>1. ASSUME NEW p \in Path, NEW v \in Val, Upsert(p, v) PROVE Mild
  <2>1. [op |-> "upserted", path |-> p, from |-> None, val |-> v] \in Event
    BY DEF Event
  <2>2. local' \in Manifest
    BY <1>0, <1>1 DEF Upsert, Manifest
  <2> QED
    BY <1>1, <2>1, <2>2, WriteMild DEF Upsert
<1>2. ASSUME NEW p \in Path, Tombstone(p) PROVE Mild
  <2>1. [op |-> "deleted", path |-> p, from |-> None, val |-> None] \in Event
    BY DEF Event
  <2>2. local' \in Manifest
    BY <1>0, <1>2 DEF Tombstone, Manifest
  <2> QED
    BY <1>2, <2>1, <2>2, WriteMild DEF Tombstone
<1>3. ASSUME NEW p \in Path, NEW q \in Path, Move(p, q) PROVE Mild
  <2>1. [op |-> "moved", path |-> q, from |-> p, val |-> local[q]] \in Event
    BY <1>0, <1>3 DEF Move, Event
  <2>2. local' \in Manifest
    BY <1>0, <1>3 DEF Move, Manifest
  <2> QED
    BY <1>3, <2>1, <2>2, WriteMild DEF Move
<1> QED
  BY <1>1, <1>2, <1>3 DEF Scan

\* The posted batch ends at an unsent row.
LEMMA PostMild == ASSUME ExchangeBase, NEW h \in Handlers, Post(h) PROVE Mild
<1>1. PICK hi \in Unsent, lo \in Unsent :
        req' = [req EXCEPT ![h] = [Idle EXCEPT !.st = "received", !.first = lo,
                                               !.final = hi,
                                               !.seqs = {s \in Unsent : s <= hi}]]
  BY DEF Post
<1>2. UNCHANGED <<local, log, rows, last>>
  BY DEF Post, agentVars, centralVars
<1>3. hi \in 1..Len(log) /\ Len(log) \in Nat
  BY DEF ExchangeBase, Unsent
<1>4. /\ DOMAIN req' = Handlers
      /\ \A g \in Handlers : g # h => req'[g] = req[g]
      /\ {"st", "final"} \subseteq DOMAIN req'[h]
      /\ req'[h].final = hi
  BY <1>1 DEF ExchangeBase, Idle
<1>5. ExchangeBase'
  BY <1>2, <1>3, <1>4 DEF ExchangeBase
<1> QED
  BY <1>2, <1>3, <1>5 DEF Mild

\* Releasing a slot, or giving up on one.
LEMMA ReleaseMild ==
    ASSUME ExchangeBase, NEW h \in Handlers, UNCHANGED <<local, log, last>>,
           rows' \subseteq rows,
           req' = [req EXCEPT ![h] = Idle] \/ req' = req
    PROVE  Mild
<1>1. DOMAIN req' = Handlers
  BY DEF ExchangeBase
<1>2. Idle.st = "idle" /\ {"st", "final"} \subseteq DOMAIN Idle
  BY DEF Idle
<1>3. ASSUME NEW g \in Handlers
      PROVE  /\ {"st", "final"} \subseteq DOMAIN req'[g]
             /\ req'[g].st # "idle" => req[g].st # "idle" /\ req'[g].final = req[g].final
  BY <1>2 DEF ExchangeBase
<1> QED
  BY <1>1, <1>3, MildIfKept

\* The steps of the drain other than Post.
LEMMA DrainMild ==
    ASSUME ExchangeBase, NEW h \in Handlers,
           MarkSent(h) \/ SetCursor(h) \/ BackOff(h) \/ Timeout(h)
    PROVE  Mild
<1>1. UNCHANGED <<local, log, rows, last>>
  BY DEF MarkSent, SetCursor, BackOff, Timeout, agentVars, centralVars
<1>2. req' = [req EXCEPT ![h] = Idle] \/ req' = req
  BY DEF MarkSent, SetCursor, BackOff, Timeout, Abandon
<1>3. rows' \subseteq rows
  BY <1>1
<1> QED
  BY <1>1, <1>2, <1>3, ReleaseMild

\* A reply keeps the batch's last event, or releases the slot.
LEMMA ReplyMild ==
    ASSUME ExchangeBase, NEW h \in Handlers, NEW c, NEW e, Reply(h, c, e),
           req[h].st # "idle", UNCHANGED <<local, log, rows>>,
           last' = last \/ last' \in 1..Len(log)
    PROVE  Mild
<1> DEFINE r == [Idle EXCEPT !.st = "replied", !.first = req[h].first,
                             !.final = req[h].final, !.seqs = req[h].seqs,
                             !.code = c, !.expected = e]
<1>1. req' = [req EXCEPT ![h] = r] \/ req' = [req EXCEPT ![h] = Idle]
  BY DEF Reply
<1>2. r.final = req[h].final /\ {"st", "final"} \subseteq DOMAIN r
  BY DEF Idle
<1>3. Idle.st = "idle" /\ {"st", "final"} \subseteq DOMAIN Idle
  BY DEF Idle
<1> HIDE DEF r
<1>4. DOMAIN req' = Handlers
  BY <1>1 DEF ExchangeBase
<1>5. ASSUME NEW g \in Handlers
      PROVE  /\ {"st", "final"} \subseteq DOMAIN req'[g]
             /\ req'[g].st # "idle" => req'[g].final \in 1..Len(log)
  BY <1>1, <1>2, <1>3 DEF ExchangeBase
<1>6. Len(log) \in Nat /\ last' \in Nat /\ (last' = last \/ last' <= Len(log))
  BY DEF ExchangeBase
<1>7. ExchangeBase'
  BY <1>4, <1>5, <1>6 DEF ExchangeBase
<1> QED
  BY <1>6, <1>7 DEF Mild

\* Check and Load record what they read; Commit moves the watermark to the
\* batch's last event at most.
LEMMA ServeMild ==
    ASSUME ExchangeBase, NEW h \in Handlers,
           Check(h) \/ Load(h) \/ Commit(h) \/ Refuse(h)
    PROVE  Mild
<1>0. UNCHANGED <<local, log, rows>>
  BY DEF Check, Load, Commit, Refuse, agentVars
<1>1. ASSUME Check(h) PROVE Mild
  <2>1. req[h].st = "received" /\ UNCHANGED last
    BY <1>1 DEF Check, centralVars
  <2>2. CASE req' = [req EXCEPT ![h].st = "accepted", ![h].seen = last]
    <3>1. /\ DOMAIN req' = Handlers
          /\ \A g \in Handlers : g # h => req'[g] = req[g]
          /\ DOMAIN req'[h] = DOMAIN req[h]
          /\ req'[h].final = req[h].final
      BY <2>2 DEF ExchangeBase
    <3> QED
      BY <1>0, <2>1, <3>1, MildIfKept DEF ExchangeBase
  <2>3. CASE \E e : Reply(h, "409", e)
    BY <1>0, <2>1, <2>3, ReplyMild
  <2> QED
    BY <1>1, <2>2, <2>3 DEF Check
<1>2. ASSUME Load(h) PROVE Mild
  <2>1. req[h].st = "accepted" /\ UNCHANGED last
    BY <1>2 DEF Load, centralVars
  <2>2. /\ DOMAIN req' = Handlers
        /\ \A g \in Handlers : g # h => req'[g] = req[g]
        /\ DOMAIN req'[h] = DOMAIN req[h]
        /\ req'[h].final = req[h].final
    BY <1>2 DEF Load, ExchangeBase
  <2> QED
    BY <1>0, <2>1, <2>2, MildIfKept DEF ExchangeBase
<1>3. ASSUME Commit(h) PROVE Mild
  <2>1. req[h].st = "loaded" /\ req[h].final \in 1..Len(log)
    BY <1>3 DEF Commit, ExchangeBase
  <2>2. last' = last \/ last' \in 1..Len(log)
    BY <1>3, <2>1 DEF Commit, Advance, centralVars
  <2>3. \E c : Reply(h, c, 0)
    BY <1>3 DEF Commit
  <2> QED
    BY <1>0, <2>1, <2>2, <2>3, ReplyMild
<1>4. ASSUME Refuse(h) PROVE Mild
  <2>1. req[h].st # "idle" /\ UNCHANGED last /\ Reply(h, "error", 0)
    BY <1>4 DEF Refuse, centralVars
  <2> QED
    BY <1>0, <2>1, ReplyMild
<1> QED
  BY <1>1, <1>2, <1>3, <1>4

\* A restart of the agent or a prune.
LEMMA RestartMild == ASSUME ExchangeBase, Restart PROVE Mild
<1>1. UNCHANGED <<local, log, rows, last>> /\ rows' \subseteq rows
  BY DEF Restart, agentVars, centralVars
<1>2. CASE awaited \in Handlers
  <2>1. req' = [req EXCEPT ![awaited] = Idle] \/ req' = req
    BY DEF Restart, Abandon
  <2> QED
    BY <1>1, <1>2, <2>1, ReleaseMild
<1>3. CASE awaited \notin Handlers
  <2>1. req' = req \/ req' = [req EXCEPT ![awaited] = Idle]
    BY DEF Restart, Abandon
  <2>2. DOMAIN req' = Handlers /\ \A g \in Handlers : req'[g] = req[g]
    BY <1>3, <2>1 DEF ExchangeBase
  <2> QED
    BY <1>1, <2>2, MildIfKept DEF ExchangeBase
<1> QED
  BY <1>2, <1>3

LEMMA PruneMild == ASSUME ExchangeBase, NEW k \in rows, PruneSent(k) PROVE Mild
<1>1. UNCHANGED <<local, log, req, last>> /\ rows' \subseteq rows
  BY DEF PruneSent, centralVars
<1> QED
  BY <1>1, MildIfKept DEF ExchangeBase

-----------------------------------------------------------------------------
(* The sweep.                                                              *)

\* A mild step keeps a watermark that is not ahead where it is.
LEMMA NotAheadKept == ASSUME Mild, NotAhead, ExchangeBase PROVE NotAhead'
  BY DEF Mild, NotAhead, ExchangeBase

\* Hence a mild step that leaves sweep, request and index flags alone, or only
\* ends the process, keeps the invariant.
LEMMA MildStep ==
    ASSUME MarkerInv, Mild, UNCHANGED <<rooted, marker, mem, sweep, job>>
    PROVE  MarkerInv'
<1>1. NotAhead => NotAhead'
  BY NotAheadKept DEF MarkerInv
<1>2. ExchangeBase'
  BY DEF Mild
<1>3. Cleared' = Cleared
  BY DEF Cleared
<1> QED
  BY <1>1, <1>2, <1>3 DEF MarkerInv, JobBase

\* NoSweep and NoJob are a sweep and a request of which nothing is claimed.
LEMMA NothingUnderWay ==
    /\ NoSweep \in Sweep
    /\ NoSweep.st = "off" /\ NoSweep.rebuilt = FALSE
    /\ {"op", "st", "waited", "flag", "seen"} \subseteq DOMAIN NoJob
    /\ NoJob.waited = FALSE /\ NoJob.flag = FALSE /\ NoJob.seen = FALSE
<1>1. NoPaths \in Manifest
  BY DEF NoPaths, Manifest
<1> QED
  BY <1>1 DEF NoSweep, Sweep, NoJob, Steps

\* The process ends: nobody waits and no sweep is under way.
LEMMA ForgetInv == ASSUME JobBase, Forget
                   PROVE  /\ JobBase'
                          /\ job'.waited = FALSE
                          /\ sweep' \in Sweep /\ sweep'.st = "off" /\ sweep'.rebuilt = FALSE
<1>1. /\ DOMAIN job' = DOMAIN job
      /\ job'.waited = FALSE /\ job'.flag = job.flag /\ job'.seen = job.seen
  BY DEF Forget, JobBase
<1>2. JobBase'
  BY <1>1 DEF JobBase
<1> QED
  BY <1>1, <1>2, NothingUnderWay DEF Forget

LEMMA InitMarker == SyncInit => MarkerInv
<1> SUFFICES ASSUME SyncInit PROVE MarkerInv
  OBVIOUS
<1>1. local \in Manifest /\ log \in Seq(Event) /\ Len(log) = 0
  BY DEF SyncInit, Init, Manifest
<1>2. Idle.st = "idle" /\ {"st", "final"} \subseteq DOMAIN Idle
  BY DEF Idle
<1>3. ExchangeBase
  BY <1>1, <1>2 DEF SyncInit, Init, ExchangeBase
<1>4. JobBase
  BY NothingUnderWay DEF SyncInit, JobBase
<1> QED
  BY <1>3, <1>4, NothingUnderWay DEF SyncInit, MarkerInv

LEMMA RestartInv == ASSUME MarkerInv, SyncRestart PROVE MarkerInv'
<1>1. Mild
  BY RestartMild DEF SyncRestart, MarkerInv
<1>2. NotAhead => NotAhead'
  BY <1>1, NotAheadKept DEF MarkerInv
<1>3. /\ JobBase' /\ job'.waited = FALSE
      /\ sweep' \in Sweep /\ sweep'.st = "off" /\ sweep'.rebuilt = FALSE
  BY ForgetInv DEF MarkerInv, SyncRestart
<1>4. marker' = marker /\ {marker', mem', rooted'} \subseteq BOOLEAN
  BY DEF SyncRestart, MarkerInv
<1> QED
  BY <1>1, <1>2, <1>3, <1>4 DEF MarkerInv, Mild

LEMMA RebuildInv == ASSUME MarkerInv, Rebuild PROVE MarkerInv'
<1>1. local' \in Manifest /\ log' \in Seq(Event) /\ Len(log') = 0 /\ rows' = {}
  BY DEF Rebuild, NoPaths, Manifest
<1>2. UNCHANGED <<req, last>> /\ \A h \in Handlers : req[h].st = "idle"
  BY DEF Rebuild, centralVars
<1>3. ExchangeBase'
  BY <1>1, <1>2 DEF ExchangeBase, MarkerInv
<1>4. /\ JobBase' /\ job'.waited = FALSE
      /\ sweep' \in Sweep /\ sweep'.st = "off" /\ sweep'.rebuilt = FALSE
  BY ForgetInv DEF MarkerInv, Rebuild
<1>5. marker' = TRUE /\ {marker', mem', rooted'} \subseteq BOOLEAN
  BY DEF Rebuild
<1> QED
  BY <1>3, <1>4, <1>5 DEF MarkerInv

LEMMA EnsureRootInv == ASSUME MarkerInv, EnsureRoot PROVE MarkerInv'
<1>1. UNCHANGED <<local, log, rows, req, last, marker, mem, sweep, job>> /\ rooted' = TRUE
  BY DEF EnsureRoot, vars, sweepVars
<1>2. ExchangeBase' /\ (NotAhead' <=> NotAhead) /\ (Cleared' <=> Cleared)
  BY <1>1 DEF ExchangeBase, NotAhead, Cleared, MarkerInv
<1> QED
  BY <1>1, <1>2 DEF MarkerInv, JobBase

\* A new sweep: a root-less one cannot clear the marker.
LEMMA ProjectedInv == ASSUME MarkerInv, NEW force, Projected(force)
                      PROVE  MarkerInv'
<1>1. UNCHANGED <<local, log, rows, req, last, rooted, marker, mem, job>>
  BY DEF Projected, vars, indexVars
<1>2. ExchangeBase' /\ (NotAhead' <=> NotAhead)
  BY <1>1 DEF ExchangeBase, NotAhead, MarkerInv
<1>3. sweep.st = "off" /\ job.waited = FALSE
  BY DEF Projected, MarkerInv, JobBase, Steps
<1>4. /\ sweep' \in Sweep
      /\ sweep'.rebuilt => sweep'.reset
      /\ sweep'.st = "epilogue" => sweep'.roots = FALSE
      /\ sweep'.st # "close"
  BY DEF Projected, Sweep, MarkerInv, ExchangeBase, Steps
<1>5. sweep'.st \in {"epilogue", "close"} => ~Cleared'
  BY <1>4 DEF Cleared
<1> QED
  BY <1>1, <1>2, <1>3, <1>4, <1>5 DEF MarkerInv, JobBase

LEMMA CallInv == ASSUME MarkerInv, Call PROVE MarkerInv'
<1>1. UNCHANGED <<local, log, rows, req, last, rooted, marker, mem, sweep>>
  BY DEF Call, vars, indexVars, sweepVars
<1>2. ExchangeBase' /\ (NotAhead' <=> NotAhead) /\ (Cleared' <=> Cleared)
  BY <1>1 DEF ExchangeBase, NotAhead, Cleared, MarkerInv
<1>3. sweep.st \in Steps /\ sweep.rebuilt \in BOOLEAN /\ sweep.reset \in BOOLEAN
  BY DEF Call, MarkerInv, Sweep
<1>4. /\ {"op", "st", "waited", "flag", "seen"} \subseteq DOMAIN job'
      /\ job'.op = sweep.st /\ job'.st = "called" /\ job'.waited = TRUE /\ job'.seen = FALSE
      /\ sweep.st = "start" => job'.flag = sweep.rebuilt
      /\ sweep.st = "rows" => job'.flag = FALSE
      /\ sweep.st = "finish" => job'.flag = sweep.reset
  BY DEF Call, NoJob
<1>5. job'.flag \in BOOLEAN
  BY <1>3, <1>4 DEF Steps
<1> QED
  BY <1>1, <1>2, <1>3, <1>4, <1>5 DEF MarkerInv, JobBase

\* GiveUp, Supersede and Close.
LEMMA GiveUpInv == ASSUME MarkerInv, GiveUp PROVE MarkerInv'
<1>1. UNCHANGED <<local, log, rows, req, last, rooted, marker, mem>>
  BY DEF GiveUp, vars, indexVars
<1>2. ExchangeBase' /\ (NotAhead' <=> NotAhead)
  BY <1>1 DEF ExchangeBase, NotAhead, MarkerInv
<1>3. /\ DOMAIN job' = DOMAIN job
      /\ job'.waited = FALSE /\ job'.flag = job.flag /\ job'.seen = job.seen
  BY DEF GiveUp, MarkerInv, JobBase
<1>4. /\ sweep' \in Sweep
      /\ sweep'.rebuilt => sweep'.reset
      /\ sweep'.failed = TRUE
  BY DEF GiveUp, Fails, Sweep, MarkerInv
<1>5. ~Cleared'
  BY <1>4 DEF Cleared
<1> QED
  BY <1>1, <1>2, <1>3, <1>4, <1>5 DEF MarkerInv, JobBase

LEMMA SupersedeInv == ASSUME MarkerInv, Supersede PROVE MarkerInv'
<1>1. UNCHANGED <<local, log, rows, req, last, rooted, marker, mem, job>>
  BY DEF Supersede, centralVars
<1>2. ExchangeBase' /\ (NotAhead' <=> NotAhead)
  BY <1>1 DEF ExchangeBase, NotAhead, MarkerInv
<1>3. sweep.st = "epilogue" /\ job.waited = FALSE
  BY DEF Supersede, MarkerInv, JobBase, Steps
<1>4. /\ sweep' \in Sweep
      /\ sweep'.rebuilt = sweep.rebuilt /\ sweep'.reset = sweep.reset
      /\ sweep'.failed = sweep.failed /\ sweep'.roots = sweep.roots
  BY DEF Supersede, GoesOn, Sweep, MarkerInv
<1>5. Cleared' <=> Cleared
  BY <1>4 DEF Cleared
<1> QED
  BY <1>1, <1>2, <1>3, <1>4, <1>5 DEF MarkerInv, JobBase

LEMMA CloseInv == ASSUME MarkerInv, Close PROVE MarkerInv'
<1>1. UNCHANGED <<local, log, rows, req, last, rooted, mem, job>>
  BY DEF Close, vars
<1>2. ExchangeBase' /\ (NotAhead' <=> NotAhead)
  BY <1>1 DEF ExchangeBase, NotAhead, MarkerInv
<1>3. sweep.st = "close" /\ job.waited = FALSE
  BY DEF Close, MarkerInv, JobBase, Steps
<1>4. sweep' \in Sweep /\ sweep'.st = "off" /\ sweep'.rebuilt = FALSE
  BY NothingUnderWay DEF Close
<1>5. marker' \in BOOLEAN /\ (~marker' => NotAhead)
  BY <1>3 DEF Close, MarkerInv
<1> QED
  BY <1>1, <1>2, <1>3, <1>4, <1>5 DEF MarkerInv, JobBase

\* The first two steps of a handler.
LEMMA AuthenticateInv == ASSUME MarkerInv, Authenticate PROVE MarkerInv'
<1>1. UNCHANGED <<local, log, rows, req, last, rooted, marker, mem, sweep>>
  BY DEF Authenticate, vars, indexVars, sweepVars
<1>2. ExchangeBase' /\ (NotAhead' <=> NotAhead) /\ (Cleared' <=> Cleared)
  BY <1>1 DEF ExchangeBase, NotAhead, Cleared, MarkerInv
<1>3. /\ DOMAIN job' = DOMAIN job
      /\ job'.op = job.op /\ job'.waited = job.waited /\ job'.flag = job.flag
      /\ job'.seen = (last # 0)
  BY DEF Authenticate, MarkerInv, JobBase
<1>4. job'.seen \in BOOLEAN /\ (~job'.seen => last = 0)
  BY <1>3
<1>5. last = 0 => NotAhead
  BY DEF NotAhead, MarkerInv, ExchangeBase
<1> QED
  BY <1>1, <1>2, <1>3, <1>4, <1>5 DEF MarkerInv, JobBase

LEMMA JobLoadInv == ASSUME MarkerInv, JobLoad PROVE MarkerInv'
<1>1. UNCHANGED <<local, log, rows, req, last, rooted, marker, mem, sweep>>
  BY DEF JobLoad, vars, indexVars, sweepVars
<1>2. ExchangeBase' /\ (NotAhead' <=> NotAhead) /\ (Cleared' <=> Cleared)
  BY <1>1 DEF ExchangeBase, NotAhead, Cleared, MarkerInv
<1>3. /\ DOMAIN job' = DOMAIN job /\ job.st = "known"
      /\ job'.op = job.op /\ job'.waited = job.waited /\ job'.flag = job.flag
      /\ job'.seen = job.seen
  BY DEF JobLoad, MarkerInv, JobBase
<1> QED
  BY <1>1, <1>2, <1>3 DEF MarkerInv, JobBase

\* An answer ends the request; the sweep goes on only if it waits for it.
LEMMA AnswerInv ==
    ASSUME MarkerInv, NEW next, Answer(next), next \in Sweep, ExchangeBase',
           next.rebuilt = sweep.rebuilt, next.reset = sweep.reset,
           NotAhead => NotAhead',
           /\ job.waited
           /\ next.st \in {"epilogue", "close"}
           /\ next.rebuilt /\ ~next.failed /\ next.roots
           => NotAhead'
    PROVE  MarkerInv'
<1>1. UNCHANGED <<rooted, marker, mem>> /\ job' = NoJob
  BY DEF Answer, indexVars
<1>2. JobBase' /\ job'.waited = FALSE
  BY <1>1, NothingUnderWay DEF JobBase
<1>3. CASE job.waited
  <2>1. sweep' = next
    BY <1>3 DEF Answer
  <2>2. sweep'.st \in {"epilogue", "close"} /\ Cleared' => NotAhead'
    BY <1>3, <2>1 DEF Cleared
  <2> QED
    BY <1>1, <1>2, <2>1, <2>2 DEF MarkerInv
<1>4. CASE ~job.waited
  <2>1. sweep' = sweep
    BY <1>4 DEF Answer
  <2>2. Cleared' <=> Cleared
    BY <2>1 DEF Cleared
  <2> QED
    BY <1>1, <1>2, <2>1, <2>2 DEF MarkerInv
<1> QED
  BY <1>3, <1>4

\* The sweeps an answer can lead to.
LEMMA NextSweeps ==
    ASSUME sweep \in Sweep
    PROVE  /\ \A n \in {Fails, Restarts} :
                /\ n \in Sweep /\ n.rebuilt = sweep.rebuilt /\ n.reset = sweep.reset
                /\ n.st \in {"epilogue", "close"} => n.failed = TRUE
           /\ \A st \in {"epilogue", "rows", "finish"} :
                /\ GoesOn(st) \in Sweep /\ GoesOn(st).st = st
                /\ GoesOn(st).rebuilt = sweep.rebuilt /\ GoesOn(st).reset = sweep.reset
  BY DEF Fails, Restarts, GoesOn, Sweep, Steps

LEMMA AnsweredOnly ==
    ASSUME MarkerInv, JobGone \/ JobRefuse \/ CommitRows
    PROVE  MarkerInv'
<1>1. UNCHANGED <<local, log, rows, req, last>>
  BY DEF JobGone, JobRefuse, CommitRows, vars
<1>2. ExchangeBase' /\ (NotAhead' <=> NotAhead) /\ sweep \in Sweep
  BY <1>1 DEF ExchangeBase, NotAhead, MarkerInv
<1>3. Answer(Fails) \/ Answer(Restarts) \/ Answer(GoesOn("finish"))
  BY DEF JobGone, JobRefuse, CommitRows
<1>4. ASSUME Answer(Fails) PROVE MarkerInv'
  BY <1>2, <1>4, NextSweeps, AnswerInv
<1>5. ASSUME Answer(Restarts) PROVE MarkerInv'
  BY <1>2, <1>5, NextSweeps, AnswerInv
<1>6. ASSUME Answer(GoesOn("finish")) PROVE MarkerInv'
  BY <1>2, <1>6, NextSweeps, AnswerInv
<1> QED
  BY <1>3, <1>4, <1>5, <1>6

\* What the reset of the watermark guarantees to a sweep that waits for it.
LEMMA ResetKeeps ==
    ASSUME MarkerInv, Reset, UNCHANGED <<local, log, rows, req>>, job.st = "loaded"
    PROVE  /\ ExchangeBase'
           /\ NotAhead => NotAhead'
           /\ job.waited /\ job.flag => NotAhead'
<1>1. Len(log) \in Nat /\ last \in Nat /\ last' \in {0, last}
  BY DEF Reset, MarkerInv, ExchangeBase
<1>2. ExchangeBase'
  BY <1>1 DEF ExchangeBase, MarkerInv
<1>3. NotAhead => NotAhead'
  BY <1>1 DEF NotAhead
<1>4. ASSUME job.waited, job.flag PROVE NotAhead'
  <2>1. CASE job.seen
    BY <1>1, <1>4, <2>1 DEF Reset, NotAhead
  <2>2. CASE ~job.seen
    BY <1>3, <1>4, <2>2 DEF MarkerInv
  <2> QED
    BY <2>1, <2>2
<1> QED
  BY <1>2, <1>3, <1>4

LEMMA CommitStartInv == ASSUME MarkerInv, CommitStart PROVE MarkerInv'
<1>1. UNCHANGED <<local, log, rows, req>> /\ job.st = "loaded" /\ sweep \in Sweep
  BY DEF CommitStart, agentVars, MarkerInv
<1>2. job.waited => job.flag = sweep.rebuilt
  BY DEF CommitStart, MarkerInv
<1>3. CASE Matches
  <2>1. Reset /\ Answer(GoesOn("epilogue"))
    BY <1>3 DEF CommitStart
  <2>2. /\ ExchangeBase' /\ (NotAhead => NotAhead')
        /\ job.waited /\ job.flag => NotAhead'
    BY <1>1, <2>1, ResetKeeps
  <2> QED
    BY <1>1, <1>2, <2>1, <2>2, NextSweeps, AnswerInv
<1>4. CASE ~Matches
  <2>1. UNCHANGED last /\ (Answer(GoesOn("finish")) \/ Answer(GoesOn("rows")))
    BY <1>4 DEF CommitStart
  <2>2. ExchangeBase' /\ (NotAhead' <=> NotAhead)
    BY <1>1, <2>1 DEF ExchangeBase, NotAhead, MarkerInv
  <2>3. ASSUME Answer(GoesOn("finish")) PROVE MarkerInv'
    BY <1>1, <2>2, <2>3, NextSweeps, AnswerInv
  <2>4. ASSUME Answer(GoesOn("rows")) PROVE MarkerInv'
    BY <1>1, <2>2, <2>4, NextSweeps, AnswerInv
  <2> QED
    BY <2>1, <2>3, <2>4
<1> QED
  BY <1>3, <1>4

LEMMA CommitFinishInv == ASSUME MarkerInv, CommitFinish PROVE MarkerInv'
<1>1. UNCHANGED <<local, log, rows, req>> /\ job.st = "loaded" /\ sweep \in Sweep
  BY DEF CommitFinish, agentVars, MarkerInv
<1>2. job.waited => job.flag = sweep.reset /\ (sweep.rebuilt => sweep.reset)
  BY DEF CommitFinish, MarkerInv
<1>3. CASE JoinConflict
  <2>1. UNCHANGED last /\ Answer(Fails)
    BY <1>3 DEF CommitFinish
  <2>2. ExchangeBase' /\ (NotAhead' <=> NotAhead)
    BY <1>1, <2>1 DEF ExchangeBase, NotAhead, MarkerInv
  <2> QED
    BY <1>1, <2>1, <2>2, NextSweeps, AnswerInv
<1>4. CASE ~JoinConflict
  <2>1. Reset /\ Answer(GoesOn("epilogue"))
    BY <1>4 DEF CommitFinish
  <2>2. /\ ExchangeBase' /\ (NotAhead => NotAhead')
        /\ job.waited /\ job.flag => NotAhead'
    BY <1>1, <2>1, ResetKeeps
  <2> QED
    BY <1>1, <1>2, <2>1, <2>2, NextSweeps, AnswerInv
<1> QED
  BY <1>3, <1>4

-----------------------------------------------------------------------------

LEMMA StepMarker == MarkerInv /\ [SyncNext]_syncVars => MarkerInv'
<1> SUFFICES ASSUME MarkerInv, [SyncNext]_syncVars PROVE MarkerInv'
  OBVIOUS
<1>0. ExchangeBase
  BY DEF MarkerInv
<1>1. CASE Replicate
  <2>1. UNCHANGED <<rooted, marker, mem, sweep, job>>
    BY <1>1 DEF Replicate, indexVars, sweepVars
  <2>2. Mild
    BY <1>0, <1>1, ScanMild, PostMild, DrainMild, ServeMild DEF Replicate
  <2> QED
    BY <2>1, <2>2, MildStep
<1>2. CASE \E h \in Handlers : SyncSetCursor(h)
  <2>1. UNCHANGED <<rooted, marker, mem, sweep, job>>
    BY <1>2 DEF SyncSetCursor
  <2>2. Mild
    BY <1>0, <1>2, DrainMild DEF SyncSetCursor
  <2> QED
    BY <2>1, <2>2, MildStep
<1>3. CASE \E k \in rows : SyncPrune(k)
  <2>1. UNCHANGED <<rooted, marker, mem, sweep, job>>
    BY <1>3 DEF SyncPrune, sweepVars
  <2>2. Mild
    BY <1>0, <1>3, PruneMild DEF SyncPrune
  <2> QED
    BY <2>1, <2>2, MildStep
<1>4. CASE SyncRestart \/ EnsureRoot \/ Rebuild
  BY <1>4, RestartInv, EnsureRootInv, RebuildInv
<1>5. CASE Begin \/ \E force \in BOOLEAN : RunNow(force)
  BY <1>5, ProjectedInv DEF Begin, RunNow
<1>6. CASE Call \/ GiveUp \/ Supersede \/ Close
  BY <1>6, CallInv, GiveUpInv, SupersedeInv, CloseInv
<1>7. CASE Authenticate \/ JobLoad \/ JobGone \/ CommitRows \/ JobRefuse
  BY <1>7, AuthenticateInv, JobLoadInv, AnsweredOnly
<1>8. CASE CommitStart \/ CommitFinish
  BY <1>8, CommitStartInv, CommitFinishInv
<1>9. CASE UNCHANGED syncVars
  <2>1. UNCHANGED <<local, log, rows, req, last, rooted, marker, mem, sweep, job>>
    BY <1>9 DEF syncVars, vars, indexVars, sweepVars
  <2>2. ExchangeBase' /\ (NotAhead' <=> NotAhead) /\ (Cleared' <=> Cleared)
    BY <1>0, <2>1 DEF ExchangeBase, NotAhead, Cleared
  <2> QED
    BY <2>1, <2>2 DEF MarkerInv, JobBase
<1> QED
  BY <1>1, <1>2, <1>3, <1>4, <1>5, <1>6, <1>7, <1>8, <1>9 DEF SyncNext

\* The marker is honest: ClearRebuiltPending never runs while central still has
\* a watermark ahead of the agent's own numbering, whatever fails, is given up
\* on, restarts or is rebuilt in between; for any number of handlers, paths,
\* events and rebuilds.
THEOREM MarkerStaysHonest == SyncSpec => []MarkerIsHonest
<1>1. MarkerInv => MarkerIsHonest
  BY DEF MarkerInv, MarkerIsHonest, NotAhead
<1> QED
  BY <1>1, InitMarker, StepMarker, PTL DEF SyncSpec

-----------------------------------------------------------------------------
(* The outbox under resets and rebuilds.                                   *)

\* The rows below the batch that is waited for are sent, and stay so until its
\* answer: a reset stamps rows above it too, but nothing rewinds meanwhile.  A
\* batch in hand has no internal gap, so a 409 names a row it does not start at.
HeadInv ==
    /\ sent \subseteq rows
    /\ OutboxShape
    /\ \A h \in Handlers :
         /\ {"st", "first", "final", "seqs", "code", "expected"} \subseteq DOMAIN req[h]
         /\ req[h].st # "idle" => /\ req[h].first \in 1..Len(log)
                                  /\ req[h].seqs = req[h].first..req[h].final
         /\ req[h].st # "idle" /\ h = awaited =>
              \A t \in rows : t < req[h].first => t \in sent
         /\ req[h].st = "replied" /\ req[h].code = "409" =>
              req[h].expected \in Nat /\ req[h].expected # req[h].first

\* What a step may do to a request in hand.
SameBatch(h) ==
    /\ {"st", "first", "final", "seqs", "code", "expected"} \subseteq DOMAIN req'[h]
    /\ req'[h].st # "idle" =>
         /\ req[h].st # "idle" /\ req'[h].first = req[h].first
         /\ req'[h].final = req[h].final /\ req'[h].seqs = req[h].seqs
    /\ req'[h].st = "replied" /\ req'[h].code = "409" =>
         req'[h].expected \in Nat /\ req'[h].expected # req'[h].first

LEMMA IdleFields ==
    /\ Idle.st = "idle"
    /\ {"st", "first", "final", "seqs", "code", "expected"} \subseteq DOMAIN Idle
  BY DEF Idle

LEMMA HeadKept ==
    ASSUME HeadInv, UNCHANGED <<log, rows, sent>>, awaited' = awaited \/ awaited' \notin Handlers,
           \A h \in Handlers : SameBatch(h)
    PROVE  HeadInv'
<1>1. OutboxShape' /\ sent' \subseteq rows'
  BY DEF HeadInv, OutboxShape
<1>2. ASSUME NEW h \in Handlers
      PROVE  /\ {"st", "first", "final", "seqs", "code", "expected"} \subseteq DOMAIN req'[h]
             /\ req'[h].st # "idle" => /\ req'[h].first \in 1..Len(log')
                                       /\ req'[h].seqs = req'[h].first..req'[h].final
             /\ req'[h].st # "idle" /\ h = awaited' =>
                  \A t \in rows' : t < req'[h].first => t \in sent'
             /\ req'[h].st = "replied" /\ req'[h].code = "409" =>
                  req'[h].expected \in Nat /\ req'[h].expected # req'[h].first
  BY DEF HeadInv, SameBatch
<1> QED
  BY <1>1, <1>2 DEF HeadInv

\* A request nobody touches is the same batch.
LEMMA SameIfKept ==
    ASSUME HeadInv, NEW h \in Handlers, req'[h] = req[h] PROVE SameBatch(h)
  BY DEF HeadInv, SameBatch

LEMMA SameIfReleased ==
    ASSUME ExchangeBase, HeadInv, NEW h \in Handlers,
           req' = [req EXCEPT ![h] = Idle] \/ req' = req
    PROVE  \A g \in Handlers : SameBatch(g)
<1> SUFFICES ASSUME NEW g \in Handlers PROVE SameBatch(g)
  OBVIOUS
<1>1. CASE req'[g] = req[g]
  BY <1>1, SameIfKept
<1>2. CASE req'[g] = Idle
  BY <1>2, IdleFields DEF SameBatch
<1> QED
  BY <1>1, <1>2 DEF ExchangeBase

LEMMA HeadInit == SyncInit => HeadInv
<1> SUFFICES ASSUME SyncInit PROVE HeadInv
  OBVIOUS
<1>1. rows = {} /\ sent = {} /\ \A h \in Handlers : req[h] = Idle
  BY DEF SyncInit, Init
<1> QED
  BY <1>1, IdleFields DEF HeadInv, OutboxShape

LEMMA WriteHead ==
    ASSUME ExchangeBase, HeadInv, NEW e, Write(e)
    PROVE  HeadInv'
<1>1. PICK n \in Nat : n = Len(log)
  BY DEF ExchangeBase
<1>2. Len(log') = n + 1 /\ rows' = rows \cup {n + 1} /\ UNCHANGED <<sent, req, awaited>>
  BY <1>1 DEF Write, ExchangeBase, drainVars
<1>3. rows \subseteq 1..n /\ sent \subseteq rows
  BY <1>1 DEF ExchangeBase, HeadInv
<1>4. OutboxShape'
  <2>1. ASSUME NEW s \in rows', NEW t \in s..(n + 1) PROVE t \in rows'
    <3>1. CASE s = n + 1
      BY <1>2, <3>1
    <3>2. CASE s \in rows
      <4>1. t \in s..n \/ t = n + 1
        BY <1>3, <3>2
      <4> QED
        BY <1>1, <1>2, <3>2, <4>1 DEF HeadInv, OutboxShape
    <3> QED
      BY <1>2, <3>1, <3>2
  <2>2. ASSUME NEW s \in sent', NEW t \in rows', t < s PROVE t \in sent'
    <3>1. t # n + 1
      BY <1>2, <1>3, <2>2
    <3> QED
      BY <1>2, <2>2, <3>1 DEF HeadInv, OutboxShape
  <2> QED
    BY <1>2, <2>1, <2>2 DEF OutboxShape
<1>5. ASSUME NEW h \in Handlers, req[h].st # "idle"
      PROVE  /\ req[h].first \in 1..(n + 1)
             /\ h = awaited => \A t \in rows' : t < req[h].first => t \in sent
  <2>1. req[h].first \in 1..n
    BY <1>1, <1>5 DEF HeadInv
  <2>2. ~(n + 1 < req[h].first)
    BY <2>1
  <2> QED
    BY <1>2, <1>5, <2>1, <2>2 DEF HeadInv
<1> QED
  BY <1>2, <1>3, <1>4, <1>5 DEF HeadInv

\* The posted batch is the head of the unsent rows, and it has no gap.
LEMMA PostHead == ASSUME ExchangeBase, HeadInv, NEW h \in Handlers, Post(h) PROVE HeadInv'
<1>1. PICK lo \in Unsent, hi \in Unsent :
        /\ \A s \in Unsent : lo <= s
        /\ req' = [req EXCEPT ![h] = [Idle EXCEPT !.st = "received", !.first = lo,
                                                  !.final = hi,
                                                  !.seqs = {s \in Unsent : s <= hi}]]
  BY Zenon DEF Post
<1>2. UNCHANGED <<log, rows, sent>> /\ awaited' = h
  BY DEF Post, agentVars
<1>3. Len(log) \in Nat /\ rows \subseteq 1..Len(log) /\ lo \in rows /\ hi \in rows /\ lo \notin sent
  BY DEF ExchangeBase, Unsent
<1>4. {s \in Unsent : s <= hi} = lo..hi
  <2>1. ASSUME NEW s \in Unsent, s <= hi PROVE s \in lo..hi
    <3>1. s \in Nat /\ lo \in Nat /\ hi \in Nat /\ lo <= s
      BY <1>1, <1>3 DEF Unsent
    <3> QED
      BY <2>1, <3>1
  <2>2. ASSUME NEW s \in lo..hi PROVE s \in Unsent /\ s <= hi
    <3>1. s \in lo..Len(log) /\ s <= hi /\ s \in Nat /\ lo \in Nat
      BY <1>3
    <3>2. s \in rows
      BY <1>3, <3>1 DEF HeadInv, OutboxShape
    <3>3. s \notin sent
      <4>1. CASE s = lo
        BY <1>3, <4>1
      <4>2. CASE s # lo
        <5>1. lo < s
          BY <3>1, <4>2
        <5> QED
          BY <1>3, <5>1 DEF HeadInv, OutboxShape
      <4> QED
        BY <4>1, <4>2
    <3> QED
      BY <3>1, <3>2, <3>3 DEF Unsent
  <2> QED
    BY <2>1, <2>2
<1>5. /\ \A g \in Handlers : g # h => req'[g] = req[g]
      /\ {"st", "first", "final", "seqs", "code", "expected"} \subseteq DOMAIN req'[h]
      /\ req'[h].st = "received" /\ req'[h].first = lo /\ req'[h].final = hi
      /\ req'[h].seqs = lo..hi
  BY <1>1, <1>4 DEF ExchangeBase, Idle
<1>6. ASSUME NEW t \in rows, t < lo PROVE t \in sent
  <2>1. t \in Nat /\ lo \in Nat /\ ~(lo <= t)
    BY <1>3, <1>6
  <2> QED
    BY <1>1, <2>1 DEF Unsent
<1>7. OutboxShape' /\ sent' \subseteq rows'
  BY <1>2 DEF HeadInv, OutboxShape
<1> QED
  BY <1>2, <1>3, <1>5, <1>6, <1>7 DEF HeadInv

\* The sent rows become a lower set again.
LEMMA SentHead ==
    ASSUME ExchangeBase, HeadInv, UNCHANGED <<log, rows>>, awaited' \notin Handlers,
           \A h \in Handlers : SameBatch(h), sent' \subseteq rows,
           \A s \in sent' : \A t \in rows : t < s => t \in sent'
    PROVE  HeadInv'
<1>1. OutboxShape'
  BY DEF HeadInv, OutboxShape
<1> QED
  BY <1>1 DEF HeadInv, SameBatch

LEMMA MarkSentHead ==
    ASSUME ExchangeBase, HeadInv, NEW h \in Handlers, MarkSent(h)
    PROVE  HeadInv'
<1>1. /\ UNCHANGED <<log, rows>> /\ awaited = h /\ awaited' = None /\ req[h].st # "idle"
      /\ sent' = sent \cup (rows \cap (req[h].first .. req[h].final))
      /\ req' = [req EXCEPT ![h] = Idle]
  BY DEF MarkSent
<1>2. /\ rows \subseteq 1..Len(log) /\ Len(log) \in Nat /\ sent \subseteq rows
      /\ req[h].first \in Nat /\ req[h].final \in Nat
  BY <1>1 DEF ExchangeBase, HeadInv
<1>3. ASSUME NEW s \in sent', NEW t \in rows, t < s PROVE t \in sent'
  <2>1. CASE s \in sent
    BY <1>1, <1>3, <2>1 DEF HeadInv, OutboxShape
  <2>2. CASE s \in req[h].first..req[h].final
    <3>1. CASE t < req[h].first
      BY <1>1, <3>1 DEF HeadInv
    <3>2. CASE ~(t < req[h].first)
      <4>1. PICK f \in Nat : f = req[h].first
        BY <1>2
      <4>2. t \in Nat /\ s \in f..req[h].final
        BY <1>2, <2>2, <4>1
      <4>3. t \in f..req[h].final
        BY <1>2, <1>3, <3>2, <4>1, <4>2
      <4> QED
        BY <1>1, <4>1, <4>3
    <3> QED
      BY <3>1, <3>2
  <2> QED
    BY <1>1, <2>1, <2>2
<1>4. awaited' \notin Handlers
  BY <1>1, NoneAssumption
<1>5. \A g \in Handlers : SameBatch(g)
  BY <1>1, SameIfReleased
<1> QED
  BY <1>1, <1>2, <1>3, <1>4, <1>5, SentHead

LEMMA SetCursorHead ==
    ASSUME ExchangeBase, HeadInv, NEW h \in Handlers, SetCursor(h)
    PROVE  HeadInv'
<1>1. /\ UNCHANGED <<log, rows>> /\ awaited' = None /\ req[h].expected \in Nat
      /\ req' = [req EXCEPT ![h] = Idle]
      /\ sent' = (sent \cup Forwarded(req[h].expected)) \ Rewound(req[h].expected)
  BY DEF SetCursor, HeadInv
<1>2. PICK e \in Nat : e = req[h].expected
  BY <1>1
<1>3. rows \subseteq Nat /\ sent \subseteq rows
  BY DEF ExchangeBase, HeadInv
<1>4. \A s \in rows : s \in sent' <=> s < e
  BY <1>1, <1>2, <1>3 DEF Forwarded, Rewound, Unsent
<1>5. sent' \subseteq rows
  BY <1>1, <1>3 DEF Forwarded, Unsent
<1>6. ASSUME NEW s \in sent', NEW t \in rows, t < s PROVE t \in sent'
  <2>1. s \in Nat /\ t \in Nat /\ s < e
    BY <1>3, <1>4, <1>5
  <2> QED
    BY <1>4, <1>6, <2>1
<1>7. awaited' \notin Handlers /\ \A g \in Handlers : SameBatch(g)
  BY <1>1, SameIfReleased, NoneAssumption
<1> QED
  BY <1>1, <1>5, <1>6, <1>7, SentHead

\* Steps of the drain that leave the outbox alone, and restarts.
LEMMA QuietHead ==
    ASSUME ExchangeBase, HeadInv, Restart \/ \E h \in Handlers : BackOff(h) \/ Timeout(h)
    PROVE  HeadInv'
<1>1. UNCHANGED <<log, rows, sent>> /\ awaited' = None
  BY DEF Restart, BackOff, Timeout, agentVars
<1>2. \/ req' = req
      \/ \E h \in Handlers : req' = [req EXCEPT ![h] = Idle]
      \/ awaited \notin Handlers /\ req' = [req EXCEPT ![awaited] = Idle]
  BY DEF Restart, BackOff, Timeout, Abandon
<1>3. ASSUME NEW g \in Handlers PROVE SameBatch(g)
  <2>1. CASE req'[g] = req[g]
    BY <2>1, SameIfKept
  <2>2. CASE req'[g] = Idle
    BY <2>2, IdleFields DEF SameBatch
  <2> QED
    BY <1>2, <2>1, <2>2 DEF ExchangeBase
<1>4. awaited' \notin Handlers
  BY <1>1, NoneAssumption
<1> QED
  BY <1>1, <1>3, <1>4, HeadKept

LEMMA PruneHead == ASSUME ExchangeBase, HeadInv, NEW k \in rows, PruneSent(k) PROVE HeadInv'
<1>1. /\ UNCHANGED <<log, awaited, req>>
      /\ rows' = rows \ {s \in sent : s <= k /\ \E t \in rows : s < t}
      /\ sent' = sent \cap rows'
  BY DEF PruneSent, drainVars
<1>2. rows \subseteq 1..Len(log) /\ Len(log) \in Nat
  BY DEF ExchangeBase
<1>3. ASSUME NEW s \in rows', NEW t \in s..Len(log) PROVE t \in rows'
  <2>1. s \in Nat /\ k \in Nat /\ t \in Nat /\ s \in rows /\ t \in rows /\ s <= t
    BY <1>1, <1>2 DEF HeadInv, OutboxShape
  <2>2. CASE t = s
    BY <2>2
  <2>3. CASE t # s
    <3>1. ASSUME t \in sent, t <= k PROVE FALSE
      <4>1. s < t /\ s <= k
        BY <2>1, <2>3, <3>1
      <4>2. s \in sent
        BY <2>1, <3>1, <4>1 DEF HeadInv, OutboxShape
      <4> QED
        BY <1>1, <2>1, <4>1, <4>2
    <3> QED
      BY <1>1, <2>1, <3>1
  <2> QED
    BY <2>2, <2>3
<1>4. OutboxShape'
  <2>1. \A s \in sent' : \A t \in rows' : t < s => t \in sent'
    BY <1>1 DEF HeadInv, OutboxShape
  <2> QED
    BY <1>1, <1>3, <2>1 DEF OutboxShape
<1>5. sent' \subseteq rows'
  BY <1>1
<1>6. rows' \subseteq rows /\ \A t \in rows' : t \in sent => t \in sent'
  BY <1>1
<1> QED
  BY <1>1, <1>4, <1>5, <1>6 DEF HeadInv

\* A handler's steps keep the batch; its 409 names the watermark's successor.
LEMMA ServeHead ==
    ASSUME ExchangeBase, HeadInv, NEW h \in Handlers,
           Check(h) \/ Load(h) \/ Commit(h) \/ Refuse(h)
    PROVE  HeadInv'
<1>1. UNCHANGED <<log, rows, sent, awaited>> /\ req[h].st # "idle"
  BY DEF Check, Load, Commit, Refuse, agentVars, drainVars
<1>2. ASSUME NEW c, NEW e, Reply(h, c, e),
             c = "409" => e \in Nat /\ e # req[h].first
      PROVE  \A g \in Handlers : SameBatch(g)
  <2> DEFINE r == [Idle EXCEPT !.st = "replied", !.first = req[h].first,
                               !.final = req[h].final, !.seqs = req[h].seqs,
                               !.code = c, !.expected = e]
  <2>1. req' = [req EXCEPT ![h] = r] \/ req' = [req EXCEPT ![h] = Idle]
    BY <1>2 DEF Reply
  <2>2. /\ {"st", "first", "final", "seqs", "code", "expected"} \subseteq DOMAIN r
        /\ r.first = req[h].first /\ r.final = req[h].final /\ r.seqs = req[h].seqs
        /\ r.code = c /\ r.expected = e
    BY DEF Idle
  <2> HIDE DEF r
  <2>3. ASSUME NEW g \in Handlers PROVE SameBatch(g)
    <3>1. CASE req'[g] = req[g]
      BY <3>1, SameIfKept
    <3>2. CASE req'[g] = Idle
      BY <3>2, IdleFields DEF SameBatch
    <3>3. CASE g = h /\ req'[g] = r
      BY <1>1, <1>2, <2>2, <3>3 DEF SameBatch
    <3> QED
      BY <2>1, <3>1, <3>2, <3>3 DEF ExchangeBase
  <2> QED
    BY <2>3
<1>3. ASSUME \A g \in Handlers : g # h => req'[g] = req[g],
             DOMAIN req'[h] = DOMAIN req[h], req'[h].st # "replied",
             req'[h].first = req[h].first, req'[h].final = req[h].final,
             req'[h].seqs = req[h].seqs
      PROVE  \A g \in Handlers : SameBatch(g)
  <2>1. SameBatch(h)
    BY <1>1, <1>3 DEF SameBatch, HeadInv
  <2> QED
    BY <1>3, <2>1, SameIfKept
<1>4. CASE Check(h)
  <2> DEFINE e == CheckBatch(req[h], last)
  <2>1. CASE e = 0
    <3>1. req' = [req EXCEPT ![h].st = "accepted", ![h].seen = last]
      BY <1>4, <2>1 DEF Check
    <3>2. /\ \A g \in Handlers : g # h => req'[g] = req[g]
          /\ DOMAIN req'[h] = DOMAIN req[h] /\ req'[h].st = "accepted"
          /\ req'[h].first = req[h].first /\ req'[h].final = req[h].final
          /\ req'[h].seqs = req[h].seqs
      BY <3>1 DEF ExchangeBase, HeadInv
    <3> QED
      BY <1>1, <1>3, <3>2, HeadKept
  <2>2. CASE e # 0
    <3>1. req[h].first..req[h].final \subseteq req[h].seqs /\ last + 1 \in Nat
      BY <1>1 DEF HeadInv, ExchangeBase
    <3>2. e \in Nat /\ e # req[h].first
      BY <2>2, <3>1 DEF CheckBatch
    <3>3. Reply(h, "409", e)
      BY <1>4, <2>2 DEF Check
    <3> HIDE DEF e
    <3> QED
      BY <1>1, <1>2, <3>2, <3>3, HeadKept
  <2> QED
    BY <2>1, <2>2
<1>5. CASE Load(h)
  <2>1. /\ \A g \in Handlers : g # h => req'[g] = req[g]
        /\ DOMAIN req'[h] = DOMAIN req[h] /\ req'[h].st = "loaded"
        /\ req'[h].first = req[h].first /\ req'[h].final = req[h].final
        /\ req'[h].seqs = req[h].seqs
    BY <1>5 DEF Load, ExchangeBase, HeadInv
  <2> QED
    BY <1>1, <1>3, <2>1, HeadKept
<1>6. CASE Commit(h) \/ Refuse(h)
  <2>1. Reply(h, "error", 0) \/ Reply(h, "200", 0)
    BY <1>6 DEF Commit, Refuse
  <2> QED
    BY <1>1, <1>2, <2>1, HeadKept
<1> QED
  BY <1>4, <1>5, <1>6

\* The epilogue of a reset stamps every row; a rebuild leaves none.
LEMMA ResetHead ==
    ASSUME ExchangeBase, HeadInv, Supersede \/ Rebuild
    PROVE  HeadInv'
<1>1. CASE Supersede
  <2>1. UNCHANGED <<log, rows, awaited, req>> /\ (sent' = sent \/ sent' = sent \cup Unsent)
    BY <1>1 DEF Supersede, MarkAllSent, drainVars
  <2>2. CASE sent' = sent
    BY <2>1, <2>2, SameIfKept, HeadKept
  <2>3. CASE sent' = sent \cup Unsent
    <3>1. sent' = rows
      BY <2>3 DEF HeadInv, Unsent
    <3>2. OutboxShape'
      BY <2>1, <3>1 DEF HeadInv, OutboxShape
    <3> QED
      BY <2>1, <3>1, <3>2 DEF HeadInv
  <2> QED
    BY <2>1, <2>2, <2>3
<1>2. CASE Rebuild
  <2>1. rows' = {} /\ sent' = {} /\ UNCHANGED req /\ \A h \in Handlers : req[h].st = "idle"
    BY <1>2 DEF Rebuild
  <2> QED
    BY <2>1 DEF HeadInv, OutboxShape
<1> QED
  BY <1>1, <1>2

LEMMA StepHead == MarkerInv /\ HeadInv /\ [SyncNext]_syncVars => HeadInv'
<1> SUFFICES ASSUME MarkerInv, HeadInv, [SyncNext]_syncVars PROVE HeadInv'
  OBVIOUS
<1>0. ExchangeBase
  BY DEF MarkerInv
<1>1. ASSUME UNCHANGED <<log, rows, sent, awaited, req>> PROVE HeadInv'
  BY <1>1, SameIfKept, HeadKept
<1>2. CASE Replicate
  <2>1. ASSUME Scan PROVE HeadInv'
    BY <1>0, <2>1, WriteHead DEF Scan, Upsert, Tombstone, Move
  <2> QED
    BY <1>0, <1>2, <2>1, PostHead, MarkSentHead, QuietHead, ServeHead DEF Replicate
<1>3. CASE \E h \in Handlers : SyncSetCursor(h)
  BY <1>0, <1>3, SetCursorHead DEF SyncSetCursor
<1>4. CASE \E k \in rows : SyncPrune(k)
  BY <1>0, <1>4, PruneHead DEF SyncPrune
<1>5. CASE SyncRestart
  BY <1>0, <1>5, QuietHead DEF SyncRestart
<1>6. CASE Supersede \/ Rebuild
  BY <1>0, <1>6, ResetHead
<1>7. CASE \/ EnsureRoot \/ Begin \/ \E force \in BOOLEAN : RunNow(force)
           \/ Call \/ GiveUp \/ Close
  BY <1>1, <1>7 DEF EnsureRoot, Begin, RunNow, Projected, Call, GiveUp, Close, vars
<1>8. CASE \/ Authenticate \/ JobLoad \/ JobGone \/ CommitStart \/ CommitRows
           \/ CommitFinish \/ JobRefuse
  BY <1>1, <1>8 DEF Authenticate, JobLoad, JobGone, CommitStart, CommitRows, CommitFinish,
                    JobRefuse, vars, agentVars, drainVars
<1>9. CASE UNCHANGED syncVars
  BY <1>1, <1>9 DEF syncVars, vars
<1> QED
  BY <1>2, <1>3, <1>4, <1>5, <1>6, <1>7, <1>8, <1>9 DEF SyncNext

\* The outbox stays gap-free when reset sweeps stamp rows under a batch that is
\* on its way, late answers move the cursor afterwards, and the index is lost:
\* the drain never posts a batch with a hole.
THEOREM OutboxSurvivesResets == SyncSpec => []OutboxShape
<1>1. HeadInv => OutboxShape
  BY DEF HeadInv
<1> QED
  BY <1>1, InitMarker, StepMarker, HeadInit, StepHead, PTL DEF SyncSpec

\* A dead end signalled although the outbox holds the row that central expects:
\* only for a batch that a reset sweep has stamped, or a prune then deleted, while
\* its answer was under way.
DeadEndIsRealOrReset ==
    [][\A h \in Handlers :
         SetCursor(h) /\ "dead_end" \in raised' \ raised
         => req[h].expected \notin rows \/ req[h].first \notin Unsent]_syncVars

\* With reset sweeps beside the drain, ErrCursorDeadEnd is raised only when the
\* expected row is gone, or when the sweep overtook the batch: then the rows below
\* the expected one are stamped already, neither arm of SetCursor finds a row, and
\* the signal costs one more sweep.
THEOREM DeadEndsOrResets == SyncSpec => DeadEndIsRealOrReset
<1>1. ASSUME MarkerInv, HeadInv, NEW h \in Handlers, SetCursor(h),
             "dead_end" \in raised' \ raised, req[h].first \in Unsent
      PROVE  req[h].expected \notin rows
  <2>1. /\ req[h].expected \in Nat /\ req[h].expected # req[h].first
        /\ \A t \in rows : t < req[h].first => t \in sent
    BY <1>1 DEF SetCursor, HeadInv
  <2>2. rows \subseteq Nat /\ req[h].first \in rows /\ req[h].first \notin sent
    BY <1>1 DEF MarkerInv, ExchangeBase, Unsent
  <2>3. Forwarded(req[h].expected) = {} /\ Rewound(req[h].expected) = {}
    BY <1>1 DEF SetCursor, Contact
  <2>4. PICK e \in Nat : e = req[h].expected
    BY <2>1
  <2>5. PICK f \in Nat : f = req[h].first
    BY <2>2
  <2>6. CASE e > f
    BY <1>1, <2>3, <2>4, <2>5, <2>6 DEF Forwarded
  <2>7. CASE e < f
    <3>1. e \in rows => e \in sent
      BY <2>1, <2>5, <2>7
    <3> QED
      BY <2>3, <2>4, <3>1 DEF Rewound
  <2> QED
    BY <2>1, <2>4, <2>5, <2>6, <2>7
<1>2. MarkerInv /\ HeadInv /\ [SyncNext]_syncVars
        => [\A h \in Handlers :
              SetCursor(h) /\ "dead_end" \in raised' \ raised
              => req[h].expected \notin rows \/ req[h].first \notin Unsent]_syncVars
  BY <1>1
<1> QED
  BY <1>2, InitMarker, StepMarker, HeadInit, StepHead, PTL DEF SyncSpec, DeadEndIsRealOrReset

-----------------------------------------------------------------------------
(* What a sweep achieves.                                                  *)

\* The request a sweep waits for carries the sweep's own manifest.
CarriedInv ==
    /\ \A p \in Path : {"status", "val"} \subseteq DOMAIN items[p]
    /\ {"manifest", "base"} \subseteq DOMAIN job
    /\ job.waited => job.manifest = sweep.manifest

\* A sweep that central answers with "in sync", or whose manifest it joins, leaves
\* central with exactly the catalog the sweep projected, unless item rows changed
\* between the handler's load and its commit.
SweepEqualizes ==
    [][((CommitStart /\ Matches) \/ (CommitFinish /\ ~JoinConflict)) /\ job.waited /\ job.base = items
       => View' = sweep.manifest]_syncVars

LEMMA CarriedInit == SyncInit => CarriedInv
  BY DEF SyncInit, Init, NoRows, NoRow, NoJob, CarriedInv

\* Central's writes leave rows.
LEMMA RowsStayRows ==
    ASSUME CarriedInv, [SyncNext]_syncVars
    PROVE  \A p \in Path : {"status", "val"} \subseteq DOMAIN items'[p]
<1>1. UNCHANGED items => \A p \in Path : {"status", "val"} \subseteq DOMAIN items'[p]
  BY DEF CarriedInv
<1>2. ASSUME NEW h \in Handlers, Commit(h), ~UNCHANGED items
      PROVE  \A p \in Path : {"status", "val"} \subseteq DOMAIN items'[p]
  <2>1. items' = Applied(req[h].seqs, req[h].base)
    BY <1>2 DEF Commit, centralVars
  <2>2. ASSUME NEW p \in Path PROVE {"status", "val"} \subseteq DOMAIN items'[p]
    BY <2>1 DEF Applied, Flush, CarriedInv
  <2> QED
    BY <2>2
<1>3. ASSUME CommitFinish, ~UNCHANGED items
      PROVE  \A p \in Path : {"status", "val"} \subseteq DOMAIN items'[p]
  BY <1>3 DEF CommitFinish, Flush
<1>4. CASE Replicate
  <2>1. UNCHANGED items \/ \E h \in Handlers : Commit(h)
    BY <1>4 DEF Replicate, Scan, Upsert, Tombstone, Move, Write, Post, MarkSent, BackOff,
                Timeout, Check, Load, Refuse, centralVars
  <2> QED
    BY <1>1, <1>2, <2>1
<1>5. CASE \/ \E h \in Handlers : SyncSetCursor(h)
           \/ \E k \in rows : SyncPrune(k)
           \/ SyncRestart \/ EnsureRoot \/ Rebuild
  BY <1>1, <1>5 DEF SyncSetCursor, SetCursor, SyncPrune, PruneSent, SyncRestart, Restart,
                    EnsureRoot, Rebuild, centralVars, vars
<1>6. CASE \/ Begin \/ \E force \in BOOLEAN : RunNow(force)
           \/ Call \/ GiveUp \/ Supersede \/ Close
  BY <1>1, <1>6 DEF Begin, RunNow, Projected, Call, GiveUp, Supersede, Close, centralVars, vars
<1>7. CASE Authenticate \/ JobLoad \/ JobGone \/ CommitStart \/ CommitRows \/ JobRefuse
  BY <1>1, <1>7 DEF Authenticate, JobLoad, JobGone, CommitStart, CommitRows, JobRefuse, vars
<1>8. CASE UNCHANGED syncVars
  BY <1>1, <1>8 DEF syncVars, vars
<1> QED
  BY <1>1, <1>3, <1>4, <1>5, <1>6, <1>7, <1>8 DEF SyncNext

LEMMA StepCarried == MarkerInv /\ CarriedInv /\ [SyncNext]_syncVars => CarriedInv'
<1> SUFFICES ASSUME MarkerInv, CarriedInv, [SyncNext]_syncVars PROVE CarriedInv'
  OBVIOUS
<1>0. \A p \in Path : {"status", "val"} \subseteq DOMAIN items'[p]
  BY RowsStayRows
<1>1. {"manifest", "base"} \subseteq DOMAIN NoJob /\ NoJob.waited = FALSE
  BY DEF NoJob
<1>2. {"manifest", "base"} \subseteq DOMAIN job /\ "waited" \in DOMAIN job
  BY DEF CarriedInv, MarkerInv, JobBase
<1>3. job.waited => sweep.st \in Steps
  BY DEF MarkerInv
<1>4. ASSUME UNCHANGED <<job, sweep>> PROVE CarriedInv'
  BY <1>0, <1>4 DEF CarriedInv
<1>5. ASSUME Forget PROVE CarriedInv'
  <2>1. {"manifest", "base"} \subseteq DOMAIN job' /\ job'.waited = FALSE
    BY <1>2, <1>5 DEF Forget
  <2> QED
    BY <1>0, <2>1 DEF CarriedInv
<1>6. ASSUME NEW n, Answer(n) PROVE CarriedInv'
  BY <1>0, <1>1, <1>6 DEF Answer, CarriedInv
<1>7. CASE Replicate \/ \E h \in Handlers : SyncSetCursor(h)
  BY <1>4, <1>7 DEF Replicate, SyncSetCursor, sweepVars
<1>8. CASE EnsureRoot \/ \E k \in rows : SyncPrune(k)
  BY <1>4, <1>8 DEF SyncPrune, EnsureRoot, sweepVars
<1>9. CASE SyncRestart \/ Rebuild
  BY <1>5, <1>9 DEF SyncRestart, Rebuild
<1>10. CASE Begin \/ (\E force \in BOOLEAN : RunNow(force)) \/ Supersede \/ Close
  <2>1. job' = job /\ sweep.st \notin Steps
    BY <1>10 DEF Begin, RunNow, Projected, Supersede, Close, Steps
  <2> QED
    BY <1>0, <1>3, <2>1 DEF CarriedInv
<1>11. CASE Call
  <2>1. job'.manifest = sweep.manifest /\ {"manifest", "base"} \subseteq DOMAIN job' /\ sweep' = sweep
    BY <1>11 DEF Call, NoJob, sweepVars
  <2> QED
    BY <1>0, <2>1 DEF CarriedInv
<1>12. CASE GiveUp
  <2>1. {"manifest", "base"} \subseteq DOMAIN job' /\ job'.waited = FALSE
    BY <1>2, <1>12 DEF GiveUp
  <2> QED
    BY <1>0, <2>1 DEF CarriedInv
<1>13. CASE Authenticate \/ JobLoad
  <2>1. /\ {"manifest", "base"} \subseteq DOMAIN job' /\ job'.manifest = job.manifest
        /\ job'.waited = job.waited /\ sweep' = sweep
    BY <1>2, <1>13 DEF Authenticate, JobLoad, sweepVars
  <2> QED
    BY <1>0, <2>1 DEF CarriedInv
<1>14. CASE JobGone \/ CommitStart \/ CommitRows \/ CommitFinish \/ JobRefuse
  <2>1. \E n : Answer(n)
    BY <1>14 DEF JobGone, CommitStart, CommitRows, CommitFinish, JobRefuse
  <2> QED
    BY <1>6, <2>1
<1>15. CASE UNCHANGED syncVars
  BY <1>4, <1>15 DEF syncVars, sweepVars
<1> QED
  BY <1>7, <1>8, <1>9, <1>10, <1>11, <1>12, <1>13, <1>14, <1>15 DEF SyncNext

\* The anti-join, written through the differences to a copy that is still current.
LEMMA JoinShows ==
    ASSUME NEW old, {"status", "val"} \subseteq DOMAIN old, NEW v
    PROVE  LET new == Flush(old, old, Joined(old, v))
           IN  v = IF new.status = "active" THEN new.val ELSE None
<1> DEFINE j == Joined(old, v)
           new == Flush(old, old, j)
<1>1. new.status = j.status /\ new.val = j.val
  BY DEF Flush
<1>2. CASE v # None
  <2>1. j = [status |-> "active", val |-> v]
    BY <1>2 DEF Joined
  <2> QED
    BY <1>1, <2>1
<1>3. CASE v = None
  <2>1. j.status # "active"
    BY <1>3 DEF Joined
  <2> QED
    BY <1>1, <1>3, <2>1
<1> QED
  BY <1>2, <1>3

\* Reconcile repairs whatever was lost before: a successful sweep makes central
\* show the projected index, for any divergence, any paths and any history.
THEOREM SweepsEqualize == SyncSpec => SweepEqualizes
<1>1. ASSUME MarkerInv, CarriedInv, job.waited, job.base = items,
             (CommitStart /\ Matches) \/ (CommitFinish /\ ~JoinConflict)
      PROVE  View' = sweep.manifest
  <2>1. job.manifest = sweep.manifest /\ sweep.manifest \in Manifest
    BY <1>1 DEF CarriedInv, MarkerInv, Sweep
  <2>2. ASSUME NEW p \in Path
        PROVE  sweep.manifest[p] = IF items'[p].status = "active" THEN items'[p].val ELSE None
    <3>1. CASE CommitStart /\ Matches
      BY <1>1, <2>1, <3>1 DEF CommitStart, Matches
    <3>2. CASE CommitFinish /\ ~JoinConflict
      <4>1. items'[p] = Flush(items[p], items[p], Joined(items[p], sweep.manifest[p]))
        BY <1>1, <2>1, <3>2 DEF CommitFinish
      <4>2. {"status", "val"} \subseteq DOMAIN items[p]
        BY <1>1 DEF CarriedInv
      <4> QED
        BY <4>1, <4>2, JoinShows
    <3> QED
      BY <1>1, <3>1, <3>2
  <2>3. sweep.manifest = [p \in Path |-> sweep.manifest[p]]
    BY <2>1 DEF Manifest
  <2>4. View' = [p \in Path |-> IF items'[p].status = "active" THEN items'[p].val ELSE None]
    BY DEF View
  <2> QED
    BY <2>2, <2>3, <2>4
<1>2. MarkerInv /\ CarriedInv /\ [SyncNext]_syncVars
        => [((CommitStart /\ Matches) \/ (CommitFinish /\ ~JoinConflict)) /\ job.waited /\ job.base = items
            => View' = sweep.manifest]_syncVars
  BY <1>1
<1> QED
  BY <1>2, InitMarker, StepMarker, CarriedInit, StepCarried, PTL DEF SyncSpec, SweepEqualizes
=============================================================================
