---------------------------- MODULE CatalogScan ----------------------------
(***************************************************************************)
(* Central's own scan of one library (backend/filearr/tasks/scan.py and    *)
(* move.py), the extract jobs it queues (tasks/extract.py), the endpoints  *)
(* that cancel or stop it (api/scans.py) and the maintenance tick that     *)
(* fails the run of a dead worker (worker.py), over a disk that changes at *)
(* any moment and a mount that dies.                                       *)
(*                                                                         *)
(* A file version stands for the bytes, the size and the mtime of a file:  *)
(* the walk sees the size and the mtime, a hash sees the bytes.  A row     *)
(* keeps the version each of its three hashes was taken from: two samples, *)
(* which collide, and the content hash, which does not.  One scan of the   *)
(* library runs at a time, in the default staged pipeline.                 *)
(***************************************************************************)
EXTENDS Integers, FiniteSets

CONSTANTS
  Path,        \* library-relative paths, in one directory tree
  Version,     \* file versions
  Size,        \* Size[v]: the size of version v
  Quick,       \* Quick[v]: quick_hash, a sample of its head and tail
  Mid,         \* Mid[v]: mid_hash, a sample of its middle, None if it is small
  Targets,     \* targeted scopes: [kind : {"file", "dir"}, set : SUBSET Path]
  None,
  FlushEvery,  \* FLUSH_EVERY: seen files per commit
  FirstDisk,   \* bound: what the library may hold before its first scan
  Depths,      \* how many of its three hashes a pass may reach
  MaxItems,    \* bound: item rows ever inserted
  MaxEdits,    \* bound: moments at which the disk changes
  MaxFaults    \* bound: faults and operator requests

File == Version \cup {None}
Row == [rel : Path, stat : Version, status : {"active", "missing"},
        hash : File, mid : File, full : File]

ASSUME ConstantsAssumption ==
  /\ IsFiniteSet(Path)
  /\ None \notin Version \cup Row
  /\ FlushEvery \in Nat \ {0}
  /\ MaxItems \in Nat /\ MaxEdits \in Nat /\ MaxFaults \in Nat
  /\ Depths \subseteq 1..3
  /\ FirstDisk \subseteq [Path -> File]
  /\ Targets \subseteq [kind : {"file", "dir"}, set : SUBSET Path]

VARIABLES
  disk,    \* the library's files: a version or None at every path
  mount,   \* "up", "gone" (unreadable root) or "hollow" (readable, empty)
  items,   \* committed rows of the items table
  born,    \* rows inserted so far
  queue,   \* ids with an unfinished extract job
  run,     \* status of the latest ScanRun
  scan,    \* the scan job's own state
  asked,   \* a cancel or stop request that has read the run as "running"
  edits, faults

vars == <<disk, mount, items, born, queue, run, scan, asked, edits, faults>>

Id == 1..MaxItems
Full == [kind |-> "full", set |-> Path]

Live == {"running", "stopping"}
Terminal == {"none", "finished", "failed", "cancelled", "stopped"}

(* No scan job is being worked on. *)
Idle ==
  [pc |-> "idle", scope |-> Full, force |-> FALSE, dark |-> FALSE,
   base |-> [i \in Id |-> None], busy |-> {}, todo |-> {}, denied |-> {}, solid |-> {},
   found |-> [p \in Path |-> None], fresh |-> {}, stop |-> FALSE,
   pending |-> {}, new |-> {}]

(* Type invariant of the disk, the rows, the run, the scan and the queue:  *)
(* no two rows ever share a path.                                          *)
TypeOK ==
  /\ disk \in [Path -> File]
  /\ mount \in {"up", "gone", "hollow"}
  /\ items \in [Id -> Row \cup {None}]
  /\ born \in 0..MaxItems
  /\ queue \subseteq Id
  /\ run \in Live \cup Terminal
  /\ scan.pc \in {"idle", "walk", "defer"}
  /\ scan.new \subseteq 1..born /\ scan.pending \subseteq 1..born
  /\ scan.fresh \subseteq {p \in Path : scan.found[p] # None}
  /\ asked \in {"no", "cancel", "stop", "orphan"}
  /\ edits \in 0..MaxEdits /\ faults \in 0..MaxFaults
  \* the unique index on (library_id, rel_path)
  /\ \A i, j \in Id :
       i # j /\ items[i] # None /\ items[j] # None => items[i].rel # items[j].rel

Init ==
  /\ disk \in FirstDisk
  /\ mount = "up"
  /\ items = [i \in Id |-> None]
  /\ born = 0
  /\ queue = {}
  /\ run = "none"
  /\ scan = Idle
  /\ asked = "no"
  /\ edits = 0 /\ faults = 0

-----------------------------------------------------------------------------
(* The world around central. *)

(* Files are written, removed or renamed, any number of them before the    *)
(* next step of central.  Paths that hold no file afterwards are no longer *)
(* solid, that is, continuously listed since the scan started.             *)
ChangeDisk(d) ==
  /\ edits < MaxEdits /\ d # disk
  /\ edits' = edits + 1
  /\ disk' = d
  /\ scan' = [scan EXCEPT !.solid = {p \in scan.solid : d[p] # None}]
  /\ UNCHANGED <<mount, items, born, queue, run, asked, faults>>

Fault == faults < MaxFaults /\ faults' = faults + 1

MountFails(m) ==
  /\ mount = "up" /\ Fault
  /\ mount' = m
  /\ UNCHANGED <<disk, items, born, queue, run, scan, asked, edits>>

MountReturns ==
  /\ mount # "up"
  /\ mount' = "up"
  /\ UNCHANGED <<disk, items, born, queue, run, scan, asked, edits, faults>>

Readable(p) == IF mount = "up" THEN disk[p] ELSE None

(* What a hash of a row's file reads. *)
Bytes(r) == IF r = None THEN None ELSE Readable(r.rel)

-----------------------------------------------------------------------------
(* Starting a scan. *)

(* The ids of the rows at a path. *)
At(rows, p) == {i \in Id : rows[i] # None /\ rows[i].rel = p}

(* Nothing is at a targeted scope.  A file that is gone but has a row is   *)
(* scanned (its row is tombstoned), a directory that is gone is left       *)
(* alone; a directory without files may be there or not.                   *)
Vanished(s) ==
  /\ s.kind # "full"
  /\ \A p \in s.set : Readable(p) = None
  /\ s.kind = "file" => \A p \in s.set : At(items, p) = {}

(* scan_library up to the walk: a new ScanRun, the pre-flight check of the *)
(* root, the classification of the scope, and the load of the existing     *)
(* rows and of the ids already queued.  An empty mountpoint lists nothing. *)
StartScan(s, force) ==
  /\ scan.pc = "idle" /\ run \notin Live
  /\ asked' = "no"                \* an earlier request is about an earlier run
  /\ \/ /\ mount = "gone"                      \* assert_scannable_root raises
        /\ run' = "failed" /\ UNCHANGED scan
     \/ /\ mount # "gone" /\ Vanished(s)       \* scope_missing: finish clean
        /\ run' = "finished" /\ UNCHANGED scan
     \/ /\ mount # "gone"
        /\ ~Vanished(s) \/ (s.kind = "dir" /\ mount = "up")
        /\ run' = "running"
        /\ scan' = [Idle EXCEPT
                      !.pc = "walk", !.scope = s, !.force = force,
                      !.dark = (mount # "up"), !.base = items,
                      !.busy = {i \in queue : items[i] # None},
                      !.todo = IF mount = "up" THEN s.set ELSE {},
                      !.solid = {p \in Path : disk[p] # None}]
  /\ UNCHANGED <<disk, mount, items, born, queue, edits>>

(* The library's cron, a targeted scan, and a rescan with force_empty. *)
ScheduledScan == StartScan(Full, FALSE) /\ UNCHANGED faults
TargetedScan(t) == Fault /\ StartScan(t, FALSE)
ForcedScan == Fault /\ StartScan(Full, TRUE)

-----------------------------------------------------------------------------
(* The walk. *)

Seen(sc) == {p \in Path : sc.found[p] # None}

(* Paths of the batch that have no row yet, and the ids they get. *)
Created(sc) == {p \in sc.fresh : At(sc.base, p) = {}}
Born(sc) == born + Cardinality(Created(sc))
NewId(sc) ==
  CHOOSE f \in [Created(sc) -> (born + 1)..Born(sc)] :
    \A p, q \in Created(sc) : p # q => f[p] # f[q]

NewRow(p, v) == [rel |-> p, stat |-> v, status |-> "active",
                 hash |-> None, mid |-> None, full |-> None]

(* The rows after the batch: new files inserted, seen ones refreshed and   *)
(* active.                                                                 *)
Flushed(sc) ==
  [i \in Id |->
     IF i \in (born + 1)..Born(sc)
     THEN LET p == CHOOSE q \in Created(sc) : NewId(sc)[q] = i
          IN  NewRow(p, sc.found[p])
     ELSE IF sc.base[i] # None /\ sc.base[i].rel \in sc.fresh
     THEN [items[i] EXCEPT !.stat = sc.found[sc.base[i].rel], !.status = "active"]
     ELSE items[i]]

\* Mutant: no self-heal of rows that were never hashed.
ToExtractOnce(sc) ==
  {i \in Id :
     \/ i \in (born + 1)..Born(sc)
     \/ /\ sc.base[i] # None /\ sc.base[i].rel \in sc.fresh
        /\ sc.base[i].stat # sc.found[sc.base[i].rel]}

(* Files of the batch to extract: new, changed, or never hashed and not    *)
(* queued already.                                                         *)
ToExtract(sc) ==
  {i \in Id :
     \/ i \in (born + 1)..Born(sc)
     \/ /\ sc.base[i] # None /\ sc.base[i].rel \in sc.fresh
        /\ \/ sc.base[i].stat # sc.found[sc.base[i].rel]
           \/ sc.base[i].hash = None /\ i \notin sc.busy}

(* The scan's own lists once the batch is in the database. *)
Batched(sc) ==
  [sc EXCEPT !.fresh = {}, !.pending = sc.pending \cup ToExtract(sc),
             !.new = sc.new \cup (born + 1)..Born(sc)]

(* publish_progress: commit the batch, then look at the run: go on, stop   *)
(* walking, or abort with nothing queued.                                  *)
PublishProgress(sc) ==
  /\ items' = Flushed(sc) /\ born' = Born(sc)
  /\ \/ run = "running" /\ scan' = Batched(sc)
     \/ run = "stopping" /\ scan' = [Batched(sc) EXCEPT !.stop = TRUE, !.todo = {}]
     \/ run \notin Live /\ scan' = Idle

(* The walk yields a file. *)
Visit(p) ==
  /\ scan.pc = "walk" /\ p \in scan.todo /\ Readable(p) # None
  /\ LET sc == [scan EXCEPT !.todo = scan.todo \ {p}, !.found[p] = disk[p],
                            !.fresh = scan.fresh \cup {p}]
     IN  /\ Born(sc) <= MaxItems
         /\ \/ /\ Cardinality(Seen(sc)) % FlushEvery # 0
               /\ scan' = sc /\ UNCHANGED <<items, born>>
            \/ /\ Cardinality(Seen(sc)) % FlushEvery = 0
               /\ PublishProgress(sc)
  /\ UNCHANGED <<disk, mount, queue, run, asked, edits, faults>>

(* The directory was listed while the path held no file. *)
Pass(p) ==
  /\ scan.pc = "walk" /\ p \in scan.todo \ scan.solid
  /\ scan' = [scan EXCEPT !.todo = scan.todo \ {p}]
  /\ UNCHANGED <<disk, mount, items, born, queue, run, asked, edits, faults>>

(* A directory may not be read, and what is below it is skipped: the scan  *)
(* goes on as if it were empty.  The scan of a single file takes any error *)
(* of its stat, a lost mount included, for a file that is gone.            *)
Skip(ps) ==
  /\ scan.pc = "walk" /\ ps \subseteq scan.todo /\ ps # {}
  /\ \/ Fault
     \/ scan.scope.kind = "file" /\ mount # "up" /\ UNCHANGED faults
  /\ scan' = [scan EXCEPT !.todo = scan.todo \ ps, !.denied = scan.denied \cup ps]
  /\ UNCHANGED <<disk, mount, items, born, queue, run, asked, edits>>

-----------------------------------------------------------------------------
(* The end of the scan: one transaction. *)

(* Rows of the scanned set that the walk did not see, as they were loaded. *)
Unseen(sc) ==
  {i \in Id : /\ sc.base[i] # None /\ sc.base[i].status = "active"
              /\ sc.base[i].rel \in sc.scope.set \ Seen(sc)}

Candidates(sc) == {i \in Unseen(sc) : ~sc.stop /\ sc.base[i].hash # None}

(* A row hashed at version v: the quick hash, then the middle sample, then *)
(* the content hash.  The pass ends after d of them, at an error or, before *)
(* the last, by the library's hash policy and ceiling; the hashes it has   *)
(* not reached stay as they were.                                          *)
Sampled(r, v, d) ==
  [r EXCEPT !.hash = IF d > 0 THEN v ELSE @,
            !.mid  = IF d > 1 THEN v ELSE @,
            !.full = IF d > 2 THEN v ELSE @]

(* _ensure_hashes: rows of this scan are hashed on the spot when there is  *)
(* a candidate to compare them with.                                       *)
ToHash(sc, rows) ==
  {i \in sc.new : /\ Candidates(sc) # {} /\ rows[i].hash = None
                   /\ Bytes(rows[i]) # None}

Hashed(sc, rows, depth) ==
  [i \in Id |-> IF i \in ToHash(sc, rows)
                THEN Sampled(rows[i], Bytes(rows[i]), depth[i]) ELSE rows[i]]

SameKey(a, b) == Quick[a.hash] = Quick[b.hash] /\ Size[a.stat] = Size[b.stat]

Middle(r) == IF r.mid = None THEN None ELSE Mid[r.mid]

\* Mutant: the sample of the middle is believed before the content hash.
VerdictBySample(a, b) ==
  LET Of(same) == IF same THEN "yes" ELSE "no"
  IN  CASE Middle(a) # None /\ Middle(b) # None -> Of(Middle(a) = Middle(b))
        [] a.full # None /\ b.full # None       -> Of(a.full = b.full)
        [] OTHER                                 -> "unknown"

(* _match: by the content hashes when both rows have one, else by the      *)
(* samples of the middle, else unknown.                                    *)
Verdict(a, b) ==
  LET Of(same) == IF same THEN "yes" ELSE "no"
  IN  IF a.full # None /\ b.full # None THEN Of(a.full = b.full)
      ELSE IF Middle(a) # None /\ Middle(b) # None THEN Of(Middle(a) = Middle(b))
      ELSE "unknown"

(* plan_moves: <<survivor, duplicate>> pairs of the same bucket.  The only *)
(* pair of a bucket moves unless the verdict is against it; in a larger    *)
(* bucket a pair needs a verdict for it and no rival with such a verdict   *)
(* on either side.                                                         *)
Moves(sc, rows) ==
  LET news == {n \in sc.new : rows[n].hash # None}
      Key(c, n) == SameKey(sc.base[c], rows[n])
      Sure(c, n) == Key(c, n) /\ Verdict(sc.base[c], rows[n]) = "yes"
  IN  {m \in Candidates(sc) \X news :
         /\ Key(m[1], m[2])
         /\ \/ /\ Verdict(sc.base[m[1]], rows[m[2]]) # "no"
               /\ \A c \in Candidates(sc) : Key(c, m[2]) => c = m[1]
               /\ \A n \in news : Key(m[1], n) => n = m[2]
            \/ /\ Sure(m[1], m[2])
               /\ \A c \in Candidates(sc) : Sure(c, m[2]) => c = m[1]
               /\ \A n \in news : Sure(m[1], n) => n = m[2]}

\* Mutant: the duplicate is not deleted.
MovedTwice(rows, moves) ==
  [i \in Id |->
     IF \E m \in moves : m[1] = i
     THEN rows[(CHOOSE m \in moves : m[1] = i)[2]]
     ELSE rows[i]]

(* detect_moves: the survivor takes the duplicate's location, stat and     *)
(* hashes, the duplicate is deleted.                                       *)
Moved(rows, moves) ==
  [i \in Id |->
     IF \E m \in moves : m[2] = i THEN None
     ELSE IF \E m \in moves : m[1] = i
     THEN rows[(CHOOSE m \in moves : m[1] = i)[2]]
     ELSE rows[i]]

\* Mutant: a stopped walk tombstones what it has not reached.
TombstonedAnyway(sc, rows) ==
  [i \in Id |->
     IF i \in Unseen(sc) /\ rows[i].rel \notin Seen(sc)
     THEN [rows[i] EXCEPT !.status = "missing"] ELSE rows[i]]

\* Mutant: only rows that were candidates for a move are tombstoned.
TombstonedHashed(sc, rows) ==
  [i \in Id |->
     IF i \in Candidates(sc) /\ rows[i].rel \notin Seen(sc)
     THEN [rows[i] EXCEPT !.status = "missing"] ELSE rows[i]]

(* Rows that neither were seen nor moved to a seen path become missing. *)
Tombstoned(sc, rows) ==
  [i \in Id |->
     IF i \in Unseen(sc) /\ ~sc.stop /\ rows[i].rel \notin Seen(sc)
     THEN [rows[i] EXCEPT !.status = "missing"] ELSE rows[i]]

(* The N->0 guard: a full walk that saw nothing over active rows. *)
EmptyTree(sc) ==
  /\ ~sc.stop /\ sc.scope.kind = "full" /\ ~sc.force
  /\ Seen(sc) = {}
  /\ \E i \in Id : sc.base[i] # None /\ sc.base[i].status = "active"

(* Only the list of extract jobs is needed after it. *)
Finish ==
  /\ scan.pc = "walk" /\ scan.todo = {} /\ ~EmptyTree(scan)
  /\ \E depth \in [ToHash(Batched(scan), Flushed(scan)) -> {0} \cup Depths] :
       LET sc    == Batched(scan)
           rows  == Hashed(sc, Flushed(scan), depth)
           moves == Moves(sc, rows)
       IN  /\ items' = Tombstoned(sc, Moved(rows, moves))
           /\ born' = Born(scan)
           /\ scan' = [Idle EXCEPT !.pc = "defer",
                                   !.pending = sc.pending \ {m[2] : m \in moves}]
  /\ run' = IF scan.stop THEN "stopped" ELSE "finished"
  /\ UNCHANGED <<disk, mount, queue, asked, edits, faults>>

(* _defer_extract_batch, after the commit. *)
DeferExtracts ==
  /\ scan.pc = "defer"
  /\ queue' = queue \cup scan.pending
  /\ scan' = Idle
  /\ UNCHANGED <<disk, mount, items, born, run, asked, edits, faults>>

(* The crash handler of scan_library: roll back, mark the run failed.  The *)
(* walk of a directory raises when the mount is lost under it or a listed  *)
(* file is gone, and the guard raises.                                     *)
ScanFails ==
  /\ scan.pc = "walk"
  /\ \/ scan.scope.kind # "file" /\ mount # "up" /\ scan.todo # {} /\ UNCHANGED faults
     \/ scan.todo = {} /\ EmptyTree(scan) /\ UNCHANGED faults
     \/ scan.scope.kind # "file" /\ ~(scan.todo \subseteq scan.solid) /\ Fault
  /\ scan' = Idle /\ run' = "failed"
  /\ UNCHANGED <<disk, mount, items, born, queue, asked, edits>>

(* The worker process is killed: nothing marks the run. *)
WorkerDies ==
  /\ scan.pc # "idle" /\ Fault
  /\ scan' = Idle
  /\ UNCHANGED <<disk, mount, items, born, queue, run, asked, edits>>

\* Mutant: the reaper's UPDATE matches no run of the library.
ReapNothing ==
  /\ scan.pc = "idle" /\ run \in Live
  /\ UNCHANGED vars

(* reap_stalled_jobs: the run of a scan job that nobody works on is failed *)
(* and, when the job had ended and a late stop request marked the run, it  *)
(* is stopped.                                                             *)
Reap ==
  /\ scan.pc = "idle" /\ run \in Live
  /\ \/ run' = "failed"
     \/ run = "stopping" /\ run' = "stopped"
  /\ UNCHANGED <<disk, mount, items, born, queue, scan, asked, edits, faults>>

-----------------------------------------------------------------------------
(* The cancel and stop endpoints read the run and write it later.  A stop  *)
(* without a live scan job finalizes the run at once.                      *)
AskRun(what) ==
  /\ run = "running" /\ asked = "no" /\ Fault
  /\ asked' = IF what = "stop" /\ scan.pc = "idle" THEN "orphan" ELSE what
  /\ UNCHANGED <<disk, mount, items, born, queue, run, scan, edits>>

MarkRun ==
  /\ asked # "no"
  /\ run' = CASE asked = "cancel" -> "cancelled"
              [] asked = "stop"   -> "stopping"
              [] asked = "orphan" -> "stopped"
  /\ asked' = "no"
  /\ UNCHANGED <<disk, mount, items, born, queue, scan, edits, faults>>

-----------------------------------------------------------------------------
(* extract_item: waits while a scan is walking, hashes the bytes now at    *)
(* the row's path, or leaves the hashes as they are when it cannot read.   *)
Extract(i) ==
  /\ i \in queue /\ run \notin Live
  /\ queue' = queue \ {i}
  /\ \/ Bytes(items[i]) = None /\ UNCHANGED items
     \/ /\ Bytes(items[i]) # None
        /\ \E d \in Depths : items' = [items EXCEPT ![i] = Sampled(@, Bytes(items[i]), d)]
  /\ UNCHANGED <<disk, mount, born, run, scan, asked, edits, faults>>

(* The commit of the extracted data fails, or the job uses up its retries: *)
(* the hashes stay as they were.                                           *)
ExtractFails(i) ==
  /\ i \in queue /\ run \notin Live /\ Fault
  /\ queue' = queue \ {i}
  /\ UNCHANGED <<disk, mount, items, born, run, scan, asked, edits>>

(* retry-extracts: active rows never hashed that have no job. *)
RetryExtracts ==
  /\ Fault
  /\ queue' = queue \cup {i \in Id : /\ items[i] # None /\ items[i].hash = None
                                     /\ items[i].status = "active"}
  /\ UNCHANGED <<disk, mount, items, born, run, scan, asked, edits>>

-----------------------------------------------------------------------------
World ==
  \/ \E d \in [Path -> File] : ChangeDisk(d)
  \/ \E m \in {"gone", "hollow"} : MountFails(m)
  \/ MountReturns

Walk ==
  \/ \E p \in Path : Visit(p) \/ Pass(p)
  \/ \E ps \in SUBSET Path : Skip(ps)

Next ==
  \/ World
  \/ ScheduledScan
  \/ \E t \in Targets : TargetedScan(t)
  \/ ForcedScan
  \/ Walk
  \/ Finish
  \/ DeferExtracts
  \/ ScanFails
  \/ WorkerDies
  \/ Reap
  \/ \E what \in {"cancel", "stop"} : AskRun(what)
  \/ MarkRun
  \/ \E i \in Id : Extract(i)
  \/ \E i \in Id : ExtractFails(i)
  \/ RetryExtracts

Spec == Init /\ [][Next]_vars

(* The cron fires again once the library is free; a job on a live worker   *)
(* goes on; the reaper and the extract workers run; an endpoint answers.   *)
FairSpec ==
  /\ Spec
  /\ WF_vars(ScheduledScan)
  /\ WF_vars(Walk) /\ WF_vars(Finish) /\ WF_vars(DeferExtracts)
  /\ WF_vars(ScanFails) /\ WF_vars(Reap) /\ WF_vars(MarkRun)
  /\ \A i \in Id : SF_vars(Extract(i))

-----------------------------------------------------------------------------
(* Properties. *)

(* A scan marks a row missing only when the file really was away at some   *)
(* moment since the scan started: stops, cancels, crashes, lost and empty  *)
(* mounts and files that appear under the walk never tombstone a file that *)
(* stayed where it was.  Excepted are files below a directory the walk was *)
(* not allowed to list, the file of a single-file scan whose stat failed   *)
(* (both are skipped in silence), a rescan the operator forced and a       *)
(* single-file scan on an empty mountpoint, which the N->0 guard does not  *)
(* cover.                                                                  *)
NoFalseTombstone ==
  [][\A i \in Id :
       /\ items[i] # None /\ items'[i] # None
       /\ items[i].status = "active" /\ items'[i].status = "missing"
       => \/ items[i].rel \notin scan.solid
          \/ items[i].rel \in scan.denied
          \/ scan.dark /\ (scan.force \/ scan.scope.kind = "file")]_vars

(* Scans keep identities: a row is deleted only when the same scan has     *)
(* inserted it, and an id goes to another path only when its own file was  *)
(* away (or skipped), to a file of the size and quick hash it was loaded   *)
(* with, and never to one whose content hash differs from its own.  Where  *)
(* one of the two has no content hash the id may move on samples alone.    *)
IdentityKept ==
  [][\A i \in Id :
       items[i] # None =>
         /\ items'[i] = None => i \in scan.new
         /\ items'[i] # None /\ items'[i].rel # items[i].rel
              => /\ items[i].rel \notin scan.solid \/ items[i].rel \in scan.denied
                 /\ SameKey(scan.base[i], items'[i])
                 /\ None \in {scan.base[i].full, items'[i].full}
                      \/ scan.base[i].full = items'[i].full]_vars

(* A run that is shown as running or stopping reaches a final status,      *)
(* whatever happens to its worker and whenever the operator interferes.    *)
(* The reaper acts on dead scans only here; a live one starved of its      *)
(* heartbeats, which it may fail too, is not modelled.                     *)
RunEnds == []<>(run \notin Live)

(* Once the disk and the operator come to rest, and no directory is        *)
(* skipped any more, the catalog mirrors the disk: every file has an       *)
(* active row at its current version, and no row is active where there is  *)
(* no file.  Excepted is a library that lost all its files: the N->0 guard *)
(* fails every scan of it and its rows stay active until a forced rescan.  *)
ActiveAt(p) == {i \in At(items, p) : items[i].status = "active"}
Mirrors ==
  \A p \in Path :
    IF disk[p] = None THEN ActiveAt(p) = {}
    ELSE \E i \in ActiveAt(p) : items[i].stat = disk[p]

EventuallyMirrors ==
  <>[](mount = "up" /\ (\E p \in Path : disk[p] # None) => Mirrors)

(* No committed row is lost to extraction: a scan that was cancelled or    *)
(* crashed, or an extract job that failed, leaves rows without a hash, and *)
(* a later scan queues them again.  It speaks of having a hash only: that  *)
(* of a changed file may stay the one of its old bytes.                    *)
EventuallyHashed ==
  <>[](\A i \in Id :
         items[i] # None /\ items[i].status = "active" /\ Readable(items[i].rel) # None
           => items[i].hash # None)
=============================================================================
