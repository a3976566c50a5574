---------------------------- MODULE SearchIndex ----------------------------
(***************************************************************************)
(* The Meilisearch projection of the items table: incremental sync jobs    *)
(* (backend/filearr/tasks/index_sync.py), the hourly reconcile sweep       *)
(* (tasks/reconcile.py) and the nightly rebuild into a shadow index        *)
(* (meili_ops.rebuild_via_swap), with the writers of the table.            *)
(*                                                                         *)
(* A document is the version of the row it was built from.  Every writer   *)
(* commits first and queues the sync of what it changed afterwards, or, as *)
(* scans do for tombstones, revivals and fresh inserts, queues nothing.    *)
(***************************************************************************)
EXTENDS Integers, FiniteSets

CONSTANTS
  Item,       \* item ids
  Worker,     \* job slots that serve the index queue
  MaxFixes,   \* reconcile_max_fixes
  MaxWrites,  \* bound: commits of the writers
  MaxFaults   \* bound: crashes and failed jobs

ASSUME IndexAssumption ==
  /\ MaxFixes \in Nat /\ MaxWrites \in Nat /\ MaxFaults \in Nat
  /\ Worker \cap {"sweep", "rebuild"} = {}

VARIABLES
  rows,     \* the items table: version and status of every id
  index,    \* live index: the version of the document, 0 for none
  owed,     \* jobs that a writer has yet to queue for its last commit
  jobs,     \* unfinished jobs of the index queue that nobody works on
  busy,     \* what every worker has read and is about to write
  sweep,    \* the reconcile sweep
  rebuild,  \* the nightly rebuild
  late,     \* history: rows committed after an unfinished reader started
  writes, faults

vars == <<rows, index, owed, jobs, busy, sweep, rebuild, late, writes, faults>>

Job == [op : {"sync", "delete"}, id : Item]
Reader == Worker \cup {"sweep", "rebuild"}

NoJob == [op |-> "none"]
NoSweep == [pc |-> "idle"]
NoRebuild == [pc |-> "idle"]

(* The document a row projects to; rows that are not active have none. *)
Doc(row) == IF row.status = "active" THEN row.ver ELSE 0
Projection == [i \in Item |-> Doc(rows[i])]

Active == {i \in Item : rows[i].status = "active"}
Indexed == {i \in Item : index[i] # 0}

\* Type invariant of the rows, the index, the jobs, the workers, the sweep and the
\* rebuild: what the index shows is a state the row has had.
TypeOK ==
  /\ rows \in [Item -> [ver : 0..MaxWrites, status : {"absent", "active", "missing"}]]
  /\ index \in [Item -> 0..MaxWrites]
  /\ owed \subseteq Job /\ jobs \subseteq Job
  /\ \A w \in Worker : busy[w] = NoJob \/ (busy[w].op \in {"sync", "delete"} /\ busy[w].id \in Item)
  /\ sweep.pc \in {"idle", "listed", "planned", "deleted", "read"}
  /\ rebuild.pc \in {"idle", "read"}
  /\ late \in [Reader -> SUBSET Item]
  /\ writes \in 0..MaxWrites /\ faults \in 0..MaxFaults
  \* a document never shows a version the table did not have
  /\ \A i \in Item : index[i] <= rows[i].ver

Init ==
  /\ rows = [i \in Item |-> [ver |-> 0, status |-> "absent"]]
  /\ index = [i \in Item |-> 0]
  /\ owed = {} /\ jobs = {}
  /\ busy = [w \in Worker |-> NoJob]
  /\ sweep = NoSweep /\ rebuild = NoRebuild
  /\ late = [r \in Reader |-> {}]
  /\ writes = 0 /\ faults = 0

Fault == faults < MaxFaults /\ faults' = faults + 1

-----------------------------------------------------------------------------
(* Writers. *)

Reading ==
  {w \in Worker : busy[w] # NoJob}
    \cup {r \in {"sweep"} : sweep # NoSweep} \cup {r \in {"rebuild"} : rebuild # NoRebuild}

Commit(i, row) ==
  /\ writes < MaxWrites
  /\ writes' = writes + 1
  /\ rows' = [rows EXCEPT ![i] = row]
  /\ late' = [r \in Reader |-> IF r \in Reading THEN late[r] \cup {i} ELSE late[r]]
  /\ UNCHANGED <<index, jobs, busy, sweep, rebuild, faults>>

(* The scan inserts a row; its extraction is a later change. *)
Insert(i) ==
  /\ rows[i].ver = 0
  /\ Commit(i, [ver |-> 1, status |-> "active"])
  /\ UNCHANGED owed

(* The scan tombstones a row or finds its file again. *)
Flip(i) ==
  /\ rows[i].status # "absent"
  /\ Commit(i, [rows[i] EXCEPT !.status = IF rows[i].status = "active"
                                          THEN "missing" ELSE "active"])
  /\ UNCHANGED owed

(* extract_item, PATCH of an item, an agent's replication batch, a verify  *)
(* result: a change, and a sync once it is committed.                      *)
Change(i, status) ==
  /\ rows[i].status # "absent"
  /\ Commit(i, [ver |-> rows[i].ver + 1, status |-> status])
  /\ owed' = owed \cup {[op |-> "sync", id |-> i]}

(* The deletion of a library, or the purge of the recycle bin. *)
Remove(i) ==
  /\ rows[i].status # "absent"
  /\ Commit(i, [rows[i] EXCEPT !.status = "absent"])
  /\ owed' = owed \cup {[op |-> "delete", id |-> i]}

(* defer_index_sync and defer_delete_docs, after the commit; the writer    *)
(* may die before, or the queue refuse.                                    *)
Defer(j) ==
  /\ j \in owed
  /\ owed' = owed \ {j} /\ jobs' = jobs \cup {j}
  /\ UNCHANGED <<rows, index, busy, sweep, rebuild, late, writes, faults>>

DeferLost(j) ==
  /\ j \in owed /\ Fault
  /\ owed' = owed \ {j}
  /\ UNCHANGED <<rows, index, jobs, busy, sweep, rebuild, late, writes>>

-----------------------------------------------------------------------------
(* sync_items and delete_documents: read the row, then write the index.    *)

\* Mutant: a sync upserts rows that are not active too.
TakeAnyStatus(w, j) ==
  /\ j \in jobs /\ busy[w] = NoJob
  /\ jobs' = jobs \ {j}
  /\ busy' = [busy EXCEPT ![w] =
       [op |-> j.op, id |-> j.id,
        doc |-> CASE j.op = "delete" -> {0}
                  [] j.op = "sync" /\ rows[j.id].status = "absent" -> {}
                  [] OTHER -> {rows[j.id].ver}]]
  /\ UNCHANGED <<rows, index, owed, sweep, rebuild, late, writes, faults>>

(* What the job writes for its id: a document, 0 to delete it, and         *)
(* nothing for a sync of a row that no longer exists.                      *)
Take(w, j) ==
  /\ j \in jobs /\ busy[w] = NoJob
  /\ jobs' = jobs \ {j}
  /\ busy' = [busy EXCEPT ![w] =
       [op |-> j.op, id |-> j.id,
        doc |-> CASE j.op = "delete" -> {0}
                  [] j.op = "sync" /\ rows[j.id].status = "absent" -> {}
                  [] OTHER -> {Doc(rows[j.id])}]]
  /\ UNCHANGED <<rows, index, owed, sweep, rebuild, late, writes, faults>>

(* The write lands when the job ends.  upsert_docs waits for the task; one  *)
(* that has not settled at the deadline is trusted, and its landing later  *)
(* is not modelled.                                                        *)
Put(w) ==
  /\ busy[w] # NoJob
  /\ \/ busy[w].doc = {} /\ UNCHANGED index
     \/ \E d \in busy[w].doc : index' = [index EXCEPT ![busy[w].id] = d]
  /\ busy' = [busy EXCEPT ![w] = NoJob]
  /\ late' = [late EXCEPT ![w] = {}]
  /\ UNCHANGED <<rows, owed, jobs, sweep, rebuild, writes, faults>>

(* Meilisearch refuses the write or the worker dies: the job is retried,   *)
(* or has used up MEILI_RETRY and is left failed.                          *)
PutFails(w) ==
  /\ busy[w] # NoJob /\ Fault
  /\ \/ jobs' = jobs \cup {[op |-> busy[w].op, id |-> busy[w].id]}
     \/ UNCHANGED jobs
  /\ busy' = [busy EXCEPT ![w] = NoJob]
  /\ late' = [late EXCEPT ![w] = {}]
  /\ UNCHANGED <<rows, index, owed, sweep, rebuild, writes>>

-----------------------------------------------------------------------------
(* run_reconcile_sweep. *)

QueueBusy == jobs # {} \/ \E w \in Worker : busy[w] # NoJob

(* Skipped while the index queue is busy; done when the counts agree;      *)
(* otherwise the ids of the documents are listed.  These are separate      *)
(* awaits in the code and one step here; what the sweep writes later is    *)
(* old by then in any case.                                                *)
SweepCounts ==
  /\ sweep = NoSweep /\ ~QueueBusy
  /\ Cardinality(Active) # Cardinality(Indexed)
  /\ sweep' = [pc |-> "listed", docs |-> Indexed]
  /\ UNCHANGED <<rows, index, owed, jobs, busy, rebuild, late, writes, faults>>

(* plan_reconcile: orphans first, then missing documents, within the cap. *)
SweepPlan ==
  /\ sweep.pc = "listed"
  /\ LET orphans == sweep.docs \ Active
         missing == Active \ sweep.docs
     IN  \E del \in SUBSET orphans, ups \in SUBSET missing :
           /\ Cardinality(del) + Cardinality(ups) <= MaxFixes
           /\ del # orphans => Cardinality(del) = MaxFixes
           /\ ups # missing => Cardinality(del) + Cardinality(ups) = MaxFixes
           /\ sweep' = [pc |-> "planned", del |-> del, ups |-> ups]
  /\ UNCHANGED <<rows, index, owed, jobs, busy, rebuild, late, writes, faults>>

SweepDelete ==
  /\ sweep.pc = "planned"
  /\ index' = [i \in Item |-> IF i \in sweep.del THEN 0 ELSE index[i]]
  /\ sweep' = [pc |-> "deleted", ups |-> sweep.ups]
  /\ UNCHANGED <<rows, owed, jobs, busy, rebuild, late, writes, faults>>

(* _reindex_missing reads the rows, drops those no longer active, and      *)
(* upserts the rest.                                                       *)
SweepRead ==
  /\ sweep.pc = "deleted"
  /\ sweep' = [pc |-> "read", docs |-> [i \in sweep.ups \cap Active |-> Doc(rows[i])]]
  /\ UNCHANGED <<rows, index, owed, jobs, busy, rebuild, late, writes, faults>>

SweepUpsert ==
  /\ sweep.pc = "read"
  /\ index' = [i \in Item |-> IF i \in DOMAIN sweep.docs THEN sweep.docs[i] ELSE index[i]]
  /\ sweep' = NoSweep
  /\ late' = [late EXCEPT !["sweep"] = {}]
  /\ UNCHANGED <<rows, owed, jobs, busy, rebuild, writes, faults>>

SweepFails ==
  /\ sweep # NoSweep /\ Fault
  /\ sweep' = NoSweep
  /\ late' = [late EXCEPT !["sweep"] = {}]
  /\ UNCHANGED <<rows, index, owed, jobs, busy, rebuild, writes>>

-----------------------------------------------------------------------------
(* rebuild_via_swap: active rows are read page by page into a shadow,      *)
(* which replaces the live index in one step, or is dropped.               *)

RebuildStart ==
  /\ rebuild = NoRebuild
  /\ rebuild' = [pc |-> "read", left |-> Item, shadow |-> [i \in Item |-> 0]]
  /\ UNCHANGED <<rows, index, owed, jobs, busy, sweep, late, writes, faults>>

\* Mutant: the rebuild only adds what the live index lacks.
RebuildPageFills(i) ==
  /\ rebuild.pc = "read" /\ i \in rebuild.left
  /\ rebuild' = [pc |-> "read", left |-> rebuild.left \ {i},
                 shadow |-> [rebuild.shadow EXCEPT
                               ![i] = IF index[i] # 0 THEN index[i] ELSE Doc(rows[i])]]
  /\ UNCHANGED <<rows, index, owed, jobs, busy, sweep, late, writes, faults>>

RebuildPage(i) ==
  /\ rebuild.pc = "read" /\ i \in rebuild.left
  /\ rebuild' = [pc |-> "read", left |-> rebuild.left \ {i},
                 shadow |-> [rebuild.shadow EXCEPT ![i] = Doc(rows[i])]]
  /\ UNCHANGED <<rows, index, owed, jobs, busy, sweep, late, writes, faults>>

Swap ==
  /\ rebuild.pc = "read" /\ rebuild.left = {}
  /\ index' = rebuild.shadow
  /\ rebuild' = NoRebuild
  /\ late' = [late EXCEPT !["rebuild"] = {}]
  /\ UNCHANGED <<rows, owed, jobs, busy, sweep, writes, faults>>

RebuildFails ==
  /\ rebuild # NoRebuild /\ Fault
  /\ rebuild' = NoRebuild
  /\ late' = [late EXCEPT !["rebuild"] = {}]
  /\ UNCHANGED <<rows, index, owed, jobs, busy, sweep, writes>>

-----------------------------------------------------------------------------
Write ==
  \/ \E i \in Item : Insert(i)
  \/ \E i \in Item : Flip(i)
  \/ \E i \in Item, s \in {"active", "missing"} : Change(i, s)
  \/ \E i \in Item : Remove(i)

Sweep == SweepCounts \/ SweepPlan \/ SweepDelete \/ SweepRead \/ SweepUpsert

Rebuild == RebuildStart \/ (\E i \in Item : RebuildPage(i)) \/ Swap

Next ==
  \/ Write
  \/ \E j \in owed : Defer(j) \/ DeferLost(j)
  \/ \E w \in Worker, j \in jobs : Take(w, j)
  \/ \E w \in Worker : Put(w) \/ PutFails(w)
  \/ Sweep \/ SweepFails
  \/ Rebuild \/ RebuildFails

Spec == Init /\ [][Next]_vars

(* Writers, workers, the hourly sweep and the nightly rebuild keep going. *)
FairSpec ==
  /\ Spec
  /\ WF_vars(\E j \in owed : Defer(j))
  /\ WF_vars(\E w \in Worker, j \in jobs : Take(w, j))
  /\ WF_vars(\E w \in Worker : Put(w))
  /\ WF_vars(Sweep)
  /\ WF_vars(Rebuild)

-----------------------------------------------------------------------------
(* Properties. *)

(* The reader that takes the step. *)
Acts(r) ==
  CASE r = "sweep" -> sweep' # sweep
    [] r = "rebuild" -> rebuild' # rebuild
    [] OTHER -> busy'[r] # busy[r]

(* A write of the index leaves the document as the table has it, unless    *)
(* the row was committed again after the writing job, sweep or rebuild had *)
(* started: nothing but an overtaken read of its own spoils the index.     *)
OnlyLateReadsSpoil ==
  [][\A i \in Item :
       index'[i] # index[i] =>
         index'[i] = Projection[i] \/ \E r \in Reader : Acts(r) /\ i \in late[r]]_vars

(* Whatever is lost or overtaken on the way, the index ends up as the      *)
(* projection of the table once the writers rest.                          *)
EventuallyIndexed == <>[](index = Projection)
=============================================================================
