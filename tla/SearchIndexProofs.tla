------------------------- MODULE SearchIndexProofs -------------------------
(***************************************************************************)
(* The index never shows a version the table did not have, and only a read *)
(* that was overtaken by a commit can spoil it, for any number of items,   *)
(* workers, writes and faults.                                             *)
(***************************************************************************)
EXTENDS SearchIndex, TLAPS

Status == {"absent", "active", "missing"}
Row == [ver : Nat, status : Status]

\* A purged row: its id never comes back.
Gone(row) == row.status = "absent" /\ row.ver > 0

\* The invariant, split into what it says of the table, the queues, a worker,
\* the sweep and the rebuild (R being the table and L the late rows of the reader).
RowsOK ==
  /\ rows \in [Item -> Row]
  /\ writes \in 0..MaxWrites /\ faults \in 0..MaxFaults
  /\ late \in [Reader -> SUBSET Item]
  /\ \A i \in Item : /\ rows[i].ver <= writes
                     /\ rows[i].status # "absent" => rows[i].ver > 0

JobOK(j, R) == j \in Job /\ (j.op = "delete" => Gone(R[j.id]))

JobsOK == \A j \in owed \cup jobs : JobOK(j, rows)

DocsOK == index \in [Item -> Nat] /\ \A i \in Item : index[i] <= rows[i].ver

WorkerOK(b, R, L) ==
  \/ b = NoJob
  \/ /\ b.op \in {"sync", "delete"} /\ b.id \in Item
     /\ b.op = "delete" => Gone(R[b.id])
     /\ \A d \in b.doc : d \in Nat /\ d <= R[b.id].ver
     /\ b.id \notin L => \A d \in b.doc : d = Doc(R[b.id])

BusyOK == busy = [w \in Worker |-> busy[w]] /\ \A w \in Worker : WorkerOK(busy[w], rows, late[w])

SweepOK(s, R, L) ==
  \/ s = NoSweep
  \/ s.pc = "listed" /\ s.docs \subseteq Item
  \/ /\ s.pc = "planned" /\ s.del \subseteq Item /\ s.ups \subseteq Item
     /\ \A i \in s.del : i \notin L => R[i].status # "active"
  \/ s.pc = "deleted" /\ s.ups \subseteq Item
  \/ /\ s.pc = "read" /\ DOMAIN s.docs \subseteq Item
     /\ \A i \in DOMAIN s.docs : /\ s.docs[i] \in Nat /\ s.docs[i] <= R[i].ver
                                 /\ i \notin L => s.docs[i] = Doc(R[i])

RebuildOK(b, R, L) ==
  \/ b = NoRebuild
  \/ /\ b.pc = "read" /\ b.left \subseteq Item /\ b.shadow \in [Item -> Nat]
     /\ \A i \in Item : /\ b.shadow[i] <= R[i].ver
                        /\ i \notin b.left /\ i \notin L => b.shadow[i] = Doc(R[i])

IndexInv ==
  /\ RowsOK /\ JobsOK /\ DocsOK /\ BusyOK
  /\ SweepOK(sweep, rows, late["sweep"])
  /\ RebuildOK(rebuild, rows, late["rebuild"])

-----------------------------------------------------------------------------
\* What every writer's commit of item i leaves behind: the row's version never
\* falls, purged rows stay, and only a purge queues a deletion.
Committed(i, row) ==
  /\ Commit(i, row) /\ ~Gone(rows[i])
  /\ row \in Row /\ rows[i].ver <= row.ver /\ row.ver <= writes + 1
  /\ row.status # "absent" => row.ver > 0
  /\ \A j \in owed' \ owed : JobOK(j, rows')

LEMMA ReaderFacts ==
  /\ "sweep" \in Reader /\ "rebuild" \in Reader
  /\ \A w \in Worker : w \in Reader /\ w # "sweep" /\ w # "rebuild"
BY IndexAssumption DEF Reader

LEMMA DocFacts ==
  ASSUME NEW row \in Row
  PROVE  Doc(row) \in Nat /\ Doc(row) <= row.ver
BY DEF Doc, Row

\* Every writer commits in that way.
LEMMA WritersCommit ==
  ASSUME IndexInv, Write
  PROVE  \E i \in Item, row \in Row : Committed(i, row)
<1> USE DEF IndexInv, RowsOK
<1>1. CASE \E i \in Item : Insert(i)
  <2> PICK i \in Item : Insert(i) BY <1>1
  <2> DEFINE row == [ver |-> 1, status |-> "active"]
  <2>1. row \in Row /\ Commit(i, row) /\ owed' = owed /\ rows[i].ver = 0
    BY DEF Insert, Row, Status
  <2>2. rows[i].ver <= row.ver /\ row.ver <= writes + 1 /\ ~Gone(rows[i]) /\ row.ver > 0
    BY <2>1 DEF Gone
  <2> HIDE DEF row
  <2> QED BY <2>1, <2>2 DEF Committed
<1>2. CASE \E i \in Item : Flip(i)
  <2> PICK i \in Item : Flip(i) BY <1>2
  <2> DEFINE row == [rows[i] EXCEPT !.status = IF rows[i].status = "active"
                                               THEN "missing" ELSE "active"]
  <2>1. rows[i] \in Row OBVIOUS
  <2>2. row \in Row /\ row.ver = rows[i].ver BY <2>1 DEF Row, Status
  <2>3. Commit(i, row) /\ owed' = owed /\ rows[i].status # "absent" BY DEF Flip
  <2>4. rows[i].ver <= row.ver /\ row.ver <= writes + 1 /\ ~Gone(rows[i]) /\ row.ver > 0
    BY <2>1, <2>2, <2>3 DEF Gone, Row
  <2> HIDE DEF row
  <2> QED BY <2>2, <2>3, <2>4 DEF Committed
<1>3. CASE \E i \in Item, s \in {"active", "missing"} : Change(i, s)
  <2> PICK i \in Item, s \in {"active", "missing"} : Change(i, s) BY <1>3
  <2> DEFINE row == [ver |-> rows[i].ver + 1, status |-> s]
  <2>1. rows[i] \in Row OBVIOUS
  <2>2. row \in Row /\ row.ver = rows[i].ver + 1 BY <2>1 DEF Row, Status
  <2>3. Commit(i, row) /\ rows[i].status # "absent" BY DEF Change
  <2>4. rows[i].ver <= row.ver /\ row.ver <= writes + 1 /\ ~Gone(rows[i]) /\ row.ver > 0
    BY <2>1, <2>2, <2>3 DEF Gone, Row
  <2>5. \A j \in owed' \ owed : JobOK(j, rows')
    BY DEF Change, JobOK, Job
  <2> HIDE DEF row
  <2> QED BY <2>2, <2>3, <2>4, <2>5 DEF Committed
<1>4. CASE \E i \in Item : Remove(i)
  <2> PICK i \in Item : Remove(i) BY <1>4
  <2> DEFINE row == [rows[i] EXCEPT !.status = "absent"]
  <2>1. rows[i] \in Row OBVIOUS
  <2>2. row \in Row /\ row.ver = rows[i].ver /\ row.status = "absent" BY <2>1 DEF Row, Status
  <2>3. Commit(i, row) /\ rows[i].status # "absent" BY DEF Remove
  <2>4. rows[i].ver <= row.ver /\ row.ver <= writes + 1 /\ ~Gone(rows[i]) /\ row.ver > 0
    BY <2>1, <2>2, <2>3 DEF Gone, Row
  <2>5. rows'[i] = row BY <2>3 DEF Commit
  <2>6. owed' = owed \cup {[op |-> "delete", id |-> i]} BY DEF Remove
  <2> HIDE DEF row
  <2>7. JobOK([op |-> "delete", id |-> i], rows')
    BY <2>2, <2>4, <2>5 DEF JobOK, Job, Gone
  <2>8. \A j \in owed' \ owed : JobOK(j, rows')
    BY <2>6, <2>7
  <2> QED BY <2>2, <2>3, <2>4, <2>8 DEF Committed
<1> QED BY <1>1, <1>2, <1>3, <1>4 DEF Write

\* A commit makes the row late for every reader at work, so nobody's claim on
\* what it has read is lost.
LEMMA CommitKeeps ==
  ASSUME IndexInv, NEW i \in Item, NEW row \in Row, Committed(i, row)
  PROVE  IndexInv'
<1> USE DEF IndexInv
<1>1. /\ rows' = [rows EXCEPT ![i] = row] /\ writes' = writes + 1 /\ writes < MaxWrites
      /\ late' = [r \in Reader |-> IF r \in Reading THEN late[r] \cup {i} ELSE late[r]]
      /\ UNCHANGED <<index, jobs, busy, sweep, rebuild, faults>>
  BY DEF Committed, Commit
<1>2. /\ ~Gone(rows[i]) /\ rows[i].ver <= row.ver /\ row.ver <= writes + 1
      /\ row.status # "absent" => row.ver > 0
      /\ \A j \in owed' \ owed : JobOK(j, rows')
  BY DEF Committed
<1>3. \A k \in Item : /\ rows[k] \in Row /\ rows'[k] \in Row
                      /\ rows[k].ver <= rows'[k].ver /\ (k # i => rows'[k] = rows[k])
                      /\ Gone(rows[k]) => rows'[k] = rows[k]
  BY <1>1, <1>2 DEF RowsOK, Row
<1>4. RowsOK'
  <2>1. rows' \in [Item -> Row] BY <1>1 DEF RowsOK
  <2>2. writes' \in 0..MaxWrites /\ faults' \in 0..MaxFaults
    BY <1>1, IndexAssumption DEF RowsOK
  <2>3. late' \in [Reader -> SUBSET Item] BY <1>1 DEF RowsOK
  <2>4. \A k \in Item : rows'[k].ver <= writes' /\ (rows'[k].status # "absent" => rows'[k].ver > 0)
    BY <1>1, <1>2 DEF RowsOK, Row
  <2> QED BY <2>1, <2>2, <2>3, <2>4 DEF RowsOK
<1>5. JobsOK'
  BY <1>1, <1>2, <1>3 DEF JobsOK, JobOK, Job
<1>6. DocsOK'
  <2>1. \A k \in Item : index[k] \in Nat /\ index[k] <= rows[k].ver BY DEF DocsOK
  <2>2. \A k \in Item : index[k] <= rows'[k].ver BY <1>3, <2>1 DEF Row
  <2> QED BY <1>1, <2>2 DEF DocsOK
<1>7. BusyOK'
  <2>1. SUFFICES ASSUME NEW w \in Worker PROVE WorkerOK(busy[w], rows', late'[w])
    BY <1>1 DEF BusyOK
  <2>2. CASE busy[w] = NoJob BY <2>2 DEF WorkerOK
  <2>3. CASE busy[w] # NoJob
    <3>1. w \in Reading /\ late'[w] = late[w] \cup {i}
      BY <1>1, <2>3, ReaderFacts DEF Reading
    <3>2. WorkerOK(busy[w], rows, late[w]) /\ busy[w].id \in Item BY <2>3 DEF BusyOK, WorkerOK
    <3>3. \A d \in busy[w].doc : d \in Nat /\ d <= rows'[busy[w].id].ver
      BY <1>3, <2>3, <3>2 DEF WorkerOK, Row
    <3> QED BY <1>3, <2>3, <3>1, <3>2, <3>3 DEF WorkerOK
  <2> QED BY <2>2, <2>3
<1>8. SweepOK(sweep, rows', late'["sweep"])
  <2>1. CASE sweep = NoSweep BY <2>1 DEF SweepOK
  <2>2. CASE sweep # NoSweep
    <3>1. late'["sweep"] = late["sweep"] \cup {i}
      BY <1>1, <2>2, ReaderFacts DEF Reading
    <3>2. CASE sweep.pc = "planned" /\ sweep.del \subseteq Item
      BY <1>3, <2>2, <3>1, <3>2 DEF SweepOK
    <3>3. CASE sweep.pc = "read"
      <4>1. \A k \in DOMAIN sweep.docs : sweep.docs[k] <= rows'[k].ver
        BY <1>3, <2>2, <3>3 DEF SweepOK, Row
      <4> QED BY <1>3, <2>2, <3>1, <3>3, <4>1 DEF SweepOK
    <3> QED BY <2>2, <3>2, <3>3 DEF SweepOK
  <2> QED BY <2>1, <2>2
<1>9. RebuildOK(rebuild, rows', late'["rebuild"])
  <2>1. CASE rebuild = NoRebuild BY <2>1 DEF RebuildOK
  <2>2. CASE rebuild # NoRebuild
    <3>1. late'["rebuild"] = late["rebuild"] \cup {i}
      BY <1>1, <2>2, ReaderFacts DEF Reading
    <3>2. \A k \in Item : rebuild.shadow[k] <= rows'[k].ver
      BY <1>3, <2>2 DEF RebuildOK, Row
    <3> QED BY <1>3, <2>2, <3>1, <3>2 DEF RebuildOK
  <2> QED BY <2>1, <2>2
<1> QED BY <1>1, <1>4, <1>5, <1>6, <1>7, <1>8, <1>9

-----------------------------------------------------------------------------
LEMMA IndexInit == Init => IndexInv
<1> SUFFICES ASSUME Init PROVE IndexInv OBVIOUS
<1>1. RowsOK BY IndexAssumption, ReaderFacts DEF Init, RowsOK, Row, Status
<1>2. JobsOK BY DEF Init, JobsOK
<1>3. DocsOK BY DEF Init, DocsOK
<1>4. BusyOK BY DEF Init, BusyOK, WorkerOK
<1> QED BY <1>1, <1>2, <1>3, <1>4 DEF Init, IndexInv, SweepOK, RebuildOK

\* A reader that ends forgets what overtook it; the table is as it was.
LEMMA LateResets ==
  ASSUME RowsOK, NEW r \in Reader, late' = [late EXCEPT ![r] = {}],
         rows' = rows, writes' = writes, faults' \in 0..MaxFaults
  PROVE  RowsOK' /\ \A q \in Reader : q # r => late'[q] = late[q]
BY DEF RowsOK

LEMMA FaultBound ==
  ASSUME RowsOK, Fault
  PROVE  faults' \in 0..MaxFaults
BY IndexAssumption DEF RowsOK, Fault

LEMMA DeferKeeps ==
  ASSUME IndexInv, NEW j \in owed, Defer(j) \/ DeferLost(j)
  PROVE  IndexInv'
<1>1. /\ owed' = owed \ {j} /\ jobs' \subseteq jobs \cup {j}
      /\ UNCHANGED <<rows, index, busy, sweep, rebuild, late, writes>>
  BY DEF Defer, DeferLost
<1>2. faults' \in 0..MaxFaults
  BY FaultBound DEF Defer, DeferLost, IndexInv, RowsOK
<1>3. RowsOK' BY <1>1, <1>2 DEF IndexInv, RowsOK
<1>4. JobsOK' BY <1>1 DEF IndexInv, JobsOK
<1>5. DocsOK' /\ BusyOK' BY <1>1 DEF IndexInv, DocsOK, BusyOK
<1> QED BY <1>1, <1>3, <1>4, <1>5 DEF IndexInv

LEMMA TakeKeeps ==
  ASSUME IndexInv, NEW w \in Worker, NEW j \in jobs, Take(w, j)
  PROVE  IndexInv'
<1> DEFINE b == [op |-> j.op, id |-> j.id,
                 doc |-> CASE j.op = "delete" -> {0}
                           [] j.op = "sync" /\ rows[j.id].status = "absent" -> {}
                           [] OTHER -> {Doc(rows[j.id])}]
<1>1. /\ busy' = [busy EXCEPT ![w] = b] /\ jobs' = jobs \ {j}
      /\ UNCHANGED <<rows, index, owed, sweep, rebuild, late, writes, faults>>
  BY DEF Take
<1>2. j \in Job /\ (j.op = "delete" => Gone(rows[j.id]))
  BY DEF IndexInv, JobsOK, JobOK
<1>3. j.op \in {"sync", "delete"} /\ j.id \in Item
  BY <1>2 DEF Job
<1>4. rows[j.id] \in Row
  BY <1>3 DEF IndexInv, RowsOK
<1>5. Doc(rows[j.id]) \in Nat /\ Doc(rows[j.id]) <= rows[j.id].ver /\ rows[j.id].ver \in Nat
  BY <1>4, DocFacts DEF Row
<1>6. \A d \in b.doc : d = Doc(rows[j.id])
  BY <1>2, <1>3 DEF Gone, Doc
<1>7. WorkerOK(b, rows, late[w])
  BY <1>2, <1>3, <1>5, <1>6 DEF WorkerOK
<1> HIDE DEF b
<1>8. BusyOK'
  BY <1>1, <1>7 DEF IndexInv, BusyOK
<1>9. JobsOK' /\ RowsOK' /\ DocsOK'
  BY <1>1 DEF IndexInv, JobsOK, RowsOK, DocsOK
<1> QED BY <1>1, <1>8, <1>9 DEF IndexInv

LEMMA PutKeeps ==
  ASSUME IndexInv, NEW w \in Worker, Put(w) \/ PutFails(w)
  PROVE  IndexInv'
<1>1. /\ busy[w] # NoJob /\ busy' = [busy EXCEPT ![w] = NoJob]
      /\ late' = [late EXCEPT ![w] = {}]
      /\ UNCHANGED <<rows, owed, sweep, rebuild, writes>>
      /\ \/ index' = index
         \/ \E d \in busy[w].doc : index' = [index EXCEPT ![busy[w].id] = d]
      /\ \/ jobs' = jobs
         \/ jobs' = jobs \cup {[op |-> busy[w].op, id |-> busy[w].id]}
  BY DEF Put, PutFails
<1>2. faults' \in 0..MaxFaults
  BY FaultBound DEF Put, PutFails, IndexInv, RowsOK
<1>3. WorkerOK(busy[w], rows, late[w]) BY DEF IndexInv, BusyOK
<1>4. /\ w \in Reader /\ "sweep" \in Reader /\ "rebuild" \in Reader
      /\ w # "sweep" /\ w # "rebuild" /\ \A v \in Worker : v \in Reader
  BY ReaderFacts
<1>5. RowsOK' /\ \A q \in Reader : q # w => late'[q] = late[q]
  BY <1>1, <1>2, <1>4, LateResets DEF IndexInv
<1>6. JobsOK'
  <2>1. JobOK([op |-> busy[w].op, id |-> busy[w].id], rows)
    BY <1>1, <1>3 DEF WorkerOK, JobOK, Job
  <2> QED BY <1>1, <2>1 DEF IndexInv, JobsOK
<1>7. DocsOK'
  <2>1. busy[w].id \in Item /\ \A d \in busy[w].doc : d \in Nat /\ d <= rows[busy[w].id].ver
    BY <1>1, <1>3 DEF WorkerOK
  <2> QED BY <1>1, <2>1 DEF IndexInv, DocsOK
<1>8. BusyOK'
  <2>1. busy' = [v \in Worker |-> busy'[v]] BY <1>1 DEF IndexInv, BusyOK
  <2>2. ASSUME NEW v \in Worker PROVE WorkerOK(busy'[v], rows', late'[v])
    <3>1. CASE v = w BY <1>1, <3>1 DEF WorkerOK, IndexInv, BusyOK
    <3>2. CASE v # w BY <1>1, <1>4, <1>5, <3>2 DEF IndexInv, BusyOK
    <3> QED BY <3>1, <3>2
  <2> QED BY <2>1, <2>2 DEF BusyOK
<1>9. late'["sweep"] = late["sweep"] /\ late'["rebuild"] = late["rebuild"]
  BY <1>4, <1>5
<1> QED BY <1>1, <1>5, <1>6, <1>7, <1>8, <1>9 DEF IndexInv

\* The steps of a sweep that is going on: the table and the other readers are
\* left alone.
LEMMA SweepKeeps ==
  ASSUME IndexInv, Sweep
  PROVE  IndexInv'
<1> USE DEF IndexInv
<1>1. CASE SweepCounts
  <2>1. /\ sweep' = [pc |-> "listed", docs |-> Indexed]
        /\ UNCHANGED <<rows, index, owed, jobs, busy, rebuild, late, writes, faults>>
    BY <1>1 DEF SweepCounts
  <2>2. SweepOK(sweep', rows', late'["sweep"]) BY <2>1 DEF SweepOK, Indexed
  <2> QED BY <2>1, <2>2 DEF RowsOK, JobsOK, DocsOK, BusyOK
<1>2. CASE SweepPlan
  <2>1. PICK del \in SUBSET (sweep.docs \ Active), ups \in SUBSET (Active \ sweep.docs) :
          sweep' = [pc |-> "planned", del |-> del, ups |-> ups]
    BY <1>2 DEF SweepPlan
  <2>2. /\ sweep.pc = "listed"
        /\ UNCHANGED <<rows, index, owed, jobs, busy, rebuild, late, writes, faults>>
    BY <1>2 DEF SweepPlan
  <2>3. sweep.docs \subseteq Item BY <2>2 DEF SweepOK, NoSweep
  <2>4. SweepOK(sweep', rows', late'["sweep"]) BY <2>1, <2>2, <2>3 DEF SweepOK, Active
  <2> QED BY <2>2, <2>4 DEF RowsOK, JobsOK, DocsOK, BusyOK
<1>3. CASE SweepDelete
  <2>1. /\ sweep.pc = "planned" /\ sweep' = [pc |-> "deleted", ups |-> sweep.ups]
        /\ index' = [i \in Item |-> IF i \in sweep.del THEN 0 ELSE index[i]]
        /\ UNCHANGED <<rows, owed, jobs, busy, rebuild, late, writes, faults>>
    BY <1>3 DEF SweepDelete
  <2>2. sweep.ups \subseteq Item BY <2>1 DEF SweepOK, NoSweep
  <2>3. SweepOK(sweep', rows', late'["sweep"]) BY <2>1, <2>2 DEF SweepOK
  <2>4. \A i \in Item : rows[i] \in Row BY DEF RowsOK
  <2>5. DocsOK' BY <2>1, <2>4 DEF DocsOK, Row
  <2> QED BY <2>1, <2>3, <2>5 DEF RowsOK, JobsOK, BusyOK
<1>4. CASE SweepRead
  <2>1. /\ sweep.pc = "deleted"
        /\ sweep' = [pc |-> "read", docs |-> [i \in sweep.ups \cap Active |-> Doc(rows[i])]]
        /\ UNCHANGED <<rows, index, owed, jobs, busy, rebuild, late, writes, faults>>
    BY <1>4 DEF SweepRead
  <2>2. sweep.ups \cap Active \subseteq Item BY DEF Active
  <2>3. \A i \in Item : Doc(rows[i]) \in Nat /\ Doc(rows[i]) <= rows[i].ver
    BY DocFacts DEF RowsOK
  <2>4. SweepOK(sweep', rows', late'["sweep"])
    BY <2>1, <2>2, <2>3 DEF SweepOK
  <2> QED BY <2>1, <2>4 DEF RowsOK, JobsOK, DocsOK, BusyOK
<1>5. CASE SweepUpsert
  <2>1. /\ sweep.pc = "read" /\ sweep' = NoSweep
        /\ index' = [i \in Item |-> IF i \in DOMAIN sweep.docs THEN sweep.docs[i] ELSE index[i]]
        /\ late' = [late EXCEPT !["sweep"] = {}]
        /\ UNCHANGED <<rows, owed, jobs, busy, rebuild, writes, faults>>
    BY <1>5 DEF SweepUpsert
  <2>2. RowsOK' /\ \A q \in Reader : q # "sweep" => late'[q] = late[q]
    BY <2>1, ReaderFacts, LateResets DEF RowsOK
  <2>3. \A w \in Worker : late'[w] = late[w] BY <2>2, ReaderFacts
  <2>4. late'["rebuild"] = late["rebuild"] BY <2>2, ReaderFacts
  <2>5. DocsOK' BY <2>1 DEF DocsOK, SweepOK, NoSweep
  <2>6. BusyOK' BY <2>1, <2>3 DEF BusyOK
  <2> QED BY <2>1, <2>2, <2>4, <2>5, <2>6 DEF JobsOK, SweepOK
<1> QED BY <1>1, <1>2, <1>3, <1>4, <1>5 DEF Sweep

LEMMA SweepFailKeeps ==
  ASSUME IndexInv, SweepFails
  PROVE  IndexInv'
<1> USE DEF IndexInv
<1>1. /\ sweep' = NoSweep /\ late' = [late EXCEPT !["sweep"] = {}]
      /\ UNCHANGED <<rows, index, owed, jobs, busy, rebuild, writes>>
      /\ faults' \in 0..MaxFaults
  BY FaultBound DEF SweepFails
<1>2. RowsOK' /\ \A q \in Reader : q # "sweep" => late'[q] = late[q]
  BY <1>1, ReaderFacts, LateResets
<1>3. \A w \in Worker : late'[w] = late[w] BY <1>2, ReaderFacts
<1>4. late'["rebuild"] = late["rebuild"] BY <1>2, ReaderFacts
<1> QED BY <1>1, <1>2, <1>3, <1>4 DEF JobsOK, DocsOK, BusyOK, SweepOK

LEMMA RebuildKeeps ==
  ASSUME IndexInv, Rebuild \/ RebuildFails
  PROVE  IndexInv'
<1> USE DEF IndexInv
<1>1. CASE RebuildStart
  <2>1. /\ rebuild' = [pc |-> "read", left |-> Item, shadow |-> [i \in Item |-> 0]]
        /\ UNCHANGED <<rows, index, owed, jobs, busy, sweep, late, writes, faults>>
    BY <1>1 DEF RebuildStart
  <2>2. \A i \in Item : rows[i] \in Row BY DEF RowsOK
  <2>3. RebuildOK(rebuild', rows', late'["rebuild"]) BY <2>1, <2>2 DEF RebuildOK, Row
  <2> QED BY <2>1, <2>3 DEF RowsOK, JobsOK, DocsOK, BusyOK
<1>2. CASE \E i \in Item : RebuildPage(i)
  <2>1. PICK i \in Item : RebuildPage(i) BY <1>2
  <2>2. /\ rebuild.pc = "read"
        /\ rebuild' = [pc |-> "read", left |-> rebuild.left \ {i},
                       shadow |-> [rebuild.shadow EXCEPT ![i] = Doc(rows[i])]]
        /\ UNCHANGED <<rows, index, owed, jobs, busy, sweep, late, writes, faults>>
    BY <2>1 DEF RebuildPage
  <2>3. Doc(rows[i]) \in Nat /\ Doc(rows[i]) <= rows[i].ver BY DocFacts DEF RowsOK
  <2>4. rebuild # NoRebuild BY <2>2 DEF NoRebuild
  <2>5. RebuildOK(rebuild', rows', late'["rebuild"])
    BY <2>2, <2>3, <2>4 DEF RebuildOK
  <2> QED BY <2>2, <2>5 DEF RowsOK, JobsOK, DocsOK, BusyOK
<1>3. CASE Swap
  <2>1. /\ rebuild.pc = "read" /\ index' = rebuild.shadow /\ rebuild' = NoRebuild
        /\ late' = [late EXCEPT !["rebuild"] = {}]
        /\ UNCHANGED <<rows, owed, jobs, busy, sweep, writes, faults>>
    BY <1>3 DEF Swap
  <2>2. RowsOK' /\ \A q \in Reader : q # "rebuild" => late'[q] = late[q]
    BY <2>1, ReaderFacts, LateResets DEF RowsOK
  <2>3. \A w \in Worker : late'[w] = late[w] BY <2>2, ReaderFacts
  <2>4. late'["sweep"] = late["sweep"] BY <2>2, ReaderFacts
  <2>5. DocsOK' BY <2>1 DEF DocsOK, RebuildOK, NoRebuild
  <2> QED BY <2>1, <2>2, <2>3, <2>4, <2>5 DEF JobsOK, BusyOK, RebuildOK
<1>4. CASE RebuildFails
  <2>1. /\ rebuild' = NoRebuild /\ late' = [late EXCEPT !["rebuild"] = {}]
        /\ UNCHANGED <<rows, index, owed, jobs, busy, sweep, writes>>
        /\ faults' \in 0..MaxFaults
    BY <1>4, FaultBound DEF RebuildFails
  <2>2. RowsOK' /\ \A q \in Reader : q # "rebuild" => late'[q] = late[q]
    BY <2>1, ReaderFacts, LateResets
  <2>3. \A w \in Worker : late'[w] = late[w] BY <2>2, ReaderFacts
  <2>4. late'["sweep"] = late["sweep"] BY <2>2, ReaderFacts
  <2> QED BY <2>1, <2>2, <2>3, <2>4 DEF JobsOK, DocsOK, BusyOK, RebuildOK
<1> QED BY <1>1, <1>2, <1>3, <1>4 DEF Rebuild

LEMMA IndexStep == IndexInv /\ [Next]_vars => IndexInv'
<1> SUFFICES ASSUME IndexInv, [Next]_vars PROVE IndexInv' OBVIOUS
<1>1. CASE Write BY <1>1, WritersCommit, CommitKeeps
<1>2. CASE \E j \in owed : Defer(j) \/ DeferLost(j) BY <1>2, DeferKeeps
<1>3. CASE \E w \in Worker, j \in jobs : Take(w, j) BY <1>3, TakeKeeps
<1>4. CASE \E w \in Worker : Put(w) \/ PutFails(w) BY <1>4, PutKeeps
<1>5. CASE Sweep \/ SweepFails BY <1>5, SweepKeeps, SweepFailKeeps
<1>6. CASE Rebuild \/ RebuildFails BY <1>6, RebuildKeeps
<1>7. CASE UNCHANGED vars
  BY <1>7 DEF vars, IndexInv, RowsOK, JobsOK, DocsOK, BusyOK
<1> QED BY <1>1, <1>2, <1>3, <1>4, <1>5, <1>6, <1>7 DEF Next

\* What every worker, the sweep and the rebuild hold was true of the table when
\* they read it, and still is unless a commit has overtaken them.
THEOREM IndexInvariance == Spec => []IndexInv
BY IndexInit, IndexStep, PTL DEF Spec

-----------------------------------------------------------------------------
\* The module's type invariant, with the bound that no document is newer than
\* its row.
THEOREM IndexTypes == Spec => []TypeOK
<1>1. IndexInv => TypeOK
  <2> SUFFICES ASSUME IndexInv PROVE TypeOK OBVIOUS
  <2> USE DEF IndexInv
  <2>1. \A i \in Item : /\ rows[i] \in Row /\ rows[i].ver \in Nat /\ rows[i].ver <= MaxWrites
                        /\ rows[i].ver \in 0..MaxWrites
    BY IndexAssumption DEF RowsOK, Row
  <2>2. rows \in [Item -> [ver : 0..MaxWrites, status : {"absent", "active", "missing"}]]
    BY <2>1 DEF RowsOK, Row, Status
  <2>3. index \in [Item -> 0..MaxWrites] /\ \A i \in Item : index[i] <= rows[i].ver
    BY <2>1, IndexAssumption DEF DocsOK
  <2>4. owed \subseteq Job /\ jobs \subseteq Job BY DEF JobsOK, JobOK
  <2>5. \A w \in Worker : busy[w] = NoJob \/ (busy[w].op \in {"sync", "delete"} /\ busy[w].id \in Item)
    BY DEF BusyOK, WorkerOK
  <2>6. sweep.pc \in {"idle", "listed", "planned", "deleted", "read"} BY DEF SweepOK, NoSweep
  <2>7. rebuild.pc \in {"idle", "read"} BY DEF RebuildOK, NoRebuild
  <2> QED BY <2>2, <2>3, <2>4, <2>5, <2>6, <2>7 DEF RowsOK, TypeOK
<1> QED BY <1>1, IndexInvariance, PTL

\* A document is written wrong only by the reader that a commit has overtaken.
LEMMA SpoiledByLate ==
  ASSUME IndexInv, Next, NEW i \in Item, index'[i] # index[i],
         index'[i] # Doc(rows[i])
  PROVE  \E r \in Reader : Acts(r) /\ i \in late[r]
<1> USE DEF IndexInv
<1>1. CASE Write BY <1>1 DEF Write, Insert, Flip, Change, Remove, Commit
<1>2. CASE \E j \in owed : Defer(j) \/ DeferLost(j) BY <1>2 DEF Defer, DeferLost
<1>3. CASE \E w \in Worker, j \in jobs : Take(w, j) BY <1>3 DEF Take
<1>4. CASE \E w \in Worker : Put(w) \/ PutFails(w)
  <2> PICK w \in Worker : Put(w) \/ PutFails(w) BY <1>4
  <2>1. busy[w] # NoJob /\ WorkerOK(busy[w], rows, late[w]) BY DEF Put, PutFails, BusyOK
  <2>2. \E d \in busy[w].doc : index' = [index EXCEPT ![busy[w].id] = d]
    BY DEF Put, PutFails
  <2>3. busy[w].id = i /\ index'[i] \in busy[w].doc BY <2>1, <2>2 DEF DocsOK, WorkerOK
  <2>4. i \in late[w] BY <2>1, <2>3 DEF WorkerOK
  <2>5. busy'[w] # busy[w] BY <2>1 DEF Put, PutFails, BusyOK
  <2> QED BY <2>4, <2>5, ReaderFacts DEF Acts
<1>5. CASE Sweep \/ SweepFails
  <2>1. CASE SweepDelete
    <3>1. sweep' # sweep BY <2>1 DEF SweepDelete
    <3>2. i \in sweep.del /\ index'[i] = 0 BY <2>1 DEF SweepDelete
    <3>3. i \in late["sweep"] BY <2>1, <3>2 DEF SweepDelete, SweepOK, NoSweep, Doc
    <3> QED BY <3>1, <3>3, ReaderFacts DEF Acts
  <2>2. CASE SweepUpsert
    <3>1. sweep' # sweep BY <2>2 DEF SweepUpsert, NoSweep
    <3>2. i \in DOMAIN sweep.docs /\ index'[i] = sweep.docs[i] BY <2>2 DEF SweepUpsert
    <3>3. i \in late["sweep"] BY <2>2, <3>2 DEF SweepUpsert, SweepOK, NoSweep
    <3> QED BY <3>1, <3>3, ReaderFacts DEF Acts
  <2> QED BY <1>5, <2>1, <2>2 DEF Sweep, SweepCounts, SweepPlan, SweepRead, SweepFails
<1>6. CASE Rebuild \/ RebuildFails
  <2>1. CASE Swap
    <3>1. rebuild' # rebuild BY <2>1 DEF Swap, NoRebuild
    <3>2. i \in late["rebuild"] BY <2>1 DEF Swap, RebuildOK, NoRebuild
    <3> QED BY <3>1, <3>2, ReaderFacts DEF Acts
  <2> QED BY <1>6, <2>1 DEF Rebuild, RebuildStart, RebuildPage, RebuildFails
<1> QED BY <1>1, <1>2, <1>3, <1>4, <1>5, <1>6 DEF Next

\* Sync jobs, sweep and rebuild may interleave with the writers in any way:
\* an index write is right unless the very reader that makes it was overtaken.
THEOREM OnlyLateReads == Spec => OnlyLateReadsSpoil
<1>1. IndexInv /\ [Next]_vars =>
        [\A i \in Item :
           index'[i] # index[i] =>
             index'[i] = Projection[i] \/ \E r \in Reader : Acts(r) /\ i \in late[r]]_vars
  <2>1. \A i \in Item : Projection[i] = Doc(rows[i]) BY DEF Projection
  <2> QED BY <2>1, SpoiledByLate
<1> QED BY <1>1, IndexInvariance, PTL DEF Spec, OnlyLateReadsSpoil
=============================================================================
