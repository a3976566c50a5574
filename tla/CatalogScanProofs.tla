------------------------- MODULE CatalogScanProofs -------------------------
(***************************************************************************)
(* Proofs about CatalogScan, for any finite set of paths, any versions and *)
(* hashes, and any number of rows, edits and faults.                       *)
(*                                                                         *)
(* A scan decides on a copy of the rows it loaded at its start (base) and  *)
(* on what its walk has seen.  The argument is that nobody moves a row     *)
(* under a walk, so that the copy and the table agree on paths (WalkOK),   *)
(* and that a path is passed over only when its file was away or could not *)
(* be read (the coverage clause).                                          *)
(***************************************************************************)
EXTENDS CatalogScan, FiniteSetTheorems, TLAPS

Scopes == [kind : {"full", "file", "dir"}, set : SUBSET Path]
Scans ==
  [pc : {"idle", "walk", "defer"}, scope : Scopes, force : BOOLEAN, dark : BOOLEAN,
   base : [Id -> Row \cup {None}], busy : SUBSET Id, todo : SUBSET Path,
   denied : SUBSET Path, solid : SUBSET Path, found : [Path -> File], fresh : SUBSET Path, stop : BOOLEAN,
   pending : SUBSET Id, new : SUBSET Id]

WorldInv ==
  /\ disk \in [Path -> File]
  /\ mount \in {"up", "gone", "hollow"}
  /\ queue \subseteq Id
  /\ run \in Live \cup Terminal
  /\ asked \in {"no", "cancel", "stop", "orphan"}
  /\ edits \in 0..MaxEdits /\ faults \in 0..MaxFaults

\* The rows: numbered from one, on paths of their own.
TableOK(rows, n) ==
  /\ rows \in [Id -> Row \cup {None}]
  /\ n \in 0..MaxItems
  /\ \A i \in Id : rows[i] # None => i <= n
  /\ \A i, j \in Id : i # j /\ rows[i] # None /\ rows[j] # None => rows[i].rel # rows[j].rel

\* The walk: the copy agrees with the table on paths, what the scan inserted
\* is active and on seen paths, and what is neither seen nor still to be
\* walked was away or could not be read, or the walk was stopped, or saw an
\* empty mountpoint.
WalkOK(sc) ==
  /\ \A i \in Id : sc.base[i] # None =>
       items[i] # None /\ items[i].rel = sc.base[i].rel /\ i \notin sc.new
  /\ \A i \in Id : items[i] # None => sc.base[i] # None \/ i \in sc.new
  /\ \A i \in sc.new : /\ items[i] # None /\ items[i].status = "active"
                       /\ items[i].rel \in Seen(sc) \ sc.fresh
  /\ sc.todo \cap Seen(sc) = {}
  /\ \A p \in sc.scope.set :
       p \in sc.todo \cup Seen(sc) \cup sc.denied \/ p \notin sc.solid \/ sc.stop \/ sc.dark
  /\ sc.dark => sc.todo = {} /\ Seen(sc) = {} /\ sc.scope.kind # "dir"
  /\ Born(sc) <= MaxItems

ScanOK(sc, n) ==
  /\ sc \in Scans
  /\ sc.new \subseteq 1..n /\ sc.pending \subseteq 1..n
  /\ sc.fresh \subseteq Seen(sc)

ScanInv ==
  /\ WorldInv
  /\ TableOK(items, born)
  /\ ScanOK(scan, born)
  /\ scan.pc = "walk" => WalkOK(scan)

-----------------------------------------------------------------------------
(* The ids a batch gets. *)

LEMMA BornFacts ==
  ASSUME NEW sc \in Scans, born \in Nat
  PROVE  /\ IsFiniteSet(Created(sc)) /\ Cardinality(Created(sc)) \in Nat
         /\ Born(sc) \in Nat /\ born <= Born(sc)
         /\ sc.fresh = {} => Born(sc) = born
<1>1. Created(sc) \in SUBSET Path
  BY DEF Created, Scans
<1>2. IsFiniteSet(Created(sc))
  BY <1>1, FS_Subset, ConstantsAssumption
<1>3. Cardinality(Created(sc)) \in Nat
  BY <1>2, FS_CardinalityType
<1>4. sc.fresh = {} => Created(sc) = {}
  BY DEF Created
<1>5. sc.fresh = {} => Cardinality(Created(sc)) = 0
  BY <1>4, FS_EmptySet
<1> QED
  BY <1>2, <1>3, <1>5 DEF Born

\* The new ids are numbered without a gap: each is the id of a created path.
LEMMA NewIdOnto ==
  ASSUME NEW sc \in Scans, born \in Nat, NEW i \in (born + 1)..Born(sc)
  PROVE  \E p \in Created(sc) : NewId(sc)[p] = i
<1> DEFINE S == Created(sc)
           T == (born + 1)..Born(sc)
<1>1. IsFiniteSet(S) /\ Cardinality(S) \in Nat /\ Born(sc) = born + Cardinality(S)
  BY BornFacts DEF Born
<1>2. IsFiniteSet(T) /\ Cardinality(T) = Cardinality(S)
  <2>1. born + 1 \in Int /\ Born(sc) \in Int
    BY <1>1
  <2>2. IsFiniteSet(T) /\ Cardinality(T) = IF born + 1 > Born(sc) THEN 0 ELSE Born(sc) - (born + 1) + 1
    BY <2>1, FS_Interval
  <2> QED
    BY <1>1, <2>2
<1> HIDE DEF S, T
<1>3. ExistsBijection(S, T)
  BY <1>1, <1>2, FS_SameCardinalityBij
<1>4. PICK g \in [S -> T] : \A p, q \in S : p # q => g[p] # g[q]
  <2>1. PICK g : g \in Bijection(S, T)
    BY <1>3 DEF ExistsBijection
  <2>2. g \in [S -> T] /\ \A p, q \in S : g[p] = g[q] => p = q
    BY <2>1 DEF Bijection, Injection, IsInjective
  <2> QED
    BY <2>2
<1> DEFINE f == CHOOSE f \in [S -> T] : \A p, q \in S : p # q => f[p] # f[q]
<1>5. f \in [S -> T] /\ \A p, q \in S : p # q => f[p] # f[q]
  BY <1>4
<1>6. NewId(sc) = f
  BY DEF NewId, S, T
<1> HIDE DEF f
<1>7. f \in Injection(S, T)
  BY <1>5 DEF Injection, IsInjective
<1>8. f \in Surjection(S, T)
  BY <1>1, <1>2, <1>7, FS_Injection
<1>9. i \in T
  BY DEF T
<1> QED
  BY <1>6, <1>8, <1>9 DEF Surjection, S

LEMMA RowIsSome == None \notin Row
BY ConstantsAssumption

\* The batch in the database: one row per created path, the others in place.
LEMMA FlushedFacts ==
  ASSUME TableOK(items, born), NEW sc, ScanOK(sc, born), WalkOK(sc)
  PROVE  /\ TableOK(Flushed(sc), Born(sc))
         /\ Born(sc) \in Nat /\ born <= Born(sc)
         /\ \A i \in (born + 1)..Born(sc) :
              /\ i \in Id /\ Flushed(sc)[i] # None /\ items[i] = None
              /\ Flushed(sc)[i].status = "active"
              /\ Flushed(sc)[i].rel \in sc.fresh
         /\ \A i \in Id : i \notin (born + 1)..Born(sc) =>
              /\ Flushed(sc)[i] = None <=> items[i] = None
              /\ items[i] # None =>
                   /\ Flushed(sc)[i].rel = items[i].rel
                   /\ Flushed(sc)[i].status \in {items[i].status, "active"}
<1> DEFINE rows == Flushed(sc)
           New == (born + 1)..Born(sc)
           P(i) == CHOOSE q \in Created(sc) : NewId(sc)[q] = i
<1>0. sc \in Scans /\ born \in Nat /\ sc.found \in [Path -> File] /\ sc.base \in [Id -> Row \cup {None}]
  BY DEF ScanOK, Scans, TableOK
<1>1. Born(sc) \in Nat /\ born <= Born(sc) /\ Born(sc) <= MaxItems /\ MaxItems \in Nat
  BY <1>0, BornFacts, ConstantsAssumption DEF WalkOK
<1>2. \A i \in New : i \in Id /\ i > born
  BY <1>0, <1>1 DEF Id
<1>3. \A i \in New : P(i) \in Created(sc) /\ NewId(sc)[P(i)] = i
  BY <1>0, NewIdOnto
<1>4. \A p \in Created(sc) : /\ p \in Path /\ p \in sc.fresh /\ At(sc.base, p) = {}
                             /\ sc.found[p] \in Version
  <2>1. sc.fresh \subseteq Path /\ \A p \in sc.fresh : sc.found[p] # None
    BY <1>0 DEF ScanOK, Seen, Scans
  <2>2. \A p \in sc.fresh : sc.found[p] \in Version
    BY <1>0, <2>1 DEF File
  <2> QED
    BY <2>1, <2>2 DEF Created
<1>5. ASSUME NEW i \in New
      PROVE  rows[i] = NewRow(P(i), sc.found[P(i)])
  BY <1>2 DEF Flushed
<1>6. ASSUME NEW i \in Id, i \notin New
      PROVE  rows[i] = IF sc.base[i] # None /\ sc.base[i].rel \in sc.fresh
                       THEN [items[i] EXCEPT !.stat = sc.found[sc.base[i].rel], !.status = "active"]
                       ELSE items[i]
  BY <1>6 DEF Flushed
<1>7. DOMAIN rows = Id /\ rows = [i \in Id |-> rows[i]]
  BY DEF Flushed
<1> HIDE DEF rows, New, P
<1>8. ASSUME NEW i \in New
      PROVE  /\ rows[i] \in Row /\ rows[i] # None /\ items[i] = None
             /\ rows[i].status = "active" /\ rows[i].rel = P(i) /\ P(i) \in sc.fresh
  <2>1. None \in File
    BY DEF File
  <2>2. P(i) \in Path /\ P(i) \in sc.fresh /\ sc.found[P(i)] \in Version
    BY <1>3, <1>4
  <2>a. \A p \in Path, v \in Version :
          /\ NewRow(p, v) \in Row
          /\ NewRow(p, v).status = "active" /\ NewRow(p, v).rel = p
    BY <2>1 DEF Row, NewRow
  <2>b. rows[i] = NewRow(P(i), sc.found[P(i)])
    BY <1>5
  <2>3. rows[i] \in Row /\ rows[i].status = "active" /\ rows[i].rel = P(i)
    BY <2>2, <2>a, <2>b
  <2>4. items[i] = None
    <3>1. i \in Id /\ ~(i <= born)
      <4>1. i \in Id /\ i > born /\ i \in Nat
        BY <1>2 DEF Id
      <4> QED
        BY <1>0, <4>1
    <3> QED
      BY <3>1 DEF TableOK
  <2> QED
    BY <2>2, <2>3, <2>4, ConstantsAssumption
<1>9. ASSUME NEW i \in Id, i \notin New
      PROVE  /\ rows[i] \in Row \cup {None}
             /\ rows[i] = None <=> items[i] = None
             /\ items[i] # None => /\ rows[i].rel = items[i].rel
                                   /\ rows[i].status \in {items[i].status, "active"}
  <2>1. CASE sc.base[i] # None /\ sc.base[i].rel \in sc.fresh
    <3>1. items[i] \in Row /\ items[i] # None
      BY <2>1 DEF WalkOK, TableOK
    <3>2. sc.found[sc.base[i].rel] \in Version
      BY <1>0, <2>1 DEF ScanOK, Seen, File
    <3>3. rows[i] = [items[i] EXCEPT !.stat = sc.found[sc.base[i].rel], !.status = "active"]
      BY <1>6, <1>9, <2>1
    <3>4. rows[i] \in Row /\ rows[i].rel = items[i].rel /\ rows[i].status = "active"
      <4>1. PICK r \in Row : r = items[i]
        BY <3>1
      <4>2. PICK v \in Version : v = sc.found[sc.base[i].rel]
        BY <3>2
      <4>3. rows[i] = [r EXCEPT !.stat = v, !.status = "active"]
        BY <3>3, <4>1, <4>2
      <4> QED
        BY <4>1, <4>3 DEF Row
    <3> QED
      BY <3>1, <3>4, ConstantsAssumption
  <2>2. CASE ~(sc.base[i] # None /\ sc.base[i].rel \in sc.fresh)
    <3>1. rows[i] = items[i]
      BY <1>6, <1>9, <2>2
    <3> QED
      BY <3>1 DEF TableOK
  <2> QED
    BY <2>1, <2>2
<1>10. TableOK(rows, Born(sc))
  <2>1. \A i \in Id : rows[i] \in Row \cup {None}
    BY <1>8, <1>9
  <2>2. rows \in [Id -> Row \cup {None}]
    BY <1>7, <2>1
  <2>3. ASSUME NEW i \in Id, rows[i] # None PROVE i <= Born(sc)
    <3>1. CASE i \in New
      BY <1>1, <1>2, <3>1 DEF New
    <3>2. CASE i \notin New
      <4>1. i <= born /\ i \in Nat
        BY <1>9, <2>3, <3>2 DEF TableOK, Id
      <4> QED
        BY <1>0, <1>1, <4>1
    <3> QED
      BY <3>1, <3>2
  <2>4. ASSUME NEW i \in New, NEW j \in Id, j \notin New, items[j] # None PROVE P(i) # items[j].rel
    <3>1. At(sc.base, P(i)) = {} /\ P(i) \in sc.fresh
      BY <1>3, <1>4
    <3>2. CASE sc.base[j] # None
      <4>1. sc.base[j].rel = items[j].rel
        BY <3>2 DEF WalkOK
      <4> QED
        BY <3>1, <3>2, <4>1 DEF At
    <3>3. CASE j \in sc.new
      BY <3>1, <3>3 DEF WalkOK
    <3> QED
      BY <2>4, <3>2, <3>3 DEF WalkOK
  <2>5. ASSUME NEW i \in Id, NEW j \in Id, i # j, rows[i] # None, rows[j] # None
        PROVE  rows[i].rel # rows[j].rel
    <3>1. CASE i \in New /\ j \in New
      BY <1>3, <1>8, <2>5, <3>1
    <3>2. CASE i \in New /\ j \notin New
      BY <1>8, <1>9, <2>4, <2>5, <3>2
    <3>3. CASE i \notin New /\ j \in New
      BY <1>8, <1>9, <2>4, <2>5, <3>3
    <3>4. CASE i \notin New /\ j \notin New
      BY <1>9, <2>5, <3>4 DEF TableOK
    <3> QED
      BY <3>1, <3>2, <3>3, <3>4
  <2>6. Born(sc) \in 0..MaxItems
    BY <1>1
  <2> QED
    BY <2>2, <2>3, <2>5, <2>6 DEF TableOK
<1> QED
  BY <1>1, <1>2, <1>8, <1>9, <1>10 DEF rows, New

\* The scan's lists after the batch.
LEMMA BatchedFacts ==
  ASSUME TableOK(items, born), NEW sc, ScanOK(sc, born), WalkOK(sc)
  PROVE  /\ Batched(sc) \in Scans
         /\ Batched(sc).fresh = {} /\ Batched(sc).new = sc.new \cup (born + 1)..Born(sc)
         /\ Batched(sc).pending \subseteq 1..Born(sc) /\ Batched(sc).new \subseteq 1..Born(sc)
         /\ Seen(Batched(sc)) = Seen(sc)
         /\ \A f \in {"pc", "scope", "force", "dark", "base", "busy", "todo", "denied", "solid", "found", "stop"} :
              Batched(sc)[f] = sc[f]
         /\ Batched(sc).pending = sc.pending \cup ToExtract(sc)
<1>0. sc \in Scans /\ born \in Nat
  BY DEF ScanOK, TableOK
<1>1. Born(sc) \in Nat /\ born <= Born(sc) /\ Born(sc) <= MaxItems /\ MaxItems \in Nat
  BY <1>0, BornFacts, ConstantsAssumption DEF WalkOK
<1>2. ToExtract(sc) \subseteq 1..Born(sc)
  <2>1. ASSUME NEW i \in Id, sc.base[i] # None PROVE i \in 1..Born(sc)
    <3>1. i <= born /\ i \in Nat /\ 1 <= i
      BY <2>1 DEF WalkOK, TableOK, Id
    <3> QED
      BY <1>0, <1>1, <3>1
  <2>2. ASSUME NEW i \in (born + 1)..Born(sc) PROVE i \in 1..Born(sc)
    BY <1>0, <1>1
  <2> QED
    BY <2>1, <2>2 DEF ToExtract
<1>3. sc.new \cup (born + 1)..Born(sc) \subseteq 1..Born(sc) /\ sc.pending \subseteq 1..Born(sc)
  BY <1>0, <1>1 DEF ScanOK
<1>4. 1..Born(sc) \subseteq Id
  BY <1>1 DEF Id
<1> DEFINE P == sc.pending \cup ToExtract(sc)
           N == sc.new \cup (born + 1)..Born(sc)
<1>5. P \subseteq 1..Born(sc) /\ N \subseteq 1..Born(sc) /\ P \in SUBSET Id /\ N \in SUBSET Id
  BY <1>2, <1>3, <1>4
<1>6. Batched(sc) = [sc EXCEPT !.fresh = {}, !.pending = P, !.new = N]
  BY DEF Batched
<1> HIDE DEF P, N
<1>7. /\ Batched(sc) \in Scans
      /\ Batched(sc).fresh = {} /\ Batched(sc).pending = P /\ Batched(sc).new = N
      /\ Batched(sc).found = sc.found
  BY <1>0, <1>5, <1>6 DEF Scans
<1>8. \A f \in {"pc", "scope", "force", "dark", "base", "busy", "todo", "denied", "solid", "found", "stop"} :
        Batched(sc)[f] = sc[f]
  BY <1>0, <1>6 DEF Scans
<1>9. Seen(Batched(sc)) = Seen(sc)
  BY <1>7 DEF Seen
<1> QED
  BY <1>5, <1>7, <1>8, <1>9 DEF P, N

-----------------------------------------------------------------------------
(* One lemma per kind of step. *)

LEMMA IdleOK ==
  ASSUME NEW n \in Nat
  PROVE  ScanOK(Idle, n) /\ Idle.pc = "idle"
<1>1. Idle \in Scans
  BY DEF Idle, Scans, Scopes, Full, File
<1> QED
  BY <1>1 DEF ScanOK, Idle, Seen

LEMMA InitInv == Init => ScanInv
<1> SUFFICES ASSUME Init PROVE ScanInv
  OBVIOUS
<1>1. WorldInv
  BY ConstantsAssumption DEF Init, WorldInv, Terminal
<1>2. TableOK(items, born)
  BY ConstantsAssumption DEF Init, TableOK
<1>3. ScanOK(scan, born) /\ scan.pc = "idle"
  BY IdleOK DEF Init
<1> QED
  BY <1>1, <1>2, <1>3 DEF ScanInv

\* Steps that leave the rows and the scan alone.
LEMMA FrameStep ==
  ASSUME ScanInv, WorldInv', UNCHANGED <<items, born, scan>>
  PROVE  ScanInv'
<1>1. TableOK(items, born)' /\ ScanOK(scan, born)'
  BY DEF ScanInv, TableOK, ScanOK, Seen
<1>2. ASSUME scan.pc = "walk" PROVE WalkOK(scan)'
  BY <1>2 DEF ScanInv, WalkOK, Seen, Born, Created, At
<1> QED
  BY <1>1, <1>2 DEF ScanInv

\* Steps that end the scan job.
LEMMA IdleStep ==
  ASSUME ScanInv, WorldInv', UNCHANGED <<items, born>>, scan' = Idle
  PROVE  ScanInv'
<1>1. TableOK(items', born')
  BY DEF ScanInv, TableOK
<1>2. born' \in Nat
  BY <1>1 DEF TableOK
<1>3. ScanOK(scan', born') /\ scan'.pc = "idle"
  BY <1>2, IdleOK
<1> QED
  BY <1>1, <1>3 DEF ScanInv, TableOK, ScanOK, Seen

LEMMA QuietSteps ==
  ASSUME ScanInv,
         \/ \E m \in {"gone", "hollow"} : MountFails(m)
         \/ MountReturns \/ Reap \/ MarkRun \/ RetryExtracts
         \/ \E what \in {"cancel", "stop"} : AskRun(what)
         \/ \E i \in Id : ExtractFails(i)
  PROVE  ScanInv'
<1> USE DEF ScanInv, WorldInv
<1>1. UNCHANGED <<items, born, scan, disk, edits>>
  BY DEF MountFails, MountReturns, Reap, MarkRun, RetryExtracts, AskRun, ExtractFails
<1>2. faults' \in 0..MaxFaults
  BY ConstantsAssumption
     DEF MountFails, MountReturns, Reap, MarkRun, RetryExtracts, AskRun, ExtractFails, Fault
<1>3. mount' \in {"up", "gone", "hollow"} /\ queue' \subseteq Id
  BY DEF MountFails, MountReturns, Reap, MarkRun, RetryExtracts, AskRun, ExtractFails
<1>4. run' \in Live \cup Terminal
  BY DEF MountFails, MountReturns, Reap, MarkRun, RetryExtracts, AskRun, ExtractFails,
         Live, Terminal
<1>5. asked' \in {"no", "cancel", "stop", "orphan"}
  BY DEF MountFails, MountReturns, Reap, MarkRun, RetryExtracts, AskRun, ExtractFails
<1>6. WorldInv'
  BY <1>1, <1>2, <1>3, <1>4, <1>5
<1> QED
  BY <1>1, <1>6, FrameStep

LEMMA EndSteps ==
  ASSUME ScanInv, DeferExtracts \/ ScanFails \/ WorkerDies
  PROVE  ScanInv'
<1> USE DEF ScanInv, WorldInv
<1>1. UNCHANGED <<items, born, disk, mount, asked, edits>> /\ scan' = Idle
  BY DEF DeferExtracts, ScanFails, WorkerDies
<1>2. faults' \in 0..MaxFaults
  BY ConstantsAssumption DEF DeferExtracts, ScanFails, WorkerDies, Fault
<1>3. run' \in Live \cup Terminal
  BY DEF DeferExtracts, ScanFails, WorkerDies, Terminal
<1>4. queue' \subseteq Id
  <2>1. scan.pending \subseteq Id
    BY DEF ScanOK, Scans
  <2> QED
    BY <2>1 DEF DeferExtracts, ScanFails, WorkerDies
<1>5. WorldInv'
  BY <1>1, <1>2, <1>3, <1>4
<1> QED
  BY <1>1, <1>5, IdleStep

\* A walk is in order as long as rows keep their paths and status.
LEMMA WalkKept ==
  ASSUME WalkOK(scan), UNCHANGED <<born, scan>>, scan \in Scans,
         \A i \in Id : /\ items'[i] = None <=> items[i] = None
                       /\ items[i] # None => /\ items'[i].rel = items[i].rel
                                             /\ items'[i].status = items[i].status
  PROVE  WalkOK(scan)'
<1>1. Born(scan)' = Born(scan) /\ Seen(scan)' = Seen(scan)
  BY DEF Born, Created, At, Seen
<1>2. scan.new \subseteq Id
  BY DEF Scans
<1> QED
  BY <1>1, <1>2 DEF WalkOK

\* A hash pass changes hashes only.
LEMMA SampledRow ==
  ASSUME NEW r \in Row, NEW v \in File, NEW d
  PROVE  /\ Sampled(r, v, d) \in Row
         /\ Sampled(r, v, d).rel = r.rel /\ Sampled(r, v, d).status = r.status
<1>1. PICK h \in File, m \in File, f \in File :
        Sampled(r, v, d) = [r EXCEPT !.hash = h, !.mid = m, !.full = f]
  <2>1. r.hash \in File /\ r.mid \in File /\ r.full \in File
    BY DEF Row
  <2>2. PICK h \in File : h = IF d > 0 THEN v ELSE r.hash
    BY <2>1
  <2>3. PICK m \in File : m = IF d > 1 THEN v ELSE r.mid
    BY <2>1
  <2>4. PICK f \in File : f = IF d > 2 THEN v ELSE r.full
    BY <2>1
  <2> QED
    BY <2>2, <2>3, <2>4 DEF Sampled
<1> QED
  BY <1>1 DEF Row

LEMMA BytesType ==
  ASSUME WorldInv, NEW r \in Row
  PROVE  Bytes(r) \in File
BY RowIsSome DEF Bytes, Readable, Row, WorldInv, File

\* What an extract job does to the rows.
LEMMA ExtractFacts ==
  ASSUME WorldInv, TableOK(items, born), NEW i \in Id, Extract(i)
  PROVE  /\ items' \in [Id -> Row \cup {None}]
         /\ \A j \in Id : /\ items'[j] = None <=> items[j] = None
                          /\ items[j] # None => /\ items'[j].rel = items[j].rel
                                                /\ items'[j].status = items[j].status
<1>1. items \in [Id -> Row \cup {None}]
  BY DEF TableOK
<1>2. CASE UNCHANGED items
  BY <1>1, <1>2
<1>3. ASSUME Bytes(items[i]) # None, NEW d \in Depths,
             items' = [items EXCEPT ![i] = Sampled(items[i], Bytes(items[i]), d)]
      PROVE  /\ items[i] # None /\ items'[i] \in Row
             /\ items'[i].rel = items[i].rel /\ items'[i].status = items[i].status
  <2>1. items[i] \in Row /\ items[i] # None
    BY <1>1, <1>3 DEF Bytes
  <2>2. Bytes(items[i]) \in File
    BY <2>1, BytesType
  <2>3. items'[i] = Sampled(items[i], Bytes(items[i]), d)
    BY <1>1, <1>3
  <2> QED
    BY <2>1, <2>2, <2>3, SampledRow
<1>4. ASSUME Bytes(items[i]) # None, NEW d \in Depths,
             items' = [items EXCEPT ![i] = Sampled(items[i], Bytes(items[i]), d)]
      PROVE  /\ items' \in [Id -> Row \cup {None}]
             /\ \A j \in Id : /\ items'[j] = None <=> items[j] = None
                              /\ items[j] # None => /\ items'[j].rel = items[j].rel
                                                    /\ items'[j].status = items[j].status
  <2>1. PICK s : s = Sampled(items[i], Bytes(items[i]), d)
    OBVIOUS
  <2>2. items' = [items EXCEPT ![i] = s]
    BY <1>4, <2>1
  <2>3. /\ items[i] # None /\ items'[i] \in Row
        /\ items'[i].rel = items[i].rel /\ items'[i].status = items[i].status
    BY <1>3, <1>4
  <2> QED
    BY <1>1, <2>2, <2>3, RowIsSome
<1> QED
  BY <1>2, <1>4 DEF Extract

LEMMA ExtractStep ==
  ASSUME ScanInv, NEW i \in Id, Extract(i)
  PROVE  ScanInv'
<1> USE DEF ScanInv
<1>1. UNCHANGED <<disk, mount, born, run, scan, asked, edits, faults>> /\ queue' \subseteq Id
  BY DEF Extract, WorldInv
<1>2. WorldInv'
  BY <1>1 DEF WorldInv
<1>3. /\ items' \in [Id -> Row \cup {None}]
      /\ \A j \in Id : /\ items'[j] = None <=> items[j] = None
                       /\ items[j] # None => /\ items'[j].rel = items[j].rel
                                             /\ items'[j].status = items[j].status
  BY ExtractFacts
<1>4. TableOK(items', born')
  BY <1>1, <1>3 DEF TableOK
<1>5. ScanOK(scan, born)' /\ scan \in Scans
  BY <1>1 DEF ScanOK, Seen
<1>6. scan.pc = "walk" => WalkOK(scan)'
  BY <1>1, <1>3, <1>5, WalkKept
<1> QED
  BY <1>1, <1>2, <1>4, <1>5, <1>6 DEF TableOK

LEMMA ChangeDiskStep ==
  ASSUME ScanInv, NEW d \in [Path -> File], ChangeDisk(d)
  PROVE  ScanInv'
<1> USE DEF ScanInv
<1> DEFINE S == {p \in scan.solid : d[p] # None}
<1>1. /\ scan' = [scan EXCEPT !.solid = S] /\ disk' = d /\ edits' = edits + 1 /\ edits < MaxEdits
      /\ UNCHANGED <<mount, items, born, queue, run, asked, faults>>
  BY DEF ChangeDisk
<1>2. scan \in Scans /\ S \in SUBSET Path /\ S \subseteq scan.solid
  BY DEF ScanOK, Scans
<1> HIDE DEF S
<1>3. WorldInv'
  BY <1>1, ConstantsAssumption DEF WorldInv
<1>4. /\ scan' \in Scans /\ scan'.solid = S
      /\ scan'.pc = scan.pc /\ scan'.base = scan.base /\ scan'.new = scan.new
      /\ scan'.pending = scan.pending /\ scan'.fresh = scan.fresh /\ scan'.found = scan.found
      /\ scan'.todo = scan.todo /\ scan'.scope = scan.scope /\ scan'.stop = scan.stop
      /\ scan'.dark = scan.dark /\ scan'.denied = scan.denied
  BY <1>1, <1>2 DEF Scans
<1>5. /\ Seen(scan') = Seen(scan) /\ Created(scan') = Created(scan)
      /\ Seen(scan)' = Seen(scan) /\ Created(scan)' = Created(scan)
  BY <1>4 DEF Seen, Created, At
<1>6. Born(scan)' = Born(scan)
  BY <1>1, <1>5 DEF Born
<1>7. TableOK(items, born)' /\ ScanOK(scan, born)'
  BY <1>1, <1>4, <1>5 DEF TableOK, ScanOK
<1>8. scan.pc = "walk" => WalkOK(scan)'
  BY <1>1, <1>2, <1>4, <1>5, <1>6 DEF WalkOK
<1> QED
  BY <1>3, <1>4, <1>7, <1>8

LEMMA StartStep ==
  ASSUME ScanInv, NEW s \in Scopes, NEW force \in BOOLEAN, StartScan(s, force),
         faults' \in 0..MaxFaults
  PROVE  ScanInv'
<1> USE DEF ScanInv
<1>1. UNCHANGED <<disk, mount, items, born, queue, edits>> /\ asked' = "no"
  BY DEF StartScan
<1>2. run' \in Live \cup Terminal
  BY DEF StartScan, Live, Terminal
<1>3. WorldInv'
  BY <1>1, <1>2 DEF WorldInv
<1>4. CASE UNCHANGED scan
  BY <1>1, <1>3, <1>4, FrameStep
<1>5. CASE /\ mount # "gone" /\ (~Vanished(s) \/ (s.kind = "dir" /\ mount = "up"))
           /\ scan' = [Idle EXCEPT
                      !.pc = "walk", !.scope = s, !.force = force,
                      !.dark = (mount # "up"), !.base = items,
                      !.busy = {i \in queue : items[i] # None},
                      !.todo = IF mount = "up" THEN s.set ELSE {},
                      !.solid = {p \in Path : disk[p] # None}]
  <2>1. PICK dark \in BOOLEAN : dark = (mount # "up")
    OBVIOUS
  <2>2. PICK todo \in SUBSET Path : todo = IF mount = "up" THEN s.set ELSE {}
    BY DEF Scopes
  <2>3. PICK busy \in SUBSET Id : busy = {i \in queue : items[i] # None}
    BY DEF WorldInv
  <2>4. PICK solid \in SUBSET Path : solid = {p \in Path : disk[p] # None}
    OBVIOUS
  <2>5. scan' = [Idle EXCEPT !.pc = "walk", !.scope = s, !.force = force, !.dark = dark,
                   !.base = items, !.busy = busy, !.todo = todo, !.solid = solid]
    BY <1>5, <2>1, <2>2, <2>3, <2>4
  <2>6. items \in [Id -> Row \cup {None}] /\ born \in 0..MaxItems /\ born \in Nat
    BY DEF TableOK
  <2>7. /\ Idle \in Scans /\ Idle.found = [p \in Path |-> None] /\ Idle.fresh = {}
        /\ Idle.new = {} /\ Idle.pending = {}
    BY <2>6, IdleOK DEF ScanOK, Idle
  <2>8. /\ scan' \in Scans /\ scan'.scope = s /\ scan'.dark = dark /\ scan'.base = items
        /\ scan'.todo = todo
        /\ scan'.found = [p \in Path |-> None] /\ scan'.fresh = {}
        /\ scan'.new = {} /\ scan'.pending = {}
    BY <2>5, <2>6, <2>7 DEF Scans
  <2>9. Seen(scan') = {}
    BY <2>8 DEF Seen
  <2>10. ScanOK(scan, born)'
    BY <1>1, <2>8, <2>9 DEF ScanOK, Seen
  <2>11. TableOK(items, born)'
    BY <1>1 DEF TableOK
  <2>12. Born(scan)' <= MaxItems
    <3>1. Created(scan') = {} /\ Created(scan)' = Created(scan')
      BY <2>8 DEF Created, At
    <3>2. Born(scan)' = born + 0
      BY <1>1, <3>1, FS_EmptySet DEF Born
    <3> QED
      BY <2>6, <3>2, ConstantsAssumption
  <2>13. dark => s.kind # "dir"
    <3>1. ASSUME dark, s.kind = "dir" PROVE FALSE
      <4>1. mount # "up"
        BY <2>1, <3>1
      <4>2. Vanished(s)
        BY <3>1, <4>1 DEF Vanished, Readable
      <4> QED
        BY <1>5, <4>1, <4>2
    <3> QED
      BY <3>1
  <2>14. WalkOK(scan)'
    <3>1. \A p \in s.set : p \in todo \/ dark
      BY <2>1, <2>2
    <3>2. dark => todo = {}
      BY <2>1, <2>2
    <3>3. Seen(scan)' = {}
      BY <2>9 DEF Seen
    <3> QED
      BY <1>1, <2>8, <2>12, <2>13, <3>1, <3>2, <3>3 DEF WalkOK
  <2> QED
    BY <1>3, <2>10, <2>11, <2>14
<1> QED
  BY <1>4, <1>5 DEF StartScan

\* The commit of a batch under the walk.
LEMMA PublishStep ==
  ASSUME TableOK(items, born), NEW sc, ScanOK(sc, born), WalkOK(sc), sc.pc = "walk",
         PublishProgress(sc), WorldInv'
  PROVE  ScanInv'
<1> DEFINE New == (born + 1)..Born(sc)
           b == Batched(sc)
<1>1. items' = Flushed(sc) /\ born' = Born(sc)
  BY DEF PublishProgress
<1>2. TableOK(items', born') /\ born' \in Nat
  BY <1>1, FlushedFacts
<1>3. TableOK(items, born)'
  BY <1>2 DEF TableOK
<1>4. CASE scan' = Idle
  <2>1. ScanOK(scan', born') /\ scan'.pc = "idle"
    BY <1>2, <1>4, IdleOK
  <2> QED
    BY <1>3, <2>1 DEF ScanInv, ScanOK, Seen
<1>5. ASSUME \/ scan' = b
             \/ scan' = [b EXCEPT !.stop = TRUE, !.todo = {}]
      PROVE  ScanInv'
  <2>1. /\ b \in Scans /\ b.fresh = {} /\ b.new = sc.new \cup New /\ b.pending \subseteq 1..born'
        /\ b.new \subseteq 1..born' /\ Seen(b) = Seen(sc)
        /\ b.scope = sc.scope /\ b.dark = sc.dark /\ b.base = sc.base /\ b.todo = sc.todo
        /\ b.solid = sc.solid /\ b.denied = sc.denied /\ b.found = sc.found /\ b.stop = sc.stop
    BY <1>1, BatchedFacts
  <2> HIDE DEF b
  <2>2. /\ scan' \in Scans /\ scan'.fresh = {} /\ scan'.new = sc.new \cup New
        /\ scan'.pending = b.pending /\ scan'.found = sc.found
        /\ scan'.scope = sc.scope /\ scan'.dark = sc.dark /\ scan'.base = sc.base
        /\ scan'.solid = sc.solid /\ scan'.denied = sc.denied
        /\ (scan'.todo = sc.todo /\ scan'.stop = sc.stop) \/ (scan'.todo = {} /\ scan'.stop = TRUE)
    <3>1. CASE scan' = b
      BY <2>1, <3>1
    <3>2. CASE scan' = [b EXCEPT !.stop = TRUE, !.todo = {}]
      BY <2>1, <3>2 DEF Scans
    <3> QED
      BY <1>5, <3>1, <3>2
  <2>3. Seen(scan') = Seen(sc) /\ Seen(scan)' = Seen(sc)
    BY <2>2 DEF Seen
  <2>4. ScanOK(scan, born)'
    BY <2>1, <2>2, <2>3 DEF ScanOK
  <2>5. Born(scan)' <= MaxItems
    <3>1. Created(scan') = {} /\ Created(scan)' = Created(scan')
      BY <2>2 DEF Created, At
    <3>2. Born(scan)' = born' + 0
      BY <3>1, FS_EmptySet DEF Born
    <3>3. PICK n \in 0..MaxItems : n = born'
      BY <1>2 DEF TableOK
    <3>4. n + 0 <= MaxItems
      BY ConstantsAssumption
    <3> QED
      BY <3>2, <3>3, <3>4
  <2>6. ASSUME NEW i \in Id, sc.base[i] # None
        PROVE  items'[i] # None /\ items'[i].rel = sc.base[i].rel /\ i \notin sc.new \cup New
    <3>1. items[i] # None /\ items[i].rel = sc.base[i].rel /\ i \notin sc.new
      BY <2>6 DEF WalkOK
    <3>2. i \notin New
      BY <3>1, FlushedFacts
    <3> QED
      BY <1>1, <3>1, <3>2, FlushedFacts
  <2>7. ASSUME NEW i \in Id, items'[i] # None PROVE sc.base[i] # None \/ i \in sc.new \cup New
    <3>1. CASE i \in New
      BY <3>1
    <3>2. CASE i \notin New
      <4>1. items[i] # None
        BY <1>1, <2>7, <3>2, FlushedFacts
      <4> QED
        BY <4>1 DEF WalkOK
    <3> QED
      BY <3>1, <3>2
  <2>8. ASSUME NEW i \in sc.new \cup New
        PROVE  items'[i] # None /\ items'[i].status = "active" /\ items'[i].rel \in Seen(sc)
    <3>1. CASE i \in New
      <4>1. sc.fresh \subseteq Seen(sc)
        BY DEF ScanOK
      <4>2. /\ Flushed(sc)[i] # None /\ Flushed(sc)[i].status = "active"
            /\ Flushed(sc)[i].rel \in sc.fresh
        BY <3>1, FlushedFacts
      <4> QED
        BY <1>1, <4>1, <4>2
    <3>2. CASE i \notin New
      <4>1. /\ i \in Id /\ items[i] # None /\ items[i].status = "active"
            /\ items[i].rel \in Seen(sc)
        BY <3>2 DEF WalkOK, ScanOK, Scans
      <4> QED
        BY <1>1, <3>2, <4>1, FlushedFacts
    <3> QED
      BY <3>1, <3>2
  <2>9. WalkOK(scan)'
    <3>1. /\ scan'.todo \cap Seen(sc) = {}
          /\ scan'.dark => scan'.todo = {} /\ Seen(sc) = {} /\ scan'.scope.kind # "dir"
          /\ \A p \in scan'.scope.set :
               \/ p \in scan'.todo \cup Seen(sc) \cup scan'.denied
               \/ p \notin scan'.solid \/ scan'.stop \/ scan'.dark
      BY <2>2 DEF WalkOK
    <3> HIDE DEF New
    <3> QED
      BY <2>2, <2>3, <2>5, <2>6, <2>7, <2>8, <3>1 DEF WalkOK
  <2> QED
    BY <1>3, <2>4, <2>9 DEF ScanInv
<1> QED
  BY <1>4, <1>5 DEF PublishProgress

\* The scan with one more file seen.
Visited(p) == [scan EXCEPT !.todo = scan.todo \ {p}, !.found[p] = disk[p],
                           !.fresh = scan.fresh \cup {p}]

LEMMA VisitFacts ==
  ASSUME ScanInv, NEW p \in Path, Visit(p)
  PROVE  ScanOK(Visited(p), born) /\ WalkOK(Visited(p)) /\ Visited(p).pc = "walk"
<1> DEFINE sc == Visited(p)
<1>1. /\ scan.pc = "walk" /\ p \in scan.todo /\ disk[p] # None /\ disk[p] \in File
      /\ Born(sc) <= MaxItems
  BY DEF Visit, Visited, Readable, ScanInv, WorldInv
<1>2. scan \in Scans /\ ScanOK(scan, born) /\ WalkOK(scan) /\ TableOK(items, born)
  BY <1>1 DEF ScanInv, ScanOK
<1> DEFINE todo == scan.todo \ {p}
           found == [scan.found EXCEPT ![p] = disk[p]]
           fresh == scan.fresh \cup {p}
<1>4. sc = [scan EXCEPT !.todo = todo, !.found = found, !.fresh = fresh]
  BY <1>2 DEF Visited, Scans
<1>5. todo \in SUBSET Path /\ found \in [Path -> File] /\ fresh \in SUBSET Path
  BY <1>1, <1>2 DEF Scans
<1>6. /\ found[p] = disk[p] /\ \A q \in Path : q # p => found[q] = scan.found[q]
      /\ p \notin todo /\ todo \subseteq scan.todo /\ \A q \in scan.todo : q = p \/ q \in todo
      /\ \A q : q \in fresh <=> q \in scan.fresh \/ q = p
  BY <1>2 DEF Scans
<1> HIDE DEF sc, todo, found, fresh
<1>7. /\ sc \in Scans /\ sc.todo = todo /\ sc.found = found /\ sc.fresh = fresh
      /\ sc.pc = scan.pc /\ sc.base = scan.base /\ sc.new = scan.new /\ sc.pending = scan.pending
      /\ sc.solid = scan.solid /\ sc.scope = scan.scope /\ sc.stop = scan.stop
      /\ sc.dark = scan.dark /\ sc.denied = scan.denied
  BY <1>2, <1>4, <1>5 DEF Scans
<1>8. \A q \in Path : q \in Seen(sc) <=> q \in Seen(scan) \/ q = p
  BY <1>1, <1>6, <1>7 DEF Seen
<1>9. Seen(sc) \subseteq Path /\ Seen(scan) \subseteq Path
  BY DEF Seen
<1>10. p \notin Seen(scan)
  BY <1>1, <1>2 DEF WalkOK
<1>11. ScanOK(sc, born)
  <2>1. sc.fresh \subseteq Seen(sc)
    BY <1>2, <1>5, <1>6, <1>7, <1>8 DEF ScanOK
  <2> QED
    BY <1>2, <1>7, <2>1 DEF ScanOK
<1>12. WalkOK(sc)
  <2>1. \A i \in sc.new : /\ items[i] # None /\ items[i].status = "active"
                          /\ items[i].rel \in Seen(sc) \ sc.fresh
    <3>1. ASSUME NEW i \in sc.new
          PROVE  /\ items[i] # None /\ items[i].status = "active"
                 /\ items[i].rel \in Seen(sc) \ sc.fresh
      <4>1. items[i] # None /\ items[i].status = "active" /\ items[i].rel \in Seen(scan) \ scan.fresh
        BY <1>2, <1>7 DEF WalkOK
      <4>2. items[i].rel # p /\ items[i].rel \in Path
        BY <1>9, <1>10, <4>1
      <4> QED
        BY <1>6, <1>7, <1>8, <4>1, <4>2
    <3> QED
      BY <3>1
  <2>2. sc.todo \cap Seen(sc) = {}
    BY <1>2, <1>5, <1>6, <1>7, <1>8 DEF WalkOK
  <2>3. ~sc.dark
    BY <1>1, <1>2, <1>7 DEF WalkOK
  <2>4. ASSUME NEW q \in sc.scope.set
        PROVE  \/ q \in sc.todo \cup Seen(sc) \cup sc.denied
               \/ q \notin sc.solid \/ sc.stop \/ sc.dark
    BY <1>2, <1>6, <1>7, <1>8, <1>9 DEF WalkOK
  <2> QED
    BY <1>1, <1>2, <1>7, <2>1, <2>2, <2>3, <2>4 DEF WalkOK
<1> QED
  BY <1>1, <1>7, <1>11, <1>12 DEF sc

LEMMA VisitStep ==
  ASSUME ScanInv, NEW p \in Path, Visit(p)
  PROVE  ScanInv'
<1> DEFINE sc == Visited(p)
<1>1. /\ (scan' = sc /\ UNCHANGED <<items, born>>) \/ PublishProgress(sc)
      /\ UNCHANGED <<disk, mount, queue, run, asked, edits, faults>>
  BY DEF Visit, Visited
<1>2. WorldInv' /\ TableOK(items, born)
  BY <1>1 DEF ScanInv, WorldInv
<1>3. ScanOK(sc, born) /\ WalkOK(sc) /\ sc.pc = "walk"
  BY VisitFacts
<1> HIDE DEF sc
<1>4. CASE scan' = sc /\ UNCHANGED <<items, born>>
  <2>1. TableOK(items, born)' /\ ScanOK(scan, born)'
    BY <1>2, <1>3, <1>4 DEF TableOK, ScanOK, Seen
  <2>2. WalkOK(scan)'
    BY <1>3, <1>4 DEF WalkOK, Seen, Born, Created, At
  <2> QED
    BY <1>2, <2>1, <2>2 DEF ScanInv
<1>5. CASE PublishProgress(sc)
  BY <1>2, <1>3, <1>5, PublishStep
<1> QED
  BY <1>1, <1>4, <1>5

LEMMA PassStep ==
  ASSUME ScanInv, NEW p \in Path, Pass(p)
  PROVE  ScanInv'
<1> USE DEF ScanInv
<1> DEFINE todo == scan.todo \ {p}
<1>1. /\ scan.pc = "walk" /\ p \in scan.todo /\ p \notin scan.solid
      /\ scan' = [scan EXCEPT !.todo = todo]
      /\ UNCHANGED <<disk, mount, items, born, queue, run, asked, edits, faults>>
  BY DEF Pass
<1>2. scan \in Scans /\ todo \in SUBSET Path /\ todo \subseteq scan.todo
  BY DEF ScanOK, Scans
<1>3. \A q \in scan.todo : q = p \/ q \in todo
  OBVIOUS
<1> HIDE DEF todo
<1>4. /\ scan' \in Scans /\ scan'.todo = todo
      /\ scan'.pc = scan.pc /\ scan'.base = scan.base /\ scan'.new = scan.new
      /\ scan'.pending = scan.pending /\ scan'.fresh = scan.fresh /\ scan'.found = scan.found
      /\ scan'.solid = scan.solid /\ scan'.scope = scan.scope /\ scan'.stop = scan.stop
      /\ scan'.dark = scan.dark /\ scan'.denied = scan.denied
  BY <1>1, <1>2 DEF Scans
<1>5. Seen(scan)' = Seen(scan) /\ Created(scan)' = Created(scan)
  BY <1>4 DEF Seen, Created, At
<1>6. Born(scan)' = Born(scan)
  BY <1>1, <1>5 DEF Born
<1>7. WorldInv' /\ TableOK(items, born)' /\ ScanOK(scan, born)'
  BY <1>1, <1>4, <1>5 DEF WorldInv, TableOK, ScanOK
<1>8. WalkOK(scan)'
  BY <1>1, <1>2, <1>3, <1>4, <1>5, <1>6 DEF WalkOK
<1> QED
  BY <1>7, <1>8

LEMMA SkipStep ==
  ASSUME ScanInv, NEW ps \in SUBSET Path, Skip(ps)
  PROVE  ScanInv'
<1> USE DEF ScanInv
<1> DEFINE todo == scan.todo \ ps
           denied == scan.denied \cup ps
<1>1. /\ scan.pc = "walk" /\ scan' = [scan EXCEPT !.todo = todo, !.denied = denied]
      /\ UNCHANGED <<disk, mount, items, born, queue, run, asked, edits>>
  BY DEF Skip
<1>2. faults' \in 0..MaxFaults
  BY ConstantsAssumption DEF Skip, Fault, WorldInv
<1>3. scan \in Scans /\ todo \in SUBSET Path /\ todo \subseteq scan.todo /\ denied \in SUBSET Path
  BY DEF ScanOK, Scans
<1>4. (\A q \in scan.todo : q \in denied \/ q \in todo) /\ scan.denied \subseteq denied
  OBVIOUS
<1> HIDE DEF todo, denied
<1>5. /\ scan' \in Scans /\ scan'.todo = todo /\ scan'.denied = denied
      /\ scan'.pc = scan.pc /\ scan'.base = scan.base /\ scan'.new = scan.new
      /\ scan'.pending = scan.pending /\ scan'.fresh = scan.fresh /\ scan'.found = scan.found
      /\ scan'.solid = scan.solid /\ scan'.scope = scan.scope /\ scan'.stop = scan.stop
      /\ scan'.dark = scan.dark
  BY <1>1, <1>3 DEF Scans
<1>6. Seen(scan)' = Seen(scan) /\ Created(scan)' = Created(scan)
  BY <1>5 DEF Seen, Created, At
<1>7. Born(scan)' = Born(scan)
  BY <1>1, <1>6 DEF Born
<1>8. WorldInv' /\ TableOK(items, born)' /\ ScanOK(scan, born)'
  BY <1>1, <1>2, <1>5, <1>6 DEF WorldInv, TableOK, ScanOK
<1>9. WalkOK(scan)'
  BY <1>1, <1>3, <1>4, <1>5, <1>6, <1>7 DEF WalkOK
<1> QED
  BY <1>8, <1>9

-----------------------------------------------------------------------------
(* The end of a scan, one lemma per stage of its transaction. *)

\* Hashing on the spot changes hashes only.
LEMMA HashedFacts ==
  ASSUME WorldInv, NEW rows, NEW n, TableOK(rows, n), NEW sc, NEW depth,
         \A i \in sc.new : rows[i] # None
  PROVE  /\ TableOK(Hashed(sc, rows, depth), n)
         /\ \A i \in Id : /\ Hashed(sc, rows, depth)[i] = None <=> rows[i] = None
                          /\ rows[i] # None => /\ Hashed(sc, rows, depth)[i].rel = rows[i].rel
                                               /\ Hashed(sc, rows, depth)[i].status = rows[i].status
<1> DEFINE h == Hashed(sc, rows, depth)
<1>1. ASSUME NEW i \in Id
      PROVE  /\ h[i] \in Row \cup {None} /\ (h[i] = None <=> rows[i] = None)
             /\ rows[i] # None => h[i].rel = rows[i].rel /\ h[i].status = rows[i].status
  <2>1. rows[i] \in Row \cup {None}
    BY DEF TableOK
  <2>2. CASE i \in ToHash(sc, rows)
    <3>1. rows[i] \in Row
      BY <2>1, <2>2 DEF ToHash
    <3>2. Bytes(rows[i]) \in File
      BY <3>1, BytesType
    <3>3. h[i] = Sampled(rows[i], Bytes(rows[i]), depth[i])
      BY <2>2 DEF Hashed
    <3>4. h[i] \in Row /\ h[i].rel = rows[i].rel /\ h[i].status = rows[i].status
      BY <3>1, <3>2, <3>3, SampledRow
    <3> QED
      BY <3>1, <3>4, RowIsSome
  <2>3. CASE i \notin ToHash(sc, rows)
    <3>1. h[i] = rows[i]
      BY <2>3 DEF Hashed
    <3> QED
      BY <2>1, <3>1
  <2> QED
    BY <2>2, <2>3
<1>2. DOMAIN h = Id /\ h = [i \in Id |-> h[i]]
  BY DEF Hashed
<1> HIDE DEF h
<1>3. h \in [Id -> Row \cup {None}]
  <2>1. \A i \in Id : h[i] \in Row \cup {None}
    BY <1>1
  <2> QED
    BY <1>2, <2>1
<1>4. TableOK(h, n)
  BY <1>1, <1>3 DEF TableOK
<1> QED
  BY <1>1, <1>4 DEF h

\* What an id may move on: the key, and no content hash against it.
Alike(a, b) == SameKey(a, b) /\ (None \in {a.full, b.full} \/ a.full = b.full)

LEMMA NoVerdictAgainst ==
  ASSUME NEW a, NEW b, SameKey(a, b), Verdict(a, b) # "no"
  PROVE  Alike(a, b)
BY DEF Alike, Verdict

\* The pairs are a matching of unseen rows with rows the scan inserted.
LEMMA MovesFacts ==
  ASSUME NEW sc, NEW rows
  PROVE  /\ \A m \in Moves(sc, rows) :
              /\ m[1] \in Candidates(sc) /\ m[2] \in sc.new
              /\ Alike(sc.base[m[1]], rows[m[2]])
         /\ \A m, k \in Moves(sc, rows) : m[1] = k[1] <=> m[2] = k[2]
<1> DEFINE news == {n \in sc.new : rows[n].hash # None}
           Key(c, n) == SameKey(sc.base[c], rows[n])
           Says(c, n) == Verdict(sc.base[c], rows[n])
           Sure(c, n) == Key(c, n) /\ Says(c, n) = "yes"
<1>1. Moves(sc, rows) =
        {m \in Candidates(sc) \X news :
           /\ Key(m[1], m[2])
           /\ \/ /\ Says(m[1], m[2]) # "no"
                 /\ \A c \in Candidates(sc) : Key(c, m[2]) => c = m[1]
                 /\ \A n \in news : Key(m[1], n) => n = m[2]
              \/ /\ Sure(m[1], m[2])
                 /\ \A c \in Candidates(sc) : Sure(c, m[2]) => c = m[1]
                 /\ \A n \in news : Sure(m[1], n) => n = m[2]}
  BY DEF Moves
<1>2. \A c, n : Key(c, n) /\ Says(c, n) # "no" => Alike(sc.base[c], rows[n])
  BY NoVerdictAgainst
<1> HIDE DEF Key, Says
<1>3. \A m \in Moves(sc, rows) : /\ m[1] \in Candidates(sc) /\ m[2] \in news
                                 /\ Key(m[1], m[2]) /\ Says(m[1], m[2]) # "no"
  BY <1>1
<1>4. ASSUME NEW m \in Moves(sc, rows), NEW k \in Moves(sc, rows) PROVE m[1] = k[1] <=> m[2] = k[2]
  BY <1>1, <1>3
<1> QED
  BY <1>2, <1>3, <1>4

\* Moving along a matching keeps the table in order: the survivor takes the
\* duplicate's row, the duplicate is gone.
LEMMA MovedFacts ==
  ASSUME NEW rows, NEW n, TableOK(rows, n), NEW moves,
         \A m \in moves : m[1] \in Id /\ m[2] \in Id /\ rows[m[1]] # None /\ rows[m[2]] # None,
         \A m, k \in moves : m[1] # k[2] /\ (m[1] = k[1] <=> m[2] = k[2])
  PROVE  /\ TableOK(Moved(rows, moves), n)
         /\ \A m \in moves : /\ Moved(rows, moves)[m[2]] = None
                             /\ Moved(rows, moves)[m[1]] = rows[m[2]]
         /\ \A i \in Id : (\A m \in moves : m[1] # i /\ m[2] # i) => Moved(rows, moves)[i] = rows[i]
<1> DEFINE r == Moved(rows, moves)
<1>1. ASSUME NEW m \in moves PROVE r[m[2]] = None /\ r[m[1]] = rows[m[2]]
  <2>1. r[m[2]] = None
    BY DEF Moved
  <2>2. ~(\E k \in moves : k[2] = m[1])
    OBVIOUS
  <2>3. r[m[1]] = rows[(CHOOSE k \in moves : k[1] = m[1])[2]]
    BY <2>2 DEF Moved
  <2>4. (CHOOSE k \in moves : k[1] = m[1])[2] = m[2]
    <3> DEFINE c == CHOOSE k \in moves : k[1] = m[1]
    <3>1. c \in moves /\ c[1] = m[1]
      OBVIOUS
    <3> HIDE DEF c
    <3>2. c[2] = m[2]
      BY <3>1
    <3> QED
      BY <3>2 DEF c
  <2> QED
    BY <2>1, <2>3, <2>4
<1>2. ASSUME NEW i \in Id, \A m \in moves : m[1] # i /\ m[2] # i PROVE r[i] = rows[i]
  BY <1>2 DEF Moved
<1>3. DOMAIN r = Id /\ r = [i \in Id |-> r[i]]
  BY DEF Moved
<1> HIDE DEF r
\* Every row comes from one old row, two rows never from the same one.
<1>4. ASSUME NEW i \in Id, r[i] # None
      PROVE  \/ r[i] = rows[i] /\ \A m \in moves : m[1] # i /\ m[2] # i
             \/ \E m \in moves : m[1] = i /\ r[i] = rows[m[2]]
  BY <1>1, <1>2, <1>4
<1>5. r \in [Id -> Row \cup {None}]
  <2>1. ASSUME NEW i \in Id PROVE r[i] \in Row \cup {None}
    BY <1>4 DEF TableOK
  <2> QED
    BY <1>3, <2>1
<1>6. ASSUME NEW i \in Id, r[i] # None PROVE i <= n
  <2>1. rows[i] # None
    BY <1>4, <1>6
  <2> QED
    BY <2>1 DEF TableOK
<1>7. ASSUME NEW i \in Id, NEW j \in Id, i # j, r[i] # None, r[j] # None PROVE r[i].rel # r[j].rel
  <2>1. PICK a \in Id : /\ rows[a] # None /\ r[i] = rows[a]
                        /\ \/ a = i /\ \A m \in moves : m[1] # i /\ m[2] # i
                           \/ \E m \in moves : m[1] = i /\ m[2] = a
    BY <1>4, <1>7
  <2>2. PICK b \in Id : /\ rows[b] # None /\ r[j] = rows[b]
                        /\ \/ b = j /\ \A m \in moves : m[1] # j /\ m[2] # j
                           \/ \E m \in moves : m[1] = j /\ m[2] = b
    BY <1>4, <1>7
  <2>3. a # b
    BY <1>7, <2>1, <2>2
  <2> QED
    BY <2>1, <2>2, <2>3 DEF TableOK
<1>8. TableOK(r, n)
  BY <1>5, <1>6, <1>7 DEF TableOK
<1> QED
  BY <1>1, <1>2, <1>8 DEF r

\* Tombstones change the status of unseen rows only.
LEMMA TombstonedFacts ==
  ASSUME NEW rows, NEW n, TableOK(rows, n), NEW sc, \A i \in Unseen(sc) : rows[i] # None
  PROVE  /\ TableOK(Tombstoned(sc, rows), n)
         /\ \A i \in Id :
              /\ Tombstoned(sc, rows)[i] = None <=> rows[i] = None
              /\ rows[i] # None => Tombstoned(sc, rows)[i].rel = rows[i].rel
              /\ ~(i \in Unseen(sc) /\ ~sc.stop /\ rows[i].rel \notin Seen(sc))
                   => Tombstoned(sc, rows)[i] = rows[i]
<1> DEFINE t == Tombstoned(sc, rows)
<1>1. ASSUME NEW i \in Id
      PROVE  /\ t[i] \in Row \cup {None} /\ (t[i] = None <=> rows[i] = None)
             /\ rows[i] # None => t[i].rel = rows[i].rel
             /\ ~(i \in Unseen(sc) /\ ~sc.stop /\ rows[i].rel \notin Seen(sc)) => t[i] = rows[i]
  <2>1. rows[i] \in Row \cup {None}
    BY DEF TableOK
  <2>2. CASE i \in Unseen(sc) /\ ~sc.stop /\ rows[i].rel \notin Seen(sc)
    <3>1. PICK r \in Row : r = rows[i]
      BY <2>1, <2>2
    <3>2. t[i] = [r EXCEPT !.status = "missing"]
      BY <2>2, <3>1 DEF Tombstoned
    <3>3. t[i] \in Row /\ t[i].rel = r.rel
      BY <3>2 DEF Row
    <3> QED
      BY <2>2, <3>1, <3>3, RowIsSome
  <2>3. CASE ~(i \in Unseen(sc) /\ ~sc.stop /\ rows[i].rel \notin Seen(sc))
    <3>1. t[i] = rows[i]
      BY <2>3 DEF Tombstoned
    <3> QED
      BY <2>1, <3>1
  <2> QED
    BY <2>2, <2>3
<1>2. DOMAIN t = Id /\ t = [i \in Id |-> t[i]]
  BY DEF Tombstoned
<1> HIDE DEF t
<1>3. t \in [Id -> Row \cup {None}]
  <2>1. \A i \in Id : t[i] \in Row \cup {None}
    BY <1>1
  <2> QED
    BY <1>2, <2>1
<1>4. TableOK(t, n)
  BY <1>1, <1>3 DEF TableOK
<1> QED
  BY <1>1, <1>4 DEF t

\* What the transaction may do to a row.
FinishedRow(i) ==
  /\ items'[i] = None => i \in scan.new
  /\ items'[i] # None /\ items'[i].rel # items[i].rel =>
       i \in Unseen(scan) /\ ~scan.stop /\ ~scan.dark /\ Alike(scan.base[i], items'[i])
  /\ items'[i] # None /\ items[i].status = "active" /\ items'[i].status = "missing" =>
       i \in Unseen(scan) /\ ~scan.stop

LEMMA FinishFacts ==
  ASSUME ScanInv, Finish
  PROVE  /\ TableOK(items', born')
         /\ ScanOK(scan', born') /\ scan'.pc = "defer"
         /\ \A i \in Id : items[i] # None => FinishedRow(i)
<1> DEFINE New == (born + 1)..Born(scan)
           b == Batched(scan)
           f == Flushed(scan)
<1>a. PICK depth \in [ToHash(b, f) -> {0} \cup Depths] :
        LET rows  == Hashed(b, f, depth)
            moves == Moves(b, rows)
        IN  /\ items' = Tombstoned(b, Moved(rows, moves))
            /\ born' = Born(scan)
            /\ scan' = [Idle EXCEPT !.pc = "defer",
                                    !.pending = b.pending \ {m[2] : m \in moves}]
  BY DEF Finish
<1> DEFINE rows == Hashed(b, f, depth)
           moves == Moves(b, rows)
           mv == Moved(rows, moves)
           P == b.pending \ {m[2] : m \in moves}
<1>0. /\ WorldInv /\ TableOK(items, born) /\ ScanOK(scan, born) /\ WalkOK(scan) /\ scan \in Scans
      /\ scan.new \subseteq Id
  BY DEF ScanInv, Finish, ScanOK, Scans
<1>1. /\ items' = Tombstoned(b, mv) /\ born' = Born(scan)
      /\ scan' = [Idle EXCEPT !.pc = "defer", !.pending = P]
  BY <1>a
<1>2. /\ TableOK(f, Born(scan))
      /\ \A i \in New : /\ i \in Id /\ f[i] # None /\ items[i] = None
                        /\ f[i].status = "active" /\ f[i].rel \in scan.fresh
      /\ \A i \in Id : i \notin New =>
           /\ f[i] = None <=> items[i] = None
           /\ items[i] # None => f[i].rel = items[i].rel /\ f[i].status \in {items[i].status, "active"}
  BY <1>0, FlushedFacts
<1>3. /\ b \in Scans /\ b.fresh = {} /\ b.new = scan.new \cup New
      /\ b.pending \subseteq 1..Born(scan) /\ b.new \subseteq 1..Born(scan)
      /\ Seen(b) = Seen(scan) /\ b.base = scan.base /\ b.scope = scan.scope /\ b.stop = scan.stop
  BY <1>0, BatchedFacts
<1> HIDE DEF New, b, f
<1>4. Unseen(b) = Unseen(scan) /\ \A i \in Candidates(b) : i \in Unseen(scan) /\ ~scan.stop
  BY <1>3 DEF Unseen, Candidates
<1>5. ASSUME NEW i \in b.new
      PROVE  i \in Id /\ f[i] # None /\ f[i].status = "active" /\ f[i].rel \in Seen(scan)
  <2>1. CASE i \in New
    BY <1>0, <1>2, <2>1 DEF ScanOK
  <2>2. CASE i \notin New
    <3>1. i \in scan.new /\ i \in Id
      BY <1>0, <1>3, <2>2
    <3>2. items[i] # None /\ items[i].status = "active" /\ items[i].rel \in Seen(scan)
      BY <1>0, <3>1 DEF WalkOK
    <3> QED
      BY <1>2, <2>2, <3>1, <3>2
  <2> QED
    BY <2>1, <2>2
<1>6. ASSUME NEW i \in Unseen(scan)
      PROVE  /\ i \in Id /\ items[i] # None /\ i \notin b.new /\ i \notin New
             /\ f[i] # None /\ f[i].rel \notin Seen(scan)
  <2>1. i \in Id /\ scan.base[i] # None /\ scan.base[i].rel \notin Seen(scan)
    BY DEF Unseen
  <2>2. items[i] # None /\ items[i].rel = scan.base[i].rel /\ i \notin scan.new
    BY <1>0, <2>1 DEF WalkOK
  <2>3. i \notin New
    BY <1>2, <2>2
  <2> QED
    BY <1>2, <1>3, <2>1, <2>2, <2>3
<1>7. /\ TableOK(rows, Born(scan))
      /\ \A i \in Id : /\ rows[i] = None <=> f[i] = None
                       /\ f[i] # None => rows[i].rel = f[i].rel /\ rows[i].status = f[i].status
  BY <1>0, <1>2, <1>5, HashedFacts
<1> HIDE DEF rows
<1>8. /\ \A m \in moves : m[1] \in Candidates(b) /\ m[2] \in b.new
                          /\ Alike(b.base[m[1]], rows[m[2]])
      /\ \A m, k \in moves : m[1] = k[1] <=> m[2] = k[2]
  BY MovesFacts
<1> HIDE DEF moves
<1>9. \A m \in moves : /\ m[1] \in Id /\ m[2] \in Id /\ m[1] \in Unseen(scan) /\ ~scan.stop
                       /\ rows[m[1]] # None /\ rows[m[2]] # None
                       /\ rows[m[2]].rel \in Seen(scan) /\ rows[m[2]].status = "active"
  BY <1>4, <1>5, <1>6, <1>7, <1>8
<1>10. \A m, k \in moves : m[1] # k[2]
  BY <1>6, <1>8, <1>9
<1>11. /\ TableOK(mv, Born(scan))
       /\ \A m \in moves : mv[m[2]] = None /\ mv[m[1]] = rows[m[2]]
       /\ \A i \in Id : (\A m \in moves : m[1] # i /\ m[2] # i) => mv[i] = rows[i]
  BY <1>7, <1>8, <1>9, <1>10, MovedFacts
<1> HIDE DEF mv
<1>12. ASSUME NEW i \in Unseen(scan)
       PROVE  mv[i] # None
  <2>1. \A m \in moves : m[2] # i
    BY <1>6, <1>8
  <2> QED
    BY <1>6, <1>7, <1>9, <1>11, <2>1
<1>13. /\ TableOK(items', Born(scan))
       /\ \A i \in Id : /\ items'[i] = None <=> mv[i] = None
                        /\ mv[i] # None => items'[i].rel = mv[i].rel
                        /\ ~(i \in Unseen(scan) /\ ~scan.stop /\ mv[i].rel \notin Seen(scan))
                             => items'[i] = mv[i]
  BY <1>1, <1>3, <1>4, <1>11, <1>12, TombstonedFacts
<1>14. P \subseteq 1..Born(scan) /\ P \in SUBSET Id
  BY <1>3 DEF Scans
<1> HIDE DEF P
<1>15. ScanOK(scan', born') /\ scan'.pc = "defer"
  <2>1. Idle \in Scans /\ Idle.new = {} /\ Idle.fresh = {}
    <3>1. Born(scan) \in Nat
      BY <1>0, BornFacts DEF TableOK
    <3> QED
      BY <3>1, IdleOK DEF ScanOK, Idle
  <2>2. /\ scan' \in Scans /\ scan'.pc = "defer" /\ scan'.pending = P
        /\ scan'.new = {} /\ scan'.fresh = {}
    BY <1>1, <1>14, <2>1 DEF Scans
  <2> QED
    BY <1>1, <1>14, <2>2 DEF ScanOK
<1>16. ASSUME NEW i \in Id, items[i] # None PROVE FinishedRow(i)
  <2>0. i \notin New
    BY <1>2, <1>16
  <2>1. /\ rows[i] # None /\ rows[i].rel = items[i].rel
        /\ rows[i].status \in {items[i].status, "active"}
    BY <1>2, <1>7, <1>16, <2>0
  <2>2. CASE \E m \in moves : m[2] = i
    <3>1. mv[i] = None /\ i \in b.new
      BY <1>8, <1>11, <2>2
    <3>2. items'[i] = None /\ i \in scan.new
      BY <1>3, <1>13, <2>0, <3>1
    <3> QED
      BY <3>2 DEF FinishedRow
  <2>3. CASE \E m \in moves : m[1] = i
    <3>1. PICK m \in moves : m[1] = i
      BY <2>3
    <3>2. mv[i] = rows[m[2]] /\ mv[i] # None /\ mv[i].rel \in Seen(scan)
      BY <1>9, <1>11, <3>1
    <3>3. items'[i] = mv[i]
      BY <1>13, <3>2
    <3>4. ~scan.dark
      BY <1>0, <3>2 DEF WalkOK
    <3>5. i \in Unseen(scan) /\ ~scan.stop /\ Alike(scan.base[i], items'[i])
      BY <1>3, <1>8, <1>9, <3>1, <3>2, <3>3
    <3> QED
      BY <3>2, <3>3, <3>4, <3>5 DEF FinishedRow
  <2>4. CASE \A m \in moves : m[1] # i /\ m[2] # i
    <3>1. mv[i] = rows[i]
      BY <1>11, <2>4
    <3>2. items'[i] # None /\ items'[i].rel = items[i].rel
      BY <1>13, <2>1, <3>1
    <3>3. ASSUME ~(i \in Unseen(scan) /\ ~scan.stop)
          PROVE  items'[i].status \in {items[i].status, "active"}
      BY <1>13, <2>1, <3>1, <3>3
    <3> QED
      BY <3>2, <3>3 DEF FinishedRow
  <2> QED
    BY <2>2, <2>3, <2>4
<1> QED
  BY <1>1, <1>13, <1>15, <1>16

LEMMA FinishStep ==
  ASSUME ScanInv, Finish
  PROVE  ScanInv'
<1>1. WorldInv'
  BY DEF Finish, ScanInv, WorldInv, Live, Terminal
<1>2. TableOK(items, born)'
  BY FinishFacts DEF TableOK
<1>3. ScanOK(scan, born)' /\ scan'.pc = "defer"
  BY FinishFacts DEF ScanOK, Seen
<1> QED
  BY <1>1, <1>2, <1>3 DEF ScanInv

LEMMA NextInv ==
  ASSUME ScanInv, [Next]_vars
  PROVE  ScanInv'
<1>1. ASSUME NEW s \in Scopes, NEW force \in BOOLEAN, StartScan(s, force), Fault \/ UNCHANGED faults
      PROVE  ScanInv'
  <2>1. faults' \in 0..MaxFaults
    BY <1>1, ConstantsAssumption DEF Fault, ScanInv, WorldInv
  <2> QED
    BY <1>1, <2>1, StartStep
<1>2. Full \in Scopes /\ \A t \in Targets : t \in Scopes
  BY ConstantsAssumption DEF Full, Scopes
<1>3. CASE World
  BY <1>3, ChangeDiskStep, QuietSteps DEF World
<1>4. CASE ScheduledScan \/ ForcedScan \/ \E t \in Targets : TargetedScan(t)
  BY <1>1, <1>2, <1>4 DEF ScheduledScan, ForcedScan, TargetedScan
<1>5. CASE Walk
  BY <1>5, VisitStep, PassStep, SkipStep DEF Walk
<1>6. CASE Finish
  BY <1>6, FinishStep
<1>7. CASE DeferExtracts \/ ScanFails \/ WorkerDies
  BY <1>7, EndSteps
<1>8. CASE \/ Reap \/ MarkRun \/ RetryExtracts
           \/ \E what \in {"cancel", "stop"} : AskRun(what)
           \/ \E i \in Id : ExtractFails(i)
  BY <1>8, QuietSteps
<1>9. CASE \E i \in Id : Extract(i)
  BY <1>9, ExtractStep
<1>10. CASE UNCHANGED vars
  <2>1. WorldInv'
    BY <1>10 DEF ScanInv, WorldInv, vars
  <2> QED
    BY <1>10, <2>1, FrameStep DEF vars
<1> QED
  BY <1>3, <1>4, <1>5, <1>6, <1>7, <1>8, <1>9, <1>10 DEF Next

\* The inductive invariant: through stops, cancels, crashes, lost mounts and a
\* disk that changes under the walk, no row changes its path under a walk and
\* the walk passes over no file that stayed and that it could read.
THEOREM ScanInvariance == Spec => []ScanInv
<1> QED
  BY InitInv, NextInv, PTL DEF Spec

\* The type invariant of CatalogScan for any set of paths and any number of
\* rows, and with it the unique index on (library_id, rel_path) that batches,
\* moves and tombstones keep.
THEOREM ScanTypes == Spec => []TypeOK
<1>1. ScanInv => TypeOK
  <2> SUFFICES ASSUME ScanInv PROVE TypeOK
    OBVIOUS
  <2>1. scan.pc \in {"idle", "walk", "defer"}
    BY DEF ScanInv, ScanOK, Scans
  <2> QED
    BY <2>1 DEF ScanInv, WorldInv, TableOK, ScanOK, Seen, TypeOK
<1> QED
  BY <1>1, ScanInvariance, PTL

-----------------------------------------------------------------------------
(* What a step may do to a row. *)

\* A row in its place, with its status or active again.
KeptRow(i) ==
  /\ items'[i] # None /\ items'[i].rel = items[i].rel
  /\ items'[i].status \in {items[i].status, "active"}

\* Only the transaction at the end of a scan deletes, moves or tombstones.
LEMMA OnlyFinish ==
  ASSUME ScanInv, [Next]_vars, NEW i \in Id, items[i] # None, ~KeptRow(i)
  PROVE  Finish
<1>1. UNCHANGED items => KeptRow(i)
  BY DEF KeptRow
<1>2. ASSUME NEW p \in Path, Visit(p) PROVE KeptRow(i)
  <2>1. UNCHANGED items \/ PublishProgress(Visited(p))
    BY <1>2 DEF Visit, Visited
  <2>2. CASE PublishProgress(Visited(p))
    <3>1. PICK sc : sc = Visited(p)
      OBVIOUS
    <3>2. TableOK(items, born) /\ ScanOK(sc, born) /\ WalkOK(sc) /\ items' = Flushed(sc)
      BY <1>2, <2>2, <3>1, VisitFacts DEF PublishProgress, ScanInv
    <3>3. i \notin (born + 1)..Born(sc)
      BY <3>2, FlushedFacts
    <3> QED
      BY <3>2, <3>3, FlushedFacts DEF KeptRow
  <2> QED
    BY <1>1, <2>1, <2>2
<1>3. ASSUME NEW j \in Id, Extract(j) PROVE KeptRow(i)
  BY <1>3, ExtractFacts DEF KeptRow, ScanInv
<1>4. CASE World
  BY <1>1, <1>4 DEF World, ChangeDisk, MountFails, MountReturns
<1>5. CASE ScheduledScan \/ ForcedScan \/ \E t \in Targets : TargetedScan(t)
  BY <1>1, <1>5 DEF ScheduledScan, ForcedScan, TargetedScan, StartScan
<1>6. CASE Walk
  BY <1>1, <1>2, <1>6 DEF Walk, Pass, Skip
<1>7. CASE \/ DeferExtracts \/ ScanFails \/ WorkerDies \/ Reap \/ MarkRun \/ RetryExtracts
           \/ \E what \in {"cancel", "stop"} : AskRun(what)
           \/ \E j \in Id : ExtractFails(j)
  BY <1>1, <1>7 DEF DeferExtracts, ScanFails, WorkerDies, Reap, MarkRun, RetryExtracts,
                    AskRun, ExtractFails
<1>8. CASE UNCHANGED vars
  BY <1>1, <1>8 DEF vars
<1> QED
  BY <1>3, <1>4, <1>5, <1>6, <1>7, <1>8 DEF Next

\* At the end of a walk that was not stopped, an unseen row's file was away
\* or could not be read, or the walk saw an empty mountpoint and no guard applied.
LEMMA UnseenWasAway ==
  ASSUME ScanInv, Finish, NEW i \in Unseen(scan), ~scan.stop
  PROVE  /\ items[i].rel \notin scan.solid \/ items[i].rel \in scan.denied \/ scan.dark
         /\ scan.dark => scan.force \/ scan.scope.kind = "file"
<1>1. scan.todo = {} /\ ~EmptyTree(scan) /\ WalkOK(scan) /\ scan \in Scans
  BY DEF Finish, ScanInv, ScanOK
<1>2. /\ i \in Id /\ scan.base[i] # None /\ scan.base[i].status = "active"
      /\ scan.base[i].rel \in scan.scope.set /\ scan.base[i].rel \notin Seen(scan)
  BY DEF Unseen
<1>3. items[i].rel = scan.base[i].rel
  BY <1>1, <1>2 DEF WalkOK
<1>4. items[i].rel \notin scan.solid \/ items[i].rel \in scan.denied \/ scan.dark
  BY <1>1, <1>2, <1>3 DEF WalkOK
<1>5. ASSUME scan.dark PROVE scan.force \/ scan.scope.kind = "file"
  <2>1. Seen(scan) = {} /\ scan.scope.kind # "dir"
    BY <1>1, <1>5 DEF WalkOK
  <2>2. scan.scope.kind \in {"full", "file", "dir"}
    BY <1>1 DEF Scans, Scopes
  <2>3. scan.scope.kind = "full" => scan.force
    BY <1>1, <1>2, <2>1 DEF EmptyTree
  <2> QED
    BY <2>1, <2>2, <2>3
<1> QED
  BY <1>4, <1>5

\* Scans never tombstone a file that stayed where it was, whatever happens to
\* the disk, the mount, the worker and the run while the walk goes on.  What
\* the walk was not allowed to read is excepted, as in NoFalseTombstone.
THEOREM NoFalseTombstones == Spec => NoFalseTombstone
<1>1. ASSUME ScanInv, [Next]_vars, NEW i \in Id, items[i] # None, items'[i] # None,
             items[i].status = "active", items'[i].status = "missing"
      PROVE  \/ items[i].rel \notin scan.solid
             \/ items[i].rel \in scan.denied
             \/ scan.dark /\ (scan.force \/ scan.scope.kind = "file")
  <2>1. Finish
    BY <1>1, OnlyFinish DEF KeptRow
  <2>2. i \in Unseen(scan) /\ ~scan.stop
    BY <1>1, <2>1, FinishFacts DEF FinishedRow
  <2> QED
    BY <1>1, <2>1, <2>2, UnseenWasAway
<1>2. ScanInv /\ [Next]_vars
        => [\A i \in Id :
              /\ items[i] # None /\ items'[i] # None
              /\ items[i].status = "active" /\ items'[i].status = "missing"
              => \/ items[i].rel \notin scan.solid
                 \/ items[i].rel \in scan.denied
                 \/ scan.dark /\ (scan.force \/ scan.scope.kind = "file")]_vars
  BY <1>1
<1> QED
  BY <1>2, ScanInvariance, PTL DEF Spec, NoFalseTombstone

\* Scans keep identities: a deleted row was inserted by the same scan, and an
\* id that changes its path leaves a path whose file was away or skipped, for
\* a file of the same key that no content hash tells apart, whatever the depth
\* of the hashes and however samples collide.
THEOREM IdentitiesKept == Spec => IdentityKept
<1>1. ASSUME ScanInv, [Next]_vars, NEW i \in Id, items[i] # None
      PROVE  /\ items'[i] = None => i \in scan.new
             /\ items'[i] # None /\ items'[i].rel # items[i].rel
                  => /\ items[i].rel \notin scan.solid \/ items[i].rel \in scan.denied
                     /\ SameKey(scan.base[i], items'[i])
                     /\ None \in {scan.base[i].full, items'[i].full}
                          \/ scan.base[i].full = items'[i].full
  <2>1. CASE KeptRow(i)
    BY <2>1 DEF KeptRow
  <2>2. CASE ~KeptRow(i)
    <3>1. Finish
      BY <1>1, <2>2, OnlyFinish
    <3>2. FinishedRow(i)
      BY <1>1, <3>1, FinishFacts
    <3> QED
      BY <1>1, <3>1, <3>2, UnseenWasAway DEF FinishedRow, Alike
  <2> QED
    BY <2>1, <2>2
<1>2. ScanInv /\ [Next]_vars
        => [\A i \in Id :
              items[i] # None =>
                /\ items'[i] = None => i \in scan.new
                /\ items'[i] # None /\ items'[i].rel # items[i].rel
                     => /\ items[i].rel \notin scan.solid \/ items[i].rel \in scan.denied
                        /\ SameKey(scan.base[i], items'[i])
                        /\ None \in {scan.base[i].full, items'[i].full}
                             \/ scan.base[i].full = items'[i].full]_vars
  BY <1>1
<1> QED
  BY <1>2, ScanInvariance, PTL DEF Spec, IdentityKept
=============================================================================
