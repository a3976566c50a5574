------------------------- MODULE ReplicationProofs -------------------------
(***************************************************************************)
(* Proofs about Replication: first for any set of handlers, i.e. also when *)
(* an abandoned request is still being served while its retry runs; then   *)
(* for requests that do not overlap (at most one handler), when central    *)
(* shows, at every moment, exactly the catalog the agent had after the     *)
(* event the watermark names, and replication implements CatalogFollower.  *)
(***************************************************************************)
EXTENDS Replication, WellFoundedInduction, TLAPS

-----------------------------------------------------------------------------
(* Least and greatest naturals: they stand in for induction on sequence    *)
(* numbers.                                                                *)

\* A nonempty set of naturals has a least element.
LEMMA LeastNatural ==
    ASSUME NEW T, T \subseteq Nat, T # {}
    PROVE  \E m \in T : \A k \in T : m <= k
<1> DEFINE R == OpToRel(<, Nat)
<1>1. PICK m \in T : \A k \in T : ~(<<k, m>> \in R)
  <2>1. IsWellFoundedOn(R, Nat)
    BY NatLessThanWellFounded
  <2> HIDE DEF R
  <2> QED
    BY <2>1, WFMin
<1>2. ASSUME NEW k \in T PROVE m <= k
  <2>1. <<k, m>> \in Nat \X Nat
    OBVIOUS
  <2>2. ~(k < m)
    BY <1>1, <2>1 DEF OpToRel
  <2> QED
    BY <2>2
<1> QED
  BY <1>2

\* A nonempty set of naturals with an upper bound has a greatest element.
LEMMA GreatestNatural ==
    ASSUME NEW n \in Nat, NEW T, T \subseteq 0..n, T # {}
    PROVE  \E m \in T : \A k \in T : k <= m
<1> DEFINE U == {n - t : t \in T}
<1>1. U \subseteq Nat /\ U # {}
  OBVIOUS
<1>2. PICK u \in U : \A k \in U : u <= k
  BY <1>1, LeastNatural
<1>3. PICK m \in T : u = n - m
  OBVIOUS
<1>4. ASSUME NEW k \in T PROVE k <= m
  <2>1. n - m <= n - k
    BY <1>2, <1>3
  <2> QED
    BY <2>1
<1> QED
  BY <1>4

-----------------------------------------------------------------------------
(* The plan of a batch.                                                    *)

\* In a batch that touches p there is a last event that does: plan_upserts'
\* winner for p is well defined.
LEMMA WinnerExists ==
    ASSUME NEW l, NEW n \in Nat, NEW S, S \subseteq 1..n, NEW p \in TouchedBy(l, S)
    PROVE  /\ Winner(l, S, p) \in S
           /\ p \in Touched(l[Winner(l, S, p)])
           /\ \A t \in S : p \in Touched(l[t]) => t <= Winner(l, S, p)
<1> DEFINE T == {s \in S : p \in Touched(l[s])}
<1>1. T # {} /\ T \subseteq 0..n
  BY DEF TouchedBy
<1> HIDE DEF T
<1>2. PICK m \in T : \A k \in T : k <= m
  BY <1>1, GreatestNatural
<1>3. /\ m \in S
      /\ p \in Touched(l[m])
      /\ \A t \in S : p \in Touched(l[t]) => t <= m
  BY <1>2 DEF T
<1> QED
  BY <1>3 DEF Winner

\* What a plan says about a path is a value or a tombstone.
LEMMA PlanType ==
    ASSUME NEW l \in Seq(Event), NEW S, S \subseteq 1..Len(l), NEW p \in TouchedBy(l, S)
    PROVE  Plan(l, S, p) \in Val \cup {None}
<1>1. Len(l) \in Nat
  OBVIOUS
<1>2. Winner(l, S, p) \in 1..Len(l)
  BY <1>1, WinnerExists
<1>3. l[Winner(l, S, p)] \in Event
  BY <1>2
<1> QED
  BY <1>3 DEF Plan, Effect, Event

\* Applying a batch to well-formed rows leaves well-formed rows.
LEMMA AppliedType ==
    ASSUME TypeOK, NEW S, S \subseteq 1..Len(log), NEW base \in [Path -> Row]
    PROVE  Applied(S, base) \in [Path -> Row]
<1> SUFFICES ASSUME NEW p \in Path, p \in TouchedBy(log, S)
             PROVE  Flush(items[p], base[p], Target(S, p, base[p])) \in Row
  BY DEF Applied, TypeOK
<1>1. Plan(log, S, p) \in Val \cup {None}
  BY PlanType DEF TypeOK
<1>2. Target(S, p, base[p]) \in Row
  BY <1>1 DEF Target, Row
<1> QED
  BY <1>2 DEF Flush, Row, TypeOK

-----------------------------------------------------------------------------
(* Initial states.                                                         *)

LEMMA IdleType == Idle \in Request /\ NoRows \in [Path -> Row] /\ NoRow \in Row
<1>1. NoRow \in Row
  BY DEF Row, NoRow
<1>2. NoRows \in [Path -> Row]
  BY <1>1 DEF NoRows
<1> QED
  BY <1>1, <1>2 DEF Request, Idle

LEMMA InitInv == Init => IndInv
<1> SUFFICES ASSUME Init PROVE IndInv
  OBVIOUS
<1>1. log \in Seq(Event) /\ Len(log) = 0 /\ 1..Len(log) = {}
  BY DEF Init
<1>2. items \in [Path -> Row] /\ req \in [Handlers -> Request]
  BY IdleType DEF Init
<1>3. TypeOK
  BY <1>1, <1>2 DEF Init, TypeOK
<1>4. OutboxShape /\ WatermarkCovered /\ SentWasApplied
  BY <1>1 DEF Init, OutboxShape, WatermarkCovered, SentWasApplied, Unsent
<1>5. ExchangeInv
  BY NoneAssumption DEF Init, ExchangeInv, Idle
<1> QED
  BY <1>3, <1>4, <1>5 DEF IndInv

-----------------------------------------------------------------------------
(* The agent's writes.                                                     *)

LEMMA WriteInv ==
    ASSUME IndInv, NEW e \in Event, Write(e), local' \in [Path -> Val \cup {None}]
    PROVE  IndInv'
<1> DEFINE n == Len(log)
<1>0. TypeOK /\ OutboxShape /\ WatermarkCovered /\ SentWasApplied /\ ExchangeInv
  BY DEF IndInv
<1>1. log' \in Seq(Event) /\ Len(log') = n + 1 /\ n \in Nat
  BY <1>0 DEF TypeOK, Write
<1>2. 1..Len(log') = 1..n \cup {n + 1} /\ n + 1 \notin 1..n
  BY <1>1
<1>3. UNCHANGED <<sent, awaited, armed, outage, raised, req, items, last, ledger>>
  BY DEF Write, drainVars, centralVars
<1>4. rows' = rows \cup {n + 1}
  BY DEF Write
<1>5. Unsent' = Unsent \cup {n + 1}
  BY <1>0, <1>2, <1>3, <1>4 DEF Unsent, TypeOK
<1>6. TypeOK'
  BY <1>0, <1>1, <1>2, <1>3, <1>4 DEF TypeOK
<1>7. OutboxShape'
  BY <1>0, <1>1, <1>3, <1>4 DEF TypeOK, OutboxShape
<1>8. WatermarkCovered' /\ SentWasApplied'
  BY <1>0, <1>2, <1>3, <1>5 DEF WatermarkCovered, SentWasApplied
<1>9. ExchangeInv'
  BY <1>0, <1>1, <1>3, <1>5 DEF ExchangeInv, TypeOK, Request
<1> QED
  BY <1>6, <1>7, <1>8, <1>9 DEF IndInv

LEMMA ScanInv == IndInv /\ Scan => IndInv'
<1> SUFFICES ASSUME IndInv, NEW p \in Path,
                    \/ \E v \in Val : Upsert(p, v)
                    \/ Tombstone(p)
                    \/ \E q \in Path : Move(p, q)
             PROVE  IndInv'
  BY DEF Scan
<1>0. local \in [Path -> Val \cup {None}]
  BY DEF IndInv, TypeOK
<1>1. ASSUME NEW v \in Val, Upsert(p, v) PROVE IndInv'
  BY <1>0, <1>1, WriteInv DEF Upsert, Event
<1>2. ASSUME Tombstone(p) PROVE IndInv'
  BY <1>0, <1>2, WriteInv DEF Tombstone, Event
<1>3. ASSUME NEW q \in Path, Move(p, q) PROVE IndInv'
  BY <1>0, <1>3, WriteInv DEF Move, Event
<1> QED
  BY <1>1, <1>2, <1>3
-----------------------------------------------------------------------------
(* The drain.                                                              *)

\* A posted batch is a contiguous stretch: the retained rows are a suffix of
\* the log and the unsent ones a suffix of them.
LEMMA HeadIsContiguous ==
    ASSUME TypeOK, OutboxShape, NEW lo \in Unsent, NEW hi \in Unsent,
           \A s \in Unsent : lo <= s
    PROVE  /\ lo \in 1..hi
           /\ hi <= Len(log)
           /\ {s \in Unsent : s <= hi} = lo..hi
<1>1. Len(log) \in Nat /\ rows \subseteq 1..Len(log)
  BY DEF TypeOK
<1>2. lo \in 1..Len(log) /\ hi \in 1..Len(log) /\ lo <= hi
  BY <1>1 DEF Unsent
<1>3. ASSUME NEW x \in lo..hi PROVE x \in Unsent
  <2>1. x \in rows
    BY <1>1, <1>2 DEF OutboxShape, Unsent
  <2>2. x \notin sent
    BY <1>2, <2>1 DEF OutboxShape, Unsent
  <2> QED
    BY <2>1, <2>2 DEF Unsent
<1>4. ASSUME NEW x \in Unsent, x <= hi PROVE x \in lo..hi
  BY <1>1, <1>2, <1>4 DEF Unsent
<1>5. {s \in Unsent : s <= hi} = lo..hi
  <2>1. {s \in Unsent : s <= hi} \subseteq lo..hi
    BY <1>4
  <2>2. ASSUME NEW x \in lo..hi PROVE x \in Unsent /\ x <= hi
    BY <1>2, <1>3
  <2> QED
    BY <2>1, <2>2
<1> QED
  BY <1>2, <1>5

LEMMA PostInv == ASSUME IndInv, NEW h \in Handlers, Post(h) PROVE IndInv'
<1>0. TypeOK /\ OutboxShape /\ WatermarkCovered /\ SentWasApplied /\ ExchangeInv
  BY DEF IndInv
<1>1. PICK lo, hi \in Unsent :
        /\ \A s \in Unsent : lo <= s
        /\ req' = [req EXCEPT ![h] = [Idle EXCEPT !.st = "received",
                                                 !.first = lo,
                                                 !.final = hi,
                                                 !.seqs = {s \in Unsent : s <= hi}]]
  BY DEF Post
<1>2. /\ lo \in 1..hi
      /\ hi <= Len(log)
      /\ {s \in Unsent : s <= hi} = lo..hi
  BY <1>0, <1>1, HeadIsContiguous
<1>3. lo \in Nat /\ hi \in Nat /\ Len(log) \in Nat
  BY <1>0 DEF TypeOK, Unsent
<1> DEFINE r == [Idle EXCEPT !.st = "received", !.first = lo, !.final = hi,
                             !.seqs = lo..hi]
<1>4. r \in Request
  <2>1. lo..hi \in SUBSET Nat
    BY <1>3
  <2> QED
    BY <1>3, <2>1, IdleType DEF Request, Idle
<1>5. r.st = "received" /\ r.first = lo /\ r.final = hi /\ r.seqs = lo..hi
  BY DEF Idle
<1> HIDE DEF r
<1>6. /\ awaited' = h
      /\ awaited = None
      /\ UNCHANGED <<local, log, rows, sent, armed, outage, raised, items, last, ledger>>
      /\ Unsent' = Unsent
  BY DEF Post, agentVars, centralVars, Unsent
<1>7. req' = [req EXCEPT ![h] = r]
  BY <1>1, <1>2 DEF r
<1>8. TypeOK'
  BY <1>0, <1>4, <1>6, <1>7 DEF TypeOK
<1>9. ExchangeInv'
  <2>1. \A g \in Handlers : req'[g] = IF g = h THEN r ELSE req[g]
    BY <1>0, <1>7 DEF TypeOK
  <2>2. \A g \in Handlers : req[g].st # "replied"
    BY <1>0, <1>6, NoneAssumption DEF ExchangeInv
  <2>3. req'[awaited'].st # "idle"
    BY <1>5, <1>6, <2>1
  <2>4. ASSUME NEW g \in Handlers, g # h
        PROVE  req'[g] = req[g] /\ g # awaited' /\ req'[g].st # "replied"
    BY <1>6, <2>1, <2>2, <2>4
  <2>5. req'[h] = r
    BY <2>1
  <2> QED
    BY <1>0, <1>1, <1>2, <1>5, <1>6, <2>3, <2>4, <2>5 DEF ExchangeInv
<1> QED
  BY <1>0, <1>6, <1>8, <1>9
     DEF IndInv, OutboxShape, WatermarkCovered, SentWasApplied

\* The awaited request is answered (or given up) and its slot is free again:
\* the other handlers' requests stay as they were.
LEMMA ReleaseInv ==
    ASSUME TypeOK, ExchangeInv, NEW h \in Handlers, awaited = h,
           req' = [req EXCEPT ![h] = Idle], awaited' = None,
           UNCHANGED <<log, ledger>>
    PROVE  ExchangeInv' /\ req' \in [Handlers -> Request]
<1>1. \A g \in Handlers : req'[g] = IF g = h THEN Idle ELSE req[g]
  BY DEF TypeOK
<1>2. \A g \in Handlers : g # awaited'
  BY NoneAssumption
<1> QED
  BY <1>1, <1>2, IdleType DEF ExchangeInv, TypeOK, Idle

LEMMA MarkSentInv == ASSUME IndInv, NEW h \in Handlers, MarkSent(h) PROVE IndInv'
<1>0. TypeOK /\ OutboxShape /\ WatermarkCovered /\ SentWasApplied /\ ExchangeInv
  BY DEF IndInv
<1> DEFINE span == req[h].first .. req[h].final
<1>1. /\ UNCHANGED <<local, log, rows, items, last, ledger>>
      /\ sent' = sent \cup (rows \cap span)
      /\ awaited = h /\ awaited' = None
      /\ req' = [req EXCEPT ![h] = Idle]
      /\ armed' = TRUE /\ outage' = FALSE
      /\ raised' = raised \/ raised' = raised \cup {"reconnected"}
  BY DEF MarkSent, Contact, centralVars
<1>2. /\ span \subseteq ledger
      /\ req[h].first \in Nat /\ req[h].final \in Nat
      /\ \A s \in Unsent : req[h].first <= s
  BY <1>0 DEF MarkSent, ExchangeInv, TypeOK, Request
<1>3. ExchangeInv' /\ req' \in [Handlers -> Request]
  BY <1>0, <1>1, ReleaseInv
<1>4. TypeOK'
  BY <1>0, <1>1, <1>3 DEF TypeOK, Signals
<1>5. OutboxShape'
  <2>1. \A s \in rows' : s..Len(log') \subseteq rows'
    BY <1>0, <1>1 DEF OutboxShape
  <2>2. ASSUME NEW s \in sent', NEW t \in rows', t < s PROVE t \in sent'
    <3>1. CASE s \in sent
      BY <1>0, <1>1, <2>2, <3>1 DEF OutboxShape
    <3>2. CASE s \notin sent /\ t \notin sent
      <4>1. s \in span /\ t \in Unsent /\ t \in Nat
        BY <1>0, <1>1, <3>2 DEF Unsent, TypeOK
      <4>2. t \in span
        BY <1>2, <2>2, <4>1
      <4> QED
        BY <1>1, <4>2
    <3> QED
      BY <1>1, <3>1, <3>2
  <2> QED
    BY <2>1, <2>2 DEF OutboxShape
<1>6. SentWasApplied'
  BY <1>0, <1>1, <1>2 DEF SentWasApplied, Unsent, TypeOK
<1> QED
  BY <1>0, <1>1, <1>3, <1>4, <1>5, <1>6 DEF IndInv, WatermarkCovered

\* Moving the cursor to e leaves sent exactly the retained rows below e.
LEMMA CursorCut ==
    ASSUME TypeOK, NEW e \in Nat
    PROVE  (sent \cup Forwarded(e)) \ Rewound(e) = {s \in rows : s < e}
<1>1. rows \subseteq Nat /\ sent \subseteq rows
  BY DEF TypeOK
<1>2. ASSUME NEW s \in rows
      PROVE  s \in (sent \cup Forwarded(e)) \ Rewound(e) <=> s < e
  BY <1>1 DEF Forwarded, Rewound, Unsent
<1>3. (sent \cup Forwarded(e)) \ Rewound(e) \subseteq rows
  BY <1>1 DEF Forwarded, Unsent
<1> QED
  BY <1>2, <1>3

LEMMA SetCursorInv == ASSUME IndInv, NEW h \in Handlers, SetCursor(h) PROVE IndInv'
<1>0. TypeOK /\ OutboxShape /\ WatermarkCovered /\ SentWasApplied /\ ExchangeInv
  BY DEF IndInv
<1> DEFINE e == req[h].expected
<1>1. e \in Nat /\ e # 0 /\ 1..(e - 1) \subseteq ledger
  BY <1>0 DEF SetCursor, ExchangeInv, TypeOK, Request
<1> HIDE DEF e
<1>2. /\ UNCHANGED <<local, log, rows, items, last, ledger>>
      /\ awaited = h /\ awaited' = None
      /\ req' = [req EXCEPT ![h] = Idle]
      /\ sent' = (sent \cup Forwarded(e)) \ Rewound(e)
  BY DEF SetCursor, centralVars, e
<1>3. armed' \in BOOLEAN /\ outage' \in BOOLEAN /\ raised' \subseteq Signals
  BY <1>0 DEF SetCursor, Contact, Failed, TypeOK, Signals
<1>4. sent' = {s \in rows : s < e}
  BY <1>0, <1>1, <1>2, CursorCut
<1>5. ExchangeInv' /\ req' \in [Handlers -> Request]
  BY <1>0, <1>2, ReleaseInv
<1>6. TypeOK'
  BY <1>0, <1>2, <1>3, <1>4, <1>5 DEF TypeOK
<1>7. OutboxShape'
  <2>1. rows \subseteq Nat
    BY <1>0 DEF TypeOK
  <2> QED
    BY <1>0, <1>1, <1>2, <1>4, <2>1 DEF OutboxShape
<1>8. SentWasApplied'
  <2>1. ASSUME NEW s \in 1..Len(log), s \notin Unsent' PROVE s \in ledger
    <3>1. CASE s < e
      BY <1>1, <3>1
    <3>2. CASE ~(s < e)
      BY <1>0, <1>2, <1>4, <2>1, <3>2 DEF Unsent, SentWasApplied
    <3> QED
      BY <3>1, <3>2
  <2> QED
    BY <1>2, <2>1 DEF SentWasApplied
<1> QED
  BY <1>0, <1>2, <1>5, <1>6, <1>7, <1>8 DEF IndInv, WatermarkCovered

\* Giving up on the awaited request.
LEMMA AbandonInv ==
    ASSUME TypeOK, ExchangeInv, NEW h \in Handlers, awaited = h,
           Abandon(h), awaited' = None, UNCHANGED <<log, ledger>>
    PROVE  ExchangeInv' /\ req' \in [Handlers -> Request]
<1>1. CASE req[h].st = "replied"
  BY <1>1, ReleaseInv DEF Abandon
<1>2. CASE req[h].st # "replied"
  <2>1. req' = req
    BY <1>2 DEF Abandon
  <2>2. \A g \in Handlers : g # awaited' /\ req[g].st # "replied"
    BY <1>2, NoneAssumption DEF ExchangeInv
  <2> QED
    BY <2>1, <2>2 DEF ExchangeInv, TypeOK
<1> QED
  BY <1>1, <1>2

LEMMA GiveUpInv ==
    ASSUME IndInv, NEW h \in Handlers, BackOff(h) \/ Timeout(h)
    PROVE  IndInv'
<1>0. TypeOK /\ OutboxShape /\ WatermarkCovered /\ SentWasApplied /\ ExchangeInv
  BY DEF IndInv
<1>1. /\ UNCHANGED <<local, log, rows, sent, armed, raised, items, last, ledger>>
      /\ awaited = h /\ awaited' = None
      /\ outage' = TRUE
  BY DEF BackOff, Timeout, Failed, agentVars, centralVars
<1>2. ExchangeInv' /\ req' \in [Handlers -> Request]
  <2>1. CASE BackOff(h)
    BY <1>0, <1>1, <2>1, ReleaseInv DEF BackOff
  <2>2. CASE Timeout(h)
    BY <1>0, <1>1, <2>2, AbandonInv DEF Timeout
  <2> QED
    BY <2>1, <2>2
<1>3. TypeOK'
  BY <1>0, <1>1, <1>2 DEF TypeOK
<1> QED
  BY <1>0, <1>1, <1>2, <1>3
     DEF IndInv, OutboxShape, WatermarkCovered, SentWasApplied, Unsent

LEMMA RestartInv == ASSUME IndInv, Restart PROVE IndInv'
<1>0. TypeOK /\ OutboxShape /\ WatermarkCovered /\ SentWasApplied /\ ExchangeInv
  BY DEF IndInv
<1>1. /\ UNCHANGED <<local, log, rows, sent, items, last, ledger>>
      /\ awaited' = None
      /\ armed' = TRUE /\ outage' = FALSE /\ raised' = {}
  BY DEF Restart, agentVars, centralVars
<1>2. ExchangeInv' /\ req' \in [Handlers -> Request]
  <2>1. CASE awaited = None
    BY <1>0, <1>1, <2>1 DEF Restart, ExchangeInv, TypeOK, Unsent
  <2>2. CASE awaited # None
    BY <1>0, <1>1, <2>2, AbandonInv DEF Restart, TypeOK
  <2> QED
    BY <2>1, <2>2
<1>3. TypeOK'
  BY <1>0, <1>1, <1>2 DEF TypeOK
<1> QED
  BY <1>0, <1>1, <1>2, <1>3
     DEF IndInv, OutboxShape, WatermarkCovered, SentWasApplied, Unsent

LEMMA PruneSentInv == ASSUME IndInv, NEW k \in rows, PruneSent(k) PROVE IndInv'
<1>0. TypeOK /\ OutboxShape /\ WatermarkCovered /\ SentWasApplied /\ ExchangeInv
  BY DEF IndInv
<1>1. /\ UNCHANGED <<local, log, awaited, armed, outage, raised, req, items, last, ledger>>
      /\ rows' = rows \ {s \in sent : s <= k /\ \E t \in rows : s < t}
      /\ sent' = sent \cap rows'
  BY DEF PruneSent, drainVars, centralVars
<1>2. Unsent' = Unsent
  BY <1>1 DEF Unsent
<1>3. TypeOK'
  BY <1>0, <1>1 DEF TypeOK
<1>4. OutboxShape'
  <2>1. ASSUME NEW s \in rows', NEW t \in s..Len(log') PROVE t \in rows'
    <3>1. s \in 1..Len(log) /\ Len(log) \in Nat /\ k \in Nat /\ t \in rows
      BY <1>0, <1>1 DEF OutboxShape, TypeOK
    <3>2. CASE t = s
      BY <3>2
    <3>3. CASE t # s
      <4>1. s < t
        BY <3>1, <3>3
      <4>2. ASSUME t \in sent, t <= k PROVE FALSE
        <5>1. s \in sent /\ s <= k
          BY <1>0, <1>1, <3>1, <4>1, <4>2 DEF OutboxShape
        <5> QED
          BY <1>1, <3>1, <4>1, <5>1
      <4> QED
        BY <1>1, <3>1, <4>2
    <3> QED
      BY <3>2, <3>3
  <2>2. \A s \in sent' : \A t \in rows' : t < s => t \in sent'
    BY <1>0, <1>1 DEF OutboxShape
  <2> QED
    BY <2>1, <2>2 DEF OutboxShape
<1> QED
  BY <1>0, <1>1, <1>2, <1>3, <1>4
     DEF IndInv, WatermarkCovered, SentWasApplied, ExchangeInv

-----------------------------------------------------------------------------
(* Central.                                                                *)

\* A handler answers: the answer has to be true of the ledger it leaves.
LEMMA ReplyInv ==
    ASSUME TypeOK, ExchangeInv, NEW h \in Handlers, req[h].st # "idle",
           NEW c \in {"200", "409", "error"}, NEW e \in Nat, Reply(h, c, e),
           UNCHANGED <<log, rows, sent, awaited>>, ledger \subseteq ledger',
           c = "200" => req[h].seqs \subseteq ledger',
           c = "409" => e \notin {0, req[h].first} /\ 1..(e - 1) \subseteq ledger'
    PROVE  ExchangeInv' /\ req' \in [Handlers -> Request]
<1> DEFINE r == [Idle EXCEPT !.st = "replied", !.first = req[h].first,
                             !.final = req[h].final, !.seqs = req[h].seqs,
                             !.code = c, !.expected = e]
<1>1. r \in Request
  BY IdleType DEF TypeOK, Request, Idle
<1>2. /\ r.st = "replied" /\ r.first = req[h].first /\ r.final = req[h].final
      /\ r.seqs = req[h].seqs /\ r.code = c /\ r.expected = e
  BY DEF Idle
<1>3. req' = [req EXCEPT ![h] = IF h = awaited THEN r ELSE Idle]
  BY DEF Reply
<1> HIDE DEF r
<1>4. req' \in [Handlers -> Request]
  BY <1>1, <1>3, IdleType DEF TypeOK
<1>5. /\ req'[h] = IF h = awaited THEN r ELSE Idle
      /\ \A g \in Handlers \ {h} : req'[g] = req[g]
  BY <1>3 DEF TypeOK
<1>6. Unsent' = Unsent
  BY DEF Unsent
<1>7. awaited' # None => req'[awaited'].st # "idle"
  BY <1>2, <1>5 DEF ExchangeInv, TypeOK
<1>8. Idle.st = "idle"
  BY DEF Idle
<1> QED
  BY <1>2, <1>4, <1>5, <1>6, <1>7, <1>8 DEF ExchangeInv

\* A handler moves on without answering.
LEMMA CheckInv == ASSUME IndInv, NEW h \in Handlers, Check(h) PROVE IndInv'
<1>0. TypeOK /\ OutboxShape /\ WatermarkCovered /\ SentWasApplied /\ ExchangeInv
  BY DEF IndInv
<1>1. /\ UNCHANGED <<local, log, rows, sent, awaited, armed, outage, raised,
                     items, last, ledger>>
      /\ Unsent' = Unsent
  BY DEF Check, agentVars, drainVars, centralVars, Unsent
<1>2. /\ req[h].st = "received"
      /\ req[h].first \in Nat /\ last \in Nat
      /\ req[h].first..req[h].final \subseteq req[h].seqs
  BY <1>0 DEF Check, TypeOK, Request, ExchangeInv
<1>3. ExchangeInv' /\ req' \in [Handlers -> Request]
  <2>1. CASE req[h].first # last + 1
    <3>1. CheckBatch(req[h], last) = last + 1
      BY <2>1 DEF CheckBatch
    <3>2. Reply(h, "409", last + 1)
      BY <1>2, <3>1 DEF Check
    <3>3. 1..((last + 1) - 1) \subseteq ledger' /\ last + 1 \notin {0, req[h].first}
      BY <1>0, <1>1, <1>2, <2>1 DEF WatermarkCovered
    <3> QED
      BY <1>0, <1>1, <1>2, <3>2, <3>3, ReplyInv
  <2>2. CASE req[h].first = last + 1
    <3>1. CheckBatch(req[h], last) = 0
      BY <1>2, <2>2 DEF CheckBatch
    <3>2. req' = [req EXCEPT ![h].st = "accepted", ![h].seen = last]
      BY <3>1 DEF Check
    <3>3. req' \in [Handlers -> Request]
      <4>1. req[h] \in Request
        BY <1>0 DEF TypeOK
      <4>2. [req[h] EXCEPT !.st = "accepted", !.seen = last] \in Request
        BY <1>2, <4>1 DEF Request
      <4>3. req' = [req EXCEPT ![h] = [req[h] EXCEPT !.st = "accepted", !.seen = last]]
        BY <1>0, <3>2 DEF TypeOK
      <4> QED
        BY <1>0, <4>2, <4>3 DEF TypeOK
    <3>4. /\ req'[h].st = "accepted" /\ req'[h].seen = last
          /\ req'[h].first = req[h].first /\ req'[h].final = req[h].final
          /\ req'[h].seqs = req[h].seqs
          /\ \A g \in Handlers \ {h} : req'[g] = req[g]
      BY <1>0, <3>2 DEF TypeOK, Request
    <3>5. awaited' # None => req'[awaited'].st # "idle"
      BY <1>0, <1>1, <3>4 DEF ExchangeInv, TypeOK
    <3> QED
      BY <1>0, <1>1, <1>2, <2>2, <3>3, <3>4, <3>5 DEF ExchangeInv, WatermarkCovered
  <2> QED
    BY <2>1, <2>2
<1>4. TypeOK'
  BY <1>0, <1>1, <1>3 DEF TypeOK
<1> QED
  BY <1>0, <1>1, <1>3, <1>4
     DEF IndInv, OutboxShape, WatermarkCovered, SentWasApplied

LEMMA LoadInv == ASSUME IndInv, NEW h \in Handlers, Load(h) PROVE IndInv'
<1>0. TypeOK /\ OutboxShape /\ WatermarkCovered /\ SentWasApplied /\ ExchangeInv
  BY DEF IndInv
<1>1. /\ UNCHANGED <<local, log, rows, sent, awaited, armed, outage, raised,
                     items, last, ledger>>
      /\ Unsent' = Unsent
  BY DEF Load, agentVars, drainVars, centralVars, Unsent
<1> DEFINE base == [p \in Path |->
                      IF p \in TouchedBy(log, req[h].seqs) THEN items[p] ELSE NoRow]
<1>2. base \in [Path -> Row]
  BY <1>0, IdleType DEF TypeOK
<1>3. req[h].st = "accepted" /\ req' = [req EXCEPT ![h].st = "loaded", ![h].base = base]
  BY DEF Load
<1> HIDE DEF base
<1>4. req' \in [Handlers -> Request]
  <2>1. req[h] \in Request
    BY <1>0 DEF TypeOK
  <2>2. [req[h] EXCEPT !.st = "loaded", !.base = base] \in Request
    BY <1>2, <2>1 DEF Request
  <2>3. req' = [req EXCEPT ![h] = [req[h] EXCEPT !.st = "loaded", !.base = base]]
    BY <1>0, <1>3 DEF TypeOK
  <2> QED
    BY <1>0, <2>2, <2>3 DEF TypeOK
<1>5. /\ req'[h].st = "loaded" /\ req'[h].seen = req[h].seen
      /\ req'[h].first = req[h].first /\ req'[h].final = req[h].final
      /\ req'[h].seqs = req[h].seqs
      /\ \A g \in Handlers \ {h} : req'[g] = req[g]
  BY <1>0, <1>3 DEF TypeOK, Request
<1>6. awaited' # None => req'[awaited'].st # "idle"
  BY <1>0, <1>1, <1>5 DEF ExchangeInv, TypeOK
<1>7. ExchangeInv'
  <2>1. ASSUME NEW g \in Handlers, g # h
        PROVE  req'[g] = req[g]
    BY <1>5, <2>1
  <2>2. /\ req[h].first \in 1..req[h].final
        /\ req[h].final <= Len(log)
        /\ req[h].seqs = req[h].first .. req[h].final
        /\ h = awaited => /\ {req[h].first, req[h].final} \subseteq Unsent
                          /\ \A s \in Unsent : req[h].first <= s
        /\ req[h].seen + 1 = req[h].first
        /\ 1..req[h].seen \subseteq ledger
    BY <1>0, <1>3 DEF ExchangeInv
  <2> QED
    BY <1>0, <1>1, <1>5, <1>6, <2>1, <2>2 DEF ExchangeInv
<1>8. TypeOK'
  BY <1>0, <1>1, <1>4 DEF TypeOK
<1> QED
  BY <1>0, <1>1, <1>7, <1>8
     DEF IndInv, OutboxShape, WatermarkCovered, SentWasApplied

LEMMA RefuseInv == ASSUME IndInv, NEW h \in Handlers, Refuse(h) PROVE IndInv'
<1>0. TypeOK /\ OutboxShape /\ WatermarkCovered /\ SentWasApplied /\ ExchangeInv
  BY DEF IndInv
<1>1. /\ UNCHANGED <<local, log, rows, sent, awaited, armed, outage, raised,
                     items, last, ledger>>
      /\ Unsent' = Unsent
  BY DEF Refuse, agentVars, drainVars, centralVars, Unsent
<1>2. req[h].st # "idle" /\ Reply(h, "error", 0)
  BY DEF Refuse
<1>3. ExchangeInv' /\ req' \in [Handlers -> Request]
  BY <1>0, <1>1, <1>2, ReplyInv
<1>4. TypeOK'
  BY <1>0, <1>1, <1>3 DEF TypeOK
<1> QED
  BY <1>0, <1>1, <1>3, <1>4
     DEF IndInv, OutboxShape, WatermarkCovered, SentWasApplied

LEMMA CommitInv == ASSUME IndInv, NEW h \in Handlers, Commit(h) PROVE IndInv'
<1>0. TypeOK /\ OutboxShape /\ WatermarkCovered /\ SentWasApplied /\ ExchangeInv
  BY DEF IndInv
<1>1. /\ UNCHANGED <<local, log, rows, sent, awaited, armed, outage, raised>>
      /\ Unsent' = Unsent
  BY DEF Commit, agentVars, drainVars, Unsent
<1> DEFINE r == req[h]
<1>2. /\ r.st = "loaded"
      /\ r.seqs = r.first..r.final /\ r.final <= Len(log) /\ r.first \in 1..r.final
      /\ r.seen + 1 = r.first /\ 1..r.seen \subseteq ledger
      /\ r.first \in Nat /\ r.final \in Nat /\ r.seen \in Nat /\ Len(log) \in Nat
      /\ r.base \in [Path -> Row]
  BY <1>0 DEF Commit, TypeOK, Request, ExchangeInv
<1>3. CASE Conflict(r.seqs, r.base)
  <2>1. Reply(h, "error", 0) /\ UNCHANGED <<items, last, ledger>>
    BY <1>3 DEF Commit, centralVars
  <2>2. ExchangeInv' /\ req' \in [Handlers -> Request]
    BY <1>0, <1>1, <1>2, <2>1, ReplyInv
  <2>3. TypeOK'
    BY <1>0, <1>1, <2>1, <2>2 DEF TypeOK
  <2> QED
    BY <1>0, <1>1, <2>1, <2>2, <2>3
       DEF IndInv, OutboxShape, WatermarkCovered, SentWasApplied
<1>4. CASE ~Conflict(r.seqs, r.base)
  <2>1. /\ items' = Applied(r.seqs, r.base)
        /\ ledger' = ledger \cup r.seqs
        /\ last' = Advance(r)
        /\ Reply(h, "200", 0)
    BY <1>4 DEF Commit
  <2>2. last' = r.final
    BY <1>2, <2>1 DEF Advance
  <2>3. r.seqs \subseteq 1..Len(log)
    BY <1>2
  <2>4. items' \in [Path -> Row]
    BY <1>0, <1>2, <2>1, <2>3, AppliedType
  <2>5. ExchangeInv' /\ req' \in [Handlers -> Request]
    BY <1>0, <1>1, <1>2, <2>1, ReplyInv
  <2>6. TypeOK'
    BY <1>0, <1>1, <1>2, <2>1, <2>2, <2>3, <2>4, <2>5 DEF TypeOK
  <2>7. WatermarkCovered'
    <3>1. 1..r.final \subseteq 1..r.seen \cup r.seqs
      BY <1>2
    <3> QED
      BY <1>2, <2>1, <2>2, <3>1 DEF WatermarkCovered
  <2> QED
    BY <1>0, <1>1, <2>1, <2>5, <2>6, <2>7 DEF IndInv, OutboxShape, SentWasApplied
<1> QED
  BY <1>3, <1>4

-----------------------------------------------------------------------------
(* The theorems.                                                           *)

LEMMA StepInv == IndInv /\ [Next]_vars => IndInv'
<1> SUFFICES ASSUME IndInv, [Next]_vars PROVE IndInv'
  OBVIOUS
<1>1. CASE Scan
  BY <1>1, ScanInv
<1>2. CASE Restart
  BY <1>2, RestartInv
<1>3. ASSUME NEW k \in rows, PruneSent(k) PROVE IndInv'
  BY <1>3, PruneSentInv
<1>4. ASSUME NEW h \in Handlers,
             \/ Post(h) \/ MarkSent(h) \/ SetCursor(h) \/ BackOff(h) \/ Timeout(h)
             \/ Check(h) \/ Load(h) \/ Commit(h) \/ Refuse(h)
      PROVE  IndInv'
  BY <1>4, PostInv, MarkSentInv, SetCursorInv, GiveUpInv, CheckInv, LoadInv,
     CommitInv, RefuseInv
<1>5. CASE UNCHANGED vars
  BY <1>5 DEF vars, IndInv, TypeOK, OutboxShape, WatermarkCovered, SentWasApplied,
     ExchangeInv, Unsent
<1> QED
  BY <1>1, <1>2, <1>3, <1>4, <1>5 DEF Next

\* The invariant holds in every reachable state of the specification.
THEOREM Invariance == Spec => []IndInv
<1>1. Init => IndInv
  BY InitInv
<1>2. IndInv /\ [Next]_vars => IndInv'
  BY StepInv
<1> QED
  BY <1>1, <1>2, PTL DEF Spec

\* Every variable keeps its type.
THEOREM TypeCorrect == Spec => []TypeOK
<1>1. IndInv => TypeOK
  BY DEF IndInv
<1> QED
  BY <1>1, Invariance, PTL

\* The outbox stays gap-free: what is retained is a suffix of what was written
\* and what is sent is the older part of it (outbox.go).
THEOREM OutboxStaysGapFree == Spec => []OutboxShape
<1>1. IndInv => OutboxShape
  BY DEF IndInv
<1> QED
  BY <1>1, Invariance, PTL

\* No event leaves the drain before central has committed it, for any number
\* of overlapping handlers (replicator.go, block-don't-drop).
THEOREM NothingIsDropped == Spec => []SentWasApplied
<1>1. IndInv => SentWasApplied
  BY DEF IndInv
<1> QED
  BY <1>1, Invariance, PTL

\* The watermark never covers an event that was not applied, although
\* apply_batch writes it over a copy that may be stale.
THEOREM WatermarkIsHonest == Spec => []WatermarkCovered
<1>1. IndInv => WatermarkCovered
  BY DEF IndInv
<1> QED
  BY <1>1, Invariance, PTL

\* A dead end is raised only for a row the outbox no longer holds: otherwise
\* the awaited batch would have begun with that row and been accepted.
THEOREM DeadEndsAreReal == Spec => DeadEndIsReal
<1>1. ASSUME IndInv, NEW h \in Handlers, SetCursor(h),
             "dead_end" \in raised', "dead_end" \notin raised
      PROVE  req[h].expected \notin rows
  <2> DEFINE e == req[h].expected
  <2>1. e # req[h].first /\ req[h].first \in Unsent /\ \A s \in Unsent : req[h].first <= s
    BY <1>1 DEF IndInv, SetCursor, ExchangeInv
  <2>2. Forwarded(e) = {} /\ Rewound(e) = {}
    BY <1>1 DEF SetCursor, Contact
  <2>3. e \in Nat /\ rows \subseteq Nat /\ req[h].first \in Nat
    BY <1>1 DEF IndInv, TypeOK, Request
  <2>4. ~(req[h].first < e)
    BY <2>1, <2>2 DEF Forwarded
  <2>5. e \notin sent
    BY <2>2, <2>3 DEF Rewound
  <2>6. e \notin Unsent
    BY <2>1, <2>3, <2>4
  <2> QED
    BY <2>5, <2>6 DEF Unsent
<1>2. IndInv /\ [Next]_vars => [\A h \in Handlers :
          SetCursor(h) /\ "dead_end" \in raised' \ raised
             => req[h].expected \notin rows]_vars
  BY <1>1
<1> QED
  BY <1>2, Invariance, PTL DEF Spec, DeadEndIsReal

-----------------------------------------------------------------------------
(* Replaying a log.                                                        *)

\* The winner is characterised by being the last event that touches p.
LEMMA WinnerUnique ==
    ASSUME NEW l, NEW n \in Nat, NEW S, S \subseteq 1..n, NEW p, NEW m \in S,
           p \in Touched(l[m]), \A t \in S : p \in Touched(l[t]) => t <= m
    PROVE  Winner(l, S, p) = m
<1>1. p \in TouchedBy(l, S)
  BY DEF TouchedBy
<1> DEFINE w == Winner(l, S, p)
<1>2. w \in S /\ p \in Touched(l[w]) /\ m <= w
  BY <1>1, WinnerExists
<1>3. w \in 1..n /\ m \in 1..n
  BY <1>2
<1> HIDE DEF w
<1>4. w <= m
  BY <1>2
<1>5. w = m
  BY <1>2, <1>3, <1>4
<1> QED
  BY <1>5 DEF w

\* Two batches with the same last event for p plan the same for p.
LEMMA SamePlan ==
    ASSUME NEW l, NEW k, NEW n \in Nat, NEW S, S \subseteq 1..n, NEW T, T \subseteq 1..n,
           NEW p \in TouchedBy(l, S), Winner(l, S, p) \in T,
           k[Winner(l, S, p)] = l[Winner(l, S, p)],
           \A t \in T : p \in Touched(k[t]) => t <= Winner(l, S, p)
    PROVE  Plan(k, T, p) = Plan(l, S, p)
<1>1. p \in Touched(l[Winner(l, S, p)])
  BY WinnerExists
<1>2. Winner(k, T, p) = Winner(l, S, p)
  BY <1>1, WinnerUnique
<1> QED
  BY <1>2 DEF Plan

\* Replaying up to m is replaying up to n and then applying the plan of the
\* batch n+1..m: collapsing a batch loses nothing.
LEMMA ReplayBatch ==
    ASSUME NEW l, NEW n \in Nat, NEW m \in Nat, n <= m, NEW p \in Path
    PROVE  /\ p \in TouchedBy(l, (n + 1)..m)
                => Replay(l, m)[p] = Plan(l, (n + 1)..m, p)
           /\ p \notin TouchedBy(l, (n + 1)..m)
                => Replay(l, m)[p] = Replay(l, n)[p]
<1>0. (n + 1)..m \subseteq 1..m /\ 1..n \subseteq 1..m
  OBVIOUS
<1>1. CASE p \in TouchedBy(l, (n + 1)..m)
  <2> DEFINE w == Winner(l, (n + 1)..m, p)
  <2>1. /\ w \in (n + 1)..m
        /\ \A t \in (n + 1)..m : p \in Touched(l[t]) => t <= w
    BY <1>0, <1>1, WinnerExists
  <2>2. p \in TouchedBy(l, 1..m)
    BY <1>1 DEF TouchedBy
  <2>3. \A t \in 1..m : p \in Touched(l[t]) => t <= w
    BY <2>1
  <2>4. Plan(l, 1..m, p) = Plan(l, (n + 1)..m, p)
    BY <1>0, <1>1, <2>1, <2>3, SamePlan
  <2> QED
    BY <1>1, <2>2, <2>4 DEF Replay
<1>2. CASE p \notin TouchedBy(l, (n + 1)..m) /\ p \in TouchedBy(l, 1..n)
  <2> DEFINE w == Winner(l, 1..n, p)
  <2>1. /\ w \in 1..n
        /\ \A t \in 1..n : p \in Touched(l[t]) => t <= w
    BY <1>2, WinnerExists
  <2>2. \A t \in 1..m : p \in Touched(l[t]) => t <= w
    BY <1>2, <2>1 DEF TouchedBy
  <2>3. Plan(l, 1..m, p) = Plan(l, 1..n, p)
    BY <1>0, <1>2, <2>1, <2>2, SamePlan
  <2>4. p \in TouchedBy(l, 1..m)
    BY <1>2 DEF TouchedBy
  <2> QED
    BY <1>2, <2>3, <2>4 DEF Replay
<1>3. CASE p \notin TouchedBy(l, (n + 1)..m) /\ p \notin TouchedBy(l, 1..n)
  <2>1. p \notin TouchedBy(l, 1..m)
    BY <1>3 DEF TouchedBy
  <2> QED
    BY <1>3, <2>1 DEF Replay
<1> QED
  BY <1>1, <1>2, <1>3

\* Events written later do not change what an earlier replay gives.
LEMMA ReplayOfPrefix ==
    ASSUME NEW l, NEW k, NEW n \in Nat, \A s \in 1..n : k[s] = l[s]
    PROVE  Replay(k, n) = Replay(l, n)
<1>1. TouchedBy(k, 1..n) = TouchedBy(l, 1..n)
  BY DEF TouchedBy
<1>2. ASSUME NEW p \in Path, p \in TouchedBy(l, 1..n)
      PROVE  Plan(k, 1..n, p) = Plan(l, 1..n, p)
  <2>1. /\ Winner(l, 1..n, p) \in 1..n
        /\ \A t \in 1..n : p \in Touched(l[t]) => t <= Winner(l, 1..n, p)
    BY <1>2, WinnerExists
  <2> QED
    BY <1>2, <2>1, SamePlan
<1> QED
  BY <1>1, <1>2 DEF Replay

\* The empty log replays to the empty catalog.
LEMMA ReplayNothing ==
    ASSUME NEW l PROVE Replay(l, 0) = [p \in Path |-> None]
BY DEF Replay, TouchedBy

\* One more event changes the catalog where it touches it.
LEMMA ReplayAppend ==
    ASSUME NEW l \in Seq(Event), NEW e \in Event
    PROVE  /\ \A n \in 0..Len(l) : Replay(Append(l, e), n) = Replay(l, n)
           /\ Replay(Append(l, e), Len(l) + 1) =
                [p \in Path |-> IF p \in Touched(e) THEN Effect(e, p)
                                ELSE Replay(l, Len(l))[p]]
<1> DEFINE k == Append(l, e)
           n == Len(l)
<1>1. n \in Nat /\ k[n + 1] = e /\ \A s \in 1..n : k[s] = l[s]
  OBVIOUS
<1> HIDE DEF k, n
<1>2. ASSUME NEW i \in 0..n PROVE Replay(k, i) = Replay(l, i)
  <2>1. i \in Nat /\ \A s \in 1..i : k[s] = l[s]
    BY <1>1
  <2> QED
    BY <2>1, ReplayOfPrefix
<1>3. (n + 1)..(n + 1) = {n + 1}
  BY <1>1
<1>4. TouchedBy(k, {n + 1}) = Touched(e)
  BY <1>1 DEF TouchedBy
<1>5. ASSUME NEW p \in Touched(e) PROVE Plan(k, {n + 1}, p) = Effect(e, p)
  <2>1. Winner(k, {n + 1}, p) \in {n + 1}
    BY <1>1, <1>4, WinnerExists
  <2> QED
    BY <1>1, <2>1 DEF Plan
<1>6. ASSUME NEW p \in Path
      PROVE  Replay(k, n + 1)[p] = IF p \in Touched(e) THEN Effect(e, p)
                                   ELSE Replay(l, n)[p]
  <2>1. /\ p \in TouchedBy(k, (n + 1)..(n + 1))
             => Replay(k, n + 1)[p] = Plan(k, (n + 1)..(n + 1), p)
        /\ p \notin TouchedBy(k, (n + 1)..(n + 1))
             => Replay(k, n + 1)[p] = Replay(k, n)[p]
    <3> DEFINE m == n + 1
    <3>1. n \in Nat /\ m \in Nat /\ n <= m
      BY <1>1
    <3> HIDE DEF m
    <3>2. /\ p \in TouchedBy(k, (n + 1)..m) => Replay(k, m)[p] = Plan(k, (n + 1)..m, p)
          /\ p \notin TouchedBy(k, (n + 1)..m) => Replay(k, m)[p] = Replay(k, n)[p]
      BY <3>1, ReplayBatch
    <3> QED
      BY <3>2 DEF m
  <2>2. Replay(k, n) = Replay(l, n)
    BY <1>1, <1>2
  <2> QED
    BY <1>3, <1>4, <1>5, <2>1, <2>2
<1>7. Replay(k, n + 1) = [p \in Path |-> Replay(k, n + 1)[p]]
  BY DEF Replay
<1> QED
  BY <1>2, <1>6, <1>7 DEF k, n

-----------------------------------------------------------------------------
(* The invariant.                                                          *)

LEMMA FollowInit == Init => FollowInv
<1> SUFFICES ASSUME Init PROVE FollowInv
  OBVIOUS
<1>1. log = <<>> /\ Len(log) = 0 /\ last = 0
  BY DEF Init
<1>2. View = [p \in Path |-> None] /\ local = [p \in Path |-> None]
  BY DEF Init, View, NoRows, NoRow
<1>3. CentralIsPrefix /\ LogExplainsLocal
  BY <1>1, <1>2, ReplayNothing DEF CentralIsPrefix, LogExplainsLocal
<1>4. \A h \in Handlers : req[h].st = "idle"
  BY DEF Init, Idle
<1> QED
  BY <1>1, <1>3, <1>4 DEF FollowInv

\* A write of the agent extends the log by the change it makes to the index.
LEMMA WriteFollows ==
    ASSUME IndInv, FollowInv, NEW e \in Event, Write(e),
           local' = [p \in Path |-> IF p \in Touched(e) THEN Effect(e, p) ELSE local[p]]
    PROVE  /\ FollowInv'
           /\ Len(log') = Len(log) + 1
           /\ \A n \in 0..Len(log) : Replay(log', n) = Replay(log, n)
<1>1. log \in Seq(Event) /\ Len(log) \in Nat /\ last \in Nat
  BY DEF IndInv, TypeOK
<1>2. log' = Append(log, e) /\ Len(log') = Len(log) + 1
  BY <1>1 DEF Write
<1>3. UNCHANGED <<req, items, last>> /\ View' = View
  BY DEF Write, centralVars, View
<1>4. /\ \A n \in 0..Len(log) : Replay(log', n) = Replay(log, n)
      /\ Replay(log', Len(log')) =
           [p \in Path |-> IF p \in Touched(e) THEN Effect(e, p)
                           ELSE Replay(log, Len(log))[p]]
  BY <1>1, <1>2, ReplayAppend
<1>5. CentralIsPrefix'
  <2>1. last \in 0..Len(log)
    BY <1>1 DEF FollowInv
  <2> QED
    BY <1>3, <1>4, <2>1 DEF FollowInv, CentralIsPrefix
<1>6. LogExplainsLocal'
  BY <1>4 DEF FollowInv, LogExplainsLocal
<1>7. ASSUME NEW h \in Handlers, req[h].st = "loaded"
      PROVE  TouchedBy(log', req[h].seqs) = TouchedBy(log, req[h].seqs)
  <2>1. req[h].seqs \subseteq 1..Len(log)
    <3>1. /\ req[h].first \in 1..req[h].final
          /\ req[h].final <= Len(log)
          /\ req[h].seqs = req[h].first .. req[h].final
      BY <1>7 DEF IndInv, ExchangeInv
    <3>2. req[h].first \in Nat /\ req[h].final \in Nat
      BY DEF IndInv, TypeOK, Request
    <3> QED
      BY <1>1, <3>1, <3>2
  <2>2. \A s \in req[h].seqs : log'[s] = log[s]
    BY <1>1, <1>2, <2>1
  <2> QED
    BY <2>2 DEF TouchedBy
<1>8. last' <= Len(log')
  BY <1>1, <1>2, <1>3 DEF FollowInv
<1> QED
  BY <1>2, <1>3, <1>4, <1>5, <1>6, <1>7, <1>8 DEF FollowInv

LEMMA ScanFollows ==
    ASSUME IndInv, FollowInv, Scan
    PROVE  /\ FollowInv'
           /\ Len(log') = Len(log) + 1
           /\ \A n \in 0..Len(log) : Replay(log', n) = Replay(log, n)
           /\ UNCHANGED <<items, last>>
<1> DEFINE Goal == /\ FollowInv'
                   /\ Len(log') = Len(log) + 1
                   /\ \A n \in 0..Len(log) : Replay(log', n) = Replay(log, n)
                   /\ UNCHANGED <<items, last>>
<1>0. local \in [Path -> Val \cup {None}]
  BY DEF IndInv, TypeOK
<1>1. ASSUME NEW e \in Event, Write(e),
             local' = [p \in Path |-> IF p \in Touched(e) THEN Effect(e, p) ELSE local[p]]
      PROVE  Goal
  <2>1. UNCHANGED <<items, last>>
    BY <1>1 DEF Write, centralVars
  <2> QED
    BY <1>1, <2>1, WriteFollows
<1> HIDE DEF Goal
<1>2. ASSUME NEW p \in Path, NEW v \in Val, Upsert(p, v) PROVE Goal
  <2> DEFINE e == [op |-> "upserted", path |-> p, from |-> None, val |-> v]
  <2>1. e \in Event /\ Write(e)
    BY <1>2 DEF Upsert, Event
  <2>2. local' = [x \in Path |-> IF x \in Touched(e) THEN Effect(e, x) ELSE local[x]]
    BY <1>0, <1>2 DEF Upsert, Touched, Effect
  <2> QED
    BY <1>1, <2>1, <2>2
<1>3. ASSUME NEW p \in Path, Tombstone(p) PROVE Goal
  <2> DEFINE e == [op |-> "deleted", path |-> p, from |-> None, val |-> None]
  <2>1. e \in Event /\ Write(e)
    BY <1>3 DEF Tombstone, Event
  <2>2. local' = [x \in Path |-> IF x \in Touched(e) THEN Effect(e, x) ELSE local[x]]
    BY <1>0, <1>3 DEF Tombstone, Touched, Effect
  <2> QED
    BY <1>1, <2>1, <2>2
<1>4. ASSUME NEW p \in Path, NEW q \in Path, Move(p, q) PROVE Goal
  <2> DEFINE e == [op |-> "moved", path |-> q, from |-> p, val |-> local[q]]
  <2>1. e \in Event /\ Write(e)
    BY <1>0, <1>4 DEF Move, Event
  <2>2. local' = [x \in Path |-> IF x \in Touched(e) THEN Effect(e, x) ELSE local[x]]
    BY <1>0, <1>4 DEF Move, Touched, Effect
  <2> QED
    BY <1>1, <2>1, <2>2
<1> QED
  BY <1>2, <1>3, <1>4 DEF Scan, Goal

\* On fresh copies of the rows, applying a batch shows its plan.
LEMMA AppliedShows ==
    ASSUME NEW S, NEW base, items \in [Path -> Row], NEW p \in Path,
           p \in TouchedBy(log, S) => base[p] = items[p]
    PROVE  LET row == Applied(S, base)[p] IN
             (IF row.status = "active" THEN row.val ELSE None) =
             (IF p \in TouchedBy(log, S) THEN Plan(log, S, p) ELSE View[p])
<1>1. CASE p \notin TouchedBy(log, S)
  BY <1>1 DEF Applied, View
<1>2. CASE p \in TouchedBy(log, S)
  <2>1. Applied(S, base)[p] = Flush(items[p], items[p], Target(S, p, items[p]))
    BY <1>2 DEF Applied
  <2> QED
    BY <1>2, <2>1 DEF Flush, Target, Row
<1> QED
  BY <1>1, <1>2

LEMMA CommitFollows ==
    ASSUME IndInv, FollowInv, \A g, h \in Handlers : g = h,
           NEW h \in Handlers, Commit(h)
    PROVE  /\ FollowInv'
           /\ last' > last /\ last' <= Len(log)
           /\ log' = log
           /\ View' = Replay(log, last')
<1> DEFINE r == req[h]
<1>1. /\ r.st = "loaded"
      /\ r.seqs = r.first..r.final /\ r.final <= Len(log) /\ r.first \in 1..r.final
      /\ r.seen + 1 = r.first /\ r.seen = last
      /\ r.first \in Nat /\ r.final \in Nat /\ last \in Nat /\ Len(log) \in Nat
      /\ r.base \in [Path -> Row] /\ items \in [Path -> Row]
  BY DEF Commit, IndInv, TypeOK, Request, ExchangeInv, FollowInv
<1>2. r.seqs = (last + 1)..r.final /\ last < r.final
  BY <1>1
<1>3. \A p \in Path : p \in TouchedBy(log, r.seqs) => r.base[p] = items[p]
  BY <1>1 DEF FollowInv
<1>4. ~Conflict(r.seqs, r.base)
  <2>1. TouchedBy(log, r.seqs) \subseteq Path
    <3>1. \A s \in r.seqs : log[s] \in Event
      BY <1>1 DEF IndInv, TypeOK
    <3>2. \A e \in Event : Touched(e) \subseteq Path
      BY DEF Touched, Event
    <3> QED
      BY <3>1, <3>2 DEF TouchedBy
  <2> QED
    BY <1>3, <2>1 DEF Conflict
<1>5. /\ items' = Applied(r.seqs, r.base)
      /\ last' = Advance(r)
      /\ Reply(h, "200", 0)
      /\ UNCHANGED <<local, log>>
  BY <1>4 DEF Commit, agentVars
<1>6. last' = r.final
  BY <1>1, <1>2, <1>5 DEF Advance
<1>7. View' = Replay(log, last')
  <2>1. ASSUME NEW p \in Path PROVE View'[p] = Replay(log, last')[p]
    <3>1. View'[p] = IF Applied(r.seqs, r.base)[p].status = "active"
                     THEN Applied(r.seqs, r.base)[p].val ELSE None
      BY <1>5 DEF View
    <3>2. View'[p] = IF p \in TouchedBy(log, r.seqs) THEN Plan(log, r.seqs, p) ELSE View[p]
      BY <1>1, <1>3, <3>1, AppliedShows
    <3>3. /\ p \in TouchedBy(log, (last + 1)..r.final)
               => Replay(log, r.final)[p] = Plan(log, (last + 1)..r.final, p)
          /\ p \notin TouchedBy(log, (last + 1)..r.final)
               => Replay(log, r.final)[p] = Replay(log, last)[p]
      <4> DEFINE m == r.final
      <4>1. last \in Nat /\ m \in Nat /\ last <= m
        BY <1>1, <1>2
      <4> HIDE DEF m
      <4>2. /\ p \in TouchedBy(log, (last + 1)..m)
                 => Replay(log, m)[p] = Plan(log, (last + 1)..m, p)
            /\ p \notin TouchedBy(log, (last + 1)..m)
                 => Replay(log, m)[p] = Replay(log, last)[p]
        BY <4>1, ReplayBatch
      <4> QED
        BY <4>2 DEF m
    <3> QED
      BY <1>2, <1>6, <3>2, <3>3 DEF FollowInv, CentralIsPrefix
  <2>2. View' = [p \in Path |-> View'[p]]
    BY DEF View
  <2>3. Replay(log, last') = [p \in Path |-> Replay(log, last')[p]]
    BY DEF Replay
  <2> QED
    BY <2>1, <2>2, <2>3
<1>8. \A g \in Handlers : req'[g].st \in {"idle", "replied"}
  BY <1>5 DEF Reply, Idle, IndInv, TypeOK
<1>9. LogExplainsLocal'
  BY <1>5 DEF FollowInv, LogExplainsLocal
<1> QED
  BY <1>1, <1>2, <1>5, <1>6, <1>7, <1>8, <1>9 DEF FollowInv, CentralIsPrefix

LEMMA CheckFollows ==
    ASSUME IndInv, FollowInv, NEW h \in Handlers, Check(h)
    PROVE  FollowInv'
<1>1. UNCHANGED <<local, log, items, last>> /\ View' = View
  BY DEF Check, agentVars, centralVars, View
<1>2. \A g \in Handlers \ {h} : req'[g] = req[g]
  BY DEF Check, Reply, IndInv, TypeOK
<1>3. /\ req'[h].st \in {"accepted", "idle", "replied"}
      /\ req'[h].st = "accepted" => req'[h].seen = last
  <2>0. h \in DOMAIN req /\ req[h] \in Request
    BY DEF IndInv, TypeOK
  <2>1. CASE CheckBatch(req[h], last) = 0
    <3>1. req' = [req EXCEPT ![h].st = "accepted", ![h].seen = last]
      BY <2>1 DEF Check
    <3> QED
      BY <2>0, <3>1 DEF Request
  <2>2. CASE CheckBatch(req[h], last) # 0
    <3>1. Reply(h, "409", CheckBatch(req[h], last))
      BY <2>2 DEF Check
    <3> QED
      BY <2>0, <3>1 DEF Reply, Idle
  <2> QED
    BY <2>1, <2>2
<1> QED
  BY <1>1, <1>2, <1>3 DEF FollowInv, CentralIsPrefix, LogExplainsLocal

LEMMA LoadFollows ==
    ASSUME IndInv, FollowInv, NEW h \in Handlers, Load(h)
    PROVE  FollowInv'
<1>1. UNCHANGED <<local, log, items, last>> /\ View' = View
  BY DEF Load, agentVars, centralVars, View
<1>2. \A g \in Handlers \ {h} : req'[g] = req[g]
  BY DEF Load, IndInv, TypeOK
<1>3. /\ req[h].st = "accepted"
      /\ req'[h].st = "loaded" /\ req'[h].seen = req[h].seen
      /\ req'[h].seqs = req[h].seqs
      /\ \A p \in Path : p \in TouchedBy(log, req[h].seqs) => req'[h].base[p] = items[p]
  BY DEF Load, IndInv, TypeOK, Request
<1> QED
  BY <1>1, <1>2, <1>3 DEF FollowInv, CentralIsPrefix, LogExplainsLocal

\* Every other step leaves catalog and watermark alone and puts no handler
\* between its reads and its commit.
LEMMA QuietFollows ==
    ASSUME IndInv, FollowInv, UNCHANGED <<local, log, items, last>>,
           \A g \in Handlers : \/ req'[g] = req[g]
                               \/ req'[g].st \notin {"accepted", "loaded"}
    PROVE  FollowInv'
<1>1. View' = View
  BY DEF View
<1> QED
  BY <1>1 DEF FollowInv, CentralIsPrefix, LogExplainsLocal

LEMMA DrainFollows ==
    ASSUME IndInv, FollowInv,
           \/ Restart \/ UNCHANGED vars
           \/ \E k \in rows : PruneSent(k)
           \/ \E h \in Handlers : \/ Post(h) \/ MarkSent(h) \/ SetCursor(h)
                                  \/ BackOff(h) \/ Timeout(h) \/ Refuse(h)
    PROVE  FollowInv' /\ UNCHANGED <<log, items, last>>
<1>0. req \in [Handlers -> Request]
  BY DEF IndInv, TypeOK
<1>1. UNCHANGED <<local, log, items, last>>
  BY DEF Restart, vars, PruneSent, Post, MarkSent, SetCursor, BackOff, Timeout,
         Refuse, agentVars, centralVars, drainVars
<1>2. ASSUME NEW g \in Handlers
      PROVE  req'[g] = req[g] \/ req'[g].st \notin {"accepted", "loaded"}
  <2>1. Idle.st = "idle"
    BY DEF Idle
  <2>2. CASE Restart \/ UNCHANGED vars \/ \E k \in rows : PruneSent(k)
    BY <1>0, <2>1, <2>2 DEF Restart, Abandon, vars, PruneSent
  <2>3. ASSUME NEW h \in Handlers,
               MarkSent(h) \/ SetCursor(h) \/ BackOff(h) \/ Timeout(h)
        PROVE  req'[g] = req[g] \/ req'[g].st \notin {"accepted", "loaded"}
    BY <1>0, <2>1, <2>3 DEF MarkSent, SetCursor, BackOff, Timeout, Abandon
  <2>4. ASSUME NEW h \in Handlers, Post(h)
        PROVE  req'[g] = req[g] \/ req'[g].st \notin {"accepted", "loaded"}
    BY <1>0, <2>4 DEF Post, Idle
  <2>5. ASSUME NEW h \in Handlers, Refuse(h)
        PROVE  req'[g] = req[g] \/ req'[g].st \notin {"accepted", "loaded"}
    BY <1>0, <2>5 DEF Refuse, Reply, Idle
  <2> QED
    BY <2>2, <2>3, <2>4, <2>5
<1> QED
  BY <1>1, <1>2, QuietFollows

-----------------------------------------------------------------------------
(* The theorems.                                                           *)

LEMMA StepFollows ==
    ASSUME \A g, h \in Handlers : g = h
    PROVE  IndInv /\ FollowInv /\ [Next]_vars => FollowInv'
<1> SUFFICES ASSUME IndInv, FollowInv, [Next]_vars PROVE FollowInv'
  OBVIOUS
<1>1. CASE Scan
  BY <1>1, ScanFollows
<1>2. ASSUME NEW h \in Handlers, Commit(h) PROVE FollowInv'
  BY <1>2, CommitFollows
<1>3. ASSUME NEW h \in Handlers, Check(h) \/ Load(h) PROVE FollowInv'
  BY <1>3, CheckFollows, LoadFollows
<1>4. ASSUME \/ Restart \/ UNCHANGED vars
             \/ \E k \in rows : PruneSent(k)
             \/ \E h \in Handlers : \/ Post(h) \/ MarkSent(h) \/ SetCursor(h)
                                    \/ BackOff(h) \/ Timeout(h) \/ Refuse(h)
      PROVE  FollowInv'
  BY <1>4, DrainFollows
<1> QED
  BY <1>1, <1>2, <1>3, <1>4 DEF Next

\* As long as requests do not overlap, the agent's log, its catalog, the rows at
\* central and what the handlers have read fit together.
THEOREM FollowInvariance ==
    ASSUME \A g, h \in Handlers : g = h
    PROVE  Spec => [](IndInv /\ FollowInv)
<1>1. Init => IndInv /\ FollowInv
  BY InitInv, FollowInit
<1>2. IndInv /\ FollowInv /\ [Next]_vars => IndInv' /\ FollowInv'
  BY StepInv, StepFollows
<1> QED
  BY <1>1, <1>2, PTL DEF Spec

\* As long as requests do not overlap, central shows the agent's catalog as of
\* the watermark (agentsync.plan_upserts, apply_batch).
THEOREM CentralShowsAPrefix ==
    ASSUME \A g, h \in Handlers : g = h
    PROVE  Spec => []CentralIsPrefix
<1>1. IndInv /\ FollowInv => CentralIsPrefix
  BY DEF FollowInv
<1> QED
  BY <1>1, FollowInvariance, PTL

\* Every change the scanner makes to the local index is in the log: replaying
\* the log gives the index (scan.go writes both in one transaction).
THEOREM LogIsFaithful ==
    ASSUME \A g, h \in Handlers : g = h
    PROVE  Spec => []LogExplainsLocal
<1>1. IndInv /\ FollowInv => LogExplainsLocal
  BY DEF FollowInv
<1> QED
  BY <1>1, FollowInvariance, PTL

\* As long as requests do not overlap, replication implements the follower:
\* each step is a change of the agent's catalog, a move of central to a later
\* catalog of the agent, or invisible.
THEOREM Refinement ==
    ASSUME \A g, h \in Handlers : g = h
    PROVE  Spec => Follows
<1> DEFINE past == [n \in 1..(Len(log) + 1) |-> Replay(log, n - 1)]
<1>1. Init => Follower!Init
  <2> SUFFICES ASSUME Init PROVE Follower!Init
    OBVIOUS
  <2>1. Len(log) = 0 /\ last = 0
    BY DEF Init
  <2>2. past = <<[p \in Path |-> None]>>
    BY <2>1, ReplayNothing
  <2>3. View = [p \in Path |-> None]
    BY DEF Init, View, NoRows, NoRow
  <2> QED
    BY <2>1, <2>2, <2>3 DEF Follower!Init
<1>2. IndInv /\ FollowInv /\ IndInv' /\ FollowInv' /\ [Next]_vars
        => [Follower!Next]_<<past, last + 1, View>>
  <2> SUFFICES ASSUME IndInv, FollowInv, IndInv', FollowInv', [Next]_vars
               PROVE  \/ Follower!Change \/ Follower!CatchUp
                      \/ UNCHANGED <<past, last + 1, View>>
    BY DEF Follower!Next
  <2>0. Len(log) \in Nat /\ last \in Nat
    BY DEF IndInv, TypeOK
  <2>1. CASE Scan
    <3>1. /\ Len(log') = Len(log) + 1
          /\ \A n \in 0..Len(log) : Replay(log', n) = Replay(log, n)
          /\ UNCHANGED <<items, last>>
      BY <2>1, ScanFollows
    <3>2. Replay(log', Len(log')) \in Follower!Catalog
      BY DEF FollowInv, LogExplainsLocal, IndInv, TypeOK, Follower!Catalog
    <3>3. past' = Append(past, Replay(log', Len(log')))
      BY <2>0, <3>1
    <3>4. UNCHANGED <<last + 1, View>>
      BY <3>1 DEF View
    <3> QED
      BY <3>2, <3>3, <3>4 DEF Follower!Change
  <2>2. ASSUME NEW h \in Handlers, Commit(h) PROVE Follower!CatchUp
    <3>1. last' > last /\ last' <= Len(log) /\ log' = log /\ View' = Replay(log, last')
      BY <2>2, CommitFollows
    <3>2. last' \in Nat
      BY DEF IndInv, TypeOK
    <3>3. /\ last' + 1 \in 1..(Len(log) + 1)
          /\ last + 1 < last' + 1
          /\ (last' + 1) - 1 = last'
      <4>1. PICK n \in Nat : n = last'
        BY <3>2
      <4>2. n > last /\ n <= Len(log)
        BY <3>1, <4>1
      <4>3. n + 1 \in 1..(Len(log) + 1) /\ last + 1 < n + 1 /\ (n + 1) - 1 = n
        BY <2>0, <4>2
      <4> QED
        BY <4>1, <4>3
    <3>4. Len(past) = Len(log) + 1
      BY <2>0
    <3>5. past[last' + 1] = View' /\ past' = past
      BY <3>1, <3>3
    <3> QED
      BY <3>3, <3>4, <3>5 DEF Follower!CatchUp
  <2>3. ASSUME NEW h \in Handlers, Check(h) \/ Load(h)
        PROVE  UNCHANGED <<past, last + 1, View>>
    BY <2>3 DEF Check, Load, agentVars, centralVars, View
  <2>4. ASSUME \/ Restart \/ UNCHANGED vars
               \/ \E k \in rows : PruneSent(k)
               \/ \E h \in Handlers : \/ Post(h) \/ MarkSent(h) \/ SetCursor(h)
                                      \/ BackOff(h) \/ Timeout(h) \/ Refuse(h)
        PROVE  UNCHANGED <<past, last + 1, View>>
    <3>1. UNCHANGED <<log, items, last>>
      BY <2>4, DrainFollows
    <3> QED
      BY <3>1 DEF View
  <2> QED
    BY <2>1, <2>2, <2>3, <2>4 DEF Next
<1> QED
  BY <1>1, <1>2, FollowInvariance, PTL DEF Follows, Follower!Spec, Spec
=============================================================================
