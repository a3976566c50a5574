--------------------------- MODULE CommandProofs ---------------------------
(***************************************************************************)
(* The command channel is safe for any number of commands and handlers:    *)
(* the invariant of AgentCommands is inductive, and toggles that have not  *)
(* crossed leave the agent in the state the operator asked for last.       *)
(***************************************************************************)
EXTENDS AgentCommands, WellFoundedInduction, TLAPS

\* The invariant, split into what it says of one row (R being the commands the
\* agent ran) and what it says of the handlers and the agent.
RowOK(c, r, R) ==
    /\ r \in Row
    /\ r.attempts <= MaxAttempts
    /\ r.status \in {"none", "pending"} => r.attempts < MaxAttempts
    /\ r.status = "done" => r.result = "applying" \/ (r.result = "ok" /\ c \in R)
    /\ r.status = "failed" => r.result \in {"error", "exhausted"}
    /\ r.ended <=> r.status \in Terminal

RowsOK == row \in [Cmd -> Row] /\ \A c \in Cmd : RowOK(c, row[c], ran)

CallsOK ==
    /\ calls \in [Calls -> Call]
    /\ \A k \in Calls :
         /\ calls[k].op \in {"ack", "complete", "cancel"} => calls[k].cmd \in Cmd
         /\ calls[k].loaded => calls[k].op \in {"ack", "complete", "cancel"}
         /\ calls[k].op = "complete" =>
              calls[k].result # "none" /\ (calls[k].result = "ok" => calls[k].cmd \in ran)
         /\ calls[k].op = "insert" /\ calls[k].kind = "suspend" => calls[k].payload \in Flag

AgentOK ==
    /\ batch \subseteq Delivery
    /\ outcome \in Result
    /\ flag \in Flag
    /\ saved \in Flag
    /\ ran \subseteq Cmd
    /\ batch # {} /\ outcome = "ok" => Current.cmd \in ran
    /\ batch = {} => outcome = "none"

WaitOK ==
    /\ awaited \in Calls \cup {None}
    /\ awaited # None => calls[awaited].op = IF batch = {} THEN "poll" ELSE "complete"

MiscOK == due \subseteq Cmd /\ desired \in Flag /\ crossed \in BOOLEAN

Parts == RowsOK /\ CallsOK /\ AgentOK /\ WaitOK /\ MiscOK

\* The parts together are the invariant.
LEMMA PartsOfInv == IndInv <=> Parts
<1>1. IndInv => Parts
  BY DEF IndInv, Parts, RowsOK, RowOK, CallsOK, AgentOK, WaitOK, MiscOK, TypeOK,
         DeliveryBounded, DoneWasRun, EndIsExplained, ChannelInv
<1>2. Parts => IndInv
  BY DEF IndInv, Parts, RowsOK, RowOK, CallsOK, AgentOK, WaitOK, MiscOK, TypeOK,
         DeliveryBounded, DoneWasRun, EndIsExplained, ChannelInv
<1> QED
  BY <1>1, <1>2

-----------------------------------------------------------------------------
(* One row: each transformation of a row preserves what is said of it.     *)

\* A row as AgentCommand(...) makes it is in order.
LEMMA QueuedRow ==
    ASSUME NEW c, NEW R, NEW kind \in Kinds, NEW payload \in Flag \cup {None}
    PROVE  RowOK(c, Queued(kind, payload), R)
<1>1. Queued(kind, payload) \in Row
  BY DEF Queued, Row, Live
<1>2. 0 < MaxAttempts /\ MaxAttempts \in Nat
  BY BoundsAssumption
<1>3. /\ Queued(kind, payload).status = "pending"
      /\ Queued(kind, payload).attempts = 0
      /\ Queued(kind, payload).ended = FALSE
  BY DEF Queued
<1>4. 0 <= MaxAttempts
  BY <1>2
<1> QED
  BY <1>1, <1>2, <1>3, <1>4 DEF RowOK, Terminal

\* Collapsing a toggle, the lapse of a lease and an ack change nothing of it.
LEMMA Relabelled ==
    ASSUME NEW c, NEW R, NEW r, RowOK(c, r, R),
           NEW payload \in Flag, NEW lease \in {"unset", "fresh", "old"}
    PROVE  /\ RowOK(c, [r EXCEPT !.payload = payload], R)
           /\ RowOK(c, [r EXCEPT !.lease = lease], R)
<1>1. [r EXCEPT !.payload = payload] \in Row
  BY DEF RowOK, Row
<1>2. [r EXCEPT !.lease = lease] \in Row
  BY DEF RowOK, Row
<1> QED
  BY <1>1, <1>2 DEF RowOK, Row

\* A delivery uses up an attempt the row had left.
LEMMA DeliveredRow ==
    ASSUME NEW c, NEW R, NEW r, RowOK(c, r, R), r.status = "pending"
    PROVE  RowOK(c, [r EXCEPT !.status = "picked_up", !.lease = "fresh",
                              !.attempts = r.attempts + 1], R)
<1>1. r \in Row /\ r.attempts \in Nat /\ r.attempts < MaxAttempts /\ ~r.ended
  BY DEF RowOK, Row, Terminal
<1>2. r.attempts + 1 \in Nat /\ r.attempts + 1 <= MaxAttempts
  BY <1>1, BoundsAssumption
<1>3. PICK n \in Nat : n = r.attempts + 1
  BY <1>2
<1> DEFINE s == [r EXCEPT !.status = "picked_up", !.lease = "fresh", !.attempts = n]
<1>4. s \in Row
  BY <1>1 DEF Row, Live
<1>5. s.attempts = n /\ s.status = "picked_up" /\ ~s.ended
  BY <1>1 DEF Row, RowOK
<1> HIDE DEF s
<1>6. RowOK(c, s, R)
  BY <1>2, <1>3, <1>4, <1>5 DEF RowOK, Terminal
<1> QED
  BY <1>3, <1>6 DEF s

\* A report ends the row with a status and a result that belong together.
LEMMA CompletedRow ==
    ASSUME NEW c, NEW R, NEW r, RowOK(c, r, R), NEW res \in Result \ {"none"},
           res = "ok" => c \in R
    PROVE  RowOK(c, Completed(r, res), R)
<1>1. CASE res # "error"
  <2>1. Completed(r, res) = [r EXCEPT !.status = "done", !.result = res, !.ended = TRUE]
    BY <1>1 DEF Completed
  <2>2. Completed(r, res) \in Row
    BY <2>1 DEF RowOK, Row, Terminal, Result
  <2> QED
    BY <1>1, <2>1, <2>2 DEF RowOK, Row, Terminal, Result
<1>2. CASE res = "error"
  <2>1. Completed(r, res) = [r EXCEPT !.status = "failed", !.result = "error", !.ended = TRUE]
    BY <1>2 DEF Completed
  <2>2. Completed(r, res) \in Row
    BY <2>1 DEF RowOK, Row, Terminal
  <2> QED
    BY <2>1, <2>2 DEF RowOK, Row, Terminal
<1> QED
  BY <1>1, <1>2

\* So does a cancel.
LEMMA CancelledRow ==
    ASSUME NEW c, NEW R, NEW r, RowOK(c, r, R)
    PROVE  RowOK(c, Cancelled(r), R)
<1>1. Cancelled(r) \in Row
  BY DEF Cancelled, RowOK, Row, Terminal
<1> QED
  BY <1>1 DEF Cancelled, RowOK, Row, Terminal

\* The sweep gives a row back to the queue only with an attempt left.
LEMMA SweptRow ==
    ASSUME NEW c, NEW R, NEW r, RowOK(c, r, R), NEW late \in BOOLEAN
    PROVE  RowOK(c, Swept(r, SweepDecision(r, late)), R)
<1> DEFINE d == SweepDecision(r, late)
<1>1. CASE d = "expire"
  <2>1. Swept(r, d) = [r EXCEPT !.status = "expired", !.ended = TRUE]
    BY <1>1 DEF Swept
  <2>2. Swept(r, d) \in Row
    BY <2>1 DEF RowOK, Row, Terminal
  <2> QED
    BY <2>1, <2>2 DEF RowOK, Row, Terminal
<1>2. CASE d = "exhaust"
  <2>1. Swept(r, d) = [r EXCEPT !.status = "failed", !.result = "exhausted", !.ended = TRUE]
    BY <1>2 DEF Swept
  <2>2. Swept(r, d) \in Row
    BY <2>1 DEF RowOK, Row, Terminal
  <2> QED
    BY <2>1, <2>2 DEF RowOK, Row, Terminal
<1>3. CASE d = "redeliver"
  <2>1. Swept(r, d) = [r EXCEPT !.status = "pending", !.lease = "unset"]
    BY <1>3 DEF Swept
  <2>2. Swept(r, d) \in Row
    BY <2>1 DEF RowOK, Row, Live
  <2>3. r.status = "picked_up" /\ ~(r.attempts >= MaxAttempts)
    BY <1>3 DEF SweepDecision
  <2>4. r.attempts \in Nat /\ ~r.ended
    BY <2>3 DEF RowOK, Row, Terminal
  <2>5. r.attempts < MaxAttempts
    BY <2>3, <2>4, BoundsAssumption
  <2> QED
    BY <2>1, <2>2, <2>4, <2>5 DEF RowOK, Row, Terminal
<1>4. CASE d \notin {"expire", "exhaust", "redeliver"}
  BY <1>4 DEF Swept
<1> QED
  BY <1>1, <1>2, <1>3, <1>4

-----------------------------------------------------------------------------
(* Handlers and agent.                                                     *)

\* A nonempty set of naturals has a least element.
LEMMA LeastNatural ==
    ASSUME NEW T, T \subseteq Nat, T # {}
    PROVE  \E m \in T : \A k \in T : m <= k
<1> DEFINE R == OpToRel(<, Nat)
<1>1. PICK m \in T : \A k \in T : ~(<<k, m>> \in R)
  <2>1. IsWellFoundedOn(R, Nat)
    BY NatLessThanWellFounded
  <2> HIDE DEF R
  <2> QED
    BY <2>1, WFMin
<1>2. ASSUME NEW k \in T PROVE m <= k
  <2>1. <<k, m>> \in Nat \X Nat
    OBVIOUS
  <2>2. ~(k < m)
    BY <1>1, <2>1 DEF OpToRel
  <2> QED
    BY <2>2
<1> QED
  BY <1>2

\* A batch in hand has a command that comes first.
LEMMA CurrentIsDelivered ==
    ASSUME batch \subseteq Delivery, batch # {}
    PROVE  Current \in batch /\ Current \in Delivery /\ Current.cmd \in Cmd
<1> DEFINE T == {d.cmd : d \in batch}
<1>1. T \subseteq Nat /\ T # {}
  BY DEF Delivery, Cmd
<1>2. PICK m \in T : \A n \in T : m <= n
  BY <1>1, LeastNatural
<1>3. PICK c \in batch : m = c.cmd
  OBVIOUS
<1>4. \A d \in batch : c.cmd <= d.cmd
  BY <1>2, <1>3
<1>5. Current \in batch
  BY <1>4 DEF Current
<1> QED
  BY <1>5 DEF Delivery

\* It is the oldest of the batch.
LEMMA CurrentIsFirst ==
    ASSUME batch \subseteq Delivery, batch # {}
    PROVE  \A d \in batch : Current.cmd <= d.cmd
<1> DEFINE T == {d.cmd : d \in batch}
<1>1. T \subseteq Nat /\ T # {}
  BY DEF Delivery, Cmd
<1>2. PICK m \in T : \A n \in T : m <= n
  BY <1>1, LeastNatural
<1>3. PICK c \in batch : m = c.cmd
  OBVIOUS
<1>4. \A d \in batch : c.cmd <= d.cmd
  BY <1>2, <1>3
<1> QED
  BY <1>4 DEF Current

\* Putting a well-formed request into a slot keeps the handlers in order.
LEMMA CallsAfter ==
    ASSUME CallsOK, ran \subseteq ran', NEW k \in Calls, NEW x \in Call,
           calls' = [calls EXCEPT ![k] = x],
           x.op \in {"ack", "complete", "cancel"} => x.cmd \in Cmd,
           x.loaded => x.op \in {"ack", "complete", "cancel"},
           x.op = "complete" => x.result # "none" /\ (x.result = "ok" => x.cmd \in ran'),
           x.op = "insert" /\ x.kind = "suspend" => x.payload \in Flag
    PROVE  CallsOK'
<1>1. calls' \in [Calls -> Call]
  BY DEF CallsOK
<1>2. ASSUME NEW j \in Calls
      PROVE  /\ calls'[j].op \in {"ack", "complete", "cancel"} => calls'[j].cmd \in Cmd
             /\ calls'[j].loaded => calls'[j].op \in {"ack", "complete", "cancel"}
             /\ calls'[j].op = "complete" =>
                  calls'[j].result # "none" /\ (calls'[j].result = "ok" => calls'[j].cmd \in ran')
             /\ calls'[j].op = "insert" /\ calls'[j].kind = "suspend" => calls'[j].payload \in Flag
  <2>1. CASE j = k
    <3>1. calls'[j] = x
      BY <2>1 DEF CallsOK
    <3> QED
      BY <3>1
  <2>2. CASE j # k
    <3>1. calls'[j] = calls[j]
      BY <2>2 DEF CallsOK
    <3> QED
      BY <3>1 DEF CallsOK
  <2> QED
    BY <2>1, <2>2
<1> QED
  BY <1>1, <1>2 DEF CallsOK, Cmd

\* A free slot is well formed.
LEMMA FreeIsCall == Free \in Call /\ Free.op = "none" /\ ~Free.loaded
  BY DEF Free, Call, Kinds, Result

\* The end of a request: its slot is free, and the agent goes on if it waited.
LEMMA EndKeeps ==
    ASSUME Parts, NEW k \in Calls, End(k), UNCHANGED <<flag, saved, ran>>
    PROVE  CallsOK' /\ AgentOK' /\ WaitOK'
<1> USE DEF Parts
<1>1. CallsOK'
  BY CallsAfter, FreeIsCall DEF End
<1>2. CASE awaited = k
  <2>1. awaited' = None /\ outcome' = "none" /\ batch' \subseteq batch
    BY <1>2 DEF End, Advance
  <2>2. AgentOK'
    BY <2>1 DEF AgentOK, Result
  <2>3. WaitOK'
    BY <2>1 DEF WaitOK
  <2> QED
    BY <1>1, <2>2, <2>3
<1>3. CASE awaited # k
  <2>1. UNCHANGED <<awaited, batch, outcome>>
    BY <1>3 DEF End
  <2>2. AgentOK'
    BY <2>1 DEF AgentOK, Current
  <2>3. WaitOK'
    BY <1>3, <2>1 DEF WaitOK, End, CallsOK
  <2> QED
    BY <1>1, <2>2, <2>3
<1> QED
  BY <1>2, <1>3

\* A request the agent does not wait for (of the operator, or a heartbeat).
LEMMA AsideKeeps ==
    ASSUME Parts, NEW k \in Calls, calls[k] = Free, NEW x \in Call,
           calls' = [calls EXCEPT ![k] = x], x.op # "complete",
           x.op = "insert" /\ x.kind = "suspend" => x.payload \in Flag,
           x.op \in {"ack", "complete", "cancel"} => x.cmd \in Cmd,
           x.loaded => x.op \in {"ack", "complete", "cancel"},
           UNCHANGED <<row, due, desired, crossed, agentVars>>
    PROVE  Parts'
<1> USE DEF Parts
<1>1. CallsOK'
  BY CallsAfter DEF agentVars
<1>2. awaited # k
  <2>1. calls[k].op = "none" /\ k # None
    BY FreeIsCall, ValuesAssumption
  <2> QED
    BY <2>1 DEF WaitOK
<1>3. WaitOK'
  BY <1>2 DEF WaitOK, agentVars, CallsOK
<1>4. AgentOK'
  BY DEF AgentOK, agentVars, Current
<1>5. RowsOK' /\ MiscOK'
  BY DEF RowsOK, RowOK, MiscOK, agentVars
<1> QED
  BY <1>1, <1>3, <1>4, <1>5

\* Steps that change rows only, row by row.
LEMMA RowStep ==
    ASSUME Parts, row' \in [Cmd -> Row], \A c \in Cmd : RowOK(c, row'[c], ran),
           UNCHANGED agentVars
    PROVE  RowsOK' /\ AgentOK'
<1>1. AgentOK'
  BY DEF AgentOK, agentVars, Current, Parts
<1> QED
  BY <1>1 DEF RowsOK, RowOK, agentVars

-----------------------------------------------------------------------------
(* The initial state and the steps of each actor.                          *)

\* The invariant holds initially.
LEMMA InitInv == Init => Parts
<1> SUFFICES ASSUME Init PROVE Parts
  OBVIOUS
<1> USE DEF Init
<1>1. NoRow \in Row /\ NoRow.status = "none" /\ NoRow.attempts = 0 /\ NoRow.ended = FALSE
  BY DEF NoRow, Row, Kinds
<1>2. RowsOK
  <2>1. 0 < MaxAttempts /\ 0 <= MaxAttempts
    BY BoundsAssumption
  <2>2. ASSUME NEW c \in Cmd PROVE RowOK(c, NoRow, ran)
    BY <1>1, <2>1 DEF RowOK, Terminal
  <2> HIDE DEF Init
  <2>3. row = [c \in Cmd |-> NoRow]
    BY DEF Init
  <2> QED
    BY <1>1, <2>2, <2>3 DEF RowsOK
<1>3. CallsOK
  BY FreeIsCall DEF CallsOK
<1>4. AgentOK /\ WaitOK /\ MiscOK
  BY ValuesAssumption DEF AgentOK, WaitOK, MiscOK, Result
<1> QED
  BY <1>2, <1>3, <1>4 DEF Parts

\* A new row.
LEMMA InsertKeeps ==
    ASSUME Parts, NEW kind \in Kinds, NEW payload \in Flag \cup {None},
           Insert(kind, payload)
    PROVE  row' \in [Cmd -> Row] /\ \A c \in Cmd : RowOK(c, row'[c], ran)
<1>1. PICK c \in Cmd : row' = [row EXCEPT ![c] = Queued(kind, payload)]
  BY DEF Insert
<1>2. RowOK(c, Queued(kind, payload), ran)
  BY QueuedRow
<1> QED
  BY <1>1, <1>2 DEF Parts, RowsOK, RowOK

\* Steps that put nothing into a slot keep handlers and waiting in order.
LEMMA StillWaiting ==
    ASSUME Parts, UNCHANGED <<calls, batch, awaited, ran>>
    PROVE  CallsOK' /\ WaitOK'
  BY DEF Parts, CallsOK, WaitOK

\* The operator's requests preserve the invariant.
LEMMA OperatorInv == Parts /\ Operator => Parts'
<1> SUFFICES ASSUME Parts, Operator PROVE Parts'
  OBVIOUS
<1>0. CallsOK /\ RowsOK /\ MiscOK
  BY DEF Parts
<1>1. ASSUME NEW kind \in Asked, NEW payload \in Flag \cup {None}, Enqueue(kind, payload)
      PROVE  Parts'
  <2>1. UNCHANGED <<due, calls, crossed, agentVars>> /\ Insert(kind, payload) /\ kind \in Kinds
        /\ desired' \in {desired, payload} /\ (payload \notin Flag => desired' = desired)
    BY <1>1, AskedAssumption DEF Enqueue
  <2>2. RowsOK' /\ AgentOK'
    BY <2>1, InsertKeeps, RowStep
  <2>3. CallsOK' /\ WaitOK'
    BY <2>1, StillWaiting DEF agentVars
  <2> QED
    BY <1>0, <2>1, <2>2, <2>3 DEF Parts, MiscOK
<1>2. ASSUME NEW v \in Flag, CollapseSuspend(v) PROVE Parts'
  <2>1. PICK c \in Cmd : row' = [row EXCEPT ![c].payload = v]
    BY <1>2 DEF CollapseSuspend
  <2>2. RowOK(c, [row[c] EXCEPT !.payload = v], ran)
    BY <1>0, Relabelled DEF RowsOK
  <2>3. row' \in [Cmd -> Row] /\ \A d \in Cmd : RowOK(d, row'[d], ran)
    BY <1>0, <2>1, <2>2 DEF RowsOK, RowOK
  <2>4. RowsOK' /\ AgentOK'
    BY <1>2, <2>3, RowStep DEF CollapseSuspend
  <2>5. CallsOK' /\ WaitOK'
    BY <1>2, StillWaiting DEF agentVars, CollapseSuspend
  <2> QED
    BY <1>0, <1>2, <2>4, <2>5 DEF Parts, MiscOK, CollapseSuspend
<1>3. ASSUME NEW k \in Calls, NEW v \in Flag, SuspendQuery(k, v) PROVE Parts'
  <2> DEFINE x == [Free EXCEPT !.op = "insert", !.kind = "suspend", !.payload = v]
  <2>1. x \in Call /\ x.op = "insert" /\ ~x.loaded /\ x.payload = v
    BY DEF Free, Call, Kinds, Result
  <2>2. calls[k] = Free /\ calls' = [calls EXCEPT ![k] = x]
        /\ UNCHANGED <<row, due, desired, crossed, agentVars>>
    BY <1>3 DEF SuspendQuery
  <2> HIDE DEF x
  <2> QED
    BY <2>1, <2>2, AsideKeeps
<1>4. ASSUME NEW k \in Calls, JobQuery(k) PROVE Parts'
  <2> DEFINE x == [Free EXCEPT !.op = "insert", !.kind = "job"]
  <2>1. x \in Call /\ x.op = "insert" /\ ~x.loaded /\ x.kind = "job"
    BY DEF Free, Call, Kinds, Result
  <2>2. calls[k] = Free /\ calls' = [calls EXCEPT ![k] = x]
        /\ UNCHANGED <<row, due, desired, crossed, agentVars>>
    BY <1>4 DEF JobQuery
  <2> HIDE DEF x
  <2> QED
    BY <2>1, <2>2, AsideKeeps
<1>5. ASSUME NEW k \in Calls, InsertQueried(k) PROVE Parts'
  <2>1. calls[k] \in Call /\ calls[k].kind \in Kinds /\ calls[k].payload \in Flag \cup {None}
        /\ (calls[k].op = "insert" /\ calls[k].kind = "suspend" => calls[k].payload \in Flag)
    BY <1>0 DEF CallsOK, Call
  <2>2. Insert(calls[k].kind, calls[k].payload) /\ UNCHANGED <<due, crossed, agentVars>>
    BY <1>5 DEF InsertQueried
  <2>3. RowsOK' /\ AgentOK'
    BY <2>1, <2>2, InsertKeeps, RowStep
  <2>4. calls' = [calls EXCEPT ![k] = Free] /\ calls[k].op = "insert"
    BY <1>5 DEF InsertQueried
  <2>5. CallsOK'
    BY <1>0, <2>2, <2>4, CallsAfter, FreeIsCall DEF agentVars
  <2>6. awaited # k
    BY <2>4, ValuesAssumption DEF Parts, WaitOK
  <2>7. WaitOK'
    BY <1>0, <2>2, <2>4, <2>6 DEF Parts, WaitOK, agentVars, CallsOK
  <2>8. MiscOK'
    BY <1>5, <1>0, <2>1 DEF MiscOK, InsertQueried
  <2> QED
    BY <2>3, <2>5, <2>7, <2>8 DEF Parts
<1>6. ASSUME NEW k \in Calls, NEW c \in Cmd, Cancel(k, c) PROVE Parts'
  <2> DEFINE x == [Free EXCEPT !.op = "cancel", !.loaded = TRUE, !.cmd = c]
  <2>0. c \in Nat
    BY BoundsAssumption DEF Cmd
  <2>1. x \in Call /\ x.op = "cancel" /\ x.cmd = c
    BY <2>0 DEF Free, Call, Kinds, Result
  <2>2. calls[k] = Free /\ calls' = [calls EXCEPT ![k] = x]
        /\ UNCHANGED <<row, due, desired, crossed, agentVars>>
    BY <1>6 DEF Cancel
  <2> HIDE DEF x
  <2> QED
    BY <2>1, <2>2, AsideKeeps
<1> QED
  BY <1>1, <1>2, <1>3, <1>4, <1>5, <1>6 DEF Operator

\* A request the agent posts and waits for.
LEMMA PostKeeps ==
    ASSUME Parts, NEW k \in Calls, calls[k] = Free, NEW x \in Call,
           calls' = [calls EXCEPT ![k] = x], awaited' = k,
           x.op = (IF batch = {} THEN "poll" ELSE "complete"),
           batch # {} => x.cmd \in Cmd /\ x.result # "none" /\ (x.result = "ok" => x.cmd \in ran),
           ~x.loaded,
           UNCHANGED <<row, due, desired, crossed, batch, outcome, flag, saved, ran>>
    PROVE  Parts'
<1> USE DEF Parts
<1>1. CallsOK'
  BY CallsAfter
<1>2. calls'[k] = x
  BY DEF CallsOK
<1>3. WaitOK'
  BY <1>2 DEF WaitOK
<1>4. AgentOK'
  BY DEF AgentOK, Current
<1>5. RowsOK' /\ MiscOK'
  BY DEF RowsOK, RowOK, MiscOK
<1> QED
  BY <1>1, <1>3, <1>4, <1>5

\* The agent's steps preserve the invariant.
LEMMA AgentInv == Parts /\ Agent => Parts'
<1> SUFFICES ASSUME Parts, Agent PROVE Parts'
  OBVIOUS
<1>0. RowsOK /\ CallsOK /\ AgentOK /\ WaitOK /\ MiscOK
  BY DEF Parts
<1>a. batch # {} => Current \in batch /\ Current.cmd \in Cmd /\ Current.cmd \in Nat
  BY <1>0, CurrentIsDelivered, BoundsAssumption DEF AgentOK, Cmd
<1>1. ASSUME NEW ok \in BOOLEAN, Execute(ok) PROVE Parts'
  <2>1. batch # {} /\ UNCHANGED <<row, due, calls, desired, crossed, batch, awaited>>
    BY <1>1 DEF Execute
  <2>2. /\ ran' \in {ran, ran \cup {Current.cmd}} /\ outcome' \in Result
        /\ outcome' = "ok" => ran' = ran \cup {Current.cmd}
    BY <1>1 DEF Execute, Result
  <2>3. flag' \in Flag /\ saved' \in Flag
    BY <1>0, <1>1, <1>a, <2>1 DEF Execute, AgentOK
  <2>4. Current' = Current
    BY <2>1 DEF Current
  <2>5. AgentOK'
    BY <1>0, <1>a, <2>1, <2>2, <2>3, <2>4 DEF AgentOK
  <2>6. ran \subseteq ran'
    BY <2>2
  <2>7. RowsOK'
    BY <1>0, <2>1, <2>6 DEF RowsOK, RowOK
  <2>8. CallsOK' /\ WaitOK'
    BY <1>0, <2>1, <2>6 DEF CallsOK, WaitOK
  <2> QED
    BY <1>0, <2>1, <2>5, <2>7, <2>8 DEF Parts, MiscOK
<1>2. CASE GiveUp
  <2>1. awaited' = None /\ outcome' = "none" /\ batch' \subseteq batch
        /\ UNCHANGED <<row, due, calls, desired, crossed, flag, saved, ran>>
    BY <1>2 DEF GiveUp, Advance
  <2> QED
    BY <1>0, <2>1 DEF Parts, RowsOK, RowOK, CallsOK, AgentOK, WaitOK, MiscOK, Result
<1>3. CASE Restart
  <2>1. awaited' = None /\ outcome' = "none" /\ batch' = {} /\ flag' = saved
        /\ UNCHANGED <<row, due, calls, desired, crossed, saved, ran>>
    BY <1>3 DEF Restart
  <2> QED
    BY <1>0, <2>1 DEF Parts, RowsOK, RowOK, CallsOK, AgentOK, WaitOK, MiscOK, Result
<1>4. ASSUME NEW k \in Calls, Poll(k) PROVE Parts'
  <2> DEFINE x == [Free EXCEPT !.op = "poll"]
  <2>1. x \in Call /\ x.op = "poll" /\ ~x.loaded
    BY DEF Free, Call, Kinds, Result
  <2>2. calls[k] = Free /\ calls' = [calls EXCEPT ![k] = x] /\ awaited' = k /\ batch = {}
        /\ UNCHANGED <<row, due, desired, crossed, batch, outcome, flag, saved, ran>>
    BY <1>4 DEF Poll
  <2> HIDE DEF x
  <2> QED
    BY <2>1, <2>2, PostKeeps
<1>5. ASSUME NEW k \in Calls, Heartbeat(k) PROVE Parts'
  <2> DEFINE x == [Free EXCEPT !.op = "ack", !.cmd = Current.cmd]
  <2>1. PICK n \in Nat : n = Current.cmd /\ n \in Cmd
    BY <1>5, <1>a DEF Heartbeat
  <2>2. x = [Free EXCEPT !.op = "ack", !.cmd = n]
    BY <2>1
  <2>3. x \in Call /\ x.op = "ack" /\ x.cmd = n /\ ~x.loaded
    BY <2>2 DEF Free, Call, Kinds, Result
  <2>4. calls[k] = Free /\ calls' = [calls EXCEPT ![k] = x]
        /\ UNCHANGED <<row, due, desired, crossed, agentVars>>
    BY <1>5 DEF Heartbeat
  <2> HIDE DEF x
  <2> QED
    BY <2>1, <2>3, <2>4, AsideKeeps
<1>6. ASSUME NEW k \in Calls, Report(k) PROVE Parts'
  <2> DEFINE x == [Free EXCEPT !.op = "complete", !.cmd = Current.cmd, !.result = outcome]
  <2>1. PICK n \in Nat : n = Current.cmd /\ n \in Cmd
    BY <1>6, <1>a DEF Report
  <2>2. PICK res \in Result : res = outcome /\ res # "none"
    BY <1>0, <1>6 DEF AgentOK, Report
  <2>3. x = [Free EXCEPT !.op = "complete", !.cmd = n, !.result = res]
    BY <2>1, <2>2
  <2>4. x \in Call /\ x.op = "complete" /\ x.cmd = n /\ x.result = res /\ ~x.loaded
    BY <2>3 DEF Free, Call, Kinds, Result
  <2>5. calls[k] = Free /\ calls' = [calls EXCEPT ![k] = x] /\ awaited' = k /\ batch # {}
        /\ UNCHANGED <<row, due, desired, crossed, batch, outcome, flag, saved, ran>>
    BY <1>6 DEF Report
  <2>6. res = "ok" => n \in ran
    BY <1>0, <2>1, <2>2, <2>5 DEF AgentOK
  <2> HIDE DEF x
  <2> QED
    BY <2>1, <2>2, <2>4, <2>5, <2>6, PostKeeps
<1> QED
  BY <1>1, <1>2, <1>3, <1>4, <1>5, <1>6 DEF Agent

\* The steps of the agent-plane handlers and of the sweep preserve it.
LEMMA CentralInv == Parts /\ Central => Parts'
<1> SUFFICES ASSUME Parts, Central PROVE Parts'
  OBVIOUS
<1>0. RowsOK /\ CallsOK /\ AgentOK /\ WaitOK /\ MiscOK
  BY DEF Parts
<1>1. ASSUME NEW k \in Calls, Load(k) PROVE Parts'
  <2>1. calls' = [calls EXCEPT ![k].loaded = TRUE] /\ calls[k].op \in {"ack", "complete"}
        /\ UNCHANGED <<row, due, desired, crossed, agentVars>>
    BY <1>1 DEF Load
  <2> DEFINE x == [calls[k] EXCEPT !.loaded = TRUE]
  <2>2. calls[k] \in Call
    BY <1>0 DEF CallsOK
  <2>3. x \in Call /\ x.op = calls[k].op /\ x.cmd = calls[k].cmd /\ x.result = calls[k].result
    BY <1>0, <2>2 DEF Call, CallsOK
  <2>4. calls' = [calls EXCEPT ![k] = x] /\ calls[k].cmd \in Cmd
    BY <1>0, <2>1 DEF CallsOK
  <2>5. calls[k].op = "complete" =>
          calls[k].result # "none" /\ (calls[k].result = "ok" => calls[k].cmd \in ran)
    BY <1>0 DEF CallsOK
  <2> HIDE DEF x
  <2>6. CallsOK'
    BY <1>0, <2>1, <2>3, <2>4, <2>5, CallsAfter DEF agentVars
  <2>7. WaitOK'
    BY <1>0, <2>1, <2>3, <2>4 DEF WaitOK, CallsOK, agentVars
  <2>8. AgentOK'
    BY <1>0, <2>1 DEF AgentOK, agentVars, Current
  <2> QED
    BY <1>0, <2>1, <2>6, <2>7, <2>8 DEF Parts, RowsOK, RowOK, MiscOK, agentVars
<1>2. ASSUME NEW k \in Calls, End(k), UNCHANGED <<row, due, desired, crossed, flag, saved, ran>> PROVE Parts'
  <2>1. CallsOK' /\ AgentOK' /\ WaitOK'
    BY <1>2, EndKeeps
  <2> QED
    BY <1>0, <1>2, <2>1 DEF Parts, RowsOK, RowOK, MiscOK
<1>3. ASSUME NEW k \in Calls, Commit(k) PROVE Parts'
  <2> DEFINE call == calls[k]
             r == row[call.cmd]
             s == CASE call.op = "ack"      -> Acked(r)
                    [] call.op = "complete" -> Completed(r, call.result)
                    [] OTHER                -> Cancelled(r)
  <2>1. call.cmd \in Cmd /\ (call.op = "complete" => call.result \in Result \ {"none"} /\ (call.result = "ok" => call.cmd \in ran))
        /\ call.op \in {"ack", "complete", "cancel"}
    BY <1>0, <1>3 DEF CallsOK, Call, Commit
  <2>2. RowOK(call.cmd, r, ran)
    BY <1>0, <2>1 DEF RowsOK
  <2>3. row' = [row EXCEPT ![call.cmd] = s] /\ End(k) /\ UNCHANGED <<due, desired, crossed, flag, saved, ran>>
    BY <1>3 DEF Commit
  <2>4. RowOK(call.cmd, s, ran)
    <3> HIDE DEF call, r
    <3>1. CASE call.op = "ack"
      <4>1. RowOK(call.cmd, Acked(r), ran)
        BY <2>2, Relabelled, ValuesAssumption DEF Acked
      <4> QED
        BY <3>1, <4>1
    <3>2. CASE call.op = "complete"
      <4>1. RowOK(call.cmd, Completed(r, call.result), ran)
        BY <2>1, <2>2, <3>2, CompletedRow
      <4> QED
        BY <3>2, <4>1
    <3>3. CASE call.op = "cancel"
      <4>1. RowOK(call.cmd, Cancelled(r), ran)
        BY <2>2, CancelledRow
      <4> QED
        BY <3>3, <4>1
    <3> QED
      BY <2>1, <3>1, <3>2, <3>3
  <2> HIDE DEF s
  <2>5. RowsOK'
    BY <1>0, <2>1, <2>3, <2>4 DEF RowsOK, RowOK
  <2>6. CallsOK' /\ AgentOK' /\ WaitOK'
    BY <2>3, EndKeeps
  <2> QED
    BY <1>0, <2>3, <2>5, <2>6 DEF Parts, MiscOK
<1>4. ASSUME NEW skipped, Sweep(skipped) PROVE Parts'
  <2>1. row' = [c \in Cmd |-> IF c \in skipped THEN row[c]
                              ELSE Swept(row[c], SweepDecision(row[c], c \in due))]
        /\ UNCHANGED <<due, calls, desired, agentVars>> /\ crossed' \in BOOLEAN
    BY <1>4 DEF Sweep
  <2>2. ASSUME NEW c \in Cmd PROVE RowOK(c, row'[c], ran)
    <3>1. RowOK(c, row[c], ran)
      BY <1>0 DEF RowsOK
    <3>2. /\ RowOK(c, Swept(row[c], SweepDecision(row[c], TRUE)), ran)
          /\ RowOK(c, Swept(row[c], SweepDecision(row[c], FALSE)), ran)
      BY <3>1, SweptRow
    <3>3. (c \in due) = TRUE \/ (c \in due) = FALSE
      OBVIOUS
    <3> QED
      BY <2>1, <3>1, <3>2, <3>3
  <2>3. row' \in [Cmd -> Row]
    BY <2>1, <2>2 DEF RowOK
  <2>4. RowsOK' /\ AgentOK'
    BY <2>1, <2>2, <2>3, RowStep
  <2>5. CallsOK' /\ WaitOK'
    BY <2>1, StillWaiting DEF agentVars
  <2> QED
    BY <1>0, <2>1, <2>4, <2>5 DEF Parts, MiscOK
<1>5. ASSUME NEW k \in Calls, NEW skipped, Deliver(k, skipped) PROVE Parts'
  <2> DEFINE S == Oldest(Deliverable \ skipped, PollMax)
  <2>1. \A c \in S : c \in Cmd /\ row[c].status = "pending"
    BY DEF Oldest, Deliverable
  <2>2. /\ calls[k].op = "poll"
        /\ row' = [c \in Cmd |-> IF c \in S
                                 THEN [row[c] EXCEPT !.status = "picked_up", !.lease = "fresh",
                                                     !.attempts = row[c].attempts + 1]
                                 ELSE row[c]]
        /\ calls' = [calls EXCEPT ![k] = Free]
        /\ UNCHANGED <<due, desired, outcome, flag, saved, ran>> /\ crossed' \in BOOLEAN
        /\ awaited # k => UNCHANGED <<awaited, batch>>
        /\ awaited = k =>
             /\ awaited' = None
             /\ \/ batch' = {[cmd |-> c, kind |-> row[c].kind, payload |-> row[c].payload] : c \in S}
                \/ batch' = batch
    BY <1>5 DEF Deliver
  <2> HIDE DEF S
  <2>3. ASSUME NEW c \in Cmd PROVE RowOK(c, row'[c], ran)
    <3>1. RowOK(c, row[c], ran)
      BY <1>0 DEF RowsOK
    <3>2. CASE c \in S
      BY <2>1, <2>2, <3>1, <3>2, DeliveredRow
    <3>3. CASE c \notin S
      BY <2>2, <3>1, <3>3
    <3> QED
      BY <3>2, <3>3
  <2>4. row' \in [Cmd -> Row]
    BY <2>2, <2>3 DEF RowOK
  <2>5. RowsOK'
    BY <2>2, <2>3, <2>4 DEF RowsOK, RowOK
  <2>6. CallsOK'
    BY <1>0, <2>2, CallsAfter, FreeIsCall
  <2>7. CASE awaited = k
    <3>1. batch = {} /\ outcome = "none"
      BY <1>0, <2>2, <2>7, ValuesAssumption DEF WaitOK, AgentOK
    <3>2. ASSUME NEW d \in batch' PROVE d \in Delivery
      <4>1. PICK c \in S : d = [cmd |-> c, kind |-> row[c].kind, payload |-> row[c].payload]
        BY <2>2, <2>7, <3>1
      <4>2. row[c] \in Row /\ c \in Cmd
        BY <1>0, <2>1 DEF RowsOK, RowOK
      <4> QED
        BY <4>1, <4>2 DEF Row, Delivery
    <3>3. AgentOK'
      BY <1>0, <2>2, <3>1, <3>2 DEF AgentOK
    <3>4. WaitOK'
      BY <2>2, <2>7 DEF WaitOK
    <3> QED
      BY <1>0, <2>2, <2>5, <2>6, <3>3, <3>4 DEF Parts, MiscOK
  <2>8. CASE awaited # k
    <3>0. Current' = Current
      BY <2>2, <2>8 DEF Current
    <3>1. AgentOK'
      BY <1>0, <2>2, <2>8, <3>0 DEF AgentOK
    <3>2. WaitOK'
      BY <1>0, <2>2, <2>8 DEF WaitOK, CallsOK
    <3> QED
      BY <1>0, <2>2, <2>5, <2>6, <3>1, <3>2 DEF Parts, MiscOK
  <2> QED
    BY <2>7, <2>8
<1>6. ASSUME NEW k \in Calls, Refuse(k) \/ Abort(k) PROVE Parts'
  BY <1>2, <1>6 DEF Refuse, Abort
<1> QED
  BY <1>1, <1>3, <1>4, <1>5, <1>6 DEF Central

\* So does the passing of time.
LEMMA TimeInv == Parts /\ Time => Parts'
<1> SUFFICES ASSUME Parts, Time PROVE Parts'
  OBVIOUS
<1>0. RowsOK /\ CallsOK /\ AgentOK /\ WaitOK /\ MiscOK
  BY DEF Parts
<1>1. ASSUME NEW c \in Cmd, TtlLapse(c) PROVE Parts'
  <2>1. UNCHANGED <<row, calls, desired, crossed, agentVars>> /\ due' = due \cup {c}
    BY <1>1 DEF TtlLapse
  <2>2. CallsOK' /\ WaitOK'
    BY <2>1, StillWaiting DEF agentVars
  <2>3. RowsOK' /\ AgentOK'
    BY <1>0, <2>1, RowStep DEF RowsOK, agentVars
  <2> QED
    BY <1>0, <2>1, <2>2, <2>3 DEF Parts, MiscOK
<1>2. ASSUME NEW c \in Cmd, LeaseLapse(c) PROVE Parts'
  <2>1. UNCHANGED <<due, calls, desired, crossed, agentVars>> /\ row' = [row EXCEPT ![c].lease = "old"]
    BY <1>2 DEF LeaseLapse
  <2>2. RowOK(c, [row[c] EXCEPT !.lease = "old"], ran)
    BY <1>0, Relabelled, ValuesAssumption DEF RowsOK
  <2>3. row' \in [Cmd -> Row] /\ \A d \in Cmd : RowOK(d, row'[d], ran)
    BY <1>0, <2>1, <2>2 DEF RowsOK, RowOK
  <2>4. RowsOK' /\ AgentOK'
    BY <2>1, <2>3, RowStep
  <2>5. CallsOK' /\ WaitOK'
    BY <2>1, StillWaiting DEF agentVars
  <2> QED
    BY <1>0, <2>1, <2>4, <2>5 DEF Parts, MiscOK
<1> QED
  BY <1>1, <1>2 DEF Time

-----------------------------------------------------------------------------
(* The theorems.                                                           *)

\* The invariant of the command channel holds in every reachable state, for any
\* number of commands, handlers and attempts.
THEOREM ChannelInvariance == Spec => []IndInv
<1>1. Init => Parts
  BY InitInv
<1>2. Parts /\ [Next]_vars => Parts'
  <2> SUFFICES ASSUME Parts, [Next]_vars PROVE Parts'
    OBVIOUS
  <2>1. CASE UNCHANGED vars
    BY <2>1 DEF vars, Parts, RowsOK, RowOK, CallsOK, AgentOK, WaitOK, MiscOK, Current
  <2> QED
    BY <2>1, OperatorInv, AgentInv, CentralInv, TimeInv DEF Next
<1>3. Parts => IndInv
  BY PartsOfInv
<1> QED
  BY <1>1, <1>2, <1>3, PTL DEF Spec

\* Rows, requests and the agent keep the shape their fields promise, whatever
\* kinds and payloads enqueue_command accepts: a loaded request is an ack, a
\* complete or a cancel of a row, and the agent holds only what was delivered.
THEOREM ChannelTypes == Spec => []TypeOK
<1>1. IndInv => TypeOK
  BY DEF IndInv
<1> QED
  BY <1>1, ChannelInvariance, PTL

\* No command is delivered more than agent_command_max_attempts times.
THEOREM DeliveryIsBounded == Spec => []DeliveryBounded
<1>1. IndInv => DeliveryBounded
  BY DEF IndInv
<1> QED
  BY <1>1, ChannelInvariance, PTL

\* A command shown as done was executed, and shows the result of that report.
THEOREM DoneMeansRun == Spec => []DoneWasRun
<1>1. IndInv => DoneWasRun
  BY DEF IndInv
<1> QED
  BY <1>1, ChannelInvariance, PTL

\* An ended command is marked as ended and a failed one says why.
THEOREM EndsAreExplained == Spec => []EndIsExplained
<1>1. IndInv => EndIsExplained
  BY DEF IndInv
<1> QED
  BY <1>1, ChannelInvariance, PTL

\* What has ended is never queued or in flight again, whatever copy of the row
\* a handler works on.
THEOREM EndedStaysEnded == Spec => NeverRevived
<1>1. ASSUME IndInv, [Next]_vars, NEW c \in Cmd, row[c].status \in Terminal
      PROVE  row'[c].status \in Terminal
  <2>0. RowsOK /\ CallsOK /\ row[c] \in Row
    BY <1>1, PartsOfInv DEF Parts, RowsOK
  <2>1. CASE row' = row
    BY <1>1, <2>1
  <2>2. ASSUME NEW kind, NEW payload, Insert(kind, payload) PROVE row'[c].status \in Terminal
    BY <1>1, <2>0, <2>2 DEF Insert, RowsOK, Terminal
  <2>3. ASSUME NEW d \in Cmd, NEW v, row' = [row EXCEPT ![d].payload = v] \/ row' = [row EXCEPT ![d].lease = v]
        PROVE  row'[c].status \in Terminal
    BY <1>1, <2>0, <2>3 DEF RowsOK, Row
  <2>4. ASSUME NEW k \in Calls, Commit(k) PROVE row'[c].status \in Terminal
    <3> DEFINE call == calls[k]
               s == CASE call.op = "ack"      -> Acked(row[call.cmd])
                      [] call.op = "complete" -> Completed(row[call.cmd], call.result)
                      [] OTHER                -> Cancelled(row[call.cmd])
    <3>1. call.cmd \in Cmd /\ call.op \in {"ack", "complete", "cancel"}
      BY <2>0, <2>4 DEF CallsOK, Commit
    <3>2. row' = [row EXCEPT ![call.cmd] = s]
      BY <2>4 DEF Commit
    <3>3. call.cmd = c => s.status \in Terminal
      <4>1. ASSUME NEW ok PROVE /\ Acked(row[c]).status = row[c].status
                                /\ Completed(row[c], ok).status \in {"done", "failed"}
                                /\ Cancelled(row[c]).status = "cancelled"
        BY <2>0 DEF Acked, Completed, Cancelled, Row
      <4> QED
        BY <1>1, <3>1, <4>1 DEF Terminal
    <3> HIDE DEF call, s
    <3> QED
      BY <1>1, <2>0, <3>1, <3>2, <3>3 DEF RowsOK
  <2>5. ASSUME NEW skipped, Sweep(skipped) PROVE row'[c].status \in Terminal
    <3>1. \A late : SweepDecision(row[c], late) = "none"
      BY <1>1 DEF SweepDecision, Live, Terminal
    <3>2. Swept(row[c], "none") = row[c]
      BY DEF Swept
    <3> QED
      BY <1>1, <2>5, <3>1, <3>2 DEF Sweep
  <2>6. ASSUME NEW k \in Calls, NEW skipped, Deliver(k, skipped) PROVE row'[c].status \in Terminal
    <3>1. c \notin Oldest(Deliverable \ skipped, PollMax)
      BY <1>1 DEF Oldest, Deliverable, Terminal
    <3> QED
      BY <1>1, <2>6, <3>1 DEF Deliver
  <2>7. CASE Operator
    BY <2>1, <2>2, <2>3, <2>7
       DEF Operator, Enqueue, CollapseSuspend, SuspendQuery, JobQuery, InsertQueried, Cancel
  <2>8. CASE Agent
    BY <2>1, <2>8 DEF Agent, Execute, GiveUp, Restart, Poll, Heartbeat, Report
  <2>9. CASE Central
    BY <2>1, <2>4, <2>5, <2>6, <2>9 DEF Central, Load, Refuse, Abort
  <2>10. CASE Time
    BY <2>1, <2>3, <2>10 DEF Time, TtlLapse, LeaseLapse
  <2> QED
    BY <1>1, <2>1, <2>7, <2>8, <2>9, <2>10 DEF Next, vars
<1>2. IndInv /\ [Next]_vars
        => [\A c \in Cmd : row[c].status \in Terminal => row'[c].status \in Terminal]_vars
  BY <1>1
<1> QED
  BY <1>2, ChannelInvariance, PTL DEF Spec, NeverRevived

-----------------------------------------------------------------------------
(* The suspend toggle.                                                     *)

Toggles == {c \in Cmd : row[c].kind = "suspend"}

InHand(c)    == \E b \in batch : b.cmd = c
Reporting(c) == \E k \in Calls : calls[k].op = "complete" /\ calls[k].cmd = c

\* The toggle is done, or about to be reported as carried out.
Claimed(c) ==
    \/ row[c].status = "done"
    \/ \E k \in Calls : calls[k].op = "complete" /\ calls[k].cmd = c /\ calls[k].result # "error"
    \/ batch # {} /\ Current.cmd = c /\ outcome \in {"ok", "applying"}

\* Rows are filled from the front, and what is in hand, reported or worked on
\* is a row.
QueueInv ==
    /\ \A c \in Cmd : row[c].status = "none" =>
         row[c].kind = "check" /\ \A d \in Cmd : c < d => row[d].status = "none"
    /\ \A b \in batch : row[b.cmd].status # "none" /\ row[b.cmd].kind = b.kind
    /\ \A k \in Calls : calls[k].op \in {"ack", "complete", "cancel"} => row[calls[k].cmd].status # "none"

\* A pending toggle is not being worked on, so what the agent has in hand is
\* what the row says.
FreshInv ==
    /\ \A c \in Toggles : row[c].status = "pending" => ~InHand(c) /\ ~Reporting(c)
    /\ \A b \in batch : b.kind = "suspend" => row[b.cmd].payload = b.payload

\* What is still to be executed is not reported, and not done.
UnrunInv ==
    \A b \in batch : b.kind = "suspend" /\ (b # Current \/ outcome = "none") =>
      row[b.cmd].status # "done" /\ ~Reporting(b.cmd)

\* No toggle is ahead of an older one that is still to come, or in hand.
OrderInv ==
    \A c, d \in Toggles : c < d =>
      /\ row[c].status = "pending" /\ c \notin due =>
           row[d].status \notin {"picked_up", "done"} /\ ~InHand(d) /\ ~Reporting(d)
      /\ InHand(c) => row[d].status # "done" /\ ~Reporting(d)

\* The newest toggle is the operator's wish, and once carried out the agent's
\* state.
WishInv ==
    /\ \A c \in Toggles : (\A d \in Toggles : d <= c) =>
         /\ row[c].payload \in Flag => desired = row[c].payload
         /\ Claimed(c) => row[c].payload \in Flag /\ flag = row[c].payload /\ saved = row[c].payload
    /\ Toggles = {} => flag = Boot /\ saved = Boot /\ desired = Boot

ToggleInv == FreshInv /\ UnrunInv /\ OrderInv /\ WishInv

-----------------------------------------------------------------------------
(* Steps that neither add, hand out, requeue nor execute a command.        *)

\* What such a step does to a row ...
Kept(c) ==
    /\ row'[c].kind = row[c].kind
    /\ row'[c].payload = row[c].payload
    /\ row'[c].status = "none" <=> row[c].status = "none"

Settles(c) ==
    \/ row'[c].status = row[c].status
    \/ row'[c].status \in {"failed", "expired", "cancelled"}
    \/ /\ row'[c].status = "done"
       /\ \E k \in Calls : calls[k].op = "complete" /\ calls[k].cmd = c /\ calls[k].result # "error"

\* ... to the reports on their way ...
NoNewReport ==
    \A k \in Calls : calls'[k].op = "complete" =>
      calls[k].op = "complete" /\ calls'[k].cmd = calls[k].cmd /\ calls'[k].result = calls[k].result

\* ... and to the agent.
AgentQuiet ==
    /\ saved' = saved
    /\ \/ UNCHANGED <<batch, outcome, flag>>
       \/ batch' = {} /\ outcome' = "none" /\ flag' \in {flag, saved}
       \/ batch # {} /\ batch' = batch \ {Current} /\ outcome' = "none" /\ flag' = flag

Quiet ==
    /\ \A c \in Cmd : Kept(c) /\ Settles(c)
    /\ NoNewReport
    /\ AgentQuiet
    /\ UNCHANGED <<desired, crossed>>
    /\ due \subseteq due'

\* Freeing a slot, or using one for anything but a report, adds no report.
LEMMA SlotIsNoReport ==
    ASSUME Parts, NEW k \in Calls, NEW x, calls' = [calls EXCEPT ![k] = x],
           x.op = "complete" => /\ calls[k].op = "complete" /\ x.cmd = calls[k].cmd
                                /\ x.result = calls[k].result
    PROVE  NoNewReport
BY DEF NoNewReport, Parts, CallsOK

\* A request that ends is quiet when the rows are.
LEMMA EndIsQuiet ==
    ASSUME Parts, NEW k \in Calls, End(k), UNCHANGED <<due, desired, crossed, flag, saved>>,
           \A c \in Cmd : Kept(c) /\ Settles(c)
    PROVE  Quiet
<1>1. NoNewReport
  BY SlotIsNoReport, FreeIsCall DEF End
<1>2. AgentQuiet
  BY DEF AgentQuiet, End, Advance
<1> QED
  BY <1>1, <1>2 DEF Quiet

\* A commit of ack, complete or cancel.
LEMMA CommitIsQuiet ==
    ASSUME Parts, QueueInv, NEW k \in Calls, Commit(k)
    PROVE  Quiet
<1> DEFINE call == calls[k]
           r == row[call.cmd]
           s == CASE call.op = "ack"      -> Acked(r)
                  [] call.op = "complete" -> Completed(r, call.result)
                  [] OTHER                -> Cancelled(r)
<1>1. /\ row' = [row EXCEPT ![call.cmd] = s] /\ End(k)
      /\ UNCHANGED <<due, desired, crossed, flag, saved, ran>> /\ call.loaded
  BY DEF Commit
<1>2. call.cmd \in Cmd /\ r.status # "none" /\ r \in Row /\ call.op \in {"ack", "complete", "cancel"}
  BY <1>1 DEF Parts, CallsOK, QueueInv, RowsOK
<1>3. /\ s.kind = r.kind /\ s.payload = r.payload /\ s.status # "none"
      /\ \/ s.status = r.status
         \/ s.status \in {"failed", "cancelled"}
         \/ s.status = "done" /\ call.op = "complete" /\ call.result # "error"
  <2>1. CASE call.op = "ack"
    <3>1. s = [r EXCEPT !.lease = "fresh"]
      BY <2>1 DEF Acked
    <3> QED
      BY <1>2, <3>1 DEF Row
  <2>2. CASE call.op = "complete" /\ call.result = "error"
    <3>1. s = [r EXCEPT !.status = "failed", !.result = "error", !.ended = TRUE]
      BY <2>2 DEF Completed
    <3> QED
      BY <1>2, <3>1 DEF Row
  <2>3. CASE call.op = "complete" /\ call.result # "error"
    <3>1. s = [r EXCEPT !.status = "done", !.result = call.result, !.ended = TRUE]
      BY <2>3 DEF Completed
    <3> QED
      BY <1>2, <2>3, <3>1 DEF Row
  <2>4. CASE call.op = "cancel"
    <3>1. s = [r EXCEPT !.status = "cancelled", !.ended = TRUE]
      BY <2>4 DEF Cancelled
    <3> QED
      BY <1>2, <3>1 DEF Row
  <2> QED
    BY <1>2, <2>1, <2>2, <2>3, <2>4
<1>4. row'[call.cmd] = s /\ \A c \in Cmd : c # call.cmd => row'[c] = row[c]
  BY <1>1, <1>2 DEF Parts, RowsOK
<1> HIDE DEF s
<1>5. ASSUME NEW c \in Cmd PROVE Kept(c) /\ Settles(c)
  <2>1. CASE c = call.cmd
    BY <1>2, <1>3, <1>4, <2>1 DEF Kept, Settles
  <2>2. CASE c # call.cmd
    BY <1>4, <2>2 DEF Kept, Settles
  <2> QED
    BY <2>1, <2>2
<1> QED
  BY <1>1, <1>5, EndIsQuiet

\* The rows stand still.
LEMMA StillRows ==
    ASSUME row' = row
    PROVE  \A c \in Cmd : Kept(c) /\ Settles(c)
BY DEF Kept, Settles

\* Every step but seven is quiet.
LEMMA Steps ==
    ASSUME Parts, QueueInv, [Next]_vars
    PROVE  \/ \E kind \in Kinds, payload \in Flag \cup {None} : Enqueue(kind, payload)
           \/ \E k \in Calls : InsertQueried(k) \/ Report(k)
           \/ \E v \in Flag : CollapseSuspend(v)
           \/ \E ok \in BOOLEAN : Execute(ok)
           \/ \E skipped : Sweep(skipped) \/ \E k \in Calls : Deliver(k, skipped)
           \/ Quiet
<1>1. ASSUME row' = row, AgentQuiet, NoNewReport, UNCHANGED <<desired, crossed>>, due \subseteq due'
      PROVE  Quiet
  BY <1>1, StillRows DEF Quiet
<1>2. calls' = calls => NoNewReport
  BY DEF NoNewReport
<1>3. UNCHANGED agentVars => AgentQuiet
  BY DEF agentVars, AgentQuiet
<1>4. ASSUME NEW k \in Calls, NEW v \in Flag, SuspendQuery(k, v) PROVE Quiet
  <2>1. NoNewReport
    BY <1>4, SlotIsNoReport DEF SuspendQuery, Free
  <2> QED
    BY <1>1, <1>3, <1>4, <2>1 DEF SuspendQuery
<1>5. ASSUME NEW k \in Calls, JobQuery(k) PROVE Quiet
  <2>1. NoNewReport
    BY <1>5, SlotIsNoReport DEF JobQuery, Free
  <2> QED
    BY <1>1, <1>3, <1>5, <2>1 DEF JobQuery
<1>6. ASSUME NEW k \in Calls, NEW c \in Cmd, Cancel(k, c) PROVE Quiet
  <2>1. NoNewReport
    BY <1>6, SlotIsNoReport DEF Cancel, Free
  <2> QED
    BY <1>1, <1>3, <1>6, <2>1 DEF Cancel
<1>7. ASSUME NEW k \in Calls, Poll(k) PROVE Quiet
  <2>1. NoNewReport
    BY <1>7, SlotIsNoReport DEF Poll, Free
  <2> QED
    BY <1>1, <1>7, <2>1 DEF Poll, AgentQuiet
<1>8. ASSUME NEW k \in Calls, Heartbeat(k) PROVE Quiet
  <2>1. NoNewReport
    BY <1>8, SlotIsNoReport DEF Heartbeat, Free
  <2> QED
    BY <1>1, <1>3, <1>8, <2>1 DEF Heartbeat
<1>9. ASSUME NEW k \in Calls, Load(k) PROVE Quiet
  <2> DEFINE x == [calls[k] EXCEPT !.loaded = TRUE]
  <2>1. calls' = [calls EXCEPT ![k] = x] /\ UNCHANGED <<row, due, desired, crossed, agentVars>>
    BY <1>9 DEF Load
  <2>2. x.op = calls[k].op /\ x.cmd = calls[k].cmd /\ x.result = calls[k].result
    BY DEF Parts, CallsOK, Call
  <2> HIDE DEF x
  <2>3. NoNewReport
    BY <2>1, <2>2, SlotIsNoReport
  <2> QED
    BY <1>1, <1>3, <2>1, <2>3
<1>10. ASSUME NEW k \in Calls, Refuse(k) \/ Abort(k) PROVE Quiet
  <2>1. End(k) /\ UNCHANGED <<row, due, desired, crossed, flag, saved, ran>>
    BY <1>10 DEF Refuse, Abort
  <2> QED
    BY <2>1, StillRows, EndIsQuiet
<1>11. CASE GiveUp
  <2>1. AgentQuiet
    BY <1>11 DEF GiveUp, Advance, AgentQuiet
  <2> QED
    BY <1>1, <1>2, <1>11, <2>1 DEF GiveUp
<1>12. CASE Restart
  BY <1>1, <1>2, <1>12 DEF Restart, AgentQuiet
<1>13. ASSUME NEW c \in Cmd, TtlLapse(c) PROVE Quiet
  BY <1>1, <1>2, <1>3, <1>13 DEF TtlLapse
<1>14. ASSUME NEW c \in Cmd, LeaseLapse(c) PROVE Quiet
  <2>1. row' = [row EXCEPT ![c].lease = "old"] /\ UNCHANGED <<due, calls, desired, crossed, agentVars>>
    BY <1>14 DEF LeaseLapse
  <2>2. \A d \in Cmd : row[d] \in Row
    BY DEF Parts, RowsOK
  <2>3. ASSUME NEW d \in Cmd PROVE Kept(d) /\ Settles(d)
    <3>1. CASE d = c
      <4>1. row'[d] = [row[d] EXCEPT !.lease = "old"]
        BY <2>1, <3>1 DEF Parts, RowsOK
      <4> QED
        BY <2>2, <4>1 DEF Kept, Settles, Row
    <3>2. CASE d # c
      <4>1. row'[d] = row[d]
        BY <2>1, <3>2 DEF Parts, RowsOK
      <4> QED
        BY <4>1 DEF Kept, Settles
    <3> QED
      BY <3>1, <3>2
  <2> QED
    BY <1>2, <1>3, <2>1, <2>3 DEF Quiet
<1>15. CASE Operator
  BY <1>4, <1>5, <1>6, <1>15, AskedAssumption DEF Operator
<1>16. CASE Agent
  BY <1>7, <1>8, <1>11, <1>12, <1>16 DEF Agent
<1>17. CASE Central
  BY <1>9, <1>10, <1>17, CommitIsQuiet DEF Central
<1>18. CASE Time
  BY <1>13, <1>14, <1>18 DEF Time
<1>19. CASE UNCHANGED vars
  <2>1. AgentQuiet
    BY <1>19 DEF vars, AgentQuiet
  <2> QED
    BY <1>1, <1>2, <1>19, <2>1 DEF vars
<1> QED
  BY <1>15, <1>16, <1>17, <1>18, <1>19 DEF Next

-----------------------------------------------------------------------------
(* The queue: rows, requests and batch agree.                              *)

Touches(x) == x.op \in {"ack", "complete", "cancel"}

\* A request for a command is an old one, or for one that exists.
LEMMA Slots ==
    ASSUME Parts, QueueInv, [Next]_vars, NEW k \in Calls, Touches(calls'[k])
    PROVE  \/ Touches(calls[k]) /\ calls'[k].cmd = calls[k].cmd
           \/ calls'[k].cmd \in Cmd /\ row[calls'[k].cmd].status # "none" /\ row' = row
<1> USE DEF Parts, CallsOK
<1>0. calls[k] \in Call /\ Free \in Call /\ ~Touches(Free)
  BY FreeIsCall DEF Touches
<1>a. batch # {} => Current \in batch /\ Current.cmd \in Cmd /\ row[Current.cmd].status # "none"
  BY CurrentIsDelivered DEF AgentOK, QueueInv
<1>1. CASE UNCHANGED calls
  BY <1>1
<1>2. ASSUME NEW j \in Calls, calls' = [calls EXCEPT ![j] = Free]
      PROVE  Touches(calls[k]) /\ calls'[k].cmd = calls[k].cmd
  BY <1>0, <1>2
<1>3. ASSUME NEW j \in Calls, NEW x, ~Touches(x), calls' = [calls EXCEPT ![j] = x]
      PROVE  Touches(calls[k]) /\ calls'[k].cmd = calls[k].cmd
  BY <1>3
<1>4. ASSUME NEW j \in Calls, NEW x, NEW c \in Cmd, calls' = [calls EXCEPT ![j] = x], x.cmd = c,
             row[c].status # "none", row' = row
      PROVE  \/ Touches(calls[k]) /\ calls'[k].cmd = calls[k].cmd
             \/ calls'[k].cmd \in Cmd /\ row[calls'[k].cmd].status # "none" /\ row' = row
  BY <1>4
<1>5. ASSUME NEW j \in Calls, NEW v \in Flag, SuspendQuery(j, v)
      PROVE  Touches(calls[k]) /\ calls'[k].cmd = calls[k].cmd
  BY <1>3, <1>5 DEF SuspendQuery, Free, Touches
<1>6. ASSUME NEW j \in Calls, JobQuery(j) \/ Poll(j)
      PROVE  Touches(calls[k]) /\ calls'[k].cmd = calls[k].cmd
  BY <1>3, <1>6 DEF JobQuery, Poll, Free, Touches
<1>7. ASSUME NEW j \in Calls, NEW c \in Cmd, Cancel(j, c)
      PROVE  \/ Touches(calls[k]) /\ calls'[k].cmd = calls[k].cmd
             \/ calls'[k].cmd \in Cmd /\ row[calls'[k].cmd].status # "none" /\ row' = row
  BY <1>4, <1>7 DEF Cancel, Free, Live
<1>8. ASSUME NEW j \in Calls, Heartbeat(j) \/ Report(j)
      PROVE  \/ Touches(calls[k]) /\ calls'[k].cmd = calls[k].cmd
             \/ calls'[k].cmd \in Cmd /\ row[calls'[k].cmd].status # "none" /\ row' = row
  <2>1. PICK c \in Cmd : c = Current.cmd /\ row[c].status # "none"
    BY <1>8, <1>a DEF Heartbeat, Report
  <2>2. CASE Heartbeat(j)
    BY <1>4, <2>1, <2>2 DEF Heartbeat, Free
  <2>3. CASE Report(j)
    BY <1>4, <2>1, <2>3 DEF Report, Free
  <2> QED
    BY <1>8, <2>2, <2>3
<1>9. ASSUME NEW j \in Calls, Load(j)
      PROVE  Touches(calls[k]) /\ calls'[k].cmd = calls[k].cmd
  <2>1. calls' = [calls EXCEPT ![j].loaded = TRUE] /\ Touches(calls[j])
    BY <1>9 DEF Load, Touches
  <2>2. CASE j = k
    <3>1. calls'[k] = [calls[k] EXCEPT !.loaded = TRUE]
      BY <2>1, <2>2
    <3> QED
      BY <1>0, <2>1, <2>2, <3>1 DEF Call
  <2>3. CASE j # k
    BY <2>1, <2>3
  <2> QED
    BY <2>2, <2>3
<1>10. CASE Operator
  BY <1>1, <1>2, <1>5, <1>6, <1>7, <1>10 DEF Operator, Enqueue, CollapseSuspend, InsertQueried
<1>11. CASE Agent
  BY <1>1, <1>6, <1>8, <1>11 DEF Agent, Execute, GiveUp, Restart
<1>12. CASE Central
  BY <1>1, <1>2, <1>9, <1>12 DEF Central, Refuse, Abort, Commit, End, Sweep, Deliver
<1>13. CASE Time
  BY <1>1, <1>13 DEF Time, TtlLapse, LeaseLapse
<1> QED
  BY <1>1, <1>10, <1>11, <1>12, <1>13 DEF Next, vars

\* What an insert does: it fills the first unused row.
LEMMA InsertedRow ==
    ASSUME Parts, QueueInv, NEW kind, NEW payload, Insert(kind, payload)
    PROVE  \E c \in Cmd :
             /\ row[c].status = "none" /\ row[c].kind = "check"
             /\ \A d \in Cmd : d < c => row[d].status # "none"
             /\ \A d \in Cmd : c < d => row[d].status = "none" /\ row[d].kind = "check"
             /\ row'[c].status = "pending" /\ row'[c].kind = kind /\ row'[c].payload = payload
             /\ \A d \in Cmd : d # c => row'[d] = row[d]
<1>1. PICK c \in Cmd : /\ row[c].status = "none"
                       /\ \A d \in Cmd : d < c => row[d].status # "none"
                       /\ row' = [row EXCEPT ![c] = Queued(kind, payload)]
  BY DEF Insert
<1>2. row'[c] = Queued(kind, payload) /\ \A d \in Cmd : d # c => row'[d] = row[d]
  BY <1>1 DEF Parts, RowsOK
<1>3. /\ Queued(kind, payload).status = "pending" /\ Queued(kind, payload).kind = kind
      /\ Queued(kind, payload).payload = payload
  BY DEF Queued
<1> QED
  BY <1>1, <1>2, <1>3 DEF QueueInv

\* What a collapse does.
LEMMA CollapsedRow ==
    ASSUME Parts, NEW v \in Flag, CollapseSuspend(v)
    PROVE  \E c \in Cmd : /\ row[c].kind = "suspend" /\ row[c].status = "pending"
                          /\ row'[c].payload = v /\ crossed' = (crossed \/ Newer(c) # {})
                          /\ \A d \in Cmd : row'[d].status = row[d].status /\ row'[d].kind = row[d].kind
                          /\ \A d \in Cmd : d # c => row'[d] = row[d]
<1>0. \A c \in Cmd : row[c] \in Row
  BY DEF Parts, RowsOK
<1>1. PICK c \in Cmd : /\ row[c].kind = "suspend" /\ row[c].status = "pending"
                       /\ row' = [row EXCEPT ![c].payload = v]
                       /\ crossed' = (crossed \/ Newer(c) # {})
  BY DEF CollapseSuspend
<1>2. row'[c] = [row[c] EXCEPT !.payload = v] /\ \A d \in Cmd : d # c => row'[d] = row[d]
  BY <1>1 DEF Parts, RowsOK
<1>3. row'[c].status = row[c].status /\ row'[c].kind = row[c].kind /\ row'[c].payload = v
  BY <1>0, <1>2 DEF Row
<1> QED
  BY <1>1, <1>2, <1>3

\* What the sweep does: it ends rows, or gives them back to the queue.
LEMMA SweptRows ==
    ASSUME Parts, NEW skipped, Sweep(skipped), NEW c \in Cmd
    PROVE  /\ Kept(c)
           /\ \/ row'[c].status = row[c].status
              \/ row'[c].status \in {"failed", "expired"}
              \/ row[c].status = "picked_up" /\ row'[c].status = "pending"
<1> DEFINE d == SweepDecision(row[c], c \in due)
           s == Swept(row[c], d)
<1>0. row[c] \in Row
  BY DEF Parts, RowsOK
<1>1. row'[c] = row[c] \/ row'[c] = s
  BY DEF Sweep
<1>2. CASE d = "expire"
  <2>1. s = [row[c] EXCEPT !.status = "expired", !.ended = TRUE] /\ row[c].status \in Live
    BY <1>2 DEF Swept, SweepDecision
  <2>2. s.status = "expired" /\ s.kind = row[c].kind /\ s.payload = row[c].payload
    BY <1>0, <2>1 DEF Row
  <2> QED
    BY <1>1, <2>1, <2>2 DEF Kept, Live
<1>3. CASE d = "exhaust"
  <2>1. s = [row[c] EXCEPT !.status = "failed", !.result = "exhausted", !.ended = TRUE]
        /\ row[c].status \in Live
    BY <1>3 DEF Swept, SweepDecision
  <2>2. s.status = "failed" /\ s.kind = row[c].kind /\ s.payload = row[c].payload
    BY <1>0, <2>1 DEF Row
  <2> QED
    BY <1>1, <2>1, <2>2 DEF Kept, Live
<1>4. CASE d = "redeliver"
  <2>1. s = [row[c] EXCEPT !.status = "pending", !.lease = "unset"] /\ row[c].status = "picked_up"
    BY <1>4 DEF Swept, SweepDecision
  <2>2. s.status = "pending" /\ s.kind = row[c].kind /\ s.payload = row[c].payload
    BY <1>0, <2>1 DEF Row
  <2> QED
    BY <1>1, <2>1, <2>2 DEF Kept
<1>5. CASE d \notin {"expire", "exhaust", "redeliver"}
  <2>1. s = row[c]
    BY <1>5 DEF Swept
  <2> QED
    BY <1>1, <2>1 DEF Kept
<1> QED
  BY <1>2, <1>3, <1>4, <1>5

\* What a poll does: pending commands are handed out, to an agent with nothing
\* in hand or to none.
LEMMA DeliveredRows ==
    ASSUME Parts, NEW k \in Calls, NEW skipped, Deliver(k, skipped)
    PROVE  \E S \in SUBSET Cmd :
             /\ \A c \in S : row[c].status = "pending" /\ c \notin due /\ row'[c].status = "picked_up"
             /\ \A c \in Cmd \ S : row'[c] = row[c]
             /\ \A c \in Cmd : Kept(c)
             /\ \/ batch' = batch
                \/ /\ batch = {} /\ outcome = "none"
                   /\ \A b \in batch' : b.cmd \in S /\ b.kind = row[b.cmd].kind /\ b.payload = row[b.cmd].payload
             /\ ~crossed' => /\ ~crossed
                             /\ \A c \in Toggles \ S, d \in Toggles :
                                  row[c].status = "pending" /\ c \notin due /\ c < d => d \notin S
<1> DEFINE S == Oldest(Deliverable \ skipped, PollMax)
<1>1. \A c \in S : c \in Cmd /\ row[c].status = "pending" /\ c \notin due
  BY DEF Oldest, Deliverable
<1>2. /\ row' = [c \in Cmd |-> IF c \in S
                               THEN [row[c] EXCEPT !.status = "picked_up", !.lease = "fresh",
                                                   !.attempts = row[c].attempts + 1]
                               ELSE row[c]]
      /\ calls[k].op = "poll"
      /\ batch' # batch =>
           /\ awaited = k
           /\ batch' = {[cmd |-> c, kind |-> row[c].kind, payload |-> row[c].payload] : c \in S}
      /\ crossed' = (crossed \/ \E c \in Deliverable \ S : row[c].kind = "suspend" /\ Newer(c) \cap S # {})
  BY DEF Deliver
<1> HIDE DEF S
<1>3. \A c \in Cmd : row[c] \in Row
  BY DEF Parts, RowsOK
<1>4. ASSUME NEW c \in S
      PROVE  row'[c].status = "picked_up" /\ row'[c].kind = row[c].kind /\ row'[c].payload = row[c].payload
  <2>1. PICK n : n = row[c].attempts + 1
    OBVIOUS
  <2>2. row'[c] = [row[c] EXCEPT !.status = "picked_up", !.lease = "fresh", !.attempts = n]
    BY <1>1, <1>2, <2>1
  <2> QED
    BY <1>1, <1>3, <2>2 DEF Row
<1>5. \A c \in Cmd \ S : row'[c] = row[c]
  BY <1>2
<1>6. \A c \in Cmd : Kept(c)
  BY <1>1, <1>4, <1>5 DEF Kept
<1>7. batch' # batch => batch = {} /\ outcome = "none"
  BY <1>2, ValuesAssumption DEF Parts, WaitOK, AgentOK
<1>8. ASSUME batch' # batch, NEW b \in batch'
      PROVE  b.cmd \in S /\ b.kind = row[b.cmd].kind /\ b.payload = row[b.cmd].payload
  <2>1. PICK c \in S : b = [cmd |-> c, kind |-> row[c].kind, payload |-> row[c].payload]
    BY <1>2, <1>8
  <2> QED
    BY <2>1
<1>9. ASSUME ~crossed', NEW c \in Toggles \ S, NEW d \in Toggles,
             row[c].status = "pending", c \notin due, c < d
      PROVE  d \notin S
  <2>1. c \in Deliverable \ S /\ row[c].kind = "suspend"
    BY <1>9 DEF Deliverable, Toggles
  <2>2. d \in Newer(c)
    BY <1>9 DEF Newer, Toggles
  <2> QED
    BY <1>2, <1>9, <2>1, <2>2
<1>10. S \in SUBSET Cmd
  BY <1>1
<1>11. ~crossed' => ~crossed
  BY <1>2
<1> WITNESS S \in SUBSET Cmd
<1> QED
  BY <1>1, <1>4, <1>5, <1>6, <1>7, <1>8, <1>9, <1>11

\* The queue discipline is kept.
LEMMA QueueStep ==
    ASSUME Parts, QueueInv, [Next]_vars
    PROVE  QueueInv'
<1>0. \A b \in batch : b.cmd \in Cmd
  BY DEF Parts, AgentOK, Delivery
<1>1. ASSUME NEW kind, NEW payload, Insert(kind, payload), batch' = batch,
             \A k \in Calls : Touches(calls'[k]) => calls'[k] = calls[k]
      PROVE  QueueInv'
  <2>1. PICK c \in Cmd :
          /\ row[c].status = "none" /\ row[c].kind = "check"
          /\ \A d \in Cmd : d < c => row[d].status # "none"
          /\ \A d \in Cmd : c < d => row[d].status = "none" /\ row[d].kind = "check"
          /\ row'[c].status = "pending" /\ row'[c].kind = kind /\ row'[c].payload = payload
          /\ \A d \in Cmd : d # c => row'[d] = row[d]
    BY <1>1, InsertedRow
  <2>2. ASSUME NEW b \in Cmd, row'[b].status = "none"
        PROVE  row'[b].kind = "check" /\ \A d \in Cmd : b < d => row'[d].status = "none"
    <3>1. b # c /\ row[b].status = "none"
      BY <2>1, <2>2
    <3>2. ~(b < c)
      BY <2>1, <3>1
    <3>3. \A d \in Cmd : b < d => c # d
      BY <3>2
    <3> QED
      BY <2>1, <3>1, <3>3 DEF QueueInv
  <2>3. \A b \in batch : row'[b.cmd].status # "none" /\ row'[b.cmd].kind = b.kind
    BY <1>0, <2>1 DEF QueueInv
  <2>4. ASSUME NEW k \in Calls, Touches(calls'[k]) PROVE row'[calls'[k].cmd].status # "none"
    <3>1. calls[k].cmd \in Cmd /\ row[calls[k].cmd].status # "none" /\ calls'[k] = calls[k]
      BY <1>1, <2>4 DEF Touches, Parts, CallsOK, QueueInv
    <3> QED
      BY <2>1, <3>1
  <2> QED
    BY <1>1, <2>2, <2>3, <2>4 DEF QueueInv, Touches
<1>2. ASSUME \A c \in Cmd : row'[c].kind = row[c].kind /\ (row'[c].status = "none" <=> row[c].status = "none"),
             \A b \in batch' : b \in batch \/ (b.cmd \in Cmd /\ row[b.cmd].status # "none" /\ row[b.cmd].kind = b.kind)
      PROVE  QueueInv'
  <2>1. ASSUME NEW k \in Calls, Touches(calls'[k]) PROVE row'[calls'[k].cmd].status # "none"
    <3>1. CASE Touches(calls[k]) /\ calls'[k].cmd = calls[k].cmd
      BY <1>2, <3>1 DEF Touches, Parts, CallsOK, QueueInv
    <3>2. CASE calls'[k].cmd \in Cmd /\ row[calls'[k].cmd].status # "none"
      BY <1>2, <3>2
    <3> QED
      BY <2>1, <3>1, <3>2, Slots
  <2>2. \A b \in batch' : row'[b.cmd].status # "none" /\ row'[b.cmd].kind = b.kind
    BY <1>0, <1>2 DEF QueueInv
  <2> QED
    BY <1>2, <2>1, <2>2 DEF QueueInv, Touches
<1>3. CASE \E kind \in Kinds, payload \in Flag \cup {None} : Enqueue(kind, payload)
  BY <1>1, <1>3 DEF Enqueue, agentVars
<1>4. ASSUME NEW k \in Calls, InsertQueried(k) PROVE QueueInv'
  <2>1. \A j \in Calls : Touches(calls'[j]) => calls'[j] = calls[j]
    BY <1>4, FreeIsCall DEF InsertQueried, Touches, Parts, CallsOK
  <2> QED
    BY <1>1, <1>4, <2>1 DEF InsertQueried, agentVars
<1>5. ASSUME NEW v \in Flag, CollapseSuspend(v) PROVE QueueInv'
  BY <1>2, <1>5, CollapsedRow DEF CollapseSuspend, agentVars
<1>6. ASSUME NEW ok \in BOOLEAN, Execute(ok) PROVE QueueInv'
  BY <1>2, <1>6 DEF Execute
<1>7. ASSUME NEW k \in Calls, Report(k) PROVE QueueInv'
  BY <1>2, <1>7 DEF Report
<1>8. ASSUME NEW skipped, Sweep(skipped) PROVE QueueInv'
  <2>1. \A c \in Cmd : Kept(c)
    BY <1>8, SweptRows
  <2> QED
    BY <1>2, <1>8, <2>1 DEF Kept, Sweep, agentVars
<1>9. ASSUME NEW k \in Calls, NEW skipped, Deliver(k, skipped) PROVE QueueInv'
  <2>1. PICK S \in SUBSET Cmd :
          /\ \A c \in S : row[c].status = "pending"
          /\ \A c \in Cmd : Kept(c)
          /\ \/ batch' = batch
             \/ \A b \in batch' : b.cmd \in S /\ b.kind = row[b.cmd].kind /\ b.payload = row[b.cmd].payload
    BY <1>9, DeliveredRows
  <2> QED
    BY <1>2, <2>1 DEF Kept
<1>10. CASE Quiet
  <2>1. batch' \subseteq batch
    BY <1>10 DEF Quiet, AgentQuiet
  <2> QED
    BY <1>2, <1>10, <2>1 DEF Quiet, Kept
<1> QED
  BY <1>3, <1>4, <1>5, <1>6, <1>7, <1>8, <1>9, <1>10, Steps

LEMMA QueueInit == Init => QueueInv
BY FreeIsCall DEF Init, QueueInv, NoRow

-----------------------------------------------------------------------------
(* The toggles, as long as they have not crossed.                          *)

LEMMA ToggleInit == Init => ToggleInv
<1> SUFFICES ASSUME Init PROVE ToggleInv
  OBVIOUS
<1>1. Toggles = {}
  BY DEF Init, Toggles, NoRow
<1> QED
  BY <1>1, FreeIsCall DEF Init, ToggleInv, FreshInv, UnrunInv, OrderInv, WishInv

\* Two deliveries of one toggle in hand are the same.
LEMMA OneDelivery ==
    ASSUME Parts, QueueInv, FreshInv, NEW a \in batch, NEW b \in batch,
           a.cmd = b.cmd, a.kind = "suspend"
    PROVE  a = b
<1>1. a \in Delivery /\ b \in Delivery
  BY DEF Parts, AgentOK
<1>2. a.kind = b.kind
  BY DEF QueueInv
<1>3. a.payload = b.payload
  BY <1>2 DEF FreshInv
<1> QED
  BY <1>1, <1>2, <1>3 DEF Delivery

LEMMA ToggleQuiet ==
    ASSUME Parts, QueueInv, ToggleInv, Quiet
    PROVE  ToggleInv'
<1> USE DEF ToggleInv
<1>1. /\ \A c \in Cmd : row'[c].kind = row[c].kind /\ row'[c].payload = row[c].payload
      /\ \A c \in Cmd : Settles(c)
      /\ UNCHANGED <<desired, saved>> /\ due \subseteq due'
      /\ batch' \subseteq batch /\ flag' \in {flag, saved}
  BY DEF Quiet, Kept, AgentQuiet
<1>2. Toggles' = Toggles /\ Toggles \subseteq Cmd
  BY <1>1 DEF Toggles
<1>3. \A b \in batch : b.cmd \in Cmd /\ (b.kind = "suspend" => b.cmd \in Toggles)
  BY DEF Parts, AgentOK, Delivery, QueueInv, Toggles
<1>4. \A c : Reporting(c)' => Reporting(c)
  BY DEF Quiet, NoNewReport, Reporting
<1>5. \A c : InHand(c)' => InHand(c)
  BY <1>1 DEF InHand
<1>6. \A c \in Cmd : /\ row'[c].status = "pending" => row[c].status = "pending"
                     /\ row'[c].status = "picked_up" => row[c].status = "picked_up"
                     /\ row'[c].status = "done" => row[c].status = "done" \/ Reporting(c)
  BY <1>1 DEF Settles, Reporting
<1>7. FreshInv'
  BY <1>1, <1>2, <1>3, <1>4, <1>5, <1>6 DEF FreshInv
<1>8. OrderInv'
  BY <1>1, <1>2, <1>4, <1>5, <1>6 DEF OrderInv
<1>9. UnrunInv'
  <2>1. ASSUME NEW b \in batch', b.kind = "suspend", b # Current' \/ outcome' = "none"
        PROVE  row[b.cmd].status # "done" /\ ~Reporting(b.cmd)
    <3>1. CASE UNCHANGED <<batch, outcome, flag>>
      <4>1. Current' = Current
        BY <3>1 DEF Current
      <4> QED
        BY <2>1, <3>1, <4>1 DEF UnrunInv
    <3>2. CASE batch' = batch \ {Current}
      BY <2>1, <3>2 DEF UnrunInv
    <3>3. CASE batch' = {}
      BY <2>1, <3>3
    <3> QED
      BY <3>1, <3>2, <3>3 DEF Quiet, AgentQuiet
  <2> QED
    BY <1>1, <1>3, <1>4, <1>6, <2>1 DEF UnrunInv
<1>10. WishInv'
  <2>1. ASSUME NEW c \in Toggles, Claimed(c)' PROVE Claimed(c)
    <3>1. CASE row'[c].status = "done"
      BY <1>1, <1>2, <3>1 DEF Settles, Claimed
    <3>2. CASE \E k \in Calls : calls'[k].op = "complete" /\ calls'[k].cmd = c /\ calls'[k].result # "error"
      BY <3>2 DEF Quiet, NoNewReport, Claimed
    <3>3. CASE batch' # {} /\ Current'.cmd = c /\ outcome' \in {"ok", "applying"}
      <4>1. UNCHANGED <<batch, outcome>>
        BY <3>3 DEF Quiet, AgentQuiet
      <4>2. Current' = Current
        BY <4>1 DEF Current
      <4> QED
        BY <3>3, <4>1, <4>2 DEF Claimed
    <3> QED
      BY <2>1, <3>1, <3>2, <3>3 DEF Claimed
  <2> QED
    BY <1>1, <1>2, <2>1 DEF WishInv
<1> QED
  BY <1>7, <1>8, <1>9, <1>10

LEMMA ToggleInsert ==
    ASSUME Parts, QueueInv, ToggleInv, NEW kind, NEW payload, Insert(kind, payload),
           UNCHANGED <<due, agentVars>>, NoNewReport,
           kind # "suspend" => desired' = desired,
           kind = "suspend" /\ payload \in Flag => desired' = payload
    PROVE  ToggleInv'
<1> USE DEF ToggleInv
<1>1. PICK c \in Cmd :
        /\ row[c].status = "none" /\ row[c].kind = "check"
        /\ \A d \in Cmd : c < d => row[d].status = "none" /\ row[d].kind = "check"
        /\ row'[c].status = "pending" /\ row'[c].kind = kind /\ row'[c].payload = payload
        /\ \A d \in Cmd : d # c => row'[d] = row[d]
  BY InsertedRow
<1>2. UNCHANGED <<batch, outcome, flag, saved>> /\ Current' = Current
  BY DEF agentVars, Current
<1>3. c \notin Toggles /\ \A b \in batch : b.cmd # c /\ b.cmd \in Cmd /\ (b.kind = "suspend" => b.cmd \in Toggles)
  BY <1>1 DEF Toggles, QueueInv, Parts, AgentOK, Delivery
<1>4. Toggles \subseteq Cmd /\ \A d \in Toggles : row'[d] = row[d] /\ d # c
  BY <1>1, <1>3 DEF Toggles
<1>5. ~InHand(c) /\ ~Reporting(c)
  BY <1>1, <1>3 DEF InHand, Reporting, QueueInv
<1>6. \A d : (Reporting(d)' => Reporting(d)) /\ (InHand(d)' <=> InHand(d))
  BY <1>2 DEF NoNewReport, Reporting, InHand
<1>7. Toggles' = IF kind = "suspend" THEN Toggles \cup {c} ELSE Toggles
  BY <1>1, <1>3 DEF Toggles
<1>8. \A d \in Toggles : d < c
  <2>1. ASSUME NEW d \in Toggles PROVE d < c
    <3>1. d \in Cmd /\ d # c /\ ~(c < d)
      BY <1>1, <1>3, <2>1 DEF Toggles
    <3> QED
      BY <3>1 DEF Cmd
  <2> QED
    BY <2>1
<1>9. FreshInv'
  BY <1>1, <1>2, <1>3, <1>4, <1>5, <1>6, <1>7 DEF FreshInv
<1>10. UnrunInv'
  BY <1>1, <1>2, <1>3, <1>6 DEF UnrunInv
<1>11. OrderInv'
  <2>1. ASSUME NEW a \in Toggles', NEW d \in Toggles', a < d
        PROVE  a \in Toggles /\ (d \in Toggles \/ d = c)
    <3>1. a \in Toggles \cup {c} /\ d \in Toggles \cup {c}
      BY <1>7, <2>1
    <3>2. a # c
      <4>1. d \in Nat /\ c \in Nat
        BY <1>4, <3>1 DEF Cmd
      <4> QED
        BY <1>8, <2>1, <3>1, <4>1
    <3> QED
      BY <3>1, <3>2
  <2> QED
    BY <1>1, <1>4, <1>5, <1>6, <2>1 DEF OrderInv
<1>12. WishInv'
  <2>1. ASSUME NEW d \in Cmd, d # c, Claimed(d)' PROVE Claimed(d)
    BY <1>1, <1>2, <2>1 DEF Claimed, NoNewReport
  <2>2. ~Claimed(c)'
    <3>1. ~Reporting(c)'
      BY <1>5, <1>6
    <3>2. batch # {} => Current.cmd # c
      BY <1>3, CurrentIsDelivered DEF Parts, AgentOK
    <3> QED
      BY <1>1, <1>2, <3>1, <3>2 DEF Claimed, Reporting
  <2>3. CASE kind # "suspend"
    BY <1>2, <1>4, <1>7, <2>1, <2>3 DEF WishInv
  <2>4. CASE kind = "suspend"
    <3>1. ASSUME NEW d \in Toggles', \A e \in Toggles' : e <= d PROVE d = c
      <4>1. c \in Toggles' /\ d \in Toggles \cup {c}
        BY <1>7, <2>4, <3>1
      <4>2. c <= d /\ (d = c \/ d < c)
        BY <1>8, <3>1, <4>1
      <4>3. c \in Nat /\ d \in Nat
        BY <1>4, <4>1 DEF Cmd
      <4> QED
        BY <4>2, <4>3
    <3>2. Toggles' # {}
      BY <1>7, <2>4
    <3> QED
      BY <1>1, <2>2, <2>4, <3>1, <3>2 DEF WishInv
  <2> QED
    BY <2>3, <2>4
<1> QED
  BY <1>9, <1>10, <1>11, <1>12

LEMMA ToggleCollapse ==
    ASSUME Parts, QueueInv, ToggleInv, NEW v \in Flag, CollapseSuspend(v), ~crossed'
    PROVE  ToggleInv'
<1> USE DEF ToggleInv
<1>1. PICK c \in Cmd : /\ row[c].kind = "suspend" /\ row[c].status = "pending"
                       /\ row'[c].payload = v /\ crossed' = (crossed \/ Newer(c) # {})
                       /\ \A d \in Cmd : row'[d].status = row[d].status /\ row'[d].kind = row[d].kind
                       /\ \A d \in Cmd : d # c => row'[d] = row[d]
  BY CollapsedRow
<1>2. UNCHANGED <<batch, outcome, flag, saved, calls, due>> /\ Current' = Current /\ desired' = v
  BY DEF CollapseSuspend, agentVars, Current
<1>3. Toggles' = Toggles /\ c \in Toggles /\ Toggles \subseteq Cmd
  BY <1>1 DEF Toggles
<1>4. \A d : (Reporting(d)' <=> Reporting(d)) /\ (InHand(d)' <=> InHand(d))
  BY <1>2 DEF Reporting, InHand
<1>5. ~InHand(c) /\ ~Reporting(c)
  BY <1>1, <1>3 DEF FreshInv
<1>6. \A b \in batch : b.cmd # c /\ b.cmd \in Cmd
  BY <1>5 DEF InHand, Parts, AgentOK, Delivery
<1>7. FreshInv'
  BY <1>1, <1>2, <1>3, <1>4, <1>6 DEF FreshInv
<1>8. UnrunInv'
  BY <1>1, <1>2, <1>4, <1>6 DEF UnrunInv
<1>9. OrderInv'
  BY <1>1, <1>2, <1>3, <1>4 DEF OrderInv
<1>10. WishInv'
  <2>1. \A d \in Toggles : ~(c < d)
    BY <1>1 DEF Newer, Toggles
  <2>2. ASSUME NEW d \in Toggles, \A e \in Toggles : e <= d PROVE d = c
    <3>1. c <= d /\ ~(c < d) /\ c \in Nat /\ d \in Nat
      BY <1>3, <2>1, <2>2 DEF Cmd
    <3> QED
      BY <3>1
  <2>3. ~Claimed(c)'
    <3>1. batch # {} => Current.cmd # c
      BY <1>6, CurrentIsDelivered DEF Parts, AgentOK
    <3> QED
      BY <1>1, <1>2, <1>5, <3>1 DEF Claimed, Reporting
  <2> QED
    BY <1>1, <1>2, <1>3, <2>2, <2>3 DEF WishInv
<1> QED
  BY <1>7, <1>8, <1>9, <1>10

LEMMA ToggleSweep ==
    ASSUME Parts, QueueInv, ToggleInv, NEW skipped, Sweep(skipped), ~crossed'
    PROVE  ToggleInv'
<1> USE DEF ToggleInv
<1>1. \A c \in Cmd : /\ Kept(c)
                     /\ \/ row'[c].status = row[c].status
                        \/ row'[c].status \in {"failed", "expired"}
                        \/ row[c].status = "picked_up" /\ row'[c].status = "pending"
  BY SweptRows
<1>2. UNCHANGED <<batch, outcome, flag, saved, calls, due, desired>> /\ Current' = Current
  BY DEF Sweep, agentVars, Current
<1>3. Toggles' = Toggles /\ Toggles \subseteq Cmd
  BY <1>1 DEF Toggles, Kept
<1>4. \A d : (Reporting(d)' <=> Reporting(d)) /\ (InHand(d)' <=> InHand(d))
  BY <1>2 DEF Reporting, InHand
<1>5. ASSUME NEW c \in Toggles, row[c].status # "pending", row'[c].status = "pending"
      PROVE  ~InHand(c) /\ ~Reporting(c) /\ \A d \in Toggles : c < d => row'[d].status = "pending"
  <2>1. row[c].status = "picked_up" /\ c \in Cmd /\ row[c].kind = "suspend"
    BY <1>1, <1>3, <1>5 DEF Toggles
  <2>2. ~(AtWork(c) \/ \E d \in Newer(c) : row'[d].status # "pending")
    BY <1>5, <2>1 DEF Sweep
  <2> QED
    BY <2>2 DEF AtWork, InHand, Reporting, Newer, Toggles
<1>6. \A b \in batch : b.cmd \in Cmd
  BY DEF Parts, AgentOK, Delivery
<1>7. FreshInv'
  BY <1>1, <1>2, <1>3, <1>4, <1>5, <1>6 DEF FreshInv, Kept
<1>8. UnrunInv'
  BY <1>1, <1>2, <1>4, <1>6 DEF UnrunInv
<1>9. OrderInv'
  <2>1. ASSUME NEW c \in Toggles, NEW d \in Toggles, c < d
        PROVE  /\ row'[c].status = "pending" /\ c \notin due =>
                    row'[d].status \notin {"picked_up", "done"} /\ ~InHand(d) /\ ~Reporting(d)
               /\ InHand(c) => row'[d].status # "done" /\ ~Reporting(d)
    <3>1. InHand(c) => row'[d].status # "done" /\ ~Reporting(d)
      BY <1>1, <1>3, <2>1 DEF OrderInv
    <3>2. CASE row[c].status = "pending"
      BY <1>1, <1>3, <2>1, <3>1, <3>2 DEF OrderInv
    <3>3. CASE row[c].status # "pending" /\ row'[c].status = "pending"
      <4>1. row'[d].status = "pending"
        BY <1>5, <2>1, <3>3
      <4> QED
        BY <1>3, <1>4, <1>7, <3>1, <4>1 DEF FreshInv
    <3> QED
      BY <3>1, <3>2, <3>3
  <2> QED
    BY <1>2, <1>3, <1>4, <2>1 DEF OrderInv
<1>10. WishInv'
  <2>1. ASSUME NEW c \in Toggles, Claimed(c)' PROVE Claimed(c)
    BY <1>1, <1>2, <1>3, <2>1 DEF Claimed
  <2> QED
    BY <1>1, <1>2, <1>3, <2>1 DEF WishInv, Kept
<1> QED
  BY <1>7, <1>8, <1>9, <1>10

LEMMA ToggleDeliver ==
    ASSUME Parts, QueueInv, ToggleInv, NEW k \in Calls, NEW skipped, Deliver(k, skipped), ~crossed'
    PROVE  ToggleInv'
<1> USE DEF ToggleInv
<1>1. PICK S \in SUBSET Cmd :
        /\ \A c \in S : row[c].status = "pending" /\ c \notin due /\ row'[c].status = "picked_up"
        /\ \A c \in Cmd \ S : row'[c] = row[c]
        /\ \A c \in Cmd : Kept(c)
        /\ \/ batch' = batch
           \/ /\ batch = {} /\ outcome = "none"
              /\ \A b \in batch' : b.cmd \in S /\ b.kind = row[b.cmd].kind /\ b.payload = row[b.cmd].payload
        /\ ~crossed' => /\ ~crossed
                        /\ \A c \in Toggles \ S, d \in Toggles :
                             row[c].status = "pending" /\ c \notin due /\ c < d => d \notin S
  BY DeliveredRows
<1>2. UNCHANGED <<outcome, flag, saved, due, desired>> /\ calls' = [calls EXCEPT ![k] = Free]
  BY DEF Deliver
<1>3. Toggles' = Toggles /\ Toggles \subseteq Cmd
  BY <1>1 DEF Toggles, Kept
<1>4. NoNewReport
  BY <1>2, SlotIsNoReport, FreeIsCall
<1>5. \A d : Reporting(d)' => Reporting(d)
  BY <1>4 DEF NoNewReport, Reporting
<1>6. ASSUME NEW d PROVE InHand(d)' => d \in S \/ (batch' = batch /\ InHand(d))
  BY <1>1 DEF InHand
<1>7. \A c \in Cmd : /\ row'[c].kind = row[c].kind /\ row'[c].payload = row[c].payload
                     /\ row'[c].status = "pending" => row[c].status = "pending" /\ c \notin S
                     /\ row'[c].status = "done" => row[c].status = "done"
  BY <1>1 DEF Kept
<1>8. \A b \in batch : b.cmd \in Cmd
  BY DEF Parts, AgentOK, Delivery
<1>9. FreshInv'
  <2>1. ASSUME NEW b \in batch', b.kind = "suspend" PROVE row'[b.cmd].payload = b.payload
    <3>1. CASE batch' = batch
      BY <1>7, <1>8, <2>1, <3>1 DEF FreshInv
    <3>2. CASE batch' # batch
      BY <1>1, <1>7, <2>1, <3>2
    <3> QED
      BY <3>1, <3>2
  <2>2. ASSUME NEW c \in Toggles, row'[c].status = "pending" PROVE ~InHand(c)' /\ ~Reporting(c)'
    <3>1. row[c].status = "pending" /\ c \notin S
      BY <1>3, <1>7, <2>2
    <3>2. ~InHand(c) /\ ~Reporting(c)
      BY <3>1 DEF FreshInv
    <3> QED
      BY <1>5, <1>6, <3>1, <3>2
  <2> QED
    BY <1>3, <2>1, <2>2 DEF FreshInv
<1>10. UnrunInv'
  <2>1. ASSUME NEW b \in batch', b.kind = "suspend", b # Current' \/ outcome' = "none"
        PROVE  row'[b.cmd].status # "done" /\ ~Reporting(b.cmd)'
    <3>1. CASE batch' = batch
      <4>1. Current' = Current
        BY <3>1 DEF Current
      <4> QED
        BY <1>2, <1>5, <1>7, <1>8, <2>1, <3>1, <4>1 DEF UnrunInv
    <3>2. CASE batch' # batch
      <4>1. b.cmd \in S /\ b.cmd \in Toggles /\ row'[b.cmd].status = "picked_up" /\ row[b.cmd].status = "pending"
        BY <1>1, <2>1, <3>2 DEF Toggles
      <4> QED
        BY <1>5, <4>1 DEF FreshInv
    <3> QED
      BY <3>1, <3>2
  <2> QED
    BY <2>1 DEF UnrunInv
<1>11. OrderInv'
  <2>1. ASSUME NEW c \in Toggles, NEW d \in Toggles, c < d
        PROVE  /\ row'[c].status = "pending" /\ c \notin due =>
                    row'[d].status \notin {"picked_up", "done"} /\ ~InHand(d)' /\ ~Reporting(d)'
               /\ InHand(c)' => row'[d].status # "done" /\ ~Reporting(d)'
    <3>1. ASSUME row'[c].status = "pending", c \notin due
          PROVE  row'[d].status \notin {"picked_up", "done"} /\ ~InHand(d)' /\ ~Reporting(d)'
      <4>1. row[c].status = "pending" /\ c \notin S
        BY <1>3, <1>7, <3>1
      <4>2. row[d].status \notin {"picked_up", "done"} /\ ~InHand(d) /\ ~Reporting(d)
        BY <2>1, <3>1, <4>1 DEF OrderInv
      <4>3. d \notin S
        BY <1>1, <2>1, <3>1, <4>1
      <4> QED
        BY <1>1, <1>3, <1>5, <1>6, <4>2, <4>3
    <3>2. ASSUME InHand(c)' PROVE row'[d].status # "done" /\ ~Reporting(d)'
      <4>1. CASE c \in S
        BY <1>1, <1>3, <1>5, <1>7, <2>1, <4>1 DEF OrderInv
      <4>2. CASE InHand(c)
        BY <1>3, <1>5, <1>7, <2>1, <4>2 DEF OrderInv
      <4> QED
        BY <1>6, <3>2, <4>1, <4>2
    <3> QED
      BY <3>1, <3>2
  <2> QED
    BY <1>2, <1>3, <2>1 DEF OrderInv
<1>12. WishInv'
  <2>1. ASSUME NEW c \in Toggles, Claimed(c)' PROVE Claimed(c)
    <3>1. CASE row'[c].status = "done"
      BY <1>3, <1>7, <3>1 DEF Claimed
    <3>2. CASE \E j \in Calls : calls'[j].op = "complete" /\ calls'[j].cmd = c /\ calls'[j].result # "error"
      BY <1>4, <3>2 DEF NoNewReport, Claimed
    <3>3. CASE batch' # {} /\ Current'.cmd = c /\ outcome' \in {"ok", "applying"}
      <4>1. batch' = batch
        BY <1>1, <1>2, <3>3
      <4>2. Current' = Current
        BY <4>1 DEF Current
      <4> QED
        BY <1>2, <3>3, <4>1, <4>2 DEF Claimed
    <3> QED
      BY <2>1, <3>1, <3>2, <3>3 DEF Claimed
  <2> QED
    BY <1>2, <1>3, <1>7, <2>1 DEF WishInv
<1> QED
  BY <1>9, <1>10, <1>11, <1>12

LEMMA ToggleExecute ==
    ASSUME Parts, QueueInv, ToggleInv, NEW ok \in BOOLEAN, Execute(ok)
    PROVE  ToggleInv'
<1> USE DEF ToggleInv
<1>1. /\ batch # {} /\ outcome = "none"
      /\ ok => Current.kind # "suspend" \/ Current.payload \in Flag
      /\ outcome' \in {"ok", "applying"} => ok
      /\ flag' = IF Current.kind = "suspend" /\ Current.payload \in Flag THEN Current.payload ELSE flag
      /\ saved' = IF Current.kind = "suspend" /\ ok THEN Current.payload ELSE saved
      /\ outcome' # "none"
      /\ UNCHANGED <<row, due, calls, desired, batch>>
  BY DEF Execute
<1>2. Current \in batch /\ Current.cmd \in Cmd /\ Current' = Current
  BY <1>1, CurrentIsDelivered DEF Parts, AgentOK, Current
<1>3. \A b \in batch : b.cmd \in Cmd /\ Current.cmd <= b.cmd
  <2>1. batch \subseteq Delivery
    BY DEF Parts, AgentOK
  <2>2. \A b \in batch : Current.cmd <= b.cmd
    BY <1>1, <2>1, CurrentIsFirst
  <2> QED
    BY <2>1, <2>2 DEF Delivery
<1>4. Toggles' = Toggles /\ Toggles \subseteq Cmd
  BY <1>1 DEF Toggles
<1>5. \A d : (Reporting(d)' <=> Reporting(d)) /\ (InHand(d)' <=> InHand(d))
  BY <1>1 DEF Reporting, InHand
<1>6. row[Current.cmd].kind = Current.kind
      /\ (Current.kind = "suspend" => Current.cmd \in Toggles /\ row[Current.cmd].payload = Current.payload)
  BY <1>2 DEF QueueInv, Toggles, FreshInv
<1>7. FreshInv'
  BY <1>1, <1>4, <1>5 DEF FreshInv
<1>8. UnrunInv'
  BY <1>1, <1>2, <1>5 DEF UnrunInv
<1>9. OrderInv'
  BY <1>1, <1>4, <1>5 DEF OrderInv
<1>10. WishInv'
  <2>1. CASE Current.kind # "suspend"
    <3>1. flag' = flag /\ saved' = saved
      BY <1>1, <2>1
    <3>2. ASSUME NEW c \in Toggles, Claimed(c)' PROVE Claimed(c)
      <4>1. Current.cmd # c
        BY <1>6, <2>1 DEF Toggles
      <4> QED
        BY <1>1, <1>2, <3>2, <4>1 DEF Claimed
    <3> QED
      BY <1>1, <1>4, <3>1, <3>2 DEF WishInv
  <2>2. CASE Current.kind = "suspend"
    <3>0. row[Current.cmd].status # "done" /\ ~Reporting(Current.cmd)
      BY <1>1, <1>2, <2>2 DEF UnrunInv
    <3>1. ASSUME NEW c \in Toggles, \A d \in Toggles : d <= c, Claimed(c)'
          PROVE  row[c].payload \in Flag /\ flag' = row[c].payload /\ saved' = row[c].payload
      <4>1. Current.cmd \in Toggles /\ Current.cmd <= c
        BY <1>6, <2>2, <3>1
      <4>2. c = Current.cmd \/ Current.cmd < c
        BY <1>2, <1>4, <4>1 DEF Cmd
      <4>3. CASE Current.cmd < c
        <5>1. InHand(Current.cmd)
          BY <1>2 DEF InHand
        <5>2. row[c].status # "done" /\ ~Reporting(c)
          BY <4>1, <4>3, <5>1 DEF OrderInv
        <5>3. Current.cmd # c
          BY <1>2, <1>4, <4>3 DEF Cmd
        <5> QED
          BY <1>1, <1>2, <3>1, <5>2, <5>3 DEF Claimed, Reporting
      <4>4. CASE c = Current.cmd
        <5>1. ok
          BY <1>1, <3>0, <3>1, <4>4 DEF Claimed, Reporting
        <5> QED
          BY <1>1, <1>6, <2>2, <4>4, <5>1
      <4> QED
        BY <4>2, <4>3, <4>4
    <3>2. Toggles # {}
      BY <1>6, <2>2
    <3> QED
      BY <1>1, <1>4, <3>1, <3>2 DEF WishInv
  <2> QED
    BY <2>1, <2>2
<1> QED
  BY <1>7, <1>8, <1>9, <1>10

LEMMA ToggleReport ==
    ASSUME Parts, QueueInv, ToggleInv, NEW k \in Calls, Report(k)
    PROVE  ToggleInv'
<1> USE DEF ToggleInv
<1>1. /\ batch # {} /\ outcome # "none"
      /\ calls' = [calls EXCEPT ![k] = [Free EXCEPT !.op = "complete", !.cmd = Current.cmd, !.result = outcome]]
      /\ UNCHANGED <<row, due, desired, batch, outcome, flag, saved>>
  BY DEF Report
<1>2. Current \in batch /\ Current.cmd \in Cmd /\ Current' = Current
  BY <1>1, CurrentIsDelivered DEF Parts, AgentOK, Current
<1>3. \A b \in batch : b.cmd \in Cmd /\ Current.cmd <= b.cmd
  <2>1. batch \subseteq Delivery
    BY DEF Parts, AgentOK
  <2>2. \A b \in batch : Current.cmd <= b.cmd
    BY <1>1, <2>1, CurrentIsFirst
  <2> QED
    BY <2>1, <2>2 DEF Delivery
<1>4. Toggles' = Toggles /\ Toggles \subseteq Cmd
  BY <1>1 DEF Toggles
<1>5. ASSUME NEW j \in Calls, calls'[j].op = "complete"
      PROVE  \/ /\ calls[j].op = "complete" /\ calls'[j].cmd = calls[j].cmd
                /\ calls'[j].result = calls[j].result
             \/ calls'[j].cmd = Current.cmd /\ calls'[j].result = outcome
  <2>1. CASE j = k
    <3>1. calls'[j] = [Free EXCEPT !.op = "complete", !.cmd = Current.cmd, !.result = outcome]
      BY <1>1, <2>1 DEF Parts, CallsOK
    <3> QED
      BY <3>1 DEF Free
  <2>2. CASE j # k
    BY <1>1, <1>5, <2>2 DEF Parts, CallsOK
  <2> QED
    BY <2>1, <2>2
<1>6. \A d : (Reporting(d)' => Reporting(d) \/ d = Current.cmd) /\ (InHand(d)' <=> InHand(d))
  BY <1>1, <1>5 DEF Reporting, InHand
<1>7. InHand(Current.cmd)
  BY <1>2 DEF InHand
<1>8. FreshInv'
  BY <1>1, <1>4, <1>6, <1>7 DEF FreshInv
<1>9. UnrunInv'
  <2>1. ASSUME NEW b \in batch, b.kind = "suspend", b # Current
        PROVE  row[b.cmd].status # "done" /\ ~Reporting(b.cmd)'
    <3>1. b.cmd # Current.cmd
      BY <1>2, <2>1, OneDelivery
    <3> QED
      BY <1>6, <2>1, <3>1 DEF UnrunInv
  <2> QED
    BY <1>1, <1>2, <2>1 DEF UnrunInv
<1>10. OrderInv'
  <2>1. ASSUME NEW c \in Toggles, NEW d \in Toggles, c < d, InHand(c)
        PROVE  d # Current.cmd
    <3>1. Current.cmd <= c /\ c \in Nat /\ d \in Nat /\ Current.cmd \in Nat
      BY <1>2, <1>3, <1>4, <2>1 DEF InHand, Cmd
    <3> QED
      BY <2>1, <3>1
  <2> QED
    BY <1>1, <1>4, <1>6, <1>7, <2>1 DEF OrderInv
<1>11. WishInv'
  <2>1. ASSUME NEW c \in Toggles, Claimed(c)' PROVE Claimed(c)
    <3>1. outcome # "error" => outcome \in {"ok", "applying"}
      BY <1>1 DEF Parts, AgentOK, Result
    <3> QED
      BY <1>1, <1>2, <1>5, <2>1, <3>1 DEF Claimed
  <2> QED
    BY <1>1, <1>4, <2>1 DEF WishInv
<1> QED
  BY <1>8, <1>9, <1>10, <1>11

LEMMA ToggleStep ==
    ASSUME Parts, QueueInv, ~crossed => ToggleInv, [Next]_vars, ~crossed'
    PROVE  ToggleInv'
<1>1. ASSUME NEW kind \in Kinds, NEW payload \in Flag \cup {None}, Enqueue(kind, payload)
      PROVE  ToggleInv'
  <2>1. NoNewReport /\ ToggleInv
    BY <1>1 DEF Enqueue, NoNewReport
  <2>2. kind # "suspend" => payload = None /\ None \notin Flag
    BY <1>1, ValuesAssumption DEF Enqueue
  <2>3. kind # "suspend" => desired' = desired
    BY <1>1, <2>2 DEF Enqueue
  <2> QED
    BY <1>1, <2>1, <2>3, ToggleInsert DEF Enqueue
<1>2. ASSUME NEW k \in Calls, InsertQueried(k) PROVE ToggleInv'
  <2>1. NoNewReport
    BY <1>2, SlotIsNoReport, FreeIsCall DEF InsertQueried
  <2> QED
    BY <1>2, <2>1, ToggleInsert DEF InsertQueried
<1>3. ASSUME NEW v \in Flag, CollapseSuspend(v) PROVE ToggleInv'
  <2>1. ~crossed
    BY <1>3 DEF CollapseSuspend
  <2> QED
    BY <1>3, <2>1, ToggleCollapse
<1>4. ASSUME NEW ok \in BOOLEAN, Execute(ok) PROVE ToggleInv'
  BY <1>4, ToggleExecute DEF Execute
<1>5. ASSUME NEW k \in Calls, Report(k) PROVE ToggleInv'
  BY <1>5, ToggleReport DEF Report
<1>6. ASSUME NEW skipped, Sweep(skipped) PROVE ToggleInv'
  <2>1. ~crossed
    BY <1>6 DEF Sweep
  <2> QED
    BY <1>6, <2>1, ToggleSweep
<1>7. ASSUME NEW k \in Calls, NEW skipped, Deliver(k, skipped) PROVE ToggleInv'
  <2>1. ~crossed
    BY <1>7 DEF Deliver
  <2> QED
    BY <1>7, <2>1, ToggleDeliver
<1>8. CASE Quiet
  BY <1>8, ToggleQuiet DEF Quiet
<1> QED
  BY <1>1, <1>2, <1>3, <1>4, <1>5, <1>6, <1>7, <1>8, Steps

\* A nonempty set of commands has a newest one.
LEMMA NewestExists ==
    ASSUME NEW T, T \subseteq Cmd, T # {}
    PROVE  \E m \in T : \A k \in T : k <= m
<1> DEFINE U == {MaxCmds - t : t \in T}
<1>0. MaxCmds \in Nat /\ \A t \in T : t \in Nat /\ MaxCmds - t \in Nat
  BY BoundsAssumption DEF Cmd
<1>1. U \subseteq Nat /\ U # {}
  BY <1>0
<1>2. PICK u \in U : \A k \in U : u <= k
  BY <1>1, LeastNatural
<1>3. PICK m \in T : u = MaxCmds - m
  OBVIOUS
<1>4. ASSUME NEW k \in T PROVE k <= m
  <2>1. MaxCmds - m <= MaxCmds - k
    BY <1>2, <1>3
  <2> QED
    BY <1>0, <2>1
<1> QED
  BY <1>4

\* An agent whose toggles are all done, and have not crossed, is in the state
\* the operator asked for last: through any number of handlers and deliveries,
\* restarts, lost answers, failed writes of suspend.json, collapses and toggles
\* queued beside one another (suspend_agent, enqueue_command, Poller.PollOnce,
\* SetSuspended, run_agent_command_sweep).
THEOREM ToggleFollowsOperator == Spec => []LatestToggleWins
<1> DEFINE Inv == QueueInv /\ (~crossed => ToggleInv)
<1>1. Init => Parts /\ Inv
  BY InitInv, QueueInit, ToggleInit
<1>2. Parts /\ Inv /\ [Next]_vars => Inv'
  BY QueueStep, ToggleStep
<1>3. Parts /\ Inv => LatestToggleWins
  <2> SUFFICES ASSUME Parts, ToggleInv, \A c \in Cmd : row[c].kind = "suspend" => row[c].status = "done"
               PROVE  flag = desired /\ saved = desired
    BY DEF LatestToggleWins
  <2>1. CASE Toggles = {}
    BY <2>1 DEF ToggleInv, WishInv
  <2>2. CASE Toggles # {}
    <3>1. PICK c \in Toggles : \A d \in Toggles : d <= c
      BY <2>2, NewestExists DEF Toggles
    <3>2. Claimed(c)
      BY <3>1 DEF Toggles, Claimed
    <3> QED
      BY <3>1, <3>2 DEF ToggleInv, WishInv
  <2> QED
    BY <2>1, <2>2
<1>4. IndInv <=> Parts
  BY PartsOfInv
<1> QED
  BY <1>1, <1>2, <1>3, <1>4, ChannelInvariance, PTL DEF Spec
=============================================================================
