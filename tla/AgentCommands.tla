--------------------------- MODULE AgentCommands ---------------------------
(***************************************************************************)
(* The on-demand command channel of one agent: the agent_commands rows and *)
(* the endpoints and the sweep that change them                            *)
(* (backend/filearr/{agentsync.py,api/agent_commands.py}), and the agent's *)
(* poller that executes what it is delivered (agent/internal/commands).    *)
(*                                                                         *)
(* Commands are numbered in the order of created_at.  A kind is abstracted *)
(* to what the channel tells apart:                                        *)
(*   check    item-scoped, enqueued freely (stat_check, rehash_check, ...) *)
(*   suspend  the suspend toggle, collapsed into a pending one             *)
(*   job      whole-agent; its own endpoint refuses it while one is queued  *)
(*            or running (agent_maintenance, reextract, inventory, ...)    *)
(*   update   self_update, reported before it is applied                   *)
(* The generic endpoint enqueues any of them, with any payload.            *)
(* A slot k in Calls is one request handler of central.  ack, complete and *)
(* cancel read the row without a lock and commit later; poll, sweep and    *)
(* the suspend collapse work under FOR UPDATE SKIP LOCKED and are atomic.  *)
(***************************************************************************)
EXTENDS Naturals, FiniteSets

CONSTANTS
    MaxCmds,      \* bound on the commands enqueued
    Asked,        \* the kinds of command the operator asks for
    Flag,         \* values of payload.suspended
    Boot,         \* the flag of an agent that was never told otherwise
    None,         \* no payload, no result, no handler
    Calls,        \* central's request handlers
    MaxAttempts,  \* agent_command_max_attempts
    PollMax       \* commands drained by one poll

ASSUME BoundsAssumption == MaxCmds \in Nat /\ MaxAttempts \in Nat \ {0} /\ PollMax \in Nat
ASSUME ValuesAssumption == Boot \in Flag /\ None \notin Flag \cup Calls

VARIABLES
    row,       \* central: the agent_commands rows
    due,       \* central's clock: the commands with expires_at <= now
    calls,     \* central: what each request handler is doing
    desired,   \* the operator's last committed suspend request
    crossed,   \* history: toggles have been, or may be, applied out of order
    batch,     \* agent: commands of the last poll not yet reported, as delivered
    outcome,   \* agent: how the command in hand ended, "none" while it runs
    awaited,   \* agent: the handler it waits for, or None
    flag,      \* agent: the suspended flag in memory
    saved,     \* agent: suspend.json
    ran        \* the commands the agent carried out successfully

agentVars == <<batch, outcome, awaited, flag, saved, ran>>
vars == <<row, due, calls, desired, crossed, batch, outcome, awaited, flag, saved, ran>>

-----------------------------------------------------------------------------
(* Data.                                                                   *)

Cmd      == 1..MaxCmds
Live     == {"pending", "picked_up"}
Terminal == {"done", "failed", "expired", "cancelled"}
Kinds    == {"check", "suspend", "job", "update"}

ASSUME AskedAssumption == Asked \subseteq Kinds

\* A row; lease tells how picked_up_at compares with the sweep's cutoff, and
\* ended whether completed_at is set.
Row == [status   : {"none"} \cup Live \cup Terminal,
        kind     : Kinds,
        payload  : Flag \cup {None},
        attempts : Nat,
        lease    : {"unset", "fresh", "old"},
        result   : {"none", "ok", "applying", "error", "exhausted"},
        ended    : BOOLEAN]

NoRow == [status |-> "none", kind |-> "check", payload |-> None, attempts |-> 0,
          lease |-> "unset", result |-> "none", ended |-> FALSE]

\* A command as the agent has it (commandOut).
Delivery == [cmd : Cmd, kind : Kinds, payload : Flag \cup {None}]

\* How the agent says a command ended; "applying" is self_update's report.
Result == {"none", "ok", "applying", "error"}

Call == [op      : {"none", "poll", "ack", "complete", "cancel", "insert"},
         loaded  : BOOLEAN,
         cmd     : Nat,
         kind    : Kinds,
         payload : Flag \cup {None},
         result  : Result]

Free == [op |-> "none", loaded |-> FALSE, cmd |-> 0, kind |-> "check",
         payload |-> None, result |-> "none"]

\* Rows some handler may hold a row lock on: between the flush of its UPDATE
\* and its commit.  FOR UPDATE SKIP LOCKED passes over any of them.
Locked == {c \in Cmd : \E k \in Calls : calls[k].loaded /\ calls[k].cmd = c}

\* The n oldest commands of S.
Oldest(S, n) == {c \in S : Cardinality({d \in S : d < c}) < n}

\* The command in hand: a batch is processed in the order it was delivered.
Current == CHOOSE c \in batch : \A d \in batch : c.cmd <= d.cmd

Init ==
    /\ row = [c \in Cmd |-> NoRow]
    /\ due = {}
    /\ calls = [k \in Calls |-> Free]
    /\ desired = Boot
    /\ crossed = FALSE
    /\ batch = {}
    /\ outcome = "none"
    /\ awaited = None
    /\ flag = Boot
    /\ saved = Boot
    /\ ran = {}

-----------------------------------------------------------------------------
(* The operator plane.                                                     *)

Queued(kind, payload) ==
    [status |-> "pending", kind |-> kind, payload |-> payload, attempts |-> 0,
     lease |-> "unset", result |-> "none", ended |-> FALSE]

\* AgentCommand(...) + commit: a new pending row, newer than all others.
Insert(kind, payload) ==
    \E c \in Cmd :
      /\ row[c].status = "none"
      /\ \A d \in Cmd : d < c => row[d].status # "none"
      /\ row' = [row EXCEPT ![c] = Queued(kind, payload)]

\* The toggles newer than c.
Newer(c) == {d \in Cmd : c < d /\ row[d].kind = "suspend"}

\* enqueue_command: any kind, a suspend command with or without its flag; no
\* query for one in flight and no collapse.
Enqueue(kind, payload) ==
    /\ kind # "suspend" => payload = None
    /\ Insert(kind, payload)
    /\ desired' = IF payload \in Flag THEN payload ELSE desired
    /\ UNCHANGED <<due, calls, crossed, agentVars>>

\* Mutant: a pending toggle is kept as it is.
CollapseKept(v) ==
    /\ \E c \in Cmd : row[c].kind = "suspend" /\ row[c].status = "pending"
    /\ desired' = v
    /\ UNCHANGED <<row, due, calls, crossed, agentVars>>

\* suspend_agent when it finds a pending suspend command it can lock: the
\* payload is overwritten (first(), in no stated order, so perhaps an older
\* one's).
CollapseSuspend(v) ==
    /\ \E c \in Cmd : /\ row[c].kind = "suspend"
                      /\ row[c].status = "pending"
                      /\ row' = [row EXCEPT ![c].payload = v]
                      /\ crossed' = (crossed \/ Newer(c) # {})
    /\ desired' = v
    /\ UNCHANGED <<due, calls, agentVars>>

\* The query before an insert: suspend_agent found no pending suspend command
\* that is not locked; the whole-agent operations found none queued or running
\* (409 otherwise).
SuspendQuery(k, v) ==
    /\ "suspend" \in Asked
    /\ calls[k] = Free
    /\ \A c \in Cmd \ Locked : ~(row[c].kind = "suspend" /\ row[c].status = "pending")
    /\ calls' = [calls EXCEPT ![k] = [Free EXCEPT !.op = "insert", !.kind = "suspend",
                                                  !.payload = v]]
    /\ UNCHANGED <<row, due, desired, crossed, agentVars>>

JobQuery(k) ==
    /\ "job" \in Asked
    /\ calls[k] = Free
    /\ \A c \in Cmd : ~(row[c].kind = "job" /\ row[c].status \in Live)
    /\ calls' = [calls EXCEPT ![k] = [Free EXCEPT !.op = "insert", !.kind = "job"]]
    /\ UNCHANGED <<row, due, desired, crossed, agentVars>>

InsertQueried(k) ==
    /\ calls[k].op = "insert"
    /\ Insert(calls[k].kind, calls[k].payload)
    /\ desired' = IF calls[k].kind = "suspend" THEN calls[k].payload ELSE desired
    /\ calls' = [calls EXCEPT ![k] = Free]
    /\ UNCHANGED <<due, crossed, agentVars>>

\* cancel_command up to its commit: 404 and 409 leave no trace.
Cancel(k, c) ==
    /\ calls[k] = Free
    /\ row[c].status \in Live
    /\ calls' = [calls EXCEPT ![k] = [Free EXCEPT !.op = "cancel", !.loaded = TRUE, !.cmd = c]]
    /\ UNCHANGED <<row, due, desired, crossed, agentVars>>

-----------------------------------------------------------------------------
(* The agent: Poller.Run, PollOnce and process.                            *)

Poll(k) ==
    /\ batch = {}
    /\ awaited = None
    /\ calls[k] = Free
    /\ calls' = [calls EXCEPT ![k] = [Free EXCEPT !.op = "poll"]]
    /\ awaited' = k
    /\ UNCHANGED <<row, due, desired, crossed, batch, outcome, flag, saved, ran>>

\* The executor ends.  SetSuspended flips the flag in memory first; if it then
\* cannot write suspend.json the command is reported as failed, and so is one
\* without its flag.  A self_update has only passed the checks before the swap:
\* it is reported now, applied (Restart) or not afterwards, a failure logged.
Execute(ok) ==
    /\ batch # {}
    /\ outcome = "none"
    /\ ok => Current.kind # "suspend" \/ Current.payload \in Flag
    /\ outcome' = IF ~ok THEN "error" ELSE IF Current.kind = "update" THEN "applying" ELSE "ok"
    /\ ran' = IF ok /\ Current.kind # "update" THEN ran \cup {Current.cmd} ELSE ran
    /\ flag' = IF Current.kind = "suspend" /\ Current.payload \in Flag THEN Current.payload ELSE flag
    /\ saved' = IF Current.kind = "suspend" /\ ok THEN Current.payload ELSE saved
    /\ UNCHANGED <<row, due, calls, desired, crossed, batch, awaited>>

\* heartbeat: an ack while the executor runs; nobody waits for its answer.
Heartbeat(k) ==
    /\ batch # {}
    /\ outcome = "none"
    /\ Current.kind \notin {"suspend", "update"}
    /\ calls[k] = Free
    /\ calls' = [calls EXCEPT ![k] = [Free EXCEPT !.op = "ack", !.cmd = Current.cmd]]
    /\ UNCHANGED <<row, due, desired, crossed, agentVars>>

\* Mutant: the result is posted before the executor has ended.
ReportEarly(k) ==
    /\ batch # {}
    /\ awaited = None
    /\ calls[k] = Free
    /\ calls' = [calls EXCEPT ![k] = [Free EXCEPT !.op = "complete", !.cmd = Current.cmd,
                                                  !.result = IF outcome = "error" THEN "error" ELSE "ok"]]
    /\ awaited' = k
    /\ UNCHANGED <<row, due, desired, crossed, batch, outcome, flag, saved, ran>>

\* complete: the result is posted once.
Report(k) ==
    /\ batch # {}
    /\ outcome # "none"
    /\ awaited = None
    /\ calls[k] = Free
    /\ calls' = [calls EXCEPT ![k] = [Free EXCEPT !.op = "complete", !.cmd = Current.cmd,
                                                  !.result = outcome]]
    /\ awaited' = k
    /\ UNCHANGED <<row, due, desired, crossed, batch, outcome, flag, saved, ran>>

\* What the agent does when the exchange it waits for is over, whatever the
\* answer: a poll without an answer is an empty one; a failed or refused
\* complete is only logged.
Advance ==
    /\ awaited' = None
    /\ batch' = IF batch = {} THEN {} ELSE batch \ {Current}
    /\ outcome' = "none"

\* The HTTP client's timeout or a broken connection: the handler goes on.
GiveUp ==
    /\ awaited # None
    /\ Advance
    /\ UNCHANGED <<row, due, calls, desired, crossed, flag, saved, ran>>

\* The daemon stops or is killed, and runs again.
Restart ==
    /\ batch' = {}
    /\ outcome' = "none"
    /\ awaited' = None
    /\ flag' = saved
    /\ UNCHANGED <<row, due, calls, desired, crossed, saved, ran>>

-----------------------------------------------------------------------------
(* Central: the agent plane.                                               *)

\* The handler ends, and the agent goes on if it still waits for it.
End(k) ==
    /\ calls' = [calls EXCEPT ![k] = Free]
    /\ IF awaited = k THEN Advance ELSE UNCHANGED <<awaited, batch, outcome>>

Deliverable == {c \in Cmd : row[c].status = "pending" /\ c \notin due}

\* poll_commands: one transaction; the answer may be lost on its way.
Deliver(k, skipped) ==
    LET S == Oldest(Deliverable \ skipped, PollMax) IN
    /\ calls[k].op = "poll"
    /\ row' = [c \in Cmd |-> IF c \in S
                             THEN [row[c] EXCEPT !.status = "picked_up", !.lease = "fresh",
                                                 !.attempts = row[c].attempts + 1]
                             ELSE row[c]]
    /\ calls' = [calls EXCEPT ![k] = Free]
    /\ IF awaited = k
       THEN /\ awaited' = None
            /\ \/ batch' = {[cmd |-> c, kind |-> row[c].kind, payload |-> row[c].payload] : c \in S}
               \/ UNCHANGED batch
       ELSE UNCHANGED <<awaited, batch>>
    /\ crossed' = (crossed \/ \E c \in Deliverable \ S :
                      row[c].kind = "suspend" /\ Newer(c) \cap S # {})
    /\ UNCHANGED <<due, desired, outcome, flag, saved, ran>>

\* ack_command and complete_command up to their check: only a row in flight
\* goes on, an idempotent replay of a done one and a 409 end here.
Load(k) ==
    /\ calls[k].op \in {"ack", "complete"}
    /\ ~calls[k].loaded
    /\ row[calls[k].cmd].status = "picked_up"
    /\ calls' = [calls EXCEPT ![k].loaded = TRUE]
    /\ UNCHANGED <<row, due, desired, crossed, agentVars>>

Refuse(k) ==
    /\ calls[k].op \in {"ack", "complete"}
    /\ ~calls[k].loaded
    /\ row[calls[k].cmd].status # "picked_up"
    /\ End(k)
    /\ UNCHANGED <<row, due, desired, crossed, flag, saved, ran>>

\* Mutant: every column is written, the unchanged status too.
AckedWhole(r) == [r EXCEPT !.lease = "fresh", !.status = "picked_up"]

\* The commits.  A flush writes the columns that differ from what was loaded,
\* with no condition on the row's status: ack leaves the status alone.
Acked(r) == [r EXCEPT !.lease = "fresh"]
Completed(r, res) == [r EXCEPT !.status = IF res = "error" THEN "failed" ELSE "done",
                               !.result = res,
                               !.ended  = TRUE]
Cancelled(r) == [r EXCEPT !.status = "cancelled", !.ended = TRUE]

Commit(k) ==
    LET call == calls[k] IN
    /\ call.loaded
    /\ row' = [row EXCEPT ![call.cmd] =
                 CASE call.op = "ack"      -> Acked(@)
                   [] call.op = "complete" -> Completed(@, call.result)
                   [] OTHER                -> Cancelled(@)]
    /\ End(k)
    /\ UNCHANGED <<due, desired, crossed, flag, saved, ran>>

\* A rejected credential, a result over the size cap, a server error, a central
\* restart: nothing is committed.
Abort(k) ==
    /\ calls[k] # Free
    /\ End(k)
    /\ UNCHANGED <<row, due, desired, crossed, flag, saved, ran>>

-----------------------------------------------------------------------------
(* Time and the sweep.                                                     *)

TtlLapse(c) ==
    /\ row[c].status # "none"
    /\ c \notin due
    /\ due' = due \cup {c}
    /\ UNCHANGED <<row, calls, desired, crossed, agentVars>>

LeaseLapse(c) ==
    /\ row[c].lease = "fresh"
    /\ row' = [row EXCEPT ![c].lease = "old"]
    /\ UNCHANGED <<due, calls, desired, crossed, agentVars>>

\* Mutants: off by one at the limit; the lease outranks the TTL.
SweepDecisionOneMore(r, late) ==
    IF r.status \notin Live THEN "none"
    ELSE IF late THEN "expire"
    ELSE IF r.status = "picked_up" /\ r.lease = "old"
    THEN IF r.attempts > MaxAttempts THEN "exhaust" ELSE "redeliver"
    ELSE "none"
SweepDecisionLeaseFirst(r, late) ==
    IF r.status = "pending" /\ late THEN "expire"
    ELSE IF r.status = "picked_up" /\ r.lease = "old"
    THEN IF r.attempts >= MaxAttempts THEN "exhaust" ELSE "redeliver"
    ELSE "none"

\* sweep_decision
SweepDecision(r, late) ==
    IF r.status \notin Live THEN "none"
    ELSE IF late THEN "expire"
    ELSE IF r.status = "picked_up" /\ r.lease = "old"
    THEN IF r.attempts >= MaxAttempts THEN "exhaust" ELSE "redeliver"
    ELSE "none"

\* Mutant: giving up leaves no reason in the result.
SweptSilently(r, d) ==
    CASE d = "expire"    -> [r EXCEPT !.status = "expired", !.ended = TRUE]
      [] d = "exhaust"   -> [r EXCEPT !.status = "failed", !.ended = TRUE]
      [] d = "redeliver" -> [r EXCEPT !.status = "pending", !.lease = "unset"]
      [] OTHER           -> r

\* What run_agent_command_sweep makes of a row.
Swept(r, d) ==
    CASE d = "expire"    -> [r EXCEPT !.status = "expired", !.ended = TRUE]
      [] d = "exhaust"   -> [r EXCEPT !.status = "failed", !.result = "exhausted", !.ended = TRUE]
      [] d = "redeliver" -> [r EXCEPT !.status = "pending", !.lease = "unset"]
      [] OTHER           -> r

\* The agent has the command in hand, or its report is on the way.
AtWork(c) ==
    \/ \E b \in batch : b.cmd = c
    \/ \E k \in Calls : calls[k].op = "complete" /\ calls[k].cmd = c

\* run_agent_command_sweep, the tick of expire_agent_commands.
Sweep(skipped) ==
    /\ row' = [c \in Cmd |-> IF c \in skipped THEN row[c]
                             ELSE Swept(row[c], SweepDecision(row[c], c \in due))]
    /\ row' # row
    /\ LET Requeued == {c \in Cmd : row[c].status = "picked_up" /\ row'[c].status = "pending"}
       IN  crossed' = (crossed \/ \E c \in Requeued :
                         /\ row[c].kind = "suspend"
                         /\ AtWork(c) \/ \E d \in Newer(c) : row'[d].status # "pending")
    /\ UNCHANGED <<due, calls, desired, agentVars>>

-----------------------------------------------------------------------------

Operator ==
    \/ \E kind \in Asked, payload \in Flag \cup {None} : Enqueue(kind, payload)
    \/ \E v \in Flag : CollapseSuspend(v)
    \/ \E k \in Calls : \/ \E v \in Flag : SuspendQuery(k, v)
                        \/ JobQuery(k)
                        \/ InsertQueried(k)
                        \/ \E c \in Cmd : Cancel(k, c)

Agent ==
    \/ \E ok \in BOOLEAN : Execute(ok)
    \/ GiveUp
    \/ Restart
    \/ \E k \in Calls : Poll(k) \/ Heartbeat(k) \/ Report(k)

Central ==
    \/ \E k \in Calls : Load(k) \/ Refuse(k) \/ Commit(k) \/ Abort(k)
    \/ \E skipped \in SUBSET Locked : \/ Sweep(skipped)
                                      \/ \E k \in Calls : Deliver(k, skipped)

Time == \E c \in Cmd : TtlLapse(c) \/ LeaseLapse(c)

Next == Operator \/ Agent \/ Central \/ Time

Spec == Init /\ [][Next]_vars

\* Time passes, and the minute tick runs: a row lock lasts for one commit, so
\* it does not forever find the row locked.  Nothing is assumed of the agent.
FairSpec == Spec /\ WF_vars(Sweep({})) /\ \A c \in Cmd : WF_vars(TtlLapse(c))

-----------------------------------------------------------------------------
(* Properties.                                                             *)

\* Every variable has its type; the agent holds only commands it was delivered.
TypeOK ==
    /\ row \in [Cmd -> Row]
    /\ due \subseteq Cmd
    /\ calls \in [Calls -> Call]
    /\ \A k \in Calls :
         /\ calls[k].op \in {"ack", "complete", "cancel"} => calls[k].cmd \in Cmd
         /\ calls[k].loaded => calls[k].op \in {"ack", "complete", "cancel"}
    /\ desired \in Flag
    /\ crossed \in BOOLEAN
    /\ batch \subseteq Delivery
    /\ outcome \in Result
    /\ awaited \in Calls \cup {None}
    /\ flag \in Flag
    /\ saved \in Flag
    /\ ran \subseteq Cmd

\* At-least-once delivery is bounded: however polls are lost, leases lapse,
\* acks race the sweep and agents restart, no command is handed out more than
\* agent_command_max_attempts times.
DeliveryBounded == \A c \in Cmd : row[c].attempts <= MaxAttempts

\* A command shown as done was carried out successfully by the agent, and its
\* result is the agent's: an abandoned, repeated or late complete never makes
\* one done that only failed, nor mixes one report's status and another's
\* result.  Excepted is self_update, whose result "applying" is posted before
\* the swap: done only says that its update passed the checks.
DoneWasRun ==
    \A c \in Cmd : row[c].status = "done" =>
      row[c].result = "applying" \/ (row[c].result = "ok" /\ c \in ran)

\* A failed command says why, also when sweep and complete overwrite one
\* another, and a row is terminal exactly when completed_at is set.
EndIsExplained ==
    \A c \in Cmd : /\ row[c].status = "failed" => row[c].result \in {"error", "exhausted"}
                   /\ row[c].ended <=> row[c].status \in Terminal

\* Why these hold at every moment: only a command with an attempt left is
\* queued, a report in hand says what the executor said, and the agent waits
\* for a poll with nothing in hand, for a complete with its command in hand.
ChannelInv ==
    /\ \A c \in Cmd : row[c].status \in {"none", "pending"} => row[c].attempts < MaxAttempts
    /\ \A k \in Calls : calls[k].op = "complete" =>
         calls[k].result # "none" /\ (calls[k].result = "ok" => calls[k].cmd \in ran)
    /\ \A k \in Calls : calls[k].op = "insert" /\ calls[k].kind = "suspend" => calls[k].payload \in Flag
    /\ batch # {} /\ outcome = "ok" => Current.cmd \in ran
    /\ batch = {} => outcome = "none"
    /\ awaited # None => calls[awaited].op = IF batch = {} THEN "poll" ELSE "complete"

IndInv == TypeOK /\ DeliveryBounded /\ DoneWasRun /\ EndIsExplained /\ ChannelInv

\* No stale copy brings a command back: what has ended is never queued or in
\* flight again, so an ended command is never delivered.
NeverRevived ==
    [][\A c \in Cmd : row[c].status \in Terminal => row'[c].status \in Terminal]_vars

\* Every command ends, even when the agent never comes back or heartbeats
\* forever: expiry outranks the lease.
EventuallyEnds == \A c \in Cmd : row[c].status = "pending" ~> row[c].status \in Terminal

\* When every suspend command is done and nothing is under way, the agent is in
\* the state the operator asked for last: collapsing, first-in-first-out
\* delivery, redelivery and persistence leave no older wish standing.  Excepted
\* (crossed) are the three ways an older toggle gets behind a newer one: the
\* collapse overwrites the older of two, a poll passes over an older one that
\* is locked, or the sweep requeues one that the agent is at work on or that is
\* older than a toggle already handed out.
LatestToggleWins ==
    (/\ ~crossed
     /\ batch = {}
     /\ \A k \in Calls : calls[k] = Free
     /\ \A c \in Cmd : row[c].kind = "suspend" => row[c].status = "done")
      => flag = desired /\ saved = desired
=============================================================================
