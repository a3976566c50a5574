------------------------------ MODULE Rollouts ------------------------------
(***************************************************************************)
(* Configuration groups and phased rollouts on central, and the policy     *)
(* poller of the agents that follow them (api/agent_config_groups.py,      *)
(* agent_config.py, api/agent_policies.py, the rollout ticks of worker.py, *)
(* agent/internal/config).                                                 *)
(*                                                                         *)
(* One configuration group and one release are modelled.  Every operator   *)
(* request is one transaction; the worker's tick reads its rollouts first  *)
(* and commits each one later, and publishes a completed configuration in  *)
(* a second transaction.  A document is abstracted to its version: the     *)
(* generation is part of the ETag, so two versions never share one.        *)
(* Minutes and delays are abstracted: a tick that finds no tier due        *)
(* changes nothing, so only the others are steps.                          *)
(***************************************************************************)
EXTENDS Integers, Sequences, FiniteSets

CONSTANTS Agents,
          Bucket,        \* agent_bucket: Agents -> 0..99
          Tiers,         \* the percents of a validated tier list
          MaxVersions    \* bound: snapshots of the group

\* validate_tiers: ascending percents that end with the whole fleet.
ValidTiers(t) ==
    /\ t \in Seq(1..100) /\ Len(t) >= 1
    /\ \A i \in 1..Len(t) - 1 : t[i] < t[i + 1]
    /\ t[Len(t)] = 100

ASSUME RolloutAssumption ==
    /\ ValidTiers(Tiers)
    /\ Bucket \in [Agents -> 0..99]
    /\ MaxVersions \in Nat \ {0}

VARIABLES latest,     \* the newest snapshot of the group
          cur,        \* the group's current_version
          ro,         \* its latest rollout row
          tick,       \* the worker's copy of that row: a set of at most one record
          rel,        \* the latest rollout row of the release
          relTick,    \* the worker's copy of it
          cache,      \* per agent: the ETag of the policy cache on disk
          resp        \* per agent: an answer not yet applied (at most one)

group == <<latest, cur, ro, tick>>
release == <<rel, relTick>>
agent == <<cache, resp>>
vars == <<group, release, agent>>

LiveStatus == {"scheduled", "running"}
Rollout == [target : 0..MaxVersions, tier : 0..Len(Tiers),
            status : {"none", "scheduled", "running", "completed", "cancelled"}]
Versions == 0..MaxVersions     \* 0: none

\* Type invariant of the group, the release and the agents: the current version and a
\* rollout's target are snapshots that have been saved.
TypeOK ==
    /\ latest \in 1..MaxVersions
    /\ cur \in 1..latest
    /\ ro \in Rollout /\ ro.target <= latest
    /\ \A t \in tick : t.stage \in {"loaded", "finish"} /\ t.row \in Rollout
    /\ rel \in Rollout
    /\ relTick \subseteq Rollout
    /\ cache \in [Agents -> Versions]
    /\ resp \in [Agents -> SUBSET Versions]

Init ==
    /\ latest = 1 /\ cur = 1
    /\ ro = [target |-> 0, tier |-> 0, status |-> "none"]
    /\ tick = {}
    /\ rel = ro /\ relTick = {}
    /\ cache = [a \in Agents |-> 0]
    /\ resp = [a \in Agents |-> {}]

----------------------------------------------------------------------------
(* What a rollout covers, and what an agent is served. *)

\* rollout_covers: running, a tier active, the bucket below its percent.
Covers(r, a) ==
    /\ r.status = "running" /\ r.tier \in 1..Len(Tiers)
    /\ Bucket[a] < Tiers[r.tier]

\* Mutant: a covered agent gets the rollout's target even when it is older.
ServedTarget(a) == IF Covers(ro, a) THEN ro.target ELSE cur

\* resolve_effective_config: only ever forward.
Served(a) == IF Covers(ro, a) /\ ro.target > cur THEN ro.target ELSE cur

\* get_update_manifest: a live rollout of the release offers it to its tier only.
Offered(a) == rel.status \in LiveStatus => Covers(rel, a)

----------------------------------------------------------------------------
(* Operator requests on the group. *)

Cancelled(r) == [r EXCEPT !.status = "cancelled"]

\* update_config_group without a rollout: live at once.
Publish ==
    /\ latest < MaxVersions
    /\ latest' = latest + 1 /\ cur' = latest + 1
    /\ UNCHANGED <<ro, tick, release, agent>>

\* update_config_group with a rollout: 409 while one is live.
PublishPhased ==
    /\ latest < MaxVersions
    /\ ro.status \notin LiveStatus
    /\ latest' = latest + 1
    /\ ro' = [target |-> latest + 1, tier |-> 0, status |-> "scheduled"]
    /\ UNCHANGED <<cur, tick, release, agent>>

\* rollback_config_group: republish an old snapshot, cancel a live rollout.
Rollback ==
    /\ latest < MaxVersions
    /\ latest' = latest + 1 /\ cur' = latest + 1
    /\ ro' = IF ro.status \in LiveStatus THEN Cancelled(ro) ELSE ro
    /\ UNCHANGED <<tick, release, agent>>

Cancel ==
    /\ ro.status \in LiveStatus
    /\ ro' = Cancelled(ro)
    /\ UNCHANGED <<latest, cur, tick, release, agent>>

\* The next tier now; the last one completes the rollout.
Promoted(r) ==
    LET t == IF r.tier < Len(Tiers) THEN r.tier + 1 ELSE r.tier
    IN  [r EXCEPT !.tier = t, !.status = IF t >= Len(Tiers) THEN "completed" ELSE "running"]

Promote ==
    /\ ro.status = "running"
    /\ ro' = Promoted(ro)
    /\ cur' = IF ro'.status = "completed" THEN ro.target ELSE cur
    /\ UNCHANGED <<latest, tick, release, agent>>

----------------------------------------------------------------------------
(* The worker's tick. *)

\* Mutant: the last tier is taken for the current one.
StepsShort(r) ==
    IF r.status = "scheduled"
      THEN {[r EXCEPT !.status = "running"]}
      ELSE IF r.tier + 1 < Len(Tiers) THEN {Promoted(r)} ELSE {}

\* One transition of a due row: start it (its first tier may have a delay), or
\* activate the next tier, completing it with the last.  Mirrored by both kinds.
Steps(r) ==
    IF r.status = "scheduled"
      THEN {[r EXCEPT !.status = "running"],
            [r EXCEPT !.tier = 1, !.status = IF Len(Tiers) = 1 THEN "completed" ELSE "running"]}
      ELSE IF r.tier < Len(Tiers) THEN {Promoted(r)} ELSE {}

\* The columns a tick changed are written; the rest of the row stays as it is.
Written(row, old, new) ==
    [row EXCEPT !.tier = IF new.tier # old.tier THEN new.tier ELSE row.tier,
                !.status = IF new.status # old.status THEN new.status ELSE row.status]

\* The rows are read, and a tier of this one is due.
TickLoad ==
    /\ tick = {} /\ ro.status \in LiveStatus
    /\ tick' = {[row |-> ro, stage |-> "loaded"]}
    /\ UNCHANGED <<latest, cur, ro, release, agent>>

\* Advance and commit.
TickStep ==
    \E t \in tick : \E n \in Steps(t.row) :
        /\ t.stage = "loaded"
        /\ ro' = IF ro.target = t.row.target THEN Written(ro, t.row, n) ELSE ro
        /\ tick' = IF n.status = "completed" THEN {[row |-> n, stage |-> "finish"]} ELSE {}
        /\ UNCHANGED <<latest, cur, release, agent>>

\* _finish: the target becomes current for everybody, in its own transaction.
TickFinish ==
    \E t \in tick :
        /\ t.stage = "finish"
        /\ cur' = t.row.target
        /\ tick' = {}
        /\ UNCHANGED <<latest, ro, release, agent>>

WorkerStops ==
    /\ tick # {} \/ relTick # {}
    /\ tick' = {} /\ relTick' = {}
    /\ UNCHANGED <<latest, cur, ro, rel, agent>>

----------------------------------------------------------------------------
(* The rollout of a release: same machine, nothing to publish at its end. *)

\* create_release_rollout; bound: one rollout of the release.
CreateRelease ==
    /\ rel.status = "none"
    /\ rel' = [target |-> 0, tier |-> 0, status |-> "scheduled"]
    /\ UNCHANGED <<group, relTick, agent>>

CancelRelease ==
    /\ rel.status \in LiveStatus
    /\ rel' = Cancelled(rel)
    /\ UNCHANGED <<group, relTick, agent>>

PromoteRelease ==
    /\ rel.status = "running"
    /\ rel' = Promoted(rel)
    /\ UNCHANGED <<group, relTick, agent>>

TickLoadRelease ==
    /\ relTick = {} /\ rel.status \in LiveStatus
    /\ relTick' = {rel}
    /\ UNCHANGED <<group, rel, agent>>

TickStepRelease ==
    \E t \in relTick : \E n \in Steps(t) :
        /\ rel' = Written(rel, t, n)
        /\ relTick' = {}
        /\ UNCHANGED <<group, agent>>

----------------------------------------------------------------------------
(* The agent's policy poller. *)

\* One conditional GET.  Central answers 304 to the ETag of the cache on disk: the
\* poller then saves again the document it loaded before the request.
PollFetch(a) ==
    /\ resp[a] = {}
    /\ resp' = [resp EXCEPT ![a] = {Served(a)}]
    /\ UNCHANGED <<group, release, cache>>

\* Mutant: the answer is applied and not persisted.
PollApplyOnly(a) ==
    /\ resp[a] # {}
    /\ resp' = [resp EXCEPT ![a] = {}]
    /\ UNCHANGED <<group, release, cache>>

\* Apply to the daemon, then persist (after a 304: persist).
PollApply(a) ==
    \E e \in resp[a] :
        /\ cache' = [cache EXCEPT ![a] = e]
        /\ resp' = [resp EXCEPT ![a] = {}]
        /\ UNCHANGED <<group, release>>

\* The daemon restarts between an answer and its use; it seeds itself from the
\* cache.
Restart(a) ==
    /\ resp[a] # {}
    /\ resp' = [resp EXCEPT ![a] = {}]
    /\ UNCHANGED <<group, release, cache>>

\* `policy --fetch`: a poll of its own that persists without a daemon to apply to.
PolicyFetch(a) ==
    /\ cache' = [cache EXCEPT ![a] = Served(a)]
    /\ UNCHANGED <<group, release, resp>>

----------------------------------------------------------------------------
Operator ==
    \/ Publish \/ PublishPhased \/ Rollback
    \/ Cancel \/ Promote
    \/ CreateRelease \/ CancelRelease \/ PromoteRelease

Worker ==
    \/ TickLoad \/ TickStep \/ TickFinish
    \/ TickLoadRelease \/ TickStepRelease

Next ==
    \/ Operator \/ Worker \/ WorkerStops
    \/ \E a \in Agents : PollFetch(a) \/ PollApply(a) \/ Restart(a) \/ PolicyFetch(a)

Spec == Init /\ [][Next]_vars

\* The tick runs every minute, a delay does elapse, and the worker does not die
\* in every tick; the poll loops run, and restarts do not always hit between an
\* answer and its use.
Fairness ==
    /\ WF_vars(TickLoad) /\ WF_vars(TickLoadRelease)
    /\ SF_vars(TickStep) /\ SF_vars(TickStepRelease) /\ WF_vars(TickFinish)
    /\ \A a \in Agents : WF_vars(PollFetch(a)) /\ SF_vars(PollApply(a))

FairSpec == Spec /\ Fairness

----------------------------------------------------------------------------
(* Properties. *)

\* Publishing, promoting and widening a tier only move agents forward, also when
\* a document goes live past a rollout of an older one ("Only ever FORWARD: a
\* rollout targeting an older version than the published one would silently
\* downgrade covered agents").  An agent moves back only with the end of a
\* rollout, or with a tick whose copy of the row a request has overtaken.  A
\* release, too, is withdrawn from an agent of its rollout by such a tick only.
ServedGrows ==
    [][\A a \in Agents :
          /\ Served(a)' < Served(a) =>
               \/ ro'.status \in {"cancelled", "completed"}
               \/ tick' # tick /\ \E t \in tick : t.row # ro
          /\ Offered(a) /\ ~Offered(a)' =>
               \/ rel.status \notin LiveStatus
               \/ relTick' # relTick /\ \E t \in relTick : t # rel]_vars

\* No rollout stays wedged half-way, of a group or of a release, however the
\* worker dies and whoever cancels or promotes.  It does not say that a completed
\* rollout was published: a worker lost before the publication leaves one whose
\* target never becomes current.
RolloutEnds ==
    /\ (ro.status \in LiveStatus) ~> (ro.status \notin LiveStatus)
    /\ (rel.status \in LiveStatus) ~> (rel.status \notin LiveStatus)

\* The policy on disk, which scans and the next start of the daemon use, always
\* comes to be the one central serves.
EventuallyConfigured == \A a \in Agents : []<>(cache[a] = Served(a))
=============================================================================
