--------------------------- MODULE RolloutsProofs ---------------------------
(***************************************************************************)
(* Proofs about Rollouts, for any set of agents, buckets, tiers and number *)
(* of versions: the type invariant, and that agents only move forward.     *)
(*                                                                         *)
(* The type invariant is not inductive: the tick publishes the target of a *)
(* row it read long ago, so the invariant has to say that the target of    *)
(* every copy is a saved snapshot.  That agents move forward needs, in     *)
(* addition, that a copy waiting to be published is of a completed row.    *)
(***************************************************************************)
EXTENDS Rollouts, SequenceTheorems, TLAPS

RowInv ==
    /\ latest \in Nat /\ latest \in 1..MaxVersions
    /\ cur \in Nat /\ cur \in 1..latest
    /\ ro \in Rollout
    /\ ro.target <= latest
    /\ ro.status # "none" => ro.target >= 1

TickInv ==
    \A t \in tick :
        /\ t.stage \in {"loaded", "finish"}
        /\ t.row \in Rollout
        /\ t.row.target \in 1..latest
        /\ t.stage = "finish" => t.row.status = "completed"

ReleaseInv == rel \in Rollout /\ relTick \subseteq Rollout

AgentInv ==
    /\ cache \in [Agents -> Versions]
    /\ resp \in [Agents -> SUBSET Versions]

RolloutInv == RowInv /\ TickInv /\ ReleaseInv /\ AgentInv

----------------------------------------------------------------------------
(* The state machine of a row. *)

\* The tiers are a sequence of percents, ascending.
LEMMA TierFacts ==
    /\ Len(Tiers) \in Nat /\ Len(Tiers) >= 1
    /\ \A i \in 1..Len(Tiers) : Tiers[i] \in Int
    /\ \A i \in 1..Len(Tiers) : i + 1 \in 1..Len(Tiers) => Tiers[i] < Tiers[i + 1]
<1>1. Tiers \in Seq(1..100) /\ Len(Tiers) >= 1
    BY RolloutAssumption DEF ValidTiers
<1>2. Len(Tiers) \in Nat /\ Len(Tiers) >= 1
    BY <1>1
<1>3. \A i \in 1..Len(Tiers) : Tiers[i] \in Int
    <2> SUFFICES ASSUME NEW i \in 1..Len(Tiers) PROVE Tiers[i] \in Int
        OBVIOUS
    <2>1. Tiers[i] \in 1..100
        BY <1>1, ElementOfSeq
    <2>2. \A x \in 1..100 : x \in Int
        OBVIOUS
    <2> QED
        BY <2>1, <2>2, Zenon
<1>4. \A i \in 1..Len(Tiers) : i + 1 \in 1..Len(Tiers) => Tiers[i] < Tiers[i + 1]
    <2>1. \A i \in 1..Len(Tiers) - 1 : Tiers[i] < Tiers[i + 1]
        BY RolloutAssumption DEF ValidTiers
    <2> QED
        BY <2>1, <1>2
<1> QED
    BY <1>2, <1>3, <1>4

\* A promoted row is a row of the same target, running or completed.
LEMMA PromotedRow ==
    ASSUME NEW r \in Rollout
    PROVE  /\ Promoted(r) \in Rollout
           /\ Promoted(r).target = r.target
           /\ Promoted(r).status \in {"running", "completed"}
<1> DEFINE t == IF r.tier < Len(Tiers) THEN r.tier + 1 ELSE r.tier
           s == IF t >= Len(Tiers) THEN "completed" ELSE "running"
<1>1. t \in 0..Len(Tiers) /\ s \in {"running", "completed"}
    BY TierFacts DEF Rollout
<1>2. Promoted(r) = [r EXCEPT !.tier = t, !.status = s]
    BY DEF Promoted
<1> HIDE DEF t, s
<1> QED
    BY <1>1, <1>2 DEF Rollout

\* What a tick makes of a row is a row of the same target, and no fresh one.
LEMMA SteppedRow ==
    ASSUME NEW r \in Rollout, NEW n \in Steps(r)
    PROVE  /\ n \in Rollout
           /\ n.target = r.target
           /\ n.status \in {"running", "completed"}
<1>1. CASE r.status = "scheduled"
    <2> DEFINE s == IF Len(Tiers) = 1 THEN "completed" ELSE "running"
    <2>1. \/ n = [r EXCEPT !.status = "running"]
          \/ n = [r EXCEPT !.tier = 1, !.status = s]
        BY <1>1 DEF Steps
    <2>2. s \in {"running", "completed"} /\ 1 \in 0..Len(Tiers)
        BY TierFacts
    <2> HIDE DEF s
    <2> QED
        BY <2>1, <2>2 DEF Rollout
<1>2. CASE r.status # "scheduled"
    BY <1>2, PromotedRow DEF Steps
<1> QED
    BY <1>1, <1>2

\* Writing back the changed columns keeps the target.
LEMMA WrittenRow ==
    ASSUME NEW r \in Rollout, NEW o \in Rollout, NEW n \in Rollout
    PROVE  /\ Written(r, o, n) \in Rollout
           /\ Written(r, o, n).target = r.target
           /\ Written(r, o, n).status \in {r.status, n.status}
BY DEF Written, Rollout

\* Without interference the row becomes what the tick computed.
LEMMA WrittenSame ==
    ASSUME NEW r \in Rollout, NEW n \in Rollout, n.target = r.target
    PROVE  Written(r, r, n) = n
BY DEF Written, Rollout

\* A wider tier covers whom the last one covered.
LEMMA PromotedCovers ==
    ASSUME NEW r \in Rollout, NEW a \in Agents, Covers(r, a)
    PROVE  Promoted(r).status = "completed" \/ Covers(Promoted(r), a)
<1>1. Bucket[a] \in Int
    BY RolloutAssumption
<1> QED
    BY <1>1, TierFacts DEF Covers, Promoted, Rollout

\* A tick does not take an agent out of a running rollout that it leaves running.
LEMMA SteppedCovers ==
    ASSUME NEW r \in Rollout, NEW n \in Steps(r), NEW a \in Agents, Covers(r, a)
    PROVE  n.status = "completed" \/ Covers(n, a)
BY PromotedCovers DEF Steps, Covers

----------------------------------------------------------------------------
(* Invariance. *)

LEMMA InitInv == Init => RolloutInv
<1> SUFFICES ASSUME Init PROVE RolloutInv
    OBVIOUS
<1> USE RolloutAssumption, TierFacts
<1>1. ro \in Rollout
    BY DEF Init, Rollout
<1>2. RowInv
    BY <1>1 DEF Init, RowInv
<1>3. TickInv /\ ReleaseInv
    BY <1>1 DEF Init, TickInv, ReleaseInv
<1>4. AgentInv
    BY DEF Init, AgentInv, Versions
<1> QED
    BY <1>2, <1>3, <1>4 DEF RolloutInv

LEMMA ServedIsVersion ==
    ASSUME RowInv, NEW a \in Agents
    PROVE  Served(a) \in Versions
BY RolloutAssumption DEF RowInv, Served, Rollout, Versions

LEMMA NextInv == RolloutInv /\ [Next]_vars => RolloutInv'
<1> SUFFICES ASSUME RolloutInv, [Next]_vars PROVE RolloutInv'
    OBVIOUS
<1> USE RolloutAssumption, TierFacts
<1>0. RowInv /\ TickInv /\ ReleaseInv /\ AgentInv /\ ro.target \in Nat
    BY DEF RolloutInv, RowInv, Rollout
<1>1. CASE Publish
    <2>1. RowInv'
        BY <1>0, <1>1 DEF Publish, RowInv
    <2>2. TickInv'
        BY <1>0, <1>1 DEF Publish, RowInv, TickInv
    <2> QED
        BY <1>0, <1>1, <2>1, <2>2 DEF Publish, release, agent, ReleaseInv, AgentInv, RolloutInv
<1>2. CASE PublishPhased
    <2>1. ro' \in Rollout
        BY <1>0, <1>2 DEF PublishPhased, RowInv, Rollout
    <2>2. RowInv'
        BY <1>0, <1>2, <2>1 DEF PublishPhased, RowInv
    <2>3. TickInv'
        BY <1>0, <1>2 DEF PublishPhased, RowInv, TickInv
    <2> QED
        BY <1>0, <1>2, <2>2, <2>3 DEF PublishPhased, release, agent, ReleaseInv, AgentInv, RolloutInv
<1>3. CASE Rollback
    <2>1. ro' \in Rollout /\ ro'.target = ro.target /\ (ro.status = "none" => ro' = ro)
        BY <1>0, <1>3 DEF Rollback, RowInv, Cancelled, LiveStatus, Rollout
    <2>2. RowInv'
        BY <1>0, <1>3, <2>1 DEF Rollback, RowInv
    <2>3. TickInv'
        BY <1>0, <1>3 DEF Rollback, RowInv, TickInv
    <2> QED
        BY <1>0, <1>3, <2>2, <2>3 DEF Rollback, release, agent, ReleaseInv, AgentInv, RolloutInv
<1>4. CASE Cancel
    <2>1. ro' \in Rollout /\ ro'.target = ro.target /\ ro.status # "none"
        BY <1>0, <1>4 DEF Cancel, RowInv, Cancelled, LiveStatus, Rollout
    <2>2. RowInv'
        BY <1>0, <1>4, <2>1 DEF Cancel, RowInv
    <2>3. TickInv'
        BY <1>0, <1>4 DEF Cancel, TickInv
    <2> QED
        BY <1>0, <1>4, <2>2, <2>3 DEF Cancel, release, agent, ReleaseInv, AgentInv, RolloutInv
<1>5. CASE Promote
    <2>1. ro' \in Rollout /\ ro'.target = ro.target /\ ro.status # "none"
        BY <1>0, <1>5, PromotedRow DEF Promote, RowInv
    <2>2. ro.target \in 1..latest
        BY <1>0, <2>1 DEF RowInv, Rollout
    <2>3. RowInv'
        BY <1>0, <1>5, <2>1, <2>2 DEF Promote, RowInv
    <2>4. TickInv'
        BY <1>0, <1>5 DEF Promote, TickInv
    <2> QED
        BY <1>0, <1>5, <2>3, <2>4 DEF Promote, release, agent, ReleaseInv, AgentInv, RolloutInv
<1>6. CASE TickLoad
    <2>1. ro.status # "none" /\ ro.target \in 1..latest
        BY <1>0, <1>6 DEF TickLoad, LiveStatus, RowInv, Rollout
    <2>2. TickInv'
        BY <1>0, <1>6, <2>1 DEF TickLoad, TickInv, RowInv
    <2> QED
        BY <1>0, <1>6, <2>2 DEF TickLoad, release, agent, RowInv, ReleaseInv, AgentInv, RolloutInv
<1>7. CASE TickStep
    <2>1. PICK t \in tick : \E n \in Steps(t.row) :
            /\ ro' = IF ro.target = t.row.target THEN Written(ro, t.row, n) ELSE ro
            /\ tick' = IF n.status = "completed" THEN {[row |-> n, stage |-> "finish"]} ELSE {}
        BY <1>7 DEF TickStep
    <2>2. PICK n \in Steps(t.row) :
            /\ ro' = IF ro.target = t.row.target THEN Written(ro, t.row, n) ELSE ro
            /\ tick' = IF n.status = "completed" THEN {[row |-> n, stage |-> "finish"]} ELSE {}
        BY <2>1
    <2>3. t.row \in Rollout /\ t.row.target \in 1..latest
        BY <1>0 DEF TickInv
    <2>4. n \in Rollout /\ n.target = t.row.target /\ n.status \in {"running", "completed"}
        BY <2>3, SteppedRow
    <2>5. latest' = latest /\ cur' = cur
        BY <1>7 DEF TickStep
    <2>6. RowInv'
        <3>1. CASE ro.target = t.row.target
            <4>1. ro' \in Rollout /\ ro'.target = ro.target
                BY <1>0, <2>2, <2>3, <2>4, <3>1, WrittenRow DEF RowInv
            <4>2. ro'.target >= 1
                BY <2>3, <3>1, <4>1
            <4> QED
                BY <1>0, <2>5, <4>1, <4>2 DEF RowInv
        <3>2. CASE ro.target # t.row.target
            BY <1>0, <2>2, <2>5, <3>2 DEF RowInv
        <3> QED
            BY <3>1, <3>2
    <2>7. TickInv'
        BY <2>2, <2>3, <2>4, <2>5 DEF TickInv
    <2> QED
        BY <1>0, <1>7, <2>6, <2>7 DEF TickStep, release, agent, ReleaseInv, AgentInv, RolloutInv
<1>8. CASE TickFinish
    <2>1. cur' \in 1..latest
        BY <1>0, <1>8 DEF TickFinish, TickInv
    <2>2. RowInv'
        BY <1>0, <1>8, <2>1 DEF TickFinish, RowInv
    <2>3. TickInv'
        BY <1>8 DEF TickFinish, TickInv
    <2> QED
        BY <1>0, <1>8, <2>2, <2>3 DEF TickFinish, release, agent, ReleaseInv, AgentInv, RolloutInv
<1>9. CASE WorkerStops
    BY <1>0, <1>9 DEF WorkerStops, agent, RowInv, TickInv, ReleaseInv, AgentInv, RolloutInv
<1>10. CASE CreateRelease
    <2>1. rel' \in Rollout
        BY <1>10 DEF CreateRelease, Rollout
    <2> QED
        BY <1>0, <1>10, <2>1 DEF CreateRelease, group, agent, RowInv, TickInv, ReleaseInv, AgentInv, RolloutInv
<1>11. CASE CancelRelease
    <2>1. rel' \in Rollout
        BY <1>0, <1>11 DEF CancelRelease, ReleaseInv, Cancelled, Rollout
    <2> QED
        BY <1>0, <1>11, <2>1 DEF CancelRelease, group, agent, RowInv, TickInv, ReleaseInv, AgentInv, RolloutInv
<1>12. CASE PromoteRelease
    <2>1. rel' \in Rollout
        BY <1>0, <1>12, PromotedRow DEF PromoteRelease, ReleaseInv
    <2> QED
        BY <1>0, <1>12, <2>1 DEF PromoteRelease, group, agent, RowInv, TickInv, ReleaseInv, AgentInv, RolloutInv
<1>13. CASE TickLoadRelease
    BY <1>0, <1>13 DEF TickLoadRelease, group, agent, RowInv, TickInv, ReleaseInv, AgentInv, RolloutInv
<1>14. CASE TickStepRelease
    <2>0. PICK t \in relTick : \E n \in Steps(t) : rel' = Written(rel, t, n) /\ relTick' = {}
        BY <1>14 DEF TickStepRelease
    <2>1. PICK n \in Steps(t) : rel' = Written(rel, t, n) /\ relTick' = {}
        BY <2>0
    <2>2. t \in Rollout /\ n \in Rollout
        BY <1>0, <2>1, SteppedRow DEF ReleaseInv
    <2>3. rel' \in Rollout
        BY <1>0, <2>1, <2>2, WrittenRow DEF ReleaseInv
    <2> QED
        BY <1>0, <1>14, <2>1, <2>3 DEF TickStepRelease, group, agent, RowInv, TickInv, ReleaseInv, AgentInv, RolloutInv
<1>15. ASSUME NEW a \in Agents, PollFetch(a) \/ PollApply(a) \/ Restart(a) \/ PolicyFetch(a)
       PROVE  RolloutInv'
    <2>1. Served(a) \in Versions
        BY <1>0, ServedIsVersion
    <2>2. AgentInv'
        <3>1. CASE PollFetch(a)
            BY <1>0, <2>1, <3>1 DEF PollFetch, AgentInv
        <3>2. CASE PollApply(a)
            BY <1>0, <3>2 DEF PollApply, AgentInv
        <3>3. CASE Restart(a)
            BY <1>0, <3>3 DEF Restart, AgentInv
        <3>4. CASE PolicyFetch(a)
            BY <1>0, <2>1, <3>4 DEF PolicyFetch, AgentInv
        <3> QED
            BY <1>15, <3>1, <3>2, <3>3, <3>4
    <2>3. UNCHANGED <<group, release>>
        BY <1>15 DEF PollFetch, PollApply, Restart, PolicyFetch
    <2> QED
        BY <1>0, <2>2, <2>3 DEF group, release, RowInv, TickInv, ReleaseInv, RolloutInv
<1>16. CASE UNCHANGED vars
    BY <1>0, <1>16 DEF vars, group, release, agent, RowInv, TickInv, ReleaseInv, AgentInv, RolloutInv
<1> QED
    BY <1>1, <1>2, <1>3, <1>4, <1>5, <1>6, <1>7, <1>8, <1>9, <1>10, <1>11, <1>12, <1>13,
       <1>14, <1>15, <1>16 DEF Next, Operator, Worker

\* The inductive invariant holds in every reachable state: what the worker will
\* publish is a saved snapshot of a completed rollout.
THEOREM RolloutInvariance == Spec => []RolloutInv
BY InitInv, NextInv, PTL DEF Spec

\* The group, the release and the agents keep their types; the current version and
\* the rollout's target are snapshots that update_config_group or
\* rollback_config_group have saved.
THEOREM RolloutTypes == Spec => []TypeOK
<1>1. RolloutInv => TypeOK
    BY DEF RolloutInv, RowInv, TickInv, ReleaseInv, AgentInv, TypeOK
<1> QED
    BY <1>1, RolloutInvariance, PTL

----------------------------------------------------------------------------
(* Agents only move forward. *)

\* A configuration of the agents of a running rollout is not taken back by a step
\* on the row that the step has read, unless it ends the rollout.
LEMMA ConfigForward ==
    ASSUME RolloutInv, Next, NEW a \in Agents
    PROVE  \/ Served(a)' >= Served(a)
           \/ ro'.status \in {"cancelled", "completed"}
           \/ tick' # tick /\ \E t \in tick : t.row # ro
<1> USE RolloutAssumption
<1>0. /\ RowInv /\ TickInv
      /\ latest \in Nat /\ cur \in Nat /\ cur <= latest
      /\ ro \in Rollout /\ ro.target \in Nat /\ ro.target <= latest
    BY DEF RolloutInv, RowInv, Rollout
<1>s. Served(a) \in Nat /\ Served(a) >= cur /\ Served(a) <= latest
    BY <1>0 DEF Served
<1>1. CASE Publish \/ Rollback
    <2>1. cur' = latest + 1
        BY <1>1 DEF Publish, Rollback
    <2>2. ro'.target = ro.target
        BY <1>0, <1>1 DEF Publish, Rollback, Cancelled, Rollout
    <2>3. Served(a)' = latest + 1
        BY <1>0, <2>1, <2>2 DEF Served
    <2> QED
        BY <1>0, <1>s, <2>3
<1>2. CASE PublishPhased
    <2>1. Served(a) = cur /\ cur' = cur
        BY <1>2 DEF PublishPhased, Served, Covers, LiveStatus
    <2>2. Served(a)' = cur
        BY <1>2, <2>1 DEF PublishPhased, Served, Covers
    <2> QED
        BY <1>0, <2>1, <2>2
<1>3. CASE Cancel
    <2>1. ro'.status = "cancelled"
        BY <1>0, <1>3 DEF Cancel, Cancelled, Rollout
    <2> QED
        BY <2>1
<1>4. CASE Promote
    <2>1. ro' = Promoted(ro) /\ ro' \in Rollout /\ ro'.target = ro.target
        BY <1>0, <1>4, PromotedRow DEF Promote
    <2>2. CASE ro'.status = "completed"
        BY <2>2
    <2>3. CASE ro'.status # "completed"
        <3>1. cur' = cur
            BY <1>4, <2>3 DEF Promote
        <3>2. Covers(ro, a) => Covers(ro, a)'
            BY <1>0, <2>1, <2>3, PromotedCovers DEF Covers
        <3> QED
            BY <1>0, <2>1, <3>1, <3>2 DEF Served
    <2> QED
        BY <2>2, <2>3
<1>5. CASE TickStep
    <2>1. PICK t \in tick : \E n \in Steps(t.row) :
            /\ t.stage = "loaded"
            /\ ro' = IF ro.target = t.row.target THEN Written(ro, t.row, n) ELSE ro
            /\ tick' = IF n.status = "completed" THEN {[row |-> n, stage |-> "finish"]} ELSE {}
        BY <1>5 DEF TickStep
    <2>2. PICK n \in Steps(t.row) :
            /\ ro' = IF ro.target = t.row.target THEN Written(ro, t.row, n) ELSE ro
            /\ tick' = IF n.status = "completed" THEN {[row |-> n, stage |-> "finish"]} ELSE {}
        BY <2>1
    <2>3. tick' # tick
        <3>1. t \notin tick'
            BY <2>1, <2>2
        <3> QED
            BY <3>1
    <2>4. CASE t.row # ro
        BY <2>3, <2>4
    <2>5. CASE t.row = ro
        <3>1. n \in Rollout /\ n.target = ro.target
            BY <1>0, <2>5, SteppedRow
        <3>2. ro' = n
            BY <1>0, <2>2, <2>5, <3>1, WrittenSame
        <3>3. CASE n.status = "completed"
            BY <3>2, <3>3
        <3>4. CASE n.status # "completed"
            <4>1. Covers(ro, a) => Covers(n, a)
                BY <1>0, <2>5, <3>4, SteppedCovers
            <4>2. Covers(ro, a) => Covers(ro, a)'
                BY <3>2, <4>1 DEF Covers
            <4>3. cur' = cur
                BY <1>5 DEF TickStep
            <4> QED
                BY <1>0, <3>1, <3>2, <4>2, <4>3 DEF Served
        <3> QED
            BY <3>3, <3>4
    <2> QED
        BY <2>4, <2>5
<1>6. CASE TickFinish
    <2>1. PICK t \in tick : t.stage = "finish" /\ tick' = {} /\ ro' = ro
        BY <1>6 DEF TickFinish
    <2>2. t.row.status = "completed"
        BY <1>0, <2>1 DEF TickInv
    <2>3. CASE t.row = ro
        BY <2>1, <2>2, <2>3
    <2>4. CASE t.row # ro
        BY <2>1, <2>4
    <2> QED
        BY <2>3, <2>4
<1>7. CASE ro' = ro /\ cur' = cur
    <2>1. Served(a)' = Served(a)
        BY <1>7 DEF Served, Covers
    <2> QED
        BY <1>s, <2>1
<1>8. TickLoad \/ WorkerStops => ro' = ro /\ cur' = cur
    BY DEF TickLoad, WorkerStops
<1>9. CreateRelease \/ CancelRelease \/ PromoteRelease \/ TickLoadRelease \/ TickStepRelease
        => ro' = ro /\ cur' = cur
    BY DEF CreateRelease, CancelRelease, PromoteRelease, TickLoadRelease, TickStepRelease, group
<1>10. ASSUME NEW b \in Agents, PollFetch(b) \/ PollApply(b) \/ Restart(b) \/ PolicyFetch(b)
       PROVE  ro' = ro /\ cur' = cur
    BY <1>10 DEF PollFetch, PollApply, Restart, PolicyFetch, group
<1> QED
    BY <1>1, <1>2, <1>3, <1>4, <1>5, <1>6, <1>7, <1>8, <1>9, <1>10 DEF Next, Operator, Worker

\* The same of the offer of a release.
LEMMA OfferForward ==
    ASSUME RolloutInv, Next, NEW a \in Agents, Offered(a), ~Offered(a)'
    PROVE  \/ rel.status \notin LiveStatus
           \/ relTick' # relTick /\ \E t \in relTick : t # rel
<1>0. rel \in Rollout /\ relTick \subseteq Rollout
    BY DEF RolloutInv, ReleaseInv
<1>1. CASE rel' = rel
    BY <1>1 DEF Offered, Covers
<1>2. CASE CreateRelease
    BY <1>2 DEF CreateRelease, LiveStatus
<1>3. CASE CancelRelease
    <2>1. rel'.status = "cancelled"
        BY <1>0, <1>3 DEF CancelRelease, Cancelled, Rollout
    <2> QED
        BY <2>1 DEF Offered, LiveStatus
<1>4. CASE PromoteRelease
    <2>1. rel.status = "running" /\ rel' = Promoted(rel)
        BY <1>4 DEF PromoteRelease
    <2>2. Covers(rel, a)
        BY <2>1 DEF Offered, LiveStatus
    <2>3. rel'.status = "completed" \/ Covers(rel, a)'
        BY <1>0, <2>1, <2>2, PromotedCovers DEF Covers
    <2> QED
        BY <2>3 DEF Offered, LiveStatus
<1>5. CASE TickStepRelease
    <2>1. PICK t \in relTick : \E n \in Steps(t) : rel' = Written(rel, t, n) /\ relTick' = {}
        BY <1>5 DEF TickStepRelease
    <2>2. PICK n \in Steps(t) : rel' = Written(rel, t, n)
        BY <2>1
    <2>3. CASE t # rel
        BY <2>1, <2>3
    <2>4. CASE t = rel /\ rel.status \in LiveStatus
        <3>1. rel' = n /\ n \in Rollout
            BY <1>0, <2>2, <2>4, SteppedRow, WrittenSame
        <3>2. Covers(rel, a)
            BY <2>4 DEF Offered
        <3>3. n.status = "completed" \/ Covers(n, a)
            BY <1>0, <2>4, <3>2, SteppedCovers
        <3>4. rel'.status = "completed" \/ Covers(rel, a)'
            BY <3>1, <3>3 DEF Covers
        <3> QED
            BY <3>4 DEF Offered, LiveStatus
    <2> QED
        BY <2>3, <2>4
<1>6. Publish \/ PublishPhased \/ Rollback \/ Cancel \/ Promote => rel' = rel
    BY DEF Publish, PublishPhased, Rollback, Cancel, Promote, release
<1>7. TickLoad \/ TickStep \/ TickFinish \/ WorkerStops \/ TickLoadRelease => rel' = rel
    BY DEF TickLoad, TickStep, TickFinish, WorkerStops, TickLoadRelease, release
<1>8. ASSUME NEW b \in Agents, PollFetch(b) \/ PollApply(b) \/ Restart(b) \/ PolicyFetch(b)
      PROVE  rel' = rel
    BY <1>8 DEF PollFetch, PollApply, Restart, PolicyFetch, release
<1> QED
    BY <1>1, <1>2, <1>3, <1>4, <1>5, <1>6, <1>7, <1>8 DEF Next, Operator, Worker

\* Publishing, promoting and widening a tier only move agents forward, for any fleet
\* and any tiers: what resolve_effective_config serves goes back only with the end
\* of a rollout, or with a tick whose copy of the row a request has overtaken, and
\* get_update_manifest withdraws a release only in the latter case.
THEOREM AgentsMoveForward == Spec => ServedGrows
<1>1. RolloutInv /\ [Next]_vars =>
        [\A a \in Agents :
            /\ Served(a)' < Served(a) =>
                 \/ ro'.status \in {"cancelled", "completed"}
                 \/ tick' # tick /\ \E t \in tick : t.row # ro
            /\ Offered(a) /\ ~Offered(a)' =>
                 \/ rel.status \notin LiveStatus
                 \/ relTick' # relTick /\ \E t \in relTick : t # rel]_vars
    <2> SUFFICES ASSUME RolloutInv, Next, NEW a \in Agents
                 PROVE  /\ Served(a)' < Served(a) =>
                             \/ ro'.status \in {"cancelled", "completed"}
                             \/ tick' # tick /\ \E t \in tick : t.row # ro
                        /\ Offered(a) /\ ~Offered(a)' =>
                             \/ rel.status \notin LiveStatus
                             \/ relTick' # relTick /\ \E t \in relTick : t # rel
        OBVIOUS
    <2>1. Served(a) \in Int /\ Served(a)' \in Int
        <3>1. RowInv /\ RowInv'
            BY NextInv DEF RolloutInv
        <3> QED
            BY <3>1 DEF RowInv, Served, Rollout
    <2>2. \/ Served(a)' >= Served(a)
          \/ ro'.status \in {"cancelled", "completed"}
          \/ tick' # tick /\ \E t \in tick : t.row # ro
        BY ConfigForward
    <2>3. ~(Served(a)' < Served(a)) \/ ~(Served(a)' >= Served(a))
        BY <2>1
    <2>4. Offered(a) /\ ~Offered(a)' =>
            \/ rel.status \notin LiveStatus
            \/ relTick' # relTick /\ \E t \in relTick : t # rel
        BY OfferForward
    <2> QED
        BY <2>2, <2>3, <2>4
<1> QED
    BY <1>1, RolloutInvariance, PTL DEF Spec, ServedGrows
=============================================================================
