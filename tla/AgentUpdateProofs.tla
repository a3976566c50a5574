------------------------- MODULE AgentUpdateProofs -------------------------
(***************************************************************************)
(* The swap and its rollback are safe for any set of versions, any attempt *)
(* budget and any number of lost processes and failed calls, in a life     *)
(* that is not marred (see the properties of AgentUpdate).                 *)
(***************************************************************************)
EXTENDS AgentUpdate, TLAPS

\* What the types rest on: a process has a version, an applier a target.
ShapeInv ==
    /\ TypeOK
    /\ phase # "down" => running \in Versions
    /\ \A a \in Appliers : pc[a] # "idle" => target[a] \in Versions

\* Goroutines live in a process that is up, and at most one of them moves files.
ProcessInv ==
    /\ phase # "up" => health = "none" /\ \A a \in Appliers : pc[a] = "idle"
    /\ health # "none" => \A a \in Appliers : pc[a] = "idle"
    /\ \A a, b \in Appliers : pc[a] # "idle" /\ pc[b] # "idle" => a = b

\* What is on disk at each step: only a proven binary is ever renamed aside by
\* an update, and the process that does so runs it; a rollback that fails
\* leaves the failed binary and its record as they were.
DiskInv ==
    /\ proven \subseteq Good
    /\ \A s, t \in trial : s = t
    /\ old # NoFile => old \in proven
    /\ exe = NoFile => old \in proven
    /\ exe # NoFile /\ exe \notin proven =>
         old \in proven /\ \E st \in trial : st.version = exe
    /\ health # "none" => exe = running
    /\ health \in {"remove", "clear"} => exe \in proven
    /\ phase = "starting" => exe = running
    /\ phase = "restoring" =>
         /\ exe = NoFile /\ broken = running
         /\ \A st \in trial : st.attempts = MaxAttempts
         /\ broken \notin proven => \E st \in trial : st.version = broken
    /\ phase = "restored" => exe \in proven
    /\ phase = "up" /\ exe # NoFile /\ (\A a \in Appliers : pc[a] # "swapped") => exe = running
    /\ \A a \in Appliers :
         /\ pc[a] # "idle" => running \in proven
         /\ pc[a] \in {"offered", "downloaded", "saved", "dropped"} => exe = running
         /\ pc[a] \in {"saved", "dropped", "aside", "swapped"} =>
              trial = {[version |-> target[a], attempts |-> 0]}
         /\ pc[a] = "aside" => exe = NoFile /\ old = running

\* The boots of an unproven binary that gets as far as the boot check are paid
\* for by counted attempts, losses and failures.
CountInv ==
    /\ exe \in proven => boots = 0
    /\ \A a \in Appliers : pc[a] = "aside" => boots = 0
    /\ phase = "restoring" /\ broken \in proven => boots = 0
    /\ exe = NoFile => boots <= MaxAttempts + 1 + faults
    /\ exe # NoFile /\ exe \notin proven \cup Early => \A st \in trial :
         boots <= st.attempts + faults + (IF phase = "starting" THEN 1 ELSE 0)

UpdateInv == ShapeInv /\ (~marred => ProcessInv /\ DiskInv)

-----------------------------------------------------------------------------
LEMMA ShapeInit == Init => ShapeInv
<1> SUFFICES ASSUME Init PROVE ShapeInv
  OBVIOUS
<1>1. marred \in BOOLEAN
  BY Zenon DEF Init
<1> QED
  BY <1>1, UpdateAssumption DEF Init, ShapeInv, TypeOK, Steps

\* Types are kept by every step, whatever overlaps or fails.
LEMMA ShapeStep ==
  ASSUME ShapeInv, Next
  PROVE  ShapeInv'
<1> USE UpdateAssumption DEF ShapeInv, TypeOK, disk, process, apply, history
<1>1. CASE \E v \in Versions \cup {NoFile} : Offer(v)
  BY <1>1 DEF Offer
<1>2. CASE \E a \in Appliers : CheckForUpdate(a)
  BY <1>2 DEF CheckForUpdate, Settled, Steps
<1>3. CASE \E a \in Appliers : Download(a)
  BY <1>3 DEF Download, Advance, Steps
<1>4. CASE \E a \in Appliers : DownloadFails(a)
  BY <1>4 DEF DownloadFails, Advance, Steps
<1>5. CASE \E a \in Appliers : SaveTrial(a)
  BY <1>5 DEF SaveTrial, Advance, Steps
<1>6. CASE \E a \in Appliers : SaveTrialFails(a)
  BY <1>6 DEF SaveTrialFails, Advance, Steps
<1>7. CASE \E a \in Appliers : DropOld(a)
  BY <1>7 DEF DropOld, Advance, Steps
<1>8. CASE \E a \in Appliers : MoveAside(a)
  BY <1>8 DEF MoveAside, Advance, Steps
<1>9. CASE \E a \in Appliers : MoveIn(a)
  BY <1>9 DEF MoveIn, Advance, Fault, Steps
<1>10. CASE \E a \in Appliers : Undo(a)
  BY <1>10 DEF Undo, Advance, ClearState, Fault, Steps
<1>11. CASE \E a \in Appliers : Restart(a)
  BY <1>11 DEF Restart, Halt, Steps
<1>12. CASE Launch
  BY <1>12 DEF Launch, MaxBoots
<1>13. CASE BootNormally
  BY <1>13 DEF BootNormally, BootCheckReached
<1>14. CASE BootTrial
  BY <1>14 DEF BootTrial, BootCheckReached
<1>15. CASE BootUncounted
  BY <1>15 DEF BootUncounted, BootCheckReached, Fault
<1>16. CASE BootUnreadable
  BY <1>16 DEF BootUnreadable, BootCheckReached, Fault
<1>17. CASE RollbackMissing
  BY <1>17 DEF RollbackMissing, BootCheckReached, Exhausted, ClearState, Fault
<1>18. CASE RestoreAside
  BY <1>18 DEF RestoreAside, BootCheckReached, Exhausted
<1>19. CASE RestoreAsideFails
  BY <1>19 DEF RestoreAsideFails, BootCheckReached, Exhausted, Fault
<1>20. CASE RestoreIn
  BY <1>20 DEF RestoreIn
<1>21. CASE RestoreInFails
  <2>1. marred' \in BOOLEAN
    BY <1>21, Zenon DEF RestoreInFails
  <2> QED BY <1>21, <2>1 DEF RestoreInFails, Fault
<1>22. CASE RestoreDone
  BY <1>22 DEF RestoreDone, ClearState, Fault, Halt, Steps
<1>23. CASE HealthPass
  BY <1>23 DEF HealthPass
<1>24. CASE ConfirmRemove
  BY <1>24 DEF ConfirmRemove
<1>25. CASE ConfirmClear
  BY <1>25 DEF ConfirmClear, ClearState, Fault
<1>26. CASE Crash
  BY <1>26 DEF Crash, Halt, Steps
<1>27. CASE Lose
  BY <1>27 DEF Lose, Fault, Halt, Steps
<1> QED
  BY <1>1, <1>2, <1>3, <1>4, <1>5, <1>6, <1>7, <1>8, <1>9, <1>10, <1>11, <1>12,
     <1>13, <1>14, <1>15, <1>16, <1>17, <1>18, <1>19, <1>20, <1>21, <1>22, <1>23, <1>24,
     <1>25, <1>26, <1>27
     DEF Next, ApplyStep, BootStep, ConfirmStep

\* An update that begins in a settled process finds no other applier.
LEMMA ProcessStep ==
  ASSUME ShapeInv, ProcessInv, Next, ~marred'
  PROVE  ProcessInv'
<1> USE DEF ShapeInv, TypeOK, ProcessInv, disk, process, apply, history
<1>1. CASE \E v \in Versions \cup {NoFile} : Offer(v)
  BY <1>1 DEF Offer
<1>2. CASE \E a \in Appliers : CheckForUpdate(a)
  BY <1>2 DEF CheckForUpdate, Settled, Steps
<1>3. CASE \E a \in Appliers : Download(a)
  BY <1>3 DEF Download, Advance, Steps
<1>4. CASE \E a \in Appliers : DownloadFails(a)
  BY <1>4 DEF DownloadFails, Advance, Steps
<1>5. CASE \E a \in Appliers : SaveTrial(a)
  BY <1>5 DEF SaveTrial, Advance, Steps
<1>6. CASE \E a \in Appliers : SaveTrialFails(a)
  BY <1>6 DEF SaveTrialFails, Advance, Steps
<1>7. CASE \E a \in Appliers : DropOld(a)
  BY <1>7 DEF DropOld, Advance, Steps
<1>8. CASE \E a \in Appliers : MoveAside(a)
  BY <1>8 DEF MoveAside, Advance, Steps
<1>9. CASE \E a \in Appliers : MoveIn(a)
  BY <1>9 DEF MoveIn, Advance, Fault, Steps
<1>10. CASE \E a \in Appliers : Undo(a)
  BY <1>10 DEF Undo, Advance, ClearState, Fault, Steps
<1>11. CASE \E a \in Appliers : Restart(a)
  BY <1>11 DEF Restart, Halt, Steps
<1>12. CASE Launch
  BY <1>12 DEF Launch, MaxBoots
<1>13. CASE BootNormally
  BY <1>13 DEF BootNormally, BootCheckReached
<1>14. CASE BootTrial
  BY <1>14 DEF BootTrial, BootCheckReached
<1>15. CASE BootUncounted
  BY <1>15 DEF BootUncounted, BootCheckReached, Fault
<1>16. CASE BootUnreadable
  BY <1>16 DEF BootUnreadable, BootCheckReached, Fault
<1>17. CASE RollbackMissing
  BY <1>17 DEF RollbackMissing, BootCheckReached, Exhausted, ClearState, Fault
<1>18. CASE RestoreAside
  BY <1>18 DEF RestoreAside, BootCheckReached, Exhausted
<1>19. CASE RestoreAsideFails
  BY <1>19 DEF RestoreAsideFails, BootCheckReached, Exhausted, Fault
<1>20. CASE RestoreIn
  BY <1>20 DEF RestoreIn
<1>21. CASE RestoreInFails
  BY <1>21 DEF RestoreInFails, Fault
<1>22. CASE RestoreDone
  BY <1>22 DEF RestoreDone, ClearState, Fault, Halt, Steps
<1>23. CASE HealthPass
  BY <1>23 DEF HealthPass
<1>24. CASE ConfirmRemove
  BY <1>24 DEF ConfirmRemove
<1>25. CASE ConfirmClear
  BY <1>25 DEF ConfirmClear, ClearState, Fault
<1>26. CASE Crash
  BY <1>26 DEF Crash, Halt, Steps
<1>27. CASE Lose
  BY <1>27 DEF Lose, Fault, Halt, Steps
<1> QED
  BY <1>1, <1>2, <1>3, <1>4, <1>5, <1>6, <1>7, <1>8, <1>9, <1>10, <1>11, <1>12,
     <1>13, <1>14, <1>15, <1>16, <1>17, <1>18, <1>19, <1>20, <1>21, <1>22, <1>23, <1>24,
     <1>25, <1>26, <1>27
     DEF Next, ApplyStep, BootStep, ConfirmStep

\* Every call on the file system leaves a proven binary to go back to.
LEMMA DiskStep ==
  ASSUME ShapeInv, ProcessInv, DiskInv, Next, ~marred'
  PROVE  DiskInv'
<1> USE UpdateAssumption DEF ShapeInv, TypeOK, ProcessInv, DiskInv, disk, process, apply, history
<1>1. CASE \E v \in Versions \cup {NoFile} : Offer(v)
  BY <1>1 DEF Offer
<1>2. CASE \E a \in Appliers : CheckForUpdate(a)
  <2>1. PICK a \in Appliers : CheckForUpdate(a) BY <1>2
  <2>2. Settled
    BY <2>1, Zenon DEF CheckForUpdate
  <2>3. /\ phase = "up" /\ exe = running /\ exe \in proven
        /\ pc' = [pc EXCEPT ![a] = "offered"]
        /\ UNCHANGED <<disk, process, proven>>
    BY <2>1, <2>2 DEF CheckForUpdate, Settled
  <2>4. pc'[a] = "offered" /\ \A b \in Appliers : b # a => pc'[b] = "idle"
    BY <2>2, <2>3 DEF Settled
  <2> QED BY <2>3, <2>4
<1>3. CASE \E a \in Appliers : Download(a)
  BY <1>3 DEF Download, Advance, Steps
<1>4. CASE \E a \in Appliers : DownloadFails(a)
  BY <1>4 DEF DownloadFails, Advance, Steps
<1>5. CASE \E a \in Appliers : SaveTrial(a)
  BY <1>5 DEF SaveTrial, Advance, Steps
<1>6. CASE \E a \in Appliers : SaveTrialFails(a)
  BY <1>6 DEF SaveTrialFails, Advance, Steps
<1>7. CASE \E a \in Appliers : DropOld(a)
  BY <1>7 DEF DropOld, Advance, Steps
<1>8. CASE \E a \in Appliers : MoveAside(a)
  BY <1>8 DEF MoveAside, Advance, Steps
<1>9. CASE \E a \in Appliers : MoveIn(a)
  <2>1. PICK a \in Appliers : MoveIn(a) BY <1>9
  <2>2. /\ pc[a] = "aside" /\ phase = "up" /\ health = "none" /\ exe = NoFile /\ old = running
        /\ running \in proven /\ running \in Versions
        /\ trial = {[version |-> target[a], attempts |-> 0]} /\ target[a] \in Versions
        /\ \A b \in Appliers : b # a => pc[b] = "idle"
    BY <2>1 DEF MoveIn, Advance
  <2>3. CASE pc' = [pc EXCEPT ![a] = "swapped"] /\ exe' = target[a]
    <3>1. /\ pc'[a] = "swapped" /\ \A b \in Appliers : b # a => pc'[b] = "idle"
          /\ UNCHANGED <<old, broken, trial, running, phase, health, target, proven>>
      BY <2>1, <2>2, <2>3 DEF MoveIn, Advance
    <3>2. \E st \in trial' : st.version = exe'
      BY <2>2, <2>3, <3>1
    <3> QED BY <2>2, <2>3, <3>1, <3>2
  <2>4. CASE pc' = [pc EXCEPT ![a] = "undo"] /\ exe' = running /\ old' = NoFile
    BY <2>1, <2>2, <2>4 DEF MoveIn, Advance
  <2>5. CASE pc' = [pc EXCEPT ![a] = "undo"] /\ UNCHANGED disk
    BY <2>1, <2>2, <2>5 DEF MoveIn, Advance
  <2> QED BY <2>1, <2>2, <2>3, <2>4, <2>5 DEF MoveIn, Advance
<1>10. CASE \E a \in Appliers : Undo(a)
  BY <1>10 DEF Undo, Advance, ClearState, Fault, Steps
<1>11. CASE \E a \in Appliers : Restart(a)
  BY <1>11 DEF Restart, Halt, Steps
<1>12. CASE Launch
  BY <1>12 DEF Launch, MaxBoots
<1>13. CASE BootNormally
  BY <1>13 DEF BootNormally, BootCheckReached
<1>14. CASE BootTrial
  <2>1. PICK st \in trial : trial' = {[st EXCEPT !.attempts = st.attempts + 1]}
    BY <1>14 DEF BootTrial
  <2>2. [st EXCEPT !.attempts = st.attempts + 1].version = st.version
    BY <2>1
  <2>3. exe # NoFile /\ exe \notin proven => \E t \in trial' : t.version = exe
    BY <2>1, <2>2
  <2> QED BY <1>14, <2>1, <2>3 DEF BootTrial, BootCheckReached
<1>15. CASE BootUncounted
  BY <1>15 DEF BootUncounted, BootCheckReached, Fault
<1>16. CASE BootUnreadable
  BY <1>16 DEF BootUnreadable, BootCheckReached, Fault
<1>17. CASE RollbackMissing
  BY <1>17 DEF RollbackMissing, BootCheckReached, Exhausted, ClearState, Fault
<1>18. CASE RestoreAside
  BY <1>18 DEF RestoreAside, BootCheckReached, Exhausted
<1>19. CASE RestoreAsideFails
  BY <1>19 DEF RestoreAsideFails, BootCheckReached, Exhausted, Fault
<1>20. CASE RestoreIn
  BY <1>20 DEF RestoreIn
<1>21. CASE RestoreInFails
  BY <1>21 DEF RestoreInFails, Fault
<1>22. CASE RestoreDone
  BY <1>22 DEF RestoreDone, ClearState, Fault, Halt, Steps
<1>23. CASE HealthPass
  BY <1>23 DEF HealthPass
<1>24. CASE ConfirmRemove
  BY <1>24 DEF ConfirmRemove
<1>25. CASE ConfirmClear
  BY <1>25 DEF ConfirmClear, ClearState, Fault
<1>26. CASE Crash
  BY <1>26 DEF Crash, Halt, Steps
<1>27. CASE Lose
  BY <1>27 DEF Lose, Fault, Halt, Steps
<1> QED
  BY <1>1, <1>2, <1>3, <1>4, <1>5, <1>6, <1>7, <1>8, <1>9, <1>10, <1>11, <1>12,
     <1>13, <1>14, <1>15, <1>16, <1>17, <1>18, <1>19, <1>20, <1>21, <1>22, <1>23, <1>24,
     <1>25, <1>26, <1>27
     DEF Next, ApplyStep, BootStep, ConfirmStep

LEMMA UpdateInit == Init => UpdateInv
BY ShapeInit, UpdateAssumption DEF UpdateInv, ProcessInv, DiskInv, Init

\* A marred life stays marred.
LEMMA MarredStays ==
  ASSUME [Next]_vars, marred
  PROVE  marred'
<1> USE DEF disk, process, apply, history
<1>0. CASE UNCHANGED vars
  BY <1>0 DEF vars
<1>1. CASE \E v \in Versions \cup {NoFile} : Offer(v)
  BY <1>1 DEF Offer
<1>2. CASE \E a \in Appliers : CheckForUpdate(a)
  BY <1>2 DEF CheckForUpdate, Settled, Steps
<1>3. CASE \E a \in Appliers : Download(a)
  BY <1>3 DEF Download, Advance, Steps
<1>4. CASE \E a \in Appliers : DownloadFails(a)
  BY <1>4 DEF DownloadFails, Advance, Steps
<1>5. CASE \E a \in Appliers : SaveTrial(a)
  BY <1>5 DEF SaveTrial, Advance, Steps
<1>6. CASE \E a \in Appliers : SaveTrialFails(a)
  BY <1>6 DEF SaveTrialFails, Advance, Steps
<1>7. CASE \E a \in Appliers : DropOld(a)
  BY <1>7 DEF DropOld, Advance, Steps
<1>8. CASE \E a \in Appliers : MoveAside(a)
  BY <1>8 DEF MoveAside, Advance, Steps
<1>9. CASE \E a \in Appliers : MoveIn(a)
  BY <1>9 DEF MoveIn, Advance, Fault, Steps
<1>10. CASE \E a \in Appliers : Undo(a)
  BY <1>10 DEF Undo, Advance, ClearState, Fault, Steps
<1>11. CASE \E a \in Appliers : Restart(a)
  BY <1>11 DEF Restart, Halt, Steps
<1>12. CASE Launch
  BY <1>12 DEF Launch, MaxBoots
<1>13. CASE BootNormally
  BY <1>13 DEF BootNormally, BootCheckReached
<1>14. CASE BootTrial
  BY <1>14 DEF BootTrial, BootCheckReached
<1>15. CASE BootUncounted
  BY <1>15 DEF BootUncounted, BootCheckReached, Fault
<1>16. CASE BootUnreadable
  BY <1>16 DEF BootUnreadable, BootCheckReached, Fault
<1>17. CASE RollbackMissing
  BY <1>17 DEF RollbackMissing, BootCheckReached, Exhausted, ClearState, Fault
<1>18. CASE RestoreAside
  BY <1>18 DEF RestoreAside, BootCheckReached, Exhausted
<1>19. CASE RestoreAsideFails
  BY <1>19 DEF RestoreAsideFails, BootCheckReached, Exhausted, Fault
<1>20. CASE RestoreIn
  BY <1>20 DEF RestoreIn
<1>21. CASE RestoreInFails
  BY <1>21 DEF RestoreInFails, Fault
<1>22. CASE RestoreDone
  BY <1>22 DEF RestoreDone, ClearState, Fault, Halt, Steps
<1>23. CASE HealthPass
  BY <1>23 DEF HealthPass
<1>24. CASE ConfirmRemove
  BY <1>24 DEF ConfirmRemove
<1>25. CASE ConfirmClear
  BY <1>25 DEF ConfirmClear, ClearState, Fault
<1>26. CASE Crash
  BY <1>26 DEF Crash, Halt, Steps
<1>27. CASE Lose
  BY <1>27 DEF Lose, Fault, Halt, Steps
<1> QED
  BY <1>0, <1>1, <1>2, <1>3, <1>4, <1>5, <1>6, <1>7, <1>8, <1>9, <1>10, <1>11, <1>12,
     <1>13, <1>14, <1>15, <1>16, <1>17, <1>18, <1>19, <1>20, <1>21, <1>22, <1>23, <1>24,
     <1>25, <1>26, <1>27
     DEF Next, ApplyStep, BootStep, ConfirmStep

\* In a life that is not marred, the files and the record fit together at
\* every step.
LEMMA UpdateInvariance == Spec => []UpdateInv
<1>1. UpdateInv /\ [Next]_vars => UpdateInv'
  <2>1. CASE Next BY <2>1, ShapeStep, ProcessStep, DiskStep, MarredStays DEF UpdateInv
  <2>2. CASE UNCHANGED vars
    BY <2>2 DEF vars, disk, process, apply, history, UpdateInv, ShapeInv, TypeOK, ProcessInv, DiskInv
  <2> QED BY <2>1, <2>2
<1> QED BY UpdateInit, <1>1, PTL DEF Spec

\* The module's type invariant, in a marred life too.
THEOREM UpdateTypes == Spec => []TypeOK
<1>1. ShapeInv /\ [Next]_vars => ShapeInv'
  <2>1. CASE UNCHANGED vars
    BY <2>1 DEF vars, disk, process, apply, history, ShapeInv, TypeOK
  <2> QED BY <2>1, ShapeStep
<1>2. ShapeInv => TypeOK BY DEF ShapeInv
<1> QED BY ShapeInit, <1>1, <1>2, PTL DEF Spec

\* Whatever call of Apply or Restore fails or is the last of its process, a
\* binary is left where the updater finds it, until the life is marred.
THEOREM BinaryIsKept == Spec => []NeverLosesBinary
<1>1. UpdateInv => NeverLosesBinary
  BY UpdateAssumption DEF UpdateInv, ShapeInv, TypeOK, DiskInv, NeverLosesBinary
<1> QED BY <1>1, UpdateInvariance, PTL

\* An update of a settled agent renames only a proven binary aside, and Restore
\* gives it up only for itself: the rollback has something proven to go back to.
THEOREM FallbackIsKept == Spec => []FallbackIsProven
<1>1. UpdateInv => FallbackIsProven
  BY DEF UpdateInv, DiskInv, FallbackIsProven
<1> QED BY <1>1, UpdateInvariance, PTL

\* SaveState before Apply, and clearing the record only once the binary is
\* proven or gone, keep every unproven binary under the boot counter, also when
\* a rollback fails.
THEOREM TrialIsRecorded == Spec => []UnprovenIsOnTrial
<1>1. UpdateInv => UnprovenIsOnTrial
  BY DEF UpdateInv, DiskInv, UnprovenIsOnTrial
<1> QED BY <1>1, UpdateInvariance, PTL

-----------------------------------------------------------------------------

LEMMA BoundGrows ==
  ASSUME NEW m \in Nat, NEW b \in Nat, NEW f \in Nat, NEW g \in Nat, f <= g, b = 0 \/ b <= m + 1 + f
  PROVE  b <= m + 1 + g
OBVIOUS

\* A launch of an unproven binary is counted at its boot check, or a loss or a
\* failed call pays for it.
LEMMA CountStep ==
  ASSUME ShapeInv, ShapeInv', ProcessInv, DiskInv, DiskInv', CountInv, Next, ~marred'
  PROVE  CountInv'
<1> USE UpdateAssumption DEF ShapeInv, TypeOK, ProcessInv, DiskInv, CountInv, disk, process, apply, history
<1>1. CASE \E v \in Versions \cup {NoFile} : Offer(v)
  BY <1>1 DEF Offer
<1>2. CASE \E a \in Appliers : CheckForUpdate(a)
  BY <1>2 DEF CheckForUpdate, Settled, Steps
<1>3. CASE \E a \in Appliers : Download(a)
  BY <1>3 DEF Download, Advance, Steps
<1>4. CASE \E a \in Appliers : DownloadFails(a)
  BY <1>4 DEF DownloadFails, Advance, Steps
<1>5. CASE \E a \in Appliers : SaveTrial(a)
  BY <1>5 DEF SaveTrial, Advance, Steps
<1>6. CASE \E a \in Appliers : SaveTrialFails(a)
  BY <1>6 DEF SaveTrialFails, Advance, Steps
<1>7. CASE \E a \in Appliers : DropOld(a)
  BY <1>7 DEF DropOld, Advance, Steps
<1>8. CASE \E a \in Appliers : MoveAside(a)
  <2>1. PICK a \in Appliers : MoveAside(a) BY <1>8
  <2>2. phase = "up" /\ health = "none" /\ exe = running /\ running \in proven /\ boots = 0
    BY <2>1 DEF MoveAside, Advance
  <2>3. boots' = 0 /\ faults' = faults /\ trial' = trial /\ proven' = proven /\ exe' \in {exe, NoFile}
    BY <2>1, <2>2 DEF MoveAside
  <2> QED BY <2>2, <2>3
<1>9. CASE \E a \in Appliers : MoveIn(a)
  <2>1. PICK a \in Appliers : MoveIn(a) BY <1>9
  <2>2. boots' = 0 /\ trial' = trial
    BY <2>1 DEF MoveIn, Advance
  <2>3. phase' = "up" BY <2>1 DEF MoveIn, Advance
  <2>4. \A st \in trial' : st.attempts \in Nat
    OBVIOUS
  <2>5. faults' \in Nat /\ MaxAttempts \in Nat
    BY UpdateAssumption
  <2> HIDE DEF ShapeInv, TypeOK, ProcessInv, DiskInv, disk, process, apply, history
  <2> HIDE DEF CountInv
  <2>6. \A st \in trial' : boots' <= st.attempts + faults' + (IF phase' = "starting" THEN 1 ELSE 0)
    BY <2>2, <2>3, <2>4, <2>5
  <2>7. boots' <= MaxAttempts + 1 + faults'
    <3>1. boots' \in Nat /\ faults' <= faults'
      BY <2>2, <2>5
    <3> QED BY <2>2, <2>5, <3>1, BoundGrows
  <2> QED BY <2>2, <2>3, <2>6, <2>7 DEF CountInv
<1>10. CASE \E a \in Appliers : Undo(a)
  <2>1. PICK a \in Appliers : Undo(a) BY <1>10
  <2>2. /\ phase = "up" /\ UNCHANGED <<exe, phase, proven, boots>>
        /\ trial' \subseteq trial /\ faults \in Nat /\ faults' \in {faults, faults + 1}
        /\ \A b \in Appliers : pc'[b] = "aside" => pc[b] = "aside"
    BY <2>1 DEF Undo, Advance, ClearState, Fault
  <2>3. boots \in Nat /\ MaxAttempts \in Nat /\ \A st \in trial : st.attempts \in Nat
    BY UpdateAssumption
  <2> HIDE DEF ShapeInv, TypeOK, ProcessInv, DiskInv, disk, process, apply, history
  <2>4. boots' \in Nat /\ faults' \in Nat /\ faults <= faults'
    BY <2>2, <2>3
  <2>5. exe' = NoFile => boots' <= MaxAttempts + 1 + faults'
    <3>1. exe' = NoFile => boots' <= MaxAttempts + 1 + faults
      BY <2>2
    <3> QED BY <2>2, <2>3, <2>4, <3>1, BoundGrows
  <2>6. ASSUME exe # NoFile, exe \notin proven \cup Early, NEW st \in trial'
        PROVE  boots' <= st.attempts + faults'
    <3>1. boots <= st.attempts + faults
      BY <2>2, <2>3, <2>6
    <3> QED BY <2>2, <2>3, <2>4, <3>1
  <2>7. phase' # "starting" /\ phase' # "restoring"
    BY <2>2
  <2>8. /\ exe' \in proven' => boots' = 0
        /\ \A b \in Appliers : pc'[b] = "aside" => boots' = 0
    BY <2>2
  <2>9. \A st \in trial' : exe' # NoFile /\ exe' \notin proven' \cup Early =>
          boots' <= st.attempts + faults' + (IF phase' = "starting" THEN 1 ELSE 0)
    BY <2>2, <2>3, <2>4, <2>6, <2>7
  <2> QED BY <2>5, <2>7, <2>8, <2>9, Zenon DEF CountInv
<1>11. CASE \E a \in Appliers : Restart(a)
  BY <1>11 DEF Restart, Halt, Steps
<1>12. CASE Launch
  BY <1>12 DEF Launch, MaxBoots
<1>13. CASE BootNormally
  BY <1>13 DEF BootNormally, BootCheckReached
<1>14. CASE BootTrial
  BY <1>14 DEF BootTrial, BootCheckReached
<1>15. CASE BootUncounted
  BY <1>15 DEF BootUncounted, BootCheckReached, Fault
<1>16. CASE BootUnreadable
  BY <1>16 DEF BootUnreadable, BootCheckReached, Fault
<1>17. CASE RollbackMissing
  BY <1>17 DEF RollbackMissing, BootCheckReached, Exhausted, ClearState, Fault
<1>18. CASE RestoreAside
  BY <1>18 DEF RestoreAside, BootCheckReached, Exhausted
<1>19. CASE RestoreAsideFails
  BY <1>19 DEF RestoreAsideFails, BootCheckReached, Exhausted, Fault
<1>20. CASE RestoreIn
  BY <1>20 DEF RestoreIn
<1>21. CASE RestoreInFails
  <2>1. /\ phase = "restoring" /\ phase' = "up" /\ faults \in Nat /\ faults' = faults + 1
        /\ exe = NoFile /\ UNCHANGED <<trial, proven, boots, pc>>
        /\ \A b \in Appliers : pc[b] = "idle"
    BY <1>21 DEF RestoreInFails, Fault
  <2>2. boots \in Nat /\ boots <= MaxAttempts + 1 + faults /\ \A st \in trial : st.attempts = MaxAttempts
    BY <2>1
  <2>3. exe' \in proven => boots = 0
    BY <1>21, <2>1 DEF RestoreInFails
  <2> HIDE DEF ShapeInv, TypeOK, ProcessInv, DiskInv, disk, process, apply, history
  <2> QED BY <2>1, <2>2, <2>3
<1>22. CASE RestoreDone
  <2>1. exe \in proven /\ UNCHANGED <<exe, proven, boots>> /\ \A b \in Appliers : pc'[b] = "idle"
    BY <1>22 DEF RestoreDone, Halt
  <2> QED BY <2>1
<1>23. CASE HealthPass
  BY <1>23 DEF HealthPass
<1>24. CASE ConfirmRemove
  BY <1>24 DEF ConfirmRemove
<1>25. CASE ConfirmClear
  BY <1>25 DEF ConfirmClear, ClearState, Fault
<1>26. CASE Crash
  BY <1>26 DEF Crash, Halt, Steps
<1>27. CASE Lose
  BY <1>27 DEF Lose, Fault, Halt, Steps
<1> QED
  BY <1>1, <1>2, <1>3, <1>4, <1>5, <1>6, <1>7, <1>8, <1>9, <1>10, <1>11, <1>12,
     <1>13, <1>14, <1>15, <1>16, <1>17, <1>18, <1>19, <1>20, <1>21, <1>22, <1>23, <1>24,
     <1>25, <1>26, <1>27
     DEF Next, ApplyStep, BootStep, ConfirmStep

\* With a budget of MaxAttempts, an unproven binary that gets as far as the
\* boot check is launched at most once more than that, plus once for each loss,
\* each unwritten counter and each failed rollback, until the life is marred.
THEOREM CrashLoopsEnd == Spec => []CrashLoopEnds
<1> DEFINE Inv == ~marred => CountInv
<1>1. Init => Inv
  BY UpdateAssumption DEF Init, CountInv
<1>2. UpdateInv /\ UpdateInv' /\ Inv /\ [Next]_vars => Inv'
  <2>1. CASE UNCHANGED vars
    BY <2>1 DEF vars, disk, process, apply, history, CountInv
  <2> QED BY <2>1, CountStep, MarredStays DEF UpdateInv
<1>3. UpdateInv /\ Inv => CrashLoopEnds
  BY UpdateAssumption DEF UpdateInv, ShapeInv, TypeOK, DiskInv, CountInv, CrashLoopEnds
<1> QED BY <1>1, <1>2, <1>3, UpdateInvariance, PTL DEF Spec
=============================================================================
