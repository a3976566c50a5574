---------------------------- MODULE AgentUpdate ----------------------------
(***************************************************************************)
(* The agent's self-update: the A/B swap of the binary on disk, the trial  *)
(* record (update-state.json), the boot check with its rollback, and the   *)
(* health window (agent/internal/update, cmd/filearr-agent/update.go).     *)
(*                                                                         *)
(* Every call on the file system is a step of its own, so that the process *)
(* can be lost between any two of them.  A binary is abstracted to its     *)
(* version; versions outside Good crash before their health window ends,   *)
(* those in Early even before the boot check.  What central answers to the *)
(* manifest poll is the variable offer.                                    *)
(***************************************************************************)
EXTENDS Integers, FiniteSets

CONSTANTS Versions,       \* records [rel, sha]: release number and build stamp
          NoSha,          \* the stamp of a clean release tag
          NoFile,         \* nothing at a path, or no process, or no offer
          First,          \* the version the agent was installed with
          Good,           \* versions that survive their health window
          Early,          \* versions that die before the boot check
          Appliers,       \* goroutines that may apply an update
          MaxAttempts,    \* DefaultMaxAttempts
          MaxFaults       \* bound: processes lost at an arbitrary point, and
                          \* failed calls that a later boot has to make good

ASSUME UpdateAssumption ==
    /\ First \in Versions /\ First \in Good /\ First \notin Early
    /\ NoFile \notin Versions
    /\ \A v \in Versions : v.rel \in Nat
    /\ MaxAttempts \in Nat
    /\ MaxFaults \in Nat

VARIABLES exe,        \* the binary at the install path
          old,        \* PreviousBinaryPath: the binary renamed aside
          broken,     \* the .broken file of a rollback
          dl,         \* versions complete in the download directory
          trial,      \* update-state.json: a set of at most one record
          running,    \* the version the daemon process executes
          phase,      \* where the daemon is: down, starting, restoring, restored, up
          health,     \* the health goroutine: none, window, remove, clear
          pc,         \* per applier: the next step of ApplyUpdate
          target,     \* per applier: the version it applies
          offer,      \* central's answer to the manifest poll
          proven,     \* history: versions that once survived a health window
          boots,      \* history: launches of exe since it was swapped in, unproven
          faults,     \* history: processes lost and calls failed so far
          marred      \* history: one of the cases the properties except happened

disk == <<exe, old, broken, dl, trial>>
process == <<running, phase, health>>
apply == <<pc, target>>
history == <<proven, boots, faults, marred>>
vars == <<disk, process, apply, offer, history>>

Steps == {"idle", "offered", "downloaded", "saved", "dropped", "aside", "swapped", "undo"}

\* Type invariant: the files of the install directory, the trial record, whose boot
\* counter stays within the attempts BootCheck allows, the process, the appliers.
TypeOK ==
    /\ exe \in Versions \cup {NoFile}
    /\ old \in Versions \cup {NoFile}
    /\ broken \in Versions \cup {NoFile}
    /\ dl \subseteq Versions
    /\ trial \subseteq [version : Versions, attempts : 0..MaxAttempts]
    /\ running \in Versions \cup {NoFile}
    /\ phase \in {"down", "starting", "restoring", "restored", "up"}
    /\ health \in {"none", "window", "remove", "clear"}
    /\ pc \in [Appliers -> Steps]
    /\ target \in [Appliers -> Versions \cup {NoFile}]
    /\ offer \in Versions \cup {NoFile}
    /\ proven \subseteq Versions
    /\ boots \in Nat
    /\ faults \in 0..MaxFaults
    /\ marred \in BOOLEAN

Init ==
    /\ exe = First /\ old = NoFile /\ broken = NoFile /\ dl = {} /\ trial = {}
    /\ running = NoFile /\ phase = "down" /\ health = "none"
    /\ pc = [a \in Appliers |-> "idle"]
    /\ target = [a \in Appliers |-> NoFile]
    /\ offer = NoFile
    /\ proven = {First} /\ boots = 0 /\ faults = 0 /\ marred = FALSE

----------------------------------------------------------------------------
(* Deciding on an update. *)

\* Releases order; builds of one release with a commit stamp only differ.
ShouldApply(candidate, current) ==
    IF candidate.rel = current.rel /\ (candidate.sha # NoSha \/ current.sha # NoSha)
      THEN candidate # current
      ELSE candidate.rel > current.rel

\* get_update_manifest decides anew what it offers this agent: releases and
\* their artifacts come and go, rollouts and the update gate open and close.
Offer(v) ==
    /\ offer' = v
    /\ UNCHANGED <<disk, process, apply, history>>

\* Nothing of an earlier update is left to happen: the installed binary has
\* survived a health window, and no goroutine confirms or applies one.
Settled == exe \in proven /\ health = "none" /\ \A a \in Appliers : pc[a] = "idle"

\* The poll loop, which checks at once when the daemon starts, or an operator's
\* self_update command finds an update; neither waits for the other, nor for
\* the health window.
CheckForUpdate(a) ==
    /\ phase = "up" /\ pc[a] = "idle"
    /\ offer # NoFile /\ ShouldApply(offer, running)
    /\ target' = [target EXCEPT ![a] = offer]
    /\ pc' = [pc EXCEPT ![a] = "offered"]
    /\ marred' = (marred \/ ~Settled)
    /\ UNCHANGED <<disk, process, offer, proven, boots, faults>>

----------------------------------------------------------------------------
(* ApplyUpdate, one file-system call at a time. *)

Advance(a, from, to) == pc[a] = from /\ pc' = [pc EXCEPT ![a] = to]

\* A call fails that the code does not retry.
Fault == faults < MaxFaults /\ faults' = faults + 1

\* The artifact is complete under its stable name only after its digest matched.
Download(a) ==
    /\ Advance(a, "offered", "downloaded")
    /\ dl' = dl \cup {target[a]}
    /\ UNCHANGED <<exe, old, broken, trial, process, target, offer, history>>

DownloadFails(a) ==
    /\ Advance(a, "offered", "idle")
    /\ UNCHANGED <<disk, process, target, offer, history>>

\* Mutant: the trial record is left for after the swap.
SaveTrialLater(a) ==
    /\ Advance(a, "downloaded", "saved")
    /\ UNCHANGED <<disk, process, target, offer, history>>

\* SaveState: the trial record precedes the swap.
SaveTrial(a) ==
    /\ Advance(a, "downloaded", "saved")
    /\ trial' = {[version |-> target[a], attempts |-> 0]}
    /\ UNCHANGED <<exe, old, broken, dl, process, target, offer, history>>

\* SaveState fails: the download is removed.
SaveTrialFails(a) ==
    /\ Advance(a, "downloaded", "idle")
    /\ dl' = dl \ {target[a]}
    /\ UNCHANGED <<exe, old, broken, trial, process, target, offer, history>>

\* Apply: drop a stale rollback file.
DropOld(a) ==
    /\ Advance(a, "saved", "dropped")
    /\ old' = NoFile
    /\ UNCHANGED <<exe, broken, dl, trial, process, target, offer, history>>

\* Apply: rename the running binary aside; when the rename fails nothing moved.
MoveAside(a) ==
    \/ /\ exe # NoFile
       /\ Advance(a, "dropped", "aside")
       /\ old' = exe /\ exe' = NoFile
       /\ UNCHANGED <<broken, dl, trial, process, target, offer, history>>
    \/ /\ Advance(a, "dropped", "undo")
       /\ UNCHANGED <<disk, process, target, offer, history>>

\* Apply: move the new binary into place, or, when rename and copy fail, put
\* the old one back, which may fail as well.
MoveIn(a) ==
    \/ /\ target[a] \in dl
       /\ Advance(a, "aside", "swapped")
       /\ exe' = target[a] /\ dl' = dl \ {target[a]}
       /\ boots' = 0
       /\ UNCHANGED <<old, broken, trial, process, target, offer, proven, faults, marred>>
    \/ /\ Advance(a, "aside", "undo")
       /\ exe' = IF old # NoFile THEN old ELSE exe
       /\ old' = NoFile
       /\ UNCHANGED <<broken, dl, trial, process, target, offer, history>>
    \/ /\ Advance(a, "aside", "undo")
       /\ Fault
       /\ UNCHANGED <<disk, process, target, offer, proven, boots, marred>>

\* ClearState; its failure is ignored.
ClearState ==
    \/ trial' = {} /\ UNCHANGED faults
    \/ trial # {} /\ Fault /\ UNCHANGED trial

\* The swap did not happen: no trial is pending, the download is dropped.
Undo(a) ==
    /\ Advance(a, "undo", "idle")
    /\ ClearState /\ dl' = dl \ {target[a]}
    /\ UNCHANGED <<exe, old, broken, process, target, offer, proven, boots, marred>>

\* The process and its goroutines are gone.
Halt ==
    /\ running' = NoFile /\ phase' = "down" /\ health' = "none"
    /\ pc' = [a \in Appliers |-> "idle"]
    /\ target' = [a \in Appliers |-> NoFile]

\* Exit with ServiceRestartExitCode; the service manager relaunches.
Restart(a) ==
    /\ pc[a] = "swapped"
    /\ Halt
    /\ UNCHANGED <<disk, offer, history>>

----------------------------------------------------------------------------
(* Launch and boot check. *)

MaxBoots == MaxAttempts + MaxFaults + 2   \* bound: where the history stops counting

\* The service manager starts what is at the install path.
Launch ==
    /\ phase = "down" /\ exe # NoFile
    /\ running' = exe /\ phase' = "starting"
    /\ boots' = IF exe \in proven THEN 0
                ELSE IF boots < MaxBoots THEN boots + 1 ELSE boots
    /\ UNCHANGED <<disk, health, apply, offer, proven, faults, marred>>

BootCheckReached == phase = "starting" /\ running \notin Early

BootNormally ==
    /\ BootCheckReached /\ trial = {}
    /\ phase' = "up"
    /\ UNCHANGED <<disk, running, health, apply, offer, history>>

\* Mutant: the incremented counter is not written back.
BootTrialUncounted ==
    /\ BootCheckReached
    /\ \E st \in trial : st.attempts < MaxAttempts
    /\ phase' = "up" /\ health' = "window"
    /\ UNCHANGED <<disk, running, apply, offer, history>>

\* Mutant: the rollback file goes at the first boot of the new binary.
BootTrialDropsOld ==
    /\ BootCheckReached
    /\ \E st \in trial :
         /\ st.attempts < MaxAttempts
         /\ trial' = {[st EXCEPT !.attempts = st.attempts + 1]}
    /\ phase' = "up" /\ health' = "window" /\ old' = NoFile
    /\ UNCHANGED <<exe, broken, dl, running, apply, offer, history>>

\* Within budget: count this boot, then run the health window.
BootTrial ==
    /\ BootCheckReached
    /\ \E st \in trial :
         /\ st.attempts < MaxAttempts
         /\ trial' = {[st EXCEPT !.attempts = st.attempts + 1]}
    /\ phase' = "up" /\ health' = "window"
    /\ UNCHANGED <<exe, old, broken, dl, running, apply, offer, history>>

\* The incremented counter cannot be written: BootCheck returns the error, and
\* the daemon goes on without a health window.
BootUncounted ==
    /\ BootCheckReached
    /\ \E st \in trial : st.attempts < MaxAttempts
    /\ Fault
    /\ phase' = "up"
    /\ UNCHANGED <<disk, running, health, apply, offer, proven, boots, marred>>

\* The record is unreadable, or the previous binary it names cannot be looked
\* up when it should be restored: the record is cleared, and the daemon goes on.
BootUnreadable ==
    /\ BootCheckReached /\ trial # {}
    /\ Fault
    /\ trial' = {} /\ phase' = "up"
    /\ marred' = (marred \/ exe \notin proven)
    /\ UNCHANGED <<exe, old, broken, dl, running, health, apply, offer, proven, boots>>

Exhausted == \E st \in trial : st.attempts >= MaxAttempts

\* Nothing to roll back to: clear the record and stay on this binary.
RollbackMissing ==
    /\ BootCheckReached /\ Exhausted /\ old = NoFile
    /\ ClearState
    /\ phase' = "up"
    /\ UNCHANGED <<exe, old, broken, dl, running, health, apply, offer, proven, boots, marred>>

\* Mutant: the rollback file is not looked for first.
RestoreBlindly ==
    /\ BootCheckReached /\ Exhausted
    /\ broken' = exe /\ exe' = NoFile
    /\ phase' = "restoring"
    /\ UNCHANGED <<old, dl, trial, running, health, apply, offer, history>>

\* Restore: rename the failed binary aside.
RestoreAside ==
    /\ BootCheckReached /\ Exhausted /\ old # NoFile
    /\ broken' = exe /\ exe' = NoFile
    /\ phase' = "restoring"
    /\ UNCHANGED <<old, dl, trial, running, health, apply, offer, history>>

\* A rename of Restore fails: BootCheck returns the error, and the daemon goes
\* on with the failed binary, the record still exhausted.
RestoreAsideFails ==
    /\ BootCheckReached /\ Exhausted /\ old # NoFile
    /\ Fault
    /\ phase' = "up"
    /\ UNCHANGED <<disk, running, health, apply, offer, proven, boots, marred>>

\* Restore: put the previous binary back.
RestoreIn ==
    /\ phase = "restoring"
    /\ exe' = old /\ old' = NoFile
    /\ phase' = "restored" /\ boots' = 0
    /\ UNCHANGED <<broken, dl, trial, running, health, apply, offer, proven, faults, marred>>

\* moveInto fails: the failed binary is renamed back, unless that fails too.
\* When it is the chmod after the rename that failed, this overwrites the
\* previous binary.
RestoreInFails ==
    /\ phase = "restoring"
    /\ Fault
    /\ phase' = "up"
    /\ \/ exe' = broken /\ broken' = NoFile /\ UNCHANGED <<old, marred>>
       \/ UNCHANGED <<exe, broken, old, marred>>
       \/ exe' = broken /\ broken' = NoFile /\ old' = NoFile /\ marred' = TRUE
    /\ UNCHANGED <<dl, trial, running, health, apply, offer, proven, boots>>

\* Drop the failed binary, clear the record, exit for the service manager.
RestoreDone ==
    /\ phase = "restored"
    /\ broken' = NoFile /\ ClearState
    /\ Halt
    /\ UNCHANGED <<exe, old, dl, offer, proven, boots, marred>>

----------------------------------------------------------------------------
(* The health window and ConfirmHealthy. *)

\* The timer fires in a process that survived; the record is read.
HealthPass ==
    /\ phase = "up" /\ health = "window" /\ running \in Good
    /\ proven' = proven \cup {running}
    /\ boots' = 0
    /\ health' = IF trial # {} THEN "remove" ELSE "clear"
    /\ UNCHANGED <<disk, running, phase, apply, offer, faults, marred>>

ConfirmRemove ==
    /\ phase = "up" /\ health = "remove"
    /\ old' = NoFile /\ health' = "clear"
    /\ UNCHANGED <<exe, broken, dl, trial, running, phase, apply, offer, history>>

ConfirmClear ==
    /\ phase = "up" /\ health = "clear"
    /\ ClearState /\ health' = "none"
    /\ UNCHANGED <<exe, old, broken, dl, running, phase, apply, offer, proven, boots, marred>>

----------------------------------------------------------------------------
(* Failures. *)

\* A failing version crashes: before the boot check, or during its window.
Crash ==
    /\ \/ phase = "starting" /\ running \in Early
       \/ phase = "up" /\ running \notin Good
    /\ Halt
    /\ UNCHANGED <<disk, offer, history>>

\* Power loss, a kill or a stop of the service, between any two steps.
Lose ==
    /\ phase # "down" /\ Fault
    /\ Halt
    /\ UNCHANGED <<disk, offer, proven, boots, marred>>

----------------------------------------------------------------------------
ApplyStep(a) ==
    \/ Download(a) \/ DownloadFails(a) \/ SaveTrial(a) \/ SaveTrialFails(a)
    \/ DropOld(a) \/ MoveAside(a) \/ MoveIn(a) \/ Undo(a) \/ Restart(a)

BootStep ==
    \/ BootNormally \/ BootTrial \/ BootUncounted \/ BootUnreadable \/ RollbackMissing
    \/ RestoreAside \/ RestoreAsideFails \/ RestoreIn \/ RestoreInFails \/ RestoreDone

ConfirmStep == HealthPass \/ ConfirmRemove \/ ConfirmClear

Next ==
    \/ \E v \in Versions \cup {NoFile} : Offer(v)
    \/ \E a \in Appliers : CheckForUpdate(a) \/ ApplyStep(a)
    \/ Launch \/ BootStep \/ ConfirmStep \/ Crash \/ Lose

\* The service manager relaunches, the goroutines run, a failing version fails.
Fairness ==
    /\ WF_vars(Launch) /\ WF_vars(BootStep) /\ WF_vars(ConfirmStep) /\ WF_vars(Crash)
    /\ \A a \in Appliers : WF_vars(ApplyStep(a))

Spec == Init /\ [][Next]_vars

FairSpec == Spec /\ Fairness

----------------------------------------------------------------------------
(* Properties.  Nothing makes updates wait for one another, so each of them *)
(* is about the life of an agent that is not marred by one of these:        *)
(*   - an update begins before the last one is settled: beside another, in   *)
(*     the health window, or while a failed or missing binary is installed   *)
(*     (CheckForUpdate; updater.go:235 and 441, update.go:114-121);          *)
(*   - the trial record of an unproven binary is unreadable, or the look-up  *)
(*     of the previous binary fails, and the record is cleared               *)
(*     (BootUnreadable; updater.go:320-326 and 342-346);                     *)
(*   - the chmod of the binary that Restore put back fails, and the failed   *)
(*     one is renamed over it (RestoreInFails; swap.go:68-71).               *)

\* A binary is left on disk under one of the two names the updater knows,
\* whatever call of Apply or Restore fails or is the last one of the process;
\* excepted is a marred life.
NeverLosesBinary == ~marred => exe # NoFile \/ old # NoFile

\* Unless a proven binary is installed, a proven one is kept for the rollback,
\* through failed swaps, failed rollbacks and losses; excepted is a marred life:
\* the swap of an update that begins during a trial renames aside an unproven
\* binary and drops the proven one.
FallbackIsProven == ~marred => exe \in proven \/ old \in proven

\* An installed binary that never survived a health window is the one the
\* trial record names, so the boot counter can roll it back; excepted is a
\* marred life: the end of one health window clears the record of an update
\* that began in it.
UnprovenIsOnTrial ==
    ~marred /\ exe # NoFile /\ exe \notin proven => \E st \in trial : st.version = exe

\* "If the binary crashes through 3 launch attempts without a healthy window,
\* the next boot restores the previous binary": one launch more for each lost
\* process, each counter that could not be written and each rollback that
\* failed.  Excepted are a marred life, as every new update starts the counter
\* anew, and a version that dies before the boot check: no boot of it is counted.
CrashLoopEnds == marred \/ exe \in Early \/ boots <= MaxAttempts + 1 + faults

\* The agent keeps coming back up in a version that works, however often
\* central offers it a failing one.  Excepted are a marred life, an install path
\* left empty by a loss or a failure between two renames, and a version that
\* dies before the boot check, which is relaunched for ever.
KeepsComingBack ==
    \/ []<>(phase = "up" /\ running \in Good)
    \/ <>marred
    \/ <>[](exe = NoFile)
    \/ <>[](exe \in Early)
=============================================================================
