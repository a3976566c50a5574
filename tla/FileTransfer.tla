---------------------------- MODULE FileTransfer ----------------------------
(***************************************************************************)
(* Retrieving one agent-hosted file: the operator's transfer               *)
(* (api/transfers.py), the agent's resumable upload (commands/staging.go)  *)
(* into central's staging area (api/agent_staging.py), its verification,   *)
(* the download, the cancel, and the sweep (staging_sweep.py).             *)
(*                                                                         *)
(* A file is a sequence of chunks.  The append handler locks the row for   *)
(* its whole run; attach, cancel, sweep and download read it without a     *)
(* lock, unlink or check the file, and only then write the row, waiting    *)
(* for the lock if need be.  Several transfers of the item may follow each *)
(* other.                                                                  *)
(***************************************************************************)
EXTENDS Integers, Sequences, FiniteSets, SequencesExt

CONSTANTS
  Transfer,   \* transfer ids, each with its stage_upload command
  Version,    \* versions of the file at the agent
  Content,    \* the chunks of each version
  Hole,       \* what a file extended by ftruncate reads as
  NoFile,     \* no file at a path
  FullMax,    \* fullMaxBytes: the agent hashes no larger file in full
  Call,       \* attach and append handlers at central
  None,       \* no hash, nothing verified, no handler
  MaxEdits,   \* bound: changes of the file at the agent
  MaxFaults   \* bound: crashes, lost answers, time-outs, read errors and cancels

\* The versions whose size, quick_hash and content_hash the catalog has.
Item == [ver : Version, quick : Version \cup {None}, full : Version \cup {None}]

ASSUME TransferAssumption ==
  /\ \A v \in Version : /\ Content[v] \in Seq(Range(Content[v]))
                       /\ Hole \notin Range(Content[v])
  /\ None \notin Call \cup Version \cup Item /\ NoFile \notin Version
  /\ FullMax \in Nat /\ MaxEdits \in Nat /\ MaxFaults \in Nat

VARIABLES
  row,      \* staging_transfers
  cmd,      \* per transfer: its stage_upload command, none, live or ended
  disk,     \* per transfer: the staged file
  lock,     \* per transfer: the append handler that holds the row
  call,     \* the attach and append handlers
  up,       \* StageUpload at the agent
  reaper,   \* the handlers that end a transfer: sweep and cancel
  reader,   \* the download handler
  source,   \* the version of the file at the agent
  catalog,  \* the item
  rehash,   \* is a rehash_check in flight?
  vouched,  \* history: per transfer, the item its verification compared with
  edits, faults

central == <<row, cmd, disk, lock, call>>
actors == <<up, reaper, reader>>
item == <<source, catalog, rehash>>
history == <<vouched, edits, faults>>
vars == <<central, actors, item, history>>

Live == {"pending", "uploading", "staged"}
Over == {"downloaded", "expired", "failed"}
Size(v) == Len(Content[v])
Chunks == (UNION {Range(Content[v]) : v \in Version}) \cup {Hole}

NoRow == [state |-> "none", bytes |-> 0, total |-> 0, verify |-> FALSE,
          verified |-> FALSE, due |-> FALSE, ranged |-> FALSE]
Idle == [st |-> "idle"]

\* The file may have changed since the scan, which hashed it as its size allowed.
Init ==
  /\ row = [t \in Transfer |-> NoRow]
  /\ cmd = [t \in Transfer |-> "none"]
  /\ disk = [t \in Transfer |-> NoFile]
  /\ lock = [t \in Transfer |-> None]
  /\ call = [h \in Call |-> Idle]
  /\ up = Idle
  /\ reaper = [r \in {"sweep", "cancel"} |-> Idle]
  /\ reader = Idle
  /\ source \in Version
  /\ catalog \in {c \in Item : /\ c.quick \in {c.ver, None} /\ c.full \in {c.ver, None}
                               /\ c.full # None => c.quick # None /\ Size(c.ver) <= FullMax}
  /\ rehash = FALSE
  /\ vouched = [t \in Transfer |-> None]
  /\ edits = 0 /\ faults = 0

Fault == faults < MaxFaults /\ faults' = faults + 1

\* External: the user changes the file in place, removes it or puts one back.
\* An open file outlives its name: while the upload reads it, a removal waits.
Edit(v) ==
  /\ v # source /\ edits < MaxEdits
  /\ v = NoFile => up.st \notin {"send", "wait"}
  /\ source' = v /\ edits' = edits + 1
  /\ UNCHANGED <<central, actors, catalog, rehash, vouched, faults>>

\* The item after a rehash_check: size and quick hash of the file as it is, the
\* content hash unless it is too large (content_skipped), and then the stored one
\* is kept.  A missing file leaves all three.
Reconciled ==
  IF source = NoFile THEN catalog
  ELSE [ver |-> source, quick |-> source,
        full |-> IF Size(source) <= FullMax THEN source ELSE catalog.full]

\* The rehash_check runs at the agent and reconcile_completion applies its result.
\* A read error leaves a hash unreported; an error, an unreadable result or an
\* expired command leaves the item alone.
Rehashed ==
  /\ rehash
  /\ rehash' = FALSE
  /\ \/ catalog' = Reconciled /\ UNCHANGED faults
     \/ /\ Fault
        /\ catalog' \in {catalog} \cup [ver : {Reconciled.ver},
             quick : {catalog.quick, Reconciled.quick}, full : {catalog.full, Reconciled.full}]
  /\ UNCHANGED <<central, actors, source, vouched, edits>>

-----------------------------------------------------------------------------
(* initiate_transfer, and enqueue_command for a stage_upload *)

Unused(t) ==
  /\ row[t].state \notin Live /\ cmd[t] # "live" /\ disk[t] = NoFile /\ lock[t] = None
  /\ \A x \in {up, reader} \cup Range(call) \cup Range(reaper) : x # Idle => x.t # t

\* A command with a fresh id: an id stands for fresh ones once it is unused.
Command(t) ==
  /\ Unused(t) /\ t = CHOOSE u \in Transfer : Unused(u)
  /\ cmd' = [cmd EXCEPT ![t] = "live"]
  /\ vouched' = [vouched EXCEPT ![t] = None]
  /\ UNCHANGED <<disk, lock, call, actors, item, edits, faults>>

\* The partial unique index lets an item have one live transfer.
AnotherLive(t) == \E u \in Transfer \ {t} : row[u].state \in Live

\* A transfer and its command in one transaction.
Initiate(t, verify) ==
  /\ ~AnotherLive(t)
  /\ Command(t)
  /\ row' = [row EXCEPT ![t] = [NoRow EXCEPT !.state = "pending", !.verify = verify,
                                             !.total = Size(catalog.ver)]]

\* The generic endpoint queues the command alone; its attach makes the row.
Enqueue(t, verify) ==
  /\ Command(t)
  /\ row' = [row EXCEPT ![t] = [NoRow EXCEPT !.verify = verify]]

-----------------------------------------------------------------------------
(* StageUpload at the agent *)

EndUpload(t) == up' = Idle /\ cmd' = [cmd EXCEPT ![t] = "ended"]

NextCall(h) == call[h] = Idle /\ h = CHOOSE g \in Call : call[g] = Idle

\* Stat the file and attach: central's committed offset is the resume point.
Attach(t, h) ==
  /\ up = Idle /\ cmd[t] = "live" /\ source # NoFile /\ NextCall(h)
  /\ up' = [st |-> "attach", t |-> t, offset |-> 0, pos |-> 0, size |-> Size(source),
            last |-> FALSE, h |-> h]
  /\ call' = [call EXCEPT ![h] = [st |-> "attach", t |-> t, size |-> Size(source)]]
  /\ UNCHANGED <<row, cmd, disk, lock, reaper, reader, item, history>>

StatFails(t) ==
  /\ up = Idle /\ cmd[t] = "live" /\ source = NoFile
  /\ EndUpload(t)
  /\ UNCHANGED <<row, disk, lock, call, reaper, reader, item, history>>

\* Read the next chunk and send it; a zero-length append finalizes.
Send(h) ==
  /\ up.st = "send" /\ NextCall(h)
  /\ up.offset < up.size => up.pos < Size(source)
  /\ call' = [call EXCEPT ![h] =
       [st |-> "sent", t |-> up.t, offset |-> up.offset,
        chunk |-> IF up.offset < up.size THEN <<Content[source][up.pos + 1]>> ELSE <<>>]]
  /\ up' = [up EXCEPT !.st = "wait", !.last = up.offset >= up.size, !.h = h,
                      !.pos = IF up.offset < up.size THEN @ + 1 ELSE @]
  /\ UNCHANGED <<row, cmd, disk, lock, reaper, reader, item, history>>

\* The file ends before the size it had at the attach: the command fails.
ShortRead ==
  /\ up.st = "send" /\ up.offset < up.size /\ up.pos >= Size(source)
  /\ EndUpload(up.t)
  /\ UNCHANGED <<row, disk, lock, call, reaper, reader, item, history>>

\* Does the upload still wait for the answer of handler h?
Awaits(st, h) == up.st = st /\ up.h = h

\* Go on from the given offset, reading from the given position.
GoOn(offset, pos) ==
  /\ up' = [up EXCEPT !.st = "send", !.offset = offset, !.pos = pos, !.last = FALSE, !.h = None]
  /\ UNCHANGED cmd

\* The answer to an attach: a finished transfer is done; otherwise open and seek.
Attached(h, state, bytes) ==
  IF Awaits("attach", h)
    THEN IF state \in {"staged", "downloaded"} \/ source = NoFile
           THEN EndUpload(up.t) ELSE GoOn(bytes, bytes)
    ELSE UNCHANGED <<up, cmd>>

\* The answer to an append: go on from the new offset, with no seek, until central
\* says staged; after the finalizing append the upload is over.
Answered(h, state, bytes) ==
  IF Awaits("wait", h)
    THEN IF up.last \/ (bytes >= up.size /\ state = "staged")
           THEN EndUpload(up.t) ELSE GoOn(bytes, up.pos)
    ELSE UNCHANGED <<up, cmd>>

\* Mutant: the upload retries from its own offset.
MismatchedStays(h, bytes) ==
  IF Awaits("wait", h)
    THEN IF up.last THEN EndUpload(up.t) ELSE GoOn(up.offset, up.offset)
    ELSE UNCHANGED <<up, cmd>>

\* OffsetMismatchError: seek to central's offset and go on, except when finalizing.
Mismatched(h, bytes) ==
  IF Awaits("wait", h)
    THEN IF up.last THEN EndUpload(up.t) ELSE GoOn(bytes, bytes)
    ELSE UNCHANGED <<up, cmd>>

\* Any other answer fails the command.
Refused(h) ==
  IF Awaits("attach", h) \/ Awaits("wait", h) THEN EndUpload(up.t) ELSE UNCHANGED <<up, cmd>>

\* The agent gives up on a request; central may still be working on it.
TimeOut ==
  /\ up.st \in {"attach", "wait"} /\ Fault
  /\ EndUpload(up.t)
  /\ UNCHANGED <<row, disk, lock, call, reaper, reader, item, vouched, edits>>

\* The agent restarts; the live command is delivered again.
AgentRestart ==
  /\ up # Idle /\ Fault
  /\ up' = Idle
  /\ UNCHANGED <<central, reaper, reader, item, vouched, edits>>

-----------------------------------------------------------------------------
(* attach_transfer *)

Return(h) == call' = [call EXCEPT ![h] = Idle]

\* Mutant: the row is read without FOR UPDATE.
FreeAlways(t) == TRUE

\* SELECT ... FOR UPDATE and UPDATE wait for the handler that has the row.
Free(t) == lock[t] = None

\* The row is read without a lock.  A size that changed after the first byte is
\* refused; before it, total_bytes is to be written.  A row that is missing is to
\* be created, for a command in flight.
AttachLoad(h) ==
  /\ call[h].st = "attach"
  /\ LET t == call[h].t
         r == row[t]
         then(step) == /\ call' = [call EXCEPT ![h] = [st |-> step, t |-> t, size |-> @.size,
                                                       state |-> r.state]]
                       /\ UNCHANGED <<up, cmd>>
     IN  IF r.state = "none"
           THEN \/ cmd[t] = "live" /\ then("create")
                \/ cmd[t] # "live" /\ Refused(h) /\ Return(h)
           ELSE \/ r.total = call[h].size /\ Attached(h, r.state, r.bytes) /\ Return(h)
                \/ r.total # call[h].size /\ r.bytes > 0 /\ Refused(h) /\ Return(h)
                \/ r.total # call[h].size /\ r.bytes = 0 /\ then("retotal")
  /\ UNCHANGED <<row, disk, lock, reaper, reader, item, history>>

\* The total of the row as it was read: appends may have been committed since.
\* The answer is the copy, and updated_at undoes an abandonment.
AttachRetotal(h) ==
  /\ call[h].st = "retotal" /\ Free(call[h].t)
  /\ \E due \in {row[call[h].t].due, FALSE} :
       row' = [row EXCEPT ![call[h].t].total = call[h].size, ![call[h].t].due = due]
  /\ Attached(h, call[h].state, 0) /\ Return(h)
  /\ UNCHANGED <<disk, lock, reaper, reader, item, history>>

\* The row is inserted, unless another attach of the command made it meanwhile, or
\* another transfer of the item is live.
AttachCreate(h) ==
  /\ call[h].st = "create"
  /\ LET t == call[h].t
         r == row[t]
     IN  IF r.state # "none"
           THEN Attached(h, r.state, r.bytes) /\ UNCHANGED row
           ELSE IF AnotherLive(t)
             THEN Refused(h) /\ UNCHANGED row
             ELSE /\ row' = [row EXCEPT ![t].state = "pending", ![t].total = call[h].size]
                  /\ Attached(h, "pending", 0)
  /\ Return(h)
  /\ UNCHANGED <<disk, lock, reaper, reader, item, history>>

-----------------------------------------------------------------------------
(* append_transfer *)

\* Lock the row; answer at once if it is finished, over, or elsewhere.
AppendRefused(h) ==
  /\ call[h].st = "sent" /\ Free(call[h].t)
  /\ LET r == row[call[h].t]
     IN  \/ r.state \in {"staged", "downloaded"} /\ Answered(h, r.state, r.bytes)
         \/ r.state \in {"expired", "failed"} /\ Refused(h)
         \/ /\ r.state \in {"pending", "uploading"} /\ call[h].offset # r.bytes
            /\ Mismatched(h, r.bytes)
  /\ Return(h)
  /\ UNCHANGED <<row, disk, lock, reaper, reader, item, history>>

\* The staged file as open, ftruncate(offset) and seek leave it.
Truncated(file, offset) ==
  LET old == IF file = NoFile THEN <<>> ELSE file
  IN  [i \in 1..offset |-> IF i <= Len(old) THEN old[i] ELSE Hole]

\* Lock the row, open the file and drop what lies beyond the committed offset.
AppendOpen(h) ==
  /\ call[h].st = "sent"
  /\ LET t == call[h].t
     IN  /\ Free(t)
         /\ row[t].state \in {"pending", "uploading"} /\ call[h].offset = row[t].bytes
         /\ lock' = [lock EXCEPT ![t] = h]
         /\ disk' = [disk EXCEPT ![t] = Truncated(disk[t], call[h].offset)]
         /\ call' = [call EXCEPT ![h] = [st |-> "open", t |-> t, offset |-> call[h].offset,
                                         chunk |-> call[h].chunk, linked |-> TRUE]]
  /\ UNCHANGED <<row, cmd, actors, item, history>>

\* quick_hash samples the head and the tail.
Quick(c) == IF c = <<>> THEN <<>> ELSE <<Head(c), Last(c)>>

\* Mutant: the quick hash is good enough even when the item has a content hash.
VerifiedQuick(file) ==
  /\ Len(file) = Size(catalog.ver)
  /\ catalog.quick # None /\ Quick(file) = Quick(Content[catalog.quick])

\* Is the file what the hashes of the item were computed from, by the strongest?
Hashed(file, it) ==
  IF it.full # None THEN file = Content[it.full]
  ELSE it.quick # None /\ Quick(file) = Quick(Content[it.quick])

\* _verify_against_catalog: the size, then the strongest hash the item has.
Verified(file) == Len(file) = Size(catalog.ver) /\ Hashed(file, catalog)

\* Mutant: a failed verification leaves the catalog alone.
EnqueueRehashNot == UNCHANGED rehash

\* _enqueue_rehash_check, unless one is in flight.
EnqueueRehash == rehash' = TRUE

\* The stream goes through the open file, which may be unlinked by now.
Written(h) == LET t == call[h].t
              IN  IF call[h].linked THEN disk[t] \o call[h].chunk ELSE disk[t]

Unlock(t) == lock' = [lock EXCEPT ![t] = None]

\* total_bytes as the lock found it: the last byte of the transfer is there.
Final(h) == call[h].offset + Len(call[h].chunk) >= row[call[h].t].total

\* Refused and rolled back: a chunk beyond total_bytes, or no file to verify
\* because it was unlinked meanwhile.
Rejected(h) ==
  \/ /\ call[h].chunk # <<>>
     /\ call[h].offset + Len(call[h].chunk) > row[call[h].t].total
  \/ Final(h) /\ row[call[h].t].verify /\ Written(h) = NoFile

AppendFails(h) ==
  /\ call[h].st = "open" /\ Rejected(h)
  /\ Unlock(call[h].t)
  /\ Refused(h) /\ Return(h)
  /\ UNCHANGED <<row, disk, reaper, reader, item, history>>

\* Write, fsync and commit the offset, which undoes an abandonment but no expiry.
\* The last byte finalizes: staged, or, when verification was asked for and
\* fails, failed, with the file dropped and a rehash_check queued.
AppendCommit(h) ==
  /\ call[h].st = "open" /\ ~Rejected(h)
  /\ LET t == call[h].t
         file == Written(h)
         bytes == call[h].offset + Len(call[h].chunk)
         ends(state, ok) ==
           /\ \E due \in {row[t].due, FALSE} :
                row' = [row EXCEPT ![t].state = state, ![t].bytes = bytes,
                                   ![t].verified = ok, ![t].due = due]
           /\ disk' = [disk EXCEPT ![t] = IF state = "failed" THEN NoFile ELSE file]
           /\ Answered(h, state, bytes)
     IN  /\ \/ ~Final(h) /\ ends("uploading", FALSE) /\ UNCHANGED <<rehash, vouched>>
            \/ Final(h) /\ ~row[t].verify /\ ends("staged", FALSE) /\ UNCHANGED <<rehash, vouched>>
            \/ /\ Final(h) /\ row[t].verify /\ Verified(file)
               /\ ends("staged", TRUE)
               /\ vouched' = [vouched EXCEPT ![t] = catalog] /\ UNCHANGED rehash
            \/ /\ Final(h) /\ row[t].verify /\ ~Verified(file)
               /\ ends("failed", FALSE)
               /\ EnqueueRehash /\ UNCHANGED vouched
         /\ Unlock(t)
  /\ Return(h)
  /\ UNCHANGED <<reaper, reader, source, catalog, edits, faults>>

\* The connection drops or central dies: the row is as it was.  The file may not
\* be: written to, or dropped by a failed verification that was not committed.
HandlerLost(h) ==
  /\ call[h] # Idle /\ Fault
  /\ \/ call[h].st # "open" /\ UNCHANGED <<disk, lock>>
     \/ /\ call[h].st = "open"
        /\ \E file \in {disk[call[h].t], Written(h), NoFile} :
             /\ file = NoFile /\ Written(h) # NoFile =>
                  ~Rejected(h) /\ Final(h) /\ row[call[h].t].verify /\ ~Verified(Written(h))
             /\ disk' = [disk EXCEPT ![call[h].t] = file]
        /\ Unlock(call[h].t)
  /\ Refused(h) /\ Return(h)
  /\ UNCHANGED <<row, reaper, reader, item, vouched, edits>>

-----------------------------------------------------------------------------
(* The end of a transfer: run_staging_cleanup_sweep and cancel_transfer. *)

\* TTL or the abandonment delay runs out, whoever is at work.
Lapse(t) ==
  /\ row[t].state \in Live /\ ~row[t].due
  /\ row' = [row EXCEPT ![t].due = TRUE]
  /\ UNCHANGED <<cmd, disk, lock, call, actors, item, history>>

\* download_grace_seconds after the last range request.
GraceLapse(t) ==
  /\ row[t].ranged
  /\ row' = [row EXCEPT ![t].ranged = FALSE]
  /\ UNCHANGED <<cmd, disk, lock, call, actors, item, history>>

\* Mutant: a transfer whose command is live is left to its agent.
ReapableIdle(t) == row[t].due /\ ~row[t].ranged /\ cmd[t] # "live"

\* A row the sweep takes: due, and no range request within the grace period.
Reapable(t) == row[t].due /\ ~row[t].ranged

\* The sweep picks a row that is due and not being downloaded; a cancel any
\* row that is live.
ReapLoad(r, t) ==
  /\ reaper[r] = Idle
  /\ row[t].state \in Live
  /\ \/ r = "sweep" /\ Reapable(t) /\ UNCHANGED faults
     \/ r = "cancel" /\ Fault
  /\ reaper' = [reaper EXCEPT ![r] = [st |-> "loaded", t |-> t]]
  /\ UNCHANGED <<central, up, reader, item, vouched, edits>>

\* os.remove: open descriptors go on without a name.
ReapRemove(r) ==
  /\ reaper[r].st = "loaded"
  /\ LET t == reaper[r].t
     IN  /\ disk' = [disk EXCEPT ![t] = NoFile]
         /\ call' = [h \in Call |-> IF call[h].st = "open" /\ call[h].t = t
                                     THEN [call[h] EXCEPT !.linked = FALSE] ELSE call[h]]
         /\ reaper' = [reaper EXCEPT ![r] = [st |-> "removed", t |-> t]]
  /\ UNCHANGED <<row, cmd, lock, up, reader, item, history>>

\* The row as it was read becomes expired, whatever it is now; the command ends.
ReapCommit(r) ==
  /\ reaper[r].st = "removed" /\ lock[reaper[r].t] = None
  /\ row' = [row EXCEPT ![reaper[r].t].state = "expired"]
  /\ cmd' = [cmd EXCEPT ![reaper[r].t] = "ended"]
  /\ reaper' = [reaper EXCEPT ![r] = Idle]
  /\ UNCHANGED <<disk, lock, call, up, reader, item, history>>

\* The worker or the API process dies between the two.
ReapLost(r) ==
  /\ reaper[r] # Idle /\ Fault
  /\ reaper' = [reaper EXCEPT ![r] = Idle]
  /\ UNCHANGED <<central, up, reader, item, vouched, edits>>

-----------------------------------------------------------------------------
(* download_transfer *)

DownloadLoad(t) ==
  /\ reader = Idle
  /\ row[t].verified /\ row[t].state \in {"staged", "downloaded"}
  /\ reader' = [st |-> "loaded", t |-> t, state |-> row[t].state]
  /\ UNCHANGED <<central, up, reaper, item, history>>

\* Stamp the request; a response that covers the last byte makes it downloaded.
DownloadCommit(final) ==
  /\ reader.st = "loaded"
  /\ LET t == reader.t
     IN  \/ /\ disk[t] = NoFile
            /\ reader' = Idle /\ UNCHANGED row
         \/ /\ disk[t] # NoFile /\ lock[t] = None
            /\ row' = [row EXCEPT ![t].ranged = TRUE,
                 ![t].state = IF reader.state = "staged" /\ final THEN "downloaded" ELSE @]
            /\ reader' = [st |-> "committed", t |-> t, state |-> reader.state]
  /\ UNCHANGED <<cmd, disk, lock, call, up, reaper, item, history>>

\* FileResponse opens the path and sends it.
Serve ==
  /\ reader.st = "committed"
  /\ reader' = Idle
  /\ UNCHANGED <<central, up, reaper, item, vouched, edits, faults>>

-----------------------------------------------------------------------------
Upload ==
  \/ \E t \in Transfer, h \in Call : Attach(t, h)
  \/ \E t \in Transfer : StatFails(t)
  \/ \E h \in Call : Send(h)
  \/ ShortRead

Handle(h) ==
  \/ AttachLoad(h) \/ AttachRetotal(h) \/ AttachCreate(h)
  \/ AppendRefused(h) \/ AppendOpen(h) \/ AppendFails(h) \/ AppendCommit(h)

Reap(r) == ReapRemove(r) \/ ReapCommit(r)

Download == (\E final \in BOOLEAN : DownloadCommit(final)) \/ Serve

Next ==
  \/ \E v \in Version \cup {NoFile} : Edit(v)
  \/ Rehashed
  \/ \E t \in Transfer, verify \in BOOLEAN : Initiate(t, verify) \/ Enqueue(t, verify)
  \/ Upload \/ TimeOut \/ AgentRestart
  \/ \E h \in Call : Handle(h) \/ HandlerLost(h)
  \/ \E t \in Transfer : Lapse(t) \/ GraceLapse(t) \/ DownloadLoad(t)
  \/ \E r \in {"sweep", "cancel"} :
       Reap(r) \/ ReapLost(r) \/ \E t \in Transfer : ReapLoad(r, t)
  \/ Download

Spec == Init /\ [][Next]_vars

AtWork(t) == cmd[t] = "live" \/ \E h \in Call : call[h] # Idle /\ call[h].t = t

\* Central works on its requests, a row that nobody works on gets due, and the
\* sweep, every five minutes, some time finds a row that is due between two
\* downloads.  The agent owes nothing.
FairSpec ==
  /\ Spec
  /\ WF_vars(Download)
  /\ \A h \in Call : WF_vars(Handle(h))
  /\ \A r \in {"sweep", "cancel"} : WF_vars(Reap(r))
  /\ \A t \in Transfer : /\ WF_vars(~AtWork(t) /\ Lapse(t)) /\ WF_vars(GraceLapse(t))
                         /\ SF_vars(ReapLoad("sweep", t))

-----------------------------------------------------------------------------
Staged(file) == file = NoFile \/ \A i \in DOMAIN file : file[i] \in Chunks

\* Type invariant of the rows, the files, the handlers and the actors; one append
\* handler at a time has a row (append_transfer).  It bounds no offset by the
\* total: an attach that read bytes = 0 writes its total over a later append.
TypeOK ==
  /\ \A t \in Transfer :
       /\ row[t].state \in {"none"} \cup Live \cup Over
       /\ row[t].bytes \in Nat /\ row[t].total \in Nat
       /\ row[t].verified => row[t].verify /\ vouched[t] # None
       /\ cmd[t] \in {"none", "live", "ended"}
       /\ Staged(disk[t])
       /\ lock[t] \in Call \cup {None}
       /\ \A h \in Call : lock[t] = h <=> call[h].st = "open" /\ call[h].t = t
  /\ \A h \in Call : call[h].st \in {"idle", "attach", "retotal", "create", "sent", "open"}
  /\ up.st \in {"idle", "attach", "send", "wait"}
  /\ \A r \in DOMAIN reaper : reaper[r].st \in {"idle", "loaded", "removed"}
  /\ reader.st \in {"idle", "loaded", "committed"}
  /\ source \in Version \cup {NoFile} /\ catalog \in Item
  /\ rehash \in BOOLEAN
  /\ edits \in 0..MaxEdits /\ faults \in 0..MaxFaults

\* What a download sends is what the catalog described when the transfer was
\* verified: byte for byte if the item had a content hash, in size and samples
\* otherwise, whatever was cancelled, swept, re-created or edited meanwhile
\* (download_transfer, _finalize_staged).
ServedIsVerified ==
  reader.st = "committed" /\ disk[reader.t] # NoFile =>
    /\ Len(disk[reader.t]) = Size(vouched[reader.t].ver)
    /\ Hashed(disk[reader.t], vouched[reader.t])

\* Every transfer leaves the live states, also when its agent never comes back, so
\* the partial unique index never keeps an item from being retrieved for good
\* (run_staging_cleanup_sweep): its deadline passes, whoever is at work.
EventuallyOver ==
  (\A t \in Transfer : WF_vars(Lapse(t))) =>
    \A t \in Transfer : row[t].state \in Live ~> row[t].state \notin Live

\* An upload ends, whatever offsets and totals lost answers and concurrent attaches
\* and appends leave it with, if the agent goes on with it (StageUpload): the agent
\* runs one at a time, and others wait for it.  No deadline has to end it.
UploadEnds == WF_vars(Upload) => (up # Idle ~> up = Idle)

\* No rehash_check gets the item to agree with the file: it is gone, or too large
\* to be hashed in full while the item has the content hash of another version.
Stuck ==
  \/ source = NoFile
  \/ Size(source) > FullMax /\ catalog.full \notin {None, source}

\* An operator who keeps asking for a verified copy gets one, although the file
\* drifted from the catalog: a failed verification corrects the catalog
\* (_finalize_staged, _enqueue_rehash_check, reconcile_completion).  Provided that
\* the agent goes on with its commands, that the deadlines are in the end long
\* enough for its uploads, and that the item is not Stuck for good.
RetrySucceeds ==
  (/\ WF_vars(Upload) /\ WF_vars(Rehashed)
   /\ <>[][\A t \in Transfer : AtWork(t) => row[t].due \/ ~row'[t].due]_vars
   /\ []<>(\E t \in Transfer : row[t].state \in Live /\ row[t].verify)
   /\ []<>~Stuck)
    => <>(\E t \in Transfer : row[t].verified)
=============================================================================
