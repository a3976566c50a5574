------------------------- MODULE FileTransferProofs -------------------------
(***************************************************************************)
(* Proofs about FileTransfer, for any number of transfers, versions,       *)
(* handlers, edits and faults.                                             *)
(*                                                                         *)
(* Attach, cancel, sweep and download read without the row lock, so the    *)
(* argument cannot be that nobody interferes, and nothing is said of how   *)
(* offset and total compare.  It is that an append handler is open         *)
(* only on a row that is pending or uploading (LockInv), that a verified   *)
(* row never is again, and that its file is the one that was compared, or  *)
(* gone (VerifyInv); and that a download holds on to a verified row, which *)
(* keeps initiate_transfer from starting over under it (ReaderInv).        *)
(***************************************************************************)
EXTENDS FileTransfer, SequenceTheorems, TLAPS

States == {"none"} \cup Live \cup Over
Rows == [state : States, bytes : Nat, total : Nat,
         verify : BOOLEAN, verified : BOOLEAN, due : BOOLEAN, ranged : BOOLEAN]
Files == Seq(Chunks)
Calls ==
  {Idle} \cup [st : {"attach"}, t : Transfer, size : Nat]
         \cup [st : {"retotal", "create"}, t : Transfer, size : Nat, state : States]
         \cup [st : {"sent"}, t : Transfer, offset : Nat, chunk : Files]
         \cup [st : {"open"}, t : Transfer, offset : Nat, chunk : Files, linked : BOOLEAN]
Ups ==
  {Idle} \cup [st : {"attach", "send", "wait"}, t : Transfer, offset : Nat, pos : Nat,
               size : Nat, last : BOOLEAN, h : Call \cup {None}]
Reapers == {Idle} \cup [st : {"loaded", "removed"}, t : Transfer]
Readers == {Idle} \cup [st : {"loaded", "committed"}, t : Transfer, state : {"staged", "downloaded"}]

RowInv ==
  /\ row \in [Transfer -> Rows]
  /\ disk \in [Transfer -> Files \cup {NoFile}]
  /\ lock \in [Transfer -> Call \cup {None}]
  /\ vouched \in [Transfer -> Item \cup {None}]

ActorInv ==
  /\ cmd \in [Transfer -> {"none", "live", "ended"}]
  /\ call \in [Call -> Calls]
  /\ up \in Ups
  /\ reaper \in [{"sweep", "cancel"} -> Reapers]
  /\ reader \in Readers
  /\ source \in Version \cup {NoFile} /\ catalog \in Item /\ rehash \in BOOLEAN
  /\ source = NoFile => up.st \notin {"send", "wait"}
  /\ edits \in 0..MaxEdits /\ faults \in 0..MaxFaults

\* The row lock and the open handler go together; the row is then unfinished.
LockInv ==
  /\ \A t \in Transfer, h \in Call : lock[t] = h <=> call[h].st = "open" /\ call[h].t = t
  /\ \A h \in Call : call[h].st = "open" =>
       /\ row[call[h].t].state \in {"pending", "uploading"}
       /\ call[h].linked => disk[call[h].t] \in Files
       /\ ~call[h].linked => disk[call[h].t] = NoFile

\* The file is what the item was hashed from, as far as its hash tells.
Agrees(file, was) == Len(file) = Size(was.ver) /\ Hashed(file, was)

\* A verified row is finished for good, and its file agrees or is gone.
VerifyInv ==
  \A t \in Transfer : row[t].verified =>
    /\ row[t].verify
    /\ row[t].state \in {"staged", "downloaded", "expired"}
    /\ vouched[t] # None
    /\ disk[t] = NoFile \/ Agrees(disk[t], vouched[t])

ReaderInv == reader # Idle => row[reader.t].verified

TransferInv == RowInv /\ ActorInv /\ LockInv /\ VerifyInv /\ ReaderInv

-----------------------------------------------------------------------------
(* Data. *)

LEMMA ContentFacts ==
  ASSUME NEW v \in Version
  PROVE  /\ Content[v] \in Files
         /\ Size(v) \in Nat
         /\ \A n \in Nat : n < Size(v) => <<Content[v][n + 1]>> \in Files
<1>1. Content[v] \in Seq(Range(Content[v])) /\ Range(Content[v]) \subseteq Chunks
  BY TransferAssumption DEF Chunks
<1>2. Content[v] \in Files
  BY <1>1 DEF Files
<1>3. Size(v) \in Nat
  BY <1>1 DEF Size
<1>4. ASSUME NEW n \in Nat, n < Size(v) PROVE Content[v][n + 1] \in Chunks
  BY <1>2, <1>3, <1>4 DEF Files, Size
<1> QED
  BY <1>2, <1>3, <1>4 DEF Files

LEMMA TruncatedType ==
  ASSUME NEW file \in Files \cup {NoFile}, NEW n \in Nat
  PROVE  Truncated(file, n) \in Files
<1> DEFINE old == IF file = NoFile THEN <<>> ELSE file
<1>1. old \in Files
  BY DEF Files
<1>2. ASSUME NEW i \in 1..n
      PROVE  (IF i <= Len(old) THEN old[i] ELSE Hole) \in Chunks
  <2>1. Hole \in Chunks
    BY DEF Chunks
  <2>2. CASE i <= Len(old)
    <3> HIDE DEF old
    <3>1. Len(old) \in Nat /\ old \in Seq(Chunks)
      BY <1>1 DEF Files
    <3>2. i \in 1..Len(old)
      BY <2>2, <3>1
    <3>3. old[i] \in Chunks
      BY <3>1, <3>2, ElementOfSeq
    <3> QED
      BY <2>2, <3>3
  <2> QED
    BY <2>1, <2>2
<1> HIDE DEF old
<1>3. [i \in 1..n |-> IF i <= Len(old) THEN old[i] ELSE Hole] \in Seq(Chunks)
  BY <1>2
<1> QED
  BY <1>3 DEF Truncated, Files, old

LEMMA WrittenType ==
  ASSUME TransferInv, NEW h \in Call, call[h].st = "open"
  PROVE  /\ Written(h) \in Files \cup {NoFile}
         /\ call[h].linked => Written(h) \in Files
         /\ ~call[h].linked => Written(h) = NoFile
<1>1. call[h].t \in Transfer /\ call[h].chunk \in Files /\ call[h].linked \in BOOLEAN
  BY DEF TransferInv, ActorInv, Calls, Idle
<1>2. CASE call[h].linked
  <2>1. disk[call[h].t] \in Seq(Chunks) /\ call[h].chunk \in Seq(Chunks)
    BY <1>1, <1>2 DEF TransferInv, LockInv, Files
  <2>2. Written(h) = disk[call[h].t] \o call[h].chunk
    BY <1>2 DEF Written
  <2>3. Written(h) \in Seq(Chunks)
    BY <2>1, <2>2, ConcatProperties
  <2> QED
    BY <1>2, <2>3 DEF Files
<1>3. CASE ~call[h].linked
  BY <1>1, <1>3 DEF TransferInv, LockInv, Written
<1> QED
  BY <1>1, <1>2, <1>3

\* What a handler, the upload, a reaper and the download hold.
LEMMA Held ==
  ASSUME TransferInv
  PROVE  /\ \A h \in Call :
              /\ call[h] = Idle \/ call[h].st \in {"attach", "retotal", "create", "sent", "open"}
              /\ call[h].st # "idle" => call[h].t \in Transfer
              /\ call[h].st \in {"sent", "open"} =>
                   call[h].offset \in Nat /\ call[h].chunk \in Files
              /\ call[h].st \in {"attach", "retotal", "create"} => call[h].size \in Nat
              /\ call[h].st = "open" => call[h].linked \in BOOLEAN
         /\ up = Idle \/ up.st \in {"attach", "send", "wait"}
         /\ up.st # "idle" => up.t \in Transfer /\ up.offset \in Nat /\ up.pos \in Nat /\ up.size \in Nat
         /\ \A r \in {"sweep", "cancel"} :
              /\ reaper[r] = Idle \/ reaper[r].st \in {"loaded", "removed"}
              /\ reaper[r].st # "idle" => reaper[r].t \in Transfer
         /\ reader = Idle \/ reader.st \in {"loaded", "committed"}
         /\ reader.st # "idle" =>
              reader.t \in Transfer /\ reader.state \in {"staged", "downloaded"}
<1> USE DEF TransferInv, ActorInv
<1>1. \A h \in Call : call[h] \in Calls
  OBVIOUS
<1>2. \A r \in {"sweep", "cancel"} : reaper[r] \in Reapers
  OBVIOUS
<1>3. \A c \in Calls :
        /\ c = Idle \/ c.st \in {"attach", "retotal", "create", "sent", "open"}
        /\ c.st # "idle" => c.t \in Transfer
        /\ c.st \in {"sent", "open"} => c.offset \in Nat /\ c.chunk \in Files
        /\ c.st \in {"attach", "retotal", "create"} => c.size \in Nat
        /\ c.st = "open" => c.linked \in BOOLEAN
  BY DEF Calls, Idle
<1>4. /\ up = Idle \/ up.st \in {"attach", "send", "wait"}
      /\ up.st # "idle" => up.t \in Transfer /\ up.offset \in Nat /\ up.pos \in Nat /\ up.size \in Nat
  BY DEF Ups, Idle
<1>5. \A c \in Reapers :
        (c = Idle \/ c.st \in {"loaded", "removed"}) /\ (c.st # "idle" => c.t \in Transfer)
  BY DEF Reapers, Idle
<1>6. /\ reader = Idle \/ reader.st \in {"loaded", "committed"}
      /\ reader.st # "idle" =>
           reader.t \in Transfer /\ reader.state \in {"staged", "downloaded"}
  BY DEF Readers, Idle
<1> QED
  BY <1>1, <1>2, <1>3, <1>4, <1>5, <1>6

-----------------------------------------------------------------------------
(* One lemma per action. *)

LEMMA InitInv == Init => TransferInv
<1> SUFFICES ASSUME Init PROVE TransferInv
  OBVIOUS
<1>1. RowInv
  BY DEF Init, RowInv, Rows, States, NoRow, Files
<1>2. ActorInv
  <2>1. catalog \in Item
    BY DEF Init, Item
  <2>2. rehash \in BOOLEAN
    BY DEF Init
  <2>3. edits \in 0..MaxEdits /\ faults \in 0..MaxFaults
    BY TransferAssumption DEF Init
  <2>4. call \in [Call -> Calls] /\ reaper \in [{"sweep", "cancel"} -> Reapers]
    BY DEF Init, Calls, Reapers
  <2>5. up \in Ups /\ reader \in Readers
    BY DEF Init, Ups, Readers
  <2> QED
    BY <2>1, <2>2, <2>3, <2>4, <2>5 DEF Init, ActorInv, Idle
<1>3. LockInv
  BY TransferAssumption DEF Init, LockInv, Idle
<1>4. VerifyInv /\ ReaderInv
  BY DEF Init, VerifyInv, ReaderInv, NoRow
<1> QED
  BY <1>1, <1>2, <1>3, <1>4 DEF TransferInv

\* Steps of the user, the rehash check and the agent's own clock.
LEMMA WorldStep ==
  ASSUME TransferInv,
         (\E v \in Version \cup {NoFile} : Edit(v)) \/ Rehashed \/ AgentRestart
  PROVE  TransferInv'
<1> USE TransferAssumption DEF TransferInv, central, actors, item, history
<1>1. RowInv'
  BY DEF RowInv, Edit, Rehashed, AgentRestart
<1>2. ActorInv'
  <2>1. CASE \E v \in Version \cup {NoFile} : Edit(v)
    BY <2>1 DEF ActorInv, Edit
  <2>2. CASE Rehashed
    <3>1. Reconciled \in Item
      BY DEF Reconciled, ActorInv, Item
    <3>2. catalog \in Item /\ [ver : {Reconciled.ver}, quick : {catalog.quick, Reconciled.quick},
                               full : {catalog.full, Reconciled.full}] \subseteq Item
      BY <3>1 DEF ActorInv, Item
    <3>3. catalog' \in Item
      BY <2>2, <3>1, <3>2 DEF Rehashed
    <3>4. rehash' \in BOOLEAN
      BY <2>2, Zenon DEF Rehashed
    <3>5. faults' \in 0..MaxFaults
      BY <2>2 DEF Rehashed, Fault, ActorInv
    <3> QED
      BY <2>2, <3>3, <3>4, <3>5 DEF ActorInv, Rehashed
  <2>3. CASE AgentRestart
    BY <2>3 DEF ActorInv, AgentRestart, Fault, Ups, Idle
  <2> QED
    BY <2>1, <2>2, <2>3
<1>3. LockInv'
  BY DEF LockInv, Edit, Rehashed, AgentRestart
<1>4. VerifyInv' /\ ReaderInv'
  BY DEF VerifyInv, ReaderInv, Edit, Rehashed, AgentRestart, Agrees
<1> QED
  BY <1>1, <1>2, <1>3, <1>4

LEMMA InitiateStep ==
  ASSUME TransferInv, NEW t \in Transfer, NEW verify \in BOOLEAN,
         Initiate(t, verify) \/ Enqueue(t, verify)
  PROVE  TransferInv'
<1> USE DEF TransferInv, actors, item
<1>1. PICK r \in Rows :
        /\ row' = [row EXCEPT ![t] = r]
        /\ r.verified = FALSE
  <2>1. [NoRow EXCEPT !.state = "pending", !.verify = verify, !.total = Size(catalog.ver)] \in Rows
    BY ContentFacts DEF ActorInv, Item, NoRow, Rows, States, Live
  <2>2. [NoRow EXCEPT !.verify = verify] \in Rows
    BY DEF NoRow, Rows, States
  <2> QED
    BY <2>1, <2>2 DEF Initiate, Enqueue, NoRow
<1>2. /\ vouched' = [vouched EXCEPT ![t] = None]
      /\ cmd' = [cmd EXCEPT ![t] = "live"]
      /\ UNCHANGED <<disk, lock, call, up, reaper, reader, source, catalog, rehash, edits, faults>>
      /\ Unused(t)
  BY DEF Initiate, Enqueue, Command
<1>3. lock[t] = None /\ (reader # Idle => reader.t # t)
  BY <1>2 DEF Unused
<1>4. RowInv'
  BY <1>1, <1>2 DEF RowInv
<1>5. ActorInv'
  BY <1>2 DEF ActorInv
<1>6. LockInv'
  <2>1. ASSUME NEW h \in Call, call[h].st = "open" PROVE call[h].t \in Transfer /\ call[h].t # t
    BY <1>3, <2>1, Held, TransferAssumption DEF LockInv
  <2> QED
    BY <1>1, <1>2, <2>1 DEF LockInv, RowInv
<1>7. VerifyInv' /\ ReaderInv'
  <2>1. VerifyInv'
    BY <1>1, <1>2 DEF VerifyInv, RowInv, Agrees
  <2>2. ReaderInv'
    BY <1>1, <1>2, <1>3, Held DEF ReaderInv, RowInv, Idle
  <2> QED
    BY <2>1, <2>2
<1> QED
  BY <1>4, <1>5, <1>6, <1>7

\* What the upload and its command may become while the file stays as it is.
UpOK ==
  /\ up' \in Ups /\ cmd' \in [Transfer -> {"none", "live", "ended"}]
  /\ source = NoFile => up'.st \notin {"send", "wait"}

LEMMA EndUploadType ==
  ASSUME TransferInv, NEW t \in Transfer, EndUpload(t)
  PROVE  UpOK
BY DEF TransferInv, ActorInv, EndUpload, Ups, UpOK, Idle

LEMMA GoOnType ==
  ASSUME TransferInv, up # Idle, source # NoFile, NEW offset \in Nat, NEW pos \in Nat,
         GoOn(offset, pos)
  PROVE  UpOK
<1>1. up \in [st : {"attach", "send", "wait"}, t : Transfer, offset : Nat, pos : Nat,
              size : Nat, last : BOOLEAN, h : Call \cup {None}]
  BY DEF TransferInv, ActorInv, Ups
<1>2. up' = [up EXCEPT !.st = "send", !.offset = offset, !.pos = pos, !.last = FALSE, !.h = None]
  BY DEF GoOn
<1>3. up' \in Ups
  BY <1>1, <1>2 DEF Ups
<1> QED
  BY <1>3 DEF UpOK, GoOn, TransferInv, ActorInv

\* The four answers to a handler change the upload and its command only.
LEMMA AnswerType ==
  ASSUME TransferInv, NEW h \in Call, NEW state, NEW bytes \in Nat,
         \/ Attached(h, state, bytes) \/ Answered(h, state, bytes)
         \/ Mismatched(h, bytes) \/ Refused(h)
  PROVE  UpOK
<1> USE DEF Idle
<1>1. CASE UNCHANGED <<up, cmd>>
  BY <1>1 DEF TransferInv, ActorInv, UpOK
<1>2. CASE up.st # "idle" /\ EndUpload(up.t)
  BY <1>2, EndUploadType, Held
<1>3. CASE up.st = "attach" /\ source # NoFile /\ GoOn(bytes, bytes)
  BY <1>3, GoOnType
<1>4. CASE up.st = "wait" /\ (GoOn(bytes, bytes) \/ GoOn(bytes, up.pos))
  <2>1. source # NoFile /\ up # Idle /\ up.pos \in Nat
    BY <1>4, Held DEF TransferInv, ActorInv
  <2> QED
    BY <1>4, <2>1, GoOnType
<1> QED
  BY <1>1, <1>2, <1>3, <1>4 DEF Attached, Answered, Mismatched, Refused, Awaits

\* A handler that is not open before and after a step leaves the open ones alone.
OpenKept ==
  /\ call' \in [Call -> Calls]
  /\ \A g \in Call : /\ call'[g].st = "open" <=> call[g].st = "open"
                     /\ call[g].st = "open" => call'[g] = call[g]

LEMMA NotOpen ==
  ASSUME TransferInv, NEW h \in Call, call[h].st # "open", NEW c \in Calls, c.st # "open",
         call' = [call EXCEPT ![h] = c]
  PROVE  OpenKept
BY DEF TransferInv, ActorInv, OpenKept

LEMMA AttachStep ==
  ASSUME TransferInv, NEW t \in Transfer,
         StatFails(t) \/ \E h \in Call : Attach(t, h)
  PROVE  TransferInv'
<1> USE DEF TransferInv
<1>1. UNCHANGED <<row, disk, lock, reaper, reader, source, catalog, rehash, vouched, edits, faults>>
  BY DEF StatFails, Attach, item, history
<1>2. UpOK /\ OpenKept
  <2>1. CASE StatFails(t)
    BY <2>1, EndUploadType DEF StatFails, ActorInv, OpenKept
  <2>2. ASSUME NEW h \in Call, Attach(t, h) PROVE UpOK /\ OpenKept
    <3>1. Size(source) \in Nat /\ source # NoFile
      BY <2>2, ContentFacts DEF Attach, ActorInv
    <3> DEFINE c == [st |-> "attach", t |-> t, size |-> Size(source)]
    <3>2. c \in Calls /\ c.st # "open" /\ call[h].st # "open" /\ call' = [call EXCEPT ![h] = c]
      BY <2>2, <3>1 DEF Calls, Attach, NextCall, Idle
    <3>3. UpOK
      BY <2>2, <3>1 DEF Attach, Ups, UpOK, ActorInv
    <3> HIDE DEF c
    <3> QED
      BY <3>2, <3>3, NotOpen
  <2> QED
    BY <2>1, <2>2
<1>3. RowInv' /\ ActorInv'
  BY <1>1, <1>2 DEF RowInv, ActorInv, UpOK, OpenKept
<1>4. LockInv'
  BY <1>1, <1>2 DEF LockInv, OpenKept
<1>5. VerifyInv' /\ ReaderInv'
  BY <1>1 DEF VerifyInv, ReaderInv, Agrees
<1> QED
  BY <1>3, <1>4, <1>5

\* The steps of attach_transfer that write no row.
LEMMA AttachLoadStep ==
  ASSUME TransferInv, NEW h \in Call, AttachLoad(h)
  PROVE  TransferInv'
<1> USE DEF TransferInv
<1> DEFINE t == call[h].t
           then(step) == [st |-> step, t |-> t, size |-> call[h].size, state |-> row[t].state]
<1>1. call[h].st = "attach" /\ t \in Transfer /\ call[h].size \in Nat
  BY Held DEF AttachLoad
<1>2. UNCHANGED <<row, disk, lock, reaper, reader, source, catalog, rehash, vouched, edits, faults>>
  BY DEF AttachLoad, item, history
<1>3. row[t].state \in States /\ row[t].bytes \in Nat
  BY <1>1 DEF RowInv, Rows
<1>4. \/ Attached(h, row[t].state, row[t].bytes) /\ Return(h)
      \/ Refused(h) /\ Return(h)
      \/ \E step \in {"retotal", "create"} :
           call' = [call EXCEPT ![h] = then(step)] /\ UNCHANGED <<up, cmd>>
  BY <1>1 DEF AttachLoad, ActorInv
<1>5. UpOK
  BY <1>3, <1>4, AnswerType DEF UpOK, ActorInv
<1>6. PICK c \in Calls : c.st # "open" /\ call' = [call EXCEPT ![h] = c]
  <2>1. Idle \in Calls /\ Idle.st # "open"
    BY DEF Calls, Idle
  <2>2. \A step \in {"retotal", "create"} : then(step) \in Calls /\ then(step).st # "open"
    BY <1>1, <1>3 DEF Calls
  <2> HIDE DEF then
  <2> QED
    BY <1>4, <2>1, <2>2 DEF Return
<1>7. OpenKept
  BY <1>1, <1>6, NotOpen
<1>8. RowInv' /\ ActorInv'
  BY <1>2, <1>5, <1>7 DEF RowInv, ActorInv, UpOK, OpenKept
<1>9. LockInv'
  BY <1>2, <1>7 DEF LockInv, OpenKept
<1>10. VerifyInv' /\ ReaderInv'
  BY <1>2 DEF VerifyInv, ReaderInv, Agrees
<1> QED
  BY <1>8, <1>9, <1>10

\* The steps of attach_transfer that may write one: not while an append has it.
LEMMA AttachWriteStep ==
  ASSUME TransferInv, NEW h \in Call, AttachRetotal(h) \/ AttachCreate(h)
  PROVE  TransferInv'
<1> USE DEF TransferInv
<1> DEFINE t == call[h].t
<1>1. /\ call[h].st \in {"retotal", "create"} /\ t \in Transfer /\ call[h].size \in Nat
      /\ call' = [call EXCEPT ![h] = Idle]
      /\ UNCHANGED <<disk, lock, reaper, reader, source, catalog, rehash, vouched, edits, faults>>
  BY Held DEF AttachRetotal, AttachCreate, Return, item, history
<1>2. row[t] \in Rows /\ row[t].bytes \in Nat /\ DOMAIN row = Transfer
  BY <1>1 DEF RowInv, Rows
<1>3. UpOK
  <2>1. CASE AttachRetotal(h)
    BY <2>1, AnswerType DEF AttachRetotal
  <2>2. CASE AttachCreate(h)
    <3>1. \/ Attached(h, row[t].state, row[t].bytes) \/ Refused(h)
          \/ Attached(h, "pending", 0)
      BY <2>2 DEF AttachCreate
    <3> QED
      BY <3>1, <1>2, AnswerType
  <2> QED
    BY <2>1, <2>2
<1> DEFINE Becomes(r) ==
             /\ row' = [row EXCEPT ![t] = r]
             /\ r.verify = row[t].verify /\ r.verified = row[t].verified
             /\ \/ r.state = row[t].state
                \/ row[t].state = "none" /\ r.state = "pending"
<1>4. PICK r \in Rows : Becomes(r)
  <2>1. ASSUME NEW due \in {row[t].due, FALSE},
               row' = [row EXCEPT ![t].total = call[h].size, ![t].due = due]
        PROVE  \E r \in Rows : Becomes(r)
    <3> DEFINE x == [row[t] EXCEPT !.total = call[h].size, !.due = due]
    <3>1. x \in Rows /\ x.verify = row[t].verify /\ x.verified = row[t].verified /\ x.state = row[t].state
      BY <1>1, <1>2 DEF Rows
    <3>2. row' = [row EXCEPT ![t] = x]
      BY <2>1, <1>1, <1>2
    <3> HIDE DEF x
    <3> QED
      BY <3>1, <3>2
  <2>2. CASE UNCHANGED row
    <3>1. row = [row EXCEPT ![t] = row[t]]
      BY <1>1 DEF RowInv
    <3>2. Becomes(row[t])
      BY <2>2, <3>1
    <3> QED
      BY <1>2, <3>2
  <2>3. ASSUME row[t].state = "none",
               row' = [row EXCEPT ![t].state = "pending", ![t].total = call[h].size]
        PROVE  \E r \in Rows : Becomes(r)
    <3> DEFINE x == [row[t] EXCEPT !.state = "pending", !.total = call[h].size]
    <3>1. x \in Rows /\ x.verify = row[t].verify /\ x.verified = row[t].verified /\ x.state = "pending"
      BY <1>1, <1>2 DEF Rows, States, Live
    <3>2. row' = [row EXCEPT ![t] = x]
      BY <2>3, <1>1, <1>2
    <3> HIDE DEF x
    <3> QED
      BY <2>3, <3>1, <3>2
  <2> QED
    BY <2>1, <2>2, <2>3 DEF AttachRetotal, AttachCreate
<1>5. OpenKept
  <2>1. Idle \in Calls /\ Idle.st # "open" /\ call[h].st # "open"
    BY <1>1 DEF Calls, Idle
  <2> QED
    BY <1>1, <2>1, NotOpen
<1> HIDE DEF t
<1>6. RowInv' /\ ActorInv'
  BY <1>1, <1>3, <1>4, <1>5 DEF RowInv, ActorInv, UpOK, OpenKept
<1>7. LockInv'
  <2>1. ASSUME NEW g \in Call, call'[g].st = "open"
        PROVE  /\ row'[call'[g].t].state \in {"pending", "uploading"}
               /\ call'[g].linked => disk'[call'[g].t] \in Files
               /\ ~call'[g].linked => disk'[call'[g].t] = NoFile
    <3>1. /\ call'[g] = call[g] /\ call[g].st = "open" /\ call[g].t \in Transfer
          /\ row[call[g].t].state \in {"pending", "uploading"}
      BY <1>5, <2>1, Held DEF LockInv, OpenKept
    <3>2. row'[call[g].t].state \in {"pending", "uploading"}
      BY <1>1, <1>2, <1>4, <3>1
    <3> QED
      BY <1>1, <3>1, <3>2 DEF LockInv
  <2> QED
    BY <1>1, <1>5, <2>1 DEF LockInv, OpenKept
<1>8. \A u \in Transfer : /\ row'[u].verify = row[u].verify
                          /\ row'[u].verified = row[u].verified
                          /\ row[u].verified => row'[u].state = row[u].state
  BY <1>1, <1>2, <1>4 DEF VerifyInv
<1>9. VerifyInv' /\ ReaderInv'
  BY <1>1, <1>8, Held DEF VerifyInv, ReaderInv, Agrees, Idle
<1> QED
  BY <1>6, <1>7, <1>9

LEMMA SendStep ==
  ASSUME TransferInv, NEW h \in Call, Send(h)
  PROVE  TransferInv'
<1> USE DEF TransferInv
<1> DEFINE chunk == IF up.offset < up.size THEN <<Content[source][up.pos + 1]>> ELSE <<>>
           sent == [st |-> "sent", t |-> up.t, offset |-> up.offset, chunk |-> chunk]
<1>1. /\ up.st = "send" /\ up.t \in Transfer /\ up.offset \in Nat /\ up.pos \in Nat
      /\ up.size \in Nat /\ source \in Version
  BY Held DEF Send, ActorInv
<1>2. chunk \in Files
  <2>1. CASE up.offset < up.size
    BY <2>1, <1>1, ContentFacts DEF Send
  <2>2. CASE ~(up.offset < up.size)
    BY <2>2 DEF Files
  <2> QED
    BY <2>1, <2>2
<1>3. /\ call[h] = Idle /\ call' = [call EXCEPT ![h] = sent]
      /\ UNCHANGED <<row, cmd, disk, lock, reaper, reader, source, catalog, rehash, vouched,
                     edits, faults>>
  BY DEF Send, NextCall, item, history
<1> HIDE DEF chunk
<1>4. sent \in Calls /\ sent.st = "sent"
  BY <1>1, <1>2 DEF Calls
<1> HIDE DEF sent
<1>5. up' \in Ups
  <2>1. up \in [st : {"attach", "send", "wait"}, t : Transfer, offset : Nat, pos : Nat,
                size : Nat, last : BOOLEAN, h : Call \cup {None}]
    BY <1>1 DEF ActorInv, Ups, Idle
  <2>2. PICK last \in BOOLEAN, pos \in Nat :
          up' = [up EXCEPT !.st = "wait", !.last = last, !.h = h, !.pos = pos]
    <3>1. (up.offset >= up.size) \in BOOLEAN
      OBVIOUS
    <3>2. (IF up.offset < up.size THEN up.pos + 1 ELSE up.pos) \in Nat
      BY <1>1
    <3>3. up' = [up EXCEPT !.st = "wait", !.last = (up.offset >= up.size), !.h = h,
                           !.pos = IF up.offset < up.size THEN up.pos + 1 ELSE up.pos]
      BY <2>1 DEF Send
    <3> QED
      BY <3>1, <3>2, <3>3
  <2> QED
    BY <2>1, <2>2 DEF Ups
<1>6. RowInv' /\ ActorInv'
  BY <1>1, <1>3, <1>4, <1>5, TransferAssumption DEF RowInv, ActorInv
<1>7. LockInv'
  BY <1>3, <1>4 DEF LockInv, ActorInv, Idle
<1>8. VerifyInv' /\ ReaderInv'
  BY <1>3 DEF VerifyInv, ReaderInv, Agrees
<1> QED
  BY <1>6, <1>7, <1>8

LEMMA UploadStops ==
  ASSUME TransferInv, ShortRead \/ TimeOut
  PROVE  TransferInv'
<1> USE DEF TransferInv
<1>1. up.t \in Transfer /\ EndUpload(up.t)
  BY Held DEF ShortRead, TimeOut
<1>2. UpOK
  BY <1>1, EndUploadType
<1>3. /\ UNCHANGED <<row, disk, lock, call, reaper, reader, source, catalog, rehash, vouched, edits>>
      /\ faults' \in 0..MaxFaults
  BY TransferAssumption DEF ShortRead, TimeOut, item, history, Fault, ActorInv
<1>4. RowInv' /\ ActorInv'
  BY <1>2, <1>3 DEF RowInv, ActorInv, UpOK
<1>5. LockInv' /\ VerifyInv' /\ ReaderInv'
  BY <1>3 DEF LockInv, VerifyInv, ReaderInv, Agrees
<1> QED
  BY <1>4, <1>5

LEMMA AppendRefusedStep ==
  ASSUME TransferInv, NEW h \in Call, AppendRefused(h)
  PROVE  TransferInv'
<1> USE DEF TransferInv
<1>1. call[h].t \in Transfer /\ call[h].st = "sent"
  BY Held DEF AppendRefused
<1>2. row[call[h].t].bytes \in Nat
  BY <1>1 DEF RowInv, Rows
<1>3. UpOK
  BY <1>2, AnswerType DEF AppendRefused
<1>4. /\ call' = [call EXCEPT ![h] = Idle]
      /\ UNCHANGED <<row, disk, lock, reaper, reader, source, catalog, rehash, vouched, edits, faults>>
  BY DEF AppendRefused, Return, item, history
<1>5. RowInv' /\ ActorInv'
  BY <1>3, <1>4 DEF RowInv, ActorInv, Calls, UpOK
<1>6. LockInv'
  BY <1>1, <1>4 DEF LockInv, ActorInv, Idle
<1>7. VerifyInv' /\ ReaderInv'
  BY <1>4 DEF VerifyInv, ReaderInv, Agrees
<1> QED
  BY <1>5, <1>6, <1>7

LEMMA AppendOpenStep ==
  ASSUME TransferInv, NEW h \in Call, AppendOpen(h)
  PROVE  TransferInv'
<1> USE DEF TransferInv
<1> DEFINE t == call[h].t
           open == [st |-> "open", t |-> t, offset |-> call[h].offset, chunk |-> call[h].chunk,
                    linked |-> TRUE]
           file == Truncated(disk[t], call[h].offset)
<1>1. /\ call[h].st = "sent" /\ t \in Transfer
      /\ call[h].offset \in Nat /\ call[h].chunk \in Files
  BY Held DEF AppendOpen
<1>2. /\ lock[t] = None /\ row[t].state \in {"pending", "uploading"}
      /\ lock' = [lock EXCEPT ![t] = h]
      /\ disk' = [disk EXCEPT ![t] = file]
      /\ call' = [call EXCEPT ![h] = open]
      /\ UNCHANGED <<row, cmd, up, reaper, reader, source, catalog, rehash, vouched, edits, faults>>
  BY DEF AppendOpen, Free, actors, item, history
<1>3. file \in Files
  BY <1>1, TruncatedType DEF RowInv
<1>4. open \in Calls /\ open.st = "open" /\ open.t = t /\ open.linked
  BY <1>1 DEF Calls
<1>5. t = call[h].t
  OBVIOUS
<1> HIDE DEF t, open, file
<1>6. RowInv' /\ ActorInv'
  BY <1>1, <1>2, <1>3, <1>4 DEF RowInv, ActorInv
<1>7. LockInv'
  <2>1. ASSUME NEW u \in Transfer, NEW g \in Call
        PROVE  lock'[u] = g <=> call'[g].st = "open" /\ call'[g].t = u
    BY <1>1, <1>2, <1>4, <1>5, TransferAssumption DEF LockInv, RowInv, ActorInv
  <2>2. ASSUME NEW g \in Call, call'[g].st = "open"
        PROVE  /\ row'[call'[g].t].state \in {"pending", "uploading"}
               /\ call'[g].linked => disk'[call'[g].t] \in Files
               /\ ~call'[g].linked => disk'[call'[g].t] = NoFile
    <3>1. CASE g = h
      BY <3>1, <1>1, <1>2, <1>3, <1>4 DEF RowInv, ActorInv
    <3>2. CASE g # h
      <4>1. call'[g] = call[g] /\ call[g].t \in Transfer
        BY <3>2, <1>2, <2>2, Held DEF ActorInv, Idle
      <4>2. call[g].t # t
        BY <4>1, <1>2, <2>2, TransferAssumption DEF LockInv
      <4> QED
        BY <4>1, <4>2, <1>2, <2>2 DEF LockInv, RowInv
    <3> QED
      BY <3>1, <3>2
  <2> QED
    BY <2>1, <2>2 DEF LockInv
<1>8. VerifyInv'
  BY <1>1, <1>2 DEF VerifyInv, RowInv, Agrees
<1>9. ReaderInv'
  BY <1>2 DEF ReaderInv
<1> QED
  BY <1>6, <1>7, <1>8, <1>9

\* A handler that ends lets go of the lock of its row.
LEMMA Unlocked ==
  ASSUME TransferInv, NEW h \in Call, call[h].st = "open",
         lock' = [lock EXCEPT ![call[h].t] = None], call' = [call EXCEPT ![h] = Idle]
  PROVE  /\ \A u \in Transfer, g \in Call :
              lock'[u] = g <=> call'[g].st = "open" /\ call'[g].t = u
         /\ \A g \in Call : call'[g].st = "open" =>
              call'[g] = call[g] /\ call[g].t \in Transfer /\ call[g].t # call[h].t
         /\ call' \in [Call -> Calls]
         /\ lock' \in [Transfer -> Call \cup {None}]
<1> USE DEF TransferInv
<1>1. call[h].t \in Transfer
  BY Held
<1>2. lock[call[h].t] = h
  BY <1>1 DEF LockInv
<1>3. call' \in [Call -> Calls] /\ lock' \in [Transfer -> Call \cup {None}]
  BY <1>1 DEF ActorInv, RowInv, Calls
<1>4. ASSUME NEW g \in Call, call'[g].st = "open"
      PROVE  call'[g] = call[g] /\ call[g].t \in Transfer /\ call[g].t # call[h].t
  <2>1. g # h
    BY <1>4 DEF ActorInv, Idle
  <2>2. call'[g] = call[g] /\ call[g].t \in Transfer
    BY <2>1, <1>4, Held DEF ActorInv, Idle
  <2>3. lock[call[g].t] = g
    BY <2>2, <1>4 DEF LockInv
  <2> QED
    BY <2>1, <2>2, <2>3, <1>2
<1>5. ASSUME NEW u \in Transfer, NEW g \in Call
      PROVE  lock'[u] = g <=> call'[g].st = "open" /\ call'[g].t = u
  <2>1. CASE g = h
    BY <2>1, <1>1, <1>2, TransferAssumption DEF LockInv, RowInv, ActorInv, Idle
  <2>2. CASE g # h
    BY <2>2, <1>1, <1>2, TransferAssumption DEF LockInv, RowInv, ActorInv
  <2> QED
    BY <2>1, <2>2
<1> QED
  BY <1>3, <1>4, <1>5

LEMMA AppendFailsStep ==
  ASSUME TransferInv, NEW h \in Call, AppendFails(h)
  PROVE  TransferInv'
<1> USE DEF TransferInv
<1>1. /\ call[h].st = "open" /\ Refused(h)
      /\ lock' = [lock EXCEPT ![call[h].t] = None] /\ call' = [call EXCEPT ![h] = Idle]
      /\ UNCHANGED <<row, disk, reaper, reader, source, catalog, rehash, vouched, edits, faults>>
  BY DEF AppendFails, Unlock, Return, item, history
<1>2. UpOK
  BY <1>1, AnswerType
<1>3. RowInv' /\ ActorInv'
  BY <1>1, <1>2, Unlocked DEF RowInv, ActorInv, UpOK
<1>4. LockInv'
  BY <1>1, Unlocked DEF LockInv
<1>5. VerifyInv' /\ ReaderInv'
  BY <1>1 DEF VerifyInv, ReaderInv, Agrees
<1> QED
  BY <1>3, <1>4, <1>5

LEMMA HandlerLostStep ==
  ASSUME TransferInv, NEW h \in Call, HandlerLost(h)
  PROVE  TransferInv'
<1> USE DEF TransferInv
<1>1. /\ Refused(h) /\ call' = [call EXCEPT ![h] = Idle]
      /\ UNCHANGED <<row, reaper, reader, source, catalog, rehash, vouched, edits>>
  BY DEF HandlerLost, Return, item
<1>2. UpOK /\ faults' \in 0..MaxFaults
  <2>1. UpOK
    BY <1>1, AnswerType
  <2>2. faults' \in 0..MaxFaults
    BY TransferAssumption DEF HandlerLost, Fault, ActorInv
  <2> QED
    BY <2>1, <2>2
<1>3. CASE call[h].st # "open" /\ UNCHANGED <<disk, lock>>
  <2>1. RowInv' /\ ActorInv'
    BY <1>1, <1>2, <1>3 DEF RowInv, ActorInv, Calls, UpOK
  <2>2. LockInv'
    BY <1>1, <1>3 DEF LockInv, ActorInv, Idle
  <2>3. VerifyInv' /\ ReaderInv'
    BY <1>1, <1>3 DEF VerifyInv, ReaderInv, Agrees
  <2> QED
    BY <2>1, <2>2, <2>3
<1>4. ASSUME call[h].st = "open", lock' = [lock EXCEPT ![call[h].t] = None],
             NEW file \in {disk[call[h].t], Written(h), NoFile},
             disk' = [disk EXCEPT ![call[h].t] = file]
      PROVE  TransferInv'
  <2>1. call[h].t \in Transfer /\ row[call[h].t].state \in {"pending", "uploading"}
    BY <1>4, Held DEF LockInv
  <2>2. file \in Files \cup {NoFile}
    BY <1>4, <2>1, WrittenType DEF RowInv
  <2>3. RowInv' /\ ActorInv'
    BY <1>1, <1>2, <1>4, <2>1, <2>2, Unlocked DEF RowInv, ActorInv, UpOK
  <2>4. LockInv'
    <3>1. \A u \in Transfer : u # call[h].t => disk'[u] = disk[u]
      BY <1>4, <2>1 DEF RowInv
    <3>2. /\ \A u \in Transfer, g \in Call :
               lock'[u] = g <=> call'[g].st = "open" /\ call'[g].t = u
          /\ \A g \in Call : call'[g].st = "open" =>
               call'[g] = call[g] /\ call[g].t \in Transfer /\ call[g].t # call[h].t
      BY <1>1, <1>4, Unlocked
    <3> QED
      BY <1>1, <3>1, <3>2 DEF LockInv
  <2>5. VerifyInv' /\ ReaderInv'
    BY <1>1, <1>4, <2>1 DEF VerifyInv, ReaderInv, Agrees, RowInv
  <2> QED
    BY <2>3, <2>4, <2>5
<1> QED
  BY <1>3, <1>4 DEF HandlerLost, Unlock

\* The verification of append_transfer is what the invariant remembers.
LEMMA VerifiedAgrees ==
  ASSUME NEW file, Verified(file), catalog \in Item
  PROVE  Agrees(file, catalog)
BY DEF Verified, Agrees

LEMMA AppendCommitStep ==
  ASSUME TransferInv, NEW h \in Call, AppendCommit(h)
  PROVE  TransferInv'
<1> USE DEF TransferInv
<1> DEFINE t == call[h].t
           bytes == call[h].offset + Len(call[h].chunk)
<1>1. /\ call[h].st = "open"
      /\ lock' = [lock EXCEPT ![t] = None] /\ call' = [call EXCEPT ![h] = Idle]
      /\ UNCHANGED <<reaper, reader, source, catalog, edits, faults>>
  BY DEF AppendCommit, Unlock, Return
<1>2. /\ t \in Transfer /\ bytes \in Nat /\ row[t].state \in {"pending", "uploading"}
      /\ Written(h) \in Files \cup {NoFile}
  BY <1>1, Held, WrittenType DEF LockInv, Files
<1>3. PICK state \in {"uploading", "staged", "failed"}, ok \in BOOLEAN, due \in BOOLEAN :
        /\ row' = [row EXCEPT ![t].state = state, ![t].bytes = bytes,
                              ![t].verified = ok, ![t].due = due]
        /\ disk' = [disk EXCEPT ![t] = IF state = "failed" THEN NoFile ELSE Written(h)]
        /\ Answered(h, state, bytes)
        /\ rehash' \in BOOLEAN
        /\ \/ ~ok /\ UNCHANGED vouched
           \/ /\ ok /\ state = "staged" /\ row[t].verify /\ Verified(Written(h))
              /\ vouched' = [vouched EXCEPT ![t] = catalog]
  <2>1. row[t].due \in BOOLEAN /\ rehash \in BOOLEAN
    BY <1>2 DEF RowInv, Rows, ActorInv
  <2> QED
    BY <2>1 DEF AppendCommit, EnqueueRehash
<1> HIDE DEF t, bytes
<1>4. /\ row' \in [Transfer -> Rows]
      /\ row'[t].bytes = bytes /\ row'[t].total = row[t].total /\ row'[t].verify = row[t].verify
      /\ row'[t].verified = ok /\ row'[t].state = state
      /\ \A u \in Transfer : u # t => row'[u] = row[u]
  <2>1. row[t] \in Rows /\ DOMAIN row = Transfer
    BY <1>2 DEF RowInv
  <2>2. row' = [row EXCEPT ![t] = [row[t] EXCEPT !.state = state, !.bytes = bytes,
                                                 !.verified = ok, !.due = due]]
    BY <1>2, <1>3, <2>1
  <2>3. state \in States
    BY DEF States, Live, Over
  <2> DEFINE r == [row[t] EXCEPT !.state = state, !.bytes = bytes, !.verified = ok, !.due = due]
  <2>4. /\ r \in Rows /\ r.bytes = bytes /\ r.total = row[t].total /\ r.verify = row[t].verify
        /\ r.verified = ok /\ r.state = state
    BY <2>1, <2>3, <1>2 DEF Rows
  <2> HIDE DEF r
  <2>5. row' = [row EXCEPT ![t] = r]
    BY <2>2 DEF r
  <2> QED
    BY <1>2, <2>4, <2>5 DEF RowInv
<1>5. RowInv'
  <2>1. disk' \in [Transfer -> Files \cup {NoFile}]
    BY <1>2, <1>3 DEF RowInv
  <2>2. vouched' \in [Transfer -> Item \cup {None}]
    BY <1>2, <1>3 DEF RowInv, ActorInv
  <2> QED
    BY <1>1, <1>4, <2>1, <2>2, Unlocked DEF RowInv, t
<1>6. ActorInv'
  <2>1. UpOK
    BY <1>2, <1>3, AnswerType
  <2> QED
    BY <1>1, <1>3, <2>1, Unlocked DEF ActorInv, UpOK, t
<1>7. LockInv'
  <2>1. \A u \in Transfer : u # t => row'[u] = row[u] /\ disk'[u] = disk[u]
    BY <1>2, <1>3, <1>4 DEF RowInv
  <2>2. /\ \A u \in Transfer, g \in Call :
             lock'[u] = g <=> call'[g].st = "open" /\ call'[g].t = u
        /\ \A g \in Call : call'[g].st = "open" =>
             call'[g] = call[g] /\ call[g].t \in Transfer /\ call[g].t # t
    BY <1>1, Unlocked DEF t
  <2> QED
    BY <2>1, <2>2 DEF LockInv
<1>8. VerifyInv'
  <2> SUFFICES ASSUME NEW u \in Transfer, row'[u].verified
               PROVE  /\ row'[u].verify
                      /\ row'[u].state \in {"staged", "downloaded", "expired"}
                      /\ vouched'[u] # None
                      /\ disk'[u] = NoFile \/ Agrees(disk'[u], vouched'[u])
    BY DEF VerifyInv, Agrees
  <2>1. CASE u # t
    BY <2>1, <1>2, <1>3, <1>4 DEF VerifyInv, RowInv
  <2>2. CASE u = t
    <3>1. /\ ok /\ state = "staged" /\ row[t].verify /\ Verified(Written(h))
          /\ vouched' = [vouched EXCEPT ![t] = catalog]
      BY <2>2, <1>3, <1>4
    <3>2. catalog \in Item /\ catalog # None /\ Agrees(Written(h), catalog)
      BY <3>1, VerifiedAgrees, TransferAssumption DEF ActorInv
    <3>3. disk'[t] = Written(h) /\ vouched'[t] = catalog
      BY <3>1, <1>2, <1>3 DEF RowInv
    <3> QED
      BY <2>2, <3>1, <3>2, <3>3, <1>4
  <2> QED
    BY <2>1, <2>2
<1>9. ReaderInv'
  <2>1. reader # Idle => reader.t \in Transfer /\ reader.t # t
    BY <1>2, Held DEF ReaderInv, VerifyInv, Idle
  <2> QED
    BY <2>1, <1>1, <1>4 DEF ReaderInv
<1> QED
  BY <1>5, <1>6, <1>7, <1>8, <1>9

\* A deadline passes: the sweep and the grace period look at due and ranged only.
LEMMA LapseStep ==
  ASSUME TransferInv, NEW t \in Transfer, Lapse(t) \/ GraceLapse(t)
  PROVE  TransferInv'
<1> USE DEF TransferInv
<1>1. UNCHANGED <<cmd, disk, lock, call, up, reaper, reader, source, catalog, rehash, vouched,
                  edits, faults>>
  BY DEF Lapse, GraceLapse, actors, item, history
<1>3. row' = [row EXCEPT ![t].due = TRUE] \/ row' = [row EXCEPT ![t].ranged = FALSE]
  BY DEF Lapse, GraceLapse
<1>4. /\ row' \in [Transfer -> Rows]
      /\ \A u \in Transfer : /\ row'[u].state = row[u].state
                              /\ row'[u].verify = row[u].verify
                              /\ row'[u].verified = row[u].verified
  <2>1. CASE row' = [row EXCEPT ![t].due = TRUE]
    BY <2>1 DEF RowInv, Rows
  <2>2. CASE row' = [row EXCEPT ![t].ranged = FALSE]
    BY <2>2 DEF RowInv, Rows
  <2> QED
    BY <1>3, <2>1, <2>2
<1>5. RowInv' /\ ActorInv'
  BY <1>1, <1>4 DEF RowInv, ActorInv
<1>6. LockInv'
  BY <1>1, <1>4, Held DEF LockInv
<1>7. VerifyInv' /\ ReaderInv'
  BY <1>1, <1>4, Held DEF VerifyInv, ReaderInv, Agrees, Idle
<1> QED
  BY <1>5, <1>6, <1>7

LEMMA ReapLoadStep ==
  ASSUME TransferInv, NEW r \in {"sweep", "cancel"},
         ReapLost(r) \/ \E t \in Transfer : ReapLoad(r, t)
  PROVE  TransferInv'
<1> USE DEF TransferInv
<1>1. UNCHANGED <<row, cmd, disk, lock, call, up, reader, source, catalog, rehash, vouched, edits>>
  BY DEF ReapLost, ReapLoad, central, item
<1>2. faults' \in 0..MaxFaults
  BY TransferAssumption DEF ReapLost, ReapLoad, Fault, ActorInv
<1>3. reaper' \in [{"sweep", "cancel"} -> Reapers]
  BY DEF ReapLost, ReapLoad, ActorInv, Reapers
<1>4. RowInv' /\ ActorInv'
  BY <1>1, <1>2, <1>3 DEF RowInv, ActorInv
<1>5. LockInv' /\ VerifyInv' /\ ReaderInv'
  BY <1>1 DEF LockInv, VerifyInv, ReaderInv, Agrees
<1> QED
  BY <1>4, <1>5

\* The unlink takes the name from every handler that is writing the file.
LEMMA ReapRemoveStep ==
  ASSUME TransferInv, NEW r \in {"sweep", "cancel"}, ReapRemove(r)
  PROVE  TransferInv'
<1> USE DEF TransferInv
<1> DEFINE t == reaper[r].t
           Hit(h) == call[h].st = "open" /\ call[h].t = t
<1>1. /\ t \in Transfer
      /\ disk' = [disk EXCEPT ![t] = NoFile]
      /\ call' = [h \in Call |-> IF Hit(h) THEN [call[h] EXCEPT !.linked = FALSE] ELSE call[h]]
      /\ reaper' = [reaper EXCEPT ![r] = [st |-> "removed", t |-> t]]
      /\ UNCHANGED <<row, cmd, lock, up, reader, source, catalog, rehash, vouched, edits, faults>>
  BY Held DEF ReapRemove, item, history
<1>2. ASSUME NEW h \in Call
      PROVE  /\ call'[h] \in Calls
             /\ call'[h].st = call[h].st
             /\ call[h].st = "open" => call'[h].t = call[h].t
             /\ Hit(h) => call'[h].linked = FALSE
             /\ ~Hit(h) => call'[h] = call[h]
  <2>1. call[h] \in Calls
    BY DEF ActorInv
  <2>2. CASE Hit(h)
    <3>1. call[h] \in [st : {"open"}, t : Transfer, offset : Nat, chunk : Files, linked : BOOLEAN]
      BY <2>1, <2>2 DEF Calls, Idle
    <3>2. call'[h] = [call[h] EXCEPT !.linked = FALSE]
      BY <1>1, <2>2
    <3>3. /\ call'[h] \in [st : {"open"}, t : Transfer, offset : Nat, chunk : Files, linked : BOOLEAN]
          /\ call'[h].st = call[h].st /\ call'[h].t = call[h].t /\ call'[h].linked = FALSE
      BY <3>1, <3>2
    <3> QED
      BY <2>2, <3>3 DEF Calls
  <2>3. CASE ~Hit(h)
    BY <1>1, <2>1, <2>3
  <2> QED
    BY <2>2, <2>3
<1>3. \A h \in Call : Hit(h) <=> call[h].st = "open" /\ call[h].t = t
  OBVIOUS
<1> HIDE DEF t, Hit
<1>4. RowInv' /\ ActorInv'
  <2>1. call' \in [Call -> Calls]
    BY <1>1, <1>2
  <2>2. reaper' \in [{"sweep", "cancel"} -> Reapers]
    BY <1>1 DEF ActorInv, Reapers
  <2> QED
    BY <1>1, <2>1, <2>2 DEF RowInv, ActorInv
<1>5. LockInv'
  <2>1. ASSUME NEW u \in Transfer, NEW h \in Call
        PROVE  lock'[u] = h <=> call'[h].st = "open" /\ call'[h].t = u
    BY <1>1, <1>2 DEF LockInv
  <2>2. ASSUME NEW h \in Call, call'[h].st = "open"
        PROVE  /\ row'[call'[h].t].state \in {"pending", "uploading"}
               /\ call'[h].linked => disk'[call'[h].t] \in Files
               /\ ~call'[h].linked => disk'[call'[h].t] = NoFile
    <3>1. call[h].st = "open" /\ call'[h].t = call[h].t /\ call[h].t \in Transfer
      BY <1>2, <2>2, Held
    <3>2. CASE Hit(h)
      BY <3>1, <3>2, <1>1, <1>2, <1>3 DEF LockInv, RowInv
    <3>3. CASE ~Hit(h)
      BY <3>1, <3>3, <1>1, <1>2, <1>3 DEF LockInv, RowInv
    <3> QED
      BY <3>2, <3>3
  <2> QED
    BY <2>1, <2>2 DEF LockInv
<1>6. VerifyInv' /\ ReaderInv'
  BY <1>1 DEF VerifyInv, ReaderInv, Agrees, RowInv
<1> QED
  BY <1>4, <1>5, <1>6

LEMMA ReapCommitStep ==
  ASSUME TransferInv, NEW r \in {"sweep", "cancel"}, ReapCommit(r)
  PROVE  TransferInv'
<1> USE DEF TransferInv
<1> DEFINE t == reaper[r].t
<1>1. /\ t \in Transfer /\ lock[t] = None
      /\ row' = [row EXCEPT ![t].state = "expired"]
      /\ cmd' = [cmd EXCEPT ![t] = "ended"]
      /\ reaper' = [reaper EXCEPT ![r] = Idle]
      /\ UNCHANGED <<disk, lock, call, up, reader, source, catalog, rehash, vouched, edits, faults>>
  BY Held DEF ReapCommit, item, history
<1> HIDE DEF t
<1>2. /\ row' \in [Transfer -> Rows] /\ row'[t].state = "expired"
      /\ \A u \in Transfer : u # t => row'[u] = row[u]
      /\ \A u \in Transfer : /\ row'[u].verify = row[u].verify
                              /\ row'[u].verified = row[u].verified
  BY <1>1 DEF RowInv, Rows, States, Over
<1>3. RowInv' /\ ActorInv'
  BY <1>1, <1>2 DEF RowInv, ActorInv, Reapers
<1>4. LockInv'
  <2>1. ASSUME NEW h \in Call, call[h].st = "open" PROVE call[h].t \in Transfer /\ call[h].t # t
    BY <1>1, <2>1, Held, TransferAssumption DEF LockInv
  <2> QED
    BY <1>1, <1>2, <2>1 DEF LockInv
<1>5. VerifyInv'
  BY <1>1, <1>2 DEF VerifyInv, Agrees
<1>6. ReaderInv'
  BY <1>1, <1>2, Held DEF ReaderInv, Idle
<1> QED
  BY <1>3, <1>4, <1>5, <1>6

LEMMA DownloadLoadStep ==
  ASSUME TransferInv, (\E t \in Transfer : DownloadLoad(t)) \/ Serve
  PROVE  TransferInv'
<1> USE DEF TransferInv
<1>1. UNCHANGED <<row, cmd, disk, lock, call, up, reaper, source, catalog, rehash, vouched, edits, faults>>
  BY DEF DownloadLoad, Serve, central, item, history
<1>2. reader' \in Readers /\ (reader' # Idle => row[reader'.t].verified)
  BY DEF DownloadLoad, Serve, Readers
<1>3. RowInv' /\ ActorInv'
  BY <1>1, <1>2 DEF RowInv, ActorInv
<1>4. LockInv' /\ VerifyInv'
  BY <1>1 DEF LockInv, VerifyInv, Agrees
<1>5. ReaderInv'
  BY <1>1, <1>2 DEF ReaderInv
<1> QED
  BY <1>3, <1>4, <1>5

LEMMA DownloadCommitStep ==
  ASSUME TransferInv, NEW final \in BOOLEAN, DownloadCommit(final)
  PROVE  TransferInv'
<1> USE DEF TransferInv
<1> DEFINE t == reader.t
<1>1. /\ t \in Transfer /\ reader.state \in {"staged", "downloaded"} /\ reader # Idle
      /\ UNCHANGED <<cmd, disk, lock, call, up, reaper, source, catalog, rehash, vouched, edits, faults>>
  BY Held DEF DownloadCommit, item, history, Idle
<1>2. row[t].verified
  BY <1>1 DEF ReaderInv
<1>3. CASE reader' = Idle /\ UNCHANGED row
  <2>1. RowInv' /\ ActorInv'
    BY <1>1, <1>3 DEF RowInv, ActorInv, Readers
  <2>2. LockInv' /\ VerifyInv' /\ ReaderInv'
    BY <1>1, <1>3 DEF LockInv, VerifyInv, ReaderInv, Agrees
  <2> QED
    BY <2>1, <2>2
<1>4. ASSUME lock[t] = None,
             NEW state \in {row[t].state, "downloaded"},
             row' = [row EXCEPT ![t].ranged = TRUE, ![t].state = state],
             reader' = [st |-> "committed", t |-> t, state |-> reader.state]
      PROVE  TransferInv'
  <2> HIDE DEF t
  <2>1. /\ row' \in [Transfer -> Rows] /\ row'[t].state = state
        /\ \A u \in Transfer : u # t => row'[u] = row[u]
        /\ \A u \in Transfer : /\ row'[u].verify = row[u].verify
                                /\ row'[u].verified = row[u].verified
    BY <1>1, <1>4 DEF RowInv, Rows, States, Over
  <2>2. reader' \in Readers
    BY <1>1, <1>4 DEF Readers
  <2>3. RowInv' /\ ActorInv'
    BY <1>1, <2>1, <2>2 DEF RowInv, ActorInv
  <2>4. LockInv'
    <3>1. ASSUME NEW h \in Call, call[h].st = "open" PROVE call[h].t \in Transfer /\ call[h].t # t
      BY <1>1, <1>4, <3>1, Held, TransferAssumption DEF LockInv
    <3> QED
      BY <1>1, <2>1, <3>1 DEF LockInv
  <2>5. VerifyInv'
    BY <1>1, <1>2, <1>4, <2>1 DEF VerifyInv, Agrees
  <2>6. ReaderInv'
    BY <1>1, <1>2, <1>4, <2>1 DEF ReaderInv
  <2> QED
    BY <2>3, <2>4, <2>5, <2>6
<1> QED
  <2>1. \/ reader' = Idle /\ UNCHANGED row
        \/ /\ lock[t] = None
           /\ row' = [row EXCEPT ![t].ranged = TRUE,
                ![t].state = IF reader.state = "staged" /\ final THEN "downloaded" ELSE @]
           /\ reader' = [st |-> "committed", t |-> t, state |-> reader.state]
    BY DEF DownloadCommit
  <2>2. CASE reader.state = "staged" /\ final
    BY <1>3, <1>4, <2>1, <2>2
  <2>3. CASE ~(reader.state = "staged" /\ final)
    BY <1>1, <1>3, <1>4, <2>1, <2>3 DEF RowInv, Rows
  <2> QED
    BY <2>2, <2>3

LEMMA NextInv == TransferInv /\ [Next]_vars => TransferInv'
<1> SUFFICES ASSUME TransferInv, [Next]_vars PROVE TransferInv'
  OBVIOUS
<1>1. CASE (\E v \in Version \cup {NoFile} : Edit(v)) \/ Rehashed \/ AgentRestart
  BY <1>1, WorldStep
<1>2. CASE \E t \in Transfer, verify \in BOOLEAN : Initiate(t, verify) \/ Enqueue(t, verify)
  BY <1>2, InitiateStep
<1>3. CASE Upload \/ TimeOut
  BY <1>3, AttachStep, SendStep, UploadStops DEF Upload
<1>4. CASE \E h \in Call : Handle(h) \/ HandlerLost(h)
  BY <1>4, AttachLoadStep, AttachWriteStep, AppendRefusedStep, AppendOpenStep, AppendFailsStep,
     AppendCommitStep, HandlerLostStep DEF Handle
<1>5. CASE \E t \in Transfer : Lapse(t) \/ GraceLapse(t)
  BY <1>5, LapseStep
<1>6. CASE \E r \in {"sweep", "cancel"} :
             Reap(r) \/ ReapLost(r) \/ \E t \in Transfer : ReapLoad(r, t)
  BY <1>6, ReapLoadStep, ReapRemoveStep, ReapCommitStep DEF Reap
<1>7. CASE Download \/ \E t \in Transfer : DownloadLoad(t)
  BY <1>7, DownloadLoadStep, DownloadCommitStep DEF Download
<1>8. CASE UNCHANGED vars
  <2> USE <1>8 DEF vars, central, actors, item, history, TransferInv
  <2>1. RowInv' /\ ActorInv'
    BY DEF RowInv, ActorInv
  <2>2. LockInv' /\ VerifyInv' /\ ReaderInv'
    BY DEF LockInv, VerifyInv, ReaderInv, Agrees
  <2> QED
    BY <2>1, <2>2
<1> QED
  BY <1>1, <1>2, <1>3, <1>4, <1>5, <1>6, <1>7, <1>8 DEF Next

-----------------------------------------------------------------------------
(* The theorems. *)

\* The five parts of the invariant hold in every reachable state.
THEOREM TransferInvariance == Spec => []TransferInv
BY InitInv, NextInv, PTL DEF Spec

\* Rows, files, locks, handlers and actors keep their types, and an open append
\* handler and the row's lock go together (append_transfer).
THEOREM TransferTypes == Spec => []TypeOK
<1>1. TransferInv => TypeOK
  <2> SUFFICES ASSUME TransferInv PROVE TypeOK
    OBVIOUS
  <2> USE DEF TransferInv
  <2>1. ASSUME NEW t \in Transfer
        PROVE  /\ row[t].state \in {"none"} \cup Live \cup Over
               /\ row[t].bytes \in Nat /\ row[t].total \in Nat
               /\ cmd[t] \in {"none", "live", "ended"}
               /\ lock[t] \in Call \cup {None}
    BY DEF RowInv, Rows, States, ActorInv
  <2>2. ASSUME NEW t \in Transfer PROVE row[t].verified => row[t].verify /\ vouched[t] # None
    BY DEF VerifyInv
  <2>3. ASSUME NEW t \in Transfer PROVE Staged(disk[t])
    BY DEF RowInv, Files, Staged
  <2>4. ASSUME NEW t \in Transfer, NEW h \in Call
        PROVE  lock[t] = h <=> call[h].st = "open" /\ call[h].t = t
    BY DEF LockInv
  <2>5. /\ \A h \in Call : call[h].st \in {"idle", "attach", "retotal", "create", "sent", "open"}
        /\ up.st \in {"idle", "attach", "send", "wait"}
        /\ \A r \in DOMAIN reaper : reaper[r].st \in {"idle", "loaded", "removed"}
        /\ reader.st \in {"idle", "loaded", "committed"}
    BY Held DEF ActorInv, Idle
  <2>6. /\ source \in Version \cup {NoFile} /\ catalog \in Item /\ rehash \in BOOLEAN
        /\ edits \in 0..MaxEdits /\ faults \in 0..MaxFaults
    BY DEF ActorInv
  <2> QED
    BY <2>1, <2>2, <2>3, <2>4, <2>5, <2>6 DEF TypeOK
<1> QED
  BY <1>1, TransferInvariance, PTL

\* What a download sends is what the catalog described when the transfer was
\* verified, whatever was cancelled, swept, re-created or edited meanwhile
\* (download_transfer, _finalize_staged).
THEOREM DownloadsAreVerified == Spec => []ServedIsVerified
<1>1. TransferInv => ServedIsVerified
  <2> SUFFICES ASSUME TransferInv, reader.st = "committed", disk[reader.t] # NoFile
               PROVE  Agrees(disk[reader.t], vouched[reader.t])
    BY DEF ServedIsVerified, Agrees
  <2>1. reader # Idle /\ reader.t \in Transfer
    BY Held DEF Idle
  <2> QED
    BY <2>1 DEF TransferInv, ReaderInv, VerifyInv
<1> QED
  BY <1>1, TransferInvariance, PTL
=============================================================================
