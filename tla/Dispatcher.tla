---------------------------- MODULE Dispatcher -----------------------------
(***************************************************************************)
(* The Telegram outbox: notices of bans, which survive on disk until they  *)
(* are out, and observations (warning reports, messages with a key), which *)
(* live in memory and are sent at most once (telegram_bot/dispatcher.py,   *)
(* telegram_bot/send_message.py).                                          *)
(*                                                                         *)
(* Three kinds of tasks meet: the worker, which sends and reloads; the     *)
(* admission of each notice; and cancel_pending, which withdraws a notice. *)
(* They share the rows to persist and one lock around writing them. Daily  *)
(* reports, edits and deletions, which the worker sends too, are left out. *)
(***************************************************************************)
EXTENDS Integers, Sequences, FiniteSets

CONSTANTS
  Notices,       \* messages of priority CRITICAL, each with a cancel key of its own
  Chunks,        \* chunks a notice is split into
  Observations,  \* messages of lower priority, of one chunk
  Groups,        \* chats the operator may choose
  NoGroup, NoBatch,
  MaxRetries,    \* max_retries of an observation
  Disturbances   \* what the environment may do, see DisturbanceKinds

\* "crash"    the process dies and is restarted
\* "stop"     the process is shut down in order and started again
\* "disk"     a write raises, before or after its effect
\* "refused"  Telegram refuses a request for now
\* "lost"     a request fails with its effect unknown
\* "rejected" Telegram rejects a message for good
\* "late"     a warning report outlives its ttl
\* "cancel"   a user is enabled again and the notice withdrawn
\* "pause"    Topics are switched off and on
\* "group"    the operator chooses another chat
DisturbanceKinds == {"crash", "stop", "disk", "refused", "lost", "rejected", "late", "cancel", "pause", "group"}

ASSUME ConstantsAssumption ==
  /\ Chunks \in Nat \ {0}
  /\ Notices \cap Observations = {}
  /\ NoBatch \notin Notices \cup Observations
  /\ NoGroup \notin Groups /\ Groups # {}
  /\ MaxRetries \in Nat
  /\ Disturbances \subseteq DisturbanceKinds

Batches == Notices \cup Observations
Parts(b) == IF b \in Notices THEN {<<b, k>> : k \in 1..Chunks} ELSE {<<b, 1>>}
Items == UNION {Parts(b) : b \in Batches}
Critical == UNION {Parts(b) : b \in Notices}

VARIABLES
  what,        \* what each observation is: a "warning" report or "keyed"
  mem,         \* the QueueItem of each chunk
  batch,       \* SendBatch: "new", "live", "completed", or "gone" from _batches
  storage,     \* _pending_storage
  disk,        \* pending_notifications.json
  lockq,       \* tasks waiting for _persistence_lock
  io,          \* the write of the task that holds it
  adm,         \* notices whose admission is not yet durable
  dedup,       \* _dedup_batches, of the one message key
  newest,      \* _warning_reports, of the one scope
  unpersisted, \* _unpersisted_destinations
  tracked,     \* disable_messages.json: chunks with a receipt to delete by
  enabled,     \* topics manager: monitoring is on
  group,       \* topics manager: group_id
  work,        \* the worker
  canc,        \* the cancel_pending call in progress
  sent,        \* ghost: messages in the chat, per chunk, see Arrives
  accepted,    \* ghost: chunks whose admission succeeded
  asked,       \* ghost: chunks a cancel_pending call has marked
  withdrawn    \* ghost: chunks a cancel_pending call has reported as cancelled

fileVars == <<disk, lockq, io>>
batchVars == <<batch, dedup, newest>>
envVars == <<what, enabled, group>>
ghostVars == <<sent, accepted, asked, withdrawn>>
vars == <<envVars, mem, storage, fileVars, batchVars, adm, unpersisted, tracked, work, canc, ghostVars>>

May(d) == d \in Disturbances

Blank == [st |-> "absent", reg |-> FALSE, q |-> FALSE, fut |-> FALSE, tries |-> 0,
          own |-> FALSE, sup |-> FALSE, old |-> FALSE, moved |-> FALSE, chat |-> NoGroup]
NoRow == [status |-> "none", chat |-> NoGroup]
NoRows == [i \in Critical |-> NoRow]
NoWrite == [by |-> "nobody", data |-> NoRows, res |-> "run"]
NoItem == <<NoBatch, 1>>
Resting == [pc |-> "idle", item |-> NoItem, rows |-> NoRows, todo |-> {}, ready |-> {}, gone |-> NoRows]
Starting == [Resting EXCEPT !.pc = "start"]
Unasked == [pc |-> "idle", item |-> NoItem, todo |-> {}, did |-> {}, gone |-> NoRows]

\* Some messages are yet to come. Some notices may be on disk already, written
\* by an older version without a chat.
Init ==
  /\ what \in [Observations -> {"warning", "keyed"}]
  /\ mem = [i \in Items |-> Blank]
  /\ \E coming \in SUBSET Batches, legacy \in SUBSET Notices :
       /\ coming \cap legacy = {}
       /\ disk = [i \in Critical |-> IF i[1] \in legacy THEN [NoRow EXCEPT !.status = "pending"] ELSE NoRow]
       /\ batch = [b \in Batches |-> IF b \in coming THEN "new" ELSE "gone"]
       /\ accepted = UNION {Parts(b) : b \in legacy}
  /\ storage = disk
  /\ lockq = <<>> /\ io = NoWrite /\ adm = {}
  /\ dedup = NoBatch /\ newest = NoBatch
  /\ unpersisted = {} /\ tracked = {}
  /\ enabled = TRUE
  /\ group \in Groups \cup {NoGroup}
  /\ work = Starting /\ canc = Unasked
  /\ sent = [i \in Items |-> 0]
  /\ asked = {} /\ withdrawn = {}

---------------------------------------------------------------------------
(* _save_pending_storage.                                                  *)

\* _record
Row(rec) ==
  [status |-> IF rec.st \in {"queued", "preparing", "sending"} THEN "pending" ELSE rec.st, chat |-> rec.chat]

\* Only its own admission writes a reservation that is not yet durable.
Snapshot(t, rows) ==
  [i \in Critical |-> IF i[1] \in adm /\ i[1] # t /\ batch[i[1]] # "gone" THEN NoRow ELSE rows[i]]

\* Task t, which may hold the lock, asks for a save of the rows: the snapshot
\* is taken at once when nobody waits.
Save(t, rows) ==
  IF lockq = <<>> /\ io.by \in {"nobody", t}
  THEN io' = [by |-> t, data |-> Snapshot(t, rows), res |-> "run"] /\ UNCHANGED lockq
  ELSE /\ lockq' = Append(lockq, t)
       /\ io' = IF io.by = t THEN NoWrite ELSE io

\* Task t, which may hold the lock, has nothing more to save.
Unlock(t) == io' = (IF io.by = t THEN NoWrite ELSE io) /\ UNCHANGED lockq

TakeLock ==
  /\ io = NoWrite
  /\ lockq # <<>>
  /\ io' = [by |-> Head(lockq), data |-> Snapshot(Head(lockq), storage), res |-> "run"]
  /\ lockq' = Tail(lockq)
  /\ UNCHANGED <<envVars, mem, storage, disk, batchVars, adm, unpersisted, tracked, work, canc, ghostVars>>

\* atomic_write_json: it may raise after the file was replaced.
WriteEnds ==
  /\ io.by # "nobody"
  /\ io.res = "run"
  /\ \/ io' = [io EXCEPT !.res = "ok"] /\ disk' = io.data
     \/ May("disk") /\ io' = [io EXCEPT !.res = "error"] /\ disk' \in {disk, io.data}
  /\ UNCHANGED <<envVars, mem, storage, lockq, batchVars, adm, unpersisted, tracked, work, canc, ghostVars>>

Saved(t) == io.by = t /\ io.res = "ok"
SaveFailed(t) == io.by = t /\ io.res = "error"

---------------------------------------------------------------------------
(* _finish and _settle_batch, of the worker or of cancel_pending.          *)

Delivered(b, m) == \A p \in Parts(b) : m[p].st = "delivered"

\* Every chunk is in the batch and its future is done.
AllDone(b, m) == batch[b] # "gone" /\ \A p \in Parts(b) : m[p].own /\ m[p].fut

\* A failed notice stays registered for a later reload or withdrawal.
Release(i, rec) == [rec EXCEPT !.reg = i \in Critical /\ rec.st = "failed"]

\* The end of _settle_batch: what was sent, or may have been, keeps its key.
Settled(b, m) ==
  LET keeps == dedup = b /\ (Delivered(b, m) \/ \E p \in Parts(b) : m[p].st = "uncertain")
  IN /\ batch' = [batch EXCEPT ![b] = IF keeps THEN "completed" ELSE "gone"]
     /\ dedup' = IF dedup = b /\ ~keeps THEN NoBatch ELSE dedup
     /\ newest' = IF newest = b THEN NoBatch ELSE newest

\* MUTANT: what failed is forgotten with the rest.
Removable_Failed(i, m) == IF i \in Critical /\ AllDone(i[1], m) THEN Parts(i[1]) ELSE {}

\* The rows that can go: those of a batch all of whose chunks are finished,
\* except the failed ones.
Removable(i, m) ==
  IF i \in Critical /\ AllDone(i[1], m) THEN {p \in Parts(i[1]) : m[p].st # "failed"} ELSE {}

Done(i, rec) == [mem EXCEPT ![i] = [rec EXCEPT !.fut = TRUE]]

\* The rows that finishing item i, now rec, removes.
GoneRows(i, rec) == [p \in Critical |-> IF p \in Removable(i, Done(i, rec)) THEN storage[p] ELSE NoRow]

\* Item i, now rec, is finished by task t. The removal of rows is saved first,
\* for which the task waits; when there are none it goes on.
Finish(t, i, rec, wait, next) ==
  LET m == Done(i, rec)
      left == [p \in Critical |-> IF p \in Removable(i, m) THEN NoRow ELSE storage[p]]
  IN /\ storage' = left
     /\ IF GoneRows(i, rec) # NoRows
        THEN /\ mem' = m
             /\ batch' = [batch EXCEPT ![i[1]] = "completed"]
             /\ Save(t, left)
             /\ wait
             /\ UNCHANGED <<dedup, newest>>
        ELSE /\ mem' = [m EXCEPT ![i] = Release(i, @)]
             /\ IF AllDone(i[1], m) THEN Settled(i[1], m) ELSE UNCHANGED batchVars
             /\ Unlock(t)
             /\ next

\* The removal is durable.
FinishSettled(t, i) ==
  /\ Saved(t)
  /\ Settled(i[1], mem)
  /\ mem' = [mem EXCEPT ![i] = Release(i, @)]
  /\ Unlock(t)
  /\ UNCHANGED storage

\* It is not: the rows come back, and the error goes up.
FinishFailed(t, gone) ==
  /\ SaveFailed(t)
  /\ storage' = [p \in Critical |-> IF gone[p] # NoRow THEN gone[p] ELSE storage[p]]
  /\ Unlock(t)
  /\ UNCHANGED <<mem, batchVars>>

---------------------------------------------------------------------------
(* _admit_send_batch.                                                      *)

Fresh == [Blank EXCEPT !.st = "queued", !.reg = TRUE, !.own = TRUE, !.chat = group]

\* A notice is reserved and its admission asks for the first durable write.
AdmitNotice(b) ==
  LET rows == [i \in Critical |-> IF i[1] = b THEN Row(Fresh) ELSE storage[i]]
  IN /\ b \in Notices /\ batch[b] = "new"
     /\ enabled /\ group # NoGroup
     /\ batch' = [batch EXCEPT ![b] = "live"]
     /\ mem' = [i \in Items |-> IF i[1] = b THEN Fresh ELSE mem[i]]
     /\ storage' = rows
     /\ adm' = adm \cup {b}
     /\ Save(b, rows)
     /\ UNCHANGED <<envVars, disk, dedup, newest, unpersisted, tracked, work, canc, ghostVars>>

\* The write is published before the lock is released, and the chunks queued.
Admitted(b) ==
  /\ Saved(b)
  /\ adm' = adm \ {b}
  /\ mem' = [i \in Items |-> IF i[1] = b /\ b \in adm /\ mem[i].st # "cancelled"
                              THEN [mem[i] EXCEPT !.q = TRUE] ELSE mem[i]]
  /\ accepted' = accepted \cup Parts(b)
  /\ Unlock(b)
  /\ UNCHANGED <<envVars, storage, disk, batchVars, unpersisted, tracked, work, canc, sent, asked, withdrawn>>

\* The reservation is rolled back; the caller sees the error.
AdmitFails(b) ==
  /\ SaveFailed(b)
  /\ adm' = adm \ {b}
  /\ mem' = [i \in Items |->
       IF i[1] # b THEN mem[i]
       ELSE IF b \in adm THEN [mem[i] EXCEPT !.st = "cancelled", !.fut = TRUE, !.reg = FALSE]
       ELSE [mem[i] EXCEPT !.reg = FALSE]]
  /\ storage' = [i \in Critical |-> IF i[1] = b THEN NoRow ELSE storage[i]]
  /\ batch' = [batch EXCEPT ![b] = "gone"]
  /\ Unlock(b)
  /\ UNCHANGED <<envVars, disk, dedup, newest, unpersisted, tracked, work, canc, ghostVars>>

\* MUTANT: the key is not looked up.
AdmitKeyed_Always(b) ==
  /\ b \in Observations /\ what[b] = "keyed" /\ batch[b] = "new"
  /\ enabled /\ group # NoGroup
  /\ batch' = [batch EXCEPT ![b] = "live"]
  /\ dedup' = b
  /\ mem' = [mem EXCEPT ![<<b, 1>>] = [Fresh EXCEPT !.q = TRUE]]
  /\ UNCHANGED <<envVars, storage, fileVars, newest, adm, unpersisted, tracked, work, canc, ghostVars>>

\* A message whose key is taken is the message that took it.
AdmitKeyed(b) ==
  /\ b \in Observations /\ what[b] = "keyed" /\ batch[b] = "new"
  /\ enabled /\ group # NoGroup
  /\ IF dedup # NoBatch
     THEN batch' = [batch EXCEPT ![b] = "gone"] /\ UNCHANGED <<mem, dedup>>
     ELSE /\ batch' = [batch EXCEPT ![b] = "live"]
          /\ dedup' = b
          /\ mem' = [mem EXCEPT ![<<b, 1>>] = [Fresh EXCEPT !.q = TRUE]]
  /\ UNCHANGED <<envVars, storage, fileVars, newest, adm, unpersisted, tracked, work, canc, ghostVars>>

\* MUTANT: only what still waits in the queue is retired.
Supersede_Queued(rec) ==
  IF rec.st = "queued" THEN [rec EXCEPT !.sup = TRUE, !.st = "cancelled", !.fut = TRUE, !.reg = FALSE] ELSE rec

\* A queued report is finished at once, one being sent only not tried again.
Supersede(rec) ==
  IF rec.st \in {"queued", "preparing"}
  THEN [rec EXCEPT !.sup = TRUE, !.st = "cancelled", !.fut = TRUE, !.reg = FALSE]
  ELSE [rec EXCEPT !.sup = TRUE]

\* A warning report retires the previous one; an empty report only does that.
AdmitWarning(b, empty) ==
  LET before == [i \in Items |-> IF i[1] = newest THEN Supersede(mem[i]) ELSE mem[i]]
      retired == newest # NoBatch /\ before[<<newest, 1>>].st = "cancelled"
  IN /\ b \in Observations /\ what[b] = "warning" /\ batch[b] = "new"
     /\ enabled /\ group # NoGroup
     /\ batch' = [c \in Batches |-> IF c = b THEN (IF empty THEN "gone" ELSE "live")
                                    ELSE IF c = newest /\ retired THEN "gone" ELSE batch[c]]
     /\ mem' = IF empty THEN before ELSE [before EXCEPT ![<<b, 1>>] = [Fresh EXCEPT !.q = TRUE]]
     /\ newest' = IF empty THEN NoBatch ELSE b
     /\ UNCHANGED <<envVars, storage, fileVars, dedup, adm, unpersisted, tracked, work, canc, ghostVars>>
---------------------------------------------------------------------------
(* start_worker.                                                           *)

frameW == <<envVars, disk, adm, canc, accepted, asked, withdrawn>>

\* The item of the worker, now rec, is finished; the worker goes back to pc.
WorkFinish(i, rec, pc) ==
  Finish("worker", i, rec,
         work' = [work EXCEPT !.pc = "settle", !.item = i, !.gone = GoneRows(i, rec), !.todo = @ \ {i}],
         work' = IF pc = "idle" THEN Resting ELSE [work EXCEPT !.pc = pc, !.todo = @ \ {i}])

Urgency(i) == IF i \in Critical THEN 1 ELSE IF what[i[1]] = "warning" THEN 2 ELSE 3

\* _observation_obsolete
Obsolete(i) == i \notin Critical /\ (mem[i].sup \/ mem[i].old \/ ~enabled)

\* The row of a notice is written with its new state before anything else.
Record(i, rec, pc) ==
  LET rows == [storage EXCEPT ![i] = Row(rec)]
  IN /\ mem' = [mem EXCEPT ![i] = rec]
     /\ storage' = rows
     /\ Save("worker", rows)
     /\ work' = [work EXCEPT !.pc = pc, !.item = i]
     /\ UNCHANGED batchVars

Get(i) ==
  LET rec == [mem[i] EXCEPT !.q = FALSE]
  IN /\ work.pc = "idle"
     /\ mem[i].q
     /\ \A j \in Items : mem[j].q => Urgency(i) <= Urgency(j)
     /\ CASE rec.st \in {"cancelled", "uncertain", "failed"} -> WorkFinish(i, rec, "idle")
          [] rec.st = "delivered" -> Record(i, rec, "savedone")
          [] rec.st \notin {"cancelled", "uncertain", "failed", "delivered"} /\ Obsolete(i) ->
               WorkFinish(i, [rec EXCEPT !.st = "cancelled"], "idle")
          [] OTHER -> /\ mem' = [mem EXCEPT ![i] = [rec EXCEPT !.st = "preparing"]]
                      /\ work' = [work EXCEPT !.pc = "prepare", !.item = i]
                      /\ UNCHANGED <<storage, io, lockq, batchVars>>
     /\ UNCHANGED <<frameW, unpersisted, tracked, sent>>

\* The bucket has let the item pass: it is checked again and goes out.
Prepare ==
  LET i == work.item
      rec == mem[i]
      warning == i \notin Critical /\ what[i[1]] = "warning"
  IN /\ work.pc = "prepare"
     /\ \/ /\ Obsolete(i) \/ rec.st = "cancelled"
           /\ WorkFinish(i, [rec EXCEPT !.st = "cancelled"], "idle")
        \/ /\ ~Obsolete(i) /\ rec.st # "cancelled"
           /\ May("late") /\ warning
           /\ WorkFinish(i, [rec EXCEPT !.st = "failed"], "idle")
        \/ /\ ~Obsolete(i) /\ rec.st # "cancelled"
           /\ mem' = [mem EXCEPT ![i].st = "sending"]
           /\ work' = [work EXCEPT !.pc = "transport"]
           /\ UNCHANGED <<storage, io, lockq, batchVars>>
     /\ UNCHANGED <<frameW, unpersisted, tracked, sent>>

\* sent counts what an observation needs to be seen twice.
Arrives(i) == sent' = [sent EXCEPT ![i] = IF i \in Critical \/ @ = 0 THEN 1 ELSE 2]

\* _retry: a notice is tried for ever (its retry_count is not kept).
Retry(i) ==
  LET rec == [mem[i] EXCEPT !.st = "queued", !.tries = IF i \in Critical THEN @ ELSE @ + 1]
  IN IF mem[i].sup THEN WorkFinish(i, [mem[i] EXCEPT !.st = "cancelled"], "idle")
     ELSE IF rec.tries > MaxRetries THEN WorkFinish(i, [mem[i] EXCEPT !.st = "failed"], "idle")
     ELSE /\ mem' = [mem EXCEPT ![i] = rec]
          /\ work' = [work EXCEPT !.pc = "backoff"]
          /\ UNCHANGED <<storage, io, lockq, batchVars>>

\* _execute_item answered: the state is changed before anyone else runs.
TransportDelivered ==
  LET i == work.item
      rec == [mem[i] EXCEPT !.st = "delivered"]
  IN /\ work.pc = "transport"
     /\ Arrives(i)
     /\ IF i \in Critical THEN Record(i, rec, "savedone") ELSE WorkFinish(i, rec, "idle")
     /\ UNCHANGED <<frameW, unpersisted, tracked>>

\* MUTANT: an observation of unknown fate is tried again.
TransportLost_Again ==
  /\ work.pc = "transport"
  /\ May("lost")
  /\ Arrives(work.item) \/ UNCHANGED sent
  /\ Retry(work.item)
  /\ UNCHANGED <<frameW, unpersisted, tracked>>

\* Nobody knows whether it arrived: a notice is tried again, an observation not.
TransportLost ==
  LET i == work.item
  IN /\ work.pc = "transport"
     /\ May("lost")
     /\ Arrives(i) \/ UNCHANGED sent
     /\ IF i \in Critical THEN Retry(i) ELSE WorkFinish(i, [mem[i] EXCEPT !.st = "uncertain"], "idle")
     /\ UNCHANGED <<frameW, unpersisted, tracked>>

\* RetryAfter, missing permissions, a connection that never came about.
TransportRefused ==
  /\ work.pc = "transport"
  /\ May("refused")
  /\ Retry(work.item)
  /\ UNCHANGED <<frameW, unpersisted, tracked, sent>>

TransportRejected ==
  LET i == work.item
      rec == [mem[i] EXCEPT !.st = "failed"]
  IN /\ work.pc = "transport"
     /\ May("rejected")
     /\ IF i \in Critical THEN Record(i, rec, "savefail") ELSE WorkFinish(i, rec, "idle")
     /\ UNCHANGED <<frameW, unpersisted, tracked, sent>>

BackoffEnds ==
  /\ work.pc = "backoff"
  /\ mem' = [mem EXCEPT ![work.item].q = @ \/ mem[work.item].st # "cancelled"]
  /\ work' = Resting
  /\ UNCHANGED <<frameW, storage, io, lockq, batchVars, unpersisted, tracked, sent>>

\* _complete_delivery and the failed branch, after their save.
RecordSaved ==
  /\ \/ /\ work.pc = "savedone" /\ Saved("worker")
        /\ work' = [work EXCEPT !.pc = "track"]
        /\ Unlock("worker")
        /\ UNCHANGED <<mem, storage, batchVars>>
     \/ /\ work.pc = "savefail" /\ Saved("worker")
        /\ WorkFinish(work.item, mem[work.item], "idle")
     \/ /\ work.pc \in {"savedone", "savefail"} /\ SaveFailed("worker")
        /\ work' = [work EXCEPT !.pc = "error"]
        /\ Unlock("worker")
        /\ UNCHANGED <<mem, storage, batchVars>>
  /\ UNCHANGED <<frameW, unpersisted, tracked, sent>>

\* MUTANT: a receipt that could not be tracked is given up.
Track_Once ==
  /\ work.pc = "track"
  /\ \/ tracked' = tracked \cup {work.item}
     \/ May("disk") /\ UNCHANGED tracked
  /\ WorkFinish(work.item, mem[work.item], "idle")
  /\ UNCHANGED <<frameW, unpersisted, sent>>

\* track_disable_message
Track ==
  /\ work.pc = "track"
  /\ \/ /\ tracked' = tracked \cup {work.item}
        /\ WorkFinish(work.item, mem[work.item], "idle")
     \/ /\ May("disk")
        /\ tracked' \in {tracked, tracked \cup {work.item}}
        /\ work' = [work EXCEPT !.pc = "error"]
        /\ UNCHANGED <<mem, storage, io, lockq, batchVars>>
  /\ UNCHANGED <<frameW, unpersisted, sent>>

\* _finish resumes after its save. An error in the loop goes to the handler, in
\* a reload it ends the worker, which is started again.
WorkSettled ==
  LET reloading == work.rows # NoRows
  IN /\ work.pc = "settle"
     /\ \/ /\ FinishSettled("worker", work.item)
           /\ work' = IF reloading THEN [work EXCEPT !.pc = "row", !.item = NoItem, !.gone = NoRows] ELSE Resting
        \/ /\ FinishFailed("worker", work.gone)
           /\ work' = IF reloading THEN Starting ELSE [work EXCEPT !.pc = "error", !.gone = NoRows]
     /\ UNCHANGED <<frameW, unpersisted, tracked, sent>>

\* Whatever could not be completed is queued as it is.
Requeue ==
  /\ work.pc = "error"
  /\ mem' = [mem EXCEPT ![work.item].q = TRUE]
  /\ work' = Resting
  /\ UNCHANGED <<frameW, storage, io, lockq, batchVars, unpersisted, tracked, sent>>

---------------------------------------------------------------------------
(* reload_pending_critical_messages. Its loop runs without giving way to   *)
(* other tasks except where _finish saves.                                 *)

Reload ==
  /\ work.pc = "start" \/ (work.pc = "idle" /\ \A i \in Items : ~mem[i].q)
  /\ work' = [Resting EXCEPT !.pc = "row", !.rows = storage, !.todo = {i \in Critical : storage[i] # NoRow}]
  /\ UNCHANGED <<frameW, mem, storage, io, lockq, batchVars, unpersisted, tracked, sent>>

\* MUTANT: every row is taken for one to be sent.
Recreate_Afresh(i) ==
  LET rec == [Blank EXCEPT !.st = "queued", !.reg = TRUE, !.own = TRUE, !.q = mem[i].q, !.chat = work.rows[i].chat]
  IN /\ work.pc = "row" /\ i \in work.todo
     /\ ~mem[i].reg
     /\ mem' = [p \in Items |-> IF p = i THEN rec
                                ELSE IF p[1] = i[1] /\ batch[i[1]] = "gone" THEN [mem[p] EXCEPT !.own = FALSE]
                                ELSE mem[p]]
     /\ batch' = [batch EXCEPT ![i[1]] = IF @ = "gone" THEN "live" ELSE @]
     /\ adm' = IF batch[i[1]] = "gone" THEN adm \ {i[1]} ELSE adm
     /\ UNCHANGED <<envVars, disk, canc, accepted, asked, withdrawn, storage, io, lockq, dedup, newest, work,
                    unpersisted, tracked, sent>>

\* A row without an item gets one, made of the row as it was read.
Recreate(i) ==
  LET row == work.rows[i]
      rec == [Blank EXCEPT !.st = IF row.status = "pending" THEN "queued" ELSE row.status,
                           !.reg = TRUE, !.own = TRUE, !.q = mem[i].q, !.chat = row.chat]
      b == i[1]
  IN /\ work.pc = "row" /\ i \in work.todo
     /\ ~mem[i].reg
     /\ mem' = [p \in Items |-> IF p = i THEN rec
                                ELSE IF p[1] = b /\ batch[b] = "gone" THEN [mem[p] EXCEPT !.own = FALSE]
                                ELSE mem[p]]
     /\ batch' = [batch EXCEPT ![b] = IF @ = "gone" THEN "live" ELSE @]
     /\ adm' = IF batch[b] = "gone" THEN adm \ {b} ELSE adm
     /\ UNCHANGED <<envVars, disk, canc, accepted, asked, withdrawn, storage, io, lockq, dedup, newest, work,
                    unpersisted, tracked, sent>>

\* Reservations, queued items and items without a chat are passed over; what
\* failed or was cancelled is finished; the rest is pinned and made ready.
ReloadRow(i) ==
  LET rec == mem[i]
      pinned == [rec EXCEPT !.chat = group]
      skip == \/ i[1] \in adm
              \/ rec.st \notin {"failed", "cancelled"} /\ (rec.q \/ (rec.chat = NoGroup /\ group = NoGroup))
  IN /\ work.pc = "row" /\ i \in work.todo
     /\ rec.reg
     /\ \/ /\ skip
           /\ work' = [work EXCEPT !.todo = @ \ {i}]
           /\ UNCHANGED <<mem, storage, io, lockq, batchVars, unpersisted>>
        \/ /\ ~skip /\ rec.st \in {"failed", "cancelled"}
           /\ WorkFinish(i, rec, "row")
           /\ UNCHANGED unpersisted
        \/ /\ ~skip /\ rec.st \notin {"failed", "cancelled"}
           /\ work' = [work EXCEPT !.todo = @ \ {i}, !.ready = @ \cup {i}]
           /\ IF rec.chat # NoGroup THEN UNCHANGED <<mem, storage, unpersisted>>
              ELSE /\ mem' = [mem EXCEPT ![i] = pinned]
                   /\ storage' = [storage EXCEPT ![i] = Row(pinned)]
                   /\ unpersisted' = unpersisted \cup {i}
           /\ UNCHANGED <<io, lockq, batchVars>>
     /\ UNCHANGED <<frameW, tracked, sent>>

QueueReady == [i \in Items |-> IF i \in work.ready THEN [mem[i] EXCEPT !.q = TRUE] ELSE mem[i]]

\* MUTANT: only what this very reload has pinned is written first.
ReloadEnds_Changed ==
  /\ work.pc = "row" /\ work.todo = {}
  /\ IF \E i \in work.ready : work.rows[i].chat = NoGroup
     THEN Save("worker", storage) /\ work' = [work EXCEPT !.pc = "pin"] /\ UNCHANGED mem
     ELSE mem' = QueueReady /\ work' = Resting /\ UNCHANGED <<io, lockq>>
  /\ UNCHANGED <<frameW, storage, batchVars, unpersisted, tracked, sent>>

\* A chat that is not yet on disk is written before anything is queued.
ReloadEnds ==
  /\ work.pc = "row" /\ work.todo = {}
  /\ IF unpersisted # {}
     THEN Save("worker", storage) /\ work' = [work EXCEPT !.pc = "pin"] /\ UNCHANGED mem
     ELSE mem' = QueueReady /\ work' = Resting /\ UNCHANGED <<io, lockq>>
  /\ UNCHANGED <<frameW, storage, batchVars, unpersisted, tracked, sent>>

Pinned ==
  /\ work.pc = "pin"
  /\ \/ Saved("worker") /\ mem' = QueueReady /\ unpersisted' = {} /\ work' = Resting
     \/ SaveFailed("worker") /\ work' = Starting /\ UNCHANGED <<mem, unpersisted>>
  /\ Unlock("worker")
  /\ UNCHANGED <<frameW, storage, batchVars, tracked, sent>>

---------------------------------------------------------------------------
(* cancel_pending, one call at a time.                                     *)

frameC == <<envVars, disk, adm, unpersisted, tracked, work, sent, accepted>>

CancelStart(b) ==
  LET live == {i \in Parts(b) : mem[i].reg}
  IN /\ May("cancel") /\ canc.pc = "idle"
     /\ b \in Notices /\ live # {}
     /\ canc' = [Unasked EXCEPT !.pc = "next", !.todo = live]
     /\ UNCHANGED <<frameC, mem, storage, io, lockq, batchVars, asked, withdrawn>>

CancelFinish(i, rec) ==
  Finish("canc", i, rec,
         canc' = [canc EXCEPT !.pc = "settle", !.item = i, !.gone = GoneRows(i, rec)],
         canc' = [canc EXCEPT !.pc = "next", !.item = NoItem, !.did = @ \cup {i}])

\* An attempt under way is waited for, and a delivered chunk's completion;
\* any other chunk is cancelled, on disk first.
CancelNext(i) ==
  LET rec == [mem[i] EXCEPT !.st = "cancelled"]
      rows == [storage EXCEPT ![i] = Row(rec)]
  IN /\ canc.pc = "next" /\ i \in canc.todo
     /\ \A j \in canc.todo : i[2] <= j[2]
     /\ mem[i].st # "sending"
     /\ IF mem[i].st = "delivered"
        THEN /\ mem[i].fut
             /\ canc' = [canc EXCEPT !.todo = @ \ {i}]
             /\ UNCHANGED <<mem, storage, io, lockq, asked>>
        ELSE /\ mem' = [mem EXCEPT ![i] = rec]
             /\ storage' = rows
             /\ Save("canc", rows)
             /\ canc' = [canc EXCEPT !.pc = "saving", !.item = i, !.todo = @ \ {i}]
             /\ asked' = asked \cup {i}
     /\ UNCHANGED <<frameC, batchVars, withdrawn>>

\* An error leaves the call.
CancelSaved ==
  /\ \/ canc.pc = "saving" /\ Saved("canc") /\ CancelFinish(canc.item, mem[canc.item])
     \/ /\ canc.pc = "saving" /\ SaveFailed("canc")
        /\ canc' = Unasked
        /\ Unlock("canc")
        /\ UNCHANGED <<mem, storage, batchVars>>
     \/ /\ canc.pc = "settle" /\ FinishSettled("canc", canc.item)
        /\ canc' = [canc EXCEPT !.pc = "next", !.item = NoItem, !.gone = NoRows, !.did = @ \cup {canc.item}]
     \/ canc.pc = "settle" /\ FinishFailed("canc", canc.gone) /\ canc' = Unasked
  /\ UNCHANGED <<frameC, asked, withdrawn>>

CancelEnds ==
  /\ canc.pc = "next" /\ canc.todo = {}
  /\ withdrawn' = withdrawn \cup canc.did
  /\ canc' = Unasked
  /\ UNCHANGED <<frameC, mem, storage, io, lockq, batchVars, asked>>

---------------------------------------------------------------------------
(* The operator, through the topics manager, and the end of the process.   *)

frameE == <<what, storage, fileVars, batch, adm, unpersisted, tracked, work, canc, ghostVars>>

\* set_enabled: switching off starts a new monitoring revision.
Toggle ==
  /\ May("pause")
  /\ enabled' = ~enabled
  /\ IF enabled
     THEN /\ mem' = [i \in Items |-> IF i \in Critical \/ mem[i] = Blank THEN mem[i] ELSE [mem[i] EXCEPT !.old = TRUE]]
          /\ dedup' = NoBatch /\ newest' = NoBatch
     ELSE UNCHANGED <<mem, dedup, newest>>
  /\ UNCHANGED <<frameE, group>>

\* set_group_id: another destination is another scope for keys and reports.
ChooseGroup(g) ==
  /\ May("group") /\ g # group
  /\ group' = g
  /\ mem' = [i \in Items |-> IF i \in Critical \/ mem[i] = Blank THEN mem[i] ELSE [mem[i] EXCEPT !.moved = TRUE]]
  /\ dedup' = NoBatch /\ newest' = NoBatch
  /\ UNCHANGED <<frameE, enabled>>

\* The process ends, with a request perhaps on its way, and starts again.
Restart ==
  /\ mem' = [i \in Items |-> Blank]
  /\ batch' = [b \in Batches |-> IF batch[b] = "new" THEN "new" ELSE "gone"]
  /\ lockq' = <<>> /\ io' = NoWrite /\ adm' = {}
  /\ storage' = disk'
  /\ dedup' = NoBatch /\ newest' = NoBatch
  /\ unpersisted' = {}
  /\ work' = Starting /\ canc' = Unasked
  /\ UNCHANGED sent \/ (work.pc = "transport" /\ Arrives(work.item))
  /\ UNCHANGED <<envVars, tracked, accepted, asked, withdrawn>>

Crash == May("crash") /\ UNCHANGED disk /\ Restart

\* stop: admissions are waited for, the worker is cancelled, and what is pending saved.
Stop ==
  /\ May("stop") /\ adm = {} /\ io = NoWrite /\ lockq = <<>>
  /\ disk' = storage \/ (May("disk") /\ UNCHANGED disk)
  /\ Restart

---------------------------------------------------------------------------
Worker ==
  \/ \E i \in Items : Get(i)
  \/ Prepare \/ TransportDelivered \/ TransportLost \/ TransportRefused \/ TransportRejected
  \/ BackoffEnds \/ RecordSaved \/ Track \/ WorkSettled \/ Requeue \/ Reload \/ Pinned

Others ==
  \/ TakeLock \/ WriteEnds
  \/ \E b \in Batches : AdmitNotice(b) \/ Admitted(b) \/ AdmitFails(b) \/ AdmitKeyed(b)
  \/ \E b \in Batches, empty \in BOOLEAN : AdmitWarning(b, empty)
  \/ \E b \in Notices : CancelStart(b)
  \/ \E i \in Critical : CancelNext(i)
  \/ CancelSaved \/ CancelEnds
  \/ Toggle \/ Crash \/ Stop
  \/ \E g \in Groups : ChooseGroup(g)

Next ==
  \/ \E i \in Critical : Recreate(i) \/ ReloadRow(i)
  \/ ReloadEnds
  \/ work.pc # "row" /\ (Worker \/ Others)

Spec == Init /\ [][Next]_vars
---------------------------------------------------------------------------

\* NoticeKept: an accepted notice is on disk until it has been sent or someone
\* has asked to withdraw it, through crashes and failing writes.
NoticeKept == \A i \in accepted : disk[i].status = "none" => sent[i] > 0 \/ i \in asked

\* ObservationOnce: an observation is never in the chat twice, nor are two
\* messages with one key admitted for one destination and monitoring period.
ObservationOnce ==
  LET current == {b \in Observations : what[b] = "keyed" /\ mem[<<b, 1>>].st # "absent"
                                         /\ ~mem[<<b, 1>>].old /\ ~mem[<<b, 1>>].moved}
  IN /\ \A b \in Observations : sent[<<b, 1>>] <= 1
     /\ Cardinality({b \in current : sent[<<b, 1>>] > 0}) <= 1

\* The row of a delivered notice leaves the disk only after its receipt is tracked,
\* so that the message can be deleted later.
ReceiptKept == \A i \in Critical : disk[i].status = "delivered" /\ disk'[i].status # "delivered" => i \in tracked

Starts(i) == work.pc # "transport" /\ work'.pc = "transport" /\ work'.item = i

\* A chunk whose receipt is tracked, or which a cancel_pending call has reported as
\* cancelled, is never sent again, even after a restart.
NotAgain == \A i \in Critical : Starts(i) => i \notin tracked \cup withdrawn

\* A notice goes to the chat its row on disk names, so that a restart cannot send it
\* to another.
AsRecorded == \A i \in Critical : Starts(i) => disk[i].chat = mem[i].chat

\* A warning report goes out only while it is the newest of its scope.
NewestFirst == \A b \in Observations : Starts(<<b, 1>>) /\ what[b] = "warning" => newest = b \/ mem[<<b, 1>>].moved

\* SentWhereRecorded: nothing is sent but what the disk says, where it says.
SentWhereRecorded == [][AsRecorded]_vars

\* SendsRight: whatever is sent is due, for the first time, to the right chat, and
\* what has been sent is remembered.
SendsRight == [][NotAgain /\ ObservationOnce' /\ AsRecorded /\ NewestFirst /\ ReceiptKept]_vars
=============================================================================
