--------------------------- MODULE ServicesProofs ---------------------------
(***************************************************************************)
(* What holds of the services of MCServices for every value of the         *)
(* constants: the outbox (Dispatcher), the notifications of Mirza Bot (M), *)
(* backups (K) and the forum's topics (T).                                 *)
(*                                                                         *)
(* No accepted notice is lost, for any number of notices and chunks and    *)
(* whatever fails: until it has been sent or someone has asked to withdraw *)
(* it, its row is in the file, and in everything that may be written to it *)
(* next.                                                                   *)
(*                                                                         *)
(* No observation is in the chat twice, nor two messages with one key for  *)
(* one destination and monitoring period, and a warning report goes out    *)
(* only while it is the newest.                                            *)
(***************************************************************************)
EXTENDS MCServices, FiniteSetTheorems, TLAPS

---------------------------------------------------------------------------
(* The outbox.                                                             *)

\* The tasks that write are not named like a message.
TasksApart == {"nobody", "worker", "canc"} \cap Batches = {}

States == {"none", "pending", "absent", "queued", "preparing", "sending",
           "delivered", "failed", "cancelled", "uncertain"}
Chats == Groups \cup {NoGroup}
Tasks == Notices \cup {"worker", "canc"}

ItemRecords == [st : States, reg : BOOLEAN, q : BOOLEAN, fut : BOOLEAN, tries : Nat,
                own : BOOLEAN, sup : BOOLEAN, old : BOOLEAN, moved : BOOLEAN, chat : Chats]
Table == [Critical -> [status : States, chat : Chats]]

\* The worker has an item in hand.
Working == work.pc \in {"prepare", "transport", "backoff", "savedone", "savefail", "track", "settle", "error"}
Cancelling == canc.pc \in {"saving", "settle"}

Writes == [by : Tasks \cup {"nobody"}, data : Table, res : {"run", "ok", "error"}]

TypeIo == lockq \in Seq(Tasks) /\ io \in Writes

WorkRecords == [pc : {"start", "idle", "prepare", "transport", "backoff", "savedone", "savefail", "track",
                      "settle", "error", "row", "pin"},
                item : Items \cup {NoItem}, rows : Table, todo : SUBSET Critical, ready : SUBSET Critical,
                gone : Table]
CancRecords == [pc : {"idle", "next", "saving", "settle"}, item : Critical \cup {NoItem},
                todo : SUBSET Critical, did : SUBSET Critical, gone : Table]

TypeHere ==
  /\ mem \in [Items -> ItemRecords]
  /\ batch \in [Batches -> {"new", "live", "completed", "gone"}]
  /\ storage \in Table /\ disk \in Table
  /\ adm \subseteq Notices
  /\ newest \in Observations \cup {NoBatch}
  /\ group \in Chats
  /\ work \in WorkRecords /\ canc \in CancRecords
  /\ sent \in [Items -> Nat]
  /\ accepted \subseteq Critical /\ asked \subseteq Critical
  /\ Working => work.item \in Items
  /\ Cancelling => canc.item \in asked

\* The state is well typed.
TypeOK == TypeIo /\ TypeHere

-----------------------------------------------------------------------------

\* The admission of a notice holds the lock or waits for it.
Awaited(b) == io.by = b \/ \E n \in 1..Len(lockq) : lockq[n] = b

\* An admission asks for the lock once, and until it has it the notice is not accepted.
Once ==
  /\ \A m, n \in 1..Len(lockq) : m # n /\ lockq[m] = lockq[n] => lockq[m] \notin Notices
  /\ io.by \in Notices => \A n \in 1..Len(lockq) : lockq[n] # io.by

QueueInv ==
  /\ Once
  /\ \A b \in adm : Awaited(b)
  /\ \A i \in Critical : Awaited(i[1]) => i \notin accepted

\* Of a notice that is still to come there is nothing anywhere.
NewHere(i) ==
  /\ mem[i] = Blank /\ storage[i] = NoRow
  /\ work.item # i /\ i \notin work.todo \cup work.ready /\ work.gone[i] = NoRow
  /\ canc.item # i /\ i \notin canc.todo /\ canc.gone[i] = NoRow

NewOnDisk(i) == disk[i] = NoRow /\ io.data[i] = NoRow /\ i \notin accepted /\ ~Awaited(i[1])

\* A chunk that has been accepted, or will be when the write of its admission succeeds, and
\* has neither been sent nor asked back.
Owed(i) == (i \in accepted \/ Awaited(i[1])) /\ sent[i] = 0 /\ i \notin asked

\* The states of its item and of its row.
Waiting == {"absent", "queued", "preparing", "sending", "failed"}
Kept == {"absent", "pending", "failed"}

\* Its item is not finished unless it failed, and nobody is about to drop its row.
OwedHere(i) ==
  /\ storage[i].status \in Kept
  /\ mem[i].st \in Waiting /\ (mem[i].fut => mem[i].st = "failed") /\ ~mem[i].sup /\ mem[i].tries = 0
  /\ i \in work.todo => work.rows[i].status \in Kept
  /\ work.gone[i] = NoRow /\ canc.gone[i] = NoRow /\ canc.item # i
  /\ work.item = i => /\ work.pc \notin {"savedone", "track"}
                      /\ work.pc = "savefail" => mem[i].st = "failed"
                      /\ work.pc \in {"prepare", "transport"} => ~mem[i].fut

\* The file has its row once it is accepted or the write has ended, and so has whatever is
\* being written.
OwedOnDisk(i) ==
  /\ i \in accepted \/ (io.by = i[1] /\ io.res = "ok") => disk[i].status \in Kept
  /\ (i \in accepted /\ io.by # "nobody") \/ io.by = i[1] => io.data[i].status \in Kept

NoticeInv ==
  /\ TypeOK
  /\ QueueInv
  /\ \A i \in Critical : batch[i[1]] = "new" => NewHere(i) /\ NewOnDisk(i)
  /\ \A i \in Critical : Owed(i) => OwedHere(i) /\ OwedOnDisk(i)

-----------------------------------------------------------------------------
(* Shapes.                                                                 *)

LEMMA ItemFacts ==
  ASSUME ConstantsAssumption
  PROVE  /\ \A i \in Critical : /\ i \in Items /\ i[1] \in Notices /\ i[1] \in Batches /\ i[1] \notin Observations
                                /\ i \in Parts(i[1])
         /\ \A b \in Notices : \A p \in Parts(b) : p \in Critical /\ p \in Items /\ p[1] = b
         /\ \A b \in Observations : /\ Parts(b) = {<<b, 1>>} /\ <<b, 1>> \in Items /\ <<b, 1>> \notin Critical
                                    /\ b \in Batches /\ b \notin Notices
         /\ \A i \in Items : i[1] \in Batches /\ (i \notin Critical => i[1] \in Observations)
         /\ \A i \in Items : \A p \in Parts(i[1]) : p \in Items /\ p[1] = i[1]
         /\ NoItem \notin Items /\ NoItem \notin Critical
         /\ NoBatch \notin Notices
  <1>1. \A b \in Notices : Parts(b) = {<<b, k>> : k \in 1..Chunks} /\ b \in Batches /\ b \notin Observations
    BY DEF ConstantsAssumption, Parts, Batches
  <1>2. \A b \in Observations : Parts(b) = {<<b, 1>>} /\ b \in Batches /\ b \notin Notices
    BY DEF ConstantsAssumption, Parts, Batches
  <1>3. \A b \in Notices : \A p \in Parts(b) : p \in Critical /\ p \in Items /\ p[1] = b
    BY <1>1 DEF Critical, Items
  <1>4. \A i \in Critical : i[1] \in Notices /\ i \in Parts(i[1])
    BY <1>1 DEF Critical
  <1>5. \A i \in Items : i[1] \in Batches /\ i \in Parts(i[1])
    BY <1>1, <1>2 DEF Items, Batches
  <1>6. \A b \in Observations : <<b, 1>> \in Items /\ <<b, 1>> \notin Critical
    BY <1>2, <1>4 DEF Items
  <1>7. \A i \in Items : i \notin Critical => i[1] \in Observations
    BY <1>3, <1>5 DEF Batches
  <1>8. \A b \in Batches : \A p \in Parts(b) : p \in Items /\ p[1] = b
    BY <1>2, <1>3, <1>6 DEF Batches
  <1>9. NoBatch \notin Batches
    BY DEF ConstantsAssumption, Batches
  <1>10. NoItem \notin Items /\ NoItem \notin Critical
    BY <1>1, <1>4, <1>5, <1>9 DEF NoItem
  <1>11. QED
    BY <1>1, <1>2, <1>3, <1>4, <1>5, <1>6, <1>7, <1>8, <1>9, <1>10 DEF Batches

LEMMA RowFacts ==
  /\ NoRow \in [status : States, chat : Chats] /\ NoRow.status = "none"
  /\ NoRows \in Table /\ \A i \in Critical : NoRows[i] = NoRow
  /\ NoWrite \in Writes /\ NoWrite.by = "nobody" /\ NoWrite.data = NoRows /\ NoWrite.res = "run"
  /\ Blank \in ItemRecords /\ Blank.st = "absent" /\ ~Blank.fut /\ ~Blank.sup /\ Blank.tries = 0
  /\ ~Blank.reg /\ ~Blank.q
  BY DEF NoRow, NoRows, NoWrite, Blank, Table, Writes, ItemRecords, States, Chats, Tasks

LEMMA RestFacts ==
  /\ Resting \in WorkRecords /\ Resting.pc = "idle" /\ Resting.item = NoItem /\ Resting.todo = {}
  /\ Resting.ready = {} /\ Resting.gone = NoRows /\ Resting.rows = NoRows
  /\ Starting \in WorkRecords /\ Starting.pc = "start" /\ Starting.item = NoItem /\ Starting.todo = {}
  /\ Starting.ready = {} /\ Starting.gone = NoRows /\ Starting.rows = NoRows
  /\ Unasked \in CancRecords /\ Unasked.pc = "idle" /\ Unasked.item = NoItem /\ Unasked.todo = {}
  /\ Unasked.gone = NoRows
  BY RowFacts DEF Resting, Starting, Unasked, WorkRecords, CancRecords

LEMMA RowOf ==
  ASSUME NEW rec \in ItemRecords
  PROVE  Row(rec) \in [status : States, chat : Chats] /\ (rec.st \in Waiting => Row(rec).status \in Kept)
  BY DEF Row, ItemRecords, States, Waiting, Kept

-----------------------------------------------------------------------------
(* The lock and the write in progress.                                     *)

LEMMA SnapshotFacts ==
  ASSUME NEW t, NEW R \in Table
  PROVE  /\ Snapshot(t, R) \in Table
         /\ \A i \in Critical : Snapshot(t, R)[i] \in {R[i], NoRow}
         /\ \A i \in Critical : i[1] \notin adm \/ i[1] = t => Snapshot(t, R)[i] = R[i]
  BY RowFacts DEF Snapshot, Table

\* A save or a release of the lock by the worker or by cancel_pending.
LEMMA TaskIo ==
  ASSUME TypeIo, Once, TasksApart, NEW t \in {"worker", "canc"}, NEW R \in Table,
         Save(t, R) \/ Unlock(t) \/ UNCHANGED <<io, lockq>>
  PROVE  /\ TypeIo' /\ Once'
         /\ \A b \in Notices : Awaited(b)' <=> Awaited(b)
         /\ io' = io \/ io' = NoWrite \/ io' = [by |-> t, data |-> Snapshot(t, R), res |-> "run"]
         /\ io.by \in Notices => io' = io
         /\ io'.by \in Notices => io' = io
  <1>1. t \in Tasks /\ t \notin Notices /\ "nobody" \notin Notices /\ "nobody" \notin Tasks
    BY DEF Tasks, TasksApart, Batches
  <1>2. lockq \in Seq(Tasks) /\ io \in Writes
    BY DEF TypeIo
  <1>3. /\ io' = io \/ (io.by = t /\ io' = NoWrite)
             \/ (io.by \in {"nobody", t} /\ io' = [by |-> t, data |-> Snapshot(t, R), res |-> "run"])
        /\ lockq' = lockq \/ lockq' = Append(lockq, t)
    BY DEF Save, Unlock
  <1>4. io' \in Writes
    BY <1>1, <1>2, <1>3, RowFacts, SnapshotFacts DEF Writes
  <1>5. lockq' \in Seq(Tasks)
    BY <1>1, <1>2, <1>3
  <1>6. /\ io.by \in Notices => io' = io
        /\ io'.by \in Notices => io' = io
    BY <1>1, <1>3, RowFacts
  <1>7. \A n \in 1..Len(lockq) : n \in 1..Len(lockq') /\ lockq'[n] = lockq[n]
    BY <1>1, <1>2, <1>3
  <1>8. \A n \in 1..Len(lockq') : n \in 1..Len(lockq) \/ lockq'[n] = t
    BY <1>1, <1>2, <1>3
  <1>9. Once'
    BY <1>1, <1>6, <1>7, <1>8 DEF Once
  <1>10. ASSUME NEW b \in Notices PROVE Awaited(b)' <=> Awaited(b)
    <2>1. io'.by = b <=> io.by = b
      BY <1>6
    <2>2. (\E n \in 1..Len(lockq') : lockq'[n] = b) <=> \E n \in 1..Len(lockq) : lockq[n] = b
      BY <1>1, <1>7, <1>8
    <2>3. QED
      BY <2>1, <2>2 DEF Awaited
  <1>11. QED
    BY <1>3, <1>4, <1>5, <1>6, <1>9, <1>10 DEF TypeIo

\* What is left to show of a step of the worker or of cancel_pending: what it does to the
\* items, the rows in memory and itself.
LEMMA StepKeeps ==
  ASSUME NoticeInv, ConstantsAssumption, TasksApart, NEW t \in {"worker", "canc"}, NEW R \in Table, R = storage',
         Save(t, R) \/ Unlock(t) \/ UNCHANGED <<io, lockq>>,
         TypeHere', disk' = disk, adm' \subseteq adm, accepted' = accepted, asked \subseteq asked',
         \A i \in Critical : /\ sent'[i] = 0 => sent[i] = 0
                             /\ batch'[i[1]] = "new" => batch[i[1]] = "new" /\ NewHere(i)'
                             /\ Owed(i) /\ Owed(i)' => OwedHere(i)'
  PROVE  NoticeInv'
  <1>1. TypeOK /\ QueueInv
    BY DEF NoticeInv
  <1>2. /\ TypeIo' /\ Once'
        /\ \A b \in Notices : Awaited(b)' <=> Awaited(b)
        /\ io' = io \/ io' = NoWrite \/ io' = [by |-> t, data |-> Snapshot(t, R), res |-> "run"]
        /\ io'.by \in Notices => io' = io
    BY <1>1, TaskIo DEF TypeOK, QueueInv
  <1>3. QueueInv'
    BY <1>1, <1>2, ItemFacts DEF QueueInv, TypeOK, TypeHere
  <1>4. ASSUME NEW i \in Critical, batch'[i[1]] = "new" PROVE NewHere(i)' /\ NewOnDisk(i)'
    <2>1. NewOnDisk(i) /\ NewHere(i)'
      BY <1>4 DEF NoticeInv
    <2>2. io'.data[i] = NoRow
      <3>1. R[i] = NoRow
        BY <2>1 DEF NewHere
      <3>2. Snapshot(t, R)[i] = NoRow
        BY <3>1, SnapshotFacts
      <3>3. QED
        BY <1>2, <2>1, <3>2, RowFacts DEF NewOnDisk
    <2>3. ~Awaited(i[1])'
      BY <1>2, <2>1, ItemFacts DEF NewOnDisk
    <2>4. QED
      BY <2>1, <2>2, <2>3 DEF NewOnDisk
  <1>5. ASSUME NEW i \in Critical, Owed(i)' PROVE OwedHere(i)' /\ OwedOnDisk(i)'
    <2>1. Owed(i)
      BY <1>2, <1>5, ItemFacts DEF Owed
    <2>2. OwedHere(i)' /\ OwedOnDisk(i)
      BY <1>5, <2>1 DEF NoticeInv
    <2>3. CASE io' = io
      BY <2>2, <2>3 DEF OwedOnDisk
    <2>4. CASE io' # io
      <3>1. i[1] \in Notices /\ io'.by # i[1]
        BY <1>2, <2>4, ItemFacts
      <3>2. CASE i \in accepted
        <4>1. i[1] \notin adm
          BY <1>1, <3>2 DEF QueueInv
        <4>2. Snapshot(t, R)[i] = R[i]
          BY <4>1, SnapshotFacts
        <4>3. io'.by # "nobody" => io'.data[i] = R[i]
          BY <1>2, <2>4, <4>2, RowFacts
        <4>4. R[i].status \in Kept
          BY <2>2 DEF OwedHere
        <4>5. disk'[i].status \in Kept
          BY <2>2, <3>2 DEF OwedOnDisk
        <4>6. io'.by # "nobody" => io'.data[i].status \in Kept
          BY <4>3, <4>4
        <4>7. io'.by = i[1] => FALSE
          BY <3>1
        <4>8. QED
          BY <2>2, <3>2, <4>5, <4>6, <4>7 DEF OwedOnDisk
      <3>3. CASE i \notin accepted
        BY <2>2, <3>1, <3>3 DEF OwedOnDisk
      <3>4. QED
        BY <3>2, <3>3
    <2>5. QED
      BY <2>3, <2>4
  <1>6. QED
    BY <1>2, <1>3, <1>4, <1>5 DEF NoticeInv, TypeOK

-----------------------------------------------------------------------------
(* An item is finished.                                                    *)

\* Finish, but for what the task does with itself.
Finishing(t, i, rec) ==
  /\ storage' = [p \in Critical |-> IF p \in Removable(i, Done(i, rec)) THEN NoRow ELSE storage[p]]
  /\ \/ /\ mem' = Done(i, rec)
        /\ batch' = [batch EXCEPT ![i[1]] = "completed"]
        /\ Save(t, storage')
        /\ newest' = newest /\ dedup' = dedup
     \/ /\ mem' = [Done(i, rec) EXCEPT ![i] = Release(i, @)]
        /\ Settled(i[1], Done(i, rec)) \/ UNCHANGED batchVars
        /\ Unlock(t)

LEMMA WorkFinishing ==
  ASSUME NEW i, NEW rec, NEW pc, WorkFinish(i, rec, pc)
  PROVE  /\ Finishing("worker", i, rec)
         /\ \/ work' = [work EXCEPT !.pc = "settle", !.item = i, !.gone = GoneRows(i, rec), !.todo = @ \ {i}]
            \/ pc = "idle" /\ work' = Resting
            \/ pc # "idle" /\ work' = [work EXCEPT !.pc = pc, !.todo = @ \ {i}]
  BY DEF WorkFinish, Finish, Finishing

LEMMA CancelFinishing ==
  ASSUME NEW i, NEW rec, CancelFinish(i, rec)
  PROVE  /\ Finishing("canc", i, rec)
         /\ \/ canc' = [canc EXCEPT !.pc = "settle", !.item = i, !.gone = GoneRows(i, rec)]
            \/ canc' = [canc EXCEPT !.pc = "next", !.item = NoItem, !.did = @ \cup {i}]
  BY DEF CancelFinish, Finish, Finishing

\* A row goes only if its chunk is not owed any more.
LEMMA RemovableFacts ==
  ASSUME NoticeInv, ConstantsAssumption, NEW i \in Items, NEW rec \in ItemRecords,
         i \in Critical /\ Owed(i) => rec.st = "failed",
         NEW p \in Critical, p \in Removable(i, Done(i, rec))
  PROVE  ~Owed(p)
  <1>1. mem \in [Items -> ItemRecords] /\ p \in Items
    BY ItemFacts DEF NoticeInv, TypeOK, TypeHere
  <1>2. /\ i \in Critical /\ p \in Parts(i[1])
        /\ Done(i, rec)[p].fut /\ Done(i, rec)[p].st # "failed"
    BY DEF Removable, AllDone
  <1>3. CASE p = i
    <2>1. Done(i, rec)[i].st = rec.st
      BY <1>1 DEF Done, ItemRecords
    <2>2. QED
      BY <1>2, <1>3, <2>1
  <1>4. CASE p # i
    <2>1. Done(i, rec)[p] = mem[p]
      BY <1>1, <1>4 DEF Done
    <2>2. Owed(p) => OwedHere(p)
      BY DEF NoticeInv
    <2>3. QED
      BY <1>2, <2>1, <2>2 DEF OwedHere
  <1>5. QED
    BY <1>3, <1>4

LEMMA GoneFacts ==
  ASSUME NoticeInv, ConstantsAssumption, NEW i \in Items, NEW rec \in ItemRecords,
         i \in Critical /\ Owed(i) => rec.st = "failed"
  PROVE  /\ GoneRows(i, rec) \in Table
         /\ \A p \in Critical : storage[p] = NoRow \/ Owed(p) => GoneRows(i, rec)[p] = NoRow
  <1>1. storage \in Table
    BY DEF NoticeInv, TypeOK, TypeHere
  <1>2. \A p \in Critical : GoneRows(i, rec)[p] = IF p \in Removable(i, Done(i, rec)) THEN storage[p] ELSE NoRow
    BY DEF GoneRows
  <1>3. GoneRows(i, rec) = [p \in Critical |-> GoneRows(i, rec)[p]]
    BY DEF GoneRows
  <1>4. GoneRows(i, rec) \in Table
    BY <1>1, <1>2, <1>3, RowFacts DEF Table
  <1>5. ASSUME NEW p \in Critical, storage[p] = NoRow \/ Owed(p) PROVE GoneRows(i, rec)[p] = NoRow
    BY <1>2, <1>5, RemovableFacts
  <1>6. QED
    BY <1>4, <1>5

\* What finishing an item does to the items, the batches and the rows.
LEMMA FinishFacts ==
  ASSUME NoticeInv, ConstantsAssumption, NEW i \in Items, NEW rec \in ItemRecords,
         i \in Critical /\ Owed(i) => rec.st = "failed",
         i \in Critical => batch[i[1]] # "new",
         NEW t, Finishing(t, i, rec)
  PROVE  /\ storage' \in Table /\ mem' \in [Items -> ItemRecords]
         /\ batch' \in [Batches -> {"new", "live", "completed", "gone"}]
         /\ newest' \in Observations \cup {NoBatch}
         /\ \A p \in Items : p # i => mem'[p] = mem[p]
         /\ mem'[i].st = rec.st /\ mem'[i].sup = rec.sup /\ mem'[i].tries = rec.tries
         /\ \A p \in Critical : batch'[p[1]] = "new" => batch[p[1]] = "new" /\ p # i
         /\ \A p \in Critical : storage[p] = NoRow => storage'[p] = NoRow
         /\ \A p \in Critical : Owed(p) => storage'[p] = storage[p]
         /\ Save(t, storage') \/ Unlock(t)
  <1>1. /\ mem \in [Items -> ItemRecords] /\ storage \in Table
        /\ batch \in [Batches -> {"new", "live", "completed", "gone"}]
        /\ newest \in Observations \cup {NoBatch}
    BY DEF NoticeInv, TypeOK, TypeHere
  <1>2. PICK done \in ItemRecords : done = [rec EXCEPT !.fut = TRUE]
    BY DEF ItemRecords
  <1>3. done.st = rec.st /\ done.sup = rec.sup /\ done.tries = rec.tries
    BY <1>2 DEF ItemRecords
  <1>4. Done(i, rec) = [mem EXCEPT ![i] = done]
    BY <1>2 DEF Done
  <1>5. PICK free \in ItemRecords : free = Release(i, done)
    BY DEF Release, ItemRecords
  <1>6. free.st = rec.st /\ free.sup = rec.sup /\ free.tries = rec.tries
    BY <1>3, <1>5 DEF Release, ItemRecords
  <1>7. mem' = [mem EXCEPT ![i] = done] \/ mem' = [mem EXCEPT ![i] = free]
    <2>1. mem' = Done(i, rec) \/ mem' = [Done(i, rec) EXCEPT ![i] = Release(i, @)]
      BY DEF Finishing
    <2>2. QED
      BY <1>1, <1>4, <1>5, <2>1
  <1>8. /\ mem' \in [Items -> ItemRecords]
        /\ \A p \in Items : p # i => mem'[p] = mem[p]
        /\ mem'[i].st = rec.st /\ mem'[i].sup = rec.sup /\ mem'[i].tries = rec.tries
    BY <1>1, <1>3, <1>6, <1>7
  <1>9. \A p \in Critical : storage'[p] = IF p \in Removable(i, Done(i, rec)) THEN NoRow ELSE storage[p]
    BY DEF Finishing
  <1>10. storage' = [p \in Critical |-> storage'[p]]
    BY DEF Finishing
  <1>11. storage' \in Table
    BY <1>1, <1>9, <1>10, RowFacts DEF Table
  <1>12. \A p \in Critical : Owed(p) => storage'[p] = storage[p]
    BY <1>9, RemovableFacts
  <1>13. /\ batch' = batch \/ batch' = [batch EXCEPT ![i[1]] = "completed"] \/ batch' = [batch EXCEPT ![i[1]] = "gone"]
         /\ newest' = newest \/ newest' = NoBatch
    BY DEF Finishing, Settled, batchVars
  <1>14. batch' \in [Batches -> {"new", "live", "completed", "gone"}]
    BY <1>1, <1>13
  <1>15. ASSUME NEW p \in Critical, batch'[p[1]] = "new" PROVE batch[p[1]] = "new" /\ p # i
    BY <1>1, <1>13, <1>15, ItemFacts
  <1>16. QED
    BY <1>1, <1>8, <1>9, <1>11, <1>12, <1>13, <1>14, <1>15 DEF Finishing

-----------------------------------------------------------------------------
(* The worker.                                                             *)

\* What the worker finishes is not owed, or has failed.
LEMMA WorkFinishKeeps ==
  ASSUME NoticeInv, ConstantsAssumption, TasksApart,
         NEW i \in Items, NEW rec \in ItemRecords, NEW pc \in {"idle", "row"}, WorkFinish(i, rec, pc),
         UNCHANGED frameW,
         i \in Critical /\ Owed(i) => rec.st = "failed" /\ ~rec.sup /\ rec.tries = 0,
         i \in Critical => batch[i[1]] # "new",
         sent' \in [Items -> Nat], \A p \in Items : sent'[p] = 0 => sent[p] = 0
  PROVE  NoticeInv'
  <1>1. TypeHere
    BY DEF NoticeInv, TypeOK
  <1>2. UNCHANGED <<what, enabled, group, disk, adm, canc, accepted, asked, withdrawn>>
    BY DEF frameW, envVars
  <1>3. /\ Finishing("worker", i, rec)
        /\ \/ work' = [work EXCEPT !.pc = "settle", !.item = i, !.gone = GoneRows(i, rec), !.todo = @ \ {i}]
           \/ work' = Resting
           \/ work' = [work EXCEPT !.pc = "row", !.todo = @ \ {i}]
    BY WorkFinishing
  <1>4. /\ storage' \in Table /\ mem' \in [Items -> ItemRecords]
        /\ batch' \in [Batches -> {"new", "live", "completed", "gone"}]
        /\ newest' \in Observations \cup {NoBatch}
        /\ \A p \in Items : p # i => mem'[p] = mem[p]
        /\ mem'[i].st = rec.st /\ mem'[i].sup = rec.sup /\ mem'[i].tries = rec.tries
        /\ \A p \in Critical : batch'[p[1]] = "new" => batch[p[1]] = "new" /\ p # i
        /\ \A p \in Critical : storage[p] = NoRow => storage'[p] = NoRow
        /\ \A p \in Critical : Owed(p) => storage'[p] = storage[p]
        /\ Save("worker", storage') \/ Unlock("worker")
    BY <1>3, FinishFacts
  <1>5. PICK gone \in Table : /\ gone = GoneRows(i, rec)
                              /\ \A p \in Critical : storage[p] = NoRow \/ Owed(p) => gone[p] = NoRow
    BY GoneFacts
  <1>6. /\ work' \in WorkRecords
        /\ \/ work' = Resting
           \/ /\ work'.pc = "settle" /\ work'.item = i /\ work'.gone = gone
              /\ work'.rows = work.rows /\ work'.todo = work.todo \ {i} /\ work'.ready = work.ready
           \/ /\ work'.pc = "row" /\ work'.item = work.item /\ work'.gone = work.gone
              /\ work'.rows = work.rows /\ work'.todo = work.todo \ {i} /\ work'.ready = work.ready
    <2>1. work \in WorkRecords /\ work.todo \ {i} \in SUBSET Critical
      BY <1>1 DEF TypeHere, WorkRecords
    <2>2. CASE work' = [work EXCEPT !.pc = "settle", !.item = i, !.gone = GoneRows(i, rec), !.todo = @ \ {i}]
      <3>1. work' = [work EXCEPT !.pc = "settle", !.item = i, !.gone = gone, !.todo = work.todo \ {i}]
        BY <1>5, <2>2
      <3>2. QED
        BY <2>1, <3>1 DEF WorkRecords
    <2>3. CASE work' = [work EXCEPT !.pc = "row", !.todo = @ \ {i}]
      BY <2>1, <2>3 DEF WorkRecords
    <2>4. CASE work' = Resting
      BY <2>4, RestFacts
    <2>5. QED
      BY <1>3, <2>2, <2>3, <2>4
  <1>7. ASSUME NEW p \in Critical
        PROVE  /\ p \in work'.todo => p \in work.todo /\ work'.rows = work.rows
               /\ p \in work'.ready => p \in work.ready
               /\ work'.item = p => p = i \/ work.item = p
               /\ work'.pc \notin {"savedone", "track", "savefail", "prepare", "transport"}
               /\ work'.gone[p] \in {work.gone[p], gone[p], NoRow}
    BY <1>6, RestFacts, RowFacts, ItemFacts
  <1>8. TypeHere'
    <2>1. Working' => work'.item \in Items
      BY <1>6, RestFacts DEF Working
    <2>2. QED
      BY <1>1, <1>2, <1>4, <1>6, <2>1 DEF TypeHere, Cancelling
  <1>9. ASSUME NEW p \in Critical, batch'[p[1]] = "new" PROVE batch[p[1]] = "new" /\ NewHere(p)'
    <2>1. batch[p[1]] = "new" /\ p # i /\ p \in Items
      BY <1>4, <1>9, ItemFacts
    <2>2. NewHere(p)
      BY <2>1 DEF NoticeInv
    <2>3. mem'[p] = Blank /\ storage'[p] = NoRow
      BY <1>4, <2>1, <2>2 DEF NewHere
    <2>4. work'.item # p /\ p \notin work'.todo \cup work'.ready /\ work'.gone[p] = NoRow
      BY <1>5, <1>7, <2>1, <2>2 DEF NewHere
    <2>5. QED
      BY <1>2, <2>1, <2>2, <2>3, <2>4 DEF NewHere
  <1>10. ASSUME NEW p \in Critical, Owed(p) PROVE OwedHere(p)'
    <2>1. OwedHere(p) /\ p \in Items
      BY <1>10, ItemFacts DEF NoticeInv
    <2>2. storage'[p].status \in Kept
      BY <1>4, <1>10, <2>1 DEF OwedHere
    <2>3. mem'[p].st \in Waiting /\ (mem'[p].fut => mem'[p].st = "failed") /\ ~mem'[p].sup /\ mem'[p].tries = 0
      <3>1. CASE p = i
        BY <1>4, <1>10, <3>1 DEF Waiting
      <3>2. CASE p # i
        BY <1>4, <2>1, <3>2 DEF OwedHere
      <3>3. QED
        BY <3>1, <3>2
    <2>4. /\ p \in work'.todo => work'.rows[p].status \in Kept
          /\ work'.gone[p] = NoRow
          /\ work'.pc \notin {"savedone", "track", "savefail", "prepare", "transport"}
      BY <1>5, <1>7, <1>10, <2>1 DEF OwedHere
    <2>5. QED
      BY <1>2, <2>1, <2>2, <2>3, <2>4 DEF OwedHere
  <1>11. \A p \in Critical : sent'[p] = 0 => sent[p] = 0
    BY ItemFacts
  <1>12. QED
    BY <1>2, <1>4, <1>8, <1>9, <1>10, <1>11, StepKeeps

\* What the worker records is not owed, or has failed and is going to be finished.
LEMMA RecordKeeps ==
  ASSUME NoticeInv, ConstantsAssumption, TasksApart,
         NEW i \in Items, NEW rec \in ItemRecords, NEW pc \in {"savedone", "savefail"}, Record(i, rec, pc),
         UNCHANGED frameW,
         i \in Critical /\ Owed(i) /\ Owed(i)' => pc = "savefail" /\ rec.st = "failed" /\ ~rec.sup /\ rec.tries = 0,
         i \in Critical => batch[i[1]] # "new",
         sent' \in [Items -> Nat], \A p \in Items : sent'[p] = 0 => sent[p] = 0
  PROVE  NoticeInv'
  <1>1. TypeHere
    BY DEF NoticeInv, TypeOK
  <1>2. UNCHANGED <<what, enabled, group, disk, adm, canc, accepted, asked, withdrawn, batch, newest>>
    BY DEF frameW, envVars, Record, batchVars
  <1>3. PICK R \in Table : R = [storage EXCEPT ![i] = Row(rec)]
    BY <1>1, RowOf DEF TypeHere, Table
  <1>4. /\ mem' = [mem EXCEPT ![i] = rec] /\ storage' = R /\ Save("worker", R)
        /\ work' = [work EXCEPT !.pc = pc, !.item = i]
    BY <1>3 DEF Record
  <1>5. \A p \in Items : mem'[p] = IF p = i THEN rec ELSE mem[p]
    BY <1>1, <1>4 DEF TypeHere
  <1>6. \A p \in Critical : storage'[p] = IF p = i THEN Row(rec) ELSE storage[p]
    BY <1>1, <1>3, <1>4 DEF TypeHere, Table
  <1>7. /\ work' \in WorkRecords /\ work'.pc = pc /\ work'.item = i /\ work'.rows = work.rows
        /\ work'.todo = work.todo /\ work'.ready = work.ready /\ work'.gone = work.gone
    BY <1>1, <1>4 DEF TypeHere, WorkRecords
  <1>8. TypeHere'
    BY <1>1, <1>2, <1>4, <1>7 DEF TypeHere, Cancelling
  <1>9. ASSUME NEW p \in Critical, batch'[p[1]] = "new" PROVE batch[p[1]] = "new" /\ NewHere(p)'
    <2>1. batch[p[1]] = "new" /\ p # i /\ p \in Items
      BY <1>2, <1>9, ItemFacts
    <2>2. NewHere(p)
      BY <2>1 DEF NoticeInv
    <2>3. QED
      BY <1>2, <1>5, <1>6, <1>7, <2>1, <2>2 DEF NewHere
  <1>10. ASSUME NEW p \in Critical, Owed(p), Owed(p)' PROVE OwedHere(p)'
    <2>1. OwedHere(p) /\ p \in Items
      BY <1>10, ItemFacts DEF NoticeInv
    <2>2. CASE p = i
      <3>1. rec.st = "failed" /\ pc = "savefail" /\ ~rec.sup /\ rec.tries = 0 /\ Row(rec).status \in Kept
        BY <1>10, <2>2, RowOf DEF Waiting
      <3>2. QED
        BY <1>2, <1>5, <1>6, <1>7, <2>1, <2>2, <3>1 DEF OwedHere, Waiting
    <2>3. CASE p # i
      BY <1>2, <1>5, <1>6, <1>7, <2>1, <2>3 DEF OwedHere
    <2>4. QED
      BY <2>2, <2>3
  <1>11. \A p \in Critical : sent'[p] = 0 => sent[p] = 0
    BY ItemFacts
  <1>12. QED
    BY <1>2, <1>3, <1>4, <1>8, <1>9, <1>10, <1>11, StepKeeps

\* A step of the worker that saves nothing, changes no row and only the item i.
LEMMA WorkKeeps ==
  ASSUME NoticeInv, ConstantsAssumption, TasksApart, NEW i \in Items, NEW rec \in ItemRecords,
         UNCHANGED frameW, UNCHANGED <<storage, batchVars>>, Unlock("worker") \/ UNCHANGED <<io, lockq>>,
         mem' = [mem EXCEPT ![i] = rec],
         i \in Critical /\ Owed(i) => rec.st \in Waiting /\ (rec.fut => rec.st = "failed") /\ ~rec.sup /\ rec.tries = 0,
         i \in Critical => batch[i[1]] # "new",
         work' \in WorkRecords, Working' => work'.item \in Items,
         work'.item \in {i, work.item, NoItem},
         work'.pc \notin {"savedone", "savefail"},
         work'.pc = "track" => work.pc = "savedone" /\ work'.item = work.item,
         work'.pc \in {"prepare", "transport"} => work'.item = i /\ (i \in Critical /\ Owed(i) => ~rec.fut),
         work'.todo \subseteq work.todo, work'.todo = {} \/ work'.rows = work.rows,
         work'.ready \subseteq work.ready \cup {i}, work'.gone \in {work.gone, NoRows},
         sent' \in [Items -> Nat], \A p \in Items : sent'[p] = 0 => sent[p] = 0
  PROVE  NoticeInv'
  <1>1. TypeHere
    BY DEF NoticeInv, TypeOK
  <1>2. UNCHANGED <<what, enabled, group, disk, adm, canc, accepted, asked, withdrawn, batch, newest, storage>>
    BY DEF frameW, envVars, batchVars
  <1>3. \A p \in Items : mem'[p] = IF p = i THEN rec ELSE mem[p]
    BY <1>1 DEF TypeHere
  <1>4. TypeHere'
    BY <1>1, <1>2 DEF TypeHere, Cancelling
  <1>5. ASSUME NEW p \in Critical, batch'[p[1]] = "new" PROVE batch[p[1]] = "new" /\ NewHere(p)'
    <2>1. batch[p[1]] = "new" /\ p # i /\ p \in Items /\ p # NoItem
      BY <1>2, <1>5, ItemFacts
    <2>2. NewHere(p)
      BY <2>1 DEF NoticeInv
    <2>3. work'.item # p /\ p \notin work'.todo \cup work'.ready /\ work'.gone[p] = NoRow
      BY <2>1, <2>2, RowFacts DEF NewHere
    <2>4. QED
      BY <1>2, <1>3, <2>1, <2>2, <2>3 DEF NewHere
  <1>6. ASSUME NEW p \in Critical, Owed(p) PROVE OwedHere(p)'
    <2>1. OwedHere(p) /\ p \in Items
      BY <1>6, ItemFacts DEF NoticeInv
    <2>2. mem'[p].st \in Waiting /\ (mem'[p].fut => mem'[p].st = "failed") /\ ~mem'[p].sup /\ mem'[p].tries = 0
      <3>1. CASE p = i
        BY <1>3, <1>6, <3>1
      <3>2. CASE p # i
        BY <1>3, <2>1, <3>2 DEF OwedHere
      <3>3. QED
        BY <3>1, <3>2
    <2>3. work'.gone[p] = NoRow /\ (p \in work'.todo => work'.rows[p].status \in Kept)
      <3>1. work'.gone[p] = NoRow
        BY <2>1, RowFacts DEF OwedHere
      <3>2. ASSUME p \in work'.todo PROVE work'.rows[p].status \in Kept
        <4>1. p \in work.todo /\ work'.rows = work.rows
          BY <3>2
        <4>2. QED
          BY <2>1, <4>1 DEF OwedHere
      <3>3. QED
        BY <3>1, <3>2
    <2>4. ASSUME work'.item = p
          PROVE  /\ work'.pc \notin {"savedone", "track", "savefail"}
                 /\ work'.pc \in {"prepare", "transport"} => ~mem'[p].fut
      <3>1. ASSUME work'.pc = "track" PROVE FALSE
        <4>1. work.pc = "savedone" /\ work.item = p
          BY <2>4, <3>1
        <4>2. QED
          BY <2>1, <4>1 DEF OwedHere
      <3>2. work'.pc \in {"prepare", "transport"} => ~mem'[p].fut
        BY <1>3, <1>6, <2>1, <2>4
      <3>3. QED
        BY <3>1, <3>2
    <2>5. QED
      BY <1>2, <2>1, <2>2, <2>3, <2>4 DEF OwedHere
  <1>7. \A p \in Critical : sent'[p] = 0 => sent[p] = 0
    BY ItemFacts
  <1>8. storage' \in Table
    BY <1>1, <1>2 DEF TypeHere
  <1>9. QED
    BY <1>2, <1>4, <1>5, <1>6, <1>7, <1>8, StepKeeps

\* One field of an item is changed.
LEMMA Edited ==
  ASSUME NEW rec \in ItemRecords
  PROVE  /\ \A s \in States :
              /\ [rec EXCEPT !.st = s] \in ItemRecords
              /\ [rec EXCEPT !.st = s].st = s /\ [rec EXCEPT !.st = s].fut = rec.fut
              /\ [rec EXCEPT !.st = s].sup = rec.sup /\ [rec EXCEPT !.st = s].tries = rec.tries
              /\ [rec EXCEPT !.st = s].q = rec.q /\ [rec EXCEPT !.st = s].reg = rec.reg
         /\ \A v \in BOOLEAN :
              /\ [rec EXCEPT !.q = v] \in ItemRecords
              /\ [rec EXCEPT !.q = v].st = rec.st /\ [rec EXCEPT !.q = v].fut = rec.fut
              /\ [rec EXCEPT !.q = v].sup = rec.sup /\ [rec EXCEPT !.q = v].tries = rec.tries
  BY DEF ItemRecords

\* Whatever is in somebody's hands is not new.
LEMMA OldItems ==
  ASSUME NoticeInv, NEW i \in Critical,
         \/ mem[i].q \/ mem[i].reg \/ work.item = i \/ i \in work.todo \cup work.ready
         \/ canc.item = i \/ i \in canc.todo
  PROVE  batch[i[1]] # "new"
  BY RowFacts DEF NoticeInv, NewHere

LEMMA HandFacts ==
  ASSUME NoticeInv
  PROVE  /\ mem \in [Items -> ItemRecords] /\ work \in WorkRecords /\ canc \in CancRecords
         /\ storage \in Table /\ sent \in [Items -> Nat]
         /\ Working => work.item \in Items /\ mem[work.item] \in ItemRecords
         /\ \A i \in Critical : Owed(i) => OwedHere(i)
  BY DEF NoticeInv, TypeOK, TypeHere

LEMMA GetKeeps ==
  ASSUME NoticeInv, ConstantsAssumption, TasksApart, NEW i \in Items, Get(i)
  PROVE  NoticeInv'
  <1>1. /\ mem \in [Items -> ItemRecords] /\ work \in WorkRecords /\ sent \in [Items -> Nat]
        /\ i \in Critical /\ Owed(i) => OwedHere(i)
    BY HandFacts
  <1>2. PICK rec \in ItemRecords : /\ rec = [mem[i] EXCEPT !.q = FALSE]
                                   /\ rec.st = mem[i].st /\ rec.fut = mem[i].fut
                                   /\ rec.sup = mem[i].sup /\ rec.tries = mem[i].tries
    BY <1>1, Edited
  <1>3. UNCHANGED frameW /\ UNCHANGED sent /\ mem[i].q /\ work.pc = "idle"
    BY DEF Get
  <1>4. i \in Critical => batch[i[1]] # "new"
    BY <1>3, OldItems
  <1>5. CASE rec.st \in {"cancelled", "uncertain", "failed"}
    <2>1. WorkFinish(i, rec, "idle")
      BY <1>2, <1>5 DEF Get
    <2>2. i \in Critical /\ Owed(i) => rec.st = "failed" /\ ~rec.sup /\ rec.tries = 0
      BY <1>1, <1>2, <1>5 DEF OwedHere, Waiting
    <2>3. QED
      BY <1>1, <1>3, <1>4, <2>1, <2>2, WorkFinishKeeps
  <1>6. CASE rec.st = "delivered"
    <2>1. Record(i, rec, "savedone")
      BY <1>2, <1>6 DEF Get
    <2>2. i \in Critical => ~Owed(i)
      BY <1>1, <1>2, <1>6 DEF OwedHere, Waiting
    <2>3. QED
      BY <1>1, <1>3, <1>4, <2>1, <2>2, RecordKeeps
  <1>7. CASE rec.st \notin {"cancelled", "uncertain", "failed", "delivered"} /\ Obsolete(i)
    <2>1. PICK done \in ItemRecords : done = [rec EXCEPT !.st = "cancelled"]
      BY DEF ItemRecords, States
    <2>2. WorkFinish(i, done, "idle")
      BY <1>2, <1>7, <2>1 DEF Get
    <2>3. i \notin Critical
      BY <1>7 DEF Obsolete
    <2>4. QED
      BY <1>1, <1>3, <1>4, <2>2, <2>3, WorkFinishKeeps
  <1>8. CASE rec.st \notin {"cancelled", "uncertain", "failed", "delivered"} /\ ~Obsolete(i)
    <2>1. PICK out \in ItemRecords : /\ out = [rec EXCEPT !.st = "preparing"]
                                     /\ out.st = "preparing" /\ out.fut = rec.fut
                                     /\ out.sup = rec.sup /\ out.tries = rec.tries
      <3>1. "preparing" \in States
        BY DEF States
      <3>2. QED
        BY <3>1, Edited
    <2>2. /\ mem' = [mem EXCEPT ![i] = out]
          /\ work' = [work EXCEPT !.pc = "prepare", !.item = i]
          /\ UNCHANGED <<storage, io, lockq, batchVars>>
      BY <1>2, <1>8, <2>1 DEF Get
    <2>3. i \in Critical /\ Owed(i) =>
            out.st \in Waiting /\ ~out.fut /\ ~out.sup /\ out.tries = 0
      BY <1>1, <1>2, <1>8, <2>1 DEF OwedHere, Waiting
    <2>4. /\ work' \in WorkRecords /\ work'.pc = "prepare" /\ work'.item = i /\ work'.todo = work.todo
          /\ work'.rows = work.rows /\ work'.ready = work.ready /\ work'.gone = work.gone
      BY <1>1, <2>2 DEF WorkRecords
    <2>5. QED
      BY <1>1, <1>3, <1>4, <2>2, <2>3, <2>4, WorkKeeps
  <1>9. QED
    BY <1>5, <1>6, <1>7, <1>8

LEMMA PrepareKeeps ==
  ASSUME NoticeInv, ConstantsAssumption, TasksApart, Prepare
  PROVE  NoticeInv'
  <1>1. PICK i \in Items : i = work.item
    BY HandFacts DEF Prepare, Working
  <1>2. /\ mem \in [Items -> ItemRecords] /\ work \in WorkRecords /\ sent \in [Items -> Nat]
        /\ i \in Critical /\ Owed(i) => OwedHere(i)
        /\ i \in Critical => batch[i[1]] # "new"
    BY <1>1, HandFacts, OldItems
  <1>3. mem[i] \in ItemRecords
    BY <1>2
  <1>4. UNCHANGED frameW /\ UNCHANGED sent /\ work.pc = "prepare"
    BY DEF Prepare
  <1>5. CASE Obsolete(i) \/ mem[i].st = "cancelled"
    <2>1. PICK done \in ItemRecords : done = [mem[i] EXCEPT !.st = "cancelled"]
      BY <1>3 DEF ItemRecords, States
    <2>2. WorkFinish(i, done, "idle")
      BY <1>1, <1>5, <2>1 DEF Prepare
    <2>3. ~(i \in Critical /\ Owed(i))
      BY <1>2, <1>5 DEF Obsolete, OwedHere, Waiting
    <2>4. QED
      BY <1>2, <1>4, <2>2, <2>3, WorkFinishKeeps
  <1>6. CASE i \notin Critical /\ WorkFinish(i, [mem[i] EXCEPT !.st = "failed"], "idle")
    <2>1. PICK done \in ItemRecords : done = [mem[i] EXCEPT !.st = "failed"]
      BY <1>3 DEF ItemRecords, States
    <2>2. QED
      BY <1>2, <1>4, <1>6, <2>1, WorkFinishKeeps
  <1>7. CASE mem' = [mem EXCEPT ![i].st = "sending"] /\ work' = [work EXCEPT !.pc = "transport"]
             /\ UNCHANGED <<storage, io, lockq, batchVars>>
    <2>1. PICK out \in ItemRecords : /\ out = [mem[i] EXCEPT !.st = "sending"]
                                     /\ out.st = "sending" /\ out.fut = mem[i].fut
                                     /\ out.sup = mem[i].sup /\ out.tries = mem[i].tries
      <3>1. [mem[i] EXCEPT !.st = "sending"] \in ItemRecords
        BY <1>3 DEF ItemRecords, States
      <3>2. /\ [mem[i] EXCEPT !.st = "sending"].st = "sending" /\ [mem[i] EXCEPT !.st = "sending"].fut = mem[i].fut
            /\ [mem[i] EXCEPT !.st = "sending"].sup = mem[i].sup /\ [mem[i] EXCEPT !.st = "sending"].tries = mem[i].tries
        BY <1>3 DEF ItemRecords
      <3>3. QED
        BY <3>1, <3>2
    <2>2. mem' = [mem EXCEPT ![i] = out]
      <3>1. mem' = [mem EXCEPT ![i] = [mem[i] EXCEPT !.st = "sending"]]
        BY <1>2, <1>7
      <3>2. QED
        BY <2>1, <3>1
    <2>3. i \in Critical /\ Owed(i) =>
            out.st \in Waiting /\ ~out.fut /\ ~out.sup /\ out.tries = 0
      BY <1>1, <1>2, <1>4, <2>1 DEF OwedHere, Waiting
    <2>4. /\ work' \in WorkRecords /\ work'.pc = "transport" /\ work'.item = i /\ work'.todo = work.todo
          /\ work'.rows = work.rows /\ work'.ready = work.ready /\ work'.gone = work.gone
      BY <1>1, <1>2, <1>7 DEF WorkRecords
    <2>5. /\ Working' => work'.item \in Items
          /\ work'.item \in {i, work.item, NoItem} /\ work'.pc \notin {"savedone", "savefail", "track"}
          /\ work'.todo \subseteq work.todo /\ work'.rows = work.rows
          /\ work'.ready \subseteq work.ready \cup {i} /\ work'.gone \in {work.gone, NoRows}
      BY <2>4
    <2>6. /\ UNCHANGED <<storage, batchVars>> /\ UNCHANGED <<io, lockq>>
          /\ sent' \in [Items -> Nat] /\ \A p \in Items : sent'[p] = 0 => sent[p] = 0
      BY <1>2, <1>4, <1>7
    <2>7. work' \in WorkRecords /\ work'.item = i
      BY <2>4
    <2>8. QED
      BY <1>2, <1>4, <2>2, <2>3, <2>5, <2>6, <2>7, WorkKeeps
  <1>8. QED
    BY <1>1, <1>5, <1>6, <1>7 DEF Prepare

\* What has been tried in vain waits; a notice is tried for ever.
LEMMA RetryKeeps ==
  ASSUME NoticeInv, ConstantsAssumption, TasksApart, work.pc = "transport", Retry(work.item), UNCHANGED frameW,
         sent' \in [Items -> Nat], \A p \in Items : sent'[p] = 0 => sent[p] = 0
  PROVE  NoticeInv'
  <1>1. PICK i \in Items : i = work.item
    BY HandFacts DEF Working
  <1>2. /\ mem \in [Items -> ItemRecords] /\ work \in WorkRecords
        /\ i \in Critical /\ Owed(i) => OwedHere(i)
        /\ i \in Critical => batch[i[1]] # "new"
    BY <1>1, HandFacts, OldItems
  <1>3. mem[i] \in ItemRecords
    BY <1>2
  <1>4. PICK n \in Nat : n = IF i \in Critical THEN mem[i].tries ELSE mem[i].tries + 1
    BY <1>3 DEF ItemRecords
  <1>5. PICK rec \in ItemRecords : /\ rec = [mem[i] EXCEPT !.st = "queued", !.tries = n]
                                   /\ rec.st = "queued" /\ rec.fut = mem[i].fut /\ rec.sup = mem[i].sup
                                   /\ rec.tries = n
    <2>1. PICK old \in ItemRecords : old = mem[i]
      BY <1>3
    <2>2. [old EXCEPT !.st = "queued", !.tries = n] \in ItemRecords
      BY <1>4 DEF ItemRecords, States
    <2>3. QED
      BY <2>1, <2>2 DEF ItemRecords
  <1>6. rec = [mem[i] EXCEPT !.st = "queued", !.tries = IF i \in Critical THEN @ ELSE @ + 1]
    BY <1>3, <1>4, <1>5 DEF ItemRecords
  <1>7. IF mem[i].sup THEN WorkFinish(i, [mem[i] EXCEPT !.st = "cancelled"], "idle")
        ELSE IF rec.tries > MaxRetries THEN WorkFinish(i, [mem[i] EXCEPT !.st = "failed"], "idle")
        ELSE /\ mem' = [mem EXCEPT ![i] = rec]
             /\ work' = [work EXCEPT !.pc = "backoff"]
             /\ UNCHANGED <<storage, io, lockq, batchVars>>
    BY <1>1, <1>6 DEF Retry
  <1>8. CASE mem[i].sup \/ rec.tries > MaxRetries
    <2>1. PICK done \in ItemRecords : /\ done = [mem[i] EXCEPT !.st = "cancelled"] \/ done = [mem[i] EXCEPT !.st = "failed"]
                                      /\ WorkFinish(i, done, "idle")
      <3>1. [mem[i] EXCEPT !.st = "cancelled"] \in ItemRecords /\ [mem[i] EXCEPT !.st = "failed"] \in ItemRecords
        BY <1>3 DEF ItemRecords, States
      <3>2. WorkFinish(i, [mem[i] EXCEPT !.st = "cancelled"], "idle") \/ WorkFinish(i, [mem[i] EXCEPT !.st = "failed"], "idle")
        BY <1>8, <1>7
      <3>3. QED
        BY <3>1, <3>2
    <2>2. ~(i \in Critical /\ Owed(i))
      BY <1>2, <1>4, <1>5, <1>8 DEF OwedHere, ConstantsAssumption
    <2>3. QED
      BY <1>2, <2>1, <2>2, WorkFinishKeeps
  <1>9. CASE ~mem[i].sup /\ ~(rec.tries > MaxRetries)
    <2>1. /\ mem' = [mem EXCEPT ![i] = rec]
          /\ work' = [work EXCEPT !.pc = "backoff"]
          /\ UNCHANGED <<storage, io, lockq, batchVars>>
      BY <1>9, <1>7
    <2>2. i \in Critical /\ Owed(i) => rec.st \in Waiting /\ ~rec.fut /\ ~rec.sup /\ rec.tries = 0
      BY <1>1, <1>2, <1>4, <1>5 DEF OwedHere, Waiting
    <2>3. /\ work' \in WorkRecords /\ work'.pc = "backoff" /\ work'.item = i /\ work'.todo = work.todo
          /\ work'.rows = work.rows /\ work'.ready = work.ready /\ work'.gone = work.gone
      BY <1>1, <1>2, <2>1 DEF WorkRecords
    <2>4. QED
      BY <1>2, <2>1, <2>2, <2>3, WorkKeeps
  <1>10. QED
    BY <1>8, <1>9

LEMMA ArrivesFacts ==
  ASSUME NoticeInv, NEW i \in Items, Arrives(i) \/ UNCHANGED sent
  PROVE  /\ sent' \in [Items -> Nat] /\ \A p \in Items : sent'[p] = 0 => sent[p] = 0
         /\ Arrives(i) => sent'[i] > 0
  BY DEF NoticeInv, TypeOK, TypeHere, Arrives

LEMMA TransportKeeps ==
  ASSUME NoticeInv, ConstantsAssumption, TasksApart,
         TransportDelivered \/ TransportLost \/ TransportRefused \/ TransportRejected
  PROVE  NoticeInv'
  <1>0. work.pc = "transport" /\ UNCHANGED frameW
    BY DEF TransportDelivered, TransportLost, TransportRefused, TransportRejected
  <1>1. PICK i \in Items : i = work.item
    BY <1>0, HandFacts DEF Working
  <1>2. /\ mem[i] \in ItemRecords
        /\ i \in Critical /\ Owed(i) => OwedHere(i)
        /\ i \in Critical => batch[i[1]] # "new"
    BY <1>1, HandFacts, OldItems
  <1>3. Arrives(i) \/ UNCHANGED sent
    BY <1>1 DEF TransportDelivered, TransportLost, TransportRefused, TransportRejected
  <1>4. sent' \in [Items -> Nat] /\ \A p \in Items : sent'[p] = 0 => sent[p] = 0
    BY <1>3, ArrivesFacts
  <1>5. CASE TransportDelivered
    <2>1. PICK rec \in ItemRecords : rec = [mem[i] EXCEPT !.st = "delivered"]
      BY <1>2 DEF ItemRecords, States
    <2>2. IF i \in Critical THEN Record(i, rec, "savedone") ELSE WorkFinish(i, rec, "idle")
      BY <1>1, <1>5, <2>1 DEF TransportDelivered
    <2>3. sent'[i] > 0
      BY <1>1, <1>5, ArrivesFacts DEF TransportDelivered
    <2>4. ~Owed(i)'
      BY <2>3 DEF Owed
    <2>5. QED
      BY <1>0, <1>2, <1>4, <2>2, <2>4, RecordKeeps, WorkFinishKeeps
  <1>6. CASE TransportLost /\ i \notin Critical
    <2>1. PICK rec \in ItemRecords : rec = [mem[i] EXCEPT !.st = "uncertain"]
      BY <1>2 DEF ItemRecords, States
    <2>2. WorkFinish(i, rec, "idle")
      BY <1>1, <1>6, <2>1 DEF TransportLost
    <2>3. QED
      BY <1>0, <1>2, <1>4, <1>6, <2>2, WorkFinishKeeps
  <1>7. CASE TransportRefused \/ (TransportLost /\ i \in Critical)
    <2>1. Retry(work.item)
      BY <1>1, <1>7 DEF TransportRefused, TransportLost
    <2>2. QED
      BY <1>0, <1>4, <2>1, RetryKeeps
  <1>8. CASE TransportRejected
    <2>1. PICK rec \in ItemRecords : /\ rec = [mem[i] EXCEPT !.st = "failed"]
                                     /\ rec.st = "failed" /\ rec.sup = mem[i].sup /\ rec.tries = mem[i].tries
      <3>1. [mem[i] EXCEPT !.st = "failed"] \in ItemRecords
        BY <1>2 DEF ItemRecords, States
      <3>2. /\ [mem[i] EXCEPT !.st = "failed"].st = "failed" /\ [mem[i] EXCEPT !.st = "failed"].fut = mem[i].fut
            /\ [mem[i] EXCEPT !.st = "failed"].sup = mem[i].sup /\ [mem[i] EXCEPT !.st = "failed"].tries = mem[i].tries
        BY <1>2 DEF ItemRecords
      <3>3. QED
        BY <3>1, <3>2
    <2>2. IF i \in Critical THEN Record(i, rec, "savefail") ELSE WorkFinish(i, rec, "idle")
      BY <1>1, <1>8, <2>1 DEF TransportRejected
    <2>3. i \in Critical /\ Owed(i) => ~rec.sup /\ rec.tries = 0
      BY <1>2, <2>1 DEF OwedHere
    <2>4. QED
      BY <1>0, <1>2, <1>4, <2>1, <2>2, <2>3, RecordKeeps, WorkFinishKeeps
  <1>9. QED
    BY <1>5, <1>6, <1>7, <1>8
\* An item is queued or not, or left as it is, and the worker goes on.
LEMMA HandKeeps ==
  ASSUME NoticeInv, ConstantsAssumption, TasksApart, Working, NEW rec \in ItemRecords,
         rec = mem[work.item] \/ \E v \in BOOLEAN : rec = [mem[work.item] EXCEPT !.q = v],
         mem' = [mem EXCEPT ![work.item] = rec],
         UNCHANGED frameW, UNCHANGED <<storage, batchVars, sent>>, Unlock("worker") \/ UNCHANGED <<io, lockq>>,
         \/ work' = Resting
         \/ work' = [work EXCEPT !.pc = "error"]
         \/ work.pc = "savedone" /\ work' = [work EXCEPT !.pc = "track"]
  PROVE  NoticeInv'
  <1>1. PICK i \in Items : i = work.item
    BY HandFacts
  <1>2. /\ mem \in [Items -> ItemRecords] /\ work \in WorkRecords /\ sent \in [Items -> Nat]
        /\ i \in Critical /\ Owed(i) => OwedHere(i)
        /\ i \in Critical => batch[i[1]] # "new"
    BY <1>1, HandFacts, OldItems
  <1>3. rec.st = mem[i].st /\ rec.fut = mem[i].fut /\ rec.sup = mem[i].sup /\ rec.tries = mem[i].tries
    <2>1. mem[i] \in ItemRecords
      BY <1>2
    <2>2. CASE rec = mem[i]
      BY <2>2
    <2>3. ASSUME NEW v \in BOOLEAN, rec = [mem[i] EXCEPT !.q = v]
          PROVE  rec.st = mem[i].st /\ rec.fut = mem[i].fut /\ rec.sup = mem[i].sup /\ rec.tries = mem[i].tries
      BY <2>1, <2>3 DEF ItemRecords
    <2>4. QED
      BY <1>1, <2>2, <2>3
  <1>4. mem' = [mem EXCEPT ![i] = rec] /\ sent' = sent
    BY <1>1
  <1>5. i \in Critical /\ Owed(i) =>
          rec.st \in Waiting /\ (rec.fut => rec.st = "failed") /\ ~rec.sup /\ rec.tries = 0
    BY <1>2, <1>3 DEF OwedHere
  <1>6. /\ work' \in WorkRecords
        /\ \/ work' = Resting
           \/ /\ work'.pc \in {"error", "track"} /\ work'.item = i /\ work'.todo = work.todo
              /\ work'.rows = work.rows /\ work'.ready = work.ready /\ work'.gone = work.gone
              /\ work'.pc = "track" => work.pc = "savedone"
    BY <1>1, <1>2, RestFacts DEF WorkRecords
  <1>7. /\ Working' => work'.item \in Items
        /\ work'.item \in {i, work.item, NoItem}
        /\ work'.pc \notin {"savedone", "savefail", "prepare", "transport"}
        /\ work'.pc = "track" => work.pc = "savedone" /\ work'.item = work.item
        /\ work'.todo \subseteq work.todo /\ (work'.todo = {} \/ work'.rows = work.rows)
        /\ work'.ready \subseteq work.ready \cup {i} /\ work'.gone \in {work.gone, NoRows}
    BY <1>1, <1>6, RestFacts DEF Working
  <1>8. UNCHANGED <<storage, batchVars>> /\ sent' \in [Items -> Nat] /\ \A p \in Items : sent'[p] = 0 => sent[p] = 0
    BY <1>2, <1>4
  <1>9. work'.pc \in {"prepare", "transport"} => work'.item = i /\ (i \in Critical /\ Owed(i) => ~rec.fut)
    BY <1>7
  <1>10. work' \in WorkRecords
    BY <1>6
  <1>11. QED
    BY <1>2, <1>4, <1>5, <1>7, <1>8, <1>9, <1>10, WorkKeeps

LEMMA BackoffEndsKeeps ==
  ASSUME NoticeInv, ConstantsAssumption, TasksApart, BackoffEnds
  PROVE  NoticeInv'
  <1>1. Working /\ UNCHANGED frameW /\ UNCHANGED <<storage, batchVars, sent>> /\ UNCHANGED <<io, lockq>>
    BY DEF BackoffEnds, Working
  <1>2. /\ mem \in [Items -> ItemRecords] /\ work.item \in Items
        /\ mem[work.item] \in ItemRecords
    BY <1>1, HandFacts
  <1>3. PICK v \in BOOLEAN : v = (mem[work.item].q \/ mem[work.item].st # "cancelled")
    OBVIOUS
  <1>4. PICK rec \in ItemRecords : rec = [mem[work.item] EXCEPT !.q = v]
    BY <1>2, Edited
  <1>5. mem' = [mem EXCEPT ![work.item] = rec]
    BY <1>2, <1>3, <1>4 DEF BackoffEnds
  <1>6. work' = Resting
    BY DEF BackoffEnds
  <1>7. QED
    BY <1>1, <1>4, <1>5, <1>6, HandKeeps

LEMMA RequeueKeeps ==
  ASSUME NoticeInv, ConstantsAssumption, TasksApart, Requeue
  PROVE  NoticeInv'
  <1>1. Working /\ UNCHANGED frameW /\ UNCHANGED <<storage, batchVars, sent>> /\ UNCHANGED <<io, lockq>>
    BY DEF Requeue, Working
  <1>2. /\ mem \in [Items -> ItemRecords] /\ work.item \in Items
        /\ mem[work.item] \in ItemRecords
    BY <1>1, HandFacts
  <1>3. PICK rec \in ItemRecords : rec = [mem[work.item] EXCEPT !.q = TRUE]
    BY <1>2, Edited
  <1>4. mem' = [mem EXCEPT ![work.item] = rec]
    BY <1>2, <1>3 DEF Requeue
  <1>5. work' = Resting
    BY DEF Requeue
  <1>6. QED
    BY <1>1, <1>3, <1>4, <1>5, HandKeeps

LEMMA RecordSavedKeeps ==
  ASSUME NoticeInv, ConstantsAssumption, TasksApart, RecordSaved
  PROVE  NoticeInv'
  <1>1. Working /\ UNCHANGED frameW /\ UNCHANGED sent
    BY DEF RecordSaved, Working
  <1>2. PICK i \in Items : i = work.item
    BY <1>1, HandFacts
  <1>3. /\ mem \in [Items -> ItemRecords] /\ mem[i] \in ItemRecords /\ sent \in [Items -> Nat]
        /\ i \in Critical /\ Owed(i) => OwedHere(i)
        /\ i \in Critical => batch[i[1]] # "new"
    BY <1>2, HandFacts, OldItems
  <1>4. CASE work.pc = "savefail" /\ WorkFinish(work.item, mem[work.item], "idle")
    <2>1. i \in Critical /\ Owed(i) => mem[i].st = "failed" /\ ~mem[i].sup /\ mem[i].tries = 0
      BY <1>2, <1>3, <1>4 DEF OwedHere
    <2>2. WorkFinish(i, mem[i], "idle")
      BY <1>2, <1>4
    <2>3. QED
      BY <1>1, <1>3, <2>1, <2>2, WorkFinishKeeps
  <1>5. CASE /\ Unlock("worker") /\ UNCHANGED <<mem, storage, batchVars>>
             /\ \/ work' = [work EXCEPT !.pc = "error"]
                \/ work.pc = "savedone" /\ work' = [work EXCEPT !.pc = "track"]
    <2>1. mem' = [mem EXCEPT ![work.item] = mem[work.item]]
      BY <1>2, <1>3, <1>5
    <2>2. QED
      BY <1>1, <1>2, <1>3, <1>5, <2>1, HandKeeps
  <1>6. QED
    BY <1>4, <1>5 DEF RecordSaved

LEMMA TrackKeeps ==
  ASSUME NoticeInv, ConstantsAssumption, TasksApart, Track
  PROVE  NoticeInv'
  <1>1. Working /\ work.pc = "track" /\ UNCHANGED frameW /\ UNCHANGED sent
    BY DEF Track, Working
  <1>2. PICK i \in Items : i = work.item
    BY <1>1, HandFacts
  <1>3. /\ mem \in [Items -> ItemRecords] /\ mem[i] \in ItemRecords /\ sent \in [Items -> Nat]
        /\ i \in Critical /\ Owed(i) => OwedHere(i)
        /\ i \in Critical => batch[i[1]] # "new"
    BY <1>2, HandFacts, OldItems
  <1>4. CASE WorkFinish(work.item, mem[work.item], "idle")
    <2>1. ~(i \in Critical /\ Owed(i))
      BY <1>1, <1>2, <1>3 DEF OwedHere
    <2>2. WorkFinish(i, mem[i], "idle")
      BY <1>2, <1>4
    <2>3. QED
      BY <1>1, <1>3, <2>1, <2>2, WorkFinishKeeps
  <1>5. CASE work' = [work EXCEPT !.pc = "error"] /\ UNCHANGED <<mem, storage, io, lockq, batchVars>>
    <2>1. mem' = [mem EXCEPT ![work.item] = mem[work.item]]
      BY <1>2, <1>3, <1>5
    <2>2. QED
      BY <1>1, <1>2, <1>3, <1>5, <2>1, HandKeeps
  <1>6. QED
    BY <1>4, <1>5 DEF Track
-----------------------------------------------------------------------------
(* The end of a finish.                                                    *)

LEMMA SettledFacts ==
  ASSUME NoticeInv, ConstantsAssumption, NEW i \in Items, i \in Critical => batch[i[1]] # "new",
         NEW t, FinishSettled(t, i)
  PROVE  /\ storage' = storage /\ Unlock(t)
         /\ mem' \in [Items -> ItemRecords]
         /\ batch' \in [Batches -> {"new", "live", "completed", "gone"}]
         /\ newest' \in Observations \cup {NoBatch}
         /\ \A p \in Items : p # i => mem'[p] = mem[p]
         /\ mem'[i].st = mem[i].st /\ mem'[i].fut = mem[i].fut
         /\ mem'[i].sup = mem[i].sup /\ mem'[i].tries = mem[i].tries
         /\ \A p \in Critical : batch'[p[1]] = "new" => batch[p[1]] = "new" /\ p # i
  <1>1. /\ mem \in [Items -> ItemRecords]
        /\ batch \in [Batches -> {"new", "live", "completed", "gone"}]
        /\ newest \in Observations \cup {NoBatch}
    BY DEF NoticeInv, TypeOK, TypeHere
  <1>2. PICK rec \in ItemRecords : rec = mem[i]
    BY <1>1
  <1>3. PICK free \in ItemRecords : free = Release(i, rec)
    BY DEF Release, ItemRecords
  <1>4. free.st = rec.st /\ free.fut = rec.fut /\ free.sup = rec.sup /\ free.tries = rec.tries
    BY <1>3 DEF Release, ItemRecords
  <1>5. mem' = [mem EXCEPT ![i] = free]
    BY <1>1, <1>2, <1>3 DEF FinishSettled
  <1>6. /\ batch' = [batch EXCEPT ![i[1]] = "completed"] \/ batch' = [batch EXCEPT ![i[1]] = "gone"]
        /\ newest' = newest \/ newest' = NoBatch
        /\ storage' = storage /\ Unlock(t)
    BY DEF FinishSettled, Settled
  <1>7. ASSUME NEW p \in Critical, batch'[p[1]] = "new" PROVE batch[p[1]] = "new" /\ p # i
    BY <1>1, <1>6, <1>7, ItemFacts
  <1>8. QED
    BY <1>1, <1>2, <1>4, <1>5, <1>6, <1>7

LEMMA FailedFacts ==
  ASSUME NoticeInv, NEW gone \in Table, NEW t, FinishFailed(t, gone)
  PROVE  /\ storage' \in Table /\ \A p \in Critical : gone[p] = NoRow => storage'[p] = storage[p]
         /\ Unlock(t) /\ UNCHANGED <<mem, batch, newest>>
  BY DEF NoticeInv, TypeOK, TypeHere, FinishFailed, Table, batchVars

\* A step of the worker after a save of _finish, whatever came of it.
LEMMA AfterKeeps ==
  ASSUME NoticeInv, ConstantsAssumption, TasksApart, UNCHANGED frameW, sent' = sent, Unlock("worker"),
         storage' \in Table, mem' \in [Items -> ItemRecords],
         batch' \in [Batches -> {"new", "live", "completed", "gone"}], newest' \in Observations \cup {NoBatch},
         \A p \in Critical : batch'[p[1]] = "new" => batch[p[1]] = "new" /\ mem'[p] = mem[p],
         \A p \in Critical : /\ mem'[p].st = mem[p].st /\ mem'[p].fut = mem[p].fut
                             /\ mem'[p].sup = mem[p].sup /\ mem'[p].tries = mem[p].tries,
         \A p \in Critical : work.gone[p] = NoRow => storage'[p] = storage[p],
         work' \in WorkRecords, work'.pc \in {"idle", "row", "start", "error"},
         work'.pc = "error" => work.pc = "settle", work'.item \in {work.item, NoItem},
         work'.todo = {} \/ (work'.todo = work.todo /\ work'.rows = work.rows),
         work'.ready \subseteq work.ready, work'.gone \in {work.gone, NoRows},
         work'.pc = "error" => work'.item = work.item
  PROVE  NoticeInv'
  <1>1. TypeHere
    BY DEF NoticeInv, TypeOK
  <1>2. UNCHANGED <<what, enabled, group, disk, adm, canc, accepted, asked, withdrawn>>
    BY DEF frameW, envVars
  <1>3. TypeHere'
    <2>1. Working' => work'.item \in Items
      BY <1>1 DEF TypeHere, Working
    <2>2. QED
      BY <1>1, <1>2, <2>1 DEF TypeHere, Cancelling
  <1>4. ASSUME NEW p \in Critical, batch'[p[1]] = "new" PROVE batch[p[1]] = "new" /\ NewHere(p)'
    <2>1. batch[p[1]] = "new" /\ NewHere(p) /\ mem'[p] = mem[p] /\ p # NoItem
      BY <1>4, ItemFacts DEF NoticeInv
    <2>2. storage'[p] = NoRow
      BY <2>1 DEF NewHere
    <2>3. work'.item # p /\ p \notin work'.todo \cup work'.ready /\ work'.gone[p] = NoRow
      BY <2>1, RowFacts DEF NewHere
    <2>4. QED
      BY <1>2, <2>1, <2>2, <2>3 DEF NewHere
  <1>5. ASSUME NEW p \in Critical, Owed(p) PROVE OwedHere(p)'
    <2>1. OwedHere(p)
      BY <1>5 DEF NoticeInv
    <2>2. storage'[p].status \in Kept
      BY <2>1 DEF OwedHere
    <2>3. mem'[p].st \in Waiting /\ (mem'[p].fut => mem'[p].st = "failed") /\ ~mem'[p].sup /\ mem'[p].tries = 0
      BY <2>1 DEF OwedHere
    <2>4. work'.gone[p] = NoRow /\ (p \in work'.todo => work'.rows[p].status \in Kept)
      BY <2>1, RowFacts DEF OwedHere
    <2>5. work'.pc \notin {"savedone", "track", "savefail", "prepare", "transport"}
      OBVIOUS
    <2>6. QED
      BY <1>2, <2>1, <2>2, <2>3, <2>4, <2>5 DEF OwedHere
  <1>6. QED
    BY <1>2, <1>3, <1>4, <1>5, StepKeeps

LEMMA WorkSettledKeeps ==
  ASSUME NoticeInv, ConstantsAssumption, TasksApart, WorkSettled
  PROVE  NoticeInv'
  <1>1. Working /\ UNCHANGED frameW /\ sent' = sent /\ work.pc = "settle"
    BY DEF WorkSettled, Working
  <1>2. PICK i \in Items : i = work.item
    BY <1>1, HandFacts
  <1>3. /\ i \in Critical => batch[i[1]] # "new"
        /\ work \in WorkRecords
        /\ batch \in [Batches -> {"new", "live", "completed", "gone"}]
        /\ newest \in Observations \cup {NoBatch}
        /\ mem \in [Items -> ItemRecords] /\ storage \in Table
    BY <1>2, OldItems, HandFacts DEF NoticeInv, TypeOK, TypeHere
  <1>4. /\ work' \in WorkRecords /\ work'.pc \in {"idle", "row", "start", "error"}
        /\ work'.item \in {work.item, NoItem}
        /\ work'.todo = {} \/ (work'.todo = work.todo /\ work'.rows = work.rows)
        /\ work'.ready \subseteq work.ready /\ work'.gone \in {work.gone, NoRows}
        /\ work'.pc = "error" => work'.item = work.item
    <2>1. \/ work' = [work EXCEPT !.pc = "row", !.item = NoItem, !.gone = NoRows]
          \/ work' = Resting \/ work' = Starting
          \/ work' = [work EXCEPT !.pc = "error", !.gone = NoRows]
      BY DEF WorkSettled
    <2>2. CASE work' = [work EXCEPT !.pc = "row", !.item = NoItem, !.gone = NoRows]
      BY <1>3, <2>2, RowFacts DEF WorkRecords
    <2>3. CASE work' = [work EXCEPT !.pc = "error", !.gone = NoRows]
      BY <1>3, <2>3, RowFacts DEF WorkRecords
    <2>4. CASE work' = Resting \/ work' = Starting
      BY <2>4, RestFacts
    <2>5. QED
      BY <2>1, <2>2, <2>3, <2>4
  <1>5. CASE FinishSettled("worker", work.item)
    <2>1. FinishSettled("worker", i)
      BY <1>2, <1>5
    <2>2. /\ storage' = storage /\ Unlock("worker")
          /\ mem' \in [Items -> ItemRecords]
          /\ batch' \in [Batches -> {"new", "live", "completed", "gone"}]
          /\ newest' \in Observations \cup {NoBatch}
          /\ \A p \in Items : p # i => mem'[p] = mem[p]
          /\ mem'[i].st = mem[i].st /\ mem'[i].fut = mem[i].fut
          /\ mem'[i].sup = mem[i].sup /\ mem'[i].tries = mem[i].tries
          /\ \A p \in Critical : batch'[p[1]] = "new" => batch[p[1]] = "new" /\ p # i
      BY <1>3, <2>1, SettledFacts
    <2>3. \A p \in Critical : /\ mem'[p].st = mem[p].st /\ mem'[p].fut = mem[p].fut
                              /\ mem'[p].sup = mem[p].sup /\ mem'[p].tries = mem[p].tries
      BY <2>2, ItemFacts
    <2>4. \A p \in Critical : batch'[p[1]] = "new" => batch[p[1]] = "new" /\ mem'[p] = mem[p]
      BY <2>2, ItemFacts
    <2>5. QED
      BY <1>1, <1>3, <1>4, <2>2, <2>3, <2>4, AfterKeeps
  <1>6. CASE FinishFailed("worker", work.gone)
    <2>1. PICK gone \in Table : gone = work.gone
      BY <1>3 DEF WorkRecords
    <2>2. FinishFailed("worker", gone)
      BY <1>6, <2>1
    <2>3. /\ storage' \in Table /\ \A p \in Critical : work.gone[p] = NoRow => storage'[p] = storage[p]
          /\ Unlock("worker") /\ UNCHANGED <<mem, batch, newest>>
      BY <2>1, <2>2, FailedFacts
    <2>4. QED
      BY <1>1, <1>3, <1>4, <2>3, AfterKeeps
  <1>7. QED
    BY <1>5, <1>6 DEF WorkSettled
-----------------------------------------------------------------------------
(* The reload.                                                             *)

\* A step of the reload that changes no row and queues items at most.
LEMMA LoopKeeps ==
  ASSUME NoticeInv, ConstantsAssumption, TasksApart, UNCHANGED frameW, UNCHANGED <<storage, batchVars, sent>>,
         Save("worker", storage) \/ Unlock("worker") \/ UNCHANGED <<io, lockq>>,
         mem' = mem \/ mem' = QueueReady,
         work' \in WorkRecords, work'.pc \in {"start", "idle", "row", "pin"},
         work'.item \in {work.item, NoItem}, work'.gone \in {work.gone, NoRows},
         \/ work'.todo = {}
         \/ work'.todo \subseteq work.todo /\ work'.rows = work.rows
         \/ work'.todo \subseteq {p \in Critical : storage[p] # NoRow} /\ work'.rows = storage,
         work'.ready \subseteq work.ready
  PROVE  NoticeInv'
  <1>1. TypeHere
    BY DEF NoticeInv, TypeOK
  <1>2. UNCHANGED <<what, enabled, group, disk, adm, canc, accepted, asked, withdrawn, batch, newest, storage, sent>>
    BY DEF frameW, envVars, batchVars
  <1>3. PICK R \in Table : R = storage
    BY <1>1 DEF TypeHere
  <1>4. /\ mem' \in [Items -> ItemRecords]
        /\ \A p \in Items : /\ mem'[p].st = mem[p].st /\ mem'[p].fut = mem[p].fut
                            /\ mem'[p].sup = mem[p].sup /\ mem'[p].tries = mem[p].tries
                            /\ p \notin work.ready => mem'[p] = mem[p]
    <2>1. mem \in [Items -> ItemRecords]
      BY <1>1 DEF TypeHere
    <2>2. CASE mem' = mem
      BY <2>1, <2>2
    <2>3. CASE mem' = QueueReady
      <3>1. \A p \in Items : mem'[p] = IF p \in work.ready THEN [mem[p] EXCEPT !.q = TRUE] ELSE mem[p]
        BY <2>3 DEF QueueReady
      <3>2. mem' = [p \in Items |-> mem'[p]]
        BY <2>3 DEF QueueReady
      <3>3. ASSUME NEW p \in Items
            PROVE  /\ mem'[p] \in ItemRecords
                   /\ mem'[p].st = mem[p].st /\ mem'[p].fut = mem[p].fut
                   /\ mem'[p].sup = mem[p].sup /\ mem'[p].tries = mem[p].tries
                   /\ p \notin work.ready => mem'[p] = mem[p]
        <4>1. PICK rec \in ItemRecords : rec = mem[p]
          BY <2>1
        <4>2. /\ [rec EXCEPT !.q = TRUE] \in ItemRecords
              /\ [rec EXCEPT !.q = TRUE].st = rec.st /\ [rec EXCEPT !.q = TRUE].fut = rec.fut
              /\ [rec EXCEPT !.q = TRUE].sup = rec.sup /\ [rec EXCEPT !.q = TRUE].tries = rec.tries
          BY DEF ItemRecords
        <4>3. mem'[p] = IF p \in work.ready THEN [rec EXCEPT !.q = TRUE] ELSE rec
          BY <3>1, <4>1
        <4>4. QED
          BY <4>1, <4>2, <4>3
      <3>4. QED
        BY <3>2, <3>3
    <2>4. QED
      BY <2>2, <2>3
  <1>5. TypeHere'
    <2>1. ~Working'
      BY DEF Working
    <2>2. QED
      BY <1>1, <1>2, <1>4, <2>1 DEF TypeHere, Cancelling
  <1>6. ASSUME NEW p \in Critical, batch'[p[1]] = "new" PROVE batch[p[1]] = "new" /\ NewHere(p)'
    <2>1. batch[p[1]] = "new" /\ NewHere(p) /\ p \in Items /\ p # NoItem
      BY <1>2, <1>6, ItemFacts DEF NoticeInv
    <2>2. mem'[p] = Blank
      BY <1>4, <2>1 DEF NewHere
    <2>3. work'.item # p /\ p \notin work'.todo \cup work'.ready /\ work'.gone[p] = NoRow
      BY <2>1, RowFacts DEF NewHere
    <2>4. QED
      BY <1>2, <2>1, <2>2, <2>3 DEF NewHere
  <1>7. ASSUME NEW p \in Critical, Owed(p) PROVE OwedHere(p)'
    <2>1. OwedHere(p) /\ p \in Items
      BY <1>7, ItemFacts DEF NoticeInv
    <2>2. mem'[p].st \in Waiting /\ (mem'[p].fut => mem'[p].st = "failed") /\ ~mem'[p].sup /\ mem'[p].tries = 0
      BY <1>4, <2>1 DEF OwedHere
    <2>3. work'.gone[p] = NoRow
      BY <2>1, RowFacts DEF OwedHere
    <2>4. p \in work'.todo => work'.rows[p].status \in Kept
      BY <2>1 DEF OwedHere
    <2>5. work'.pc \notin {"savedone", "track", "savefail", "prepare", "transport"}
      OBVIOUS
    <2>6. QED
      BY <1>2, <2>1, <2>2, <2>3, <2>4, <2>5 DEF OwedHere
  <1>8. R = storage' /\ (Save("worker", R) \/ Unlock("worker") \/ UNCHANGED <<io, lockq>>)
    BY <1>2, <1>3
  <1>9. QED
    BY <1>2, <1>5, <1>6, <1>7, <1>8, StepKeeps

LEMMA ReloadKeeps ==
  ASSUME NoticeInv, ConstantsAssumption, TasksApart, Reload
  PROVE  NoticeInv'
  <1>1. storage \in Table
    BY HandFacts
  <1>2. work' = [Resting EXCEPT !.pc = "row", !.rows = storage, !.todo = {i \in Critical : storage[i] # NoRow}]
    BY DEF Reload
  <1>3. PICK todo \in SUBSET Critical : todo = {i \in Critical : storage[i] # NoRow}
    OBVIOUS
  <1>4. work' = [Resting EXCEPT !.pc = "row", !.rows = storage, !.todo = todo]
    BY <1>2, <1>3
  <1>5. /\ work' \in WorkRecords /\ work'.pc = "row" /\ work'.item = NoItem /\ work'.gone = NoRows
        /\ work'.todo = todo /\ work'.rows = storage /\ work'.ready = {}
    BY <1>1, <1>4, RestFacts DEF WorkRecords
  <1>6. mem' = mem /\ UNCHANGED frameW /\ UNCHANGED <<storage, batchVars, sent>> /\ UNCHANGED <<io, lockq>>
    BY DEF Reload
  <1>7. QED
    BY <1>3, <1>5, <1>6, LoopKeeps

\* The end of a reload, with or without a save.
LEMMA ReloadEndsKeeps ==
  ASSUME NoticeInv, ConstantsAssumption, TasksApart, ReloadEnds \/ Pinned
  PROVE  NoticeInv'
  <1>1. work \in WorkRecords
    BY HandFacts
  <1>2. UNCHANGED frameW /\ UNCHANGED <<storage, batchVars, sent>>
    BY DEF ReloadEnds, Pinned
  <1>3. Save("worker", storage) \/ Unlock("worker") \/ UNCHANGED <<io, lockq>>
    BY DEF ReloadEnds, Pinned
  <1>4. mem' = mem \/ mem' = QueueReady
    BY DEF ReloadEnds, Pinned
  <1>5. CASE work' = [work EXCEPT !.pc = "pin"]
    <2>1. /\ work' \in WorkRecords /\ work'.pc = "pin" /\ work'.item = work.item /\ work'.gone = work.gone
          /\ work'.todo = work.todo /\ work'.rows = work.rows /\ work'.ready = work.ready
      BY <1>1, <1>5 DEF WorkRecords
    <2>2. QED
      BY <1>2, <1>3, <1>4, <2>1, LoopKeeps
  <1>6. CASE work' \in {Resting, Starting}
    <2>1. /\ work' \in WorkRecords /\ work'.pc \in {"idle", "start"} /\ work'.item = NoItem
          /\ work'.gone = NoRows /\ work'.todo = {} /\ work'.ready = {}
      BY <1>6, RestFacts
    <2>2. QED
      BY <1>2, <1>3, <1>4, <2>1, LoopKeeps
  <1>7. QED
    BY <1>5, <1>6 DEF ReloadEnds, Pinned
\* A row that is neither passed over nor finished is ready, pinned to the chat of today when
\* it had none.
LEMMA ReadyKeeps ==
  ASSUME NoticeInv, ConstantsAssumption, TasksApart, NEW i \in Critical,
         i \in work.todo, mem[i].reg, work.pc = "row",
         work' = [work EXCEPT !.todo = @ \ {i}, !.ready = @ \cup {i}],
         \/ UNCHANGED <<mem, storage>>
         \/ /\ mem' = [mem EXCEPT ![i] = [mem[i] EXCEPT !.chat = group]]
            /\ storage' = [storage EXCEPT ![i] = Row([mem[i] EXCEPT !.chat = group])],
         UNCHANGED <<io, lockq, batchVars, sent>>, UNCHANGED frameW
  PROVE  NoticeInv'
  <1>1. TypeHere
    BY DEF NoticeInv, TypeOK
  <1>2. UNCHANGED <<what, enabled, group, disk, adm, canc, accepted, asked, withdrawn, batch, newest, sent>>
    BY DEF frameW, envVars, batchVars
  <1>3. i \in Items /\ batch[i[1]] # "new"
    BY ItemFacts, OldItems
  <1>4. PICK rec \in ItemRecords : rec = [mem[i] EXCEPT !.chat = group]
    BY <1>1, <1>3 DEF TypeHere, ItemRecords
  <1>5. rec.st = mem[i].st /\ rec.fut = mem[i].fut /\ rec.sup = mem[i].sup /\ rec.tries = mem[i].tries
    BY <1>1, <1>3, <1>4 DEF TypeHere, ItemRecords
  <1>6. PICK new \in ItemRecords : /\ mem' = [mem EXCEPT ![i] = new]
                                   /\ new.st = mem[i].st /\ new.fut = mem[i].fut
                                   /\ new.sup = mem[i].sup /\ new.tries = mem[i].tries
                                   /\ storage' = storage \/ storage' = [storage EXCEPT ![i] = Row(new)]
    <2>1. CASE UNCHANGED <<mem, storage>>
      <3>1. mem[i] \in ItemRecords /\ mem' = [mem EXCEPT ![i] = mem[i]] /\ storage' = storage
        BY <1>1, <1>3, <2>1 DEF TypeHere
      <3>2. QED
        BY <3>1
    <2>2. CASE /\ mem' = [mem EXCEPT ![i] = [mem[i] EXCEPT !.chat = group]]
               /\ storage' = [storage EXCEPT ![i] = Row([mem[i] EXCEPT !.chat = group])]
      <3>1. mem' = [mem EXCEPT ![i] = rec] /\ storage' = [storage EXCEPT ![i] = Row(rec)]
        BY <1>4, <2>2
      <3>2. QED
        BY <1>5, <3>1
    <2>3. QED
      BY <2>1, <2>2
  <1>7. PICK row \in [status : States, chat : Chats] :
           row = Row(new) /\ (new.st \in Waiting => row.status \in Kept)
    BY RowOf
  <1>8. /\ mem' \in [Items -> ItemRecords]
        /\ \A p \in Items : mem'[p] = IF p = i THEN new ELSE mem[p]
    BY <1>1, <1>3, <1>6 DEF TypeHere
  <1>9. /\ storage' \in Table
        /\ \A p \in Critical : storage'[p] = storage[p] \/ (p = i /\ storage'[p] = row)
    BY <1>1, <1>6, <1>7 DEF TypeHere, Table
  <1>10. /\ work' \in WorkRecords /\ work'.pc = "row" /\ work'.item = work.item /\ work'.rows = work.rows
         /\ work'.todo = work.todo \ {i} /\ work'.ready = work.ready \cup {i} /\ work'.gone = work.gone
    <2>1. PICK todo \in SUBSET Critical : todo = work.todo \ {i}
      BY <1>1 DEF TypeHere, WorkRecords
    <2>2. PICK ready \in SUBSET Critical : ready = work.ready \cup {i}
      BY <1>1 DEF TypeHere, WorkRecords
    <2>3. work \in WorkRecords /\ work' = [work EXCEPT !.todo = todo, !.ready = ready]
      BY <1>1, <2>1, <2>2 DEF TypeHere
    <2>4. QED
      BY <2>1, <2>2, <2>3 DEF WorkRecords
  <1>11. TypeHere'
    <2>1. ~Working'
      BY <1>10 DEF Working
    <2>2. QED
      BY <1>1, <1>2, <1>8, <1>9, <1>10, <2>1 DEF TypeHere, Cancelling
  <1>12. ASSUME NEW p \in Critical, batch'[p[1]] = "new" PROVE batch[p[1]] = "new" /\ NewHere(p)'
    <2>1. batch[p[1]] = "new" /\ NewHere(p) /\ p \in Items /\ p # i
      BY <1>2, <1>3, <1>12, ItemFacts DEF NoticeInv
    <2>2. mem'[p] = Blank /\ storage'[p] = NoRow
      BY <1>8, <1>9, <2>1 DEF NewHere
    <2>3. work'.item # p /\ p \notin work'.todo \cup work'.ready /\ work'.gone[p] = NoRow
      BY <1>10, <2>1 DEF NewHere
    <2>4. QED
      BY <1>2, <2>1, <2>2, <2>3 DEF NewHere
  <1>13. ASSUME NEW p \in Critical, Owed(p) PROVE OwedHere(p)'
    <2>1. OwedHere(p) /\ p \in Items
      BY <1>13, ItemFacts DEF NoticeInv
    <2>2. mem'[p].st \in Waiting /\ (mem'[p].fut => mem'[p].st = "failed") /\ ~mem'[p].sup /\ mem'[p].tries = 0
      BY <1>6, <1>8, <2>1 DEF OwedHere
    <2>3. storage'[p].status \in Kept
      BY <1>6, <1>7, <1>9, <2>1 DEF OwedHere
    <2>4. work'.gone[p] = NoRow /\ (p \in work'.todo => work'.rows[p].status \in Kept)
      BY <1>10, <2>1 DEF OwedHere
    <2>5. work'.pc \notin {"savedone", "track", "savefail", "prepare", "transport"}
      BY <1>10
    <2>6. QED
      BY <1>2, <2>1, <2>2, <2>3, <2>4, <2>5 DEF OwedHere
  <1>14. UNCHANGED <<io, lockq>>
    OBVIOUS
  <1>15. PICK R \in Table : R = storage'
    BY <1>9
  <1>16. QED
    BY <1>2, <1>11, <1>12, <1>13, <1>14, <1>15, StepKeeps

LEMMA ReloadRowKeeps ==
  ASSUME NoticeInv, ConstantsAssumption, TasksApart, NEW i \in Critical, ReloadRow(i)
  PROVE  NoticeInv'
  <1>1. /\ i \in work.todo /\ mem[i].reg /\ work.pc = "row" /\ UNCHANGED frameW /\ sent' = sent
        /\ i \in Items /\ batch[i[1]] # "new"
    BY ItemFacts, OldItems DEF ReloadRow
  <1>2. /\ work \in WorkRecords /\ mem[i] \in ItemRecords /\ sent \in [Items -> Nat]
        /\ Owed(i) => OwedHere(i)
    BY <1>1, HandFacts
  <1>3. CASE work' = [work EXCEPT !.todo = @ \ {i}] /\ UNCHANGED <<mem, storage, io, lockq, batchVars>>
    <2>1. PICK todo \in SUBSET Critical : todo = work.todo \ {i}
      BY <1>2 DEF WorkRecords
    <2>2. work' = [work EXCEPT !.todo = todo]
      BY <1>3, <2>1
    <2>3. /\ work' \in WorkRecords /\ work'.pc = "row" /\ work'.item = work.item /\ work'.rows = work.rows
          /\ work'.todo = todo /\ work'.ready = work.ready /\ work'.gone = work.gone
      BY <1>1, <1>2, <2>2 DEF WorkRecords
    <2>4. QED
      BY <1>1, <1>3, <2>1, <2>3, LoopKeeps
  <1>4. CASE mem[i].st \in {"failed", "cancelled"} /\ WorkFinish(i, mem[i], "row")
    <2>1. Owed(i) => mem[i].st = "failed" /\ ~mem[i].sup /\ mem[i].tries = 0
      BY <1>2, <1>4 DEF OwedHere, Waiting
    <2>2. QED
      BY <1>1, <1>2, <1>4, <2>1, WorkFinishKeeps
  <1>5. CASE /\ work' = [work EXCEPT !.todo = @ \ {i}, !.ready = @ \cup {i}]
             /\ \/ UNCHANGED <<mem, storage>>
                \/ /\ mem' = [mem EXCEPT ![i] = [mem[i] EXCEPT !.chat = group]]
                   /\ storage' = [storage EXCEPT ![i] = Row([mem[i] EXCEPT !.chat = group])]
             /\ UNCHANGED <<io, lockq, batchVars>>
    BY <1>1, <1>5, ReadyKeeps
  <1>6. QED
    BY <1>3, <1>4, <1>5 DEF ReloadRow
LEMMA RecreateKeeps ==
  ASSUME NoticeInv, ConstantsAssumption, TasksApart, NEW i \in Critical, Recreate(i)
  PROVE  NoticeInv'
  <1>1. TypeHere
    BY DEF NoticeInv, TypeOK
  <1>2. /\ UNCHANGED <<what, enabled, group, disk, canc, accepted, asked, withdrawn, storage, io, lockq, newest>>
        /\ UNCHANGED <<work, sent>>
        /\ i \in work.todo /\ work.pc = "row"
    BY DEF Recreate, envVars
  <1>3. i \in Items /\ i[1] \in Batches /\ batch[i[1]] # "new"
    BY <1>2, ItemFacts, OldItems
  <1>4. PICK row \in [status : States, chat : Chats] : row = work.rows[i]
    BY <1>1 DEF TypeHere, WorkRecords, Table
  <1>5. PICK q \in BOOLEAN : q = mem[i].q
    BY <1>1, <1>3 DEF TypeHere, ItemRecords
  <1>6. PICK rec \in ItemRecords : rec = [Blank EXCEPT !.st = IF row.status = "pending" THEN "queued" ELSE row.status,
                                                       !.reg = TRUE, !.own = TRUE, !.q = q, !.chat = row.chat]
    <2>1. PICK st \in States : st = IF row.status = "pending" THEN "queued" ELSE row.status
      BY <1>4 DEF States
    <2>2. Blank \in ItemRecords /\ row.chat \in Chats
      BY <1>4, RowFacts
    <2>3. [Blank EXCEPT !.st = st, !.reg = TRUE, !.own = TRUE, !.q = q, !.chat = row.chat] \in ItemRecords
      BY <1>5, <2>2 DEF ItemRecords
    <2>4. QED
      BY <2>1, <2>3
  <1>7. /\ rec.st = IF row.status = "pending" THEN "queued" ELSE row.status
        /\ ~rec.fut /\ ~rec.sup /\ rec.tries = 0
    BY <1>6 DEF Blank
  <1>8. /\ mem' = [p \in Items |-> IF p = i THEN rec
                                   ELSE IF p[1] = i[1] /\ batch[i[1]] = "gone" THEN [mem[p] EXCEPT !.own = FALSE]
                                   ELSE mem[p]]
        /\ batch' = [batch EXCEPT ![i[1]] = IF @ = "gone" THEN "live" ELSE @]
        /\ adm' \subseteq adm
    BY <1>4, <1>5, <1>6 DEF Recreate
  <1>9. ASSUME NEW p \in Items
        PROVE  /\ mem'[p] \in ItemRecords
               /\ p = i => mem'[p] = rec
               /\ p # i => /\ mem'[p].st = mem[p].st /\ mem'[p].fut = mem[p].fut
                           /\ mem'[p].sup = mem[p].sup /\ mem'[p].tries = mem[p].tries
               /\ p[1] # i[1] => mem'[p] = mem[p]
    <2>1. PICK old \in ItemRecords : old = mem[p]
      BY <1>1 DEF TypeHere
    <2>2. /\ [old EXCEPT !.own = FALSE] \in ItemRecords
          /\ [old EXCEPT !.own = FALSE].st = old.st /\ [old EXCEPT !.own = FALSE].fut = old.fut
          /\ [old EXCEPT !.own = FALSE].sup = old.sup /\ [old EXCEPT !.own = FALSE].tries = old.tries
      BY DEF ItemRecords
    <2>3. mem'[p] = IF p = i THEN rec
                    ELSE IF p[1] = i[1] /\ batch[i[1]] = "gone" THEN [old EXCEPT !.own = FALSE]
                    ELSE old
      BY <1>8, <2>1
    <2>4. QED
      BY <2>1, <2>2, <2>3
  <1>10. mem' \in [Items -> ItemRecords]
    BY <1>8, <1>9
  <1>11. /\ batch' \in [Batches -> {"new", "live", "completed", "gone"}]
         /\ \A b \in Batches : batch'[b] = "new" => batch[b] = "new" /\ b # i[1]
    BY <1>1, <1>3, <1>8 DEF TypeHere
  <1>12. TypeHere'
    BY <1>1, <1>2, <1>8, <1>10, <1>11 DEF TypeHere, Working, Cancelling
  <1>13. ASSUME NEW p \in Critical, batch'[p[1]] = "new" PROVE batch[p[1]] = "new" /\ NewHere(p)'
    <2>1. batch[p[1]] = "new" /\ p[1] # i[1] /\ p \in Items
      BY <1>11, <1>13, ItemFacts
    <2>2. NewHere(p)
      BY <2>1 DEF NoticeInv
    <2>3. QED
      BY <1>2, <1>9, <2>1, <2>2 DEF NewHere
  <1>14. ASSUME NEW p \in Critical, Owed(p) PROVE OwedHere(p)'
    <2>1. OwedHere(p) /\ p \in Items
      BY <1>14, ItemFacts DEF NoticeInv
    <2>2. mem'[p].st \in Waiting /\ (mem'[p].fut => mem'[p].st = "failed") /\ ~mem'[p].sup /\ mem'[p].tries = 0
      <3>1. CASE p = i
        <4>1. row.status \in Kept
          BY <1>2, <1>4, <2>1, <3>1 DEF OwedHere
        <4>2. QED
          BY <1>7, <1>9, <2>1, <3>1, <4>1 DEF Kept, Waiting
      <3>2. CASE p # i
        BY <1>9, <2>1, <3>2 DEF OwedHere
      <3>3. QED
        BY <3>1, <3>2
    <2>3. QED
      BY <1>2, <2>1, <2>2 DEF OwedHere
  <1>15. PICK R \in Table : R = storage'
    BY <1>1, <1>2 DEF TypeHere
  <1>16. UNCHANGED <<io, lockq>>
    BY <1>2
  <1>17. \A p \in Critical : /\ sent'[p] = 0 => sent[p] = 0
                             /\ batch'[p[1]] = "new" => batch[p[1]] = "new" /\ NewHere(p)'
                             /\ Owed(p) /\ Owed(p)' => OwedHere(p)'
    BY <1>2, <1>13, <1>14
  <1>18. QED
    BY <1>2, <1>8, <1>12, <1>15, <1>16, <1>17, StepKeeps

-----------------------------------------------------------------------------
(* cancel_pending.                                                         *)

\* A step of cancel_pending that changes no row and no item.
LEMMA AskKeeps ==
  ASSUME NoticeInv, ConstantsAssumption, TasksApart, UNCHANGED frameC, UNCHANGED <<mem, storage, batch, newest, asked>>,
         Unlock("canc") \/ UNCHANGED <<io, lockq>>,
         canc' \in CancRecords, canc'.pc \in {"idle", "next"}, canc'.item = NoItem \/ canc'.item = canc.item,
         \A p \in canc'.todo : p \in canc.todo \/ mem[p].reg, canc'.gone \in {canc.gone, NoRows}
  PROVE  NoticeInv'
  <1>1. TypeHere
    BY DEF NoticeInv, TypeOK
  <1>2. UNCHANGED <<what, enabled, group, disk, adm, work, sent, accepted>>
    BY DEF frameC, envVars
  <1>3. TypeHere'
    <2>1. ~Cancelling'
      BY DEF Cancelling
    <2>2. QED
      BY <1>1, <1>2, <2>1 DEF TypeHere, Working
  <1>4. ASSUME NEW p \in Critical, batch'[p[1]] = "new" PROVE batch[p[1]] = "new" /\ NewHere(p)'
    <2>1. batch[p[1]] = "new" /\ NewHere(p) /\ p # NoItem
      BY <1>4, ItemFacts DEF NoticeInv
    <2>2. QED
      BY <1>2, <2>1, RowFacts DEF NewHere
  <1>5. ASSUME NEW p \in Critical, Owed(p) PROVE OwedHere(p)'
    <2>1. OwedHere(p) /\ p # NoItem
      BY <1>5, ItemFacts DEF NoticeInv
    <2>2. canc'.item # p /\ canc'.gone[p] = NoRow
      BY <2>1, RowFacts DEF OwedHere
    <2>3. QED
      BY <1>2, <2>1, <2>2 DEF OwedHere
  <1>6. PICK R \in Table : R = storage'
    BY <1>1 DEF TypeHere
  <1>7. \A p \in Critical : sent'[p] = 0 => sent[p] = 0
    BY <1>2
  <1>8. QED
    BY <1>2, <1>3, <1>4, <1>5, <1>6, <1>7, StepKeeps

LEMMA CancelStartKeeps ==
  ASSUME NoticeInv, ConstantsAssumption, TasksApart, NEW b \in Notices, CancelStart(b)
  PROVE  NoticeInv'
  <1>1. PICK registered \in SUBSET Critical : registered = {i \in Parts(b) : mem[i].reg}
    BY ItemFacts
  <1>2. canc' = [Unasked EXCEPT !.pc = "next", !.todo = registered]
    BY <1>1 DEF CancelStart
  <1>3. canc' \in CancRecords /\ canc'.pc = "next" /\ canc'.item = NoItem /\ canc'.todo = registered /\ canc'.gone = NoRows
    BY <1>2, RestFacts DEF CancRecords
  <1>4. UNCHANGED frameC /\ UNCHANGED <<mem, storage, batch, newest, asked>> /\ UNCHANGED <<io, lockq>>
    BY DEF CancelStart, batchVars
  <1>5. QED
    BY <1>1, <1>3, <1>4, AskKeeps

LEMMA CancelEndsKeeps ==
  ASSUME NoticeInv, ConstantsAssumption, TasksApart, CancelEnds
  PROVE  NoticeInv'
  <1>1. canc' = Unasked /\ UNCHANGED frameC /\ UNCHANGED <<mem, storage, batch, newest, asked>>
        /\ UNCHANGED <<io, lockq>>
    BY DEF CancelEnds, batchVars
  <1>2. canc' \in CancRecords /\ canc'.pc = "idle" /\ canc'.item = NoItem /\ canc'.todo = {} /\ canc'.gone = NoRows
    BY <1>1, RestFacts
  <1>3. QED
    BY <1>1, <1>2, AskKeeps
\* A step of cancel_pending that touches only what has been asked back.
LEMMA CancelKeeps ==
  ASSUME NoticeInv, ConstantsAssumption, TasksApart, UNCHANGED frameC,
         asked \subseteq asked', asked' \subseteq Critical,
         Save("canc", storage') \/ Unlock("canc"),
         storage' \in Table, mem' \in [Items -> ItemRecords],
         batch' \in [Batches -> {"new", "live", "completed", "gone"}], newest' \in Observations \cup {NoBatch},
         \A p \in Critical : batch'[p[1]] = "new" =>
           batch[p[1]] = "new" /\ mem'[p] = mem[p] /\ (storage[p] = NoRow => storage'[p] = NoRow),
         \A p \in Critical : Owed(p) /\ p \notin asked' =>
           mem'[p] = mem[p] /\ storage'[p] = storage[p],
         canc' \in CancRecords, Cancelling' => canc'.item \in asked',
         canc'.item = NoItem \/ (canc'.item \in asked' /\ batch[canc'.item[1]] # "new"),
         canc'.todo \subseteq canc.todo,
         \A p \in Critical : Owed(p) \/ batch[p[1]] = "new" => canc'.gone[p] = NoRow
  PROVE  NoticeInv'
  <1>1. TypeHere
    BY DEF NoticeInv, TypeOK
  <1>2. UNCHANGED <<what, enabled, group, disk, adm, work, sent, accepted>>
    BY DEF frameC, envVars
  <1>3. TypeHere'
    BY <1>1, <1>2 DEF TypeHere, Working
  <1>4. ASSUME NEW p \in Critical, batch'[p[1]] = "new" PROVE batch[p[1]] = "new" /\ NewHere(p)'
    <2>1. batch[p[1]] = "new" /\ NewHere(p) /\ p # NoItem /\ mem'[p] = mem[p]
      BY <1>4, ItemFacts DEF NoticeInv
    <2>2. storage'[p] = NoRow
      BY <1>4, <2>1 DEF NewHere
    <2>3. canc'.item # p /\ canc'.gone[p] = NoRow /\ p \notin canc'.todo
      BY <2>1 DEF NewHere
    <2>4. QED
      BY <1>2, <2>1, <2>2, <2>3 DEF NewHere
  <1>5. ASSUME NEW p \in Critical, Owed(p), Owed(p)' PROVE OwedHere(p)'
    <2>1. OwedHere(p) /\ p # NoItem /\ p \notin asked'
      BY <1>5, ItemFacts DEF NoticeInv, Owed
    <2>2. canc'.item # p /\ canc'.gone[p] = NoRow /\ mem'[p] = mem[p] /\ storage'[p] = storage[p]
      BY <1>5, <2>1
    <2>3. QED
      BY <1>2, <2>1, <2>2 DEF OwedHere
  <1>6. PICK R \in Table : R = storage'
    OBVIOUS
  <1>7. \A p \in Critical : sent'[p] = 0 => sent[p] = 0
    BY <1>2
  <1>8. QED
    BY <1>2, <1>3, <1>4, <1>5, <1>6, <1>7, StepKeeps

LEMMA CancelNextKeeps ==
  ASSUME NoticeInv, ConstantsAssumption, TasksApart, NEW i \in Critical, CancelNext(i)
  PROVE  NoticeInv'
  <1>1. TypeHere
    BY DEF NoticeInv, TypeOK
  <1>2. /\ UNCHANGED frameC /\ UNCHANGED batchVars /\ canc.pc = "next" /\ i \in canc.todo
        /\ i \in Items /\ batch[i[1]] # "new" /\ canc \in CancRecords
    BY ItemFacts, OldItems, HandFacts DEF CancelNext
  <1>3. mem[i] \in ItemRecords
    BY <1>1, <1>2 DEF TypeHere
  <1>4. PICK todo \in SUBSET Critical : todo = canc.todo \ {i}
    BY <1>2 DEF CancRecords
  <1>5. CASE mem[i].st = "delivered"
    <2>1. canc' = [canc EXCEPT !.todo = todo] /\ UNCHANGED <<mem, storage, io, lockq, asked>>
      BY <1>4, <1>5 DEF CancelNext
    <2>2. /\ canc' \in CancRecords /\ canc'.pc = "next" /\ canc'.item = canc.item /\ canc'.todo = todo
          /\ canc'.gone = canc.gone
      BY <1>2, <2>1 DEF CancRecords
    <2>3. /\ UNCHANGED frameC /\ UNCHANGED <<mem, storage, batch, newest, asked>>
          /\ UNCHANGED <<io, lockq>>
      BY <1>2, <2>1 DEF batchVars
    <2>4. canc'.pc \in {"idle", "next"} /\ canc'.gone \in {canc.gone, NoRows}
      BY <2>2
    <2>5. \A p \in canc'.todo : p \in canc.todo
      BY <1>4, <2>2
    <2>6. canc' \in CancRecords /\ canc'.item = canc.item
      BY <2>2
    <2>7. QED
      BY <2>3, <2>4, <2>5, <2>6, AskKeeps
  <1>6. CASE mem[i].st # "delivered"
    <2>1. PICK rec \in ItemRecords : rec = [mem[i] EXCEPT !.st = "cancelled"]
      BY <1>3 DEF ItemRecords, States
    <2>2. PICK R \in Table : R = [storage EXCEPT ![i] = Row(rec)]
      BY <1>1, RowOf DEF TypeHere, Table
    <2>3. /\ mem' = [mem EXCEPT ![i] = rec] /\ storage' = R /\ Save("canc", R)
          /\ canc' = [canc EXCEPT !.pc = "saving", !.item = i, !.todo = todo]
          /\ asked' = asked \cup {i}
      BY <1>4, <1>6, <2>1, <2>2 DEF CancelNext
    <2>4. /\ canc' \in CancRecords /\ canc'.pc = "saving" /\ canc'.item = i /\ canc'.todo = todo
          /\ canc'.gone = canc.gone
      BY <1>2, <2>3 DEF CancRecords
    <2>5. /\ mem' \in [Items -> ItemRecords]
          /\ \A p \in Critical : p # i => mem'[p] = mem[p] /\ storage'[p] = storage[p]
      BY <1>1, <2>2, <2>3, ItemFacts DEF TypeHere, Table
    <2>6. asked \subseteq asked' /\ asked' \subseteq Critical /\ i \in asked'
      BY <1>1, <2>3 DEF TypeHere
    <2>7. ASSUME NEW p \in Critical, batch'[p[1]] = "new"
          PROVE  batch[p[1]] = "new" /\ mem'[p] = mem[p] /\ (storage[p] = NoRow => storage'[p] = NoRow)
      BY <1>2, <2>5, <2>7 DEF batchVars
    <2>8. ASSUME NEW p \in Critical, Owed(p) \/ batch[p[1]] = "new" PROVE canc'.gone[p] = NoRow
      BY <2>4, <2>8, HandFacts DEF NoticeInv, NewHere, OwedHere
    <2>9. /\ batch' \in [Batches -> {"new", "live", "completed", "gone"}]
          /\ newest' \in Observations \cup {NoBatch}
      BY <1>1, <1>2 DEF TypeHere, batchVars
    <2>10. QED
      BY <1>2, <1>4, <2>2, <2>3, <2>4, <2>5, <2>6, <2>7, <2>8, <2>9, CancelKeeps
  <1>7. QED
    BY <1>5, <1>6

LEMMA CancelSavedKeeps ==
  ASSUME NoticeInv, ConstantsAssumption, TasksApart, CancelSaved
  PROVE  NoticeInv'
  <1>1. TypeHere
    BY DEF NoticeInv, TypeOK
  <1>2. UNCHANGED frameC /\ asked' = asked /\ Cancelling
    BY DEF CancelSaved, Cancelling
  <1>3. PICK i \in Critical : i = canc.item /\ i \in asked
    BY <1>1, <1>2 DEF TypeHere
  <1>4. /\ i \in Items /\ batch[i[1]] # "new" /\ canc \in CancRecords /\ mem[i] \in ItemRecords
        /\ ~Owed(i) /\ asked \subseteq Critical
        /\ batch \in [Batches -> {"new", "live", "completed", "gone"}]
        /\ newest \in Observations \cup {NoBatch} /\ mem \in [Items -> ItemRecords]
    BY <1>1, <1>3, ItemFacts, OldItems DEF TypeHere, Owed
  <1>5. \A p \in Critical : Owed(p) \/ batch[p[1]] = "new" => canc.gone[p] = NoRow
    BY HandFacts DEF NoticeInv, NewHere, OwedHere
  <1>6. CASE CancelFinish(canc.item, mem[canc.item])
    <2>1. CancelFinish(i, mem[i])
      BY <1>3, <1>6
    <2>2. /\ Finishing("canc", i, mem[i])
          /\ \/ canc' = [canc EXCEPT !.pc = "settle", !.item = i, !.gone = GoneRows(i, mem[i])]
             \/ canc' = [canc EXCEPT !.pc = "next", !.item = NoItem, !.did = @ \cup {i}]
      BY <2>1, CancelFinishing
    <2>3. /\ storage' \in Table /\ mem' \in [Items -> ItemRecords]
          /\ batch' \in [Batches -> {"new", "live", "completed", "gone"}]
          /\ newest' \in Observations \cup {NoBatch}
          /\ \A p \in Items : p # i => mem'[p] = mem[p]
          /\ \A p \in Critical : batch'[p[1]] = "new" => batch[p[1]] = "new" /\ p # i
          /\ \A p \in Critical : storage[p] = NoRow => storage'[p] = NoRow
          /\ \A p \in Critical : Owed(p) => storage'[p] = storage[p]
          /\ Save("canc", storage') \/ Unlock("canc")
      BY <1>4, <2>2, FinishFacts
    <2>4. PICK gone \in Table : /\ gone = GoneRows(i, mem[i])
                                /\ \A p \in Critical : storage[p] = NoRow \/ Owed(p) => gone[p] = NoRow
      BY <1>4, GoneFacts
    <2>5. PICK did \in SUBSET Critical : did = canc.did \cup {i}
      BY <1>4 DEF CancRecords
    <2>6. \/ canc' = [canc EXCEPT !.pc = "settle", !.item = i, !.gone = gone]
          \/ canc' = [canc EXCEPT !.pc = "next", !.item = NoItem, !.did = did]
      BY <2>2, <2>4, <2>5
    <2>7. /\ canc' \in CancRecords /\ canc'.todo = canc.todo
          /\ \/ canc'.pc = "settle" /\ canc'.item = i /\ canc'.gone = gone
             \/ canc'.pc = "next" /\ canc'.item = NoItem /\ canc'.gone = canc.gone
      BY <1>4, <2>6 DEF CancRecords
    <2>8. Cancelling' => canc'.item \in asked'
      BY <1>2, <1>3, <2>7 DEF Cancelling
    <2>9. \A p \in Critical : batch[p[1]] = "new" => storage[p] = NoRow
      BY DEF NoticeInv, NewHere
    <2>10. \A p \in Critical : Owed(p) \/ batch[p[1]] = "new" => canc'.gone[p] = NoRow
      BY <1>5, <2>4, <2>7, <2>9
    <2>11. \A p \in Critical : /\ batch'[p[1]] = "new" => batch[p[1]] = "new" /\ mem'[p] = mem[p]
                               /\ Owed(p) => mem'[p] = mem[p]
      BY <1>4, <2>3, ItemFacts
    <2>12. QED
      BY <1>2, <1>3, <1>4, <2>3, <2>7, <2>8, <2>10, <2>11, CancelKeeps
  <1>7. CASE canc' = Unasked /\ Unlock("canc") /\ UNCHANGED <<mem, storage, batchVars>>
    BY <1>2, <1>7, RestFacts, AskKeeps DEF batchVars
  <1>8. CASE FinishSettled("canc", canc.item)
             /\ canc' = [canc EXCEPT !.pc = "next", !.item = NoItem, !.gone = NoRows, !.did = @ \cup {canc.item}]
    <2>1. FinishSettled("canc", i)
      BY <1>3, <1>8
    <2>2. /\ storage' = storage /\ Unlock("canc")
          /\ mem' \in [Items -> ItemRecords]
          /\ batch' \in [Batches -> {"new", "live", "completed", "gone"}]
          /\ newest' \in Observations \cup {NoBatch}
          /\ \A p \in Items : p # i => mem'[p] = mem[p]
          /\ \A p \in Critical : batch'[p[1]] = "new" => batch[p[1]] = "new" /\ p # i
      BY <1>4, <2>1, SettledFacts
    <2>3. PICK did \in SUBSET Critical : did = canc.did \cup {i}
      BY <1>4 DEF CancRecords
    <2>4. canc' = [canc EXCEPT !.pc = "next", !.item = NoItem, !.gone = NoRows, !.did = did]
      BY <1>3, <1>8, <2>3
    <2>5. /\ canc' \in CancRecords /\ canc'.todo = canc.todo /\ canc'.pc = "next" /\ canc'.item = NoItem
          /\ canc'.gone = NoRows
      BY <1>4, <2>4, RowFacts DEF CancRecords
    <2>6. \A p \in Critical : /\ batch'[p[1]] = "new" => batch[p[1]] = "new" /\ mem'[p] = mem[p]
                              /\ Owed(p) => mem'[p] = mem[p]
      BY <1>4, <2>2, ItemFacts
    <2>7. ~Cancelling' /\ storage' \in Table
      BY <1>1, <2>2, <2>5 DEF Cancelling, TypeHere
    <2>8. QED
      BY <1>2, <1>4, <2>2, <2>5, <2>6, <2>7, RowFacts, CancelKeeps
  <1>9. CASE FinishFailed("canc", canc.gone) /\ canc' = Unasked
    <2>1. PICK gone \in Table : gone = canc.gone
      BY <1>4 DEF CancRecords
    <2>2. FinishFailed("canc", gone)
      BY <1>9, <2>1
    <2>3. /\ storage' \in Table /\ \A p \in Critical : gone[p] = NoRow => storage'[p] = storage[p]
          /\ Unlock("canc") /\ UNCHANGED <<mem, batch, newest>>
      BY <2>2, FailedFacts
    <2>4. \A p \in Critical : Owed(p) \/ batch[p[1]] = "new" => storage'[p] = storage[p] /\ canc'.gone[p] = NoRow
      BY <1>5, <1>9, <2>1, <2>3, RestFacts, RowFacts
    <2>5. ~Cancelling' /\ canc' \in CancRecords /\ canc'.item = NoItem /\ canc'.todo = {}
      BY <1>9, RestFacts DEF Cancelling
    <2>6. QED
      BY <1>2, <1>4, <2>3, <2>4, <2>5, CancelKeeps
  <1>10. QED
    BY <1>6, <1>7, <1>8, <1>9 DEF CancelSaved
-----------------------------------------------------------------------------
(* Admissions, and the writes themselves.                                  *)

\* A step that concerns observations only, or what the operator has chosen.
LEMMA ObservationKeeps ==
  ASSUME NoticeInv, ConstantsAssumption, TasksApart, UNCHANGED <<storage, fileVars, adm, work, canc, sent, accepted, asked>>,
         mem' \in [Items -> ItemRecords], batch' \in [Batches -> {"new", "live", "completed", "gone"}],
         newest' \in Observations \cup {NoBatch}, group' \in Chats,
         \A p \in Critical : mem'[p] = mem[p] /\ batch'[p[1]] = batch[p[1]]
  PROVE  NoticeInv'
  <1>1. TypeHere
    BY DEF NoticeInv, TypeOK
  <1>2. UNCHANGED <<storage, disk, lockq, io, adm, work, canc, sent, accepted, asked>>
    BY DEF fileVars
  <1>3. TypeHere'
    BY <1>1, <1>2 DEF TypeHere, Working, Cancelling
  <1>4. ASSUME NEW p \in Critical, batch'[p[1]] = "new" PROVE batch[p[1]] = "new" /\ NewHere(p)'
    <2>1. batch[p[1]] = "new" /\ NewHere(p)
      BY <1>4 DEF NoticeInv
    <2>2. QED
      BY <1>2, <2>1 DEF NewHere
  <1>5. ASSUME NEW p \in Critical, Owed(p) PROVE OwedHere(p)'
    <2>1. OwedHere(p)
      BY <1>5 DEF NoticeInv
    <2>2. QED
      BY <1>2, <2>1 DEF OwedHere
  <1>6. PICK R \in Table : R = storage'
    BY <1>1, <1>2 DEF TypeHere
  <1>7. "worker" \in {"worker", "canc"} /\ UNCHANGED <<io, lockq>>
    BY <1>2
  <1>8. QED
    BY <1>2, <1>3, <1>4, <1>5, <1>6, <1>7, StepKeeps

LEMMA FreshFacts ==
  ASSUME NoticeInv
  PROVE  /\ Fresh \in ItemRecords /\ Fresh.st = "queued" /\ ~Fresh.fut /\ ~Fresh.sup /\ Fresh.tries = 0
         /\ [Fresh EXCEPT !.q = TRUE] \in ItemRecords
         /\ Row(Fresh) \in [status : States, chat : Chats] /\ Row(Fresh).status \in Kept
  <1>1. group \in Chats
    BY DEF NoticeInv, TypeOK, TypeHere
  <1>2. Fresh \in ItemRecords /\ Fresh.st = "queued" /\ ~Fresh.fut /\ ~Fresh.sup /\ Fresh.tries = 0
    BY <1>1, RowFacts DEF Fresh, ItemRecords, States, Blank
  <1>3. [Fresh EXCEPT !.q = TRUE] \in ItemRecords
    BY <1>2 DEF ItemRecords
  <1>4. QED
    BY <1>2, <1>3, RowOf DEF Waiting

LEMMA AdmitKeyedKeeps ==
  ASSUME NoticeInv, ConstantsAssumption, TasksApart, NEW b \in Batches, AdmitKeyed(b)
  PROVE  NoticeInv'
  <1>1. TypeHere
    BY DEF NoticeInv, TypeOK
  <1>2. /\ UNCHANGED <<storage, fileVars, adm, work, canc, sent, accepted, asked, group, newest>>
        /\ b \in Observations
    BY DEF AdmitKeyed, envVars, ghostVars
  <1>3. PICK rec \in ItemRecords : rec = [Fresh EXCEPT !.q = TRUE]
    BY FreshFacts
  <1>4. /\ mem' = mem \/ mem' = [mem EXCEPT ![<<b, 1>>] = rec]
        /\ batch' = [batch EXCEPT ![b] = "gone"] \/ batch' = [batch EXCEPT ![b] = "live"]
    BY <1>3 DEF AdmitKeyed
  <1>5. /\ mem' \in [Items -> ItemRecords]
        /\ batch' \in [Batches -> {"new", "live", "completed", "gone"}]
    BY <1>1, <1>4 DEF TypeHere
  <1>6. \A p \in Critical : mem'[p] = mem[p] /\ batch'[p[1]] = batch[p[1]]
    BY <1>1, <1>2, <1>4, ItemFacts DEF TypeHere
  <1>7. newest' \in Observations \cup {NoBatch} /\ group' \in Chats
    BY <1>1, <1>2 DEF TypeHere
  <1>8. QED
    BY <1>2, <1>5, <1>6, <1>7, ObservationKeeps

LEMMA SupersedeFacts ==
  ASSUME NEW rec \in ItemRecords
  PROVE  Supersede(rec) \in ItemRecords
  BY DEF Supersede, ItemRecords, States

LEMMA AdmitWarningKeeps ==
  ASSUME NoticeInv, ConstantsAssumption, TasksApart, NEW b \in Batches, NEW empty \in BOOLEAN, AdmitWarning(b, empty)
  PROVE  NoticeInv'
  <1>1. TypeHere
    BY DEF NoticeInv, TypeOK
  <1>2. /\ UNCHANGED <<storage, fileVars, adm, work, canc, sent, accepted, asked, group>>
        /\ b \in Observations /\ newest' \in Observations \cup {NoBatch}
    BY DEF AdmitWarning, envVars, ghostVars
  <1>3. PICK rec \in ItemRecords : rec = [Fresh EXCEPT !.q = TRUE]
    BY FreshFacts
  <1>4. PICK prior \in [Items -> ItemRecords] :
           prior = [i \in Items |-> IF i[1] = newest THEN Supersede(mem[i]) ELSE mem[i]]
    BY <1>1, SupersedeFacts DEF TypeHere
  <1>5. mem' = prior \/ mem' = [prior EXCEPT ![<<b, 1>>] = rec]
    BY <1>3, <1>4 DEF AdmitWarning
  <1>6. \A p \in Critical : prior[p] = mem[p] /\ p # <<b, 1>> /\ p[1] # b /\ p[1] # newest
    BY <1>1, <1>2, <1>4, ItemFacts DEF TypeHere
  <1>7. mem' \in [Items -> ItemRecords] /\ \A p \in Critical : mem'[p] = mem[p]
    BY <1>4, <1>5, <1>6, ItemFacts
  <1>8. PICK retired \in BOOLEAN :
           batch' = [c \in Batches |-> IF c = b THEN (IF empty THEN "gone" ELSE "live")
                                       ELSE IF c = newest /\ retired THEN "gone" ELSE batch[c]]
    <2>1. batch' = [c \in Batches |-> IF c = b THEN (IF empty THEN "gone" ELSE "live")
                                      ELSE IF c = newest /\ (newest # NoBatch /\ prior[<<newest, 1>>].st = "cancelled")
                                           THEN "gone" ELSE batch[c]]
      BY <1>4 DEF AdmitWarning
    <2>2. PICK retired \in BOOLEAN : retired = (newest # NoBatch /\ prior[<<newest, 1>>].st = "cancelled")
      OBVIOUS
    <2>3. QED
      BY <2>1, <2>2
  <1>9. batch' \in [Batches -> {"new", "live", "completed", "gone"}]
    BY <1>1, <1>8 DEF TypeHere
  <1>10. \A p \in Critical : batch'[p[1]] = batch[p[1]]
    BY <1>6, <1>8, ItemFacts
  <1>11. group' \in Chats
    BY <1>1, <1>2 DEF TypeHere
  <1>12. QED
    BY <1>2, <1>7, <1>9, <1>10, <1>11, ObservationKeeps

LEMMA OperatorKeeps ==
  ASSUME NoticeInv, ConstantsAssumption, TasksApart, Toggle \/ \E g \in Groups : ChooseGroup(g)
  PROVE  NoticeInv'
  <1>1. TypeHere
    BY DEF NoticeInv, TypeOK
  <1>2. UNCHANGED <<storage, fileVars, adm, work, canc, sent, accepted, asked, batch>>
    BY DEF Toggle, ChooseGroup, frameE, ghostVars
  <1>3. newest' \in {newest, NoBatch} /\ group' \in Groups \cup {group}
    BY DEF Toggle, ChooseGroup
  <1>4. \/ mem' = mem
        \/ mem' = [i \in Items |-> IF i \in Critical \/ mem[i] = Blank THEN mem[i] ELSE [mem[i] EXCEPT !.old = TRUE]]
        \/ mem' = [i \in Items |-> IF i \in Critical \/ mem[i] = Blank THEN mem[i] ELSE [mem[i] EXCEPT !.moved = TRUE]]
    BY DEF Toggle, ChooseGroup
  <1>5. ASSUME NEW i \in Items
        PROVE  mem'[i] \in ItemRecords /\ (i \in Critical => mem'[i] = mem[i])
    <2>1. PICK rec \in ItemRecords : rec = mem[i]
      BY <1>1 DEF TypeHere
    <2>2. [rec EXCEPT !.old = TRUE] \in ItemRecords /\ [rec EXCEPT !.moved = TRUE] \in ItemRecords
      BY DEF ItemRecords
    <2>3. \/ mem'[i] = rec
          \/ i \notin Critical /\ mem'[i] = [rec EXCEPT !.old = TRUE]
          \/ i \notin Critical /\ mem'[i] = [rec EXCEPT !.moved = TRUE]
      BY <1>4, <2>1
    <2>4. QED
      BY <2>1, <2>2, <2>3
  <1>6. mem' = [i \in Items |-> mem'[i]]
    BY <1>1, <1>4 DEF TypeHere
  <1>7. mem' \in [Items -> ItemRecords] /\ \A p \in Critical : mem'[p] = mem[p]
    BY <1>5, <1>6, ItemFacts
  <1>8. /\ batch' \in [Batches -> {"new", "live", "completed", "gone"}]
        /\ newest' \in Observations \cup {NoBatch} /\ group' \in Chats
    BY <1>1, <1>2, <1>3 DEF TypeHere, Chats
  <1>9. QED
    BY <1>2, <1>7, <1>8, ObservationKeeps
LEMMA TakeLockKeeps ==
  ASSUME NoticeInv, ConstantsAssumption, TasksApart, TakeLock
  PROVE  NoticeInv'
  <1>1. TypeHere /\ TypeIo /\ QueueInv /\ storage \in Table
    BY DEF NoticeInv, TypeOK, TypeHere
  <1>2. /\ UNCHANGED <<group, disk, mem, storage, batch, newest, adm, work, canc, sent, accepted, asked>>
        /\ io = NoWrite /\ lockq # <<>> /\ lockq' = Tail(lockq)
    BY DEF TakeLock, envVars, batchVars, ghostVars
  <1>3. lockq \in Seq(Tasks) /\ "nobody" \notin Tasks
    BY <1>1 DEF TypeIo, Tasks, TasksApart, Batches
  <1>4. PICK t \in Tasks : t = Head(lockq) /\ t = lockq[1]
    BY <1>2, <1>3
  <1>5. PICK snap \in Table : /\ snap = Snapshot(t, storage)
                              /\ \A i \in Critical : snap[i] \in {storage[i], NoRow}
                              /\ \A i \in Critical : i[1] \notin adm \/ i[1] = t => snap[i] = storage[i]
    BY <1>1, SnapshotFacts
  <1>6. io' = [by |-> t, data |-> snap, res |-> "run"]
    BY <1>4, <1>5 DEF TakeLock
  <1>7. io'.by = t /\ io'.data = snap /\ io'.res = "run" /\ io.by = "nobody"
    BY <1>2, <1>6, RowFacts
  <1>8. TypeIo'
    BY <1>2, <1>3, <1>6 DEF TypeIo, Writes
  <1>9. /\ Len(lockq') = Len(lockq) - 1 /\ Len(lockq) \in Nat \ {0}
        /\ \A n \in 1..Len(lockq') : lockq'[n] = lockq[n + 1]
    BY <1>2, <1>3
  <1>10. ASSUME NEW b \in Notices PROVE Awaited(b)' <=> Awaited(b)
    <2>1. io.by # b
      BY <1>7 DEF TasksApart, Batches
    <2>2. ASSUME NEW n \in 1..Len(lockq), lockq[n] = b
          PROVE  io'.by = b \/ \E m \in 1..Len(lockq') : lockq'[m] = b
      <3>1. CASE n = 1
        BY <1>4, <1>7, <2>2, <3>1
      <3>2. CASE n # 1
        <4>1. n - 1 \in 1..Len(lockq')
          BY <1>9, <3>2
        <4>2. lockq'[n - 1] = lockq[(n - 1) + 1] /\ (n - 1) + 1 = n
          BY <1>9, <4>1
        <4>3. QED
          BY <2>2, <4>1, <4>2
      <3>3. QED
        BY <3>1, <3>2
    <2>3. ASSUME io'.by = b \/ \E m \in 1..Len(lockq') : lockq'[m] = b
          PROVE  \E n \in 1..Len(lockq) : lockq[n] = b
      <3>1. CASE io'.by = b
        BY <1>4, <1>7, <1>9, <3>1
      <3>2. ASSUME NEW m \in 1..Len(lockq'), lockq'[m] = b PROVE \E n \in 1..Len(lockq) : lockq[n] = b
        BY <1>9, <3>2
      <3>3. QED
        BY <2>3, <3>1, <3>2
    <2>4. QED
      BY <2>1, <2>2, <2>3 DEF Awaited
  <1>11. Once'
    <2>1. ASSUME NEW m \in 1..Len(lockq'), NEW n \in 1..Len(lockq'), m # n, lockq'[m] = lockq'[n]
          PROVE  lockq'[m] \notin Notices
      <3>1. m + 1 \in 1..Len(lockq) /\ n + 1 \in 1..Len(lockq) /\ m + 1 # n + 1
        BY <1>9, <2>1
      <3>2. lockq[m + 1] = lockq[n + 1] /\ lockq'[m] = lockq[m + 1]
        BY <1>9, <2>1
      <3>3. QED
        BY <1>1, <3>1, <3>2 DEF QueueInv, Once
    <2>2. ASSUME t \in Notices, NEW n \in 1..Len(lockq') PROVE lockq'[n] # t
      <3>1. n + 1 \in 1..Len(lockq) /\ 1 \in 1..Len(lockq) /\ n + 1 # 1
        BY <1>9
      <3>2. lockq[n + 1] # lockq[1]
        BY <1>1, <1>4, <2>2, <3>1 DEF QueueInv, Once
      <3>3. QED
        BY <1>4, <1>9, <3>2
    <2>3. QED
      BY <1>7, <2>1, <2>2 DEF Once
  <1>12. QueueInv'
    <2>1. \A b \in adm' : Awaited(b)'
      BY <1>1, <1>2, <1>10 DEF QueueInv, TypeHere
    <2>2. \A i \in Critical : Awaited(i[1])' => i \notin accepted'
      BY <1>1, <1>2, <1>10, ItemFacts DEF QueueInv
    <2>3. QED
      BY <1>11, <2>1, <2>2 DEF QueueInv
  <1>13. TypeHere'
    BY <1>1, <1>2 DEF TypeHere, Working, Cancelling
  <1>14. ASSUME NEW i \in Critical, batch'[i[1]] = "new" PROVE NewHere(i)' /\ NewOnDisk(i)'
    <2>1. NewHere(i) /\ NewOnDisk(i)
      BY <1>2, <1>14 DEF NoticeInv
    <2>2. NewHere(i)'
      BY <1>2, <2>1 DEF NewHere
    <2>3. io'.data[i] = NoRow
      BY <1>5, <1>7, <2>1 DEF NewHere
    <2>4. ~Awaited(i[1])'
      BY <1>10, <2>1, ItemFacts DEF NewOnDisk
    <2>5. QED
      BY <1>2, <2>1, <2>2, <2>3, <2>4 DEF NewOnDisk
  <1>15. ASSUME NEW i \in Critical, Owed(i)' PROVE OwedHere(i)' /\ OwedOnDisk(i)'
    <2>1. Owed(i)
      BY <1>2, <1>10, <1>15, ItemFacts DEF Owed
    <2>2. OwedHere(i) /\ OwedOnDisk(i)
      BY <2>1 DEF NoticeInv
    <2>3. OwedHere(i)'
      BY <1>2, <2>2 DEF OwedHere
    <2>4. i \in accepted => i[1] \notin adm
      BY <1>1 DEF QueueInv
    <2>5. storage[i].status \in Kept
      BY <2>2 DEF OwedHere
    <2>6. (i \in accepted' /\ io'.by # "nobody") \/ io'.by = i[1] => io'.data[i].status \in Kept
      BY <1>2, <1>5, <1>7, <2>4, <2>5
    <2>7. i \in accepted' \/ (io'.by = i[1] /\ io'.res = "ok") => disk'[i].status \in Kept
      BY <1>2, <1>7, <2>2 DEF OwedOnDisk
    <2>8. QED
      BY <2>3, <2>6, <2>7 DEF OwedOnDisk
  <1>16. QED
    BY <1>8, <1>12, <1>13, <1>14, <1>15 DEF NoticeInv, TypeOK

LEMMA WriteEndsKeeps ==
  ASSUME NoticeInv, ConstantsAssumption, TasksApart, WriteEnds
  PROVE  NoticeInv'
  <1>1. TypeHere /\ TypeIo /\ QueueInv
    BY DEF NoticeInv, TypeOK
  <1>2. /\ UNCHANGED <<group, mem, storage, lockq, batch, newest, adm, work, canc, sent, accepted, asked>>
        /\ io.by # "nobody"
    BY DEF WriteEnds, envVars, batchVars, ghostVars
  <1>3. io \in Writes
    BY <1>1 DEF TypeIo
  <1>4. PICK res \in {"ok", "error"} : /\ io' = [io EXCEPT !.res = res]
                                       /\ disk' \in {disk, io.data} /\ (res = "ok" => disk' = io.data)
    BY DEF WriteEnds
  <1>5. io' \in Writes /\ io'.by = io.by /\ io'.data = io.data /\ io'.res = res
    BY <1>3, <1>4 DEF Writes
  <1>6. TypeIo'
    BY <1>1, <1>2, <1>5 DEF TypeIo
  <1>7. \A b : Awaited(b)' <=> Awaited(b)
    BY <1>2, <1>5 DEF Awaited
  <1>8. QueueInv'
    BY <1>1, <1>2, <1>5, <1>7 DEF QueueInv, Once
  <1>9. TypeHere'
    <2>1. disk' \in Table
      BY <1>1, <1>3, <1>4 DEF TypeHere, Writes
    <2>2. QED
      BY <1>1, <1>2, <2>1 DEF TypeHere, Working, Cancelling
  <1>10. ASSUME NEW i \in Critical, batch'[i[1]] = "new" PROVE NewHere(i)' /\ NewOnDisk(i)'
    <2>1. NewHere(i) /\ NewOnDisk(i)
      BY <1>2, <1>10 DEF NoticeInv
    <2>2. NewHere(i)'
      BY <1>2, <2>1 DEF NewHere
    <2>3. QED
      BY <1>2, <1>4, <1>5, <1>7, <2>1, <2>2 DEF NewOnDisk
  <1>11. ASSUME NEW i \in Critical, Owed(i)' PROVE OwedHere(i)' /\ OwedOnDisk(i)'
    <2>1. Owed(i)
      BY <1>2, <1>7, <1>11 DEF Owed
    <2>2. OwedHere(i) /\ OwedOnDisk(i)
      BY <2>1 DEF NoticeInv
    <2>3. OwedHere(i)'
      BY <1>2, <2>2 DEF OwedHere
    <2>4. (i \in accepted' /\ io'.by # "nobody") \/ io'.by = i[1] => io'.data[i].status \in Kept
      BY <1>2, <1>5, <2>2 DEF OwedOnDisk
    <2>5. i \in accepted' => disk'[i].status \in Kept
      BY <1>2, <1>4, <2>2 DEF OwedOnDisk
    <2>6. io'.by = i[1] /\ io'.res = "ok" => disk'[i].status \in Kept
      BY <1>4, <1>5, <2>2 DEF OwedOnDisk
    <2>7. QED
      BY <2>3, <2>4, <2>5, <2>6 DEF OwedOnDisk
  <1>12. QED
    BY <1>6, <1>8, <1>9, <1>10, <1>11 DEF NoticeInv, TypeOK

\* The process starts again from the file.
LEMMA RestartKeeps ==
  ASSUME NoticeInv, ConstantsAssumption, TasksApart, Crash \/ Stop
  PROVE  NoticeInv'
  <1>1. TypeHere /\ TypeIo /\ QueueInv
    BY DEF NoticeInv, TypeOK
  <1>2. /\ mem' = [i \in Items |-> Blank]
        /\ batch' = [b \in Batches |-> IF batch[b] = "new" THEN "new" ELSE "gone"]
        /\ lockq' = <<>> /\ io' = NoWrite /\ adm' = {} /\ storage' = disk' /\ newest' = NoBatch
        /\ work' = Starting /\ canc' = Unasked
        /\ UNCHANGED <<group, accepted, asked>>
        /\ sent' = sent \/ (work.pc = "transport" /\ Arrives(work.item))
    BY DEF Crash, Stop, Restart, envVars
  <1>3. /\ disk' \in {disk, storage}
        /\ disk' # disk => io = NoWrite /\ lockq = <<>>
    BY DEF Crash, Stop
  <1>4. \A b \in Notices : ~Awaited(b)'
    BY <1>2, RowFacts DEF Awaited, TasksApart, Batches
  <1>5. sent' \in [Items -> Nat] /\ \A p \in Items : sent'[p] = 0 => sent[p] = 0
    <2>1. CASE sent' = sent
      BY <1>1, <2>1 DEF TypeHere
    <2>2. CASE work.pc = "transport" /\ Arrives(work.item)
      BY <1>1, <2>2, ArrivesFacts DEF TypeHere, Working
    <2>3. QED
      BY <1>2, <2>1, <2>2
  <1>6. TypeIo'
    BY <1>2, RowFacts DEF TypeIo
  <1>7. QueueInv'
    <2>1. Once'
      BY <1>2, RowFacts DEF Once, TasksApart, Batches
    <2>2. QED
      BY <1>2, <1>4, <2>1, ItemFacts DEF QueueInv
  <1>8. TypeHere'
    <2>1. disk' \in Table
      BY <1>1, <1>3 DEF TypeHere
    <2>2. mem' \in [Items -> ItemRecords] /\ batch' \in [Batches -> {"new", "live", "completed", "gone"}]
      BY <1>2, RowFacts
    <2>3. ~Working' /\ ~Cancelling' /\ work' \in WorkRecords /\ canc' \in CancRecords
      BY <1>2, RestFacts DEF Working, Cancelling
    <2>4. QED
      BY <1>1, <1>2, <1>5, <2>1, <2>2, <2>3 DEF TypeHere
  <1>9. ASSUME NEW i \in Critical
        PROVE  /\ work'.item # i /\ i \notin work'.todo \cup work'.ready /\ work'.gone[i] = NoRow
               /\ canc'.item # i /\ i \notin canc'.todo /\ canc'.gone[i] = NoRow
               /\ mem'[i] = Blank
    BY <1>2, RestFacts, RowFacts, ItemFacts
  <1>10. ASSUME NEW i \in Critical, batch'[i[1]] = "new" PROVE NewHere(i)' /\ NewOnDisk(i)'
    <2>1. batch[i[1]] = "new"
      BY <1>2, <1>10, ItemFacts
    <2>2. NewHere(i) /\ NewOnDisk(i)
      BY <2>1 DEF NoticeInv
    <2>3. disk'[i] = NoRow
      BY <1>3, <2>2 DEF NewHere, NewOnDisk
    <2>4. io'.data[i] = NoRow
      BY <1>2, RowFacts
    <2>5. ~Awaited(i[1])' /\ i \notin accepted'
      BY <1>2, <1>4, <2>2, ItemFacts DEF NewOnDisk
    <2>6. QED
      BY <1>2, <1>9, <2>3, <2>4, <2>5 DEF NewHere, NewOnDisk
  <1>11. ASSUME NEW i \in Critical, Owed(i)' PROVE OwedHere(i)' /\ OwedOnDisk(i)'
    <2>1. i \in accepted /\ Owed(i)
      BY <1>2, <1>4, <1>5, <1>11, ItemFacts DEF Owed
    <2>2. OwedHere(i) /\ OwedOnDisk(i)
      BY <2>1 DEF NoticeInv
    <2>3. disk'[i].status \in Kept
      BY <1>3, <2>1, <2>2 DEF OwedHere, OwedOnDisk
    <2>4. OwedHere(i)'
      BY <1>2, <1>9, <2>3, RowFacts DEF OwedHere, Waiting
    <2>5. io'.by = "nobody" /\ io'.by # i[1]
      BY <1>2, RowFacts, ItemFacts DEF TasksApart
    <2>6. QED
      BY <2>3, <2>4, <2>5 DEF OwedOnDisk
  <1>12. QED
    BY <1>6, <1>7, <1>8, <1>10, <1>11 DEF NoticeInv, TypeOK
\* A notice is reserved. Nothing of it was there before, nor did anyone wait for it.
LEMMA AdmitNoticeKeeps ==
  ASSUME NoticeInv, ConstantsAssumption, TasksApart, NEW b \in Batches, AdmitNotice(b)
  PROVE  NoticeInv'
  <1>1. TypeHere /\ TypeIo /\ QueueInv
    BY DEF NoticeInv, TypeOK
  <1>2. /\ UNCHANGED <<group, disk, newest, work, canc, sent, accepted, asked>>
        /\ b \in Notices /\ batch[b] = "new"
        /\ batch' = [batch EXCEPT ![b] = "live"]
        /\ mem' = [i \in Items |-> IF i[1] = b THEN Fresh ELSE mem[i]]
        /\ adm' = adm \cup {b}
    BY DEF AdmitNotice, envVars, ghostVars
  <1>3. /\ \A i \in Critical : i[1] = b => NewHere(i) /\ i \notin accepted
        /\ ~Awaited(b)
    <2>1. \A i \in Critical : i[1] = b => NewHere(i) /\ NewOnDisk(i)
      BY <1>2 DEF NoticeInv
    <2>2. <<b, 1>> \in Critical
      BY <1>2 DEF Critical, Parts, ConstantsAssumption
    <2>3. QED
      BY <2>1, <2>2 DEF NewOnDisk
  <1>4. PICK table \in Table : /\ storage' = table /\ Save(b, table)
                              /\ \A i \in Critical : table[i] = IF i[1] = b THEN Row(Fresh) ELSE storage[i]
    <2>1. [i \in Critical |-> IF i[1] = b THEN Row(Fresh) ELSE storage[i]] \in Table
      BY <1>1, FreshFacts DEF TypeHere, Table
    <2>2. QED
      BY <2>1 DEF AdmitNotice
  <1>5. PICK snap \in Table : /\ snap = Snapshot(b, table)
                              /\ \A i \in Critical : snap[i] \in {table[i], NoRow}
                              /\ \A i \in Critical : i[1] \notin adm \/ i[1] = b => snap[i] = table[i]
    BY SnapshotFacts
  <1>6. io.by # b /\ \A n \in 1..Len(lockq) : lockq[n] # b
    BY <1>3 DEF Awaited
  <1>7. \/ io.by = "nobody" /\ io' = [by |-> b, data |-> snap, res |-> "run"] /\ lockq' = lockq /\ lockq = <<>>
        \/ io' = io /\ lockq' = Append(lockq, b)
    BY <1>4, <1>5, <1>6 DEF Save
  <1>8. b \in Tasks /\ lockq \in Seq(Tasks) /\ io \in Writes
    BY <1>1, <1>2 DEF TypeIo, Tasks
  <1>9. TypeIo'
    <2>1. io' \in Writes
      BY <1>7, <1>8 DEF Writes
    <2>2. lockq' \in Seq(Tasks)
      BY <1>7, <1>8
    <2>3. QED
      BY <2>1, <2>2 DEF TypeIo
  <1>10. /\ \A n \in 1..Len(lockq) : n \in 1..Len(lockq') /\ lockq'[n] = lockq[n]
         /\ \A n \in 1..Len(lockq') : n \in 1..Len(lockq) \/ (n = Len(lockq) + 1 /\ lockq'[n] = b /\ io' = io)
    BY <1>7, <1>8
  <1>11. /\ io'.by = b \/ \E n \in 1..Len(lockq') : lockq'[n] = b
         /\ \A c \in Notices \ {b} : Awaited(c)' <=> Awaited(c)
    <2>1. CASE io.by = "nobody" /\ io' = [by |-> b, data |-> snap, res |-> "run"] /\ lockq' = lockq
      BY <2>1 DEF Awaited, TasksApart, Batches
    <2>2. CASE io' = io /\ lockq' = Append(lockq, b)
      <3>1. Len(lockq) + 1 \in 1..Len(lockq') /\ lockq'[Len(lockq) + 1] = b
        BY <1>8, <2>2
      <3>2. ASSUME NEW c \in Notices \ {b} PROVE Awaited(c)' <=> Awaited(c)
        BY <1>10, <2>2 DEF Awaited
      <3>3. QED
        BY <3>1, <3>2
    <2>3. QED
      BY <1>7, <2>1, <2>2
  <1>12. Awaited(b)'
    BY <1>11 DEF Awaited
  <1>13. Once'
    <2>1. ASSUME NEW m \in 1..Len(lockq'), NEW n \in 1..Len(lockq'), m # n, lockq'[m] = lockq'[n]
          PROVE  lockq'[m] \notin Notices
      <3>1. CASE m \in 1..Len(lockq) /\ n \in 1..Len(lockq)
        BY <1>1, <1>10, <2>1, <3>1 DEF QueueInv, Once
      <3>2. CASE ~(m \in 1..Len(lockq) /\ n \in 1..Len(lockq))
        BY <1>6, <1>10, <2>1, <3>2
      <3>3. QED
        BY <3>1, <3>2
    <2>2. ASSUME io'.by \in Notices, NEW n \in 1..Len(lockq') PROVE lockq'[n] # io'.by
      <3>1. CASE io' = io
        BY <1>1, <1>6, <1>10, <2>2, <3>1 DEF QueueInv, Once
      <3>2. CASE lockq' = lockq /\ lockq = <<>>
        BY <3>2
      <3>3. QED
        BY <1>7, <3>1, <3>2
    <2>3. QED
      BY <2>1, <2>2 DEF Once
  <1>14. QueueInv'
    <2>1. \A c \in adm' : Awaited(c)'
      BY <1>1, <1>2, <1>11, <1>12 DEF QueueInv, TypeHere
    <2>2. \A i \in Critical : Awaited(i[1])' => i \notin accepted'
      BY <1>1, <1>2, <1>3, <1>11, ItemFacts DEF QueueInv
    <2>3. QED
      BY <1>13, <2>1, <2>2 DEF QueueInv
  <1>15. TypeHere'
    <2>1. mem' \in [Items -> ItemRecords]
      BY <1>1, <1>2, FreshFacts DEF TypeHere
    <2>2. batch' \in [Batches -> {"new", "live", "completed", "gone"}] /\ adm' \subseteq Notices
      BY <1>1, <1>2 DEF TypeHere
    <2>3. QED
      BY <1>1, <1>2, <1>4, <2>1, <2>2 DEF TypeHere, Working, Cancelling
  <1>16. ASSUME NEW i \in Critical, batch'[i[1]] = "new" PROVE NewHere(i)' /\ NewOnDisk(i)'
    <2>1. i[1] # b /\ batch[i[1]] = "new" /\ i \in Items /\ i[1] \in Notices
      BY <1>1, <1>2, <1>16, ItemFacts DEF TypeHere
    <2>2. NewHere(i) /\ NewOnDisk(i)
      BY <2>1 DEF NoticeInv
    <2>3. mem'[i] = Blank /\ storage'[i] = NoRow
      BY <1>2, <1>4, <2>1, <2>2 DEF NewHere
    <2>4. NewHere(i)'
      BY <1>2, <2>2, <2>3 DEF NewHere
    <2>5. io'.data[i] = NoRow
      <3>1. snap[i] = NoRow
        BY <1>4, <1>5, <2>3
      <3>2. QED
        BY <1>7, <2>2, <3>1 DEF NewOnDisk
    <2>6. ~Awaited(i[1])'
      BY <1>11, <2>1, <2>2 DEF NewOnDisk
    <2>7. QED
      BY <1>2, <2>2, <2>4, <2>5, <2>6 DEF NewOnDisk
  <1>17. ASSUME NEW i \in Critical, Owed(i)', i[1] = b PROVE OwedHere(i)' /\ OwedOnDisk(i)'
    <2>1. NewHere(i) /\ i \notin accepted /\ i \in Items
      BY <1>3, <1>17, ItemFacts
    <2>2. mem'[i] = Fresh /\ storage'[i] = Row(Fresh)
      BY <1>2, <1>4, <1>17, <2>1
    <2>3. OwedHere(i)'
      BY <1>2, <2>1, <2>2, FreshFacts DEF OwedHere, NewHere, Waiting
    <2>4. io'.by = i[1] => io'.res = "run" /\ io'.data[i] = table[i]
      BY <1>5, <1>6, <1>7, <1>17
    <2>5. QED
      BY <1>2, <1>4, <1>17, <2>1, <2>3, <2>4, FreshFacts DEF OwedOnDisk
  <1>18. ASSUME NEW i \in Critical, Owed(i)', i[1] # b PROVE OwedHere(i)' /\ OwedOnDisk(i)'
    <2>1. i \in Items /\ i[1] \in Notices
      BY ItemFacts
    <2>2. Owed(i)
      BY <1>2, <1>11, <1>18, <2>1 DEF Owed
    <2>3. OwedHere(i) /\ OwedOnDisk(i)
      BY <2>2 DEF NoticeInv
    <2>4. mem'[i] = mem[i] /\ storage'[i] = storage[i]
      BY <1>2, <1>4, <1>18, <2>1
    <2>5. OwedHere(i)'
      BY <1>2, <2>3, <2>4 DEF OwedHere
    <2>6. CASE io' = io
      BY <1>2, <2>3, <2>5, <2>6 DEF OwedOnDisk
    <2>7. CASE io' = [by |-> b, data |-> snap, res |-> "run"]
      <3>1. i \in accepted => snap[i] = storage[i]
        BY <1>1, <1>4, <1>5, <1>18 DEF QueueInv
      <3>2. io'.by # i[1] /\ io'.data = snap
        BY <1>18, <2>7
      <3>3. QED
        BY <1>2, <2>3, <2>5, <3>1, <3>2 DEF OwedOnDisk, OwedHere
    <2>8. QED
      BY <1>7, <2>6, <2>7
  <1>19. QED
    BY <1>9, <1>14, <1>15, <1>16, <1>17, <1>18 DEF NoticeInv, TypeOK

\* The end of an admission: the lock is free, and nobody waits for it on this notice's behalf.
LEMMA ReleaseFacts ==
  ASSUME NoticeInv, ConstantsAssumption, TasksApart, NEW b \in Batches, io.by = b, Unlock(b)
  PROVE  /\ b \in Notices /\ io' = NoWrite /\ lockq' = lockq /\ TypeIo' /\ Once'
         /\ batch[b] # "new" /\ ~Awaited(b)' /\ \A i \in Critical : i[1] = b => i \notin accepted
         /\ \A c \in Notices \ {b} : Awaited(c)' <=> Awaited(c)
  <1>1. TypeIo /\ QueueInv
    BY DEF NoticeInv, TypeOK
  <1>2. b \in Notices
    BY <1>1 DEF TypeIo, Writes, Tasks, TasksApart
  <1>3. io' = NoWrite /\ lockq' = lockq
    BY DEF Unlock
  <1>4. TypeIo'
    BY <1>1, <1>3, RowFacts DEF TypeIo
  <1>5. Once'
    BY <1>1, <1>3, RowFacts DEF QueueInv, Once, TasksApart, Batches
  <1>6. Awaited(b)
    BY DEF Awaited
  <1>7. <<b, 1>> \in Critical /\ <<b, 1>>[1] = b
    BY <1>2 DEF Critical, Parts, ConstantsAssumption
  <1>8. batch[b] # "new"
    BY <1>6, <1>7 DEF NoticeInv, NewOnDisk
  <1>9. ~Awaited(b)'
    BY <1>1, <1>2, <1>3, RowFacts DEF QueueInv, Once, Awaited, TasksApart, Batches
  <1>10. \A i \in Critical : i[1] = b => i \notin accepted
    BY <1>1, <1>6 DEF QueueInv
  <1>11. \A c \in Notices \ {b} : Awaited(c)' <=> Awaited(c)
    BY <1>3, RowFacts DEF Awaited, TasksApart, Batches
  <1>12. QED
    BY <1>2, <1>3, <1>4, <1>5, <1>8, <1>9, <1>10, <1>11
LEMMA AdmittedKeeps ==
  ASSUME NoticeInv, ConstantsAssumption, TasksApart, NEW b \in Batches, Admitted(b)
  PROVE  NoticeInv'
  <1>1. TypeHere /\ QueueInv
    BY DEF NoticeInv, TypeOK
  <1>2. /\ UNCHANGED <<group, storage, disk, batch, newest, work, canc, sent, asked>>
        /\ adm' = adm \ {b} /\ accepted' = accepted \cup Parts(b)
        /\ io.by = b /\ io.res = "ok" /\ Unlock(b)
    BY DEF Admitted, Saved, envVars, batchVars
  <1>3. /\ b \in Notices /\ io' = NoWrite /\ lockq' = lockq /\ TypeIo' /\ Once'
        /\ batch[b] # "new" /\ ~Awaited(b)'
        /\ \A c \in Notices \ {b} : Awaited(c)' <=> Awaited(c)
    BY <1>2, ReleaseFacts
  <1>4. ASSUME NEW i \in Items
        PROVE  /\ mem'[i] \in ItemRecords
               /\ mem'[i].st = mem[i].st /\ mem'[i].fut = mem[i].fut
               /\ mem'[i].sup = mem[i].sup /\ mem'[i].tries = mem[i].tries
               /\ i[1] # b => mem'[i] = mem[i]
    <2>1. PICK rec \in ItemRecords : rec = mem[i]
      BY <1>1 DEF TypeHere
    <2>2. /\ [rec EXCEPT !.q = TRUE] \in ItemRecords
          /\ [rec EXCEPT !.q = TRUE].st = rec.st /\ [rec EXCEPT !.q = TRUE].fut = rec.fut
          /\ [rec EXCEPT !.q = TRUE].sup = rec.sup /\ [rec EXCEPT !.q = TRUE].tries = rec.tries
      BY DEF ItemRecords
    <2>3. mem'[i] = rec \/ (i[1] = b /\ mem'[i] = [rec EXCEPT !.q = TRUE])
      BY <2>1 DEF Admitted
    <2>4. QED
      BY <2>1, <2>2, <2>3
  <1>5. mem' = [i \in Items |-> mem'[i]]
    BY DEF Admitted
  <1>6. accepted' \subseteq Critical /\ \A i \in Critical : i[1] # b => (i \in accepted' <=> i \in accepted)
    BY <1>1, <1>2, <1>3, ItemFacts DEF TypeHere
  <1>7. TypeHere'
    <2>1. mem' \in [Items -> ItemRecords] /\ adm' \subseteq Notices
      BY <1>1, <1>2, <1>4, <1>5 DEF TypeHere
    <2>2. QED
      BY <1>1, <1>2, <1>6, <2>1 DEF TypeHere, Working, Cancelling
  <1>8. QueueInv'
    <2>1. \A c \in adm' : Awaited(c)'
      BY <1>1, <1>2, <1>3 DEF QueueInv, TypeHere
    <2>2. \A i \in Critical : Awaited(i[1])' => i \notin accepted'
      BY <1>1, <1>3, <1>6, ItemFacts DEF QueueInv
    <2>3. QED
      BY <1>3, <2>1, <2>2 DEF QueueInv
  <1>9. ASSUME NEW i \in Critical, batch'[i[1]] = "new" PROVE NewHere(i)' /\ NewOnDisk(i)'
    <2>1. i[1] # b /\ NewHere(i) /\ NewOnDisk(i) /\ i \in Items /\ i[1] \in Notices
      BY <1>2, <1>3, <1>9, ItemFacts DEF NoticeInv
    <2>2. NewHere(i)'
      BY <1>2, <1>4, <2>1 DEF NewHere
    <2>3. io'.data[i] = NoRow /\ ~Awaited(i[1])' /\ i \notin accepted'
      BY <1>3, <1>6, <2>1, RowFacts DEF NewOnDisk
    <2>4. QED
      BY <1>2, <2>1, <2>2, <2>3 DEF NewOnDisk
  <1>10. ASSUME NEW i \in Critical, Owed(i)' PROVE OwedHere(i)' /\ OwedOnDisk(i)'
    <2>1. i \in Items /\ i[1] \in Notices
      BY ItemFacts
    <2>2. Owed(i)
      BY <1>2, <1>3, <1>6, <1>10, <2>1 DEF Owed, Awaited
    <2>3. OwedHere(i) /\ OwedOnDisk(i)
      BY <2>2 DEF NoticeInv
    <2>4. OwedHere(i)'
      BY <1>2, <1>4, <2>1, <2>3 DEF OwedHere
    <2>5. i \in accepted' => disk'[i].status \in Kept
      BY <1>2, <1>6, <2>3 DEF OwedOnDisk
    <2>6. io'.by = "nobody" /\ io'.by # i[1]
      BY <1>3, <2>1, RowFacts DEF TasksApart, Batches
    <2>7. QED
      BY <2>4, <2>5, <2>6 DEF OwedOnDisk
  <1>11. QED
    BY <1>3, <1>7, <1>8, <1>9, <1>10 DEF NoticeInv, TypeOK

LEMMA AdmitFailsKeeps ==
  ASSUME NoticeInv, ConstantsAssumption, TasksApart, NEW b \in Batches, AdmitFails(b)
  PROVE  NoticeInv'
  <1>1. TypeHere /\ QueueInv
    BY DEF NoticeInv, TypeOK
  <1>2. /\ UNCHANGED <<group, disk, newest, work, canc, sent, accepted, asked>>
        /\ adm' = adm \ {b} /\ batch' = [batch EXCEPT ![b] = "gone"]
        /\ io.by = b /\ Unlock(b)
    BY DEF AdmitFails, SaveFailed, envVars, ghostVars
  <1>3. /\ b \in Notices /\ io' = NoWrite /\ lockq' = lockq /\ TypeIo' /\ Once'
        /\ batch[b] # "new" /\ ~Awaited(b)' /\ \A i \in Critical : i[1] = b => i \notin accepted
        /\ \A c \in Notices \ {b} : Awaited(c)' <=> Awaited(c)
    BY <1>2, ReleaseFacts
  <1>4. ASSUME NEW i \in Items
        PROVE  mem'[i] \in ItemRecords /\ (i[1] # b => mem'[i] = mem[i])
    <2>1. PICK rec \in ItemRecords : rec = mem[i]
      BY <1>1 DEF TypeHere
    <2>2. /\ [rec EXCEPT !.st = "cancelled", !.fut = TRUE, !.reg = FALSE] \in ItemRecords
          /\ [rec EXCEPT !.reg = FALSE] \in ItemRecords
      BY DEF ItemRecords, States
    <2>3. mem'[i] = IF i[1] # b THEN rec
                    ELSE IF b \in adm THEN [rec EXCEPT !.st = "cancelled", !.fut = TRUE, !.reg = FALSE]
                    ELSE [rec EXCEPT !.reg = FALSE]
      BY <2>1 DEF AdmitFails
    <2>4. QED
      BY <2>1, <2>2, <2>3
  <1>5. mem' = [i \in Items |-> mem'[i]]
    BY DEF AdmitFails
  <1>6. /\ storage' \in Table
        /\ \A i \in Critical : i[1] # b => storage'[i] = storage[i]
    BY <1>1, RowFacts DEF TypeHere, Table, AdmitFails
  <1>7. /\ batch' \in [Batches -> {"new", "live", "completed", "gone"}]
        /\ \A c \in Batches : batch'[c] = "new" => batch[c] = "new" /\ c # b
    BY <1>1, <1>2 DEF TypeHere
  <1>8. TypeHere'
    <2>1. mem' \in [Items -> ItemRecords] /\ adm' \subseteq Notices
      BY <1>1, <1>2, <1>4, <1>5 DEF TypeHere
    <2>2. QED
      BY <1>1, <1>2, <1>6, <1>7, <2>1 DEF TypeHere, Working, Cancelling
  <1>9. QueueInv'
    <2>1. \A c \in adm' : Awaited(c)'
      BY <1>1, <1>2, <1>3 DEF QueueInv, TypeHere
    <2>2. \A i \in Critical : Awaited(i[1])' => i \notin accepted'
      BY <1>1, <1>2, <1>3, ItemFacts DEF QueueInv
    <2>3. QED
      BY <1>3, <2>1, <2>2 DEF QueueInv
  <1>10. ASSUME NEW i \in Critical, batch'[i[1]] = "new" PROVE NewHere(i)' /\ NewOnDisk(i)'
    <2>1. i[1] # b /\ NewHere(i) /\ NewOnDisk(i) /\ i \in Items /\ i[1] \in Notices
      BY <1>7, <1>10, ItemFacts DEF NoticeInv
    <2>2. NewHere(i)'
      BY <1>2, <1>4, <1>6, <2>1 DEF NewHere
    <2>3. io'.data[i] = NoRow /\ ~Awaited(i[1])'
      BY <1>3, <2>1, RowFacts DEF NewOnDisk
    <2>4. QED
      BY <1>2, <2>1, <2>2, <2>3 DEF NewOnDisk
  <1>11. ASSUME NEW i \in Critical, Owed(i)' PROVE OwedHere(i)' /\ OwedOnDisk(i)'
    <2>1. i \in Items /\ i[1] \in Notices
      BY ItemFacts
    <2>2. i[1] # b
      BY <1>2, <1>3, <1>11 DEF Owed
    <2>3. Owed(i)
      BY <1>2, <1>3, <1>11, <2>1, <2>2 DEF Owed
    <2>4. OwedHere(i) /\ OwedOnDisk(i)
      BY <2>3 DEF NoticeInv
    <2>5. OwedHere(i)'
      BY <1>2, <1>4, <1>6, <2>1, <2>2, <2>4 DEF OwedHere
    <2>6. i \in accepted' => disk'[i].status \in Kept
      BY <1>2, <2>4 DEF OwedOnDisk
    <2>7. io'.by = "nobody" /\ io'.by # i[1]
      BY <1>3, <2>1, RowFacts DEF TasksApart, Batches
    <2>8. QED
      BY <2>5, <2>6, <2>7 DEF OwedOnDisk
  <1>12. QED
    BY <1>3, <1>8, <1>9, <1>10, <1>11 DEF NoticeInv, TypeOK

-----------------------------------------------------------------------------
(* The invariant.                                                          *)

LEMMA InitNotice ==
  ASSUME Init, ConstantsAssumption, TasksApart
  PROVE  NoticeInv
  <1>1. PICK coming \in SUBSET Batches, legacy \in SUBSET Notices :
          /\ coming \cap legacy = {}
          /\ disk = [i \in Critical |-> IF i[1] \in legacy THEN [NoRow EXCEPT !.status = "pending"] ELSE NoRow]
          /\ batch = [b \in Batches |-> IF b \in coming THEN "new" ELSE "gone"]
          /\ accepted = UNION {Parts(b) : b \in legacy}
    BY DEF Init
  <1>2. /\ mem = [i \in Items |-> Blank] /\ storage = disk /\ lockq = <<>> /\ io = NoWrite /\ adm = {}
        /\ newest = NoBatch /\ group \in Chats /\ work = Starting /\ canc = Unasked
        /\ sent = [i \in Items |-> 0] /\ asked = {}
    BY DEF Init, Chats
  <1>3. [NoRow EXCEPT !.status = "pending"] \in [status : States, chat : Chats]
        /\ [NoRow EXCEPT !.status = "pending"].status = "pending"
    BY RowFacts DEF NoRow, States, Chats
  <1>4. /\ disk \in Table
        /\ \A i \in Critical : disk[i] = IF i[1] \in legacy THEN [NoRow EXCEPT !.status = "pending"] ELSE NoRow
    BY <1>1, <1>3, RowFacts DEF Table
  <1>5. accepted \subseteq Critical /\ \A i \in accepted : i[1] \in legacy
    BY <1>1, ItemFacts
  <1>6. \A b \in Notices : ~Awaited(b)
    BY <1>2, RowFacts DEF Awaited, TasksApart, Batches
  <1>7. TypeIo
    BY <1>2, RowFacts DEF TypeIo
  <1>8. TypeHere
    <2>1. mem \in [Items -> ItemRecords] /\ batch \in [Batches -> {"new", "live", "completed", "gone"}]
      BY <1>1, <1>2, RowFacts
    <2>2. ~Working /\ ~Cancelling /\ work \in WorkRecords /\ canc \in CancRecords
      BY <1>2, RestFacts DEF Working, Cancelling
    <2>3. sent \in [Items -> Nat]
      BY <1>2
    <2>4. QED
      BY <1>2, <1>4, <1>5, <2>1, <2>2, <2>3 DEF TypeHere
  <1>9. QueueInv
    <2>1. Once
      BY <1>2, RowFacts DEF Once, TasksApart, Batches
    <2>2. QED
      BY <1>2, <1>6, <2>1, ItemFacts DEF QueueInv
  <1>10. ASSUME NEW i \in Critical
         PROVE  /\ mem[i] = Blank /\ work.item # i /\ work.todo = {} /\ work.ready = {} /\ work.gone[i] = NoRow
                /\ canc.item # i /\ canc.todo = {} /\ canc.gone[i] = NoRow
                /\ io.data[i] = NoRow /\ io.by = "nobody" /\ io.by # i[1] /\ ~Awaited(i[1])
    BY <1>2, <1>6, RestFacts, RowFacts, ItemFacts DEF TasksApart
  <1>11. ASSUME NEW i \in Critical, batch[i[1]] = "new" PROVE NewHere(i) /\ NewOnDisk(i)
    <2>1. i[1] \notin legacy
      BY <1>1, <1>11, ItemFacts
    <2>2. QED
      BY <1>2, <1>4, <1>5, <1>10, <2>1 DEF NewHere, NewOnDisk
  <1>12. ASSUME NEW i \in Critical, Owed(i) PROVE OwedHere(i) /\ OwedOnDisk(i)
    <2>1. i[1] \in legacy
      BY <1>5, <1>10, <1>12 DEF Owed
    <2>2. disk[i].status \in Kept /\ storage[i].status \in Kept
      BY <1>2, <1>3, <1>4, <2>1 DEF Kept
    <2>3. OwedHere(i)
      BY <1>2, <1>10, <2>2, RowFacts, RestFacts DEF OwedHere, Waiting
    <2>4. QED
      BY <1>10, <2>2, <2>3 DEF OwedOnDisk
  <1>13. QED
    BY <1>7, <1>8, <1>9, <1>11, <1>12 DEF NoticeInv, TypeOK

LEMMA StutterKeeps ==
  ASSUME NoticeInv, UNCHANGED vars
  PROVE  NoticeInv'
  <1>1. UNCHANGED <<group, disk, mem, storage, batch, newest, adm, work, canc, sent, accepted, asked, lockq, io>>
    BY DEF vars, envVars, fileVars, batchVars, ghostVars
  <1>2. TypeOK'
    BY <1>1 DEF NoticeInv, TypeOK, TypeHere, TypeIo, Working, Cancelling
  <1>3. QueueInv'
    BY <1>1 DEF NoticeInv, QueueInv, Once, Awaited
  <1>4. \A i \in Critical : batch'[i[1]] = "new" => NewHere(i)' /\ NewOnDisk(i)'
    BY <1>1 DEF NoticeInv, NewHere, NewOnDisk, Awaited
  <1>5. \A i \in Critical : Owed(i)' => OwedHere(i)' /\ OwedOnDisk(i)'
    BY <1>1 DEF NoticeInv, Owed, OwedHere, OwedOnDisk, Awaited
  <1>6. QED
    BY <1>2, <1>3, <1>4, <1>5 DEF NoticeInv

LEMMA StepNotice ==
  ASSUME NoticeInv, ConstantsAssumption, TasksApart, [Next]_vars
  PROVE  NoticeInv'
  <1>1. ASSUME NEW i \in Critical, Recreate(i) \/ ReloadRow(i) PROVE NoticeInv'
    BY <1>1, RecreateKeeps, ReloadRowKeeps
  <1>2. CASE ReloadEnds
    BY <1>2, ReloadEndsKeeps
  <1>3. CASE Worker
    <2>1. ASSUME NEW i \in Items, Get(i) PROVE NoticeInv'
      BY <2>1, GetKeeps
    <2>2. CASE TransportDelivered \/ TransportLost \/ TransportRefused \/ TransportRejected
      BY <2>2, TransportKeeps
    <2>3. CASE Prepare \/ BackoffEnds \/ RecordSaved
      BY <2>3, PrepareKeeps, BackoffEndsKeeps, RecordSavedKeeps
    <2>4. CASE Track \/ WorkSettled \/ Requeue
      BY <2>4, TrackKeeps, WorkSettledKeeps, RequeueKeeps
    <2>5. CASE Reload \/ Pinned
      BY <2>5, ReloadKeeps, ReloadEndsKeeps
    <2>6. QED
      BY <1>3, <2>1, <2>2, <2>3, <2>4, <2>5 DEF Worker
  <1>4. CASE Others
    <2>1. CASE TakeLock \/ WriteEnds
      BY <2>1, TakeLockKeeps, WriteEndsKeeps
    <2>2. ASSUME NEW b \in Batches, AdmitNotice(b) \/ Admitted(b) \/ AdmitFails(b) \/ AdmitKeyed(b) PROVE NoticeInv'
      BY <2>2, AdmitNoticeKeeps, AdmittedKeeps, AdmitFailsKeeps, AdmitKeyedKeeps
    <2>3. ASSUME NEW b \in Batches, NEW empty \in BOOLEAN, AdmitWarning(b, empty) PROVE NoticeInv'
      BY <2>3, AdmitWarningKeeps
    <2>4. ASSUME NEW b \in Notices, CancelStart(b) PROVE NoticeInv'
      BY <2>4, CancelStartKeeps
    <2>5. ASSUME NEW i \in Critical, CancelNext(i) PROVE NoticeInv'
      BY <2>5, CancelNextKeeps
    <2>6. CASE CancelSaved \/ CancelEnds
      BY <2>6, CancelSavedKeeps, CancelEndsKeeps
    <2>7. CASE Toggle \/ \E g \in Groups : ChooseGroup(g)
      BY <2>7, OperatorKeeps
    <2>8. CASE Crash \/ Stop
      BY <2>8, RestartKeeps
    <2>9. QED
      BY <1>4, <2>1, <2>2, <2>3, <2>4, <2>5, <2>6, <2>7, <2>8 DEF Others
  <1>5. CASE UNCHANGED vars
    BY <1>5, StutterKeeps
  <1>6. QED
    BY <1>1, <1>2, <1>3, <1>4, <1>5 DEF Next

\* The rows of NoticeInv are what NoticeKept speaks of.
LEMMA KeptOnDisk ==
  ASSUME NoticeInv, ConstantsAssumption
  PROVE  NoticeKept
  <1>1. ASSUME NEW i \in accepted, disk[i].status = "none", ~(sent[i] > 0), i \notin asked PROVE FALSE
    <2>1. i \in Critical /\ sent[i] \in Nat
      BY ItemFacts DEF NoticeInv, TypeOK, TypeHere
    <2>2. Owed(i)
      BY <1>1, <2>1 DEF Owed
    <2>3. OwedOnDisk(i)
      BY <2>1, <2>2 DEF NoticeInv
    <2>4. QED
      BY <1>1, <2>3 DEF OwedOnDisk, Kept
  <1>2. QED
    BY <1>1 DEF NoticeKept

\* Every run of the outbox keeps the state well typed: the tasks, the rows in memory and in
\* the file, and the queue for the lock.
THEOREM TypeCorrect ==
  ASSUME TasksApart
  PROVE  Spec => []TypeOK
  <1>1. Init => NoticeInv
    BY ConstantsAssumption, InitNotice
  <1>2. NoticeInv /\ [Next]_vars => NoticeInv'
    BY ConstantsAssumption, StepNotice
  <1>3. NoticeInv => TypeOK
    BY DEF NoticeInv
  <1>4. QED
    BY <1>1, <1>2, <1>3, PTL DEF Spec

\* An accepted notice is in the file until it has been sent or someone has asked to withdraw
\* it (pending_notifications.json of telegram_bot/dispatcher.py), whatever fails, whenever the
\* process dies and however the worker, the admissions and the withdrawals take turns.
THEOREM NoNoticeIsLost ==
  ASSUME TasksApart
  PROVE  Spec => []NoticeKept
  <1>1. Init => NoticeInv
    BY ConstantsAssumption, InitNotice
  <1>2. NoticeInv /\ [Next]_vars => NoticeInv'
    BY ConstantsAssumption, StepNotice
  <1>3. NoticeInv => NoticeKept
    BY ConstantsAssumption, KeptOnDisk
  <1>4. QED
    BY <1>1, <1>2, <1>3, PTL DEF Spec

-----------------------------------------------------------------------------
(* Observations.                                                            *)

\* An observation that may still be sent.
Unsettled == {"queued", "preparing", "sending"}

\* A message with a key that counts for its destination and monitoring period, and has
\* been sent or may still be.
Holds(b) ==
  LET rec == mem[<<b, 1>>]
  IN /\ what[b] = "keyed" /\ ~rec.old /\ ~rec.moved
     /\ rec.st \in Unsettled \/ (sent[<<b, 1>>] > 0 /\ rec.st # "absent")

\* A report that may still be sent where it belongs.
ReportDue(b) ==
  LET rec == mem[<<b, 1>>]
  IN what[b] = "warning" /\ rec.st \in Unsettled /\ ~rec.sup /\ ~rec.old /\ ~rec.moved

\* What the worker has in hand was not sent, and is not queued a second time; it only
\* keeps observations while it prepares, sends or waits.
HandRight(b) ==
  LET i == <<b, 1>>
  IN work.item = i =>
       /\ sent[i] = 0 /\ ~mem[i].q
       /\ \/ work.pc = "prepare" /\ mem[i].st \in {"preparing", "cancelled"}
          \/ work.pc = "transport" /\ mem[i].st = "sending"
          \/ work.pc = "backoff" /\ mem[i].st \in {"queued", "cancelled"}

\* What was sent is over; what is queued was not sent.
SentRight(b) ==
  LET i == <<b, 1>>
  IN /\ batch[b] = "new" => mem[i] = Blank /\ sent[i] = 0 /\ work.item # i
     /\ sent[i] <= 1
     /\ sent[i] > 0 => mem[i].st \in {"delivered", "uncertain", "absent"}
     /\ mem[i].q => mem[i].st \in {"queued", "cancelled"}

\* Who counts has the key, and a report that is due is the newest.
Orderly(b) == HandRight(b) /\ SentRight(b) /\ (Holds(b) => dedup = b) /\ (ReportDue(b) => newest = b)

ObsInv ==
  /\ what \in [Observations -> {"warning", "keyed"}]
  /\ dedup \in Observations \cup {NoBatch}
  /\ newest # NoBatch => what[newest] = "warning" /\ batch[newest] # "new"
  /\ \A b \in Observations : Orderly(b)

\* A step that leaves the observations, their key and the newest report alone, and does not
\* take an observation in hand.
Aloof ==
  /\ what' = what /\ dedup' = dedup /\ newest' = newest
  /\ \A b \in Observations :
       /\ mem'[<<b, 1>>] = mem[<<b, 1>>] /\ sent'[<<b, 1>>] = sent[<<b, 1>>] /\ batch'[b] = batch[b]
       /\ work'.item = <<b, 1>> => work.item = <<b, 1>> /\ work'.pc = work.pc

LEMMA AloofKeeps == ASSUME NoticeInv, ObsInv, Aloof PROVE ObsInv'
  <1>1. what' \in [Observations -> {"warning", "keyed"}] /\ dedup' \in Observations \cup {NoBatch}
    BY DEF ObsInv, Aloof
  <1>2. newest' # NoBatch => what'[newest'] = "warning" /\ batch'[newest'] # "new"
    BY DEF ObsInv, Aloof, NoticeInv, TypeOK, TypeHere
  <1>3. ASSUME NEW b \in Observations PROVE Orderly(b)'
    <2>1. Orderly(b)
      BY DEF ObsInv
    <2>2. HandRight(b)'
      BY <2>1 DEF Aloof, Orderly, HandRight
    <2>3. SentRight(b)'
      BY <2>1 DEF Aloof, Orderly, SentRight
    <2>4. Holds(b)' => dedup' = b
      BY <2>1 DEF Aloof, Orderly, Holds
    <2>5. ReportDue(b)' => newest' = b
      BY <2>1 DEF Aloof, Orderly, ReportDue
    <2>6. QED
      BY <2>2, <2>3, <2>4, <2>5 DEF Orderly
  <1>4. QED
    BY <1>1, <1>2, <1>3 DEF ObsInv

\* The worker has a notice in hand unless it prepares, sends or waits.
LEMMA HandsFull ==
  ASSUME NoticeInv, ObsInv, ConstantsAssumption
  PROVE  /\ work.pc \notin {"prepare", "transport", "backoff"} => \A b \in Observations : work.item # <<b, 1>>
         /\ Working /\ work.pc \notin {"prepare", "transport", "backoff"} => work.item \in Critical
  <1>1. ASSUME NEW b \in Observations, work.item = <<b, 1>> PROVE work.pc \in {"prepare", "transport", "backoff"}
    BY <1>1 DEF ObsInv, Orderly, HandRight
  <1>2. ASSUME Working, work.item \notin Critical PROVE \E b \in Observations : work.item = <<b, 1>>
    <2>1. work.item \in Items
      BY <1>2 DEF NoticeInv, TypeOK, TypeHere
    <2>2. PICK b \in Batches : work.item \in Parts(b)
      BY <2>1 DEF Items
    <2>3. b \in Observations
      BY <1>2, <2>2, ItemFacts DEF Batches
    <2>4. Parts(b) = {<<b, 1>>}
      BY <2>3, ItemFacts
    <2>5. QED
      BY <2>2, <2>3, <2>4
  <1>3. QED
    BY <1>1, <1>2

\* Finishing a notice leaves the observations alone.
LEMMA FinishAloof ==
  ASSUME NoticeInv, ObsInv, ConstantsAssumption, NEW i \in Critical, NEW rec, NEW t, Finishing(t, i, rec)
  PROVE  /\ dedup' = dedup /\ newest' = newest
         /\ \A b \in Observations : mem'[<<b, 1>>] = mem[<<b, 1>>] /\ batch'[b] = batch[b]
  <1>1. /\ mem \in [Items -> ItemRecords] /\ batch \in [Batches -> {"new", "live", "completed", "gone"}]
        /\ newest \in Observations \cup {NoBatch} /\ dedup \in Observations \cup {NoBatch}
    BY DEF NoticeInv, TypeOK, TypeHere, ObsInv
  <1>2. i[1] \notin Observations \cup {NoBatch} /\ i[1] \in Batches /\ i \in Items
    BY ItemFacts
  <1>3. dedup' = dedup /\ newest' = newest
    BY <1>1, <1>2 DEF Finishing, Settled, batchVars
  <1>4. ASSUME NEW b \in Observations PROVE mem'[<<b, 1>>] = mem[<<b, 1>>] /\ batch'[b] = batch[b]
    <2>1. <<b, 1>> \in Items /\ <<b, 1>> # i /\ b # i[1] /\ b \in Batches
      BY <1>2, ItemFacts
    <2>2. mem'[<<b, 1>>] = mem[<<b, 1>>]
      BY <1>1, <2>1 DEF Finishing, Done
    <2>3. batch'[b] = batch[b]
      BY <1>1, <2>1 DEF Finishing, Settled, batchVars
    <2>4. QED
      BY <2>2, <2>3
  <1>5. QED
    BY <1>3, <1>4

LEMMA WorkFinishAloof ==
  ASSUME NoticeInv, ObsInv, ConstantsAssumption, NEW i \in Critical, NEW rec, NEW pc, WorkFinish(i, rec, pc),
         pc = "idle" \/ work.pc = "row",
         what' = what, \A b \in Observations : sent'[<<b, 1>>] = sent[<<b, 1>>]
  PROVE  ObsInv'
  <1>1. Finishing("worker", i, rec)
    BY WorkFinishing
  <1>2. work \in WorkRecords /\ NoItem # i
    BY ItemFacts DEF NoticeInv, TypeOK, TypeHere
  <1>3. ASSUME NEW b \in Observations PROVE work'.item # <<b, 1>>
    <2>1. <<b, 1>> # i /\ <<b, 1>> # NoItem
      BY ItemFacts
    <2>2. \/ work' = [work EXCEPT !.pc = "settle", !.item = i, !.gone = GoneRows(i, rec), !.todo = @ \ {i}]
          \/ pc = "idle" /\ work' = Resting
          \/ pc # "idle" /\ work' = [work EXCEPT !.pc = pc, !.todo = @ \ {i}]
      BY WorkFinishing
    <2>3. CASE work' = [work EXCEPT !.pc = "settle", !.item = i, !.gone = GoneRows(i, rec), !.todo = @ \ {i}]
      <3>1. work'.item = i
        BY <1>2, <2>3 DEF WorkRecords
      <3>2. QED
        BY <2>1, <3>1
    <2>4. CASE work' = Resting
      BY <2>1, <2>4, RestFacts
    <2>5. CASE pc # "idle" /\ work' = [work EXCEPT !.pc = pc, !.todo = @ \ {i}]
      <3>1. work'.item = work.item
        BY <1>2, <2>5 DEF WorkRecords
      <3>2. work.item # <<b, 1>>
        BY <2>5, HandsFull
      <3>3. QED
        BY <3>1, <3>2
    <2>6. QED
      BY <2>2, <2>3, <2>4, <2>5
  <1>4. Aloof
    BY <1>1, <1>3, FinishAloof DEF Aloof
  <1>5. QED
    BY <1>4, AloofKeeps

\* What a step that touches no observation, and takes none in hand, needs to be aloof.
LEMMA NoticeStep ==
  ASSUME NoticeInv, ObsInv, ConstantsAssumption,
         what' = what, dedup' = dedup, newest' = newest, sent' = sent,
         \A i \in Items \ Critical : mem'[i] = mem[i], \A b \in Observations : batch'[b] = batch[b],
         work' = work \/ work'.item \in Critical \cup {NoItem}
  PROVE  ObsInv'
  <1>1. ASSUME NEW b \in Observations PROVE <<b, 1>> \in Items \ Critical /\ <<b, 1>> # NoItem
    BY ItemFacts
  <1>2. Aloof
    BY <1>1 DEF Aloof
  <1>3. QED
    BY <1>2, AloofKeeps

\* The lock, and the writes.
LEMMA LockAloof == ASSUME NoticeInv, ObsInv, ConstantsAssumption, TakeLock \/ WriteEnds PROVE ObsInv'
  <1>1. UNCHANGED <<what, dedup, newest, sent, mem, batch, work>>
    BY DEF TakeLock, WriteEnds, envVars, batchVars, ghostVars
  <1>2. QED
    BY <1>1, NoticeStep

\* Admissions of notices.
LEMMA AdmitNoticeAloof ==
  ASSUME NoticeInv, ObsInv, ConstantsAssumption, TasksApart, NEW b \in Batches,
         AdmitNotice(b) \/ Admitted(b) \/ AdmitFails(b)
  PROVE  ObsInv'
  <1>1. b \in Notices
    <2>1. io.by \in Tasks \cup {"nobody"}
      BY DEF NoticeInv, TypeOK, TypeIo, Writes
    <2>2. QED
      BY <2>1 DEF AdmitNotice, Admitted, AdmitFails, Saved, SaveFailed, Tasks, TasksApart
  <1>2. UNCHANGED <<what, dedup, newest, sent, work>>
    BY DEF AdmitNotice, Admitted, AdmitFails, envVars, batchVars, ghostVars
  <1>3. mem \in [Items -> ItemRecords] /\ batch \in [Batches -> {"new", "live", "completed", "gone"}]
    BY DEF NoticeInv, TypeOK, TypeHere
  <1>4. ASSUME NEW i \in Items \ Critical PROVE mem'[i] = mem[i]
    <2>1. i[1] # b
      BY <1>1, ItemFacts
    <2>2. QED
      BY <1>3, <2>1 DEF AdmitNotice, Admitted, AdmitFails
  <1>5. ASSUME NEW c \in Observations PROVE batch'[c] = batch[c]
    <2>1. c # b
      BY <1>1 DEF ConstantsAssumption
    <2>2. c \in Batches
      BY DEF Batches
    <2>3. QED
      BY <1>3, <2>1, <2>2 DEF AdmitNotice, Admitted, AdmitFails, batchVars
  <1>6. QED
    BY <1>2, <1>4, <1>5, NoticeStep

\* The reload.
LEMMA ReloadAloof ==
  ASSUME NoticeInv, ObsInv, ConstantsAssumption, Reload \/ ReloadEnds \/ Pinned
  PROVE  ObsInv'
  <1>1. mem \in [Items -> ItemRecords] /\ work.ready \subseteq Critical /\ work \in WorkRecords
    BY DEF NoticeInv, TypeOK, TypeHere, WorkRecords
  <1>2. UNCHANGED <<what, dedup, newest, sent, batch>>
    BY DEF Reload, ReloadEnds, Pinned, frameW, envVars, batchVars
  <1>3. \A i \in Items \ Critical : QueueReady[i] = mem[i]
    BY <1>1 DEF QueueReady
  <1>4. \A i \in Items \ Critical : mem'[i] = mem[i]
    BY <1>3 DEF Reload, ReloadEnds, Pinned
  <1>5. CASE work' = Resting \/ work' = Starting
    BY <1>2, <1>4, <1>5, RestFacts, NoticeStep
  <1>6. CASE work' = [Resting EXCEPT !.pc = "row", !.rows = storage, !.todo = {i \in Critical : storage[i] # NoRow}]
    <2>1. work'.item = NoItem
      BY <1>6, RestFacts DEF Resting
    <2>2. QED
      BY <1>2, <1>4, <2>1, NoticeStep
  <1>7. CASE work.pc = "row" /\ work' = [work EXCEPT !.pc = "pin"]
    <2>1. work'.item = work.item
      BY <1>1, <1>7 DEF WorkRecords
    <2>2. \A b \in Observations : work.item # <<b, 1>>
      BY <1>7, HandsFull
    <2>3. \A b \in Observations : <<b, 1>> \in Items \ Critical
      BY ItemFacts
    <2>4. Aloof
      BY <1>2, <1>4, <2>1, <2>2, <2>3 DEF Aloof
    <2>5. QED
      BY <2>4, AloofKeeps
  <1>8. QED
    BY <1>5, <1>6, <1>7 DEF Reload, ReloadEnds, Pinned

LEMMA RowAloof ==
  ASSUME NoticeInv, ObsInv, ConstantsAssumption, NEW i \in Critical, Recreate(i) \/ ReloadRow(i)
  PROVE  ObsInv'
  <1>1. /\ mem \in [Items -> ItemRecords] /\ work \in WorkRecords
        /\ batch \in [Batches -> {"new", "live", "completed", "gone"}]
    BY DEF NoticeInv, TypeOK, TypeHere
  <1>2. work.pc = "row" /\ what' = what /\ sent' = sent
    BY DEF Recreate, ReloadRow, frameW, envVars
  <1>3. \A b \in Observations : work.item # <<b, 1>>
    BY <1>2, HandsFull
  <1>4. \A b \in Observations : <<b, 1>> \in Items \ Critical /\ b # i[1] /\ b \in Batches /\ <<b, 1>>[1] # i[1]
    BY ItemFacts
  <1>5. CASE Recreate(i)
    <2>1. UNCHANGED <<dedup, newest, work>>
      BY <1>5 DEF Recreate
    <2>2. ASSUME NEW p \in Items \ Critical PROVE mem'[p] = mem[p]
      <3>1. p # i /\ p[1] # i[1]
        BY ItemFacts
      <3>2. QED
        BY <1>5, <3>1 DEF Recreate
    <2>3. \A b \in Observations : batch'[b] = batch[b]
      BY <1>1, <1>4, <1>5 DEF Recreate
    <2>4. QED
      BY <1>2, <2>1, <2>2, <2>3, NoticeStep
  <1>6. CASE WorkFinish(i, mem[i], "row")
    BY <1>2, <1>6, WorkFinishAloof
  <1>7. CASE /\ UNCHANGED batchVars /\ work'.item = work.item
             /\ mem' = mem \/ mem' = [mem EXCEPT ![i] = [mem[i] EXCEPT !.chat = group]]
    <2>1. \A b \in Observations : mem'[<<b, 1>>] = mem[<<b, 1>>]
      BY <1>1, <1>4, <1>7
    <2>2. Aloof
      BY <1>2, <1>3, <1>7, <2>1 DEF Aloof, batchVars
    <2>3. QED
      BY <2>2, AloofKeeps
  <1>8. CASE ReloadRow(i)
    <2>1. \/ WorkFinish(i, mem[i], "row")
          \/ /\ UNCHANGED batchVars
             /\ mem' = mem \/ mem' = [mem EXCEPT ![i] = [mem[i] EXCEPT !.chat = group]]
             /\ \/ work' = [work EXCEPT !.todo = @ \ {i}]
                \/ work' = [work EXCEPT !.todo = @ \ {i}, !.ready = @ \cup {i}]
      BY <1>8 DEF ReloadRow
    <2>2. QED
      BY <1>1, <1>6, <1>7, <2>1 DEF WorkRecords
  <1>9. QED
    BY <1>5, <1>8

\* What the worker does with a notice it has in hand.
LEMMA RecordAloof ==
  ASSUME NoticeInv, ObsInv, ConstantsAssumption, NEW i \in Critical, NEW rec, NEW pc \in {"savedone", "savefail"}, Record(i, rec, pc),
         what' = what, \A b \in Observations : sent'[<<b, 1>>] = sent[<<b, 1>>]
  PROVE  ObsInv'
  <1>1. mem \in [Items -> ItemRecords] /\ work \in WorkRecords
    BY DEF NoticeInv, TypeOK, TypeHere
  <1>2. \A b \in Observations : <<b, 1>> \in Items /\ <<b, 1>> # i
    BY ItemFacts
  <1>3. work' = [work EXCEPT !.pc = pc, !.item = i] /\ UNCHANGED <<batch, dedup, newest>>
    BY DEF Record, batchVars
  <1>4. work'.item = i
    BY <1>1, <1>3 DEF WorkRecords
  <1>5. \A b \in Observations : mem'[<<b, 1>>] = mem[<<b, 1>>]
    BY <1>1, <1>2 DEF Record
  <1>6. Aloof
    BY <1>2, <1>3, <1>4, <1>5 DEF Aloof
  <1>7. QED
    BY <1>6, AloofKeeps

\* Another state of a notice the worker has in hand, or lets go.
LEMMA EditAloof ==
  ASSUME NoticeInv, ObsInv, ConstantsAssumption, NEW i \in Critical, NEW rec, mem' = [mem EXCEPT ![i] = rec],
         what' = what, UNCHANGED batchVars, \A b \in Observations : sent'[<<b, 1>>] = sent[<<b, 1>>],
         work'.item \in {i, NoItem}
  PROVE  ObsInv'
  <1>1. mem \in [Items -> ItemRecords]
    BY DEF NoticeInv, TypeOK, TypeHere
  <1>2. ASSUME NEW b \in Observations PROVE <<b, 1>> \in Items /\ <<b, 1>> # i /\ <<b, 1>> # NoItem
    BY ItemFacts
  <1>3. \A b \in Observations : mem'[<<b, 1>>] = mem[<<b, 1>>]
    BY <1>1, <1>2
  <1>4. Aloof
    BY <1>2, <1>3 DEF Aloof, batchVars
  <1>5. QED
    BY <1>4, AloofKeeps

\* An observation in a new state keeps its message, its report and what became of it.
SameScope(rec, i) == rec.sup = mem[i].sup /\ rec.old = mem[i].old /\ rec.moved = mem[i].moved

\* An observation that was not sent changes its state and may still be sent.
LEMMA ObservationEdited ==
  ASSUME NoticeInv, ObsInv, ConstantsAssumption, NEW b \in Observations, NEW rec \in ItemRecords,
         mem' = [mem EXCEPT ![<<b, 1>>] = rec], UNCHANGED batchVars, what' = what, sent' = sent,
         SameScope(rec, <<b, 1>>), rec.st \in Unsettled \cup {"cancelled"},
         rec.st \in Unsettled => mem[<<b, 1>>].st \in Unsettled,
         rec.q => rec.st \in {"queued", "cancelled"},
         sent[<<b, 1>>] = 0, batch[b] # "new",
         \/ work' = Resting
         \/ /\ work'.item = <<b, 1>> /\ ~rec.q
            /\ \/ work'.pc = "prepare" /\ rec.st = "preparing"
               \/ work'.pc = "transport" /\ rec.st = "sending"
               \/ work'.pc = "backoff" /\ rec.st = "queued"
  PROVE  ObsInv'
  <1>1. mem \in [Items -> ItemRecords] /\ <<b, 1>> \in Items /\ <<b, 1>> # NoItem
    BY ItemFacts DEF NoticeInv, TypeOK, TypeHere
  <1>2. mem'[<<b, 1>>] = rec
    BY <1>1
  <1>3. Orderly(b)
    BY DEF ObsInv
  <1>4. HandRight(b)'
    BY <1>1, <1>2, RestFacts DEF HandRight
  <1>5. SentRight(b)'
    BY <1>2 DEF SentRight, batchVars
  <1>6. Holds(b)' => dedup' = b
    BY <1>2, <1>3 DEF Orderly, Holds, SameScope, batchVars, Unsettled
  <1>7. ReportDue(b)' => newest' = b
    BY <1>2, <1>3 DEF Orderly, ReportDue, SameScope, batchVars
  <1>8. Orderly(b)'
    BY <1>4, <1>5, <1>6, <1>7 DEF Orderly
  <1>9. ASSUME NEW c \in Observations, c # b PROVE Orderly(c)'
    <2>1. /\ mem'[<<c, 1>>] = mem[<<c, 1>>] /\ sent'[<<c, 1>>] = sent[<<c, 1>>]
          /\ UNCHANGED <<what, batch, dedup, newest>>
      BY <1>1, <1>9, ItemFacts DEF batchVars
    <2>2. work'.item # <<c, 1>>
      BY <1>9, RestFacts, ItemFacts
    <2>3. Orderly(c)
      BY DEF ObsInv
    <2>4. HandRight(c)' /\ SentRight(c)'
      BY <2>1, <2>2, <2>3 DEF Orderly, HandRight, SentRight
    <2>5. (Holds(c)' => dedup' = c) /\ (ReportDue(c)' => newest' = c)
      BY <2>1, <2>3 DEF Orderly, Holds, ReportDue
    <2>6. QED
      BY <2>4, <2>5 DEF Orderly
  <1>10. /\ what' \in [Observations -> {"warning", "keyed"}] /\ dedup' \in Observations \cup {NoBatch}
         /\ newest' # NoBatch => what'[newest'] = "warning" /\ batch'[newest'] # "new"
    BY DEF ObsInv, batchVars
  <1>11. QED
    BY <1>8, <1>9, <1>10 DEF ObsInv

\* An observation is finished at once: there is no row to remove.
LEMMA NoRowsGo == ASSUME NEW i \in Items \ Critical, NEW rec PROVE GoneRows(i, rec) = NoRows
  <1>1. Removable(i, Done(i, rec)) = {}
    BY DEF Removable
  <1>2. QED
    BY <1>1 DEF GoneRows, NoRows

LEMMA SettleFacts ==
  ASSUME NoticeInv, ObsInv, ConstantsAssumption, NEW b \in Observations, NEW rec \in ItemRecords,
         WorkFinish(<<b, 1>>, rec, "idle")
  PROVE  /\ work' = Resting
         /\ mem' = [mem EXCEPT ![<<b, 1>>] = [rec EXCEPT !.fut = TRUE, !.reg = FALSE]]
         /\ batch' \in {batch, [batch EXCEPT ![b] = "completed"], [batch EXCEPT ![b] = "gone"]}
         /\ newest' = newest \/ (newest = b /\ newest' = NoBatch)
         /\ dedup' = dedup \/ (dedup = b /\ dedup' = NoBatch /\ rec.st \notin {"delivered", "uncertain"})
  <1> DEFINE i == <<b, 1>>
             done == Done(i, rec)
  <1>1. /\ mem \in [Items -> ItemRecords] /\ i \in Items \ Critical /\ Parts(b) = {i} /\ i[1] = b
        /\ i \notin Critical
    BY ItemFacts DEF NoticeInv, TypeOK, TypeHere
  <1>2. PICK fin \in ItemRecords : fin = [rec EXCEPT !.fut = TRUE]
    BY DEF ItemRecords
  <1>3. fin.st = rec.st
    BY <1>2 DEF ItemRecords
  <1>4. done = [mem EXCEPT ![i] = fin] /\ done[i] = fin
    BY <1>1, <1>2 DEF Done
  <1>5. /\ mem' = [done EXCEPT ![i] = Release(i, @)]
        /\ Settled(b, done) \/ UNCHANGED batchVars
        /\ work' = Resting
    BY <1>1, NoRowsGo DEF WorkFinish, Finish
  <1>6. mem' = [mem EXCEPT ![i] = [rec EXCEPT !.fut = TRUE, !.reg = FALSE]]
    <2>1. Release(i, fin) = [fin EXCEPT !.reg = FALSE]
      BY <1>1 DEF Release
    <2>2. [fin EXCEPT !.reg = FALSE] = [rec EXCEPT !.fut = TRUE, !.reg = FALSE]
      BY <1>2
    <2>3. mem' = [mem EXCEPT ![i] = Release(i, fin)]
      BY <1>1, <1>4, <1>5
    <2>4. QED
      BY <2>1, <2>2, <2>3
  <1>7. CASE UNCHANGED batchVars
    BY <1>5, <1>6, <1>7 DEF batchVars
  <1>8. CASE Settled(b, done)
    <2>1. rec.st \in {"delivered", "uncertain"} => (Delivered(b, done) \/ \E p \in Parts(b) : done[p].st = "uncertain")
      BY <1>1, <1>3, <1>4 DEF Delivered
    <2>2. dedup' = dedup \/ (dedup = b /\ dedup' = NoBatch /\ rec.st \notin {"delivered", "uncertain"})
      BY <1>8, <2>1 DEF Settled
    <2>3. batch' \in {batch, [batch EXCEPT ![b] = "completed"], [batch EXCEPT ![b] = "gone"]}
      BY <1>8 DEF Settled
    <2>4. newest' = newest \/ (newest = b /\ newest' = NoBatch)
      BY <1>8 DEF Settled
    <2>5. QED
      BY <1>5, <1>6, <2>2, <2>3, <2>4
  <1>9. QED
    BY <1>5, <1>7, <1>8

\* The worker is through with an observation, which keeps its key if it was sent or may
\* have been.
LEMMA ObservationSettled ==
  ASSUME NoticeInv, ObsInv, ConstantsAssumption, NEW b \in Observations, NEW rec \in ItemRecords,
         WorkFinish(<<b, 1>>, rec, "idle"), what' = what,
         \A c \in Observations : c # b => sent'[<<c, 1>>] = sent[<<c, 1>>],
         SameScope(rec, <<b, 1>>), rec.st \in {"cancelled", "failed", "delivered", "uncertain"},
         mem[<<b, 1>>].st \in Unsettled \/ sent'[<<b, 1>>] = 0,
         ~rec.q, sent'[<<b, 1>>] \in {0, 1}, sent'[<<b, 1>>] > 0 => rec.st \in {"delivered", "uncertain"},
         batch[b] # "new"
  PROVE  ObsInv'
  <1> DEFINE i == <<b, 1>>
  <1>0. /\ work' = Resting
        /\ mem' = [mem EXCEPT ![<<b, 1>>] = [rec EXCEPT !.fut = TRUE, !.reg = FALSE]]
        /\ batch' \in {batch, [batch EXCEPT ![b] = "completed"], [batch EXCEPT ![b] = "gone"]}
        /\ newest' = newest \/ (newest = b /\ newest' = NoBatch)
        /\ dedup' = dedup \/ (dedup = b /\ dedup' = NoBatch /\ rec.st \notin {"delivered", "uncertain"})
    BY SettleFacts
  <1>1. /\ mem \in [Items -> ItemRecords] /\ batch \in [Batches -> {"new", "live", "completed", "gone"}]
        /\ i \in Items /\ b \in Batches /\ newest \in Observations \cup {NoBatch} /\ Observations \subseteq Batches
    BY ItemFacts DEF NoticeInv, TypeOK, TypeHere, Batches
  <1>2. PICK fin \in ItemRecords :
          fin = [rec EXCEPT !.fut = TRUE, !.reg = FALSE] /\ fin.st = rec.st /\ ~fin.q /\ SameScope(fin, i)
    <2>1. [rec EXCEPT !.fut = TRUE, !.reg = FALSE] \in ItemRecords
      BY DEF ItemRecords
    <2>2. QED
      BY <2>1 DEF ItemRecords, SameScope
  <1>3. mem' = [mem EXCEPT ![i] = fin] /\ mem'[i] = fin
    BY <1>1, <1>2, <1>0
  <1>4. Orderly(b)
    BY DEF ObsInv
  <1>5. batch'[b] # "new" /\ \A c \in Batches : c # b => batch'[c] = batch[c]
    BY <1>1, <1>0
  <1>6. ASSUME NEW c \in Observations PROVE work'.item # <<c, 1>>
    <2>1. <<c, 1>> # NoItem
      BY ItemFacts
    <2>2. QED
      BY <1>0, <2>1, RestFacts
  <1>7. SentRight(b)' /\ HandRight(b)'
    <2>1. HandRight(b)'
      BY <1>6 DEF HandRight
    <2>2. mem'[<<b, 1>>].st = rec.st /\ ~mem'[<<b, 1>>].q
      BY <1>2, <1>3
    <2>3. SentRight(b)'
      BY <1>5, <2>2 DEF SentRight
    <2>4. QED
      BY <2>1, <2>3
  <1>8. Holds(b)' => dedup' = b
    <2>1. SUFFICES ASSUME Holds(b)' PROVE dedup' = b
      OBVIOUS
    <2>2. mem'[<<b, 1>>].st = rec.st /\ mem'[<<b, 1>>].old = mem[<<b, 1>>].old /\ mem'[<<b, 1>>].moved = mem[<<b, 1>>].moved
      BY <1>2, <1>3 DEF SameScope
    <2>3. rec.st \in {"delivered", "uncertain"}
      BY <2>1, <2>2 DEF Holds, Unsettled
    <2>4. Holds(b)
      <3>1. what[b] = "keyed" /\ ~mem[<<b, 1>>].old /\ ~mem[<<b, 1>>].moved /\ sent'[<<b, 1>>] > 0
        BY <2>1, <2>2, <2>3 DEF Holds, Unsettled
      <3>2. mem[<<b, 1>>].st \in Unsettled
        BY <3>1
      <3>3. QED
        BY <3>1, <3>2 DEF Holds
    <2>5. QED
      BY <1>0, <1>4, <2>3, <2>4 DEF Orderly
  <1>9. ~ReportDue(b)'
    BY <1>2, <1>3 DEF ReportDue, Unsettled
  <1>10. Orderly(b)'
    BY <1>7, <1>8, <1>9 DEF Orderly
  <1>11. ASSUME NEW c \in Observations, c # b PROVE Orderly(c)'
    <2>1. mem'[<<c, 1>>] = mem[<<c, 1>>] /\ sent'[<<c, 1>>] = sent[<<c, 1>>] /\ batch'[c] = batch[c]
      BY <1>1, <1>3, <1>5, <1>11, ItemFacts
    <2>2. Orderly(c)
      BY DEF ObsInv
    <2>3. HandRight(c)' /\ SentRight(c)'
      BY <1>6, <2>1, <2>2 DEF Orderly, HandRight, SentRight
    <2>4. dedup = c => dedup' = c
      BY <1>11, <1>0
    <2>5. newest = c => newest' = c
      BY <1>11, <1>0
    <2>6. (Holds(c)' => dedup' = c) /\ (ReportDue(c)' => newest' = c)
      BY <2>1, <2>2, <2>4, <2>5 DEF Orderly, Holds, ReportDue
    <2>7. QED
      BY <2>3, <2>6 DEF Orderly
  <1>12. newest' # NoBatch => what'[newest'] = "warning" /\ batch'[newest'] # "new"
    <2>1. newest' # NoBatch => newest' = newest
      BY <1>0
    <2>2. QED
      BY <1>1, <1>5, <2>1 DEF ObsInv
  <1>13. dedup' \in Observations \cup {NoBatch} /\ what' \in [Observations -> {"warning", "keyed"}]
    BY <1>0 DEF ObsInv
  <1>14. QED
    BY <1>10, <1>11, <1>12, <1>13 DEF ObsInv

\* An item with another state, or no longer queued.
LEMMA WithState ==
  ASSUME NEW rec \in ItemRecords, NEW s \in States
  PROVE  \E new \in ItemRecords :
           /\ new = [rec EXCEPT !.st = s] /\ new.st = s /\ new.q = rec.q
           /\ new.sup = rec.sup /\ new.old = rec.old /\ new.moved = rec.moved
  <1>1. [rec EXCEPT !.st = s] \in ItemRecords
    BY DEF ItemRecords, States
  <1>2. QED
    BY <1>1 DEF ItemRecords

LEMMA WithQueue ==
  ASSUME NEW rec \in ItemRecords, NEW v \in BOOLEAN
  PROVE  \E new \in ItemRecords :
           /\ new = [rec EXCEPT !.q = v] /\ new.q = v /\ new.st = rec.st
           /\ new.sup = rec.sup /\ new.old = rec.old /\ new.moved = rec.moved
  <1>1. [rec EXCEPT !.q = v] \in ItemRecords
    BY DEF ItemRecords, States
  <1>2. QED
    BY <1>1 DEF ItemRecords

LEMMA WithTries ==
  ASSUME NEW rec \in ItemRecords, NEW n \in Nat
  PROVE  \E new \in ItemRecords :
           /\ new = [rec EXCEPT !.st = "queued", !.tries = n] /\ new.st = "queued" /\ new.q = rec.q
           /\ new.sup = rec.sup /\ new.old = rec.old /\ new.moved = rec.moved
  <1>1. [rec EXCEPT !.st = "queued", !.tries = n] \in ItemRecords
    BY DEF ItemRecords, States
  <1>2. QED
    BY <1>1 DEF ItemRecords

LEMMA StateNames ==
  {"queued", "preparing", "sending", "delivered", "failed", "cancelled", "uncertain"} \subseteq States
  BY DEF States

\* The worker is through with an observation that was not sent.
LEMMA UnsentSettled ==
  ASSUME NoticeInv, ObsInv, ConstantsAssumption, NEW b \in Observations, NEW rec \in ItemRecords,
         WorkFinish(<<b, 1>>, rec, "idle"), what' = what, sent' = sent, sent[<<b, 1>>] = 0,
         SameScope(rec, <<b, 1>>), rec.st \in {"cancelled", "failed"}, ~rec.q, batch[b] # "new"
  PROVE  ObsInv'
  <1>1. \A c \in Observations : c # b => sent'[<<c, 1>>] = sent[<<c, 1>>]
    OBVIOUS
  <1>2. /\ rec.st \in {"cancelled", "failed", "delivered", "uncertain"} /\ sent'[<<b, 1>>] = 0
        /\ sent'[<<b, 1>>] \in {0, 1} /\ ~(sent'[<<b, 1>>] > 0)
    OBVIOUS
  <1>3. QED
    BY <1>1, <1>2, ObservationSettled

\* The worker takes a notice, or an observation, out of the queue.
LEMMA GetNotice ==
  ASSUME NoticeInv, ObsInv, ConstantsAssumption, NEW i \in Critical, Get(i)
  PROVE  ObsInv'
  <1>1. /\ mem \in [Items -> ItemRecords] /\ work \in WorkRecords /\ i \in Items
        /\ what' = what /\ sent' = sent
    BY HandFacts, ItemFacts DEF Get, frameW, envVars
  <1>2. PICK rec : rec = [mem[i] EXCEPT !.q = FALSE]
    OBVIOUS
  <1>3. \/ WorkFinish(i, rec, "idle") \/ WorkFinish(i, [rec EXCEPT !.st = "cancelled"], "idle")
        \/ Record(i, rec, "savedone")
        \/ /\ mem' = [mem EXCEPT ![i] = [rec EXCEPT !.st = "preparing"]]
           /\ work' = [work EXCEPT !.pc = "prepare", !.item = i]
           /\ UNCHANGED batchVars
    BY <1>2 DEF Get
  <1>4. CASE WorkFinish(i, rec, "idle") \/ WorkFinish(i, [rec EXCEPT !.st = "cancelled"], "idle")
    BY <1>1, <1>4, WorkFinishAloof
  <1>5. CASE Record(i, rec, "savedone")
    BY <1>1, <1>5, RecordAloof
  <1>6. CASE /\ mem' = [mem EXCEPT ![i] = [rec EXCEPT !.st = "preparing"]]
             /\ work' = [work EXCEPT !.pc = "prepare", !.item = i]
             /\ UNCHANGED batchVars
    <2>1. work'.item = i
      BY <1>1, <1>6 DEF WorkRecords
    <2>2. QED
      BY <1>1, <1>6, <2>1, EditAloof
  <1>7. QED
    BY <1>3, <1>4, <1>5, <1>6

LEMMA GetObservation ==
  ASSUME NoticeInv, ObsInv, ConstantsAssumption, NEW b \in Observations, Get(<<b, 1>>)
  PROVE  ObsInv'
  <1> DEFINE i == <<b, 1>>
  <1>1. /\ mem \in [Items -> ItemRecords] /\ mem[i] \in ItemRecords /\ work \in WorkRecords /\ i \in Items
        /\ sent[i] \in Nat /\ what' = what /\ sent' = sent /\ mem[i].q
    BY HandFacts, ItemFacts DEF Get, frameW, envVars
  <1>2. SentRight(b)
    BY DEF ObsInv, Orderly
  <1>3. mem[i].st \in {"queued", "cancelled"} /\ sent[i] = 0 /\ batch[b] # "new"
    BY <1>1, <1>2, RowFacts DEF SentRight
  <1>4. PICK rec \in ItemRecords :
          /\ rec = [mem[i] EXCEPT !.q = FALSE] /\ ~rec.q /\ rec.st = mem[i].st
          /\ rec.sup = mem[i].sup /\ rec.old = mem[i].old /\ rec.moved = mem[i].moved
    BY <1>1, WithQueue
  <1>5. SameScope(rec, i)
    BY <1>4 DEF SameScope
  <1>6. CASE rec.st = "cancelled"
    <2>1. WorkFinish(i, rec, "idle")
      BY <1>4, <1>6 DEF Get
    <2>2. rec.st \in {"cancelled", "failed"}
      BY <1>6
    <2>3. QED
      BY <1>1, <1>3, <1>4, <1>5, <2>1, <2>2, UnsentSettled
  <1>7. CASE rec.st = "queued" /\ Obsolete(i)
    <2>1. PICK done \in ItemRecords :
            /\ done = [rec EXCEPT !.st = "cancelled"] /\ done.st = "cancelled" /\ done.q = rec.q
            /\ done.sup = rec.sup /\ done.old = rec.old /\ done.moved = rec.moved
      BY WithState, StateNames
    <2>2. WorkFinish(i, done, "idle")
      BY <1>4, <1>7, <2>1 DEF Get
    <2>3. SameScope(done, i)
      BY <1>5, <2>1 DEF SameScope
    <2>4. ~done.q /\ done.st \in {"cancelled", "failed"}
      BY <1>4, <2>1
    <2>5. QED
      BY <1>1, <1>3, <2>1, <2>2, <2>3, <2>4, UnsentSettled
  <1>8. CASE rec.st = "queued" /\ ~Obsolete(i)
    <2>1. PICK out \in ItemRecords :
            /\ out = [rec EXCEPT !.st = "preparing"] /\ out.st = "preparing" /\ out.q = rec.q
            /\ out.sup = rec.sup /\ out.old = rec.old /\ out.moved = rec.moved
      BY WithState, StateNames
    <2>2. /\ mem' = [mem EXCEPT ![i] = out]
          /\ work' = [work EXCEPT !.pc = "prepare", !.item = i]
          /\ UNCHANGED batchVars
      BY <1>4, <1>8, <2>1 DEF Get
    <2>3. work'.item = i /\ work'.pc = "prepare"
      BY <1>1, <2>2 DEF WorkRecords
    <2>4. SameScope(out, i)
      BY <1>5, <2>1 DEF SameScope
    <2>5. mem[i].st \in Unsettled /\ out.st \in Unsettled
      BY <1>4, <1>8, <2>1 DEF Unsettled
    <2>6. QED
      BY <1>1, <1>3, <1>4, <2>1, <2>2, <2>3, <2>4, <2>5, ObservationEdited
  <1>9. QED
    BY <1>3, <1>4, <1>6, <1>7, <1>8

\* The one in hand is a notice or an observation.
LEMMA InHand ==
  ASSUME NoticeInv, ConstantsAssumption, Working
  PROVE  work.item \in Critical \/ \E b \in Observations : work.item = <<b, 1>>
  <1>1. work.item \in Items
    BY HandFacts
  <1>2. PICK b \in Batches : work.item \in Parts(b)
    BY <1>1 DEF Items
  <1>3. CASE b \in Notices
    BY <1>2, <1>3, ItemFacts
  <1>4. CASE b \in Observations
    <2>1. Parts(b) = {<<b, 1>>}
      BY <1>4, ItemFacts
    <2>2. QED
      BY <1>2, <1>4, <2>1
  <1>5. QED
    BY <1>3, <1>4 DEF Batches

\* What the worker has in hand, when it is an observation.
LEMMA ObservationInHand ==
  ASSUME NoticeInv, ObsInv, ConstantsAssumption, NEW b \in Observations, work.item = <<b, 1>>,
         work.pc \in {"prepare", "transport", "backoff"}
  PROVE  /\ mem[<<b, 1>>] \in ItemRecords /\ ~mem[<<b, 1>>].q /\ sent[<<b, 1>>] = 0 /\ batch[b] # "new"
         /\ work.pc = "prepare" => mem[<<b, 1>>].st \in {"preparing", "cancelled"}
         /\ work.pc = "transport" => mem[<<b, 1>>].st = "sending"
         /\ work.pc = "backoff" => mem[<<b, 1>>].st \in {"queued", "cancelled"}
  <1>1. mem[<<b, 1>>] \in ItemRecords
    BY HandFacts, ItemFacts
  <1>2. HandRight(b) /\ SentRight(b)
    BY DEF ObsInv, Orderly
  <1>3. QED
    BY <1>1, <1>2 DEF HandRight, SentRight

\* An item whose state is edited is an item edited.
LEMMA SendingEdit ==
  ASSUME mem \in [Items -> ItemRecords], NEW i \in Items
  PROVE  [mem EXCEPT ![i].st = "sending"] = [mem EXCEPT ![i] = [mem[i] EXCEPT !.st = "sending"]]
  OBVIOUS

\* The worker checks an observation again and sends it.
LEMMA PrepareObservation ==
  ASSUME NoticeInv, ObsInv, ConstantsAssumption, NEW b \in Observations, work.item = <<b, 1>>, Prepare
  PROVE  ObsInv'
  <1> DEFINE i == <<b, 1>>
  <1>1. work.pc = "prepare" /\ what' = what /\ sent' = sent
    BY DEF Prepare, frameW, envVars
  <1>2. /\ mem[i] \in ItemRecords /\ ~mem[i].q /\ sent[i] = 0 /\ batch[b] # "new"
        /\ mem[i].st \in {"preparing", "cancelled"}
    BY <1>1, ObservationInHand
  <1>3. mem \in [Items -> ItemRecords] /\ work \in WorkRecords /\ i \in Items
    BY HandFacts, ItemFacts
  <1>4. ASSUME NEW s \in {"cancelled", "failed"}, WorkFinish(i, [mem[i] EXCEPT !.st = s], "idle") PROVE ObsInv'
    <2>0. s \in States
      BY DEF States
    <2>1. PICK done \in ItemRecords :
            /\ done = [mem[i] EXCEPT !.st = s] /\ done.st = s /\ done.q = mem[i].q
            /\ done.sup = mem[i].sup /\ done.old = mem[i].old /\ done.moved = mem[i].moved
      BY <1>2, <2>0, WithState
    <2>2. WorkFinish(i, done, "idle") /\ SameScope(done, i)
      BY <1>4, <2>1 DEF SameScope
    <2>3. ~done.q /\ done.st \in {"cancelled", "failed"}
      BY <1>2, <2>1
    <2>4. QED
      BY <1>1, <1>2, <2>1, <2>2, <2>3, UnsentSettled
  <1>5. CASE /\ mem[i].st # "cancelled"
             /\ mem' = [mem EXCEPT ![i].st = "sending"] /\ work' = [work EXCEPT !.pc = "transport"]
             /\ UNCHANGED batchVars
    <2>0. "sending" \in States
      BY DEF States
    <2>1. PICK out \in ItemRecords :
            /\ out = [mem[i] EXCEPT !.st = "sending"] /\ out.st = "sending" /\ out.q = mem[i].q
            /\ out.sup = mem[i].sup /\ out.old = mem[i].old /\ out.moved = mem[i].moved
      BY <1>2, <2>0, WithState
    <2>2. mem' = [mem EXCEPT ![i] = out]
      <3>1. mem' = [mem EXCEPT ![i] = [mem[i] EXCEPT !.st = "sending"]]
        BY <1>3, <1>5, SendingEdit
      <3>2. QED
        BY <2>1, <3>1
    <2>3. work'.item = i /\ work'.pc = "transport"
      BY <1>3, <1>5 DEF WorkRecords
    <2>4. SameScope(out, i)
      BY <2>1 DEF SameScope
    <2>5. mem[i].st \in Unsettled /\ out.st \in Unsettled /\ ~out.q
      BY <1>2, <1>5, <2>1 DEF Unsettled
    <2>6. QED
      BY <1>1, <1>2, <1>5, <2>1, <2>2, <2>3, <2>4, <2>5, ObservationEdited
  <1>6. \/ WorkFinish(i, [mem[i] EXCEPT !.st = "cancelled"], "idle")
        \/ WorkFinish(i, [mem[i] EXCEPT !.st = "failed"], "idle")
        \/ /\ mem[i].st # "cancelled"
           /\ mem' = [mem EXCEPT ![i].st = "sending"] /\ work' = [work EXCEPT !.pc = "transport"]
           /\ UNCHANGED batchVars
    BY DEF Prepare
  <1>7. QED
    BY <1>4, <1>5, <1>6

LEMMA PrepareNotice ==
  ASSUME NoticeInv, ObsInv, ConstantsAssumption, work.item \in Critical, Prepare
  PROVE  ObsInv'
  <1>1. PICK i \in Critical : i = work.item
    OBVIOUS
  <1>2. what' = what /\ sent' = sent /\ mem \in [Items -> ItemRecords] /\ work \in WorkRecords /\ i \in Items
    BY HandFacts, ItemFacts DEF Prepare, frameW, envVars
  <1>3. \/ WorkFinish(i, [mem[i] EXCEPT !.st = "cancelled"], "idle")
        \/ WorkFinish(i, [mem[i] EXCEPT !.st = "failed"], "idle")
        \/ /\ mem' = [mem EXCEPT ![i].st = "sending"] /\ work' = [work EXCEPT !.pc = "transport"]
           /\ UNCHANGED batchVars
    BY <1>1 DEF Prepare
  <1>4. CASE \/ WorkFinish(i, [mem[i] EXCEPT !.st = "cancelled"], "idle")
             \/ WorkFinish(i, [mem[i] EXCEPT !.st = "failed"], "idle")
    BY <1>2, <1>4, WorkFinishAloof
  <1>5. CASE /\ mem' = [mem EXCEPT ![i].st = "sending"] /\ work' = [work EXCEPT !.pc = "transport"]
             /\ UNCHANGED batchVars
    <2>1. mem' = [mem EXCEPT ![i] = [mem[i] EXCEPT !.st = "sending"]]
      BY <1>2, <1>5
    <2>2. work'.item = i
      BY <1>1, <1>2, <1>5 DEF WorkRecords
    <2>3. QED
      BY <1>2, <1>5, <2>1, <2>2, EditAloof
  <1>6. QED
    BY <1>3, <1>4, <1>5

\* A report goes out only while it is the newest.
LEMMA PrepareNewest ==
  ASSUME NoticeInv, ObsInv, ConstantsAssumption, Prepare
  PROVE  NewestFirst
  <1>1. SUFFICES ASSUME NEW b \in Observations, Starts(<<b, 1>>), what[b] = "warning", ~mem[<<b, 1>>].moved
                 PROVE  newest = b
    BY DEF NewestFirst
  <1> DEFINE i == <<b, 1>>
  <1>2. work \in WorkRecords /\ work.pc = "prepare" /\ i \notin Critical /\ i # NoItem /\ i[1] = b
    BY HandFacts, ItemFacts DEF Prepare
  <1>3. work'.pc = "transport" /\ work'.item = i
    BY <1>1 DEF Starts
  <1>4. ~Obsolete(work.item) /\ mem[work.item].st # "cancelled" /\ work' = [work EXCEPT !.pc = "transport"]
    <2>1. ASSUME NEW rec, WorkFinish(work.item, rec, "idle") PROVE FALSE
      <3>1. work'.pc \in {"settle", "idle"}
        BY <1>2, <2>1, WorkFinishing, RestFacts DEF WorkRecords
      <3>2. QED
        BY <1>3, <3>1
    <2>2. QED
      BY <2>1 DEF Prepare
  <1>5. work.item = i
    BY <1>2, <1>3, <1>4 DEF WorkRecords
  <1>6. mem[i].st = "preparing"
    BY <1>2, <1>4, <1>5, ObservationInHand
  <1>7. ReportDue(b)
    BY <1>1, <1>2, <1>4, <1>5, <1>6 DEF ReportDue, Obsolete, Unsettled
  <1>8. QED
    BY <1>7 DEF ObsInv, Orderly

\* A retry, after what may have been sent was not.
LEMMA RetryObservation ==
  ASSUME NoticeInv, ObsInv, ConstantsAssumption, NEW b \in Observations, work.item = <<b, 1>>,
         work.pc = "transport", Retry(<<b, 1>>), what' = what, sent' = sent
  PROVE  ObsInv'
  <1> DEFINE i == <<b, 1>>
  <1>1. /\ mem[i] \in ItemRecords /\ ~mem[i].q /\ sent[i] = 0 /\ batch[b] # "new" /\ mem[i].st = "sending"
    BY ObservationInHand
  <1>2. work \in WorkRecords /\ i \notin Critical
    BY HandFacts, ItemFacts
  <1>3. ASSUME NEW s \in {"cancelled", "failed"}, WorkFinish(i, [mem[i] EXCEPT !.st = s], "idle") PROVE ObsInv'
    <2>0. s \in States
      BY DEF States
    <2>1. PICK done \in ItemRecords :
            /\ done = [mem[i] EXCEPT !.st = s] /\ done.st = s /\ done.q = mem[i].q
            /\ done.sup = mem[i].sup /\ done.old = mem[i].old /\ done.moved = mem[i].moved
      BY <1>1, <2>0, WithState
    <2>2. WorkFinish(i, done, "idle") /\ SameScope(done, i)
      BY <1>3, <2>1 DEF SameScope
    <2>3. ~done.q /\ done.st \in {"cancelled", "failed"}
      BY <1>1, <2>1
    <2>4. QED
      BY <1>1, <2>1, <2>2, <2>3, UnsentSettled
  <1>4. PICK n \in Nat : n = mem[i].tries + 1
    BY <1>1 DEF ItemRecords
  <1>5. PICK out \in ItemRecords :
          /\ out = [mem[i] EXCEPT !.st = "queued", !.tries = n] /\ out.st = "queued" /\ out.q = mem[i].q
          /\ out.sup = mem[i].sup /\ out.old = mem[i].old /\ out.moved = mem[i].moved
    BY <1>1, WithTries
  <1>6. out = [mem[i] EXCEPT !.st = "queued", !.tries = IF i \in Critical THEN @ ELSE @ + 1]
    BY <1>1, <1>2, <1>4, <1>5 DEF ItemRecords
  <1>7. \/ WorkFinish(i, [mem[i] EXCEPT !.st = "cancelled"], "idle")
        \/ WorkFinish(i, [mem[i] EXCEPT !.st = "failed"], "idle")
        \/ /\ mem' = [mem EXCEPT ![i] = out] /\ work' = [work EXCEPT !.pc = "backoff"] /\ UNCHANGED batchVars
    BY <1>6 DEF Retry
  <1>8. CASE mem' = [mem EXCEPT ![i] = out] /\ work' = [work EXCEPT !.pc = "backoff"] /\ UNCHANGED batchVars
    <2>1. work'.item = i /\ work'.pc = "backoff"
      BY <1>2, <1>8 DEF WorkRecords
    <2>2. SameScope(out, i)
      BY <1>5 DEF SameScope
    <2>3. mem[i].st \in Unsettled /\ out.st \in Unsettled /\ ~out.q
      BY <1>1, <1>5 DEF Unsettled
    <2>4. QED
      BY <1>1, <1>5, <1>8, <2>1, <2>2, <2>3, ObservationEdited
  <1>9. QED
    BY <1>3, <1>7, <1>8

LEMMA RetryNotice ==
  ASSUME NoticeInv, ObsInv, ConstantsAssumption, NEW i \in Critical, work.item = i, Retry(i),
         what' = what, \A b \in Observations : sent'[<<b, 1>>] = sent[<<b, 1>>]
  PROVE  ObsInv'
  <1>1. PICK rec : rec = [mem[i] EXCEPT !.st = "queued", !.tries = IF i \in Critical THEN @ ELSE @ + 1]
    OBVIOUS
  <1>2. \/ WorkFinish(i, [mem[i] EXCEPT !.st = "cancelled"], "idle")
        \/ WorkFinish(i, [mem[i] EXCEPT !.st = "failed"], "idle")
        \/ /\ mem' = [mem EXCEPT ![i] = rec] /\ work' = [work EXCEPT !.pc = "backoff"] /\ UNCHANGED batchVars
    BY <1>1 DEF Retry
  <1>3. CASE \/ WorkFinish(i, [mem[i] EXCEPT !.st = "cancelled"], "idle")
             \/ WorkFinish(i, [mem[i] EXCEPT !.st = "failed"], "idle")
    BY <1>3, WorkFinishAloof
  <1>4. CASE mem' = [mem EXCEPT ![i] = rec] /\ work' = [work EXCEPT !.pc = "backoff"] /\ UNCHANGED batchVars
    <2>1. work'.item = i
      BY <1>4, HandFacts DEF WorkRecords
    <2>2. QED
      BY <1>4, <2>1, EditAloof
  <1>5. QED
    BY <1>2, <1>3, <1>4

\* What arrives of an observation is its only message.
LEMMA ArrivesOnce ==
  ASSUME NoticeInv, ConstantsAssumption, NEW b \in Observations, sent[<<b, 1>>] = 0, Arrives(<<b, 1>>) \/ sent' = sent
  PROVE  /\ sent'[<<b, 1>>] \in {0, 1}
         /\ \A c \in Observations : c # b => sent'[<<c, 1>>] = sent[<<c, 1>>]
  <1>1. /\ sent \in [Items -> Nat] /\ \A c \in Observations : <<c, 1>> \in Items
    BY HandFacts, ItemFacts
  <1>2. QED
    BY <1>1 DEF Arrives

LEMMA ArrivesApart ==
  ASSUME NoticeInv, ConstantsAssumption, NEW i \in Critical, Arrives(i) \/ sent' = sent
  PROVE  \A c \in Observations : sent'[<<c, 1>>] = sent[<<c, 1>>]
  <1>1. /\ sent \in [Items -> Nat] /\ \A c \in Observations : <<c, 1>> \in Items /\ <<c, 1>> # i
    BY HandFacts, ItemFacts
  <1>2. QED
    BY <1>1 DEF Arrives

LEMMA TransportObservation ==
  ASSUME NoticeInv, ObsInv, ConstantsAssumption, NEW b \in Observations, work.item = <<b, 1>>,
         TransportDelivered \/ TransportLost \/ TransportRefused \/ TransportRejected
  PROVE  ObsInv'
  <1> DEFINE i == <<b, 1>>
  <1>1. work.pc = "transport" /\ what' = what
    BY DEF TransportDelivered, TransportLost, TransportRefused, TransportRejected, frameW, envVars
  <1>2. /\ mem[i] \in ItemRecords /\ ~mem[i].q /\ sent[i] = 0 /\ batch[b] # "new" /\ mem[i].st = "sending"
        /\ i \notin Critical
    BY <1>1, ObservationInHand, ItemFacts
  <1>3. ASSUME NEW s \in {"delivered", "uncertain"}, Arrives(i) \/ sent' = sent,
               WorkFinish(i, [mem[i] EXCEPT !.st = s], "idle")
        PROVE  ObsInv'
    <2>0. s \in States
      BY DEF States
    <2>1. PICK done \in ItemRecords :
            /\ done = [mem[i] EXCEPT !.st = s] /\ done.st = s /\ done.q = mem[i].q
            /\ done.sup = mem[i].sup /\ done.old = mem[i].old /\ done.moved = mem[i].moved
      BY <1>2, <2>0, WithState
    <2>2. WorkFinish(i, done, "idle") /\ SameScope(done, i)
      BY <1>3, <2>1 DEF SameScope
    <2>3. ~done.q /\ done.st \in {"delivered", "uncertain"}
      BY <1>2, <2>1
    <2>4. sent'[i] \in {0, 1} /\ \A c \in Observations : c # b => sent'[<<c, 1>>] = sent[<<c, 1>>]
      BY <1>2, <1>3, ArrivesOnce
    <2>5. mem[i].st \in Unsettled
      BY <1>2 DEF Unsettled
    <2>6. done.st \in {"cancelled", "failed", "delivered", "uncertain"}
      BY <2>3
    <2>7. QED
      BY <1>1, <1>2, <2>1, <2>2, <2>3, <2>4, <2>5, <2>6, ObservationSettled
  <1>4. CASE TransportDelivered
    BY <1>2, <1>3, <1>4 DEF TransportDelivered
  <1>5. CASE TransportLost
    BY <1>2, <1>3, <1>5 DEF TransportLost
  <1>6. CASE TransportRefused
    <2>1. Retry(i) /\ sent' = sent
      BY <1>6 DEF TransportRefused
    <2>2. QED
      BY <1>1, <2>1, RetryObservation
  <1>7. CASE TransportRejected
    <2>0. "failed" \in States
      BY DEF States
    <2>1. PICK done \in ItemRecords :
            /\ done = [mem[i] EXCEPT !.st = "failed"] /\ done.st = "failed" /\ done.q = mem[i].q
            /\ done.sup = mem[i].sup /\ done.old = mem[i].old /\ done.moved = mem[i].moved
      BY <1>2, <2>0, WithState
    <2>2. WorkFinish(i, done, "idle") /\ SameScope(done, i) /\ sent' = sent
      BY <1>2, <1>7, <2>1 DEF SameScope, TransportRejected
    <2>3. ~done.q /\ done.st \in {"cancelled", "failed"}
      BY <1>2, <2>1
    <2>4. QED
      BY <1>1, <1>2, <2>1, <2>2, <2>3, UnsentSettled
  <1>8. QED
    BY <1>4, <1>5, <1>6, <1>7

LEMMA TransportNotice ==
  ASSUME NoticeInv, ObsInv, ConstantsAssumption, NEW i \in Critical, work.item = i,
         TransportDelivered \/ TransportLost \/ TransportRefused \/ TransportRejected
  PROVE  ObsInv'
  <1>1. what' = what
    BY DEF TransportDelivered, TransportLost, TransportRefused, TransportRejected, frameW, envVars
  <1>2. Arrives(i) \/ sent' = sent
    BY DEF TransportDelivered, TransportLost, TransportRefused, TransportRejected
  <1>3. \A c \in Observations : sent'[<<c, 1>>] = sent[<<c, 1>>]
    BY <1>2, ArrivesApart
  <1>4. CASE Retry(i)
    BY <1>1, <1>3, <1>4, RetryNotice
  <1>5. ASSUME NEW rec, NEW pc \in {"savedone", "savefail"}, Record(i, rec, pc) PROVE ObsInv'
    BY <1>1, <1>3, <1>5, RecordAloof
  <1>6. QED
    BY <1>4, <1>5 DEF TransportDelivered, TransportLost, TransportRefused, TransportRejected

\* The pause before a retry ends.
LEMMA BackoffAloof ==
  ASSUME NoticeInv, ObsInv, ConstantsAssumption, BackoffEnds
  PROVE  ObsInv'
  <1>1. /\ work.pc = "backoff" /\ what' = what /\ sent' = sent /\ UNCHANGED batchVars
        /\ work' = Resting /\ mem \in [Items -> ItemRecords] /\ work.item \in Items
    BY HandFacts DEF BackoffEnds, frameW, envVars, Working
  <1>2. PICK v \in BOOLEAN : v = (mem[work.item].q \/ mem[work.item].st # "cancelled")
    OBVIOUS
  <1>3. mem' = [mem EXCEPT ![work.item] = [mem[work.item] EXCEPT !.q = v]]
    BY <1>1, <1>2 DEF BackoffEnds
  <1>4. CASE work.item \in Critical
    <2>1. work'.item = NoItem
      BY <1>1, RestFacts
    <2>2. QED
      BY <1>1, <1>3, <1>4, <2>1, EditAloof
  <1>5. ASSUME NEW b \in Observations, work.item = <<b, 1>> PROVE ObsInv'
    <2>1. /\ mem[<<b, 1>>] \in ItemRecords /\ ~mem[<<b, 1>>].q /\ sent[<<b, 1>>] = 0 /\ batch[b] # "new"
          /\ mem[<<b, 1>>].st \in {"queued", "cancelled"}
      BY <1>1, <1>5, ObservationInHand
    <2>2. PICK out \in ItemRecords :
            /\ out = [mem[<<b, 1>>] EXCEPT !.q = v] /\ out.q = v /\ out.st = mem[<<b, 1>>].st
            /\ out.sup = mem[<<b, 1>>].sup /\ out.old = mem[<<b, 1>>].old /\ out.moved = mem[<<b, 1>>].moved
      BY <2>1, WithQueue
    <2>3. mem' = [mem EXCEPT ![<<b, 1>>] = out]
      BY <1>3, <1>5, <2>2
    <2>4. SameScope(out, <<b, 1>>)
      BY <2>2 DEF SameScope
    <2>5. /\ out.st \in Unsettled \cup {"cancelled"} /\ (out.q => out.st \in {"queued", "cancelled"})
          /\ (out.st \in Unsettled => mem[<<b, 1>>].st \in Unsettled)
      BY <2>1, <2>2 DEF Unsettled
    <2>6. QED
      BY <1>1, <2>1, <2>2, <2>3, <2>4, <2>5, ObservationEdited
  <1>6. QED
    BY <1>1, <1>4, <1>5, InHand DEF Working

\* Only notices are saved, tracked, settled after a save, and queued after an error.
LEMMA SettledAloof ==
  ASSUME NoticeInv, ObsInv, ConstantsAssumption, NEW i \in Critical, NEW t, FinishSettled(t, i)
  PROVE  /\ dedup' = dedup /\ newest' = newest
         /\ \A p \in Items \ Critical : mem'[p] = mem[p]
         /\ \A b \in Observations : batch'[b] = batch[b]
  <1>1. /\ mem \in [Items -> ItemRecords] /\ batch \in [Batches -> {"new", "live", "completed", "gone"}]
        /\ newest \in Observations \cup {NoBatch} /\ dedup \in Observations \cup {NoBatch}
    BY DEF NoticeInv, TypeOK, TypeHere, ObsInv
  <1>2. i[1] \notin Observations \cup {NoBatch} /\ i[1] \in Batches /\ i \in Items
    BY ItemFacts
  <1>3. dedup' = dedup /\ newest' = newest
    BY <1>1, <1>2 DEF FinishSettled, Settled
  <1>4. \A p \in Items \ Critical : mem'[p] = mem[p]
    BY <1>1, <1>2 DEF FinishSettled
  <1>5. ASSUME NEW b \in Observations PROVE batch'[b] = batch[b]
    <2>1. b # i[1] /\ b \in Batches
      BY <1>2, ItemFacts
    <2>2. QED
      BY <1>1, <2>1 DEF FinishSettled, Settled
  <1>6. QED
    BY <1>3, <1>4, <1>5

LEMMA NoticeInHandAloof ==
  ASSUME NoticeInv, ObsInv, ConstantsAssumption, RecordSaved \/ Track \/ WorkSettled \/ Requeue
  PROVE  ObsInv'
  <1>1. /\ work.pc \in {"savedone", "savefail", "track", "settle", "error"} /\ what' = what /\ sent' = sent
        /\ work \in WorkRecords /\ mem \in [Items -> ItemRecords]
    BY HandFacts DEF RecordSaved, Track, WorkSettled, Requeue, frameW, envVars
  <1>2. PICK i \in Critical : i = work.item
    BY <1>1, HandsFull DEF Working
  <1>3. CASE WorkFinish(i, mem[i], "idle")
    BY <1>1, <1>3, WorkFinishAloof
  <1>4. CASE /\ UNCHANGED batchVars /\ mem' = mem
             /\ work'.item \in {i, NoItem}
    <2>1. work'.item \in Critical \cup {NoItem}
      BY <1>4
    <2>2. UNCHANGED <<batch, dedup, newest>>
      BY <1>4 DEF batchVars
    <2>3. QED
      BY <1>1, <1>4, <2>1, <2>2, NoticeStep
  <1>5. CASE FinishSettled("worker", i) /\ work'.item = NoItem
    <2>1. /\ dedup' = dedup /\ newest' = newest
          /\ \A p \in Items \ Critical : mem'[p] = mem[p]
          /\ \A b \in Observations : batch'[b] = batch[b]
      BY <1>5, SettledAloof
    <2>2. QED
      BY <1>1, <1>5, <2>1, NoticeStep
  <1>6. CASE RecordSaved
    <2>1. \/ WorkFinish(i, mem[i], "idle")
          \/ UNCHANGED batchVars /\ mem' = mem /\ \E pc \in {"track", "error"} : work' = [work EXCEPT !.pc = pc]
      BY <1>2, <1>6 DEF RecordSaved
    <2>2. QED
      BY <1>1, <1>2, <1>3, <1>4, <2>1 DEF WorkRecords
  <1>7. CASE Track
    <2>1. \/ WorkFinish(i, mem[i], "idle")
          \/ UNCHANGED batchVars /\ mem' = mem /\ work' = [work EXCEPT !.pc = "error"]
      BY <1>2, <1>7 DEF Track
    <2>2. QED
      BY <1>1, <1>2, <1>3, <1>4, <2>1 DEF WorkRecords
  <1>8. CASE WorkSettled
    <2>1. \/ /\ FinishSettled("worker", i)
             /\ work' = [work EXCEPT !.pc = "row", !.item = NoItem, !.gone = NoRows] \/ work' = Resting
          \/ /\ UNCHANGED batchVars /\ mem' = mem
             /\ work' = Starting \/ work' = [work EXCEPT !.pc = "error", !.gone = NoRows]
      BY <1>2, <1>8 DEF WorkSettled, FinishFailed
    <2>2. QED
      BY <1>1, <1>2, <1>4, <1>5, <2>1, RestFacts DEF WorkRecords
  <1>9. CASE Requeue
    <2>1. mem' = [mem EXCEPT ![i] = [mem[i] EXCEPT !.q = TRUE]] /\ work'.item = NoItem /\ UNCHANGED batchVars
      <3>1. i \in Items
        BY ItemFacts
      <3>2. QED
        BY <1>1, <1>2, <1>9, <3>1, RestFacts DEF Requeue
    <2>2. QED
      BY <1>1, <2>1, EditAloof
  <1>10. QED
    BY <1>6, <1>7, <1>8, <1>9

\* Withdrawals, which are of notices.
LEMMA CancelAloof ==
  ASSUME NoticeInv, ObsInv, ConstantsAssumption,
         \/ \E b \in Notices : CancelStart(b)
         \/ \E i \in Critical : CancelNext(i)
         \/ CancelSaved \/ CancelEnds
  PROVE  ObsInv'
  <1>1. what' = what /\ sent' = sent /\ work' = work
    BY DEF CancelStart, CancelNext, CancelSaved, CancelEnds, frameC, envVars
  <1>2. mem \in [Items -> ItemRecords] /\ (canc.pc \in {"saving", "settle"} => canc.item \in Critical)
    BY DEF NoticeInv, TypeOK, TypeHere, Cancelling
  <1>3. CASE UNCHANGED batchVars /\ mem' = mem
    <2>1. UNCHANGED <<batch, dedup, newest>>
      BY <1>3 DEF batchVars
    <2>2. QED
      BY <1>1, <1>3, <2>1, NoticeStep
  <1>4. ASSUME NEW i \in Critical, NEW rec, mem' = [mem EXCEPT ![i] = rec], UNCHANGED batchVars PROVE ObsInv'
    <2>1. \A p \in Items \ Critical : mem'[p] = mem[p]
      BY <1>2, <1>4
    <2>2. UNCHANGED <<batch, dedup, newest>>
      BY <1>4 DEF batchVars
    <2>3. QED
      BY <1>1, <2>1, <2>2, NoticeStep
  <1>5. ASSUME NEW i \in Critical, NEW rec, CancelFinish(i, rec) PROVE ObsInv'
    <2>1. Finishing("canc", i, rec)
      BY <1>5, CancelFinishing
    <2>2. /\ dedup' = dedup /\ newest' = newest
          /\ \A b \in Observations : mem'[<<b, 1>>] = mem[<<b, 1>>] /\ batch'[b] = batch[b]
      BY <2>1, FinishAloof
    <2>3. Aloof
      BY <1>1, <2>2 DEF Aloof
    <2>4. QED
      BY <2>3, AloofKeeps
  <1>6. ASSUME NEW i \in Critical, FinishSettled("canc", i) PROVE ObsInv'
    <2>1. /\ dedup' = dedup /\ newest' = newest
          /\ \A p \in Items \ Critical : mem'[p] = mem[p]
          /\ \A b \in Observations : batch'[b] = batch[b]
      BY <1>6, SettledAloof
    <2>2. QED
      BY <1>1, <2>1, NoticeStep
  <1>7. CASE (\E b \in Notices : CancelStart(b)) \/ CancelEnds
    BY <1>3, <1>7 DEF CancelStart, CancelEnds
  <1>8. ASSUME NEW i \in Critical, CancelNext(i) PROVE ObsInv'
    BY <1>3, <1>4, <1>8 DEF CancelNext
  <1>9. CASE CancelSaved
    <2>1. \/ canc.pc = "saving" /\ CancelFinish(canc.item, mem[canc.item])
          \/ UNCHANGED batchVars /\ mem' = mem
          \/ canc.pc = "settle" /\ FinishSettled("canc", canc.item)
      BY <1>9 DEF CancelSaved, FinishFailed
    <2>2. QED
      BY <1>2, <1>3, <1>5, <1>6, <2>1
  <1>10. QED
    BY <1>7, <1>8, <1>9

\* Of a message that is to come there is nothing, and it is in nobody's hands.
LEMMA NewObservation ==
  ASSUME NoticeInv, ObsInv, ConstantsAssumption, NEW b \in Observations, batch[b] = "new"
  PROVE  mem[<<b, 1>>] = Blank /\ sent[<<b, 1>>] = 0 /\ work.item # <<b, 1>> /\ newest # b
  BY RowFacts DEF ObsInv, Orderly, SentRight, ConstantsAssumption

LEMMA Queued ==
  ASSUME NoticeInv
  PROVE  \E rec \in ItemRecords : rec = [Fresh EXCEPT !.q = TRUE] /\ rec.st = "queued"
  <1>1. [Fresh EXCEPT !.q = TRUE] \in ItemRecords /\ Fresh \in ItemRecords /\ Fresh.st = "queued"
    BY FreshFacts
  <1>2. QED
    BY <1>1 DEF ItemRecords

\* A keyed message is admitted, or is the message that has its key.
LEMMA AdmitKeyedOnce ==
  ASSUME NoticeInv, ObsInv, ConstantsAssumption, NEW b \in Batches, AdmitKeyed(b)
  PROVE  ObsInv'
  <1>1. /\ b \in Observations /\ what[b] = "keyed" /\ batch[b] = "new"
        /\ UNCHANGED <<what, newest, sent, work>>
    BY DEF AdmitKeyed, envVars, ghostVars
  <1>2. mem[<<b, 1>>] = Blank /\ sent[<<b, 1>>] = 0 /\ work.item # <<b, 1>> /\ newest # b
    BY <1>1, NewObservation
  <1>3. /\ mem \in [Items -> ItemRecords] /\ batch \in [Batches -> {"new", "live", "completed", "gone"}]
        /\ <<b, 1>> \in Items
    BY <1>1, ItemFacts DEF NoticeInv, TypeOK, TypeHere
  <1>4. PICK rec \in ItemRecords : rec = [Fresh EXCEPT !.q = TRUE] /\ rec.st = "queued"
    BY Queued
  <1>5. \/ /\ dedup # NoBatch /\ batch' = [batch EXCEPT ![b] = "gone"] /\ mem' = mem /\ dedup' = dedup
        \/ /\ dedup = NoBatch /\ batch' = [batch EXCEPT ![b] = "live"] /\ dedup' = b
           /\ mem' = [mem EXCEPT ![<<b, 1>>] = rec]
    BY <1>4 DEF AdmitKeyed
  <1>6. batch'[b] \in {"gone", "live"} /\ \A c \in Observations : c # b => batch'[c] = batch[c]
    <2>1. Observations \subseteq Batches
      BY DEF Batches
    <2>2. QED
      BY <1>3, <1>5, <2>1
  <1>7. /\ mem'[<<b, 1>>] = rec \/ mem'[<<b, 1>>] = Blank
        /\ mem'[<<b, 1>>] = rec => dedup' = b \/ rec = Blank
        /\ \A c \in Observations : c # b => mem'[<<c, 1>>] = mem[<<c, 1>>]
    BY <1>2, <1>3, <1>5, ItemFacts
  <1>8. Orderly(b)'
    <2>1. HandRight(b)'
      BY <1>1, <1>2 DEF HandRight
    <2>2. SentRight(b)'
      <3>1. /\ mem'[<<b, 1>>].q => mem'[<<b, 1>>].st = "queued"
            /\ batch'[b] # "new" /\ sent'[<<b, 1>>] = 0
        BY <1>1, <1>2, <1>4, <1>6, <1>7, RowFacts
      <3>2. QED
        BY <3>1 DEF SentRight
    <2>3. Holds(b)' => dedup' = b
      BY <1>1, <1>2, <1>7, RowFacts DEF Holds, Unsettled
    <2>4. ~ReportDue(b)'
      BY <1>1 DEF ReportDue
    <2>5. QED
      BY <2>1, <2>2, <2>3, <2>4 DEF Orderly
  <1>9. ASSUME NEW c \in Observations, c # b PROVE Orderly(c)'
    <2>1. mem'[<<c, 1>>] = mem[<<c, 1>>] /\ batch'[c] = batch[c]
      BY <1>6, <1>7, <1>9
    <2>2. Orderly(c)
      BY DEF ObsInv
    <2>3. HandRight(c)' /\ SentRight(c)'
      BY <1>1, <2>1, <2>2 DEF Orderly, HandRight, SentRight
    <2>4. c # NoBatch
      BY DEF ConstantsAssumption
    <2>5. Holds(c)' => dedup' = c
      BY <1>1, <1>5, <2>1, <2>2, <2>4 DEF Orderly, Holds
    <2>6. ReportDue(c)' => newest' = c
      BY <1>1, <2>1, <2>2 DEF Orderly, ReportDue
    <2>7. QED
      BY <2>3, <2>5, <2>6 DEF Orderly
  <1>10. newest' # NoBatch => what'[newest'] = "warning" /\ batch'[newest'] # "new"
    <2>1. newest \in Observations \cup {NoBatch}
      BY DEF NoticeInv, TypeOK, TypeHere
    <2>2. QED
      BY <1>1, <1>2, <1>6, <2>1 DEF ObsInv
  <1>11. what' \in [Observations -> {"warning", "keyed"}] /\ dedup' \in Observations \cup {NoBatch}
    BY <1>1, <1>5 DEF ObsInv
  <1>12. QED
    BY <1>8, <1>9, <1>10, <1>11 DEF ObsInv

\* A report that is retired keeps what was sent of it and is not due any more.
LEMMA SupersededState ==
  ASSUME NEW rec \in ItemRecords
  PROVE  /\ Supersede(rec).sup /\ Supersede(rec).q = rec.q
         /\ Supersede(rec).st = IF rec.st \in {"queued", "preparing"} THEN "cancelled" ELSE rec.st
  BY DEF Supersede, ItemRecords

\* A new report takes the place of the newest.
LEMMA AdmitWarningNewest ==
  ASSUME NoticeInv, ObsInv, ConstantsAssumption, NEW b \in Batches, NEW empty \in BOOLEAN, AdmitWarning(b, empty)
  PROVE  ObsInv'
  <1>1. /\ b \in Observations /\ what[b] = "warning" /\ batch[b] = "new"
        /\ UNCHANGED <<what, dedup, sent, work>> /\ newest' = IF empty THEN NoBatch ELSE b
    BY DEF AdmitWarning, envVars, ghostVars
  <1>2. mem[<<b, 1>>] = Blank /\ sent[<<b, 1>>] = 0 /\ work.item # <<b, 1>> /\ newest # b
    BY <1>1, NewObservation
  <1>3. /\ mem \in [Items -> ItemRecords] /\ batch \in [Batches -> {"new", "live", "completed", "gone"}]
        /\ newest \in Observations \cup {NoBatch}
    BY DEF NoticeInv, TypeOK, TypeHere
  <1>4. PICK rec \in ItemRecords : rec = [Fresh EXCEPT !.q = TRUE] /\ rec.st = "queued"
    BY Queued
  <1>5. PICK prior : prior = [i \in Items |-> IF i[1] = newest THEN Supersede(mem[i]) ELSE mem[i]]
    OBVIOUS
  <1>6. mem' = IF empty THEN prior ELSE [prior EXCEPT ![<<b, 1>>] = rec]
    BY <1>4, <1>5 DEF AdmitWarning
  <1>7. mem'[<<b, 1>>] = IF empty THEN Blank ELSE rec
    BY <1>1, <1>2, <1>5, <1>6, ItemFacts
  <1>8. ASSUME NEW c \in Observations, c # b
        PROVE  mem'[<<c, 1>>] = IF c = newest THEN Supersede(mem[<<c, 1>>]) ELSE mem[<<c, 1>>]
    <2>1. <<c, 1>> \in Items /\ <<c, 1>> # <<b, 1>> /\ <<c, 1>>[1] = c
      BY <1>8, ItemFacts
    <2>2. QED
      BY <1>5, <1>6, <2>1
  <1>9. PICK retired \in BOOLEAN :
           batch' = [c \in Batches |-> IF c = b THEN (IF empty THEN "gone" ELSE "live")
                                       ELSE IF c = newest /\ retired THEN "gone" ELSE batch[c]]
    <2>1. batch' = [c \in Batches |-> IF c = b THEN (IF empty THEN "gone" ELSE "live")
                                      ELSE IF c = newest /\ (newest # NoBatch /\ prior[<<newest, 1>>].st = "cancelled")
                                           THEN "gone" ELSE batch[c]]
      BY <1>5 DEF AdmitWarning
    <2>2. PICK retired \in BOOLEAN : retired = (newest # NoBatch /\ prior[<<newest, 1>>].st = "cancelled")
      OBVIOUS
    <2>3. QED
      BY <2>1, <2>2
  <1>10. batch'[b] \in {"gone", "live"}
    BY <1>9
  <1>11. \A c \in Observations : c # b => batch'[c] = batch[c] \/ (c = newest /\ batch'[c] = "gone")
    BY <1>9, ItemFacts
  <1>12. Orderly(b)'
    <2>1. HandRight(b)'
      BY <1>1, <1>2 DEF HandRight
    <2>2. SentRight(b)'
      BY <1>1, <1>2, <1>4, <1>7, <1>10, RowFacts DEF SentRight
    <2>3. ~Holds(b)'
      BY <1>1 DEF Holds
    <2>4. ReportDue(b)' => newest' = b
      BY <1>1, <1>7, RowFacts DEF ReportDue, Unsettled
    <2>5. QED
      BY <2>1, <2>2, <2>3, <2>4 DEF Orderly
  <1>13. ASSUME NEW c \in Observations, c # b, c # newest PROVE Orderly(c)'
    <2>1. mem'[<<c, 1>>] = mem[<<c, 1>>] /\ batch'[c] = batch[c]
      BY <1>8, <1>11, <1>13
    <2>2. Orderly(c)
      BY DEF ObsInv
    <2>3. HandRight(c)' /\ SentRight(c)'
      BY <1>1, <2>1, <2>2 DEF Orderly, HandRight, SentRight
    <2>4. Holds(c)' => dedup' = c
      BY <1>1, <2>1, <2>2 DEF Orderly, Holds
    <2>5. ~ReportDue(c)'
      BY <1>1, <1>13, <2>1, <2>2 DEF Orderly, ReportDue
    <2>6. QED
      BY <2>3, <2>4, <2>5 DEF Orderly
  <1>14. ASSUME NEW c \in Observations, c # b, c = newest PROVE Orderly(c)'
    <2>1. PICK was \in ItemRecords : was = mem[<<c, 1>>]
      BY <1>3, ItemFacts
    <2>2. /\ mem'[<<c, 1>>].sup /\ mem'[<<c, 1>>].q = was.q
          /\ mem'[<<c, 1>>].st = IF was.st \in {"queued", "preparing"} THEN "cancelled" ELSE was.st
      BY <1>8, <1>14, <2>1, SupersededState
    <2>3. Orderly(c) /\ what[c] = "warning" /\ batch[c] # "new" /\ batch'[c] # "new"
      BY <1>11, <1>14 DEF ObsInv, ConstantsAssumption
    <2>4. HandRight(c)'
      BY <1>1, <2>1, <2>2, <2>3 DEF Orderly, HandRight
    <2>5. SentRight(c)'
      BY <1>1, <2>1, <2>2, <2>3 DEF Orderly, SentRight
    <2>6. ~Holds(c)' /\ ~ReportDue(c)'
      BY <1>1, <2>2, <2>3 DEF Holds, ReportDue
    <2>7. QED
      BY <2>4, <2>5, <2>6 DEF Orderly
  <1>15. newest' # NoBatch => what'[newest'] = "warning" /\ batch'[newest'] # "new"
    BY <1>1, <1>10
  <1>16. what' \in [Observations -> {"warning", "keyed"}] /\ dedup' \in Observations \cup {NoBatch}
    BY <1>1 DEF ObsInv
  <1>17. QED
    BY <1>12, <1>13, <1>14, <1>15, <1>16 DEF ObsInv

\* The operator pauses the monitoring or chooses another group: what is there counts no more.
LEMMA OperatorForgets ==
  ASSUME NoticeInv, ObsInv, ConstantsAssumption, Toggle \/ \E g \in Groups : ChooseGroup(g)
  PROVE  ObsInv'
  <1>1. UNCHANGED <<what, batch, sent, work>> /\ mem \in [Items -> ItemRecords]
    BY HandFacts DEF Toggle, ChooseGroup, frameE, ghostVars
  <1>2. CASE UNCHANGED <<mem, dedup, newest>>
    BY <1>1, <1>2, NoticeStep
  <1>3. CASE /\ \/ mem' = [i \in Items |-> IF i \in Critical \/ mem[i] = Blank THEN mem[i] ELSE [mem[i] EXCEPT !.old = TRUE]]
                \/ mem' = [i \in Items |-> IF i \in Critical \/ mem[i] = Blank THEN mem[i] ELSE [mem[i] EXCEPT !.moved = TRUE]]
             /\ dedup' = NoBatch /\ newest' = NoBatch
    <2>1. ASSUME NEW b \in Observations PROVE Orderly(b)'
      <3>1. PICK rec \in ItemRecords : rec = mem[<<b, 1>>] /\ <<b, 1>> \in Items /\ <<b, 1>> \notin Critical
        BY <1>1, ItemFacts
      <3>2. \/ mem'[<<b, 1>>] = Blank /\ rec = Blank
            \/ rec # Blank /\ mem'[<<b, 1>>] = [rec EXCEPT !.old = TRUE]
            \/ rec # Blank /\ mem'[<<b, 1>>] = [rec EXCEPT !.moved = TRUE]
        BY <1>3, <3>1
      <3>3. /\ mem'[<<b, 1>>].st = rec.st /\ mem'[<<b, 1>>].q = rec.q
            /\ mem'[<<b, 1>>].st = "absent" \/ mem'[<<b, 1>>].old \/ mem'[<<b, 1>>].moved
            /\ rec = Blank => mem'[<<b, 1>>] = Blank
        BY <3>2, RowFacts DEF ItemRecords
      <3>4. Orderly(b)
        BY DEF ObsInv
      <3>5. HandRight(b)'
        BY <1>1, <3>1, <3>3, <3>4 DEF Orderly, HandRight
      <3>6. SentRight(b)'
        BY <1>1, <3>1, <3>3, <3>4 DEF Orderly, SentRight
      <3>7. ~Holds(b)' /\ ~ReportDue(b)'
        BY <3>3 DEF Holds, ReportDue, Unsettled
      <3>8. QED
        BY <3>5, <3>6, <3>7 DEF Orderly
    <2>2. QED
      BY <1>1, <1>3, <2>1 DEF ObsInv
  <1>4. QED
    BY <1>2, <1>3 DEF Toggle, ChooseGroup

\* The process ends and starts again: the observations of before are gone.
LEMMA RestartForgets ==
  ASSUME NoticeInv, ObsInv, ConstantsAssumption, Crash \/ Stop
  PROVE  ObsInv'
  <1>1. /\ mem' = [i \in Items |-> Blank]
        /\ batch' = [b \in Batches |-> IF batch[b] = "new" THEN "new" ELSE "gone"]
        /\ dedup' = NoBatch /\ newest' = NoBatch /\ work' = Starting /\ what' = what
        /\ sent' = sent \/ (work.pc = "transport" /\ Arrives(work.item))
    BY DEF Crash, Stop, Restart, envVars
  <1>2. ASSUME NEW b \in Observations PROVE Orderly(b)'
    <2>1. mem'[<<b, 1>>] = Blank /\ (batch'[b] = "new" => batch[b] = "new") /\ <<b, 1>> # NoItem
      BY <1>1, ItemFacts
    <2>2. HandRight(b)'
      BY <1>1, <2>1, RestFacts DEF HandRight
    <2>3. sent[<<b, 1>>] <= 1 /\ (batch[b] = "new" => sent[<<b, 1>>] = 0 /\ work.item # <<b, 1>>)
      BY DEF ObsInv, Orderly, SentRight
    <2>4. sent'[<<b, 1>>] <= 1 /\ (batch[b] = "new" => sent'[<<b, 1>>] = 0)
      <3>1. CASE sent' = sent
        BY <2>3, <3>1
      <3>2. CASE work.pc = "transport" /\ Arrives(work.item) /\ work.item = <<b, 1>>
        <4>1. sent[<<b, 1>>] = 0 /\ batch[b] # "new"
          BY <3>2, ObservationInHand
        <4>2. sent'[<<b, 1>>] \in {0, 1}
          BY <3>2, <4>1, ArrivesOnce
        <4>3. QED
          BY <4>1, <4>2
      <3>3. CASE work.pc = "transport" /\ Arrives(work.item) /\ work.item # <<b, 1>>
        <4>1. sent \in [Items -> Nat] /\ <<b, 1>> \in Items
          BY HandFacts, ItemFacts
        <4>2. sent'[<<b, 1>>] = sent[<<b, 1>>]
          BY <3>3, <4>1 DEF Arrives
        <4>3. QED
          BY <2>3, <4>2
      <3>4. QED
        BY <1>1, <3>1, <3>2, <3>3
    <2>5. SentRight(b)'
      <3>1. work'.item # <<b, 1>>
        BY <1>1, <2>1, RestFacts
      <3>2. QED
        BY <2>1, <2>4, <3>1, RowFacts DEF SentRight
    <2>6. ~Holds(b)' /\ ~ReportDue(b)'
      BY <2>1, RowFacts DEF Holds, ReportDue, Unsettled
    <2>7. QED
      BY <2>2, <2>5, <2>6 DEF Orderly
  <1>3. QED
    BY <1>1, <1>2 DEF ObsInv

LEMMA InitObservations == ASSUME Init, ConstantsAssumption PROVE ObsInv
  <1>1. /\ mem = [i \in Items |-> Blank] /\ sent = [i \in Items |-> 0] /\ work = Starting
        /\ dedup = NoBatch /\ newest = NoBatch /\ what \in [Observations -> {"warning", "keyed"}]
    BY DEF Init
  <1>2. ASSUME NEW b \in Observations PROVE Orderly(b)
    <2>1. mem[<<b, 1>>] = Blank /\ sent[<<b, 1>>] = 0 /\ work.item # <<b, 1>>
      BY <1>1, RestFacts, ItemFacts
    <2>2. HandRight(b) /\ SentRight(b)
      BY <2>1, RowFacts DEF HandRight, SentRight
    <2>3. ~Holds(b) /\ ~ReportDue(b)
      BY <2>1, RowFacts DEF Holds, ReportDue, Unsettled
    <2>4. QED
      BY <2>2, <2>3 DEF Orderly
  <1>3. QED
    BY <1>1, <1>2 DEF ObsInv

LEMMA StepObservations ==
  ASSUME NoticeInv, ObsInv, ConstantsAssumption, TasksApart, [Next]_vars
  PROVE  ObsInv'
  <1>1. ASSUME NEW i \in Critical, Recreate(i) \/ ReloadRow(i) PROVE ObsInv'
    BY <1>1, RowAloof
  <1>2. CASE ReloadEnds
    BY <1>2, ReloadAloof
  <1>3. CASE Worker
    <2>1. ASSUME NEW i \in Items, Get(i) PROVE ObsInv'
      <3>1. CASE i \in Critical
        BY <2>1, <3>1, GetNotice
      <3>2. CASE i \notin Critical
        <4>1. PICK b \in Batches : i \in Parts(b)
          BY DEF Items
        <4>2. b \in Observations
          BY <3>2, <4>1, ItemFacts DEF Batches
        <4>3. Parts(b) = {<<b, 1>>}
          BY <4>2, ItemFacts
        <4>4. i = <<b, 1>>
          BY <4>1, <4>3
        <4>5. QED
          BY <2>1, <4>2, <4>4, GetObservation
      <3>3. QED
        BY <3>1, <3>2
    <2>2. CASE Prepare
      <3>1. work.item \in Critical \/ \E b \in Observations : work.item = <<b, 1>>
        BY <2>2, InHand DEF Prepare, Working
      <3>2. QED
        BY <2>2, <3>1, PrepareNotice, PrepareObservation
    <2>3. CASE TransportDelivered \/ TransportLost \/ TransportRefused \/ TransportRejected
      <3>1. work.pc = "transport"
        BY <2>3 DEF TransportDelivered, TransportLost, TransportRefused, TransportRejected
      <3>2. work.item \in Critical \/ \E b \in Observations : work.item = <<b, 1>>
        BY <3>1, InHand DEF Working
      <3>3. QED
        BY <2>3, <3>2, TransportNotice, TransportObservation
    <2>4. CASE BackoffEnds
      BY <2>4, BackoffAloof
    <2>5. CASE RecordSaved \/ Track \/ WorkSettled \/ Requeue
      BY <2>5, NoticeInHandAloof
    <2>6. CASE Reload \/ Pinned
      BY <2>6, ReloadAloof
    <2>7. QED
      BY <1>3, <2>1, <2>2, <2>3, <2>4, <2>5, <2>6 DEF Worker
  <1>4. CASE Others
    <2>1. CASE TakeLock \/ WriteEnds
      BY <2>1, LockAloof
    <2>2. ASSUME NEW b \in Batches, AdmitNotice(b) \/ Admitted(b) \/ AdmitFails(b) PROVE ObsInv'
      BY <2>2, AdmitNoticeAloof
    <2>3. ASSUME NEW b \in Batches, AdmitKeyed(b) PROVE ObsInv'
      BY <2>3, AdmitKeyedOnce
    <2>4. ASSUME NEW b \in Batches, NEW empty \in BOOLEAN, AdmitWarning(b, empty) PROVE ObsInv'
      BY <2>4, AdmitWarningNewest
    <2>5. CASE \/ \E b \in Notices : CancelStart(b)
               \/ \E i \in Critical : CancelNext(i)
               \/ CancelSaved \/ CancelEnds
      BY <2>5, CancelAloof
    <2>6. CASE Toggle \/ \E g \in Groups : ChooseGroup(g)
      BY <2>6, OperatorForgets
    <2>7. CASE Crash \/ Stop
      BY <2>7, RestartForgets
    <2>8. QED
      BY <1>4, <2>1, <2>2, <2>3, <2>4, <2>5, <2>6, <2>7 DEF Others
  <1>5. CASE UNCHANGED vars
    <2>1. UNCHANGED <<what, dedup, newest, sent, mem, batch, work>>
      BY <1>5 DEF vars, envVars, batchVars, ghostVars
    <2>2. QED
      BY <2>1, NoticeStep
  <1>6. QED
    BY <1>1, <1>2, <1>3, <1>4, <1>5 DEF Next

\* Only Prepare begins to send.
LEMMA SendsAfterPrepare ==
  ASSUME NoticeInv, ConstantsAssumption, [Next]_vars, work.pc # "transport", work'.pc = "transport"
  PROVE  Prepare
  <1>1. work \in WorkRecords
    BY HandFacts
  <1>2. ASSUME NEW i, NEW rec, NEW pc \in {"idle", "row"}, WorkFinish(i, rec, pc) PROVE FALSE
    <2>1. \/ work' = [work EXCEPT !.pc = "settle", !.item = i, !.gone = GoneRows(i, rec), !.todo = @ \ {i}]
          \/ work' = Resting
          \/ work' = [work EXCEPT !.pc = pc, !.todo = @ \ {i}]
      BY <1>2, WorkFinishing
    <2>2. work'.pc \in {"settle", "idle", "row"}
      BY <1>1, <2>1, RestFacts DEF WorkRecords
    <2>3. QED
      BY <2>2
  <1>3. ASSUME NEW i, NEW rec, NEW pc \in {"savedone", "savefail"}, Record(i, rec, pc) PROVE FALSE
    BY <1>1, <1>3 DEF Record, WorkRecords
  <1>4. ASSUME work' = work PROVE FALSE
    BY <1>4
  <1>5. ASSUME NEW i \in Critical, Recreate(i) \/ ReloadRow(i) PROVE FALSE
    <2>1. \/ work' = work \/ WorkFinish(i, mem[i], "row")
          \/ work' = [work EXCEPT !.todo = @ \ {i}] \/ work' = [work EXCEPT !.todo = @ \ {i}, !.ready = @ \cup {i}]
      BY <1>5 DEF Recreate, ReloadRow
    <2>2. QED
      BY <1>1, <1>2, <2>1 DEF WorkRecords
  <1>6. ASSUME Reload \/ ReloadEnds \/ Pinned \/ BackoffEnds \/ Requeue \/ Crash \/ Stop PROVE FALSE
    <2>1. \/ work' \in {Resting, Starting} \/ work' = [work EXCEPT !.pc = "pin"]
          \/ work' = [Resting EXCEPT !.pc = "row", !.rows = storage, !.todo = {i \in Critical : storage[i] # NoRow}]
      BY <1>6 DEF Reload, ReloadEnds, Pinned, BackoffEnds, Requeue, Crash, Stop, Restart
    <2>2. QED
      BY <1>1, <2>1, RestFacts DEF WorkRecords
  <1>7. ASSUME NEW i \in Items, Get(i) PROVE FALSE
    <2>1. \/ \E rec : WorkFinish(i, rec, "idle") \/ Record(i, rec, "savedone")
          \/ work' = [work EXCEPT !.pc = "prepare", !.item = i]
      BY <1>7 DEF Get
    <2>2. QED
      BY <1>1, <1>2, <1>3, <2>1 DEF WorkRecords
  <1>8. ASSUME RecordSaved \/ Track PROVE FALSE
    <2>1. \/ WorkFinish(work.item, mem[work.item], "idle")
          \/ work' = [work EXCEPT !.pc = "track"] \/ work' = [work EXCEPT !.pc = "error"]
      BY <1>8 DEF RecordSaved, Track
    <2>2. QED
      BY <1>1, <1>2, <2>1 DEF WorkRecords
  <1>9. ASSUME WorkSettled PROVE FALSE
    <2>1. \/ work' = [work EXCEPT !.pc = "row", !.item = NoItem, !.gone = NoRows] \/ work' \in {Resting, Starting}
          \/ work' = [work EXCEPT !.pc = "error", !.gone = NoRows]
      BY <1>9 DEF WorkSettled
    <2>2. QED
      BY <1>1, <2>1, RestFacts DEF WorkRecords
  <1>10. ASSUME TransportDelivered \/ TransportLost \/ TransportRefused \/ TransportRejected PROVE FALSE
    BY <1>10 DEF TransportDelivered, TransportLost, TransportRefused, TransportRejected
  <1>11. ASSUME \/ \E b \in Batches : AdmitNotice(b) \/ Admitted(b) \/ AdmitFails(b) \/ AdmitKeyed(b)
                \/ \E b \in Batches, empty \in BOOLEAN : AdmitWarning(b, empty)
         PROVE  work' = work
    BY <1>11 DEF AdmitNotice, Admitted, AdmitFails, AdmitKeyed, AdmitWarning
  <1>12. ASSUME \/ \E b \in Notices : CancelStart(b)
                \/ \E i \in Critical : CancelNext(i)
                \/ CancelSaved \/ CancelEnds
         PROVE  work' = work
    BY <1>12 DEF CancelStart, CancelNext, CancelSaved, CancelEnds, frameC
  <1>13. ASSUME TakeLock \/ WriteEnds \/ Toggle \/ \E g \in Groups : ChooseGroup(g) PROVE work' = work
    BY <1>13 DEF TakeLock, WriteEnds, Toggle, ChooseGroup, frameE
  <1>14. ASSUME Others PROVE FALSE
    BY <1>4, <1>6, <1>11, <1>12, <1>13, <1>14 DEF Others
  <1>15. ASSUME UNCHANGED vars PROVE FALSE
    BY <1>4, <1>15 DEF vars
  <1>16. QED
    BY <1>5, <1>6, <1>7, <1>8, <1>9, <1>10, <1>14, <1>15 DEF Next, Worker

\* Whoever holds the key is the only one that was sent.
LEMMA OnceOfInv == ASSUME NoticeInv, ObsInv, ConstantsAssumption PROVE ObservationOnce
  <1> DEFINE current == {b \in Observations : what[b] = "keyed" /\ mem[<<b, 1>>].st # "absent"
                                                /\ ~mem[<<b, 1>>].old /\ ~mem[<<b, 1>>].moved}
             seen == {b \in current : sent[<<b, 1>>] > 0}
  <1>1. \A b \in Observations : sent[<<b, 1>>] <= 1
    BY DEF ObsInv, Orderly, SentRight
  <1>2. ASSUME NEW b \in seen PROVE b = dedup
    <2>1. Holds(b) /\ b \in Observations
      BY DEF Holds
    <2>2. QED
      BY <2>1 DEF ObsInv, Orderly
  <1> HIDE DEF seen
  <1>3. Cardinality(seen) <= 1
    <2>1. seen = {} \/ seen = {dedup}
      BY <1>2
    <2>2. Cardinality({}) = 0 /\ Cardinality({dedup}) = 1
      BY FS_EmptySet, FS_Singleton
    <2>3. QED
      BY <2>1, <2>2
  <1>4. QED
    BY <1>1, <1>3 DEF ObservationOnce, seen

\* An observation never appears twice, nor do two messages with one key for one destination
\* and monitoring period, and a warning report goes out only while it is the newest of its
\* scope (dispatcher.py), whatever is retired, paused, moved, lost or killed meanwhile.
THEOREM ObservationsOnce ==
  ASSUME TasksApart
  PROVE  Spec => [][ObservationOnce' /\ NewestFirst]_vars
  <1>1. Init => NoticeInv /\ ObsInv
    BY ConstantsAssumption, InitNotice, InitObservations
  <1>2. NoticeInv /\ ObsInv /\ [Next]_vars => NoticeInv' /\ ObsInv'
    BY ConstantsAssumption, StepNotice, StepObservations
  <1>3. NoticeInv /\ ObsInv => ObservationOnce
    BY ConstantsAssumption, OnceOfInv
  <1>4. ASSUME NoticeInv, ObsInv, [Next]_vars PROVE NewestFirst
    <2>1. SUFFICES ASSUME NEW b \in Observations, Starts(<<b, 1>>) PROVE NewestFirst
      BY DEF NewestFirst
    <2>2. Prepare
      BY <1>4, <2>1, ConstantsAssumption, SendsAfterPrepare DEF Starts
    <2>3. QED
      BY <1>4, <2>2, ConstantsAssumption, PrepareNewest
  <1>5. QED
    BY <1>1, <1>2, <1>3, <1>4, PTL DEF Spec

---------------------------------------------------------------------------
(* Services apart.                                                         *)

\* The names of the database's files are not names of stores, and the outbox is a store.
LEMMA StoresApart == IsFiniteSet(Stores) /\ {K!Db, K!Wal} \cap Stores = {} /\ Outbox \in Stores
BY ServicesAssumption DEF K!Db, K!Wal

\* A message is neither the operator nor nobody.
LEMMA CallersApart == T!Operator \notin Observations /\ T!Nobody \notin Observations
BY ServicesAssumption DEF T!Operator, T!Nobody

(* The notifications of Mirza Bot.                                          *)

RowStates == {M!None, "sending"} \cup M!Terminal \cup M!Unsent
Reports == {"pending", "sending", "delivered", "failed", "uncertain"}
RouteRows == [rev : Int, on : BOOLEAN, admins : SUBSET Admins, complete : BOOLEAN]
Candidates == [route : Routes, rev : Int, admins : SUBSET Admins]
NoticeRows == [state : RowStates, route : Routes \cup {M!None}, rev : Int, tries : Nat, resolves : Nat, report : Reports]
Workers == [pc : {"start", "idle", "details", "route", "pin", "read", "key", "drop", "claim", "http", "finish"},
            event : Incidents \cup {M!None}, cand : SUBSET Candidates, seen : {M!None, "ready", "retry"}, to : RowStates]
Reporters == [pc : {"start", "idle", "claim", "append", "finish"}, event : Incidents \cup {M!None},
              seen : {M!None} \cup M!Terminal, to : {M!None, "delivered", "failed", "uncertain"}]

\* The state is well typed.
MirzaTypeOK ==
  /\ routes \in [Routes -> RouteRows] /\ context \in [Incidents -> SUBSET Candidates]
  /\ rows \in [Incidents -> NoticeRows]
  /\ worker \in Workers /\ (worker.pc \notin {"start", "idle"} => worker.event \in Incidents)
  /\ reporter \in Reporters /\ (reporter.pc \notin {"start", "idle"} => reporter.event \in Incidents)
  /\ received \in [Incidents -> Nat] /\ posted \in [Incidents -> Nat]
  /\ told \in [Incidents -> {M!None} \cup M!Terminal]

\* A row says what the customer got: only a claimed request reaches him.
RowRight(i) ==
  /\ received[i] <= 1
  /\ rows[i].state \notin {"sending", "delivered", "uncertain"} => received[i] = 0
  /\ rows[i].state = "delivered" => received[i] = 1

\* The request in flight belongs to a row that is claimed, and its outcome is what happened.
InFlight ==
  /\ worker.pc \in {"http", "finish"} => rows[worker.event].state = "sending"
  /\ worker.pc = "http" => received[worker.event] = 0
  /\ worker.pc = "finish" =>
       /\ worker.to \in {"delivered", "failed", "retry", "uncertain"}
       /\ worker.to = "delivered" => received[worker.event] = 1
       /\ worker.to \in {"failed", "retry"} => received[worker.event] = 0

\* The report about a row is posted once, after the row's last change.
ReportRight(i) ==
  /\ posted[i] <= 1 /\ (rows[i].report = "pending" => posted[i] = 0)
  /\ told[i] # M!None => told[i] = rows[i].state
InReport ==
  /\ reporter.pc \in {"claim", "append"} => reporter.seen \in M!Terminal /\ rows[reporter.event].state = reporter.seen
  /\ reporter.pc = "append" => rows[reporter.event].report = "sending" /\ posted[reporter.event] = 0
  /\ reporter.pc = "finish" => reporter.to # M!None

\* A row that may be claimed has its route; one about to be claimed, unless it was
\* cancelled since, has it as it is.
RoutePinned(i) == rows[i].state \in {"ready", "retry", "sending"} => rows[i].route \in Routes
ClaimRight ==
  /\ worker.pc = "pin" => worker.to \in {"skipped", "failed", "ready"}
  /\ worker.pc \in {"key", "drop", "claim"} => worker.seen \in {"ready", "retry"}
  /\ worker.pc = "claim" /\ rows[worker.event].state = worker.seen => M!HasKey(rows[worker.event])

MirzaInv ==
  /\ MirzaTypeOK /\ InFlight /\ InReport /\ ClaimRight
  /\ \A i \in Incidents : RowRight(i) /\ ReportRight(i) /\ RoutePinned(i)
LEMMA WrittenRow ==
  ASSUME MirzaTypeOK, NEW i \in Incidents, NEW expected, NEW row \in NoticeRows, rows' = M!Written(i, expected, row)
  PROVE  /\ rows' \in [Incidents -> NoticeRows]
         /\ \A j \in Incidents : rows'[j] = IF j = i /\ rows[i].state = expected THEN row ELSE rows[j]
BY DEF M!Written, MirzaTypeOK

\* A row with another state.
LEMMA StateSet ==
  ASSUME MirzaTypeOK, NEW i \in Incidents, NEW s \in RowStates
  PROVE  /\ [rows[i] EXCEPT !.state = s] \in NoticeRows /\ [rows[i] EXCEPT !.state = s].state = s
         /\ [rows[i] EXCEPT !.state = s].report = rows[i].report
         /\ [rows[i] EXCEPT !.state = s].route = rows[i].route /\ [rows[i] EXCEPT !.state = s].rev = rows[i].rev
<1>1. rows[i] \in NoticeRows
  BY DEF MirzaTypeOK
<1> QED BY <1>1 DEF NoticeRows

\* What one task's step leaves to the others.
WorkerRows ==
  /\ rows' \in [Incidents -> NoticeRows]
  /\ \A i \in Incidents :
       /\ rows'[i].report = rows[i].report
       /\ rows[i].state \in M!Terminal => rows'[i].state = rows[i].state

ReporterRows ==
  /\ rows' \in [Incidents -> NoticeRows]
  /\ \A i \in Incidents :
       rows'[i].state = rows[i].state /\ rows'[i].route = rows[i].route /\ rows'[i].rev = rows[i].rev

LEMMA WorkerLeavesReports ==
  ASSUME MirzaInv, WorkerRows, UNCHANGED <<reporter, posted, told>>
  PROVE  InReport' /\ \A i \in Incidents : ReportRight(i)'
<1>1. ASSUME NEW i \in Incidents PROVE ReportRight(i)'
  <2>1. told[i] \in {M!None} \cup M!Terminal /\ ReportRight(i)
    BY DEF MirzaInv, MirzaTypeOK
  <2> QED BY <2>1 DEF ReportRight, WorkerRows
<1>2. InReport'
  BY DEF MirzaInv, MirzaTypeOK, InReport, WorkerRows
<1> QED BY <1>1, <1>2

LEMMA ReporterLeavesRows ==
  ASSUME MirzaInv, ReporterRows, UNCHANGED <<routes, worker, received>>
  PROVE  InFlight' /\ ClaimRight' /\ \A i \in Incidents : RowRight(i)' /\ RoutePinned(i)'
<1>1. ASSUME NEW i \in Incidents PROVE RowRight(i)' /\ RoutePinned(i)'
  BY DEF MirzaInv, RowRight, RoutePinned, ReporterRows
<1>2. InFlight'
  BY DEF MirzaInv, MirzaTypeOK, InFlight, ReporterRows
<1>3. ClaimRight'
  BY DEF MirzaInv, MirzaTypeOK, ClaimRight, ReporterRows, M!HasKey, M!Exists
<1> QED BY <1>1, <1>2, <1>3

LEMMA MirzaInit == M!Init => MirzaInv
<1> SUFFICES ASSUME M!Init PROVE MirzaInv
  OBVIOUS
<1>1. M!NoRow \in NoticeRows /\ M!NoRow.state = M!None /\ M!NoRow.report = "pending"
  BY DEF M!NoRow, NoticeRows, RowStates, Reports
<1>2. routes \in [Routes -> RouteRows]
  <2>1. M!NoRoute \in RouteRows /\ [rev |-> 1, on |-> TRUE, admins |-> Admins, complete |-> TRUE] \in RouteRows
    BY DEF M!NoRoute, RouteRows
  <2> QED BY <2>1 DEF M!Init
<1>3. worker = [M!IdleWorker EXCEPT !.pc = "start"] /\ reporter = [M!IdleReporter EXCEPT !.pc = "start"]
  BY DEF M!Init
<1>4. worker \in Workers /\ worker.pc = "start" /\ reporter \in Reporters /\ reporter.pc = "start"
  BY <1>3 DEF M!IdleWorker, M!IdleReporter, Workers, Reporters, RowStates
<1>5. MirzaTypeOK
  BY <1>1, <1>2, <1>4 DEF M!Init, MirzaTypeOK
<1>6. ASSUME NEW i \in Incidents PROVE RowRight(i) /\ ReportRight(i) /\ RoutePinned(i)
  BY <1>1 DEF M!Init, RowRight, ReportRight, RoutePinned, M!None
<1>7. InFlight /\ InReport /\ ClaimRight
  BY <1>4 DEF InFlight, InReport, ClaimRight
<1> QED BY <1>5, <1>6, <1>7 DEF MirzaInv

-----------------------------------------------------------------------------
(* The operator's menus.                                                    *)

\* Rows that carry a request nobody has claimed may be cancelled.
MayCancel ==
  /\ rows' \in [Incidents -> NoticeRows]
  /\ \A i \in Incidents :
       \/ rows'[i] = rows[i]
       \/ rows[i].state \in M!Unsent /\ rows'[i] = [rows[i] EXCEPT !.state = "skipped"]

LEMMA MenusKeep ==
  ASSUME MirzaInv, MayCancel, routes' \in [Routes -> RouteRows],
         UNCHANGED <<context, worker, reporter, received, posted, told>>,
         \A i \in Incidents : rows[i].state \in M!Unsent /\ rows'[i] = rows[i] /\ rows[i].route \in Routes /\ M!HasKey(rows[i]) =>
                                M!HasKey(rows[i])'
  PROVE  MirzaInv'
<1>1. ASSUME NEW i \in Incidents, rows'[i] # rows[i]
      PROVE  /\ rows[i].state \in M!Unsent /\ rows'[i].state = "skipped" /\ rows'[i].report = rows[i].report
             /\ rows'[i].route = rows[i].route
  <2>1. rows[i].state \in M!Unsent /\ rows'[i] = [rows[i] EXCEPT !.state = "skipped"]
    BY <1>1 DEF MayCancel
  <2>2. "skipped" \in RowStates /\ MirzaTypeOK
    BY DEF RowStates, M!Terminal, MirzaInv
  <2> QED BY <2>1, <2>2, StateSet
<1>2. WorkerRows
  BY <1>1 DEF MayCancel, WorkerRows, M!Unsent, M!Terminal
<1>3. InReport' /\ \A i \in Incidents : ReportRight(i)'
  BY <1>2, WorkerLeavesReports
<1>4. MirzaTypeOK'
  BY DEF MirzaInv, MirzaTypeOK, MayCancel
<1>5. ASSUME NEW i \in Incidents PROVE RowRight(i)' /\ RoutePinned(i)'
  BY <1>1 DEF MirzaInv, RowRight, RoutePinned, M!Unsent
<1>6. InFlight'
  BY <1>1 DEF MirzaInv, MirzaTypeOK, InFlight, M!Unsent
<1>7. ClaimRight'
  <2> SUFFICES ASSUME worker.pc = "claim", rows'[worker.event].state = worker.seen PROVE M!HasKey(rows[worker.event])' 
    BY DEF ClaimRight, MirzaInv
  <2>1. worker.event \in Incidents /\ worker.seen \in {"ready", "retry"}
    BY DEF MirzaInv, MirzaTypeOK, ClaimRight
  <2>2. rows'[worker.event] = rows[worker.event]
    BY <2>1, <1>1
  <2>3. rows[worker.event].route \in Routes /\ M!HasKey(rows[worker.event])
    BY <2>1, <2>2 DEF MirzaInv, ClaimRight, RoutePinned
  <2> QED BY <2>1, <2>2, <2>3 DEF M!Unsent
<1> QED BY <1>3, <1>4, <1>5, <1>6, <1>7 DEF MirzaInv

\* A change of a bot raises its revision and cancels what was pinned to the old one.
LEMMA EditKeeps ==
  ASSUME MirzaInv, NEW r \in Routes, NEW route \in RouteRows, M!Edit(r, route)
  PROVE  MirzaInv'
<1>1. routes \in [Routes -> RouteRows] /\ routes[r].rev \in Int
  BY DEF MirzaInv, MirzaTypeOK, RouteRows
<1>2. [route EXCEPT !.rev = routes[r].rev + 1] \in RouteRows
  BY <1>1 DEF RouteRows
<1>3. routes' \in [Routes -> RouteRows] /\ \A q \in Routes \ {r} : routes'[q] = routes[q]
  BY <1>1, <1>2 DEF M!Edit
<1>4. MayCancel
  <2>1. \A i \in Incidents : [rows[i] EXCEPT !.state = "skipped"] \in NoticeRows /\ rows[i] \in NoticeRows
    BY StateSet DEF MirzaInv, MirzaTypeOK, RowStates, M!Terminal
  <2> QED BY <2>1 DEF M!Edit, M!Cancelled, MayCancel
<1>5. ASSUME NEW i \in Incidents, rows[i].state \in M!Unsent, rows'[i] = rows[i], rows[i].route \in Routes, M!HasKey(rows[i])
      PROVE  M!HasKey(rows[i])'
  <2>1. rows[i].route # r
    <3>1. SUFFICES ASSUME rows[i].route = r PROVE FALSE
      OBVIOUS
    <3>2. rows'[i] = [rows[i] EXCEPT !.state = "skipped"]
      BY <1>5, <3>1 DEF M!Edit, M!Cancelled, M!HasKey
    <3>3. rows'[i].state = "skipped"
      BY <3>2, StateSet DEF MirzaInv, RowStates, M!Terminal
    <3> QED BY <1>5, <3>3 DEF M!Unsent
  <2> QED BY <1>3, <1>5, <2>1 DEF M!HasKey, M!Exists
<1> QED BY <1>3, <1>4, <1>5, MenusKeep DEF M!Edit

LEMMA UnchangedRows ==
  ASSUME MirzaInv, rows' = rows
  PROVE  MayCancel /\ WorkerRows /\ ReporterRows
BY DEF MirzaInv, MirzaTypeOK, MayCancel, WorkerRows, ReporterRows

LEMMA MenusStep ==
  ASSUME MirzaInv, M!Menus
  PROVE  MirzaInv'
<1>1. \A r \in Routes : routes[r] \in RouteRows
  BY DEF MirzaInv, MirzaTypeOK
<1>2. ASSUME NEW r \in Routes, M!create_route(r) PROVE MirzaInv'
  <2>1. routes' = [routes EXCEPT ![r].rev = 1] /\ routes[r].rev = 0
    BY <1>2 DEF M!create_route, M!NoRoute
  <2>2. [routes[r] EXCEPT !.rev = 1] \in RouteRows
    BY <1>1 DEF RouteRows
  <2>5. routes' = [routes EXCEPT ![r] = [routes[r] EXCEPT !.rev = 1]]
    BY <2>1 DEF MirzaInv, MirzaTypeOK, RouteRows
  <2>6. routes' \in [Routes -> RouteRows] /\ \A q \in Routes \ {r} : routes'[q] = routes[q]
    BY <2>2, <2>5 DEF MirzaInv, MirzaTypeOK
  <2>3. ASSUME NEW i \in Incidents, rows[i].route \in Routes, M!HasKey(rows[i]), rows'[i] = rows[i]
        PROVE  M!HasKey(rows[i])'
    BY <2>1, <2>6, <2>3 DEF M!HasKey, M!Exists
  <2> QED BY <1>2, <2>6, <2>3, UnchangedRows, MenusKeep DEF M!create_route
<1>3. ASSUME NEW r \in Routes, M!update_route(r) \/ M!_edit_message(r) PROVE MirzaInv'
  <2>1. /\ [routes[r] EXCEPT !.on = ~@] \in RouteRows
        /\ \A c \in BOOLEAN : [routes[r] EXCEPT !.complete = c] \in RouteRows
        /\ [routes[r] EXCEPT !.complete = ~@] \in RouteRows /\ routes[r].complete \in BOOLEAN
    BY <1>1 DEF RouteRows
  <2> QED BY <1>3, <2>1, EditKeeps DEF M!update_route, M!_edit_message
<1>4. ASSUME NEW r \in Routes, NEW a \in Admins, M!_select_admin(r, a) PROVE MirzaInv'
  <2>1. [routes[r] EXCEPT !.admins = IF a \in @ THEN @ \ {a} ELSE @ \cup {a}] \in RouteRows
    BY <1>1 DEF RouteRows
  <2> QED BY <1>4, <2>1, EditKeeps DEF M!_select_admin
<1>5. ASSUME NEW r \in Routes, M!delete_route(r) PROVE MirzaInv'
  <2>1. [M!NoRoute EXCEPT !.rev = -1] \in RouteRows
    <3>1. M!NoRoute \in RouteRows /\ -1 \in Int
      BY DEF M!NoRoute, RouteRows
    <3> QED BY <3>1 DEF RouteRows
  <2>2. routes' \in [Routes -> RouteRows] /\ \A q \in Routes \ {r} : routes'[q] = routes[q]
    <3>1. routes' = [routes EXCEPT ![r] = [M!NoRoute EXCEPT !.rev = -1]] /\ routes \in [Routes -> RouteRows]
      BY <1>5 DEF M!delete_route, MirzaInv, MirzaTypeOK
    <3> QED BY <2>1, <3>1
  <2>3. MayCancel
    <3>1. \A i \in Incidents : [rows[i] EXCEPT !.state = "skipped"] \in NoticeRows /\ rows[i] \in NoticeRows
      BY StateSet DEF MirzaInv, MirzaTypeOK, RowStates, M!Terminal
    <3> QED BY <1>5, <3>1 DEF M!delete_route, MayCancel
  <2>4. ASSUME NEW i \in Incidents, rows[i].state \in M!Unsent, rows'[i] = rows[i], rows[i].route \in Routes, M!HasKey(rows[i])
        PROVE  M!HasKey(rows[i])'
    <3>1. rows[i].route # r
      <4>1. SUFFICES ASSUME rows[i].route = r PROVE FALSE
        OBVIOUS
      <4>2. rows'[i] = [rows[i] EXCEPT !.state = "skipped"]
        BY <1>5, <2>4, <4>1 DEF M!delete_route
      <4>3. rows'[i].state = "skipped"
        BY <4>2, StateSet DEF MirzaInv, RowStates, M!Terminal
      <4> QED BY <2>4, <4>3 DEF M!Unsent
    <3> QED BY <2>2, <2>4, <3>1 DEF M!HasKey, M!Exists
  <2> QED BY <1>5, <2>2, <2>3, <2>4, MenusKeep DEF M!delete_route
<1>6. CASE M!SetTopic
  BY <1>6, UnchangedRows, MenusKeep DEF M!SetTopic, MirzaInv, MirzaTypeOK, M!HasKey, M!Exists
<1> QED BY <1>2, <1>3, <1>4, <1>5, <1>6 DEF M!Menus
-----------------------------------------------------------------------------
(* The punishment and its fact.                                             *)

LEMMA FactStep ==
  ASSUME MirzaInv, NEW i \in Incidents, M!capture_rules(i) \/ M!ensure_for_fact(i)
  PROVE  MirzaInv'
<1>1. CASE M!capture_rules(i)
  <2> DEFINE found == {[route |-> r, rev |-> routes[r].rev, admins |-> routes[r].admins] :
                          r \in {q \in Routes : routes[q].on /\ M!Valid(routes[q])}}
  <2>1. \A r \in Routes : [route |-> r, rev |-> routes[r].rev, admins |-> routes[r].admins] \in Candidates
    BY DEF MirzaInv, MirzaTypeOK, RouteRows, Candidates
  <2>2. found \in SUBSET Candidates
    BY <2>1
  <2>3. context' = [context EXCEPT ![i] = found]
    BY <1>1 DEF M!capture_rules
  <2>4. context' \in [Incidents -> SUBSET Candidates]
    BY <2>2, <2>3 DEF MirzaInv, MirzaTypeOK
  <2> HIDE DEF found
  <2>5. WorkerRows /\ ReporterRows
    BY <1>1, UnchangedRows DEF M!capture_rules
  <2>6. InReport' /\ \A j \in Incidents : ReportRight(j)'
    BY <1>1, <2>5, WorkerLeavesReports DEF M!capture_rules
  <2>7. InFlight' /\ ClaimRight' /\ \A j \in Incidents : RowRight(j)' /\ RoutePinned(j)'
    BY <1>1, <2>5, ReporterLeavesRows DEF M!capture_rules
  <2>8. MirzaTypeOK'
    BY <1>1, <2>4 DEF M!capture_rules, MirzaInv, MirzaTypeOK
  <2> QED BY <2>6, <2>7, <2>8 DEF MirzaInv
<1>2. CASE M!ensure_for_fact(i)
  <2>1. rows[i] = M!NoRow /\ rows[i].state = M!None /\ "pending" \in RowStates
    BY <1>2 DEF M!ensure_for_fact, M!NoRow, RowStates, M!Unsent
  <2>2. rows' = [rows EXCEPT ![i] = [rows[i] EXCEPT !.state = "pending"]]
    BY <1>2 DEF M!ensure_for_fact, MirzaInv, MirzaTypeOK
  <2>3. /\ rows' \in [Incidents -> NoticeRows] /\ \A j \in Incidents \ {i} : rows'[j] = rows[j]
        /\ rows'[i].state = "pending" /\ rows'[i].report = rows[i].report
    BY <2>1, <2>2, StateSet DEF MirzaInv, MirzaTypeOK
  <2>4. WorkerRows
    BY <2>1, <2>3 DEF WorkerRows, M!Terminal, M!None
  <2>5. InReport' /\ \A j \in Incidents : ReportRight(j)'
    BY <1>2, <2>4, WorkerLeavesReports DEF M!ensure_for_fact
  <2>6. ASSUME NEW j \in Incidents PROVE RowRight(j)' /\ RoutePinned(j)'
    BY <1>2, <2>1, <2>3 DEF M!ensure_for_fact, MirzaInv, RowRight, RoutePinned, M!None
  <2>7. InFlight'
    BY <1>2, <2>1, <2>3 DEF M!ensure_for_fact, MirzaInv, MirzaTypeOK, InFlight, M!None
  <2>8. ClaimRight'
    BY <1>2, <2>1, <2>3 DEF M!ensure_for_fact, MirzaInv, MirzaTypeOK, ClaimRight, M!None, M!HasKey, M!Exists
  <2>9. MirzaTypeOK'
    BY <1>2, <2>3 DEF M!ensure_for_fact, MirzaInv, MirzaTypeOK
  <2> QED BY <2>5, <2>6, <2>7, <2>8, <2>9 DEF MirzaInv
<1> QED BY <1>1, <1>2

-----------------------------------------------------------------------------
(* The delivery worker.                                                     *)

\* The worker goes on, or is done with its row.
LEMMA WorkerGoes ==
  ASSUME MirzaTypeOK,
         NEW pc \in {"start", "idle", "details", "route", "pin", "read", "key", "drop", "claim", "http", "finish"}
  PROVE  /\ M!IdleWorker \in Workers /\ M!IdleWorker.pc = "idle"
         /\ [worker EXCEPT !.pc = pc] \in Workers /\ [worker EXCEPT !.pc = pc].pc = pc
         /\ [worker EXCEPT !.pc = pc].event = worker.event /\ [worker EXCEPT !.pc = pc].seen = worker.seen
         /\ [worker EXCEPT !.pc = pc].to = worker.to /\ [worker EXCEPT !.pc = pc].cand = worker.cand
<1>1. M!IdleWorker \in Workers /\ M!IdleWorker.pc = "idle"
  BY DEF M!IdleWorker, Workers, RowStates
<1>2. worker \in Workers
  BY DEF MirzaTypeOK
<1> QED BY <1>1, <1>2 DEF Workers

\* A step of the worker that sends nothing: what is left to check of it.
LEMMA WorkerQuiet ==
  ASSUME MirzaInv, WorkerRows, UNCHANGED <<routes, context, reporter, posted, told, received>>,
         worker' \in Workers, worker'.pc \notin {"start", "idle"} => worker'.event \in Incidents,
         worker'.pc \notin {"http", "finish"}, ClaimRight',
         \A i \in Incidents : RowRight(i)' /\ RoutePinned(i)'
  PROVE  MirzaInv'
<1>1. InReport' /\ \A i \in Incidents : ReportRight(i)'
  BY WorkerLeavesReports
<1>2. InFlight'
  BY DEF InFlight
<1>3. MirzaTypeOK'
  BY DEF WorkerRows, MirzaInv, MirzaTypeOK
<1> QED BY <1>1, <1>2, <1>3 DEF MirzaInv

\* A step that only moves the worker.
LEMMA WorkerMoves ==
  ASSUME MirzaInv, rows' = rows, UNCHANGED <<routes, context, reporter, posted, told, received>>,
         worker' \in Workers, worker'.pc \notin {"start", "idle"} => worker'.event \in Incidents,
         worker'.pc \notin {"http", "finish"}, ClaimRight'
  PROVE  MirzaInv'
BY UnchangedRows, WorkerQuiet DEF MirzaInv, RowRight, RoutePinned

\* A write of the worker to a row that says nothing has been sent.
LEMMA UnsentWrite ==
  ASSUME MirzaInv, NEW i \in Incidents, NEW expected \in M!Unsent, NEW row \in NoticeRows,
         rows' = rows \/ rows' = M!Written(i, expected, row),
         row.report = rows[i].report, row.state \in M!Unsent \cup {"failed", "skipped", "sending"},
         row.state \in {"ready", "retry", "sending"} /\ rows[i].state = expected => row.route \in Routes,
         received' = received
  PROVE  WorkerRows /\ \A j \in Incidents : RowRight(j)' /\ RoutePinned(j)'
<1>1. CASE rows' = rows
  BY <1>1, UnchangedRows DEF MirzaInv, RowRight, RoutePinned
<1>2. CASE rows' = M!Written(i, expected, row)
  <2>1. /\ rows' \in [Incidents -> NoticeRows]
        /\ \A j \in Incidents : rows'[j] = IF j = i /\ rows[i].state = expected THEN row ELSE rows[j]
    BY <1>2, WrittenRow DEF MirzaInv
  <2>2. WorkerRows
    BY <2>1 DEF WorkerRows, M!Unsent, M!Terminal
  <2>3. ASSUME NEW j \in Incidents PROVE RowRight(j)' /\ RoutePinned(j)'
    BY <2>1 DEF MirzaInv, RowRight, RoutePinned, M!Unsent
  <2> QED BY <2>2, <2>3
<1> QED BY <1>1, <1>2

\* After a restart a claim that nobody finished is uncertain.
LEMMA Recovers ==
  ASSUME MirzaInv, M!_recover
  PROVE  MirzaInv'
<1>1. \A i \in Incidents :
        /\ [rows[i] EXCEPT !.state = "uncertain"] \in NoticeRows /\ [rows[i] EXCEPT !.state = "uncertain"].state = "uncertain"
        /\ [rows[i] EXCEPT !.state = "uncertain"].report = rows[i].report /\ rows[i] \in NoticeRows
  BY StateSet DEF MirzaInv, MirzaTypeOK, RowStates, M!Terminal
<1>2. WorkerRows /\ \A i \in Incidents : rows'[i].state = IF rows[i].state = "sending" THEN "uncertain" ELSE rows[i].state
  BY <1>1 DEF M!_recover, WorkerRows, M!Terminal
<1>3. ASSUME NEW i \in Incidents PROVE RowRight(i)' /\ RoutePinned(i)'
  BY <1>1, <1>2 DEF M!_recover, M!OnlyWorker, MirzaInv, RowRight, RoutePinned
<1>4. worker' = M!IdleWorker
  BY DEF M!_recover, M!Done
<1>5. worker' \in Workers /\ worker'.pc = "idle"
  BY <1>4, WorkerGoes DEF MirzaInv
<1> QED BY <1>2, <1>3, <1>5, WorkerQuiet DEF M!_recover, M!OnlyWorker, ClaimRight

LEMMA Picks ==
  ASSUME MirzaInv, NEW i \in Incidents, M!Pick(i)
  PROVE  MirzaInv'
<1>1. worker' = [M!IdleWorker EXCEPT !.pc = IF rows[i].state = "pending" THEN "details" ELSE "read", !.event = i]
  BY DEF M!Pick
<1>2. worker' \in Workers /\ worker'.event = i /\ worker'.pc \in {"details", "read"}
  BY <1>1 DEF M!IdleWorker, Workers, RowStates
<1> QED BY <1>2, WorkerMoves DEF M!Pick, M!OnlyWorker, ClaimRight

LEMMA Resolves ==
  ASSUME MirzaInv, M!NoDetails
  PROVE  MirzaInv'
<1> DEFINE i == worker.event
           row == [rows[i] EXCEPT !.resolves = @ + 1, !.state = IF rows[i].resolves + 1 >= M!MaxTries THEN "failed" ELSE "pending"]
<1>1. i \in Incidents /\ rows[i] \in NoticeRows
  BY DEF M!NoDetails, MirzaInv, MirzaTypeOK
<1>2. row \in NoticeRows /\ row.report = rows[i].report /\ row.state \in {"failed", "pending"}
  <2> DEFINE more == [rows[i] EXCEPT !.resolves = @ + 1]
             s == IF rows[i].resolves + 1 >= M!MaxTries THEN "failed" ELSE "pending"
  <2>1. more \in NoticeRows /\ more.report = rows[i].report
    BY <1>1 DEF NoticeRows
  <2>2. s \in RowStates /\ s \in {"failed", "pending"}
    BY DEF RowStates, M!Terminal, M!Unsent
  <2>3. row = [more EXCEPT !.state = s]
    BY <1>1 DEF NoticeRows
  <2> HIDE DEF more, s
  <2> QED BY <2>1, <2>2, <2>3 DEF NoticeRows
<1>3. rows' = M!Written(i, "pending", row) /\ received' = received /\ worker' = [worker EXCEPT !.pc = "read"]
  BY DEF M!NoDetails, M!Go
<1> HIDE DEF row
<1>4. WorkerRows /\ \A j \in Incidents : RowRight(j)' /\ RoutePinned(j)'
  BY <1>1, <1>2, <1>3, UnsentWrite DEF M!Unsent
<1>5. worker' \in Workers /\ worker'.pc = "read" /\ worker'.event = i
  BY <1>3, WorkerGoes DEF MirzaInv
<1> QED BY <1>1, <1>4, <1>5, WorkerQuiet DEF M!NoDetails, M!OnlyWorker, ClaimRight

LEMMA DetailsStep ==
  ASSUME MirzaInv, NEW owner, M!Details(owner)
  PROVE  MirzaInv'
<1> DEFINE i == worker.event
           found == {c \in context[i] : owner \in c.admins}
           row == [rows[i] EXCEPT !.state = "skipped"]
<1>1. i \in Incidents /\ worker \in Workers /\ context[i] \in SUBSET Candidates
  BY DEF M!Details, MirzaInv, MirzaTypeOK
<1>2. CASE worker' = [worker EXCEPT !.pc = "route", !.cand = found] /\ rows' = rows
  <2>1. worker' \in Workers /\ worker'.pc = "route" /\ worker'.event = i
    BY <1>1, <1>2 DEF Workers
  <2> QED BY <1>1, <1>2, <2>1, WorkerMoves DEF M!Details, M!OnlyWorker, ClaimRight
<1>3. CASE rows' = M!Written(i, "pending", row) /\ M!Go("read")
  <2>1. row \in NoticeRows /\ row.report = rows[i].report /\ row.state = "skipped"
    BY <1>1, StateSet DEF MirzaInv, RowStates, M!Terminal
  <2> HIDE DEF row
  <2>2. WorkerRows /\ \A j \in Incidents : RowRight(j)' /\ RoutePinned(j)'
    BY <1>1, <1>3, <2>1, UnsentWrite DEF M!Unsent, M!Details
  <2>3. worker' \in Workers /\ worker'.pc = "read" /\ worker'.event = i
    BY <1>3, WorkerGoes DEF M!Go, MirzaInv
  <2> QED BY <1>1, <2>2, <2>3, WorkerQuiet DEF M!Details, M!OnlyWorker, ClaimRight
<1> QED BY <1>2, <1>3 DEF M!Details

LEMMA ReadsRoute ==
  ASSUME MirzaInv, M!ReadRoute
  PROVE  MirzaInv'
<1>1. PICK to \in UNION {M!Verdicts(d) : d \in worker.cand} : worker' = [worker EXCEPT !.pc = "pin", !.to = to]
  BY DEF M!ReadRoute
<1>2. to \in {"skipped", "failed", "ready"}
  BY DEF M!Verdicts
<1>3. worker \in Workers /\ worker.event \in Incidents
  BY DEF M!ReadRoute, MirzaInv, MirzaTypeOK
<1>4. worker' \in Workers /\ worker'.pc = "pin" /\ worker'.event = worker.event /\ worker'.to = to
  BY <1>1, <1>2, <1>3 DEF Workers, RowStates, M!Terminal, M!Unsent
<1> QED BY <1>2, <1>3, <1>4, WorkerMoves DEF M!ReadRoute, M!OnlyWorker, ClaimRight

LEMMA Pins ==
  ASSUME MirzaInv, M!Pin
  PROVE  MirzaInv'
<1>1. PICK c \in worker.cand : 
        \/ rows' = rows
        \/ rows' = M!Written(worker.event, "pending", [rows[worker.event] EXCEPT !.state = worker.to, !.route = c.route, !.rev = c.rev])
  BY DEF M!Pin
<1>2. worker.event \in Incidents /\ c \in Candidates /\ worker.to \in {"skipped", "failed", "ready"}
  BY DEF M!Pin, MirzaInv, MirzaTypeOK, Workers, ClaimRight
<1> DEFINE i == worker.event
           row == [rows[i] EXCEPT !.state = worker.to, !.route = c.route, !.rev = c.rev]
<1>3. rows[i] \in NoticeRows
  BY <1>2 DEF MirzaInv, MirzaTypeOK
<1>4. row \in NoticeRows /\ row.report = rows[i].report /\ row.state = worker.to /\ row.route \in Routes
  <2> DEFINE first == [rows[i] EXCEPT !.state = worker.to]
             second == [first EXCEPT !.route = c.route]
  <2>1. worker.to \in RowStates /\ c.route \in Routes /\ c.rev \in Int
    BY <1>2 DEF RowStates, M!Terminal, M!Unsent, Candidates
  <2>2. first \in NoticeRows /\ first.state = worker.to /\ first.report = rows[i].report
    BY <1>3, <2>1 DEF NoticeRows
  <2> HIDE DEF first
  <2>3. second \in NoticeRows /\ second.state = worker.to /\ second.route = c.route /\ second.report = rows[i].report
    BY <2>1, <2>2 DEF NoticeRows
  <2>4. row = [second EXCEPT !.rev = c.rev]
    BY DEF first
  <2> HIDE DEF second
  <2> QED BY <2>1, <2>3, <2>4 DEF NoticeRows
<1>5. rows' = rows \/ rows' = M!Written(i, "pending", row)
  BY <1>1
<1> HIDE DEF row
<1>6. WorkerRows /\ \A j \in Incidents : RowRight(j)' /\ RoutePinned(j)'
  BY <1>2, <1>4, <1>5, UnsentWrite DEF M!Unsent, M!Pin
<1>7. worker' \in Workers /\ worker'.pc \in {"read", "idle"} /\ (worker'.pc = "read" => worker'.event = worker.event)
  <2>1. worker' = [worker EXCEPT !.pc = "read"] \/ worker' = M!IdleWorker
    BY DEF M!Pin, M!Go, M!Done
  <2>2. /\ [worker EXCEPT !.pc = "read"] \in Workers /\ [worker EXCEPT !.pc = "read"].pc = "read"
        /\ [worker EXCEPT !.pc = "read"].event = worker.event /\ M!IdleWorker \in Workers /\ M!IdleWorker.pc = "idle"
    BY WorkerGoes DEF MirzaInv
  <2> QED BY <2>1, <2>2
<1> QED BY <1>2, <1>6, <1>7, WorkerQuiet DEF M!Pin, M!OnlyWorker, ClaimRight
LEMMA ReadsRow ==
  ASSUME MirzaInv, M!ReadRow
  PROVE  MirzaInv'
<1>1. CASE rows[worker.event].state \in {"ready", "retry"}
  <2>1. worker' = [worker EXCEPT !.pc = "key", !.seen = rows[worker.event].state] /\ worker \in Workers
        /\ worker.event \in Incidents
    BY <1>1 DEF M!ReadRow, MirzaInv, MirzaTypeOK
  <2>2. worker' \in Workers /\ worker'.pc = "key" /\ worker'.event = worker.event /\ worker'.seen \in {"ready", "retry"}
    BY <1>1, <2>1 DEF Workers
  <2> QED BY <2>1, <2>2, WorkerMoves DEF M!ReadRow, M!OnlyWorker, ClaimRight
<1>2. CASE worker' = M!IdleWorker
  BY <1>2, WorkerGoes, WorkerMoves DEF M!ReadRow, M!OnlyWorker, ClaimRight, MirzaInv
<1> QED BY <1>1, <1>2 DEF M!ReadRow, M!Done

\* The key is there for the route as it is, and nothing else changes it before the claim
\* without cancelling the row.
LEMMA ReadsKey ==
  ASSUME MirzaInv, M!read_secret
  PROVE  MirzaInv'
<1>1. worker.event \in Incidents /\ worker.seen \in {"ready", "retry"}
  BY DEF M!read_secret, MirzaInv, MirzaTypeOK, ClaimRight
<1>2. CASE M!HasKey(rows[worker.event])
  <2>1. worker' = [worker EXCEPT !.pc = "claim"]
    BY <1>2 DEF M!read_secret, M!Go
  <2>2. worker' \in Workers /\ worker'.pc = "claim" /\ worker'.event = worker.event /\ worker'.seen = worker.seen
    BY <2>1, WorkerGoes DEF MirzaInv
  <2>3. ClaimRight'
    BY <1>1, <1>2, <2>2 DEF M!read_secret, M!OnlyWorker, ClaimRight, M!HasKey, M!Exists
  <2> QED BY <1>1, <2>2, <2>3, WorkerMoves DEF M!read_secret, M!OnlyWorker
<1>3. CASE ~M!HasKey(rows[worker.event])
  <2>1. worker' = [worker EXCEPT !.pc = "drop"]
    BY <1>3 DEF M!read_secret, M!Go
  <2>2. worker' \in Workers /\ worker'.pc = "drop" /\ worker'.event = worker.event /\ worker'.seen = worker.seen
    BY <2>1, WorkerGoes DEF MirzaInv
  <2> QED BY <1>1, <2>2, WorkerMoves DEF M!read_secret, M!OnlyWorker, ClaimRight
<1> QED BY <1>2, <1>3

LEMMA Drops ==
  ASSUME MirzaInv, M!Drop
  PROVE  MirzaInv'
<1> DEFINE i == worker.event
           row == [rows[i] EXCEPT !.state = "skipped"]
<1>1. i \in Incidents /\ worker.seen \in M!Unsent
  BY DEF M!Drop, MirzaInv, MirzaTypeOK, ClaimRight, M!Unsent
<1>2. row \in NoticeRows /\ row.report = rows[i].report /\ row.state = "skipped"
  BY <1>1, StateSet DEF MirzaInv, RowStates, M!Terminal
<1>3. rows' = M!Written(i, worker.seen, row)
  BY DEF M!Drop
<1> HIDE DEF row
<1>4. WorkerRows /\ \A j \in Incidents : RowRight(j)' /\ RoutePinned(j)'
  BY <1>1, <1>2, <1>3, UnsentWrite DEF M!Drop
<1>5. worker' \in Workers /\ worker'.pc = "idle"
  BY WorkerGoes DEF M!Drop, M!Done, MirzaInv
<1> QED BY <1>4, <1>5, WorkerQuiet DEF M!Drop, M!OnlyWorker, ClaimRight

\* Only the claim that found the row as it was read goes on to the request.
LEMMA Claims ==
  ASSUME MirzaInv, M!Claim
  PROVE  MirzaInv'
<1> DEFINE i == worker.event
           row == [rows[i] EXCEPT !.state = "sending", !.tries = @ + 1]
<1>1. i \in Incidents /\ worker.seen \in {"ready", "retry"} /\ rows[i] \in NoticeRows
  BY DEF M!Claim, MirzaInv, MirzaTypeOK, ClaimRight
<1>2. row \in NoticeRows /\ row.report = rows[i].report /\ row.state = "sending" /\ row.route = rows[i].route
  <2> DEFINE more == [rows[i] EXCEPT !.state = "sending"]
  <2>1. more \in NoticeRows /\ more.state = "sending" /\ more.report = rows[i].report /\ more.route = rows[i].route
        /\ more.tries = rows[i].tries
    BY <1>1 DEF NoticeRows, RowStates
  <2>2. row = [more EXCEPT !.tries = rows[i].tries + 1]
    BY <1>1 DEF NoticeRows
  <2> HIDE DEF more
  <2> QED BY <1>1, <2>1, <2>2 DEF NoticeRows
<1>3. rows' = rows \/ rows' = M!Written(i, worker.seen, row)
  BY DEF M!Claim
<1>4. WorkerRows /\ \A j \in Incidents : RowRight(j)' /\ RoutePinned(j)'
  <2> HIDE DEF row
  <2>1. rows[i].state = worker.seen => row.route \in Routes
    BY <1>1, <1>2 DEF MirzaInv, RoutePinned
  <2> QED BY <1>1, <1>2, <1>3, <2>1, UnsentWrite DEF M!Claim, M!Unsent
<1>5. CASE worker' = M!IdleWorker
  BY <1>4, <1>5, WorkerGoes, WorkerQuiet DEF M!Claim, M!OnlyWorker, ClaimRight, MirzaInv
<1>6. CASE rows' = M!Written(i, worker.seen, row) /\ rows[i].state = worker.seen /\ worker' = [worker EXCEPT !.pc = "http"]
  <2> HIDE DEF row
  <2>1. worker' \in Workers /\ worker'.pc = "http" /\ worker'.event = i
    BY <1>6, WorkerGoes DEF MirzaInv
  <2>2. rows'[i] = row
    BY <1>1, <1>2, <1>6, WrittenRow DEF MirzaInv
  <2>3. received'[i] = 0
    BY <1>1, <1>6 DEF M!Claim, MirzaInv, RowRight
  <2>4. InFlight'
    BY <1>2, <2>1, <2>2, <2>3 DEF InFlight
  <2>5. ClaimRight'
    BY <2>1 DEF ClaimRight
  <2>6. InReport' /\ \A j \in Incidents : ReportRight(j)'
    BY <1>4, WorkerLeavesReports DEF M!Claim, M!OnlyWorker
  <2>7. MirzaTypeOK'
    BY <1>1, <1>4, <2>1 DEF WorkerRows, M!Claim, M!OnlyWorker, MirzaInv, MirzaTypeOK
  <2> QED BY <1>4, <2>4, <2>5, <2>6, <2>7 DEF MirzaInv
<1> QED BY <1>5, <1>6 DEF M!Claim, M!Done, M!Go

\* The request: the customer has the message, has not, or nobody knows.
LEMMA Sends ==
  ASSUME MirzaInv, M!send_message
  PROVE  MirzaInv'
<1> DEFINE i == worker.event
<1>1. PICK status \in {"delivered", "failed", "retry", "uncertain"}, got \in BOOLEAN :
        M!Outcome(status, got) /\ (status = "delivered" => got) /\ (status \in {"failed", "retry"} => ~got)
  BY DEF M!send_message
<1>2. i \in Incidents /\ rows[i].state = "sending" /\ received[i] = 0 /\ worker \in Workers
  BY DEF M!send_message, MirzaInv, MirzaTypeOK, InFlight
<1>3. worker' = [worker EXCEPT !.pc = "finish", !.to = status]
  BY <1>1 DEF M!Outcome
<1>4. worker' \in Workers /\ worker'.pc = "finish" /\ worker'.event = i /\ worker'.to = status
  BY <1>2, <1>3 DEF Workers, RowStates, M!Terminal, M!Unsent
<1>5. received' \in [Incidents -> Nat] /\ received'[i] = (IF got THEN 1 ELSE 0) /\ \A j \in Incidents \ {i} : received'[j] = received[j]
  BY <1>1, <1>2 DEF M!Outcome, MirzaInv, MirzaTypeOK
<1>6. rows' = rows
  BY DEF M!send_message
<1>7. InFlight'
  BY <1>1, <1>2, <1>4, <1>5, <1>6 DEF InFlight
<1>8. ASSUME NEW j \in Incidents PROVE RowRight(j)' /\ RoutePinned(j)'
  BY <1>2, <1>5, <1>6 DEF MirzaInv, RowRight, RoutePinned
<1>9. InReport' /\ \A j \in Incidents : ReportRight(j)'
  BY <1>6, UnchangedRows, WorkerLeavesReports DEF M!send_message, M!OnlyWorker
<1>10. ClaimRight'
  BY <1>4 DEF ClaimRight
<1>11. MirzaTypeOK'
  BY <1>2, <1>4, <1>5, <1>6 DEF M!send_message, M!OnlyWorker, MirzaInv, MirzaTypeOK
<1> QED BY <1>7, <1>8, <1>9, <1>10, <1>11 DEF MirzaInv

LEMMA Finishes ==
  ASSUME MirzaInv, M!_finish
  PROVE  MirzaInv'
<1> DEFINE i == worker.event
           s == IF worker.to = "retry" /\ rows[i].tries >= M!MaxTries THEN "failed" ELSE worker.to
           row == [rows[i] EXCEPT !.state = s]
<1>1. /\ i \in Incidents /\ rows[i].state = "sending" /\ worker.to \in {"delivered", "failed", "retry", "uncertain"}
      /\ worker.to = "delivered" => received[i] = 1
      /\ worker.to \in {"failed", "retry"} => received[i] = 0
  BY DEF M!_finish, MirzaInv, MirzaTypeOK, InFlight
<1>2. s \in {"delivered", "failed", "retry", "uncertain"} /\ (s = "delivered" => received[i] = 1)
      /\ (s \in {"failed", "retry"} => received[i] = 0)
  BY <1>1
<1>3. rows' = rows \/ rows' = M!Written(i, "sending", row)
  BY DEF M!_finish
<1> HIDE DEF s
<1>4. row \in NoticeRows /\ row.report = rows[i].report /\ row.state = s /\ row.route = rows[i].route
  BY <1>1, <1>2, StateSet DEF MirzaInv, RowStates, M!Terminal, M!Unsent
<1>5. worker' \in Workers /\ worker'.pc = "idle"
  BY WorkerGoes DEF M!_finish, M!Done, MirzaInv
<1>6. ClaimRight'
  BY <1>5 DEF ClaimRight
<1> HIDE DEF row
<1>7. CASE rows' = rows
  BY <1>5, <1>6, <1>7, WorkerMoves DEF M!_finish, M!OnlyWorker
<1>8. CASE rows' = M!Written(i, "sending", row)
  <2>1. /\ rows' \in [Incidents -> NoticeRows]
        /\ \A j \in Incidents : rows'[j] = IF j = i THEN row ELSE rows[j]
    BY <1>1, <1>4, <1>8, WrittenRow DEF MirzaInv
  <2>2. WorkerRows
    BY <1>1, <1>4, <2>1 DEF WorkerRows, M!Terminal
  \* A request that is tried again has its route: it was pinned before it was claimed.
  <2>3. s = "retry" => rows[i].route \in Routes
    BY <1>1 DEF MirzaInv, RoutePinned
  <2>4. ASSUME NEW j \in Incidents PROVE RowRight(j)' /\ RoutePinned(j)'
    BY <1>1, <1>2, <1>4, <2>1, <2>3 DEF M!_finish, M!OnlyWorker, MirzaInv, RowRight, RoutePinned
  <2> QED BY <1>5, <1>6, <2>2, <2>4, WorkerQuiet DEF M!_finish, M!OnlyWorker
<1> QED BY <1>3, <1>7, <1>8

LEMMA WorkerSteps ==
  ASSUME MirzaInv, M!WorkerStep
  PROVE  MirzaInv'
BY Recovers, Picks, Resolves, DetailsStep, ReadsRoute, Pins, ReadsRow, ReadsKey, Drops, Claims, Sends, Finishes DEF M!WorkerStep
-----------------------------------------------------------------------------
(* The reporter.                                                            *)

\* A step of the reporter: what is left to check of it.
LEMMA ReporterStays ==
  ASSUME MirzaInv, ReporterRows, UNCHANGED <<routes, context, worker, received>>,
         reporter' \in Reporters, reporter'.pc \notin {"start", "idle"} => reporter'.event \in Incidents,
         posted' \in [Incidents -> Nat], told' \in [Incidents -> {M!None} \cup M!Terminal],
         InReport', \A i \in Incidents : ReportRight(i)'
  PROVE  MirzaInv'
<1>1. InFlight' /\ ClaimRight' /\ \A i \in Incidents : RowRight(i)' /\ RoutePinned(i)'
  BY ReporterLeavesRows
<1>2. MirzaTypeOK'
  BY DEF MirzaInv, MirzaTypeOK, ReporterRows
<1> QED BY <1>1, <1>2 DEF MirzaInv

\* A row whose report goes on; the other rows stay as they are.
LEMMA ReportWritten ==
  ASSUME MirzaInv, NEW i \in Incidents, NEW s \in Reports \ {"pending"},
         rows' = rows \/ rows' = [rows EXCEPT ![i].report = s]
  PROVE  /\ ReporterRows /\ (rows' = rows \/ rows'[i].report = s)
         /\ \A j \in Incidents : rows'[j].report = "pending" => rows[j].report = "pending"
<1>1. CASE rows' = rows
  BY <1>1, UnchangedRows
<1>2. CASE rows' = [rows EXCEPT ![i].report = s]
  <2> DEFINE row == [rows[i] EXCEPT !.report = s]
  <2>1. rows[i] \in NoticeRows /\ rows \in [Incidents -> NoticeRows]
    BY DEF MirzaInv, MirzaTypeOK
  <2>2. row \in NoticeRows /\ row.report = s /\ row.state = rows[i].state /\ row.route = rows[i].route /\ row.rev = rows[i].rev
    BY <2>1 DEF NoticeRows
  <2>3. rows' = [rows EXCEPT ![i] = row]
    BY <1>2, <2>1 DEF NoticeRows
  <2> HIDE DEF row
  <2>4. rows' \in [Incidents -> NoticeRows] /\ rows'[i] = row /\ \A j \in Incidents \ {i} : rows'[j] = rows[j]
    BY <2>1, <2>2, <2>3
  <2> QED BY <2>2, <2>4 DEF ReporterRows
<1> QED BY <1>1, <1>2

LEMMA IdleReport ==
  M!IdleReporter \in Reporters /\ M!IdleReporter.pc = "idle"
BY DEF M!IdleReporter, Reporters

\* The reporter gives up its row, whose report may have been written.
LEMMA ReporterEnds ==
  ASSUME MirzaInv, ReporterRows, UNCHANGED <<routes, context, worker, received, posted, told>>, reporter' = M!IdleReporter,
         \A j \in Incidents : rows'[j].report = "pending" => rows[j].report = "pending"
  PROVE  MirzaInv'
<1>1. InReport'
  BY IdleReport DEF InReport
<1>2. \A i \in Incidents : ReportRight(i)'
  BY DEF MirzaInv, ReportRight, ReporterRows
<1> QED BY <1>1, <1>2, IdleReport, ReporterStays DEF MirzaInv, MirzaTypeOK

LEMMA RecoversReports ==
  ASSUME MirzaInv, M!RecoverReports
  PROVE  MirzaInv'
<1>1. \A i \in Incidents :
        LET row == [rows[i] EXCEPT !.report = "uncertain"] IN
        row \in NoticeRows /\ row.report = "uncertain" /\ row.state = rows[i].state /\ row.route = rows[i].route /\ row.rev = rows[i].rev
  BY DEF MirzaInv, MirzaTypeOK, NoticeRows, Reports
<1>2. ReporterRows /\ \A j \in Incidents : rows'[j].report = "pending" => rows[j].report = "pending"
  BY <1>1 DEF M!RecoverReports, ReporterRows, MirzaInv, MirzaTypeOK
<1> QED BY <1>2, ReporterEnds DEF M!RecoverReports, M!OnlyReporter, M!EndReport

LEMMA PicksReport ==
  ASSUME MirzaInv, NEW i \in Incidents, M!PickReport(i)
  PROVE  MirzaInv'
<1>1. rows' = rows /\ rows[i].state \in M!Terminal /\ reporter' = [pc |-> "claim", event |-> i, seen |-> rows[i].state, to |-> M!None]
  BY DEF M!PickReport
<1>2. reporter' \in Reporters /\ reporter'.pc = "claim" /\ reporter'.event = i /\ reporter'.seen = rows[i].state
  BY <1>1 DEF Reporters
<1>3. InReport'
  BY <1>1, <1>2 DEF InReport
<1>4. \A j \in Incidents : ReportRight(j)'
  BY <1>1 DEF M!PickReport, MirzaInv, ReportRight
<1> QED BY <1>1, <1>2, <1>3, <1>4, UnchangedRows, ReporterStays DEF M!PickReport, M!OnlyReporter, MirzaInv, MirzaTypeOK

LEMMA ClaimsReport ==
  ASSUME MirzaInv, M!ClaimReport
  PROVE  MirzaInv'
<1> DEFINE i == reporter.event
<1>1. i \in Incidents /\ reporter \in Reporters /\ reporter.seen \in M!Terminal /\ rows[i].state = reporter.seen
  BY DEF M!ClaimReport, MirzaInv, MirzaTypeOK, InReport
<1>2. CASE rows' = rows /\ reporter' = M!IdleReporter
  BY <1>2, UnchangedRows, ReporterEnds DEF M!ClaimReport, M!OnlyReporter
<1>3. CASE rows[i].report = "pending" /\ rows' = [rows EXCEPT ![i].report = "sending"]
  <2>1. ReporterRows /\ (rows' = rows \/ rows'[i].report = "sending")
        /\ \A j \in Incidents : rows'[j].report = "pending" => rows[j].report = "pending"
    <3>1. "sending" \in Reports \ {"pending"}
      BY DEF Reports
    <3>2. rows' = rows \/ rows' = [rows EXCEPT ![i].report = "sending"]
      BY <1>3
    <3> QED BY <1>1, <3>1, <3>2, ReportWritten
  <2>2. CASE reporter' = M!IdleReporter
    BY <2>1, <2>2, ReporterEnds DEF M!ClaimReport, M!OnlyReporter
  <2>3. CASE reporter' = [reporter EXCEPT !.pc = "append"]
    <3>1. reporter' \in Reporters /\ reporter'.pc = "append" /\ reporter'.event = i /\ reporter'.seen = reporter.seen
      BY <1>1, <2>3 DEF Reporters
    <3>2. rows'[i].report = "sending" /\ posted[i] = 0
      <4>1. posted[i] = 0
        BY <1>1, <1>3 DEF MirzaInv, ReportRight
      <4>2. rows'[i].report = "sending"
        BY <1>1, <1>3 DEF MirzaInv, MirzaTypeOK, NoticeRows
      <4> QED BY <4>1, <4>2
    <3>3. InReport'
      BY <1>1, <2>1, <3>1, <3>2 DEF InReport, ReporterRows, M!ClaimReport
    <3>4. \A j \in Incidents : ReportRight(j)'
      BY <2>1 DEF M!ClaimReport, MirzaInv, ReportRight, ReporterRows
    <3> QED BY <1>1, <2>1, <3>1, <3>3, <3>4, ReporterStays DEF M!ClaimReport, M!OnlyReporter, MirzaInv, MirzaTypeOK
  <2> QED BY <1>3, <2>2, <2>3 DEF M!ClaimReport, M!EndReport
<1> QED BY <1>2, <1>3 DEF M!ClaimReport, M!EndReport

\* The report says what the row says for good.
LEMMA AppendsReport ==
  ASSUME MirzaInv, M!AppendReport
  PROVE  MirzaInv'
<1> DEFINE i == reporter.event
<1>1. PICK to \in {"delivered", "failed", "uncertain"}, got \in BOOLEAN : M!Append(to, got)
  BY DEF M!AppendReport
<1>2. /\ i \in Incidents /\ reporter \in Reporters /\ reporter.seen \in M!Terminal /\ rows[i].state = reporter.seen
      /\ rows[i].report = "sending" /\ posted[i] = 0
  BY DEF M!AppendReport, MirzaInv, MirzaTypeOK, InReport
<1>3. reporter' = [reporter EXCEPT !.pc = "finish", !.to = to]
  BY <1>1 DEF M!Append
<1>4. reporter' \in Reporters /\ reporter'.pc = "finish" /\ reporter'.event = i /\ reporter'.to # M!None
  BY <1>2, <1>3 DEF Reporters, M!None
<1>5. posted' \in [Incidents -> Nat] /\ posted'[i] <= 1 /\ \A j \in Incidents \ {i} : posted'[j] = posted[j]
  BY <1>1, <1>2 DEF M!Append, MirzaInv, MirzaTypeOK
<1>6. /\ told' \in [Incidents -> {M!None} \cup M!Terminal] /\ told'[i] \in {told[i], reporter.seen}
      /\ \A j \in Incidents \ {i} : told'[j] = told[j]
  BY <1>1, <1>2 DEF M!Append, MirzaInv, MirzaTypeOK
<1>7. rows' = rows
  BY DEF M!AppendReport
<1>8. ASSUME NEW j \in Incidents PROVE ReportRight(j)'
  BY <1>2, <1>5, <1>6, <1>7 DEF MirzaInv, ReportRight
<1>9. InReport'
  BY <1>4 DEF InReport
<1> QED BY <1>2, <1>4, <1>5, <1>6, <1>7, <1>8, <1>9, UnchangedRows, ReporterStays DEF M!AppendReport, M!OnlyReporter

LEMMA FinishesReport ==
  ASSUME MirzaInv, M!FinishReport
  PROVE  MirzaInv'
<1> DEFINE i == reporter.event
<1>1. i \in Incidents /\ reporter.to \in {"delivered", "failed", "uncertain"}
  BY DEF M!FinishReport, MirzaInv, MirzaTypeOK, Reporters, InReport
<1>2. PICK s \in {reporter.to, "uncertain"} : rows' = rows \/ rows' = [rows EXCEPT ![i].report = s]
  BY DEF M!FinishReport, M!Report
<1>3. s \in Reports \ {"pending"}
  BY <1>1, <1>2 DEF Reports
<1>4. ReporterRows /\ \A j \in Incidents : rows'[j].report = "pending" => rows[j].report = "pending"
  BY <1>1, <1>2, <1>3, ReportWritten
<1> QED BY <1>4, ReporterEnds DEF M!FinishReport, M!OnlyReporter, M!EndReport

LEMMA ReporterSteps ==
  ASSUME MirzaInv, M!ReporterStep
  PROVE  MirzaInv'
BY RecoversReports, PicksReport, ClaimsReport, AppendsReport, FinishesReport DEF M!ReporterStep
-----------------------------------------------------------------------------
(* Crashes.                                                                 *)

LEMMA Restarted ==
  /\ [M!IdleWorker EXCEPT !.pc = "start"] \in Workers /\ [M!IdleWorker EXCEPT !.pc = "start"].pc = "start"
  /\ [M!IdleReporter EXCEPT !.pc = "start"] \in Reporters /\ [M!IdleReporter EXCEPT !.pc = "start"].pc = "start"
BY DEF M!IdleWorker, M!IdleReporter, Workers, Reporters, RowStates

LEMMA RestartStep ==
  ASSUME MirzaInv, M!Restart
  PROVE  MirzaInv'
<1>1. /\ worker' \in Workers /\ worker'.pc = "start" /\ reporter' \in Reporters /\ reporter'.pc = "start"
      /\ UNCHANGED <<routes, context, topic, posted, told, received>>
  BY Restarted DEF M!Restart
<1>2. /\ rows' \in [Incidents -> NoticeRows]
      /\ \A i \in Incidents :
           /\ rows'[i].report = rows[i].report
           /\ rows'[i].state = rows[i].state \/ (rows[i].state = "sending" /\ rows'[i].state = "uncertain")
           /\ rows'[i].route = rows[i].route
  <2>1. CASE rows' = rows
    BY <2>1 DEF MirzaInv, MirzaTypeOK
  <2>2. CASE /\ worker.pc \in {"http", "finish"}
             /\ rows' = M!Written(worker.event, "sending", [rows[worker.event] EXCEPT !.state = "uncertain"])
    <3> DEFINE row == [rows[worker.event] EXCEPT !.state = "uncertain"]
    <3>1. worker.event \in Incidents /\ "uncertain" \in RowStates
      BY <2>2 DEF MirzaInv, MirzaTypeOK, RowStates, M!Terminal
    <3>2. row \in NoticeRows /\ row.report = rows[worker.event].report /\ row.state = "uncertain"
          /\ row.route = rows[worker.event].route
      BY <3>1, StateSet DEF MirzaInv
    <3>3. rows' = M!Written(worker.event, "sending", row)
      BY <2>2
    <3> HIDE DEF row
    <3> QED BY <3>1, <3>2, <3>3, WrittenRow DEF MirzaInv
  <2> QED BY <2>1, <2>2 DEF M!Restart
<1>3. ASSUME NEW i \in Incidents PROVE RowRight(i)' /\ RoutePinned(i)' /\ ReportRight(i)'
  <2>1. RowRight(i) /\ RoutePinned(i) /\ ReportRight(i) /\ told[i] \in {M!None} \cup M!Terminal
    BY DEF MirzaInv, MirzaTypeOK
  <2> QED BY <1>1, <1>2, <2>1 DEF RowRight, RoutePinned, ReportRight, M!Terminal
<1>4. InFlight' /\ InReport' /\ ClaimRight'
  BY <1>1 DEF InFlight, InReport, ClaimRight
<1>5. MirzaTypeOK'
  BY <1>1, <1>2 DEF MirzaInv, MirzaTypeOK
<1> QED BY <1>3, <1>4, <1>5 DEF MirzaInv

\* A request that was on its way reaches the customer, and its row stays claimed.
LEMMA LostStep ==
  ASSUME MirzaInv, M!LostWithProcess
  PROVE  MirzaInv'
<1> DEFINE i == worker.event
<1>1. /\ worker' \in Workers /\ worker'.pc = "start" /\ reporter' \in Reporters /\ reporter'.pc = "start"
      /\ UNCHANGED <<routes, context, rows, topic, posted, told>>
  BY Restarted DEF M!LostWithProcess
<1>2. i \in Incidents /\ rows[i].state = "sending" /\ received[i] = 0
  BY DEF M!LostWithProcess, MirzaInv, MirzaTypeOK, InFlight
<1>3. received' \in [Incidents -> Nat] /\ received'[i] = 1 /\ \A j \in Incidents \ {i} : received'[j] = received[j]
  BY <1>2 DEF M!LostWithProcess, MirzaInv, MirzaTypeOK
<1>4. ASSUME NEW j \in Incidents PROVE RowRight(j)' /\ RoutePinned(j)' /\ ReportRight(j)'
  BY <1>1, <1>2, <1>3 DEF MirzaInv, RowRight, RoutePinned, ReportRight
<1>5. InFlight' /\ InReport' /\ ClaimRight'
  BY <1>1 DEF InFlight, InReport, ClaimRight
<1>6. MirzaTypeOK'
  BY <1>1, <1>3 DEF MirzaInv, MirzaTypeOK
<1> QED BY <1>4, <1>5, <1>6 DEF MirzaInv

LEMMA MirzaNext == MirzaInv /\ [M!Next]_(M!vars) => MirzaInv'
<1> SUFFICES ASSUME MirzaInv, [M!Next]_(M!vars) PROVE MirzaInv'
  OBVIOUS
<1>1. CASE UNCHANGED M!vars
  BY <1>1 DEF M!vars, MirzaInv, MirzaTypeOK, InFlight, InReport, ClaimRight, RowRight, ReportRight, RoutePinned, M!HasKey, M!Exists
<1> QED BY <1>1, MenusStep, FactStep, WorkerSteps, ReporterSteps, RestartStep, LostStep DEF M!Next

\* The customer gets the message at most once, and the row and the forum report say what
\* happened (MirzaNotificationService.run_once, claim_send, _recover), for any incidents,
\* bots and faults.
THEOREM CustomerReachedOnce == M!Spec => []CustomerOnce
<1>1. MirzaInv => M!CustomerOnce
  <2> SUFFICES ASSUME MirzaInv, NEW i \in Incidents, NEW s \in {rows[i].state, told[i]}
               PROVE  /\ received[i] <= 1 /\ posted[i] <= 1
                      /\ s = "delivered" => received[i] = 1
                      /\ s \in {"failed", "skipped"} => received[i] = 0
    BY DEF M!CustomerOnce
  <2>1. RowRight(i) /\ ReportRight(i) /\ told[i] \in {M!None} \cup M!Terminal
    BY DEF MirzaInv, MirzaTypeOK
  <2> QED BY <2>1 DEF RowRight, ReportRight, M!None
<1> QED BY <1>1, MirzaInit, MirzaNext, PTL DEF M!Spec, CustomerOnce

\* Nobody but the claim makes a row "sending".
LEMMA OnlyClaims ==
  ASSUME MirzaInv, M!Next, NEW i \in Incidents, rows[i].state # "sending", rows'[i].state = "sending"
  PROVE  M!Claim /\ worker.event = i /\ rows[i].state = worker.seen
<1>1. rows \in [Incidents -> NoticeRows] /\ rows' # rows
  BY DEF MirzaInv, MirzaTypeOK
<1>2. ASSUME NEW j \in Incidents, NEW expected, NEW row \in NoticeRows, row.state # "sending", rows' = M!Written(j, expected, row)
      PROVE  FALSE
  BY <1>2, WrittenRow DEF MirzaInv
<1>3. ASSUME NEW j \in Incidents, NEW s \in RowStates \ {"sending"}, NEW expected,
             rows' = M!Written(j, expected, [rows[j] EXCEPT !.state = s])
      PROVE  FALSE
  BY <1>2, <1>3, StateSet DEF MirzaInv
<1>4. ~M!Menus
  <2>1. ASSUME NEW r, NEW rev, rows' = M!Cancelled(r, rev) PROVE FALSE
    <3>1. rows'[i] = [rows[i] EXCEPT !.state = "skipped"]
      BY <2>1 DEF M!Cancelled
    <3> QED BY <1>1, <3>1 DEF NoticeRows
  <2>2. ASSUME NEW r, M!delete_route(r) PROVE FALSE
    <3>1. rows'[i] = [rows[i] EXCEPT !.state = "skipped"]
      BY <2>2 DEF M!delete_route
    <3> QED BY <1>1, <3>1 DEF NoticeRows
  <2> QED BY <1>1, <2>1, <2>2 DEF M!Menus, M!create_route, M!update_route, M!_edit_message, M!_select_admin, M!SetTopic, M!Edit
<1>5. ASSUME NEW j \in Incidents, M!capture_rules(j) \/ M!ensure_for_fact(j) PROVE FALSE
  <2>1. rows' = [rows EXCEPT ![j].state = "pending"]
    BY <1>1, <1>5 DEF M!capture_rules, M!ensure_for_fact
  <2> QED BY <1>1, <2>1 DEF NoticeRows
<1>6. ~M!ReporterStep
  <2>1. ~M!RecoverReports
    <3>1. M!RecoverReports => rows'[i] = [rows[i] EXCEPT !.report = "uncertain"] \/ rows'[i] = rows[i]
      BY DEF M!RecoverReports
    <3> QED BY <1>1, <3>1 DEF NoticeRows
  <2>2. ASSUME NEW j, NEW s, rows' = [rows EXCEPT ![j].report = s] PROVE FALSE
    <3>1. rows'[i] = [rows[i] EXCEPT !.report = s] \/ rows'[i] = rows[i]
      BY <1>1, <2>2
    <3> QED BY <1>1, <3>1 DEF NoticeRows
  <2> QED BY <1>1, <2>1, <2>2 DEF M!ReporterStep, M!ClaimReport, M!AppendReport, M!FinishReport, M!PickReport, M!Report
<1>7. ~M!Restart /\ ~M!LostWithProcess
  <2>1. ASSUME worker.pc \in {"http", "finish"}, rows' = M!Written(worker.event, "sending", [rows[worker.event] EXCEPT !.state = "uncertain"])
        PROVE  FALSE
    <3>1. worker.event \in Incidents /\ "uncertain" \in RowStates \ {"sending"}
      BY <2>1 DEF MirzaInv, MirzaTypeOK, RowStates, M!Terminal
    <3> QED BY <1>3, <2>1, <3>1
  <2> QED BY <1>1, <2>1 DEF M!Restart, M!LostWithProcess
<1>8. ~M!_recover
  <2>1. M!_recover => rows'[i] = rows[i]
    BY DEF M!_recover
  <2> QED BY <2>1
<1>9. ~M!NoDetails
  <2> SUFFICES ASSUME M!NoDetails PROVE FALSE
    OBVIOUS
  <2> DEFINE j == worker.event
             more == [rows[j] EXCEPT !.resolves = @ + 1]
             s == IF rows[j].resolves + 1 >= M!MaxTries THEN "failed" ELSE "pending"
             row == [rows[j] EXCEPT !.resolves = @ + 1, !.state = s]
  <2>1. j \in Incidents /\ rows[j] \in NoticeRows
    BY DEF M!NoDetails, MirzaInv, MirzaTypeOK
  <2>2. more \in NoticeRows
    BY <2>1 DEF NoticeRows
  <2>3. s \in RowStates /\ s # "sending"
    BY DEF RowStates, M!Terminal, M!Unsent
  <2>4. row = [more EXCEPT !.state = s]
    BY <2>1 DEF NoticeRows
  <2>5. rows' = M!Written(j, "pending", row)
    BY DEF M!NoDetails
  <2> HIDE DEF more, s
  <2>6. row \in NoticeRows /\ row.state # "sending"
    BY <2>2, <2>3, <2>4 DEF NoticeRows
  <2> HIDE DEF row
  <2> QED BY <1>2, <2>1, <2>5, <2>6
<1>10. ASSUME NEW owner, M!Details(owner) PROVE FALSE
  <2>1. worker.event \in Incidents /\ "skipped" \in RowStates \ {"sending"}
    BY <1>10 DEF M!Details, MirzaInv, MirzaTypeOK, RowStates, M!Terminal
  <2> QED BY <1>1, <1>3, <1>10, <2>1 DEF M!Details
<1>11. ~M!Pin
  <2> SUFFICES ASSUME M!Pin PROVE FALSE
    OBVIOUS
  <2>1. PICK c \in worker.cand :
          rows' = M!Written(worker.event, "pending", [rows[worker.event] EXCEPT !.state = worker.to, !.route = c.route, !.rev = c.rev])
    BY <1>1 DEF M!Pin
  <2>2. worker.event \in Incidents /\ worker.to # "sending"
    BY DEF M!Pin, MirzaInv, MirzaTypeOK, ClaimRight
  <2>3. rows[worker.event] \in NoticeRows
    BY <2>2 DEF MirzaInv, MirzaTypeOK
  <2>4. [rows[worker.event] EXCEPT !.state = worker.to, !.route = c.route, !.rev = c.rev].state = worker.to
    BY <2>3 DEF NoticeRows
  <2> QED BY <2>1, <2>2, <2>4 DEF M!Written
<1>12. ~M!Drop
  <2>1. M!Drop => worker.event \in Incidents /\ "skipped" \in RowStates \ {"sending"}
    BY DEF M!Drop, MirzaInv, MirzaTypeOK, RowStates, M!Terminal
  <2> QED BY <1>3, <2>1 DEF M!Drop
<1>13. ~M!_finish
  <2> SUFFICES ASSUME M!_finish PROVE FALSE
    OBVIOUS
  <2>1. worker.event \in Incidents /\ rows[worker.event].state = "sending"
    BY DEF M!_finish, MirzaInv, MirzaTypeOK, InFlight
  <2>2. rows'[i] = rows[i]
    BY <2>1 DEF M!_finish, M!Written
  <2> QED BY <2>2
<1>14. M!Claim
  BY <1>1, <1>4, <1>5, <1>6, <1>7, <1>8, <1>9, <1>10, <1>11, <1>12, <1>13
    DEF M!Next, M!WorkerStep, M!ReadRoute, M!ReadRow, M!read_secret, M!send_message, M!Pick
<1>15. rows' = M!Written(worker.event, worker.seen, [rows[worker.event] EXCEPT !.state = "sending", !.tries = @ + 1])
  BY <1>1, <1>14 DEF M!Claim
<1>16. i = worker.event /\ rows[i].state = worker.seen
  BY <1>1, <1>15 DEF M!Written
<1> QED BY <1>14, <1>16

\* A row is claimed under the configuration its bot has at that moment.
LEMMA ClaimedRight ==
  ASSUME MirzaInv, M!Next, NEW i \in Incidents, rows[i].state # "sending", rows'[i].state = "sending"
  PROVE  \E r \in Routes : rows[i].route = r /\ routes[r].on /\ routes[r].rev = rows[i].rev
<1>1. M!Claim /\ worker.event = i /\ rows[i].state = worker.seen
  BY OnlyClaims
<1>2. M!HasKey(rows[i]) /\ rows[i].route \in Routes
  BY <1>1 DEF M!Claim, MirzaInv, ClaimRight, RoutePinned
<1> QED BY <1>2 DEF M!HasKey

\* A request goes out only for the bot as it is: nothing is sent under a revision that the
\* operator has replaced, switched off or deleted before the claim (read_secret, claim_send,
\* cancel_unsent_for_route).
THEOREM ClaimedAsConfigured == M!Spec => SentAsConfigured
<1> DEFINE A == \A i \in Incidents : rows[i].state # "sending" /\ rows'[i].state = "sending" =>
                  \E r \in Routes : rows[i].route = r /\ routes[r].on /\ routes[r].rev = rows[i].rev
<1>1. MirzaInv /\ [M!Next]_(M!vars) => [A]_(M!vars)
  BY ClaimedRight
<1>2. M!Spec => [][A]_(M!vars)
  BY <1>1, MirzaInit, MirzaNext, PTL DEF M!Spec
<1> QED BY <1>2 DEF M!SentAsConfigured, SentAsConfigured

------------------------------------------------------------------------------
(* Backups.                                                                 *)

IsContents(c) == DOMAIN c \subseteq Stores \cup {K!Db} /\ c \in [DOMAIN c -> Int]
PCs == {"idle", "prepare", "copy", "replace", "rollback", "clean", "ended", "crashed"}
Outcomes == {"none", "refused", "imported", "rolled back", "incomplete", "applied", "killed"}

\* The archive at hand holds the database unless it is a configuration, and every store if it is a v2.
ArchiveRight ==
  /\ archive = [kind |-> archive.kind, holds |-> archive.holds]
  /\ archive.kind \in {"none", "v2", "v1", "legacy", "config", "torn"}
  /\ IsContents(archive.holds)
  /\ archive.kind \in {"v2", "v1", "legacy"} => K!Db \in DOMAIN archive.holds
  /\ archive.kind = "v2" => Stores \subseteq DOMAIN archive.holds

WorkTyped ==
  /\ task = [pc |-> task.pc, order |-> task.order, plan |-> task.plan, ready |-> task.ready, kept |-> task.kept,
             applied |-> task.applied, retained |-> task.retained, outcome |-> task.outcome]
  /\ task.pc \in PCs /\ task.order \in Seq(K!Files) /\ IsContents(task.plan) /\ task.ready \subseteq K!Files
  /\ task.kept \in [K!Files -> Int] /\ task.applied \in Nat /\ task.retained \subseteq K!Files
  /\ task.outcome \in Outcomes

\* The state is well typed.
BackupTypeOK ==
  /\ running \in BOOLEAN /\ live \in [K!Files -> Int] /\ before \in [K!Files -> Int] /\ version \in Nat
  /\ IsContents(making) /\ (K!Db \in DOMAIN making \/ making = <<>>)
  /\ ArchiveRight /\ WorkTyped

Replaced(n) == {task.order[i] : i \in 1..n}
Content(f) == IF f \in DOMAIN task.plan THEN task.plan[f] ELSE K!Absent
Restoring == task.pc \in {"prepare", "copy", "replace", "rollback", "clean"}
Untouched(f) == live[f] = before[f]

\* Every file of the archive is replaced once, and the database's log is removed.
OrderRight ==
  Restoring =>
    task.applied <= Len(task.order) /\ Replaced(Len(task.order)) = DOMAIN task.plan \cup {K!Wal}

\* What the restore found is in its place, or beside it.
Found == \A f \in K!Files : before[f] # K!Absent => before[f] \in {live[f], task.kept[f]}
CopiesRight == \A f \in Replaced(Len(task.order)) : task.kept[f] = before[f]
Retained == \A f \in task.retained : task.kept[f] = before[f]

Preparing ==
  task.pc \in {"prepare", "copy"} =>
    live = before /\ task.applied = 0 /\ task.retained = {} /\ task.outcome = "none"

Ready ==
  task.pc \in {"copy", "replace"} => task.ready = {f \in DOMAIN task.plan : task.plan[f] # K!Absent}

Replacing ==
  task.pc = "replace" =>
    /\ CopiesRight /\ task.retained = {} /\ task.outcome = "none"
    /\ \A f \in Replaced(task.applied) : live[f] = Content(f)
    /\ \A f \in K!Files \ Replaced(task.applied) : Untouched(f)

RollingBack ==
  task.pc = "rollback" =>
    /\ task.applied > 0 => CopiesRight
    /\ Retained /\ task.outcome \in {"rolled back", "incomplete"}
    /\ \A f \in K!Files \ Replaced(task.applied) :
         Untouched(f) \/ (task.outcome = "incomplete" /\ (f \in task.retained \/ before[f] = K!Absent))

Cleaning ==
  task.pc = "clean" =>
    /\ Retained /\ task.outcome \in {"applied", "rolled back", "incomplete"}
    /\ task.outcome = "applied" =>
         /\ CopiesRight
         /\ \A f \in DOMAIN task.plan \cup {K!Wal} : live[f] = Content(f)
         /\ \A f \in K!Files \ (DOMAIN task.plan \cup {K!Wal}) : Untouched(f)
    /\ task.outcome = "rolled back" => live = before
    /\ task.outcome = "incomplete" => \A f \in K!Files : Untouched(f) \/ f \in task.retained \/ before[f] = K!Absent

WorkInv ==
  /\ OrderRight /\ Preparing /\ Ready /\ Replacing /\ RollingBack /\ Cleaning
  /\ Restoring => K!Db \in DOMAIN task.plan
  /\ Restoring \/ task.pc = "crashed" => Found
  /\ K!RestoreSafe

BackupInv == BackupTypeOK /\ (running => task.pc = "idle") /\ WorkInv

Fields ==
  <<task.pc, task.order, task.plan, task.ready, task.kept, task.applied, task.retained, task.outcome>>

LEMMA FilesApart == K!Db \notin Stores /\ K!Wal \notin Stores /\ K!Db # K!Wal /\ Outbox \in Stores
  BY StoresApart DEF K!Db, K!Wal

LEMMA BackupInitially == K!Init => BackupInv
<1> SUFFICES ASSUME K!Init PROVE BackupInv
  OBVIOUS
<1>1. task.pc = "idle" /\ task.outcome = "none" /\ task.plan = <<>> /\ task.order = <<>>
      /\ task.ready = {} /\ task.retained = {} /\ task.applied = 0 /\ task.kept = [f \in K!Files |-> K!Absent]
  BY DEF K!Init, K!Idle, K!Function
<1>2. WorkTyped
  <2>1. task = [pc |-> task.pc, order |-> task.order, plan |-> task.plan, ready |-> task.ready, kept |-> task.kept,
             applied |-> task.applied, retained |-> task.retained, outcome |-> task.outcome]
    BY DEF K!Init, K!Idle
  <2>2. IsContents(task.plan)
    BY <1>1 DEF IsContents
  <2>3. task.kept \in [K!Files -> Int]
    BY <1>1 DEF K!Absent
  <2>4. task.order \in Seq(K!Files)
    BY <1>1
  <2> QED
    BY <1>1, <2>1, <2>2, <2>3, <2>4 DEF WorkTyped, PCs, Outcomes
<1>3. ArchiveRight
  BY DEF K!Init, ArchiveRight, K!NoArchive, IsContents
<1>4. live \in [K!Files -> Int] /\ before = live
  BY DEF K!Init, K!Absent
<1>5. BackupTypeOK
  BY <1>2, <1>3, <1>4 DEF BackupTypeOK, K!Init, IsContents
<1>6. WorkInv
  BY <1>1 DEF WorkInv, OrderRight, Preparing, Ready, Replacing, RollingBack, Cleaning, Restoring,
     K!RestoreSafe, K!RestoreExact, K!OriginalsKept
<1> QED
  BY <1>1, <1>5, <1>6 DEF BackupInv

\* What says nothing of a restore at work is kept while nothing touches it.
LEMMA RestoreUntouched ==
  ASSUME WorkInv, UNCHANGED <<task, before>>, UNCHANGED live \/ task.pc = "idle"
  PROVE WorkInv'
<1>1. CASE UNCHANGED live
  <2>1. OrderRight' /\ Preparing' /\ Ready'
    BY <1>1 DEF WorkInv, OrderRight, Preparing, Ready, Restoring, Replaced
  <2>2. Replacing'
    BY <1>1 DEF WorkInv, Replacing, CopiesRight, Replaced, Content, Untouched
  <2>5. RollingBack'
    BY <1>1 DEF WorkInv, RollingBack, CopiesRight, Retained, Replaced, Untouched
  <2>6. Cleaning'
    BY <1>1 DEF WorkInv, Cleaning, CopiesRight, Retained, Replaced, Content, Untouched
  <2>3. K!RestoreExact'
    BY <1>1 DEF WorkInv, K!RestoreSafe, K!RestoreExact, K!DatabaseOf
  <2>4. K!OriginalsKept'
    BY <1>1 DEF WorkInv, K!RestoreSafe, K!OriginalsKept
  <2> QED
    BY <1>1, <2>1, <2>2, <2>3, <2>4, <2>5, <2>6 DEF WorkInv, K!RestoreSafe, Restoring, Found
<1>2. CASE task.pc = "idle"
  <2>1. task'.pc = "idle"
    BY <1>2
  <2> QED
    BY <2>1 DEF WorkInv, OrderRight, Preparing, Ready, Replacing, RollingBack, Cleaning, Restoring,
       K!RestoreSafe, K!RestoreExact, K!OriginalsKept
<1> QED
  BY <1>1, <1>2

\* A restore that is not under way has nothing to keep but what RestoreSafe says.
LEMMA AtRest ==
  ASSUME task'.pc \in {"idle", "ended", "crashed"}, K!RestoreSafe', task'.pc = "crashed" => Found'
  PROVE WorkInv'
BY DEF WorkInv, OrderRight, Preparing, Ready, Replacing, RollingBack, Cleaning, Restoring

LEMMA ServiceKeeps ==
  ASSUME BackupInv, NEW f \in Stores \cup {K!Db}, K!Write(f) \/ K!Checkpoint
  PROVE BackupInv'
<1>1. task.pc = "idle" /\ UNCHANGED <<running, making, archive, task, before>>
  BY DEF BackupInv, K!Write, K!Checkpoint
<1>2. WorkInv'
  BY <1>1, RestoreUntouched DEF BackupInv
<1>3. live' \in [K!Files -> Int] /\ version' \in Nat
  BY DEF BackupInv, BackupTypeOK, K!Write, K!Checkpoint, K!Files, K!Absent
<1>4. BackupTypeOK'
  BY <1>1, <1>3 DEF BackupInv, BackupTypeOK, ArchiveRight, WorkTyped, IsContents
<1> QED
  BY <1>1, <1>2, <1>4 DEF BackupInv

LEMMA MakingKeeps ==
  ASSUME BackupInv, K!Stop \/ K!Snapshot \/ (\E s \in Stores : K!Capture(s))
  PROVE BackupInv'
<1>1. UNCHANGED <<live, version, archive, task, before>>
  BY DEF K!Stop, K!Snapshot, K!Capture
<1>2. WorkInv'
  BY <1>1, RestoreUntouched DEF BackupInv
<1>3. IsContents(making') /\ (K!Db \in DOMAIN making' \/ making' = <<>>)
  <2>1. CASE K!Stop
    BY <2>1 DEF K!Stop, IsContents
  <2>2. CASE K!Snapshot
    <3>1. K!DatabaseOf(live) \in Int
      BY DEF K!DatabaseOf, BackupInv, BackupTypeOK, K!Files
    <3>2. making' = [f \in {K!Db} |-> K!DatabaseOf(live)]
      BY <2>2 DEF K!Snapshot
    <3> QED
      BY <3>1, <3>2 DEF IsContents
  <2>3. ASSUME NEW s \in Stores, K!Capture(s) PROVE IsContents(making') /\ K!Db \in DOMAIN making'
    <3>1. making' = [f \in DOMAIN making \cup {s} |-> IF f = s THEN live[s] ELSE making[f]]
      BY <2>3 DEF K!Capture
    <3>2. live[s] \in Int /\ K!Db \in DOMAIN making /\ IsContents(making)
      BY <2>3 DEF K!Capture, BackupInv, BackupTypeOK, K!Files
    <3> QED
      BY <3>1, <3>2 DEF IsContents
  <2> QED
    BY <2>1, <2>2, <2>3
<1>4. running' \in BOOLEAN /\ (running' => running)
  <2>1. running' = running \/ running' = FALSE
    <3>1. CASE K!Stop
      BY <3>1 DEF K!Stop
    <3>2. CASE K!Snapshot
      BY <3>2 DEF K!Snapshot
    <3>3. CASE \E s \in Stores : K!Capture(s)
      BY <3>3 DEF K!Capture
    <3> QED
      BY <3>1, <3>2, <3>3
  <2>2. running \in BOOLEAN
    BY DEF BackupInv, BackupTypeOK
  <2>3. CASE running' = running
    BY <2>2, <2>3
  <2>4. CASE running' = FALSE
    BY <2>4
  <2> QED
    BY <2>1, <2>3, <2>4
<1>5. BackupTypeOK'
  BY <1>1, <1>3, <1>4 DEF BackupInv, BackupTypeOK, ArchiveRight, WorkTyped, IsContents
<1> QED
  BY <1>1, <1>2, <1>4, <1>5 DEF BackupInv

LEMMA ArchiveKeeps == ASSUME BackupInv, K!Publish \/ K!Upload PROVE BackupInv'
<1>1. UNCHANGED <<running, live, version, task, before>>
  BY DEF K!Publish, K!Upload
<1>2. WorkInv'
  BY <1>1, RestoreUntouched DEF BackupInv
<1>t. BackupTypeOK
  BY DEF BackupInv
<1>3. ArchiveRight' /\ (making' = <<>> \/ making' = making)
  <2>1. CASE K!Publish
    <3>1. CASE archive' = archive
      BY <2>1, <3>1, <1>t DEF K!Publish, ArchiveRight, BackupTypeOK
    <3>2. CASE archive' = [kind |-> "v2", holds |-> making]
      <4>1. K!Db \in DOMAIN making /\ IsContents(making) /\ Stores \subseteq DOMAIN making
        BY <2>1, <1>t DEF K!Publish, BackupTypeOK
      <4> QED
        BY <2>1, <3>2, <4>1 DEF ArchiveRight, K!Publish
    <3> QED
      BY <2>1, <3>1, <3>2 DEF K!Publish
  <2>2. CASE K!Upload
    <3>1. IsContents(archive.holds) /\ K!Db \in DOMAIN archive.holds /\ Stores \subseteq DOMAIN archive.holds
      BY <2>2, <1>t DEF K!Upload, BackupTypeOK, ArchiveRight
    <3>2. CASE archive' = [kind |-> "v1", holds |-> [f \in (DOMAIN archive.holds) \ {Outbox} |-> archive.holds[f]]]
      <4>1. archive'.kind = "v1" /\ archive'.holds = [f \in (DOMAIN archive.holds) \ {Outbox} |-> archive.holds[f]]
        BY <3>2
      <4>2. IsContents(archive'.holds) /\ K!Db \in DOMAIN archive'.holds
        BY <3>1, <4>1, FilesApart DEF IsContents
      <4> QED
        BY <2>2, <3>2, <4>1, <4>2 DEF ArchiveRight, K!Upload
    <3>3. ASSUME NEW S \in SUBSET Stores,
                 archive' = [kind |-> "legacy", holds |-> [f \in {K!Db} \cup S |-> archive.holds[f]]]
          PROVE ArchiveRight'
      <4>1. archive'.kind = "legacy" /\ archive'.holds = [f \in {K!Db} \cup S |-> archive.holds[f]]
        BY <3>3
      <4>2. IsContents(archive'.holds) /\ K!Db \in DOMAIN archive'.holds
        BY <3>1, <4>1, <3>3 DEF IsContents
      <4> QED
        BY <3>3, <4>1, <4>2 DEF ArchiveRight
    <3>4. CASE archive' = [kind |-> "config", holds |-> <<>>]
      <4>1. archive'.kind = "config" /\ archive'.holds = <<>>
        BY <3>4
      <4> QED
        BY <2>2, <3>4, <4>1 DEF ArchiveRight, IsContents, K!Upload
    <3>5. CASE archive' = [archive EXCEPT !.kind = "torn"]
      <4>0. archive = [kind |-> archive.kind, holds |-> archive.holds]
        BY <1>t DEF BackupTypeOK, ArchiveRight
      <4>1. archive'.kind = "torn" /\ archive'.holds = archive.holds
            /\ archive' = [kind |-> "torn", holds |-> archive.holds]
        BY <4>0, <3>5
      <4> QED
        BY <2>2, <3>1, <4>1 DEF ArchiveRight, IsContents, K!Upload
    <3>6. making' = making
      BY <2>2 DEF K!Upload
    <3>7. \/ archive' = [kind |-> "v1", holds |-> [f \in (DOMAIN archive.holds) \ {Outbox} |-> archive.holds[f]]]
          \/ \E S \in SUBSET Stores : archive' = [kind |-> "legacy", holds |-> [f \in {K!Db} \cup S |-> archive.holds[f]]]
          \/ archive' = [kind |-> "config", holds |-> <<>>]
          \/ archive' = [archive EXCEPT !.kind = "torn"]
      <4>1. ASSUME NEW S \in SUBSET {s \in Stores : archive.holds[s] # K!Absent} PROVE S \in SUBSET Stores
        OBVIOUS
      <4> QED
        BY <2>2, <4>1 DEF K!Upload
    <3> QED
      BY <3>2, <3>3, <3>4, <3>5, <3>6, <3>7
  <2> QED
    BY <2>1, <2>2
<1>5. BackupTypeOK'
  <2>1. WorkTyped'
    BY <1>1, <1>t DEF BackupTypeOK, WorkTyped, IsContents
  <2>2. IsContents(making') /\ (K!Db \in DOMAIN making' \/ making' = <<>>)
    <3>1. CASE making' = <<>>
      BY <3>1 DEF IsContents
    <3>2. CASE making' = making
      BY <3>2, <1>t DEF BackupTypeOK, IsContents
    <3> QED
      BY <1>3, <3>1, <3>2
  <2> QED
    BY <1>1, <1>3, <1>t, <2>1, <2>2 DEF BackupTypeOK
<1> QED
  BY <1>1, <1>2, <1>5 DEF BackupInv
\* A restore record that is like none but for where it is and how it ended.
LEMMA OnlyEnded ==
  ASSUME NEW p \in PCs, NEW o \in Outcomes,
         task' = [K!Idle EXCEPT !.pc = p, !.outcome = o] \/ (task' = K!Idle /\ p = "idle" /\ o = "none")
  PROVE WorkTyped' /\ task'.pc = p /\ task'.outcome = o
<1>1. task' = [pc |-> p, order |-> <<>>, plan |-> <<>>, ready |-> {}, kept |-> [f \in K!Files |-> K!Absent],
               applied |-> 0, retained |-> {}, outcome |-> o]
  BY DEF K!Idle, K!Function
<1>2. IsContents(<<>>)
  BY DEF IsContents
<1>3. [f \in K!Files |-> K!Absent] \in [K!Files -> Int]
  BY DEF K!Absent
<1>4. task'.pc = p /\ task'.order = <<>> /\ task'.plan = <<>> /\ task'.ready = {}
      /\ task'.kept = [f \in K!Files |-> K!Absent] /\ task'.applied = 0 /\ task'.retained = {} /\ task'.outcome = o
  BY <1>1
<1>5. task' = [pc |-> task'.pc, order |-> task'.order, plan |-> task'.plan, ready |-> task'.ready,
               kept |-> task'.kept, applied |-> task'.applied, retained |-> task'.retained, outcome |-> task'.outcome]
  BY <1>1
<1>6. task'.order \in Seq(K!Files) /\ IsContents(task'.plan) /\ task'.kept \in [K!Files -> Int]
  BY <1>2, <1>3, <1>4
<1> QED
  BY <1>4, <1>5, <1>6 DEF WorkTyped

LEMMA StartKeeps == ASSUME BackupInv, K!StartService PROVE BackupInv'
<1>1. task' = K!Idle
  BY DEF K!StartService
<1>2. WorkTyped' /\ task'.pc = "idle"
  BY <1>1, OnlyEnded DEF PCs, Outcomes
<1>3. K!RestoreSafe'
  BY <1>2 DEF K!RestoreSafe, K!RestoreExact, K!OriginalsKept
<1>4. WorkInv'
  BY <1>2, <1>3, AtRest
<1>5. BackupTypeOK'
  BY <1>2 DEF BackupInv, BackupTypeOK, K!StartService, ArchiveRight, IsContents
<1> QED
  BY <1>2, <1>4, <1>5 DEF BackupInv

LEMMA RefuseKeeps == ASSUME BackupInv, K!Refuse PROVE BackupInv'
<1>1. WorkTyped' /\ task'.pc = "ended" /\ task'.outcome = "refused"
  BY OnlyEnded DEF K!Refuse, PCs, Outcomes
<1>2. UNCHANGED <<running, live, version, making, archive>> /\ before' = live /\ ~running
  BY DEF K!Refuse
<1>3. K!RestoreSafe'
  BY <1>1, <1>2 DEF K!RestoreSafe, K!RestoreExact, K!OriginalsKept
<1>4. WorkInv'
  BY <1>1, <1>3, AtRest
<1>5. BackupTypeOK'
  BY <1>1, <1>2 DEF BackupInv, BackupTypeOK, ArchiveRight, IsContents
<1> QED
  BY <1>1, <1>2, <1>4, <1>5 DEF BackupInv

LEMMA ImportKeeps == ASSUME BackupInv, K!ImportConfig PROVE BackupInv'
<1>1. UNCHANGED <<running, making, archive>> /\ before' = live /\ ~running
  BY DEF K!ImportConfig
<1>2. BackupTypeOK
  BY DEF BackupInv
<1>3. CASE /\ version' = version + 1 /\ live' = [live EXCEPT ![K!Wal] = version + 1]
           /\ task' = [K!Idle EXCEPT !.pc = "ended", !.outcome = "imported"]
  <2>1. WorkTyped' /\ task'.pc = "ended" /\ task'.outcome = "imported"
    BY <1>3, OnlyEnded DEF PCs, Outcomes
  <2>2. K!RestoreSafe'
    BY <2>1 DEF K!RestoreSafe, K!RestoreExact, K!OriginalsKept
  <2>3. live' \in [K!Files -> Int] /\ version' \in Nat
    <3>1. version + 1 \in Int /\ version' \in Nat /\ live \in [K!Files -> Int]
      BY <1>2, <1>3 DEF BackupTypeOK
    <3> QED
      BY <1>3, <3>1
  <2>4. BackupTypeOK'
    BY <1>1, <1>2, <2>1, <2>3 DEF BackupTypeOK, ArchiveRight, IsContents
  <2> QED
    BY <1>1, <2>1, <2>2, <2>4, AtRest DEF BackupInv
<1>4. CASE task' = [K!Idle EXCEPT !.pc = "ended", !.outcome = "refused"] /\ UNCHANGED <<version, live>>
  <2>1. WorkTyped' /\ task'.pc = "ended" /\ task'.outcome = "refused"
    BY <1>4, OnlyEnded DEF PCs, Outcomes
  <2>2. K!RestoreSafe'
    BY <1>1, <1>4, <2>1 DEF K!RestoreSafe, K!RestoreExact, K!OriginalsKept
  <2>3. BackupTypeOK'
    BY <1>1, <1>2, <1>4, <2>1 DEF BackupTypeOK, ArchiveRight, IsContents
  <2> QED
    BY <1>1, <2>1, <2>2, <2>3, AtRest DEF BackupInv
<1> QED
  BY <1>3, <1>4 DEF K!ImportConfig

\* What an archive plans: contents, the database among them.
LEMMA PlanOfArchive ==
  ASSUME BackupInv, archive.kind \in {"v2", "v1", "legacy"}
  PROVE IsContents(K!Planned(archive)) /\ K!Db \in DOMAIN K!Planned(archive)
<1>1. IsContents(archive.holds) /\ K!Db \in DOMAIN archive.holds
  BY DEF BackupInv, BackupTypeOK, ArchiveRight
<1>2. CASE archive.kind = "v2"
  <2>1. K!Planned(archive) = [f \in DOMAIN archive.holds |-> IF f = UserGroups /\ archive.holds[f] = K!Absent
                                                    THEN K!EmptyGroups ELSE archive.holds[f]]
    BY <1>2 DEF K!Planned
  <2> QED
    BY <1>1, <2>1 DEF IsContents, K!EmptyGroups
<1>3. CASE archive.kind = "v1"
  <2>1. K!Planned(archive) = [f \in DOMAIN archive.holds \cup {Outbox} |->
                           IF f = Outbox THEN K!Absent
                           ELSE IF f = UserGroups /\ archive.holds[f] = K!Absent THEN K!EmptyGroups ELSE archive.holds[f]]
    BY <1>3 DEF K!Planned
  <2> QED
    BY <1>1, <2>1, FilesApart DEF IsContents, K!EmptyGroups, K!Absent
<1>4. CASE archive.kind = "legacy"
  BY <1>1, <1>4 DEF K!Planned
<1> QED
  BY <1>2, <1>3, <1>4

\* The module of the backups counts as this one does.
LEMMA SameCardinality == ASSUME NEW S PROVE K!Cardinality(S) = Cardinality(S)
BY DEF K!Cardinality, Cardinality

\* The targets are the files of the plan and the log, each at its place.
LEMMA TargetsAll ==
  ASSUME NEW plan, DOMAIN plan \subseteq Stores \cup {K!Db}, NEW t \in K!Targets(plan)
  PROVE t \in Seq(K!Files) /\ {t[i] : i \in 1..Len(t)} = DOMAIN plan \cup {K!Wal}
<1> DEFINE n == Cardinality(DOMAIN plan)
<1> DEFINE Places == 1..(n + 1)
<1> DEFINE F == DOMAIN plan \cup {K!Wal}
<1>1. IsFiniteSet(DOMAIN plan) /\ n \in Nat
  <2>1. IsFiniteSet(Stores \cup {K!Db})
    BY StoresApart, FS_AddElement
  <2> QED
    BY <2>1, FS_Subset, FS_CardinalityType
<1>2. IsFiniteSet(F) /\ Cardinality(F) = n + 1
  <2>1. K!Wal \notin DOMAIN plan
    BY FilesApart
  <2> QED
    BY <1>1, <2>1, FS_AddElement
<1>3. IsFiniteSet(Places) /\ Cardinality(Places) = n + 1
  BY <1>1, FS_Interval
<1>4. t \in [Places -> F] /\ \A i, j \in Places : i # j => t[i] # t[j]
  BY SameCardinality DEF K!Targets
<1>5. t \in Injection(Places, F)
  BY <1>4 DEF Injection, IsInjective
<1>6. t \in Surjection(Places, F)
  BY <1>1, <1>2, <1>3, <1>5, FS_Injection
<1>7. \A f \in F : \E i \in Places : t[i] = f
  BY <1>6 DEF Surjection
<1>8. F \subseteq K!Files
  BY DEF K!Files
<1>9. t \in Seq(K!Files) /\ Len(t) = n + 1
  <2>1. t \in [Places -> K!Files]
    BY <1>4, <1>8
  <2> QED
    BY <2>1, <1>1
<1> QED
  BY <1>4, <1>7, <1>9
\* The restore's record, field by field.
LEMMA WorkBecomes ==
  ASSUME NEW p \in PCs, NEW o \in Seq(K!Files), NEW pl, IsContents(pl), NEW r \in SUBSET K!Files, NEW k \in [K!Files -> Int],
         NEW a \in Nat, NEW re \in SUBSET K!Files, NEW out \in Outcomes,
         task' = [pc |-> p, order |-> o, plan |-> pl, ready |-> r, kept |-> k, applied |-> a, retained |-> re,
                  outcome |-> out]
  PROVE /\ WorkTyped'
        /\ task'.pc = p /\ task'.order = o /\ task'.plan = pl /\ task'.ready = r /\ task'.kept = k
        /\ task'.applied = a /\ task'.retained = re /\ task'.outcome = out
<1>1. /\ task'.pc = p /\ task'.order = o /\ task'.plan = pl /\ task'.ready = r /\ task'.kept = k
      /\ task'.applied = a /\ task'.retained = re /\ task'.outcome = out
  OBVIOUS
<1>2. task' = [pc |-> task'.pc, order |-> task'.order, plan |-> task'.plan, ready |-> task'.ready,
               kept |-> task'.kept, applied |-> task'.applied, retained |-> task'.retained, outcome |-> task'.outcome]
  BY <1>1
<1> QED
  BY <1>1, <1>2 DEF WorkTyped

LEMMA BeginKeeps == ASSUME BackupInv, K!BeginApply PROVE BackupInv'
<1> DEFINE plan == K!Planned(archive)
<1>1. PICK t \in K!Targets(plan) : task' = [K!Idle EXCEPT !.pc = "prepare", !.plan = plan, !.order = t]
  BY DEF K!BeginApply
<1>2. IsContents(plan) /\ K!Db \in DOMAIN plan
  BY PlanOfArchive DEF K!BeginApply
<1>3. t \in Seq(K!Files) /\ {t[i] : i \in 1..Len(t)} = DOMAIN plan \cup {K!Wal}
  BY <1>2, TargetsAll DEF IsContents
<1> HIDE DEF plan
<1>4. task' = [pc |-> "prepare", order |-> t, plan |-> plan, ready |-> {}, kept |-> [f \in K!Files |-> K!Absent],
               applied |-> 0, retained |-> {}, outcome |-> "none"]
  BY <1>1 DEF K!Idle, K!Function
<1>5. [f \in K!Files |-> K!Absent] \in [K!Files -> Int]
  BY DEF K!Absent
<1>6. /\ WorkTyped' /\ task'.pc = "prepare" /\ task'.order = t /\ task'.plan = plan /\ task'.applied = 0
      /\ task'.retained = {} /\ task'.outcome = "none"
  BY <1>2, <1>3, <1>4, <1>5, WorkBecomes DEF PCs, Outcomes
<1>7. UNCHANGED <<running, live, version, making, archive>> /\ before' = live /\ ~running
  BY DEF K!BeginApply
<1>8. BackupTypeOK'
  BY <1>6, <1>7 DEF BackupInv, BackupTypeOK, ArchiveRight, IsContents
<1>9. OrderRight'
  BY <1>3, <1>6 DEF OrderRight, Replaced
<1>10. Found'
  BY <1>7 DEF Found
<1>11. K!RestoreSafe'
  BY <1>6, <1>10 DEF K!RestoreSafe, K!RestoreExact, K!OriginalsKept, Found
<1>12. WorkInv'
  BY <1>2, <1>6, <1>7, <1>9, <1>10, <1>11 DEF WorkInv, Preparing, Ready, Replacing, RollingBack, Cleaning
<1> QED
  BY <1>7, <1>8, <1>12 DEF BackupInv

\* While a restore is under way nobody else is at work.
LEMMA ApplyTyped ==
  ASSUME BackupInv, WorkTyped', live' \in [K!Files -> Int], task.pc # "idle",
         UNCHANGED <<running, version, making, archive, before>>, WorkInv'
  PROVE BackupInv'
<1>1. BackupTypeOK'
  BY DEF BackupInv, BackupTypeOK, ArchiveRight, IsContents
<1> QED
  BY <1>1 DEF BackupInv

LEMMA CopiesKept ==
  ASSUME CopiesRight, task'.order = task.order, task'.kept = task.kept, before' = before
  PROVE CopiesRight'
<1>1. \A f \in {task'.order[i] : i \in 1..Len(task'.order)} : task'.kept[f] = before'[f]
  BY DEF CopiesRight, Replaced
<1> QED
  BY <1>1 DEF CopiesRight, Replaced

LEMMA OrderKept ==
  ASSUME OrderRight, Restoring, task'.order = task.order, task'.plan = task.plan, task'.applied <= Len(task.order)
  PROVE OrderRight'
<1>1. {task'.order[i] : i \in 1..Len(task'.order)} = DOMAIN task'.plan \cup {K!Wal}
  BY DEF OrderRight, Replaced
<1> QED
  BY <1>1 DEF OrderRight, Replaced

\* A step of the try block raises before anything is replaced.
LEMMA RaiseKeeps ==
  ASSUME BackupInv, task.pc \in {"prepare", "copy"}, K!Raise, UNCHANGED <<running, live, version, making, archive, before>>
  PROVE BackupInv'
<1>1. WorkTyped /\ WorkInv /\ live \in [K!Files -> Int]
  BY DEF BackupInv, BackupTypeOK
<1>2. task' = [pc |-> "rollback", order |-> task.order, plan |-> task.plan, ready |-> task.ready, kept |-> task.kept,
               applied |-> task.applied, retained |-> task.retained, outcome |-> "rolled back"]
  BY <1>1 DEF K!Raise, WorkTyped
<1>3. WorkTyped' /\ task'.pc = "rollback" /\ task'.order = task.order /\ task'.plan = task.plan /\ task'.kept = task.kept
      /\ task'.applied = task.applied /\ task'.retained = task.retained /\ task'.outcome = "rolled back"
  <2>1. "rollback" \in PCs /\ "rolled back" \in Outcomes
    BY DEF PCs, Outcomes
  <2> QED
    BY <1>1, <1>2, <2>1, WorkBecomes DEF WorkTyped
<1>4. Preparing /\ OrderRight /\ Found /\ K!Db \in DOMAIN task.plan
  BY <1>1 DEF WorkInv, Restoring
<1>5. task.applied = 0 /\ task.retained = {} /\ live = before
  BY <1>4 DEF Preparing
<1>6. OrderRight'
  BY <1>3, <1>4 DEF OrderRight, Restoring, Replaced
<1>7. Found'
  BY <1>5 DEF Found
<1>8. RollingBack'
  <2>1. task'.applied = 0 /\ task'.retained = {} /\ (\A f \in K!Files : live'[f] = before'[f])
    BY <1>3, <1>5
  <2>2. ~(task'.applied > 0)
    BY <2>1
  <2> QED
    BY <1>3, <2>1, <2>2 DEF RollingBack, Retained, Untouched
<1>9. K!RestoreSafe'
  BY <1>3, <1>7 DEF K!RestoreSafe, K!RestoreExact, K!OriginalsKept, Found
<1>10. WorkInv'
  BY <1>3, <1>4, <1>6, <1>7, <1>8, <1>9 DEF WorkInv, Preparing, Ready, Replacing, Cleaning
<1> QED
  BY <1>1, <1>3, <1>10, ApplyTyped

LEMMA BackupPrepareKeeps == ASSUME BackupInv, K!Prepare PROVE BackupInv'
<1>1. WorkTyped /\ WorkInv /\ live \in [K!Files -> Int]
  BY DEF BackupInv, BackupTypeOK
<1>2. CASE K!Raise
  BY <1>2, RaiseKeeps DEF K!Prepare
<1>3. CASE task' = [task EXCEPT !.ready = {f \in DOMAIN task.plan : task.plan[f] # K!Absent}, !.pc = "copy"]
  <2> DEFINE R == {f \in DOMAIN task.plan : task.plan[f] # K!Absent}
  <2>1. R \subseteq K!Files
    BY <1>1 DEF WorkTyped, IsContents, K!Files
  <2>2. task' = [task EXCEPT !.ready = R, !.pc = "copy"]
    BY <1>3
  <2> HIDE DEF R
  <2>3. task' = [pc |-> "copy", order |-> task.order, plan |-> task.plan, ready |-> R, kept |-> task.kept,
               applied |-> task.applied, retained |-> task.retained, outcome |-> task.outcome]
    BY <1>1, <2>2 DEF WorkTyped
  <2>4. WorkTyped' /\ task'.pc = "copy" /\ task'.order = task.order /\ task'.plan = task.plan /\ task'.ready = R
        /\ task'.kept = task.kept
        /\ task'.applied = task.applied /\ task'.retained = task.retained /\ task'.outcome = task.outcome
    <3>1. "copy" \in PCs
      BY DEF PCs
    <3> QED
      BY <1>1, <2>1, <2>3, <3>1, WorkBecomes DEF WorkTyped
  <2>5. Preparing /\ OrderRight /\ Found /\ K!Db \in DOMAIN task.plan /\ task.pc = "prepare"
    BY <1>1 DEF WorkInv, Restoring, K!Prepare
  <2>6. UNCHANGED <<running, live, version, making, archive, before>>
    BY DEF K!Prepare
  <2>7. OrderRight' /\ Preparing' /\ Found'
    BY <2>4, <2>5, <2>6 DEF OrderRight, Preparing, Found, Restoring, Replaced
  <2>8. Ready'
    BY <2>4 DEF Ready, R
  <2>9. K!RestoreSafe'
    BY <2>4, <2>7 DEF K!RestoreSafe, K!RestoreExact, K!OriginalsKept, Found
  <2>10. WorkInv'
    BY <2>4, <2>5, <2>7, <2>8, <2>9 DEF WorkInv, Replacing, RollingBack, Cleaning
  <2> QED
    BY <1>1, <2>4, <2>5, <2>6, <2>10, ApplyTyped
<1> QED
  BY <1>2, <1>3 DEF K!Prepare

LEMMA CopyKeeps == ASSUME BackupInv, K!Copy PROVE BackupInv'
<1>1. WorkTyped /\ WorkInv /\ live \in [K!Files -> Int]
  BY DEF BackupInv, BackupTypeOK
<1>2. CASE K!Raise
  BY <1>2, RaiseKeeps DEF K!Copy
<1> DEFINE Copies == [f \in K!Files |-> IF \E i \in DOMAIN task.order : task.order[i] = f THEN live[f] ELSE K!Absent]
<1>3. CASE task' = [task EXCEPT !.pc = "replace", !.kept = Copies]
  <2>1. Copies \in [K!Files -> Int]
    BY <1>1 DEF K!Absent
  <2>a. \A f \in Replaced(Len(task.order)) : Copies[f] = live[f]
    <3> SUFFICES ASSUME NEW i \in 1..Len(task.order) PROVE Copies[task.order[i]] = live[task.order[i]]
      BY DEF Replaced
    <3>1. i \in DOMAIN task.order /\ task.order[i] \in K!Files
      BY <1>1 DEF WorkTyped
    <3> QED
      BY <3>1
  <2> HIDE DEF Copies
  <2>3. task' = [pc |-> "replace", order |-> task.order, plan |-> task.plan, ready |-> task.ready, kept |-> Copies,
               applied |-> task.applied, retained |-> task.retained, outcome |-> task.outcome]
    BY <1>1, <1>3 DEF WorkTyped
  <2>4. WorkTyped' /\ task'.pc = "replace" /\ task'.order = task.order /\ task'.plan = task.plan /\ task'.ready = task.ready
        /\ task'.kept = Copies
        /\ task'.applied = task.applied /\ task'.retained = task.retained /\ task'.outcome = task.outcome
    <3>1. "replace" \in PCs
      BY DEF PCs
    <3> QED
      BY <1>1, <2>1, <2>3, <3>1, WorkBecomes DEF WorkTyped
  <2>5. Preparing /\ OrderRight /\ Ready /\ K!Db \in DOMAIN task.plan /\ task.pc = "copy"
    BY <1>1 DEF WorkInv, Restoring, K!Copy
  <2>6. UNCHANGED <<running, live, version, making, archive, before>>
    BY DEF K!Copy
  <2>7. live = before /\ task.applied = 0 /\ task.retained = {} /\ task.outcome = "none"
    BY <2>5 DEF Preparing
  <2>8. OrderRight' /\ Found'
    BY SMTT(30), <2>4, <2>5, <2>6, <2>7 DEF OrderRight, Found, Restoring, Replaced
  <2>9. Ready'
    BY <2>4, <2>5 DEF Ready
  <2>10. CopiesRight'
    BY <2>4, <2>6, <2>7, <2>a DEF CopiesRight, Replaced
  <2>11. Replacing'
    BY <2>4, <2>6, <2>7, <2>10 DEF Replacing, Replaced, Untouched
  <2>12. K!RestoreSafe'
    BY <2>4, <2>8 DEF K!RestoreSafe, K!RestoreExact, K!OriginalsKept, Found
  <2>13. WorkInv'
    BY <2>4, <2>5, <2>8, <2>9, <2>11, <2>12 DEF WorkInv, Preparing, RollingBack, Cleaning
  <2> QED
    BY <1>1, <2>4, <2>5, <2>6, <2>13, ApplyTyped
<1> QED
  BY <1>2, <1>3 DEF K!Copy
LEMMA LastReplaced ==
  ASSUME NEW order \in Seq(K!Files), NEW n \in Nat
  PROVE {order[i] : i \in 1..(n + 1)} = {order[i] : i \in 1..n} \cup {order[n + 1]}
OBVIOUS

LEMMA ReplaceKeeps == ASSUME BackupInv, K!Replace PROVE BackupInv'
<1>1. /\ WorkTyped /\ WorkInv /\ live \in [K!Files -> Int] /\ before \in [K!Files -> Int]
      /\ task.pc = "replace" /\ task.applied < Len(task.order)
      /\ UNCHANGED <<running, version, making, archive, before>>
  BY DEF BackupInv, BackupTypeOK, K!Replace
<1> DEFINE n == task.applied
<1> DEFINE f == task.order[n + 1]
<1>2. n \in Nat /\ n + 1 \in 1..Len(task.order) /\ f \in K!Files /\ f \in Replaced(Len(task.order))
  BY SMTT(30), <1>1 DEF WorkTyped, Replaced
<1>3. Replaced(n + 1) = Replaced(n) \cup {f}
  BY <1>1, <1>2, LastReplaced DEF Replaced, WorkTyped
<1>4. /\ OrderRight /\ Ready /\ Replacing /\ Found /\ K!Db \in DOMAIN task.plan
  BY <1>1 DEF WorkInv, Restoring
<1>5. /\ CopiesRight /\ task.retained = {} /\ task.outcome = "none"
      /\ \A g \in Replaced(n) : live[g] = Content(g)
      /\ \A g \in K!Files \ Replaced(n) : Untouched(g)
  BY <1>1, <1>4 DEF Replacing
<1>6. CASE /\ live' = [live EXCEPT ![f] = IF f \in task.ready THEN task.plan[f] ELSE K!Absent]
           /\ task' = [task EXCEPT !.applied = @ + 1]
  <2>1. task' = [pc |-> task.pc, order |-> task.order, plan |-> task.plan, ready |-> task.ready, kept |-> task.kept,
               applied |-> n + 1, retained |-> task.retained, outcome |-> task.outcome]
    BY <1>1, <1>6 DEF WorkTyped
  <2>2. /\ WorkTyped' /\ task'.pc = "replace" /\ task'.order = task.order /\ task'.plan = task.plan
        /\ task'.ready = task.ready /\ task'.kept = task.kept
        /\ task'.applied = n + 1 /\ task'.retained = task.retained /\ task'.outcome = task.outcome
    <3>1. n + 1 \in Nat
      BY <1>2
    <3> QED
      BY <1>1, <2>1, <3>1, WorkBecomes DEF WorkTyped
  <2>3. live'[f] = Content(f) /\ live'[f] \in Int
    <3>1. task.ready = {g \in DOMAIN task.plan : task.plan[g] # K!Absent}
      BY <1>1, <1>4 DEF Ready
    <3>2. live'[f] = IF f \in task.ready THEN task.plan[f] ELSE K!Absent
      BY <1>1, <1>2, <1>6
    <3>3. f \in DOMAIN task.plan => task.plan[f] \in Int
      BY <1>1 DEF WorkTyped, IsContents
    <3> QED
      BY <3>1, <3>2, <3>3 DEF Content, K!Absent
  <2>4. live' \in [K!Files -> Int] /\ \A g \in K!Files : g # f => live'[g] = live[g]
    BY <1>1, <1>2, <1>6, <2>3
  <2>5. \A g \in Replaced(n + 1) : live'[g] = Content(g)
    <3> SUFFICES ASSUME NEW g \in Replaced(n + 1) PROVE live'[g] = Content(g)
      OBVIOUS
    <3>1. CASE g = f
      BY <2>3, <3>1
    <3>2. CASE g # f
      <4>1. g \in Replaced(n) /\ g \in K!Files
        <5>1. g \in Replaced(n)
          BY <1>3, <3>2
        <5>2. \A i \in 1..n : i \in 1..Len(task.order)
          BY <1>2
        <5> QED
          BY SMTT(30), <1>1, <5>1, <5>2 DEF Replaced, WorkTyped
      <4> QED
        BY <1>5, <2>4, <3>2, <4>1
    <3> QED
      BY <3>1, <3>2
  <2>6. \A g \in K!Files \ Replaced(n + 1) : live'[g] = before[g]
    BY <1>3, <1>5, <2>4 DEF Untouched
  <2>7. CopiesRight' /\ OrderRight' /\ Ready'
    <3>1. Restoring /\ n + 1 <= Len(task.order)
      BY <1>1, <1>2 DEF Restoring
    <3>2. Ready'
      BY <1>1, <1>4, <2>2 DEF Ready
    <3> QED
      BY <1>1, <1>4, <1>5, <2>2, <3>1, <3>2, CopiesKept, OrderKept
  <2>8. Replacing'
    BY <1>1, <1>5, <2>2, <2>5, <2>6, <2>7 DEF Replacing, Replaced, Content, Untouched
  <2>9. Found'
    BY <1>1, <1>2, <1>4, <1>5, <2>2, <2>4 DEF Found, CopiesRight
  <2>10. K!RestoreSafe'
    BY <2>2, <2>9 DEF K!RestoreSafe, K!RestoreExact, K!OriginalsKept, Found
  <2>11. WorkInv'
    BY <1>4, <2>2, <2>7, <2>8, <2>9, <2>10 DEF WorkInv, Preparing, RollingBack, Cleaning
  <2> QED
    BY <1>1, <2>2, <2>4, <2>11, ApplyTyped
<1>7. CASE /\ live' = live \/ live' = [live EXCEPT ![f] = K!Torn]
           /\ task' = [task EXCEPT !.applied = @ + 1, !.pc = "rollback", !.outcome = "rolled back"]
  <2>1. task' = [pc |-> "rollback", order |-> task.order, plan |-> task.plan, ready |-> task.ready, kept |-> task.kept,
               applied |-> n + 1, retained |-> task.retained, outcome |-> "rolled back"]
    BY <1>1, <1>7 DEF WorkTyped
  <2>2. /\ WorkTyped' /\ task'.pc = "rollback" /\ task'.order = task.order /\ task'.plan = task.plan
        /\ task'.kept = task.kept
        /\ task'.applied = n + 1 /\ task'.retained = task.retained /\ task'.outcome = "rolled back"
    <3>1. n + 1 \in Nat /\ "rollback" \in PCs /\ "rolled back" \in Outcomes
      BY <1>2 DEF PCs, Outcomes
    <3> QED
      BY <1>1, <2>1, <3>1, WorkBecomes DEF WorkTyped
  <2>4. live' \in [K!Files -> Int] /\ \A g \in K!Files : g # f => live'[g] = live[g]
    BY <1>1, <1>2, <1>7 DEF K!Torn
  <2>6. \A g \in K!Files \ Replaced(n + 1) : live'[g] = before[g]
    BY <1>3, <1>5, <2>4 DEF Untouched
  <2>7. CopiesRight' /\ OrderRight'
    <3>1. Restoring /\ n + 1 <= Len(task.order)
      BY <1>1, <1>2 DEF Restoring
    <3> QED
      BY <1>1, <1>4, <1>5, <2>2, <3>1, CopiesKept, OrderKept
  <2>8. RollingBack'
    <3>1. /\ task'.retained = {}
          /\ \A g \in K!Files \ Replaced(task.applied)' : live'[g] = before'[g]
      BY <1>1, <1>5, <2>2, <2>6 DEF Replaced
    <3> QED
      BY <2>2, <2>7, <3>1 DEF RollingBack, Retained, Untouched
  <2>9. Found'
    BY <1>1, <1>2, <1>4, <1>5, <2>2, <2>4 DEF Found, CopiesRight
  <2>10. K!RestoreSafe'
    BY <2>2, <2>9 DEF K!RestoreSafe, K!RestoreExact, K!OriginalsKept, Found
  <2>11. WorkInv'
    BY <1>4, <2>2, <2>7, <2>8, <2>9, <2>10 DEF WorkInv, Preparing, Ready, Replacing, Cleaning
  <2> QED
    BY <1>1, <2>2, <2>4, <2>11, ApplyTyped
<1> QED
  BY <1>6, <1>7 DEF K!Replace, K!Moved

LEMMA AppliedKeeps == ASSUME BackupInv, K!Applied PROVE BackupInv'
<1>1. /\ WorkTyped /\ WorkInv /\ live \in [K!Files -> Int]
      /\ task.pc = "replace" /\ task.applied = Len(task.order)
      /\ UNCHANGED <<running, live, version, making, archive, before>>
  BY DEF BackupInv, BackupTypeOK, K!Applied
<1>2. task' = [pc |-> "clean", order |-> task.order, plan |-> task.plan, ready |-> task.ready, kept |-> task.kept,
             applied |-> task.applied, retained |-> task.retained, outcome |-> "applied"]
  BY <1>1 DEF WorkTyped, K!Applied
<1>3. /\ WorkTyped' /\ task'.pc = "clean" /\ task'.order = task.order /\ task'.plan = task.plan
      /\ task'.kept = task.kept
      /\ task'.applied = task.applied /\ task'.retained = task.retained /\ task'.outcome = "applied"
  <2>1. "clean" \in PCs /\ "applied" \in Outcomes
    BY DEF PCs, Outcomes
  <2> QED
    BY <1>1, <1>2, <2>1, WorkBecomes DEF WorkTyped
<1>4. OrderRight /\ Replacing /\ Found /\ K!Db \in DOMAIN task.plan
  BY <1>1 DEF WorkInv, Restoring
<1>5. /\ CopiesRight /\ task.retained = {}
      /\ \A g \in DOMAIN task.plan \cup {K!Wal} : live[g] = Content(g)
      /\ \A g \in K!Files \ (DOMAIN task.plan \cup {K!Wal}) : Untouched(g)
  BY <1>1, <1>4 DEF Replacing, OrderRight, Restoring
<1>6. CopiesRight' /\ OrderRight' /\ Found'
  <2>1. Restoring /\ task'.applied <= Len(task.order)
    BY <1>1, <1>3 DEF Restoring, WorkTyped
  <2>2. Found'
    BY <1>1, <1>3, <1>4 DEF Found
  <2> QED
    BY <1>1, <1>3, <1>4, <1>5, <2>1, <2>2, CopiesKept, OrderKept
<1>7. Cleaning'
  BY <1>1, <1>3, <1>5, <1>6 DEF Cleaning, Retained, Content, Untouched
<1>8. K!RestoreSafe'
  BY <1>3 DEF K!RestoreSafe, K!RestoreExact, K!OriginalsKept
<1>9. WorkInv'
  BY <1>3, <1>4, <1>6, <1>7, <1>8 DEF WorkInv, Preparing, Ready, Replacing, RollingBack
<1> QED
  BY <1>1, <1>3, <1>9, ApplyTyped
LEMMA RollBackKeeps == ASSUME BackupInv, K!RollBack PROVE BackupInv'
<1>1. /\ WorkTyped /\ WorkInv /\ live \in [K!Files -> Int] /\ before \in [K!Files -> Int]
      /\ task.pc = "rollback" /\ task.applied > 0
      /\ UNCHANGED <<running, version, making, archive, before>>
  BY DEF BackupInv, BackupTypeOK, K!RollBack
<1> DEFINE n == task.applied - 1
<1> DEFINE f == task.order[task.applied]
<1>2. /\ OrderRight /\ RollingBack /\ Found /\ K!Db \in DOMAIN task.plan /\ Restoring
  BY <1>1 DEF WorkInv, Restoring
<1>3. /\ n \in Nat /\ task.applied = n + 1 /\ n + 1 \in 1..Len(task.order)
      /\ f \in K!Files /\ f \in Replaced(Len(task.order))
  BY SMTT(30), <1>1, <1>2 DEF WorkTyped, Replaced, OrderRight
<1>4. Replaced(task.applied) = Replaced(n) \cup {f}
  BY <1>1, <1>3, LastReplaced DEF Replaced, WorkTyped
<1>5. /\ CopiesRight /\ Retained /\ task.outcome \in {"rolled back", "incomplete"}
      /\ \A g \in K!Files \ Replaced(task.applied) :
         Untouched(g) \/ (task.outcome = "incomplete" /\ (g \in task.retained \/ before[g] = K!Absent))
  BY <1>1, <1>2 DEF RollingBack
<1>6. task.kept[f] = before[f]
  BY <1>3, <1>5 DEF CopiesRight
<1>7. CASE live' = [live EXCEPT ![f] = task.kept[f]] /\ task' = [task EXCEPT !.applied = @ - 1]
  <2>1. task' = [pc |-> task.pc, order |-> task.order, plan |-> task.plan, ready |-> task.ready, kept |-> task.kept,
               applied |-> n, retained |-> task.retained, outcome |-> task.outcome]
    BY <1>1, <1>7 DEF WorkTyped
  <2>2. /\ WorkTyped' /\ task'.pc = "rollback" /\ task'.order = task.order /\ task'.plan = task.plan
        /\ task'.kept = task.kept
        /\ task'.applied = n /\ task'.retained = task.retained /\ task'.outcome = task.outcome
    BY <1>1, <1>3, <2>1, WorkBecomes DEF WorkTyped
  <2>3. live' \in [K!Files -> Int] /\ live'[f] = before[f] /\ \A g \in K!Files : g # f => live'[g] = live[g]
    BY <1>1, <1>3, <1>6, <1>7
  <2>4. CopiesRight' /\ OrderRight'
    <3>1. task'.applied <= Len(task.order)
      BY <1>3, <2>2
    <3> QED
      BY <1>1, <1>2, <1>5, <2>2, <3>1, CopiesKept, OrderKept
  <2>5. \A g \in K!Files \ Replaced(n) :
         live'[g] = before[g] \/ (task.outcome = "incomplete" /\ (g \in task.retained \/ before[g] = K!Absent))
    BY <1>4, <1>5, <2>3 DEF Untouched
  <2>6. RollingBack'
    <3>0. Replaced(task.applied)' = Replaced(n)
      BY <2>2 DEF Replaced
    <3>1. /\ Retained'
          /\ \A g \in K!Files \ Replaced(task.applied)' :
              live'[g] = before'[g] \/ (task'.outcome = "incomplete" /\ (g \in task'.retained \/ before'[g] = K!Absent))
      <4>1. Retained'
        BY <1>1, <1>5, <2>2 DEF Retained
      <4> QED
        BY <1>1, <2>2, <2>5, <3>0, <4>1
    <3> QED
      BY <1>5, <2>2, <2>4, <3>1 DEF RollingBack, Untouched
  <2>7. Found'
    BY <1>1, <1>2, <2>2, <2>3 DEF Found
  <2>8. K!RestoreSafe'
    BY <2>2, <2>7 DEF K!RestoreSafe, K!RestoreExact, K!OriginalsKept, Found
  <2>9. WorkInv'
    BY <1>2, <2>2, <2>4, <2>6, <2>7, <2>8 DEF WorkInv, Preparing, Ready, Replacing, Cleaning
  <2> QED
    BY <1>1, <2>2, <2>3, <2>9, ApplyTyped
<1>8. CASE /\ live' = live \/ (task.kept[f] # K!Absent /\ live' = [live EXCEPT ![f] = K!Torn])
           /\ task' = [task EXCEPT !.applied = @ - 1, !.outcome = "incomplete",
                        !.retained = IF task.kept[f] # K!Absent THEN @ \cup {f} ELSE @]
  <2> DEFINE R == IF task.kept[f] # K!Absent THEN task.retained \cup {f} ELSE task.retained
  <2>1. task' = [pc |-> task.pc, order |-> task.order, plan |-> task.plan, ready |-> task.ready, kept |-> task.kept,
               applied |-> n, retained |-> R, outcome |-> "incomplete"]
    BY <1>1, <1>8 DEF WorkTyped
  <2>2. /\ WorkTyped' /\ task'.pc = "rollback" /\ task'.order = task.order /\ task'.plan = task.plan
        /\ task'.kept = task.kept
        /\ task'.applied = n /\ task'.retained = R /\ task'.outcome = "incomplete"
    <3>1. R \subseteq K!Files /\ "incomplete" \in Outcomes
      BY <1>1, <1>3 DEF Outcomes, WorkTyped
    <3> HIDE DEF R
    <3> QED
      BY <1>1, <1>3, <2>1, <3>1, WorkBecomes DEF WorkTyped
  <2>3. live' \in [K!Files -> Int] /\ \A g \in K!Files : g # f => live'[g] = live[g]
    BY <1>1, <1>3, <1>8 DEF K!Torn
  <2>a. (f \in R \/ before[f] = K!Absent) /\ task.retained \subseteq R
    BY <1>6
  <2>b. \A g \in R : task.kept[g] = before[g]
    BY <1>5, <1>6 DEF Retained
  <2> HIDE DEF R
  <2>4. CopiesRight' /\ OrderRight'
    <3>1. task'.applied <= Len(task.order)
      BY <1>3, <2>2
    <3> QED
      BY <1>1, <1>2, <1>5, <2>2, <3>1, CopiesKept, OrderKept
  <2>5. \A g \in K!Files \ Replaced(n) : live'[g] = before[g] \/ g \in R \/ before[g] = K!Absent
    BY <1>4, <1>5, <2>3, <2>a DEF Untouched
  <2>6. RollingBack'
    <3>1. /\ Retained'
          /\ \A g \in K!Files \ Replaced(task.applied)' :
              live'[g] = before'[g] \/ (task'.outcome = "incomplete" /\ (g \in task'.retained \/ before'[g] = K!Absent))
      BY <1>1, <2>2, <2>5, <2>b DEF Replaced, Retained
    <3> QED
      BY <2>2, <2>4, <3>1 DEF RollingBack, Untouched
  <2>7. Found'
    BY <1>1, <1>2, <1>6, <2>2, <2>3 DEF Found
  <2>8. K!RestoreSafe'
    BY <2>2, <2>7 DEF K!RestoreSafe, K!RestoreExact, K!OriginalsKept, Found
  <2>9. WorkInv'
    BY <1>2, <2>2, <2>4, <2>6, <2>7, <2>8 DEF WorkInv, Preparing, Ready, Replacing, Cleaning
  <2> QED
    BY <1>1, <2>2, <2>3, <2>9, ApplyTyped
<1> QED
  BY <1>7, <1>8 DEF K!RollBack, K!Moved

LEMMA RolledBackKeeps == ASSUME BackupInv, K!RolledBack PROVE BackupInv'
<1>1. /\ WorkTyped /\ WorkInv /\ live \in [K!Files -> Int] /\ before \in [K!Files -> Int]
      /\ task.pc = "rollback" /\ task.applied = 0
      /\ UNCHANGED <<running, live, version, making, archive, before>>
  BY DEF BackupInv, BackupTypeOK, K!RolledBack
<1>2. /\ OrderRight /\ RollingBack /\ Found /\ K!Db \in DOMAIN task.plan /\ Restoring
  BY <1>1 DEF WorkInv, Restoring
<1>3. task' = [pc |-> "clean", order |-> task.order, plan |-> task.plan, ready |-> task.ready, kept |-> task.kept,
             applied |-> task.applied, retained |-> task.retained, outcome |-> task.outcome]
  BY <1>1 DEF WorkTyped, K!RolledBack
<1>4. /\ WorkTyped' /\ task'.pc = "clean" /\ task'.order = task.order /\ task'.plan = task.plan
      /\ task'.kept = task.kept
      /\ task'.applied = task.applied /\ task'.retained = task.retained /\ task'.outcome = task.outcome
  <2>1. "clean" \in PCs
    BY DEF PCs
  <2> QED
    BY <1>1, <1>3, <2>1, WorkBecomes DEF WorkTyped
<1>5. Replaced(task.applied) = {}
  BY <1>1 DEF Replaced
<1>6. /\ Retained /\ task.outcome \in {"rolled back", "incomplete"}
      /\ \A g \in K!Files : live[g] = before[g] \/ (task.outcome = "incomplete" /\ (g \in task.retained \/ before[g] = K!Absent))
  BY <1>1, <1>2, <1>5 DEF RollingBack, Untouched
<1>7. task.outcome = "rolled back" => live = before
  <2>1. ASSUME task.outcome = "rolled back" PROVE \A g \in K!Files : live[g] = before[g]
    BY <1>6, <2>1
  <2>2. live = [g \in K!Files |-> live[g]] /\ before = [g \in K!Files |-> before[g]]
    BY <1>1
  <2> QED
    BY <2>1, <2>2
<1>8. OrderRight'
  <2>1. task'.applied <= Len(task.order)
    BY <1>1, <1>4 DEF WorkTyped
  <2> QED
    BY <1>2, <1>4, <2>1, OrderKept
<1>9. Found'
  BY <1>1, <1>2, <1>4 DEF Found
<1>10. Cleaning'
  <2>1. Retained'
    BY <1>1, <1>4, <1>6 DEF Retained
  <2> QED
    BY <1>1, <1>4, <1>6, <1>7, <2>1 DEF Cleaning, Untouched
<1>11. K!RestoreSafe'
  BY <1>4, <1>9 DEF K!RestoreSafe, K!RestoreExact, K!OriginalsKept, Found
<1>12. WorkInv'
  BY <1>2, <1>4, <1>8, <1>9, <1>10, <1>11 DEF WorkInv, Preparing, Ready, Replacing, RollingBack
<1> QED
  BY <1>1, <1>4, <1>12, ApplyTyped

LEMMA CleanKeeps == ASSUME BackupInv, K!Clean PROVE BackupInv'
<1>1. /\ WorkTyped /\ WorkInv /\ live \in [K!Files -> Int] /\ before \in [K!Files -> Int]
      /\ task.pc = "clean"
      /\ UNCHANGED <<running, live, version, making, archive, before>>
  BY DEF BackupInv, BackupTypeOK, K!Clean
<1>2. PICK stays : task' = [task EXCEPT !.pc = "ended", !.ready = {},
                     !.kept = [f \in K!Files |-> IF f \in task.retained \cup stays THEN task.kept[f] ELSE K!Absent]]
  BY DEF K!Clean
<1> DEFINE Copies == [f \in K!Files |-> IF f \in task.retained \cup stays THEN task.kept[f] ELSE K!Absent]
<1>3. Copies \in [K!Files -> Int] /\ \A f \in K!Files \cap task.retained : Copies[f] = task.kept[f]
  BY <1>1 DEF WorkTyped, K!Absent
<1>4. task' = [task EXCEPT !.pc = "ended", !.ready = {}, !.kept = Copies]
  BY <1>2
<1> HIDE DEF Copies
<1>5. task' = [pc |-> "ended", order |-> task.order, plan |-> task.plan, ready |-> {}, kept |-> Copies,
             applied |-> task.applied, retained |-> task.retained, outcome |-> task.outcome]
  BY <1>1, <1>4 DEF WorkTyped
<1>6. /\ WorkTyped' /\ task'.pc = "ended" /\ task'.plan = task.plan /\ task'.kept = Copies /\ task'.outcome = task.outcome
  <2>1. "ended" \in PCs
    BY DEF PCs
  <2> QED
    BY <1>1, <1>3, <1>5, <2>1, WorkBecomes DEF WorkTyped
<1>7. Cleaning /\ K!Db \in DOMAIN task.plan
  BY <1>1 DEF WorkInv, Restoring
<1>8. K!RestoreExact'
  <2>1. CASE task.outcome = "applied"
    <3>1. /\ \A f \in DOMAIN task.plan \cup {K!Wal} : live[f] = Content(f)
          /\ \A f \in K!Files \ (DOMAIN task.plan \cup {K!Wal}) : live[f] = before[f]
      BY <1>1, <1>7, <2>1 DEF Cleaning, Untouched
    <3>2. K!Wal \notin DOMAIN task.plan
      BY <1>1, FilesApart DEF WorkTyped, IsContents
    <3>3. (\A f \in DOMAIN task.plan : live[f] = task.plan[f]) /\ live[K!Wal] = K!Absent
      BY <3>1, <3>2 DEF Content
    <3>4. K!DatabaseOf(live) = task.plan[K!Db]
      BY <1>7, <3>3 DEF K!DatabaseOf
    <3> QED
      BY <1>1, <1>6, <2>1, <3>1, <3>3, <3>4 DEF K!RestoreExact, K!DatabaseOf
  <2>2. CASE task.outcome = "rolled back"
    BY <1>1, <1>6, <1>7, <2>2 DEF K!RestoreExact, Cleaning
  <2>3. CASE task.outcome = "incomplete"
    BY <1>6, <2>3 DEF K!RestoreExact
  <2> QED
    BY <1>1, <1>7, <2>1, <2>2, <2>3 DEF Cleaning
<1>9. K!OriginalsKept'
  <2> SUFFICES ASSUME task'.outcome \notin {"applied", "imported"}, NEW f \in K!Files, before'[f] # K!Absent
      PROVE before'[f] \in {live'[f], task'.kept[f]}
    BY DEF K!OriginalsKept
  <2>1. live[f] = before[f] \/ f \in task.retained
    BY <1>1, <1>6, <1>7 DEF Cleaning, Untouched
  <2>2. f \in task.retained => Copies[f] = before[f]
    BY <1>1, <1>3, <1>7 DEF Cleaning, Retained
  <2> QED
    BY <1>1, <1>6, <2>1, <2>2
<1>10. WorkInv'
  BY <1>6, <1>8, <1>9, AtRest DEF K!RestoreSafe
<1> QED
  BY <1>1, <1>6, <1>10, ApplyTyped

LEMMA CrashKeeps == ASSUME BackupInv, K!Crash PROVE BackupInv'
<1>1. /\ WorkTyped /\ WorkInv /\ BackupTypeOK
      /\ UNCHANGED <<running, live, version, archive, before>>
  BY DEF BackupInv, BackupTypeOK, K!Crash
<1>2. CASE running /\ making' = <<>> /\ task' = task
  <2>1. WorkInv'
    BY <1>1, <1>2, RestoreUntouched
  <2>2. BackupTypeOK'
    BY <1>1, <1>2 DEF BackupTypeOK, ArchiveRight, WorkTyped, IsContents
  <2> QED
    BY <1>1, <1>2, <2>1, <2>2 DEF BackupInv
<1>3. CASE /\ task.pc \notin {"idle", "ended", "crashed"} /\ making' = making
           /\ task' = [task EXCEPT !.pc = "crashed", !.outcome = "killed"]
  <2>1. task' = [pc |-> "crashed", order |-> task.order, plan |-> task.plan, ready |-> task.ready, kept |-> task.kept,
               applied |-> task.applied, retained |-> task.retained, outcome |-> "killed"]
    BY <1>1, <1>3 DEF WorkTyped
  <2>2. WorkTyped' /\ task'.pc = "crashed" /\ task'.kept = task.kept /\ task'.outcome = "killed"
    <3>1. "crashed" \in PCs /\ "killed" \in Outcomes
      BY DEF PCs, Outcomes
    <3> QED
      BY <1>1, <2>1, <3>1, WorkBecomes DEF WorkTyped
  <2>3. Found
    BY <1>1, <1>3 DEF WorkInv, Restoring, WorkTyped, PCs
  <2>4. Found'
    BY <1>1, <2>2, <2>3 DEF Found
  <2>5. K!RestoreSafe'
    BY <2>2, <2>4 DEF K!RestoreSafe, K!RestoreExact, K!OriginalsKept, Found
  <2>6. WorkInv'
    BY <2>2, <2>4, <2>5, AtRest
  <2> QED
    BY <1>1, <1>3, <2>2, <2>6, ApplyTyped DEF BackupTypeOK
<1> QED
  BY <1>2, <1>3 DEF K!Crash

\* Every step keeps the invariant of the restore.
LEMMA BackupInductive == BackupInv /\ [K!Next]_(K!vars) => BackupInv'
<1> SUFFICES ASSUME BackupInv, [K!Next]_(K!vars) PROVE BackupInv'
  OBVIOUS
<1>1. ASSUME NEW f \in Stores \cup {K!Db}, K!Write(f) PROVE BackupInv'
  BY <1>1, ServiceKeeps
<1>2. CASE K!migrate_backup_handler \/ K!Checkpoint
  <2>1. K!Db \in Stores \cup {K!Db}
    OBVIOUS
  <2> QED
    BY <1>2, <2>1, ServiceKeeps DEF K!migrate_backup_handler
<1>3. CASE K!Stop \/ K!Snapshot \/ \E s \in Stores : K!Capture(s)
  BY <1>3, MakingKeeps
<1>4. CASE K!StartService
  BY <1>4, StartKeeps
<1>5. CASE K!Publish \/ K!Upload
  BY <1>5, ArchiveKeeps
<1>6. CASE K!Refuse
  BY <1>6, RefuseKeeps
<1>7. CASE K!ImportConfig
  BY <1>7, ImportKeeps
<1>8. CASE K!BeginApply
  BY <1>8, BeginKeeps
<1>9. CASE K!ApplyStep
  BY <1>9, BackupPrepareKeeps, CopyKeeps, ReplaceKeeps, AppliedKeeps, RollBackKeeps, RolledBackKeeps, CleanKeeps DEF K!ApplyStep
<1>10. CASE K!Crash
  BY <1>10, CrashKeeps
<1>11. CASE UNCHANGED K!vars
  <2>1. UNCHANGED <<running, live, version, making, archive, task, before>>
    BY <1>11 DEF K!vars
  <2>2. WorkInv'
    BY <2>1, RestoreUntouched DEF BackupInv
  <2> QED
    BY <2>1, <2>2 DEF BackupInv, BackupTypeOK, ArchiveRight, WorkTyped, IsContents
<1> QED
  BY <1>1, <1>2, <1>3, <1>4, <1>5, <1>6, <1>7, <1>8, <1>9, <1>10, <1>11 DEF K!Next

\* A restore is all or nothing, and nothing it found is lost on the way (apply_backup).
THEOREM RestoresSafely == K!Spec => []RestoreSafe
<1>1. BackupInv => K!RestoreSafe
  BY DEF BackupInv, WorkInv
<1> QED
  BY BackupInitially, BackupInductive, <1>1, PTL DEF K!Spec, RestoreSafe

------------------------------------------------------------------------------
Snapshots ==
  [on : BOOLEAN, group : Groups \cup {T!None}, threads : [T!AllKinds -> Nat], cache : SUBSET Kinds, mrev : Nat, drev : Nat]
Threads == [chat : Groups \cup {T!None}, alive : BOOLEAN]

\* A snapshot of the forum: the threads it names exist, in its group, and its keys stand for what has arrived there.
Known(s, f) == \A k \in T!AllKinds : s.threads[k] # T!None => s.threads[k] \in DOMAIN f /\ f[s.threads[k]].chat = s.group
Stands(s, r) == \A k \in s.cache : <<s.group, T!Thread(s, k)>> \in r[k]

\* What the operator asks for: a thread that is to be replaced is gone, one to be named exists in his group.
UpdateRight(u, s, f) ==
  /\ u.do \in {"enable", "group", "clear", "forget", "install", "remove"}
  /\ u.do = "enable" => u.on \in BOOLEAN
  /\ u.do = "group" => u.group \in Groups
  /\ u.do \in {"install", "remove"} =>
       u.kind \in T!AllKinds /\ (s.threads[u.kind] # T!None => ~f[s.threads[u.kind]].alive)
  /\ u.do = "install" => u.thread \in DOMAIN f /\ f[u.thread].chat = u.group

\* What the dispatcher asks for: the message has arrived, unless the place has changed since.
MarkRight(u, s, r) ==
  /\ u.do = "mark" /\ u.kind \in Kinds
  /\ u.mrev = s.mrev /\ u.drev = s.drev => <<u.chat, u.thread>> \in r[u.kind]

OpPcs == {"idle", "next", "verify", "create", "update"}
OpRight ==
  /\ op = [pc |-> op.pc, group |-> op.group, rev |-> op.rev, left |-> op.left, kind |-> op.kind,
           thread |-> op.thread, update |-> op.update]
  /\ op.pc \in OpPcs /\ op.kind \in T!AllKinds /\ op.left \subseteq T!AllKinds /\ op.group \in Groups \cup {T!None}
  /\ op.pc = "create" => published.threads[op.kind] = T!None
  /\ op.pc = "update" => /\ UpdateRight(op.update, published, forum)
                         /\ op.update.do \in {"install", "remove"} => op.update.kind = op.kind

MsgRight(m, s, r) ==
  m.at # "none" =>
    /\ m = [at |-> m.at, kind |-> m.kind, chat |-> m.chat, thread |-> m.thread, mrev |-> m.mrev, drev |-> m.drev]
    /\ m.at \in {"queued", "settle"} /\ m.kind \in Kinds
    /\ m.mrev \in Nat /\ m.drev \in Nat /\ m.mrev <= s.mrev /\ m.drev <= s.drev
    /\ m.at = "settle" /\ m.mrev = s.mrev /\ m.drev = s.drev => <<m.chat, m.thread>> \in r[m.kind]

WriteRight ==
  topicsWrite.by # T!Nobody =>
    /\ topicsWrite.by = T!Operator => op.pc = "update"
    /\ topicsWrite.by # T!Operator => msg[topicsWrite.by].at = "settle"
    /\ topicsWrite.to = T!Updated(published, T!UpdateOf(topicsWrite.by)) /\ topicsWrite.to # published

TopicsTypeOK ==
  /\ published \in Snapshots /\ topicsFile \in Snapshots
  /\ topicsWrite = [by |-> topicsWrite.by, to |-> topicsWrite.to] /\ topicsWrite.by \in T!Callers \cup {T!Nobody}
  /\ msg = [m \in Observations |-> msg[m]] /\ forum \in Seq(Threads) /\ reached = [k \in Kinds |-> reached[k]]

TopicsInv ==
  /\ TopicsTypeOK /\ OpRight /\ (\A m \in Observations : MsgRight(msg[m], published, reached)) /\ WriteRight
  /\ Known(published, forum) /\ Known(topicsFile, forum) /\ Stands(published, reached) /\ Stands(topicsFile, reached)

------------------------------------------------------------------------------
Snap(o, g, t, c, m, d) == [on |-> o, group |-> g, threads |-> t, cache |-> c, mrev |-> m, drev |-> d]

LEMMA SnapshotFields ==
  ASSUME NEW s \in Snapshots
  PROVE /\ s = Snap(s.on, s.group, s.threads, s.cache, s.mrev, s.drev)
        /\ s.on \in BOOLEAN /\ s.group \in Groups \cup {T!None} /\ s.threads \in [T!AllKinds -> Nat]
        /\ s.cache \subseteq Kinds /\ s.mrev \in Nat /\ s.drev \in Nat
BY DEF Snapshots, Snap

LEMMA SnapFields ==
  ASSUME NEW o, NEW g, NEW t, NEW c, NEW m, NEW d
  PROVE LET s == Snap(o, g, t, c, m, d) IN
          s.on = o /\ s.group = g /\ s.threads = t /\ s.cache = c /\ s.mrev = m /\ s.drev = d
BY DEF Snap

LEMMA SnapIsSnapshot ==
  ASSUME NEW o \in BOOLEAN, NEW g \in Groups \cup {T!None}, NEW t \in [T!AllKinds -> Nat], NEW c \in SUBSET Kinds,
         NEW m \in Nat, NEW d \in Nat
  PROVE Snap(o, g, t, c, m, d) \in Snapshots
BY DEF Snap, Snapshots

LEMMA NoThreadsTyped == T!NoThreads \in [T!AllKinds -> Nat]
BY DEF T!NoThreads, T!None

\* The keys that are left when the thread of a kind changes.
Left(c, k) == IF k = T!General THEN {} ELSE c \ {k}
Renamed(s, k, t) == Snap(s.on, s.group, [s.threads EXCEPT ![k] = t], Left(s.cache, k), s.mrev, s.drev + 1)

LEMMA RenamedThread ==
  ASSUME NEW s \in Snapshots, NEW k \in T!AllKinds, NEW t
  PROVE T!Without([s EXCEPT !.threads[k] = t, !.drev = @ + 1], k) = Renamed(s, k, t)
<1> DEFINE Renaming == [s.threads EXCEPT ![k] = t]
<1> DEFINE a == [s EXCEPT !.threads[k] = t, !.drev = @ + 1]
<1>1. s = Snap(s.on, s.group, s.threads, s.cache, s.mrev, s.drev)
  BY SnapshotFields
<1>2. a = Snap(s.on, s.group, Renaming, s.cache, s.mrev, s.drev + 1)
  <2>1. a = [s EXCEPT !.threads = Renaming, !.drev = @ + 1]
    OBVIOUS
  <2> HIDE DEF Renaming, a
  <2> QED
    BY <1>1, <2>1 DEF Snap
<1> HIDE DEF Renaming, a
<1>3. T!Without(a, k) = Snap(s.on, s.group, Renaming, Left(s.cache, k), s.mrev, s.drev + 1)
  BY <1>2 DEF T!Without, Left, Snap
<1> QED
  BY <1>3 DEF a, Renaming, Renamed

\* What each update makes of a snapshot.
LEMMA UpdateCases ==
  ASSUME NEW s \in Snapshots, NEW u
  PROVE /\ u.do = "mark" =>
             \/ T!Updated(s, u) = s
             \/ T!SamePlace(s, u) /\ T!Updated(s, u) = Snap(s.on, s.group, s.threads, s.cache \cup {u.kind}, s.mrev, s.drev)
        /\ u.do = "enable" =>
             \/ s.on /\ ~u.on /\ T!Updated(s, u) = Snap(FALSE, s.group, s.threads, {}, s.mrev + 1, s.drev)
             \/ ~(s.on /\ ~u.on) /\ T!Updated(s, u) = Snap(u.on, s.group, s.threads, s.cache, s.mrev, s.drev)
        /\ u.do = "group" =>
             \/ T!Updated(s, u) = s
             \/ T!Updated(s, u) = Snap(s.on, u.group, T!NoThreads, {}, s.mrev, s.drev + 1)
        /\ u.do = "clear" =>
             \/ T!Updated(s, u) = s
             \/ T!Updated(s, u) = Snap(s.on, s.group, T!NoThreads, {}, s.mrev, s.drev + 1)
        /\ u.do = "forget" => T!Updated(s, u) = Snap(s.on, s.group, s.threads, {}, s.mrev, s.drev + 1)
        /\ u.do = "install" /\ u.kind \in T!AllKinds =>
             \/ T!Updated(s, u) = s
             \/ T!Meant(s, u) /\ s.threads[u.kind] # u.thread /\ T!Updated(s, u) = Renamed(s, u.kind, u.thread)
        /\ u.do = "remove" /\ u.kind \in T!AllKinds =>
             \/ T!Updated(s, u) = s
             \/ T!Meant(s, u) /\ s.threads[u.kind] # T!None /\ T!Updated(s, u) = Renamed(s, u.kind, T!None)
<1>1. s = Snap(s.on, s.group, s.threads, s.cache, s.mrev, s.drev)
  BY SnapshotFields
<1>2. CASE u.do = "mark"
  <2>1. T!Updated(s, u) = T!mark_message_sent(s, u)
    BY <1>2 DEF T!Updated
  <2> QED
    BY <1>1, <1>2, <2>1 DEF T!mark_message_sent, Snap
<1>3. CASE u.do = "enable"
  <2>1. T!Updated(s, u) = T!set_enabled(s, u)
    BY <1>3 DEF T!Updated
  <2> QED
    BY <1>1, <1>3, <2>1 DEF T!set_enabled, Snap
<1>4. CASE u.do = "group"
  <2>1. T!Updated(s, u) = T!set_group_id(s, u)
    BY <1>4 DEF T!Updated
  <2> QED
    BY <1>1, <1>4, <2>1 DEF T!set_group_id, Snap
<1>5. CASE u.do = "clear"
  <2>1. T!Updated(s, u) = T!clear_all_topics(s)
    BY <1>5 DEF T!Updated
  <2> QED
    BY <1>1, <1>5, <2>1 DEF T!clear_all_topics, Snap
<1>6. CASE u.do = "forget"
  <2>1. T!Updated(s, u) = T!clear_message_cache(s)
    BY <1>6 DEF T!Updated
  <2> QED
    BY <1>1, <1>6, <2>1 DEF T!clear_message_cache, Snap
<1>7. CASE u.do = "install" /\ u.kind \in T!AllKinds
  <2>1. T!Updated(s, u) = T!set_topic_id(s, u)
    BY <1>7 DEF T!Updated
  <2> QED
    BY <1>7, <2>1, RenamedThread DEF T!set_topic_id
<1>8. CASE u.do = "remove" /\ u.kind \in T!AllKinds
  <2>1. T!Updated(s, u) = T!remove_topic(s, u)
    BY <1>8 DEF T!Updated
  <2> QED
    BY <1>8, <2>1, RenamedThread DEF T!remove_topic
<1> QED
  BY <1>2, <1>3, <1>4, <1>5, <1>6, <1>7, <1>8
AskRight(u, s, f, r) == UpdateRight(u, s, f) \/ MarkRight(u, s, r)
Full(s) == [s EXCEPT !.cache = Kinds]
KeptOf(s, u, r) == [k \in Kinds |-> IF k \in T!Updated(Full(s), u).cache THEN r[k] ELSE {}]
Outdated(s, t) == t.mrev > s.mrev \/ t.drev > s.drev

LEMMA FullFields ==
  ASSUME NEW s \in Snapshots
  PROVE /\ Full(s) \in Snapshots /\ Full(s).cache = Kinds /\ Full(s).threads = s.threads /\ Full(s).group = s.group
        /\ Full(s).on = s.on /\ Full(s).mrev = s.mrev /\ Full(s).drev = s.drev
BY DEF Full, Snapshots

\* An update leaves a snapshot of the forum, and what it drops makes older places stale.
LEMMA UpdateSound ==
  ASSUME NEW s \in Snapshots, NEW u, NEW f \in Seq(Threads), NEW r, AskRight(u, s, f, r),
         Known(s, f), Stands(s, r), T!Updated(s, u) # s
  PROVE /\ T!Updated(s, u) \in Snapshots /\ Known(T!Updated(s, u), f)
        /\ T!Updated(s, u).mrev >= s.mrev /\ T!Updated(s, u).drev >= s.drev
        /\ Stands(T!Updated(s, u), KeptOf(s, u, r))
        /\ KeptOf(s, u, r) = [k \in Kinds |-> r[k]] \/ Outdated(s, T!Updated(s, u))
<1> DEFINE n == T!Updated(s, u)
<1> DEFINE kp == KeptOf(s, u, r)
<1>1. /\ s.on \in BOOLEAN /\ s.group \in Groups \cup {T!None} /\ s.threads \in [T!AllKinds -> Nat]
      /\ s.cache \subseteq Kinds /\ s.mrev \in Nat /\ s.drev \in Nat
  BY SnapshotFields
<1>2. /\ Full(s) \in Snapshots /\ Full(s).cache = Kinds /\ Full(s).threads = s.threads /\ Full(s).group = s.group
      /\ Full(s).on = s.on /\ Full(s).mrev = s.mrev /\ Full(s).drev = s.drev
  BY FullFields
<1>3. ASSUME NEW g \in Groups \cup {T!None}, NEW t \in {s.threads, T!NoThreads}, g = s.group \/ t = T!NoThreads,
             NEW o \in BOOLEAN, NEW m \in {s.mrev, s.mrev + 1}, NEW d \in {s.drev, s.drev + 1},
             m > s.mrev \/ d > s.drev, n = Snap(o, g, t, {}, m, d)
      PROVE /\ n \in Snapshots /\ Known(n, f) /\ n.mrev >= s.mrev /\ n.drev >= s.drev
            /\ Stands(n, kp) /\ Outdated(s, n)
  <2>1. n.on = o /\ n.group = g /\ n.threads = t /\ n.cache = {} /\ n.mrev = m /\ n.drev = d
    BY <1>3, SnapFields
  <2>2. t \in [T!AllKinds -> Nat]
    BY <1>1, NoThreadsTyped
  <2> HIDE DEF n, kp
  <2>3. n \in Snapshots
    <3>1. {} \in SUBSET Kinds /\ m \in Nat /\ d \in Nat
      BY <1>1
    <3>2. Snap(o, g, t, {}, m, d) \in Snapshots
      BY <2>2, <3>1, SnapIsSnapshot
    <3> QED
      BY <1>3, <3>2 DEF n
  <2>4. Known(n, f)
    BY <1>3, <2>1 DEF Known, T!NoThreads
  <2> QED
    BY <1>1, <1>3, <2>1, <2>3, <2>4 DEF Stands, Outdated
<1>4. ASSUME NEW t \in Nat, n = Renamed(s, u.kind, t), u.do \in {"install", "remove"}, u.kind \in T!AllKinds,
             t # T!None => t \in DOMAIN f /\ f[t].chat = s.group,
             \A k \in Left(s.cache, u.kind) : k \in T!Updated(Full(s), u).cache
      PROVE /\ n \in Snapshots /\ Known(n, f) /\ n.mrev >= s.mrev /\ n.drev >= s.drev
            /\ Stands(n, kp) /\ Outdated(s, n)
  <2> DEFINE Renaming == [s.threads EXCEPT ![u.kind] = t]
  <2>1. Renaming \in [T!AllKinds -> Nat] /\ Renaming[u.kind] = t /\ \A k \in T!AllKinds : k # u.kind => Renaming[k] = s.threads[k]
    BY <1>1, <1>4
  <2> HIDE DEF Renaming
  <2>2. n = Snap(s.on, s.group, Renaming, Left(s.cache, u.kind), s.mrev, s.drev + 1)
    BY <1>4 DEF Renamed, Renaming
  <2>3. /\ n.on = s.on /\ n.group = s.group /\ n.threads = Renaming /\ n.cache = Left(s.cache, u.kind)
        /\ n.mrev = s.mrev /\ n.drev = s.drev + 1
    BY <2>2, SnapFields
  <2>4. n \in Snapshots
    <3>1. Left(s.cache, u.kind) \in SUBSET Kinds /\ s.drev + 1 \in Nat
      BY <1>1 DEF Left
    <3>2. Snap(s.on, s.group, Renaming, Left(s.cache, u.kind), s.mrev, s.drev + 1) \in Snapshots
      BY <1>1, <2>1, <3>1, SnapIsSnapshot
    <3> QED
      BY <2>2, <3>2
  <2> HIDE DEF n
  <2>5. Known(n, f)
    BY <1>1, <1>4, <2>1, <2>3 DEF Known
  <2>6. Stands(n, kp)
    <3> SUFFICES ASSUME NEW k \in Left(s.cache, u.kind) PROVE <<n.group, T!Thread(n, k)>> \in kp[k]
      BY <2>3 DEF Stands
    <3>1. k \in s.cache /\ k # u.kind /\ u.kind # T!General /\ k \in Kinds /\ k \in T!AllKinds /\ T!General \in T!AllKinds
      BY <1>1 DEF Left, T!AllKinds
    <3>2. kp[k] = r[k]
      BY <1>4, <3>1 DEF KeptOf
    <3>3. T!Thread(n, k) = T!Thread(s, k)
      BY <2>1, <2>3, <3>1 DEF T!Thread
    <3> QED
      BY <2>3, <3>1, <3>2, <3>3 DEF Stands
  <2> QED
    BY <1>1, <2>3, <2>4, <2>5, <2>6 DEF Outdated
<1>5. ASSUME NEW c \in SUBSET Kinds, NEW o \in BOOLEAN, n = Snap(o, s.group, s.threads, c, s.mrev, s.drev),
             \A k \in c : k \in s.cache \/ <<s.group, T!Thread(s, k)>> \in r[k],
             T!Updated(Full(s), u).cache = Kinds
      PROVE /\ n \in Snapshots /\ Known(n, f) /\ n.mrev >= s.mrev /\ n.drev >= s.drev
            /\ Stands(n, kp) /\ kp = [k \in Kinds |-> r[k]]
  <2>1. /\ n.on = o /\ n.group = s.group /\ n.threads = s.threads /\ n.cache = c
        /\ n.mrev = s.mrev /\ n.drev = s.drev
    BY <1>5, SnapFields
  <2>2. n \in Snapshots
    <3>1. Snap(o, s.group, s.threads, c, s.mrev, s.drev) \in Snapshots
      BY <1>1, SnapIsSnapshot
    <3> QED
      BY <1>5, <3>1
  <2>3. kp = [k \in Kinds |-> r[k]]
    BY <1>5 DEF KeptOf
  <2> HIDE DEF n, kp
  <2>4. Known(n, f)
    BY <2>1 DEF Known
  <2>5. Stands(n, kp)
    <3> SUFFICES ASSUME NEW k \in c PROVE <<s.group, T!Thread(n, k)>> \in kp[k]
      BY <2>1 DEF Stands
    <3>1. T!Thread(n, k) = T!Thread(s, k)
      BY <2>1 DEF T!Thread
    <3>2. <<s.group, T!Thread(s, k)>> \in r[k]
      BY <1>5 DEF Stands
    <3> QED
      BY <2>3, <3>1, <3>2
  <2> QED
    BY <1>1, <2>1, <2>2, <2>3, <2>4, <2>5
<1>6. CASE MarkRight(u, s, r)
  <2>1. u.do = "mark" /\ u.kind \in Kinds
    BY <1>6 DEF MarkRight
  <2>2. T!SamePlace(s, u) /\ n = Snap(s.on, s.group, s.threads, s.cache \cup {u.kind}, s.mrev, s.drev)
    BY <2>1, UpdateCases
  <2>3. T!Updated(Full(s), u).cache = Kinds
    <3>1. T!Updated(Full(s), u) = Full(s) \/
          T!Updated(Full(s), u) = Snap(Full(s).on, Full(s).group, Full(s).threads, Full(s).cache \cup {u.kind}, Full(s).mrev, Full(s).drev)
      BY <1>2, <2>1, UpdateCases
    <3>2. T!Updated(Full(s), u).cache \in {Kinds, Kinds \cup {u.kind}}
      BY <1>2, <3>1, SnapFields
    <3> QED
      BY <2>1, <3>2
  <2>4. <<s.group, T!Thread(s, u.kind)>> \in r[u.kind]
    BY <1>6, <2>2 DEF MarkRight, T!SamePlace
  <2>5. s.cache \cup {u.kind} \in SUBSET Kinds
    BY <1>1, <2>1
  <2> HIDE DEF n, kp
  <2>6. \A k \in s.cache \cup {u.kind} : k \in s.cache \/ <<s.group, T!Thread(s, k)>> \in r[k]
    BY <2>4
  <2> QED
    BY <1>1, <1>5, <2>2, <2>3, <2>5, <2>6 DEF n, kp
<1>7. CASE UpdateRight(u, s, f)
  <2>0. u.do \in {"enable", "group", "clear", "forget", "install", "remove"}
    BY <1>7 DEF UpdateRight
  <2>1. CASE u.do = "enable"
    <3>1. CASE s.on /\ ~u.on
      <4>1. n = Snap(FALSE, s.group, s.threads, {}, s.mrev + 1, s.drev)
        BY <2>1, <3>1, UpdateCases
      <4> HIDE DEF n, kp
      <4>2. s.mrev + 1 > s.mrev
        BY <1>1
      <4> QED
        BY <1>1, <1>3, <4>1, <4>2 DEF n, kp
    <3>2. CASE ~(s.on /\ ~u.on)
      <4>1. n = Snap(u.on, s.group, s.threads, s.cache, s.mrev, s.drev)
        BY <2>1, <3>2, UpdateCases
      <4>2. T!Updated(Full(s), u).cache = Kinds
        <5>1. T!Updated(Full(s), u) = Snap(u.on, Full(s).group, Full(s).threads, Full(s).cache, Full(s).mrev, Full(s).drev)
          BY <1>2, <2>1, <3>2, UpdateCases
        <5> QED
          BY <1>2, <5>1, SnapFields
      <4>3. u.on \in BOOLEAN
        BY <1>7, <2>1 DEF UpdateRight
      <4> HIDE DEF n, kp
      <4> QED
        BY <1>1, <1>5, <4>1, <4>2, <4>3 DEF n, kp
    <3> QED
      BY <3>1, <3>2
  <2>2. CASE u.do = "group"
    <3>1. n = Snap(s.on, u.group, T!NoThreads, {}, s.mrev, s.drev + 1)
      BY <2>2, UpdateCases
    <3>2. u.group \in Groups /\ s.drev + 1 > s.drev
      BY <1>1, <1>7, <2>2 DEF UpdateRight
    <3> HIDE DEF n, kp
    <3> QED
      BY <1>1, <1>3, <3>1, <3>2 DEF n, kp
  <2>3. CASE u.do = "clear"
    <3>1. n = Snap(s.on, s.group, T!NoThreads, {}, s.mrev, s.drev + 1)
      BY <2>3, UpdateCases
    <3>2. s.drev + 1 > s.drev
      BY <1>1
    <3> HIDE DEF n, kp
    <3> QED
      BY <1>1, <1>3, <3>1, <3>2 DEF n, kp
  <2>4. CASE u.do = "forget"
    <3>1. n = Snap(s.on, s.group, s.threads, {}, s.mrev, s.drev + 1)
      BY <2>4, UpdateCases
    <3>2. s.drev + 1 > s.drev
      BY <1>1
    <3> HIDE DEF n, kp
    <3> QED
      BY <1>1, <1>3, <3>1, <3>2 DEF n, kp
  <2>5. CASE u.do = "install"
    <3>1. u.kind \in T!AllKinds /\ u.thread \in DOMAIN f /\ f[u.thread].chat = u.group
      BY <1>7, <2>5 DEF UpdateRight
    <3>2. T!Meant(s, u) /\ n = Renamed(s, u.kind, u.thread)
      BY <2>5, <3>1, UpdateCases
    <3>3. T!Updated(Full(s), u).cache \in {Kinds, Left(Kinds, u.kind)}
      <4>1. T!Updated(Full(s), u) = Full(s) \/ T!Updated(Full(s), u) = Renamed(Full(s), u.kind, u.thread)
        BY <1>2, <2>5, <3>1, UpdateCases
      <4> QED
        BY <1>2, <4>1, SnapFields DEF Renamed
    <3>4. \A k \in Left(s.cache, u.kind) : k \in T!Updated(Full(s), u).cache
      BY <1>1, <3>3 DEF Left
    <3>5. u.thread \in Nat /\ f[u.thread].chat = s.group
      BY <3>1, <3>2 DEF T!Meant
    <3> HIDE DEF n, kp
    <3> QED
      BY <1>4, <2>5, <3>1, <3>2, <3>4, <3>5 DEF n, kp
  <2>6. CASE u.do = "remove"
    <3>1. u.kind \in T!AllKinds
      BY <1>7, <2>6 DEF UpdateRight
    <3>2. n = Renamed(s, u.kind, T!None)
      BY <2>6, <3>1, UpdateCases
    <3>3. T!Updated(Full(s), u).cache \in {Kinds, Left(Kinds, u.kind)}
      <4>1. T!Updated(Full(s), u) = Full(s) \/ T!Updated(Full(s), u) = Renamed(Full(s), u.kind, T!None)
        BY <1>2, <2>6, <3>1, UpdateCases
      <4> QED
        BY <1>2, <4>1, SnapFields DEF Renamed
    <3>4. \A k \in Left(s.cache, u.kind) : k \in T!Updated(Full(s), u).cache
      BY <1>1, <3>3 DEF Left
    <3>5. T!None \in Nat
      BY DEF T!None
    <3> HIDE DEF n, kp
    <3> QED
      BY <1>4, <2>6, <3>1, <3>2, <3>4, <3>5 DEF n, kp
  <2> QED
    BY <2>0, <2>1, <2>2, <2>3, <2>4, <2>5, <2>6
<1> QED
  BY <1>6, <1>7 DEF AskRight
------------------------------------------------------------------------------
Grows(f, g) == DOMAIN f \subseteq DOMAIN g /\ \A t \in DOMAIN f : g[t].chat = f[t].chat /\ (g[t].alive => f[t].alive)

LEMMA KnownGrows == ASSUME NEW s, NEW f, NEW g, Known(s, f), Grows(f, g) PROVE Known(s, g)
BY DEF Known, Grows

LEMMA UpdateGrows ==
  ASSUME NEW u, NEW s, NEW f, NEW g, Known(s, f), Grows(f, g), UpdateRight(u, s, f)
  PROVE UpdateRight(u, s, g)
BY DEF Known, Grows, UpdateRight

LEMMA Appended ==
  ASSUME NEW f \in Seq(Threads), NEW t \in Threads
  PROVE /\ Append(f, t) \in Seq(Threads) /\ Grows(f, Append(f, t))
        /\ Len(Append(f, t)) \in DOMAIN Append(f, t) /\ Append(f, t)[Len(Append(f, t))] = t
BY DEF Grows

LEMMA Deleted ==
  ASSUME NEW f \in Seq(Threads), NEW t \in 1..Len(f)
  PROVE [f EXCEPT ![t].alive = FALSE] \in Seq(Threads) /\ Grows(f, [f EXCEPT ![t].alive = FALSE])
<1> DEFINE r == [f[t] EXCEPT !.alive = FALSE]
<1> DEFINE g == [f EXCEPT ![t] = r]
<1>1. f[t] \in Threads /\ f[t] = [chat |-> f[t].chat, alive |-> f[t].alive]
  <2>1. f[t] \in Threads
    OBVIOUS
  <2> QED
    BY <2>1 DEF Threads
<1>2. r \in Threads /\ r.chat = f[t].chat /\ ~r.alive
  BY <1>1 DEF Threads
<1>3. [f EXCEPT ![t].alive = FALSE] = g
  OBVIOUS
<1> HIDE DEF r
<1>4. g \in Seq(Threads) /\ DOMAIN g = DOMAIN f /\ g[t] = r /\ \A i \in DOMAIN f : i # t => g[i] = f[i]
  BY <1>2
<1> HIDE DEF g
<1>5. Grows(f, g)
  BY <1>2, <1>4 DEF Grows
<1> QED
  BY <1>3, <1>4, <1>5

LEMMA TopicsInitially == T!Init => TopicsInv
<1> SUFFICES ASSUME T!Init PROVE TopicsInv
  OBVIOUS
<1>1. published = Snap(FALSE, T!None, T!NoThreads, {}, 0, 0) /\ topicsFile = published
  BY DEF T!Init, Snap
<1>2. published \in Snapshots
  <2>1. Snap(FALSE, T!None, T!NoThreads, {}, 0, 0) \in Snapshots
    BY NoThreadsTyped, SnapIsSnapshot
  <2> QED
    BY <1>1, <2>1
<1>3. published.threads = T!NoThreads /\ published.cache = {}
  BY <1>1 DEF Snap
<1>4. Known(published, forum) /\ Stands(published, reached)
  BY <1>3 DEF Known, Stands, T!NoThreads
<1>5. OpRight
  BY DEF T!Init, T!OpIdle, OpRight, OpPcs, T!AllKinds
<1>6. /\ topicsWrite = [by |-> topicsWrite.by, to |-> topicsWrite.to] /\ topicsWrite.by = T!Nobody
      /\ \A m \in Observations : msg[m].at = "none"
  BY DEF T!Init, T!NotWriting, T!NotSent
<1>7. msg = [m \in Observations |-> msg[m]] /\ reached = [k \in Kinds |-> reached[k]] /\ forum \in Seq(Threads)
  BY DEF T!Init
<1> QED
  BY <1>1, <1>2, <1>4, <1>5, <1>6, <1>7 DEF TopicsInv, TopicsTypeOK, MsgRight, WriteRight

\* What the operator asks for, or the dispatcher, is right while it waits for the lock or holds it.
LEMMA Asked ==
  ASSUME TopicsInv, NEW c \in T!Callers,
         IF c = T!Operator THEN op.pc = "update" ELSE msg[c].at = "settle"
  PROVE AskRight(T!UpdateOf(c), published, forum, reached)
<1>1. CASE c = T!Operator
  BY <1>1 DEF TopicsInv, OpRight, T!UpdateOf, AskRight
<1>2. CASE c # T!Operator
  <2>1. c \in Observations /\ MsgRight(msg[c], published, reached) /\ msg[c].at = "settle"
    BY <1>2 DEF T!Callers, TopicsInv
  <2>2. T!UpdateOf(c) = [do |-> "mark", kind |-> msg[c].kind, chat |-> msg[c].chat, thread |-> msg[c].thread,
        mrev |-> msg[c].mrev, drev |-> msg[c].drev]
    BY <1>2 DEF T!UpdateOf
  <2> QED
    BY <2>1, <2>2 DEF MarkRight, AskRight, MsgRight
<1> QED
  BY <1>1, <1>2

LEMMA TopicsOperatorKeeps ==
  ASSUME TopicsInv, UNCHANGED <<published, topicsFile, topicsWrite, msg, reached>>, forum' \in Seq(Threads), Grows(forum, forum'),
         OpRight', op.pc # "update" \/ op' = op
  PROVE TopicsInv'
<1>1. Known(published, forum)' /\ Known(topicsFile, forum)'
  BY KnownGrows DEF TopicsInv
<1>2. WriteRight'
  <2> SUFFICES ASSUME topicsWrite.by # T!Nobody
      PROVE /\ topicsWrite.by = T!Operator => op'.pc = "update"
            /\ topicsWrite.by # T!Operator => msg[topicsWrite.by].at = "settle"
            /\ topicsWrite.to = T!Updated(published, T!UpdateOf(topicsWrite.by))' /\ topicsWrite.to # published
    BY DEF WriteRight
  <2>1. T!UpdateOf(topicsWrite.by)' = T!UpdateOf(topicsWrite.by)
    BY DEF T!UpdateOf, TopicsInv, WriteRight
  <2> QED
    BY <2>1 DEF TopicsInv, WriteRight
<1>3. TopicsTypeOK'
  BY DEF TopicsInv, TopicsTypeOK
<1>4. Stands(published, reached)' /\ Stands(topicsFile, reached)'
  BY DEF TopicsInv, Stands
<1>5. \A m \in Observations : MsgRight(msg[m], published, reached)'
  BY DEF TopicsInv, MsgRight
<1> QED
  BY <1>1, <1>2, <1>3, <1>4, <1>5 DEF TopicsInv

LEMMA MessageKeeps ==
  ASSUME TopicsInv, NEW m \in Observations, NEW x, UNCHANGED <<published, topicsFile, topicsWrite, op, forum>>,
         msg' = [msg EXCEPT ![m] = x], MsgRight(x, published, reached'), msg[m].at # "settle",
         reached' = [k \in Kinds |-> reached'[k]], \A k \in Kinds : reached[k] \subseteq reached'[k]
  PROVE TopicsInv'
<1>1. msg'[m] = x /\ (\A n \in Observations : n # m => msg'[n] = msg[n]) /\ msg' = [n \in Observations |-> msg'[n]]
  BY DEF TopicsInv, TopicsTypeOK
<1>2. \A n \in Observations : MsgRight(msg[n], published, reached)'
  <2> SUFFICES ASSUME NEW n \in Observations PROVE MsgRight(msg'[n], published, reached')
    OBVIOUS
  <2>1. CASE n = m
    BY <1>1, <2>1
  <2>2. CASE n # m
    <3>1. MsgRight(msg[n], published, reached)
      BY DEF TopicsInv
    <3> QED
      BY <1>1, <2>2, <3>1 DEF MsgRight
  <2> QED
    BY <2>1, <2>2
<1>3. Stands(published, reached)' /\ Stands(topicsFile, reached)'
  <2>1. published.cache \subseteq Kinds /\ topicsFile.cache \subseteq Kinds
    BY SnapshotFields DEF TopicsInv, TopicsTypeOK
  <2> QED
    BY <2>1 DEF TopicsInv, Stands, T!Thread
<1>4. WriteRight'
  <2> SUFFICES ASSUME topicsWrite.by # T!Nobody
      PROVE /\ topicsWrite.by = T!Operator => op'.pc = "update"
            /\ topicsWrite.by # T!Operator => msg'[topicsWrite.by].at = "settle"
            /\ topicsWrite.to = T!Updated(published, T!UpdateOf(topicsWrite.by))' /\ topicsWrite.to # published
    BY DEF WriteRight
  <2>1. WriteRight
    BY DEF TopicsInv
  <2>2. topicsWrite.by # m
    BY <2>1, CallersApart DEF WriteRight
  <2>3. topicsWrite.by # T!Operator => topicsWrite.by \in Observations /\ msg'[topicsWrite.by] = msg[topicsWrite.by]
    BY <1>1, <2>2 DEF TopicsInv, TopicsTypeOK, T!Callers
  <2>4. T!UpdateOf(topicsWrite.by)' = T!UpdateOf(topicsWrite.by)
    BY <2>3 DEF T!UpdateOf
  <2> QED
    BY <2>1, <2>3, <2>4 DEF WriteRight
<1>5. TopicsTypeOK'
  BY <1>1 DEF TopicsInv, TopicsTypeOK
<1>6. OpRight' /\ Known(published, forum)' /\ Known(topicsFile, forum)'
  BY DEF TopicsInv, OpRight, Known, UpdateRight
<1> QED
  BY <1>2, <1>3, <1>4, <1>5, <1>6 DEF TopicsInv
LEMMA OpBecomes ==
  ASSUME NEW p \in OpPcs, NEW g \in Groups \cup {T!None}, NEW rev, NEW left \in SUBSET T!AllKinds, NEW k \in T!AllKinds,
         NEW t, NEW u,
         op' = [pc |-> p, group |-> g, rev |-> rev, left |-> left, kind |-> k, thread |-> t, update |-> u],
         p = "create" => published'.threads[k] = T!None,
         p = "update" => UpdateRight(u, published', forum') /\ (u.do \in {"install", "remove"} => u.kind = k)
  PROVE OpRight'
<1>1. /\ op'.pc = p /\ op'.group = g /\ op'.rev = rev /\ op'.left = left /\ op'.kind = k /\ op'.thread = t
      /\ op'.update = u
  OBVIOUS
<1>2. op' = [pc |-> op'.pc, group |-> op'.group, rev |-> op'.rev, left |-> op'.left, kind |-> op'.kind,
           thread |-> op'.thread, update |-> op'.update]
  BY <1>1
<1> QED
  BY <1>1, <1>2 DEF OpRight

LEMMA OpIdles == ASSUME op' = T!OpIdle PROVE OpRight'
<1>1. op' = [pc |-> "idle", group |-> T!None, rev |-> 0, left |-> {}, kind |-> T!General, thread |-> T!None, update |-> T!NoUpdate]
  BY DEF T!OpIdle
<1>2. "idle" \in OpPcs /\ T!General \in T!AllKinds /\ {} \in SUBSET T!AllKinds
  BY DEF OpPcs, T!AllKinds
<1> QED
  BY <1>1, <1>2, OpBecomes

LEMMA SameForum == Grows(forum, forum)
BY DEF Grows

LEMMA PressKeeps ==
  ASSUME TopicsInv, NEW u, T!Press(u), u.do \in {"enable", "group", "clear", "forget"},
         u.do = "enable" => u.on \in BOOLEAN, u.do = "group" => u.group \in Groups
  PROVE TopicsInv'
<1>1. UNCHANGED <<published, topicsFile, topicsWrite, msg, forum, reached>> /\ op.pc = "idle"
      /\ op' = [T!OpIdle EXCEPT !.pc = "update", !.update = u]
  BY DEF T!Press
<1>2. op' = [pc |-> "update", group |-> T!None, rev |-> 0, left |-> {}, kind |-> T!General, thread |-> T!None, update |-> u]
  BY <1>1 DEF T!OpIdle
<1>3. "update" \in OpPcs /\ T!General \in T!AllKinds /\ {} \in SUBSET T!AllKinds
  BY DEF OpPcs, T!AllKinds
<1>4. UpdateRight(u, published', forum') /\ u.do \notin {"install", "remove"}
  BY DEF UpdateRight
<1>5. OpRight'
  BY <1>2, <1>3, <1>4, OpBecomes
<1>6. forum' \in Seq(Threads) /\ Grows(forum, forum')
  BY <1>1, SameForum DEF TopicsInv, TopicsTypeOK
<1> QED
  BY <1>1, <1>5, <1>6, TopicsOperatorKeeps

LEMMA CommandsKeep == ASSUME TopicsInv, T!Commands PROVE TopicsInv'
<1>1. CASE T!topics_toggle
  <2> DEFINE u == [do |-> "enable", on |-> ~published.on]
  <2>1. u.do = "enable" /\ u.on \in BOOLEAN
    OBVIOUS
  <2>2. T!Press(u)
    BY <1>1 DEF T!topics_toggle
  <2> HIDE DEF u
  <2> QED
    BY <2>1, <2>2, PressKeeps
<1>2. CASE T!topics_set_group_receive
  <2>1. PICK g \in Groups : T!Press([do |-> "group", group |-> g])
    BY <1>2 DEF T!topics_set_group_receive
  <2> DEFINE u == [do |-> "group", group |-> g]
  <2>2. u.do = "group" /\ u.group \in Groups /\ T!Press(u)
    BY <2>1
  <2> HIDE DEF u
  <2> QED
    BY <2>2, PressKeeps
<1>3. CASE T!topics_clear
  <2> DEFINE u == [do |-> "clear"]
  <2>1. u.do = "clear" /\ T!Press(u)
    BY <1>3 DEF T!topics_clear
  <2> HIDE DEF u
  <2> QED
    BY <2>1, PressKeeps
<1>4. CASE T!topics_clear_cache
  <2> DEFINE u == [do |-> "forget"]
  <2>1. u.do = "forget" /\ T!Press(u)
    BY <1>4 DEF T!topics_clear_cache
  <2> HIDE DEF u
  <2> QED
    BY <2>1, PressKeeps
<1>5. CASE T!topics_setup
  <2>1. UNCHANGED <<published, topicsFile, topicsWrite, msg, forum, reached>> /\ op.pc = "idle"
        /\ op' = [T!OpIdle EXCEPT !.pc = "next", !.group = published.group, !.rev = published.drev, !.left = T!AllKinds]
    BY <1>5 DEF T!topics_setup
  <2>2. op' = [pc |-> "next", group |-> published.group, rev |-> published.drev, left |-> T!AllKinds, kind |-> T!General,
               thread |-> T!None, update |-> T!NoUpdate]
    BY <2>1 DEF T!OpIdle
  <2>3. published.group \in Groups \cup {T!None}
    BY SnapshotFields DEF TopicsInv, TopicsTypeOK
  <2>4. "next" \in OpPcs /\ T!General \in T!AllKinds /\ T!AllKinds \in SUBSET T!AllKinds
    BY DEF OpPcs, T!AllKinds
  <2>5. OpRight'
    BY <2>2, <2>3, <2>4, OpBecomes
  <2>6. forum' \in Seq(Threads) /\ Grows(forum, forum')
    BY <2>1, SameForum DEF TopicsInv, TopicsTypeOK
  <2> QED
    BY <2>1, <2>5, <2>6, TopicsOperatorKeeps
<1> QED
  BY <1>1, <1>2, <1>3, <1>4, <1>5 DEF T!Commands

LEMMA NextKindKeeps == ASSUME TopicsInv, T!NextKind PROVE TopicsInv'
<1>1. UNCHANGED <<published, topicsFile, topicsWrite, msg, forum, reached>> /\ op.pc = "next" /\ OpRight
  BY DEF T!NextKind, T!SetupFrame, TopicsInv
<1>2. OpRight'
  <2>1. CASE op' = T!OpIdle
    BY <2>1, OpIdles
  <2>2. CASE op' # T!OpIdle
    <3>1. PICK k \in op.left :
            op' = [op EXCEPT !.pc = IF published.threads[k] # T!None THEN "verify" ELSE "create", !.kind = k, !.left = @ \ {k}]
      BY <2>2 DEF T!NextKind
    <3> DEFINE p == IF published.threads[k] # T!None THEN "verify" ELSE "create"
    <3>2. op' = [op EXCEPT !.pc = p, !.kind = k, !.left = @ \ {k}]
      BY <3>1
    <3>3. p \in OpPcs /\ p # "update" /\ (p = "create" => published.threads[k] = T!None)
      BY DEF OpPcs
    <3> HIDE DEF p
    <3>4. op' = [pc |-> p, group |-> op.group, rev |-> op.rev, left |-> op.left \ {k}, kind |-> k,
                 thread |-> op.thread, update |-> op.update]
      BY <1>1, <3>2 DEF OpRight
    <3>5. op.group \in Groups \cup {T!None} /\ op.left \ {k} \in SUBSET T!AllKinds /\ k \in T!AllKinds
      BY <1>1 DEF OpRight
    <3> QED
      BY <1>1, <3>3, <3>4, <3>5, OpBecomes
  <2> QED
    BY <2>1, <2>2
<1>3. forum' \in Seq(Threads) /\ Grows(forum, forum')
  BY <1>1, SameForum DEF TopicsInv, TopicsTypeOK
<1> QED
  BY <1>1, <1>2, <1>3, TopicsOperatorKeeps

LEMMA VerifyKeeps == ASSUME TopicsInv, T!Verify PROVE TopicsInv'
<1>1. UNCHANGED <<published, topicsFile, topicsWrite, msg, forum, reached>> /\ op.pc = "verify" /\ OpRight
  BY DEF T!Verify, T!SetupFrame, TopicsInv
<1>2. OpRight'
  <2>1. CASE op' = T!OpIdle
    BY <2>1, OpIdles
  <2>2. CASE op' # T!OpIdle
    <3> DEFINE u == [do |-> "remove", kind |-> op.kind, group |-> op.group, rev |-> op.rev]
    <3>1. PICK outcome \in {"verified", "missing", "unsure"} :
            /\ outcome = "unsure" \/ (outcome = "verified" <=> T!Alive(published.threads[op.kind]))
            /\ op' = [op EXCEPT !.pc = T!Probe(outcome), !.update = u]
      BY <2>2 DEF T!Verify
    <3>2. T!Probe(outcome) \in {"next", "update"} /\ (T!Probe(outcome) = "update" => outcome = "missing")
      BY DEF T!Probe
    <3>3. T!Probe(outcome) = "update" => ~T!Alive(published.threads[op.kind])
      BY <3>1, <3>2
    <3>4. u.do = "remove" /\ u.kind = op.kind
      OBVIOUS
    <3> HIDE DEF u
    <3>5. op' = [pc |-> T!Probe(outcome), group |-> op.group, rev |-> op.rev, left |-> op.left, kind |-> op.kind,
                 thread |-> op.thread, update |-> u]
      BY <1>1, <3>1 DEF OpRight
    <3>6. T!Probe(outcome) \in OpPcs /\ T!Probe(outcome) # "create"
      BY <3>2 DEF OpPcs
    <3>7. op.group \in Groups \cup {T!None} /\ op.left \in SUBSET T!AllKinds /\ op.kind \in T!AllKinds
      BY <1>1 DEF OpRight
    <3>8. T!Probe(outcome) = "update" => UpdateRight(u, published', forum')
      BY <1>1, <3>3, <3>4, <3>7 DEF UpdateRight, T!Alive
    <3> QED
      BY <3>4, <3>5, <3>6, <3>7, <3>8, OpBecomes
  <2> QED
    BY <2>1, <2>2
<1>3. forum' \in Seq(Threads) /\ Grows(forum, forum')
  BY <1>1, SameForum DEF TopicsInv, TopicsTypeOK
<1> QED
  BY <1>1, <1>2, <1>3, TopicsOperatorKeeps

LEMMA CreateKeeps == ASSUME TopicsInv, T!CreateFails \/ T!Create PROVE TopicsInv'
<1>1. UNCHANGED <<published, topicsFile, topicsWrite, msg, reached>> /\ op.pc = "create" /\ OpRight /\ forum \in Seq(Threads)
  BY DEF T!CreateFails, T!Create, T!SetupFrame, TopicsInv, TopicsTypeOK
<1>2. op.group \in Groups \cup {T!None} /\ op.left \in SUBSET T!AllKinds /\ op.kind \in T!AllKinds /\ published.threads[op.kind] = T!None
  BY <1>1 DEF OpRight
<1> DEFINE new == [chat |-> op.group, alive |-> TRUE]
<1>3. new \in Threads /\ new.chat = op.group
  BY <1>2 DEF Threads
<1> HIDE DEF new
<1>4. /\ Append(forum, new) \in Seq(Threads) /\ Grows(forum, Append(forum, new))
      /\ Len(Append(forum, new)) \in DOMAIN Append(forum, new) /\ Append(forum, new)[Len(Append(forum, new))] = new
  BY <1>1, <1>3, Appended
<1>5. forum' \in {forum, Append(forum, new)}
  BY DEF T!CreateFails, T!Create, T!SetupFrame, new
<1>6. forum' \in Seq(Threads) /\ Grows(forum, forum')
  BY <1>1, <1>4, <1>5, SameForum
<1>7. OpRight'
  <2>1. CASE op' = T!OpIdle
    BY <2>1, OpIdles
  <2>2. CASE op' = [op EXCEPT !.pc = "next"]
    <3>1. op' = [pc |-> "next", group |-> op.group, rev |-> op.rev, left |-> op.left, kind |-> op.kind,
                 thread |-> op.thread, update |-> op.update]
      BY <1>1, <2>2 DEF OpRight
    <3>2. "next" \in OpPcs
      BY DEF OpPcs
    <3> QED
      BY <1>2, <3>1, <3>2, OpBecomes
  <2>3. CASE /\ forum' = Append(forum, new)
             /\ op' = [op EXCEPT !.pc = "update", !.thread = Len(forum'),
                                 !.update = [do |-> "install", kind |-> op.kind, thread |-> Len(forum'),
                                             group |-> op.group, rev |-> op.rev]]
    <3> DEFINE u == [do |-> "install", kind |-> op.kind, thread |-> Len(forum'), group |-> op.group, rev |-> op.rev]
    <3>1. u.do = "install" /\ u.kind = op.kind /\ u.thread = Len(forum') /\ u.group = op.group
      OBVIOUS
    <3>2. op' = [op EXCEPT !.pc = "update", !.thread = Len(forum'), !.update = u]
      BY <2>3
    <3> HIDE DEF u
    <3>3. op' = [pc |-> "update", group |-> op.group, rev |-> op.rev, left |-> op.left, kind |-> op.kind,
                 thread |-> Len(forum'), update |-> u]
      BY <1>1, <3>2 DEF OpRight
    <3>4. u.thread \in DOMAIN forum' /\ forum'[u.thread].chat = u.group
      BY <1>3, <1>4, <2>3, <3>1
    <3>5. UpdateRight(u, published', forum')
      BY <1>1, <1>2, <3>1, <3>4 DEF UpdateRight
    <3>6. "update" \in OpPcs
      BY DEF OpPcs
    <3> QED
      BY <1>2, <3>1, <3>3, <3>5, <3>6, OpBecomes
  <2> QED
    BY <2>1, <2>2, <2>3 DEF T!CreateFails, T!Create, new
<1> QED
  BY <1>1, <1>6, <1>7, TopicsOperatorKeeps

LEMMA DeleteKeeps == ASSUME TopicsInv, NEW t \in 1..Len(forum), T!DeleteThread(t) PROVE TopicsInv'
<1>1. UNCHANGED <<published, topicsFile, topicsWrite, msg, reached, op>> /\ forum' = [forum EXCEPT ![t].alive = FALSE]
  BY DEF T!DeleteThread
<1>2. forum' \in Seq(Threads) /\ Grows(forum, forum')
  BY <1>1, Deleted DEF TopicsInv, TopicsTypeOK
<1>3. OpRight'
  <2>1. op.pc = "update" => UpdateRight(op.update, published, forum')
    BY <1>2, UpdateGrows DEF TopicsInv, OpRight
  <2> QED
    BY <1>1, <2>1 DEF TopicsInv, OpRight
<1> QED
  BY <1>1, <1>2, <1>3, TopicsOperatorKeeps

LEMMA MessagesKeep ==
  ASSUME TopicsInv, NEW m \in Observations, (\E k \in Kinds : T!Announce(m, k)) \/ T!Dropped(m) \/ T!Deliver(m) PROVE TopicsInv'
<1>1. UNCHANGED <<published, topicsFile, topicsWrite, op, forum>> /\ reached = [k \in Kinds |-> reached[k]] /\ MsgRight(msg[m], published, reached)
      /\ published.mrev \in Nat /\ published.drev \in Nat
  BY SnapshotFields DEF T!Announce, T!Dropped, T!Deliver, TopicsInv, TopicsTypeOK
<1>2. ASSUME NEW k \in Kinds, T!Announce(m, k) PROVE TopicsInv'
  <2> DEFINE new == [at |-> "queued", kind |-> k, chat |-> published.group, thread |-> T!Thread(published, k), mrev |-> published.mrev,
                     drev |-> published.drev]
  <2>1. msg' = [msg EXCEPT ![m] = new] /\ reached' = reached /\ msg[m].at = "none"
    BY <1>2 DEF T!Announce
  <2>2. MsgRight(new, published, reached')
    BY <1>1 DEF MsgRight
  <2> HIDE DEF new
  <2> QED
    BY <1>1, <2>1, <2>2, MessageKeeps
<1>3. CASE T!Dropped(m)
  <2>1. msg' = [msg EXCEPT ![m] = T!NotSent] /\ reached' = reached /\ msg[m].at = "queued"
    BY <1>3 DEF T!Dropped, T!Sending
  <2>2. MsgRight(T!NotSent, published, reached')
    BY DEF MsgRight, T!NotSent
  <2> QED
    BY <1>1, <2>1, <2>2, MessageKeeps
<1>4. CASE T!Deliver(m)
  <2> DEFINE x == IF published.group = msg[m].chat THEN [msg[m] EXCEPT !.at = "settle"] ELSE T!NotSent
  <2>1. /\ msg' = [msg EXCEPT ![m] = x] /\ msg[m].at = "queued"
        /\ reached' = [reached EXCEPT ![msg[m].kind] = @ \cup {<<msg[m].chat, msg[m].thread>>}]
    BY <1>4 DEF T!Deliver, T!Sending
  <2>2. msg[m].kind \in Kinds
    BY <1>1, <2>1 DEF MsgRight
  <2>3. /\ reached' = [k \in Kinds |-> reached'[k]] /\ \A k \in Kinds : reached[k] \subseteq reached'[k]
        /\ <<msg[m].chat, msg[m].thread>> \in reached'[msg[m].kind]
    BY <1>1, <2>1, <2>2
  <2>4. MsgRight(x, published, reached')
    <3>1. CASE x = T!NotSent
      BY <3>1 DEF MsgRight, T!NotSent
    <3>2. CASE x = [msg[m] EXCEPT !.at = "settle"]
      <4>1. /\ x.kind = msg[m].kind /\ x.chat = msg[m].chat /\ x.thread = msg[m].thread
            /\ x.mrev = msg[m].mrev /\ x.drev = msg[m].drev /\ x.at = "settle"
            /\ x = [at |-> x.at, kind |-> x.kind, chat |-> x.chat, thread |-> x.thread, mrev |-> x.mrev, drev |-> x.drev]
        <5>1. msg[m] = [at |-> msg[m].at, kind |-> msg[m].kind, chat |-> msg[m].chat, thread |-> msg[m].thread,
                        mrev |-> msg[m].mrev, drev |-> msg[m].drev]
          BY <1>1, <2>1 DEF MsgRight
        <5>2. x = [at |-> "settle", kind |-> msg[m].kind, chat |-> msg[m].chat, thread |-> msg[m].thread,
                   mrev |-> msg[m].mrev, drev |-> msg[m].drev]
          BY <3>2, <5>1
        <5> HIDE DEF x
        <5> QED
          BY <5>2
      <4> HIDE DEF x
      <4> QED
        BY <1>1, <2>1, <2>3, <4>1 DEF MsgRight
    <3> QED
      BY <3>1, <3>2
  <2> HIDE DEF x
  <2> QED
    BY <1>1, <2>1, <2>3, <2>4, MessageKeeps
<1> QED
  BY <1>2, <1>3, <1>4

------------------------------------------------------------------------------
(* The writes.                                                              *)

\* The dispatcher's update renames no thread; the operator's changes the thread he named only.
LEMMA ThreadsAfter ==
  ASSUME NEW s \in Snapshots, NEW u, NEW f, NEW r, AskRight(u, s, f, r), T!Updated(s, u) # s
  PROVE /\ u.do = "mark" => T!Updated(s, u).threads = s.threads
        /\ u.do = "remove" => T!Updated(s, u).threads[u.kind] = T!None
        /\ u.do \in {"install", "remove"} =>
             u.kind \in T!AllKinds /\ \A k \in T!AllKinds : k # u.kind => T!Updated(s, u).threads[k] = s.threads[k]
<1>1. s.threads \in [T!AllKinds -> Nat]
  BY SnapshotFields
<1>2. CASE u.do = "mark"
  <2>1. T!Updated(s, u) = Snap(s.on, s.group, s.threads, s.cache \cup {u.kind}, s.mrev, s.drev)
    BY <1>2, UpdateCases
  <2> QED
    BY <1>2, <2>1, SnapFields
<1>3. CASE u.do \in {"install", "remove"}
  <2>1. u.kind \in T!AllKinds
    BY <1>3 DEF AskRight, UpdateRight, MarkRight
  <2>2. PICK t : /\ T!Updated(s, u) = Renamed(s, u.kind, t) /\ (u.do = "remove" => t = T!None)
    BY <1>3, <2>1, UpdateCases
  <2>3. T!Updated(s, u).threads = [s.threads EXCEPT ![u.kind] = t]
    BY <2>2, SnapFields DEF Renamed
  <2> QED
    BY <1>1, <1>3, <2>1, <2>2, <2>3
<1> QED
  BY <1>2, <1>3

\* What the holder of the lock writes, against what is published.
LEMMA Writing ==
  ASSUME TopicsInv, topicsWrite.by # T!Nobody
  PROVE LET u == T!UpdateOf(topicsWrite.by) n == topicsWrite.to IN
    /\ topicsWrite.by \in T!Callers /\ AskRight(u, published, forum, reached) /\ n = T!Updated(published, u) /\ n # published
    /\ n \in Snapshots /\ Known(n, forum) /\ n.mrev >= published.mrev /\ n.drev >= published.drev
    /\ T!Kept(u) = KeptOf(published, u, reached) /\ Stands(n, T!Kept(u)) /\ (T!Kept(u) = reached \/ Outdated(published, n))
<1> DEFINE u == T!UpdateOf(topicsWrite.by)
<1>1. /\ topicsWrite.by \in T!Callers /\ u = T!UpdateOf(topicsWrite.by) /\ topicsWrite.to = T!Updated(published, u) /\ topicsWrite.to # published
      /\ IF topicsWrite.by = T!Operator THEN op.pc = "update" ELSE msg[topicsWrite.by].at = "settle"
  BY DEF TopicsInv, TopicsTypeOK, WriteRight
<1>2. AskRight(u, published, forum, reached)
  BY <1>1, Asked
<1>3. T!Kept(u) = KeptOf(published, u, reached)
  BY DEF T!Kept, KeptOf, Full
<1> HIDE DEF u
<1>4. /\ published \in Snapshots /\ forum \in Seq(Threads) /\ Known(published, forum) /\ Stands(published, reached)
      /\ reached = [k \in Kinds |-> reached[k]]
  BY DEF TopicsInv, TopicsTypeOK
<1>5. /\ T!Updated(published, u) \in Snapshots /\ Known(T!Updated(published, u), forum)
      /\ T!Updated(published, u).mrev >= published.mrev /\ T!Updated(published, u).drev >= published.drev
      /\ Stands(T!Updated(published, u), KeptOf(published, u, reached))
      /\ KeptOf(published, u, reached) = [k \in Kinds |-> reached[k]] \/ Outdated(published, T!Updated(published, u))
  BY <1>1, <1>2, <1>4, UpdateSound
<1> QED
  BY <1>1, <1>2, <1>3, <1>4, <1>5 DEF u

LEMMA UpdateKeeps == ASSUME TopicsInv, NEW c \in T!Callers, T!_update(c) PROVE TopicsInv'
<1>1. /\ UNCHANGED <<published, topicsFile, forum, reached>> /\ topicsWrite.by = T!Nobody /\ T!Waits(c)
  BY DEF T!_update
<1>2. c = T!Operator => op.pc = "update"
  BY <1>1 DEF T!Waits
<1>3. c # T!Operator => msg[c].at = "settle" /\ c \in Observations /\ c # T!Nobody
  BY <1>1, CallersApart DEF T!Waits, T!Callers
<1>4. CASE T!Returns(c, FALSE) /\ UNCHANGED topicsWrite
  <2>1. OpRight'
    <3>1. CASE c = T!Operator
      BY <1>4, <3>1, OpIdles DEF T!Returns, T!OpAfter
    <3>2. CASE c # T!Operator
      <4>1. op' = op
        BY <1>4, <3>2 DEF T!Returns
      <4> QED
        BY <1>1, <4>1 DEF TopicsInv, OpRight, UpdateRight
    <3> QED
      BY <3>1, <3>2
  <2>2. (\A m \in Observations : msg'[m] \in {msg[m], T!NotSent}) /\ msg' = [m \in Observations |-> msg'[m]]
    <3>1. CASE c = T!Operator
      BY <1>4, <3>1 DEF T!Returns, TopicsInv, TopicsTypeOK
    <3>2. CASE c # T!Operator
      BY <1>3, <1>4, <3>2 DEF T!Returns, TopicsInv, TopicsTypeOK
    <3> QED
      BY <3>1, <3>2
  <2>3. \A m \in Observations : MsgRight(msg[m], published, reached)'
    <3> SUFFICES ASSUME NEW m \in Observations PROVE MsgRight(msg'[m], published, reached)
      BY <1>1
    <3>1. MsgRight(msg[m], published, reached)
      BY DEF TopicsInv
    <3>2. MsgRight(T!NotSent, published, reached)
      BY DEF MsgRight, T!NotSent
    <3> QED
      BY <2>2, <3>1, <3>2
  <2>4. WriteRight'
    BY <1>1, <1>4 DEF WriteRight
  <2>5. TopicsTypeOK'
    BY <1>1, <1>4, <2>2 DEF TopicsInv, TopicsTypeOK
  <2> QED
    BY <1>1, <2>1, <2>3, <2>4, <2>5 DEF TopicsInv, Stands, Known
<1>5. CASE /\ topicsWrite' = [by |-> c, to |-> T!Updated(published, T!UpdateOf(c))] /\ UNCHANGED <<op, msg>>
           /\ T!Updated(published, T!UpdateOf(c)) # published
  <2>1. topicsWrite'.by = c /\ topicsWrite'.to = T!Updated(published, T!UpdateOf(c)) /\ topicsWrite' = [by |-> topicsWrite'.by, to |-> topicsWrite'.to]
    BY <1>5
  <2>2. T!UpdateOf(c)' = T!UpdateOf(c)
    BY <1>5 DEF T!UpdateOf
  <2>3. WriteRight'
    <3>1. T!Updated(published, T!UpdateOf(topicsWrite.by))' = T!Updated(published, T!UpdateOf(c))
      BY <1>1, <2>1, <2>2
    <3> QED
      BY <1>1, <1>2, <1>3, <1>5, <2>1, <3>1 DEF WriteRight
  <2>4. TopicsTypeOK'
    BY <1>1, <1>5, <2>1 DEF TopicsInv, TopicsTypeOK
  <2>5. OpRight'
    BY <1>1, <1>5 DEF TopicsInv, OpRight, UpdateRight
  <2>6. \A m \in Observations : MsgRight(msg[m], published, reached)'
    BY <1>1, <1>5 DEF TopicsInv, MsgRight
  <2> QED
    BY <1>1, <2>3, <2>4, <2>5, <2>6 DEF TopicsInv, Stands, Known
<1> QED
  BY <1>4, <1>5 DEF T!_update

LEMMA NothingWritten == T!NotWriting = [by |-> T!NotWriting.by, to |-> T!NotWriting.to] /\ T!NotWriting.by = T!Nobody
BY DEF T!NotWriting

LEMMA PublishKeeps == ASSUME TopicsInv, T!Publish PROVE TopicsInv'
<1> DEFINE u == T!UpdateOf(topicsWrite.by)
<1>1. /\ topicsWrite.by # T!Nobody /\ topicsFile' = topicsWrite.to /\ published' = topicsWrite.to /\ topicsWrite' = T!NotWriting /\ reached' = T!Kept(u)
      /\ UNCHANGED forum
      /\ T!Returns(topicsWrite.by, TRUE) \/ (topicsWrite.by = T!Operator /\ op' = T!OpIdle /\ msg' = msg)
  BY DEF T!Publish
<1>2. /\ topicsWrite.by \in T!Callers /\ AskRight(u, published, forum, reached) /\ topicsWrite.to = T!Updated(published, u) /\ topicsWrite.to # published
      /\ topicsWrite.to \in Snapshots /\ Known(topicsWrite.to, forum) /\ topicsWrite.to.mrev >= published.mrev /\ topicsWrite.to.drev >= published.drev
      /\ Stands(topicsWrite.to, T!Kept(u)) /\ (T!Kept(u) = reached \/ Outdated(published, topicsWrite.to))
      /\ T!Kept(u) = [k \in Kinds |-> T!Kept(u)[k]]
  BY <1>1, Writing DEF KeptOf
<1>3. /\ topicsWrite.by = T!Operator => u = op.update /\ op.pc = "update"
      /\ topicsWrite.by # T!Operator => u.do = "mark" /\ topicsWrite.by \in Observations
  BY <1>1, <1>2 DEF T!UpdateOf, TopicsInv, WriteRight, T!Callers
<1> HIDE DEF u
<1>4. OpRight /\ published \in Snapshots /\ topicsWrite.to.mrev \in Nat /\ topicsWrite.to.drev \in Nat /\ published.mrev \in Nat /\ published.drev \in Nat
  BY <1>2, SnapshotFields DEF TopicsInv, TopicsTypeOK
<1>5. OpRight'
  <2>1. CASE op' = T!OpIdle
    BY <2>1, OpIdles
  <2>2. CASE topicsWrite.by = T!Operator /\ op' = T!OpAfter(TRUE) /\ op' # T!OpIdle
    <3> DEFINE p == IF op.update.do = "remove" THEN "create" ELSE "next"
    <3>1. op.update.do \in {"install", "remove"} /\ op' = [op EXCEPT !.rev = @ + 1, !.pc = p]
      BY <2>2 DEF T!OpAfter
    <3>2. p \in OpPcs /\ p # "update" /\ (p = "create" => op.update.do = "remove")
      BY DEF OpPcs
    <3> HIDE DEF p
    <3>3. op' = [pc |-> p, group |-> op.group, rev |-> op.rev + 1, left |-> op.left, kind |-> op.kind,
                 thread |-> op.thread, update |-> op.update]
      BY <1>4, <3>1 DEF OpRight
    <3>4. op.kind = u.kind /\ op.kind \in T!AllKinds /\ op.group \in Groups \cup {T!None} /\ op.left \in SUBSET T!AllKinds
      BY <1>3, <1>4, <2>2, <3>1 DEF OpRight
    <3>5. p = "create" => published'.threads[op.kind] = T!None
      BY <1>1, <1>2, <1>3, <1>4, <2>2, <3>2, <3>4, ThreadsAfter
    <3> QED
      BY <3>2, <3>3, <3>4, <3>5, OpBecomes
  <2>3. CASE topicsWrite.by # T!Operator /\ op' = op
    <3>1. topicsWrite.to.threads = published.threads
      BY <1>2, <1>3, <1>4, <2>3, ThreadsAfter
    <3> QED
      BY <1>1, <1>4, <2>3, <3>1 DEF OpRight, UpdateRight
  <2> QED
    BY <1>1, <2>1, <2>2, <2>3 DEF T!Returns
<1>6. (\A m \in Observations : msg'[m] \in {msg[m], T!NotSent}) /\ msg' = [m \in Observations |-> msg'[m]]
  <2>1. CASE msg' = msg
    BY <2>1 DEF TopicsInv, TopicsTypeOK
  <2>2. CASE topicsWrite.by # T!Operator /\ msg' = [msg EXCEPT ![topicsWrite.by] = T!NotSent]
    BY <1>3, <2>2 DEF TopicsInv, TopicsTypeOK
  <2> QED
    BY <1>1, <2>1, <2>2 DEF T!Returns
<1>7. \A m \in Observations : MsgRight(msg[m], published, reached)'
  <2> SUFFICES ASSUME NEW m \in Observations PROVE MsgRight(msg'[m], topicsWrite.to, T!Kept(u))
    BY <1>1
  <2>1. CASE msg'[m] = T!NotSent
    BY <2>1 DEF MsgRight, T!NotSent
  <2>2. CASE msg'[m] = msg[m]
    <3>1. MsgRight(msg[m], published, reached)
      BY DEF TopicsInv
    <3> QED
      BY <1>2, <1>4, <2>2, <3>1 DEF MsgRight, Outdated
  <2> QED
    BY <1>6, <2>1, <2>2
<1>8. WriteRight'
  BY <1>1, NothingWritten DEF WriteRight
<1>9. TopicsTypeOK'
  BY <1>1, <1>2, <1>6, NothingWritten DEF TopicsInv, TopicsTypeOK
<1>10. Known(published, forum)' /\ Known(topicsFile, forum)' /\ Stands(published, reached)' /\ Stands(topicsFile, reached)'
  BY <1>1, <1>2
<1> QED
  BY <1>5, <1>7, <1>8, <1>9, <1>10 DEF TopicsInv

\* Keys that stand for what is kept stand for what had arrived.
LEMMA StandsMore ==
  ASSUME NEW s, s.cache \subseteq Kinds, NEW u, Stands(s, T!Kept(u)) PROVE Stands(s, reached)
BY DEF Stands, T!Kept

LEMMA FailsKeeps == ASSUME TopicsInv, T!WriteFails PROVE TopicsInv'
<1>1. /\ topicsWrite.by # T!Nobody /\ topicsFile' \in {topicsFile, topicsWrite.to} /\ topicsWrite' = T!NotWriting /\ UNCHANGED <<published, forum, reached>>
      /\ op' = IF topicsWrite.by = T!Operator THEN T!OpIdle ELSE op
      /\ msg' = IF topicsWrite.by = T!Operator THEN msg ELSE [msg EXCEPT ![topicsWrite.by] = T!NotSent]
  BY DEF T!WriteFails
<1>2. /\ topicsWrite.by \in T!Callers /\ topicsWrite.to \in Snapshots /\ Known(topicsWrite.to, forum) /\ Stands(topicsWrite.to, T!Kept(T!UpdateOf(topicsWrite.by)))
  BY <1>1, Writing
<1>3. Stands(topicsWrite.to, reached)
  BY <1>2, StandsMore, SnapshotFields
<1>4. OpRight'
  <2>1. CASE op' = T!OpIdle
    BY <2>1, OpIdles
  <2>2. CASE op' = op
    BY <1>1, <2>2 DEF TopicsInv, OpRight, UpdateRight
  <2> QED
    BY <1>1, <2>1, <2>2
<1>5. (\A m \in Observations : msg'[m] \in {msg[m], T!NotSent}) /\ msg' = [m \in Observations |-> msg'[m]]
  <2>1. CASE msg' = msg
    BY <2>1 DEF TopicsInv, TopicsTypeOK
  <2>2. CASE topicsWrite.by # T!Operator /\ msg' = [msg EXCEPT ![topicsWrite.by] = T!NotSent]
    BY <1>2, <2>2 DEF TopicsInv, TopicsTypeOK, T!Callers
  <2> QED
    BY <1>1, <2>1, <2>2
<1>6. \A m \in Observations : MsgRight(msg[m], published, reached)'
  BY <1>1, <1>5 DEF TopicsInv, MsgRight, T!NotSent
<1>7. WriteRight'
  BY <1>1, NothingWritten DEF WriteRight
<1>8. TopicsTypeOK'
  BY <1>1, <1>2, <1>5, NothingWritten DEF TopicsInv, TopicsTypeOK
<1>9. Known(published, forum)' /\ Known(topicsFile, forum)' /\ Stands(published, reached)' /\ Stands(topicsFile, reached)'
  BY <1>1, <1>2, <1>3 DEF TopicsInv
<1> QED
  BY <1>4, <1>6, <1>7, <1>8, <1>9 DEF TopicsInv

LEMMA TopicsRestartKeeps == ASSUME TopicsInv, T!Restart PROVE TopicsInv'
<1>1. /\ published' = topicsFile' /\ topicsWrite' = T!NotWriting /\ op' = T!OpIdle /\ msg' = [m \in Observations |-> T!NotSent] /\ UNCHANGED forum
      /\ \/ topicsFile' = topicsFile /\ reached' = reached
         \/ topicsWrite.by # T!Nobody /\ topicsFile' = topicsWrite.to /\ reached' = T!Kept(T!UpdateOf(topicsWrite.by))
  BY DEF T!Restart
<1>2. /\ topicsFile' \in Snapshots /\ Known(topicsFile', forum) /\ Stands(topicsFile', reached') /\ reached' = [k \in Kinds |-> reached'[k]]
  <2>1. CASE topicsFile' = topicsFile /\ reached' = reached
    BY <2>1 DEF TopicsInv, TopicsTypeOK
  <2>2. CASE topicsWrite.by # T!Nobody /\ topicsFile' = topicsWrite.to /\ reached' = T!Kept(T!UpdateOf(topicsWrite.by))
    <3>1. reached' = [k \in Kinds |-> reached'[k]]
      BY <2>2 DEF T!Kept
    <3> QED
      BY <2>2, <3>1, Writing
  <2> QED
    BY <1>1, <2>1, <2>2
<1>3. OpRight'
  BY <1>1, OpIdles
<1>4. \A m \in Observations : MsgRight(msg[m], published, reached)'
  BY <1>1 DEF MsgRight, T!NotSent
<1>5. WriteRight'
  BY <1>1, NothingWritten DEF WriteRight
<1>6. TopicsTypeOK'
  BY <1>1, <1>2, NothingWritten DEF TopicsInv, TopicsTypeOK
<1>7. Known(published, forum)' /\ Known(topicsFile, forum)' /\ Stands(published, reached)' /\ Stands(topicsFile, reached)'
  BY <1>1, <1>2
<1> QED
  BY <1>3, <1>4, <1>5, <1>6, <1>7 DEF TopicsInv

\* Every step keeps the invariant of the forum.
LEMMA TopicsInductive == TopicsInv /\ [T!Next]_(T!vars) => TopicsInv'
<1> SUFFICES ASSUME TopicsInv, [T!Next]_(T!vars) PROVE TopicsInv'
  OBVIOUS
<1>1. CASE T!Commands
  BY <1>1, CommandsKeep
<1>2. CASE T!Setup
  BY <1>2, NextKindKeeps, VerifyKeeps, CreateKeeps DEF T!Setup
<1>3. ASSUME NEW m \in Observations, (\E k \in Kinds : T!Announce(m, k)) \/ T!Dropped(m) \/ T!Deliver(m) PROVE TopicsInv'
  BY <1>3, MessagesKeep
<1>4. ASSUME NEW c \in T!Callers, T!_update(c) PROVE TopicsInv'
  BY <1>4, UpdateKeeps
<1>5. CASE T!Publish
  BY <1>5, PublishKeeps
<1>6. CASE T!WriteFails
  BY <1>6, FailsKeeps
<1>7. ASSUME NEW t \in 1..Len(forum), T!DeleteThread(t) PROVE TopicsInv'
  BY <1>7, DeleteKeeps
<1>8. CASE T!Restart
  BY <1>8, TopicsRestartKeeps
<1>9. CASE UNCHANGED T!vars
  <2>1. UNCHANGED <<published, topicsFile, topicsWrite, op, msg, forum, reached>>
    BY <1>9 DEF T!vars
  <2>2. OpRight'
    BY <2>1 DEF TopicsInv, OpRight
  <2>3. forum' \in Seq(Threads) /\ Grows(forum, forum')
    BY <2>1, SameForum DEF TopicsInv, TopicsTypeOK
  <2> QED
    BY <2>1, <2>2, <2>3, TopicsOperatorKeeps
<1> QED
  BY <1>1, <1>2, <1>3, <1>4, <1>5, <1>6, <1>7, <1>8, <1>9 DEF T!Next

LEMMA NoLiveGivenUp ==
  ASSUME TopicsInv, topicsWrite.by = T!Operator, topicsWrite.to = published', op.update.do \in {"install", "remove"}, NEW k \in T!AllKinds
  PROVE published'.threads[k] = published.threads[k] \/ ~T!Alive(published.threads[k])
<1>1. topicsWrite.by # T!Nobody
  BY DEF T!Operator, T!Nobody
<1>2. /\ AskRight(op.update, published, forum, reached) /\ published' = T!Updated(published, op.update) /\ published' # published /\ published \in Snapshots
  BY <1>1, Writing DEF T!UpdateOf, TopicsInv, TopicsTypeOK
<1>3. op.update.kind \in T!AllKinds /\ \A j \in T!AllKinds : j # op.update.kind => published'.threads[j] = published.threads[j]
  BY <1>2, ThreadsAfter
<1>4. published.threads[op.update.kind] # T!None => ~forum[published.threads[op.update.kind]].alive
  BY <1>2 DEF AskRight, UpdateRight, MarkRight
<1> QED
  BY <1>3, <1>4 DEF T!Alive

\* Whatever changes between the addressing of a message and its record, and between the steps of a setup,
\* TopicsManager describes the forum as it is (mark_message_sent, set_topic_id, create_topics_for_group).
THEOREM ForumDescribed == T!Spec => ForumRight
<1>1. TopicsInv /\ [T!Next]_(T!vars) => T!KeysHold' /\ T!ThreadsLocal' /\ T!LiveKept
  <2> SUFFICES ASSUME TopicsInv, TopicsInv' PROVE T!KeysHold' /\ T!ThreadsLocal' /\ T!LiveKept
    BY TopicsInductive
  <2>1. T!KeysHold'
    BY DEF TopicsInv, Stands, T!KeysHold
  <2>2. T!ThreadsLocal'
    BY DEF TopicsInv, Known, T!ThreadsLocal
  <2>3. T!LiveKept
    BY NoLiveGivenUp DEF T!LiveKept
  <2> QED
    BY <2>1, <2>2, <2>3
<1> QED
  BY TopicsInitially, TopicsInductive, <1>1, PTL DEF T!Spec, ForumRight, T!ForumRight
==============================================================================
