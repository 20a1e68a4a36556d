------------------------------ MODULE Settings ------------------------------
(***************************************************************************)
(* How one process reads and writes the settings that several processes    *)
(* share (utils/read_config.py, utils/settings_service.py,                 *)
(* db/crud/config_revision.py).                                            *)
(*                                                                         *)
(* The database holds the settings and a revision that every settings      *)
(* transaction advances; what the settings say is abstracted to the number *)
(* of the transaction that wrote them (db.content).  The process keeps a   *)
(* merged copy (cache), the database revision it was read at (crev) and a  *)
(* local revision that stamps the evidence a scan collects.  That number   *)
(* only grows and is only compared with the ones loads and the scan have   *)
(* kept, so that the model has the set of those whose number is still the  *)
(* current one.  One asyncio lock serializes its loads and one its writes. *)
(* Its tasks are                                                           *)
(* the scan, a reader (a menu, a status page, the warning monitor) and a   *)
(* menu that saves; the API server and the command line are other          *)
(* processes: only their commits are seen here (OtherCommit).              *)
(***************************************************************************)
EXTENDS Integers, FiniteSets

CONSTANTS
  Attempts,         \* MAX_CONFIG_LOAD_ATTEMPTS
  MaxCommits,       \* bound: settings transactions
  MaxFaults,        \* bound: database operations that fail
  SnapshotOutage    \* may a snapshot that another task than the scan loads fail?

VARIABLES
  db,       \* [content, rev, legacy]: the config table, its revision row, an "auto" freshness to migrate
  cache,    \* _config_cache: the content of the published copy, or None
  crev,     \* _config_cache_db_revision, or None
  stamps,   \* who keeps a local revision that is still _config_revision: loading tasks, "evidence"
  rlock,    \* who holds _config_read_lock
  wlock,    \* who holds _config_write_lock
  read,     \* task -> the load it is in
  write,    \* task -> the save it is in
  hook,     \* a transaction of the user synchroniser whose after-commit hook has not run
  scan,     \* the usage cycle and the settings its evidence and its policy were read under
  own,      \* ghost: the newest content this process committed and announced
  faults

vars == <<db, cache, crev, stamps, rlock, wlock, read, write, hook, scan, own, faults>>

None == -1
Nobody == "nobody"
Tasks == {"scan", "reader", "menu"}
Kinds == {"plain", "refresh", "snapshot"}

NotReading == [at |-> "idle", snapshot |-> FALSE, start |-> 0, tries |-> 0,
               content |-> None, rev |-> None, same |-> FALSE]
NotWriting == [at |-> "idle", expected |-> None, content |-> None]
ScanIdle == [at |-> "idle", content |-> None, rev |-> None, policy |-> None]

Init ==
  /\ db \in [content: {0}, rev: {0}, legacy: BOOLEAN]
  /\ cache = None /\ crev = None /\ stamps = {}
  /\ rlock = Nobody /\ wlock = Nobody
  /\ read = [t \in Tasks |-> NotReading]
  /\ write = [t \in Tasks |-> NotWriting]
  /\ hook = None /\ scan = ScanIdle /\ own = 0 /\ faults = 0

------------------------------------------------------------------------------
(* The database.                                                            *)

(* A settings transaction advances the revision row with what it changes. *)
Committed(d) == [d EXCEPT !.content = @ + 1, !.rev = @ + 1]

(* mutant: the expected revision is not compared *)
Admits_Any(d, expected) == TRUE

(* The row update of a guarded write names the revision it expects. *)
Admits(d, expected) == expected = None \/ d.rev = expected

(* (the migration of a legacy freshness keeps a transaction in reserve) *)
CanCommit == db.content + (IF db.legacy THEN 1 ELSE 0) < MaxCommits
CanFail == faults < MaxFaults

(* _invalidate_config_cache: drop the copy and retire the local revision. *)
Dropped == cache' = None /\ crev' = None
Invalidated == Dropped /\ stamps' = {}
CopyKept == UNCHANGED <<cache, crev>>
CacheKept == CopyKept /\ UNCHANGED stamps

------------------------------------------------------------------------------
(* What each caller does with the settings it read.                         *)

(* mutant: the snapshot's local revision is not compared with the evidence's *)
ScanAfter_Unstamped(ok, content, rev, stamped) ==
  IF ~ok THEN ScanIdle ELSE
  CASE scan.at = "config" -> [scan EXCEPT !.at = "collected", !.content = content]
    [] scan.at = "snapshot" -> [scan EXCEPT !.at = "judged", !.rev = rev]
    [] scan.at = "policy" /\ rev = scan.rev -> [scan EXCEPT !.at = "act", !.policy = content]
    [] OTHER -> ScanIdle

(* The scan: settings, evidence under their local revision, a snapshot to judge the  *)
(* evidence by, then the policy of the user about to be punished.  ok is FALSE for a *)
(* degraded configuration; stamped says that the evidence's revision is still current. *)
ScanAfter(ok, content, rev, stamped) ==
  IF ~ok THEN ScanIdle ELSE
  CASE scan.at = "config" -> [scan EXCEPT !.at = "collected", !.content = content]
    [] scan.at = "snapshot" /\ stamped -> [scan EXCEPT !.at = "judged", !.rev = rev]
    [] scan.at = "policy" /\ rev = scan.rev /\ stamped ->
         [scan EXCEPT !.at = "act", !.policy = content]
    [] OTHER -> ScanIdle

(* A load ends: the read lock is released and the caller resumes; keep are the stamps   *)
(* that are current by now.  The scan stamps its evidence with the revision of now.     *)
Return(t, ok, content, rev, keep) ==
  /\ read' = [read EXCEPT ![t] = NotReading]
  /\ rlock' = Nobody
  /\ scan' = IF t = "scan" THEN ScanAfter(ok, content, rev, "evidence" \in keep) ELSE scan
  /\ stamps' = (keep \ {t}) \cup (IF t = "scan" /\ scan'.at = "collected" THEN {"evidence"} ELSE {})

------------------------------------------------------------------------------
(* read_config, read_config_snapshot: one load at a time.                   *)

(* A plain read of a published copy returns at once; a refresh first asks the database *)
(* for its revision; a snapshot always loads.                                          *)
Enter(t, kind) ==
  /\ rlock = Nobody
  /\ IF kind = "plain" /\ cache # None
       THEN UNCHANGED <<rlock, read, stamps>>
       ELSE /\ rlock' = t
            /\ read' = [read EXCEPT ![t] =
                 [NotReading EXCEPT !.at = IF kind = "refresh" /\ cache # None THEN "check" ELSE "load",
                                    !.snapshot = (kind = "snapshot"), !.start = db.content]]
            /\ stamps' = stamps \cup {t}
  /\ UNCHANGED <<db, cache, crev, wlock, write, hook, own, faults>>

(* A refresh asks the database for its revision; same says whether the copy is of it.   *)
CheckRevision(t) ==
  /\ read[t].at = "check"
  /\ \/ read' = [read EXCEPT ![t].at = "checked", ![t].same = (crev = db.rev)] /\ UNCHANGED faults
     \/ /\ CanFail /\ faults' = faults + 1
        /\ read' = [read EXCEPT ![t].at = "checked"]
  /\ CacheKept
  /\ UNCHANGED <<db, rlock, wlock, write, hook, scan, own>>

(* mutant: a refresh trusts the local revision alone *)
Current_Local(t) == cache # None /\ t \in stamps

(* The copy is current when its database revision still was, and nothing was retired    *)
(* while the revision was being read.                                                   *)
Current(t) == read[t].same /\ cache # None /\ t \in stamps

(* Otherwise, or when the revision cannot be read, the copy is dropped and loaded again. *)
UseCopy(t) ==
  /\ read[t].at = "checked"
  /\ IF Current(t)
       THEN Return(t, TRUE, cache, crev, stamps) /\ CopyKept
       ELSE /\ IF cache # None THEN Dropped /\ stamps' = {t} ELSE CopyKept /\ stamps' = stamps \cup {t}
            /\ read' = [read EXCEPT ![t].at = "load", ![t].same = FALSE]
            /\ UNCHANGED <<rlock, scan>>
  /\ UNCHANGED <<db, wlock, write, hook, own, faults>>

(* The end of a load that failed or was overtaken Attempts times: nothing is cached and *)
(* the configuration served is marked degraded.  The local revision is not retired.     *)
Degraded(t) ==
  /\ Dropped
  /\ Return(t, FALSE, None, None, stamps)

(* Another attempt under the local revision of now, where keep are current: the copy    *)
(* was dropped by whatever retired the revision the attempt began with.                 *)
Retry(t, keep) ==
  /\ Dropped
  /\ IF read[t].tries + 1 >= Attempts
       THEN Return(t, FALSE, None, None, keep)
       ELSE /\ read' = [read EXCEPT ![t].at = "load", ![t].tries = @ + 1, ![t].same = FALSE,
                                        ![t].content = None, ![t].rev = None]
            /\ stamps' = keep \cup {t}
            /\ UNCHANGED <<rlock, scan>>

(* A snapshot retires the evidence collected under settings it finds replaced. *)
SnapshotRetires(t) == read[t].snapshot /\ crev # None /\ crev # db.rev

(* One transaction reads the revision, the settings and the user facts; a legacy       *)
(* freshness must be saved before the merged copy is complete.                         *)
Load(t) ==
  /\ read[t].at = "load"
  /\ \/ /\ db.legacy
        /\ read' = [read EXCEPT ![t].at = "migrate"]
        /\ CacheKept /\ UNCHANGED <<rlock, scan>>
     \/ ~db.legacy /\ SnapshotRetires(t) /\ Retry(t, {})
     \/ ~db.legacy /\ ~SnapshotRetires(t) /\ t \notin stamps /\ Retry(t, stamps)
     \/ /\ ~db.legacy /\ ~SnapshotRetires(t) /\ t \in stamps
        /\ read' = [read EXCEPT ![t].at = "confirm", ![t].content = db.content, ![t].rev = db.rev]
        /\ CacheKept /\ UNCHANGED <<rlock, scan>>
  /\ UNCHANGED <<db, wlock, write, hook, own, faults>>

LoadFails(t) ==
  /\ read[t].at \in {"load", "confirm"} /\ CanFail
  /\ read[t].snapshot /\ t # "scan" => SnapshotOutage
  /\ Degraded(t)
  /\ faults' = faults + 1
  /\ UNCHANGED <<db, wlock, write, hook, own>>

(* The migration is a save made while the read lock is held: it waits for the write    *)
(* lock, commits (or fails: degraded) and retires the local revision, so the load      *)
(* starts again.                                                                       *)
Migrate(t) ==
  /\ read[t].at = "migrate" /\ wlock = Nobody
  /\ \/ /\ db' = [Committed(db) EXCEPT !.legacy = FALSE]
        /\ Retry(t, {})
        /\ UNCHANGED faults
     \/ /\ CanFail /\ faults' = faults + 1
        /\ db' \in {db, [Committed(db) EXCEPT !.legacy = FALSE]}
        /\ Dropped
        /\ Return(t, FALSE, None, None, {})
  /\ UNCHANGED <<wlock, write, hook, own>>

(* The revision is read again after the merge. *)
Confirm(t) ==
  /\ read[t].at = "confirm"
  /\ read' = [read EXCEPT ![t].at = "publish", ![t].same = (read[t].rev = db.rev)]
  /\ CacheKept
  /\ UNCHANGED <<db, rlock, wlock, write, hook, scan, own, faults>>

(* mutant: the local revision is not compared again before publishing *)
Publish_Unchecked(t) ==
  /\ read[t].at = "publish"
  /\ \/ ~read[t].same /\ Retry(t, {})
     \/ /\ read[t].same
        /\ cache' = read[t].content /\ crev' = read[t].rev
        /\ Return(t, TRUE, read[t].content, read[t].rev, stamps)
  /\ UNCHANGED <<db, wlock, write, hook, own, faults>>

(* Only settings whose two revisions have not moved meanwhile are published. *)
Publish(t) ==
  /\ read[t].at = "publish"
  /\ \/ ~read[t].same /\ Retry(t, {})
     \/ read[t].same /\ t \notin stamps /\ Retry(t, stamps)
     \/ /\ read[t].same /\ t \in stamps
        /\ cache' = read[t].content /\ crev' = read[t].rev
        /\ Return(t, TRUE, read[t].content, read[t].rev, stamps)
  /\ UNCHANGED <<db, wlock, write, hook, own, faults>>

------------------------------------------------------------------------------
(* save_config_value, delete_config_value, config_write_transaction.        *)

(* A save of the scan (the automatic fall-back of the IP source) names the local        *)
(* revision its evidence was collected under, and the database revision of the copy.    *)
BeginWrite(t, guarded) ==
  /\ wlock = Nobody
  /\ write' = [write EXCEPT ![t] = [NotWriting EXCEPT !.at = "commit",
                                                      !.expected = IF guarded THEN crev ELSE None]]
  /\ wlock' = t
  /\ UNCHANGED <<db, cache, crev, stamps, rlock, read, hook, own, faults>>

MenuSaves == BeginWrite("menu", FALSE) /\ write["menu"].at = "idle" /\ CanCommit /\ UNCHANGED scan

(* A save overtaken by newer settings is dropped without an attempt. *)
Overtaken == "evidence" \notin stamps \/ crev = None

ScanFallsBack ==
  /\ scan.at = "collected"
  /\ \/ ~Overtaken /\ CanCommit /\ BeginWrite("scan", TRUE) /\ UNCHANGED scan
     \/ /\ wlock = Nobody /\ Overtaken /\ scan' = ScanIdle
        /\ UNCHANGED <<db, cache, crev, stamps, rlock, wlock, read, write, hook, own, faults>>

(* The commit: made, refused by the revision it expects, failed, or made although an    *)
(* error is reported.                                                                   *)
CommitWrite(t) ==
  /\ write[t].at = "commit"
  /\ \/ /\ Admits(db, write[t].expected) /\ CanCommit
        /\ db' = Committed(db)
        /\ write' = [write EXCEPT ![t].at = "settle", ![t].content = db.content + 1]
     \/ /\ ~Admits(db, write[t].expected) \/ ~CanCommit
        /\ write' = [write EXCEPT ![t].at = "settle"]
        /\ UNCHANGED db
  /\ UNCHANGED <<cache, crev, stamps, rlock, wlock, read, hook, scan, own, faults>>

CommitFails(t) ==
  /\ write[t].at = "commit" /\ CanFail
  /\ faults' = faults + 1
  /\ \/ UNCHANGED db
     \/ Admits(db, write[t].expected) /\ CanCommit /\ db' = Committed(db)
  /\ write' = [write EXCEPT ![t].at = "settle"]
  /\ UNCHANGED <<cache, crev, stamps, rlock, wlock, read, hook, scan, own>>

(* Whatever became of the commit, the copy is dropped before the lock is released. *)
Newest(a, b) == IF a > b THEN a ELSE b

Settle(t) ==
  /\ write[t].at = "settle"
  /\ Invalidated
  /\ own' = Newest(own, write[t].content)
  /\ write' = [write EXCEPT ![t] = NotWriting]
  /\ wlock' = Nobody
  /\ scan' = IF t = "scan" THEN ScanIdle ELSE scan
  /\ UNCHANGED <<db, rlock, read, hook, faults>>

(* The user synchroniser removes users, and their limits with them, in transactions of  *)
(* its own, without the write lock; the hook of the committed session drops the copy.   *)
SyncCommit ==
  /\ hook = None /\ CanCommit
  /\ db' = Committed(db) /\ hook' = db.content + 1
  /\ UNCHANGED <<cache, crev, stamps, rlock, wlock, read, write, scan, own, faults>>

SyncHook ==
  /\ hook # None
  /\ Invalidated /\ own' = Newest(own, hook) /\ hook' = None
  /\ UNCHANGED <<db, rlock, wlock, read, write, scan, faults>>

(* A commit of the API server or of the command line. *)
OtherCommit ==
  /\ CanCommit /\ db' = Committed(db)
  /\ UNCHANGED <<cache, crev, stamps, rlock, wlock, read, write, hook, scan, own, faults>>

------------------------------------------------------------------------------
(* The tasks.                                                               *)

ScanReads ==
  /\ scan.at \in {"idle", "collected", "judged"} /\ write["scan"].at = "idle"
  /\ Enter("scan", IF scan.at = "idle" THEN "refresh" ELSE "snapshot")
  /\ scan' = [scan EXCEPT !.at = CASE scan.at = "idle" -> "config"
                                   [] scan.at = "collected" -> "snapshot"
                                   [] OTHER -> "policy"]

ScanActs == scan.at = "act" /\ scan' = ScanIdle
            /\ UNCHANGED <<db, cache, crev, stamps, rlock, wlock, read, write, hook, own, faults>>

ReaderReads == \E kind \in Kinds : Enter("reader", kind) /\ UNCHANGED scan

Next ==
  \/ ScanReads \/ ReaderReads \/ ScanActs \/ ScanFallsBack \/ MenuSaves
  \/ \E t \in Tasks : \/ CheckRevision(t) \/ UseCopy(t) \/ Load(t) \/ LoadFails(t) \/ Migrate(t)
                      \/ Confirm(t) \/ Publish(t) \/ CommitWrite(t) \/ CommitFails(t) \/ Settle(t)
  \/ SyncCommit \/ SyncHook \/ OtherCommit

Spec == Init /\ [][Next]_vars

------------------------------------------------------------------------------
(* Properties.                                                              *)

(* The copy a plain read_config is answered from is never older than a write this       *)
(* process has made and announced: a load that read the settings before the write is    *)
(* not published after it.                                                              *)
OwnWritesSeen == cache # None => cache >= own

(* A load answers with settings at least as new as the ones in the database when it     *)
(* began, whichever process wrote them.                                                 *)
FreshRead ==
  \A t \in Tasks : read[t].at # "idle" /\ read'[t].at = "idle" /\ cache' # None => cache' >= read[t].start

(* Whatever the tasks of this and the other processes do at the same time, nobody reads *)
(* settings that are older than they may be.                                            *)
ReadsCurrent == [][OwnWritesSeen' /\ FreshRead]_vars

(* Nobody is punished on evidence collected under other settings than the ones the      *)
(* policy was judged by: read_config_snapshot and the local revision retire it.         *)
EvidenceRetired == scan.at = "act" => scan.policy = scan.content

(* The automatic fall-back to logs is committed only over the settings its evidence was *)
(* collected under ("rejecting a superseded collection's write").                       *)
FallbackCurrent ==
  write["scan"].at = "commit" /\ write'["scan"].at = "settle" /\ db' # db => db.content = scan.content

(* The scan acts, and falls back, only under the settings it has collected under.       *)
ActsOnCurrent == [][EvidenceRetired' /\ FallbackCurrent]_vars
=============================================================================
