------------------------------- MODULE Backup -------------------------------
(***************************************************************************)
(* Backups of the service and their restoration (utils/backup.py).         *)
(*                                                                         *)
(* A backup is made while the service writes its stores: the database in   *)
(* one snapshot, then each JSON store for itself.  A restore runs while    *)
(* the service is stopped: it validates the archive, copies every          *)
(* replacement and every original aside, replaces the targets one by one,  *)
(* and on an error puts the originals back.  Any of these steps can fail,  *)
(* and the process can be killed between any two of them.                  *)
(*                                                                         *)
(* A content is the number of the version that was written; the file Wal   *)
(* holds the newest version of the database until it is checkpointed.      *)
(***************************************************************************)
EXTENDS Integers, Sequences, FiniteSets

CONSTANTS
  Stores,        \* the JSON state files
  Outbox,        \* of them, the punishment fact outbox (V2_STATE_ROLES)
  UserGroups,    \* of them, the user groups store
  MaxVersions,   \* bound: versions the service writes
  MaxFaults      \* bound: failed file operations and crashes

VARIABLES
  running,   \* is the service running?
  live,      \* file -> its content
  version,   \* the last version written
  making,    \* create_backup: what it has captured so far
  archive,   \* the archive at hand
  work,      \* apply_backup: where it is and what it holds
  before,    \* ghost: the files when apply_backup began
  faults

vars == <<running, live, version, making, archive, work, before, faults>>

Db == "db"
Wal == "wal"      \* with -shm: <database>-wal, <database>-shm
Files == Stores \cup {Db, Wal}
Absent == -1
Torn == -2        \* half written
EmptyGroups == 0  \* {"user_groups":{}}

Function(S, c) == [f \in S |-> c]
CanFail == faults < MaxFaults
Fails == CanFail /\ faults' = faults + 1

(* What a reader of the database finds: a write-ahead log is applied to the file beside it. *)
DatabaseOf(files) == IF files[Wal] # Absent THEN files[Wal] ELSE files[Db]

Idle == [pc |-> "idle", order |-> <<>>, plan |-> <<>>, ready |-> {}, kept |-> Function(Files, Absent),
         applied |-> 0, retained |-> {}, outcome |-> "none"]
NoArchive == [kind |-> "none", holds |-> <<>>]

------------------------------------------------------------------------------
(* The service at work (external to this module: it writes its stores).     *)

Write(f) ==
  /\ running /\ version < MaxVersions
  /\ version' = version + 1
  /\ live' = [live EXCEPT ![IF f = Db THEN Wal ELSE f] = version + 1]
  /\ UNCHANGED <<running, making, archive, work, before, faults>>

(* migrate_backup_handler: an uploaded JSON file goes into the live database in one      *)
(* transaction; on an error nothing of it stays.                                         *)
migrate_backup_handler == Write(Db)

Checkpoint ==
  /\ running /\ live[Wal] # Absent
  /\ live' = [live EXCEPT ![Db] = live[Wal], ![Wal] = Absent]
  /\ UNCHANGED <<running, version, making, archive, work, before, faults>>

Stop == running /\ running' = FALSE /\ making' = <<>>
        /\ UNCHANGED <<live, version, archive, work, before, faults>>

(* A start after a restore forgets it; what the restore left beside the files stays. *)
StartService ==
  /\ ~running /\ work.pc \in {"idle", "ended", "crashed"}
  /\ running' = TRUE /\ work' = Idle /\ before' = live
  /\ UNCHANGED <<live, version, making, archive, faults>>

------------------------------------------------------------------------------
(* create_backup.                                                           *)

(* _snapshot: SQLite's backup API, one consistent state of the database. *)
Snapshot ==
  /\ running /\ making = <<>>
  /\ making' = [f \in {Db} |-> DatabaseOf(live)]
  /\ UNCHANGED <<running, live, version, archive, work, before, faults>>

(* The JSON stores are read one after another, while the service writes them. *)
Capture(s) ==
  /\ making # <<>> /\ s \notin DOMAIN making
  /\ making' = [f \in DOMAIN making \cup {s} |-> IF f = s THEN live[s] ELSE making[f]]
  /\ UNCHANGED <<running, live, version, archive, work, before, faults>>

(* The zip is written beside its destination and renamed: it is there whole or not at all. *)
Publish ==
  /\ making # <<>> /\ Stores \subseteq DOMAIN making
  /\ \/ archive' = [kind |-> "v2", holds |-> making] /\ UNCHANGED faults
     \/ Fails /\ archive' = archive
  /\ making' = <<>>
  /\ UNCHANGED <<running, live, version, work, before>>

(* stage_backup: an upload is validated, then written under its final name; a crash    *)
(* leaves the beginning of it.  Older archives know no outbox; legacy ones hold the     *)
(* database and whichever stores their version had; a legacy configuration is no        *)
(* database at all.                                                                     *)
Upload ==
  /\ archive.kind = "v2"
  /\ \/ /\ archive' = [kind |-> "v1", holds |-> [f \in (DOMAIN archive.holds) \ {Outbox} |-> archive.holds[f]]]
        /\ UNCHANGED faults
     \/ /\ \E S \in SUBSET {s \in Stores : archive.holds[s] # Absent} :
             archive' = [kind |-> "legacy", holds |-> [f \in {Db} \cup S |-> archive.holds[f]]]
        /\ UNCHANGED faults
     \/ archive' = [kind |-> "config", holds |-> <<>>] /\ UNCHANGED faults
     \/ Fails /\ archive' = [archive EXCEPT !.kind = "torn"]
  /\ UNCHANGED <<running, live, version, making, work, before>>

------------------------------------------------------------------------------
(* validate_backup and apply_backup.                                        *)

(* _manifest_plan, _legacy_plan: every target with its new content, Absent to remove it. *)
Planned(a) ==
  CASE a.kind = "v2" -> [f \in DOMAIN a.holds |-> IF f = UserGroups /\ a.holds[f] = Absent
                                                    THEN EmptyGroups ELSE a.holds[f]]
    [] a.kind = "v1" -> [f \in DOMAIN a.holds \cup {Outbox} |->
                           IF f = Outbox THEN Absent
                           ELSE IF f = UserGroups /\ a.holds[f] = Absent THEN EmptyGroups ELSE a.holds[f]]
    [] OTHER -> a.holds

(* Mutant: the log of the old database stays beside the new one. *)
TargetsNoWal(plan) ==
  {t \in [1..Cardinality(DOMAIN plan) -> DOMAIN plan] :
     t[1] = Db /\ \A i, j \in DOMAIN t : i # j => t[i] # t[j]}

(* The order of the targets: the plan's files, then the database's -wal and -shm. *)
Targets(plan) ==
  {t \in [1..(Cardinality(DOMAIN plan) + 1) -> DOMAIN plan \cup {Wal}] :
     /\ t[1] = Db /\ t[Cardinality(DOMAIN plan) + 1] = Wal
     /\ \A i, j \in DOMAIN t : i # j => t[i] # t[j]}

(* Refused: not a backup, a checksum that does not match, the service still running. *)
Refuse ==
  /\ archive.kind = "torn" /\ work.pc \in {"idle", "ended", "crashed"} /\ ~running
  /\ before' = live
  /\ work' = [Idle EXCEPT !.pc = "ended", !.outcome = "refused"]
  /\ UNCHANGED <<running, live, version, making, archive, faults>>

(* _import_legacy_config: one transaction on the database. *)
ImportConfig ==
  /\ archive.kind = "config" /\ work.pc \in {"idle", "ended", "crashed"} /\ ~running
  /\ version < MaxVersions
  /\ before' = live
  /\ \/ /\ version' = version + 1 /\ live' = [live EXCEPT ![Wal] = version + 1]
        /\ work' = [Idle EXCEPT !.pc = "ended", !.outcome = "imported"] /\ UNCHANGED faults
     \/ Fails /\ work' = [Idle EXCEPT !.pc = "ended", !.outcome = "refused"] /\ UNCHANGED <<version, live>>
  /\ UNCHANGED <<running, making, archive>>

BeginApply ==
  /\ archive.kind \in {"v2", "v1", "legacy"} /\ work.pc \in {"idle", "ended", "crashed"} /\ ~running
  /\ before' = live
  /\ \E plan \in {Planned(archive)}, t \in Targets(Planned(archive)) :
       work' = [Idle EXCEPT !.pc = "prepare", !.plan = plan, !.order = t]
  /\ UNCHANGED <<running, live, version, making, archive, faults>>

(* A step of the try block raises: what was replaced is put back, the last first. *)
Raise == work' = [work EXCEPT !.pc = "rollback", !.outcome = "rolled back"]

(* Every replacement is copied beside its target, then every original. *)
Prepare ==
  /\ work.pc = "prepare"
  /\ \/ work' = [work EXCEPT !.ready = {f \in DOMAIN work.plan : work.plan[f] # Absent}, !.pc = "copy"]
        /\ UNCHANGED faults
     \/ Fails /\ Raise
  /\ UNCHANGED <<running, live, version, making, archive, before>>

Copy ==
  /\ work.pc = "copy"
  /\ \/ /\ work' = [work EXCEPT !.pc = "replace",
                       !.kept = [f \in Files |-> IF \E i \in DOMAIN work.order : work.order[i] = f
                                                   THEN live[f] ELSE Absent]]
        /\ UNCHANGED faults
     \/ Fails /\ Raise
  /\ UNCHANGED <<running, live, version, making, archive, before>>

(* _replace_offline: a rename, or for a mounted file a copy into it, which may stop half way. *)
Moved(f, content, mode) == live' = [live EXCEPT ![f] = IF mode = "half" THEN Torn ELSE content]

Replace ==
  /\ work.pc = "replace" /\ work.applied < Len(work.order)
  /\ \E f \in {work.order[work.applied + 1]} :
       \/ /\ Moved(f, IF f \in work.ready THEN work.plan[f] ELSE Absent, "whole")
          /\ work' = [work EXCEPT !.applied = @ + 1] /\ UNCHANGED faults
       \/ /\ Fails
          /\ live' = live \/ (f \in work.ready /\ Moved(f, 0, "half"))
          /\ work' = [work EXCEPT !.applied = @ + 1, !.pc = "rollback", !.outcome = "rolled back"]
  /\ UNCHANGED <<running, version, making, archive, before>>

Applied ==
  /\ work.pc = "replace" /\ work.applied = Len(work.order)
  /\ work' = [work EXCEPT !.pc = "clean", !.outcome = "applied"]
  /\ UNCHANGED <<running, live, version, making, archive, before, faults>>

(* Mutant: a copy that could not be put back is cleaned up with the others. *)
RollBackForgets ==
  /\ work.pc = "rollback" /\ work.applied > 0
  /\ \E f \in {work.order[work.applied]} :
       \/ /\ live' = [live EXCEPT ![f] = work.kept[f]]
          /\ work' = [work EXCEPT !.applied = @ - 1] /\ UNCHANGED faults
       \/ Fails /\ live' = live /\ work' = [work EXCEPT !.applied = @ - 1, !.outcome = "incomplete"]
  /\ UNCHANGED <<running, version, making, archive, before>>

(* A rename takes the copy away, an unlink has none; a copy that failed is retained. *)
RollBack ==
  /\ work.pc = "rollback" /\ work.applied > 0
  /\ \E f \in {work.order[work.applied]} :
       \/ /\ live' = [live EXCEPT ![f] = work.kept[f]]
          /\ work' = [work EXCEPT !.applied = @ - 1] /\ UNCHANGED faults
       \/ /\ Fails
          /\ live' = live \/ (work.kept[f] # Absent /\ Moved(f, 0, "half"))
          /\ work' = [work EXCEPT !.applied = @ - 1, !.outcome = "incomplete",
                        !.retained = IF work.kept[f] # Absent THEN @ \cup {f} ELSE @]
  /\ UNCHANGED <<running, version, making, archive, before>>

RolledBack ==
  /\ work.pc = "rollback" /\ work.applied = 0
  /\ work' = [work EXCEPT !.pc = "clean"]
  /\ UNCHANGED <<running, live, version, making, archive, before, faults>>

(* finally: the copies go, the retained ones excepted; one that cannot be deleted stays. *)
Clean ==
  /\ work.pc = "clean"
  /\ \E stays \in {{}} \cup {{f} : f \in {x \in Files : CanFail /\ work.kept[x] # Absent}} :
       /\ work' = [work EXCEPT !.pc = "ended", !.ready = {},
                     !.kept = [f \in Files |-> IF f \in work.retained \cup stays THEN work.kept[f] ELSE Absent]]
       /\ faults' = faults + (IF stays = {} THEN 0 ELSE 1)
  /\ UNCHANGED <<running, live, version, making, archive, before>>

(* The process is killed; what lies on the disk stays there. *)
Crash ==
  /\ Fails
  /\ \/ running /\ making' = <<>> /\ work' = work
     \/ ~running /\ work.pc \notin {"idle", "ended", "crashed"}
        /\ work' = [work EXCEPT !.pc = "crashed", !.outcome = "killed"] /\ making' = making
  /\ UNCHANGED <<running, live, version, archive, before>>

------------------------------------------------------------------------------
Init ==
  /\ running = TRUE /\ version = 1
  /\ \E S \in SUBSET Stores : live = [f \in Files |-> IF f \in S \cup {Db} THEN 1 ELSE Absent]
  /\ before = live
  /\ making = <<>> /\ archive = NoArchive /\ work = Idle /\ faults = 0

ApplyStep == Prepare \/ Copy \/ Replace \/ Applied \/ RollBack \/ RolledBack \/ Clean

Next ==
  \/ \E f \in Stores \cup {Db} : Write(f)
  \/ migrate_backup_handler \/ Checkpoint \/ Stop \/ StartService
  \/ Snapshot \/ (\E s \in Stores : Capture(s)) \/ Publish \/ Upload
  \/ Refuse \/ ImportConfig \/ BeginApply \/ ApplyStep
  \/ Crash

Spec == Init /\ [][Next]_vars

------------------------------------------------------------------------------
(* A restore that reports success has put every file of the archive in place, with no   *)
(* log of the old database beside the new one; one that reports an error has changed    *)
(* nothing, unless it says that the rollback is incomplete.                             *)
RestoreExact ==
  work.pc = "ended" =>
    CASE work.outcome = "applied" -> /\ \A f \in DOMAIN work.plan : live[f] = work.plan[f]
                                     /\ DatabaseOf(live) = work.plan[Db]
                                     /\ \A f \in Files \ (DOMAIN work.plan \cup {Wal}) : live[f] = before[f]
      [] work.outcome \in {"refused", "rolled back"} -> live = before
      [] OTHER -> TRUE

(* Until a restore has succeeded, whatever fails and wherever it is killed, every file  *)
(* it found exists: in its place or as a recovery copy.                                 *)
OriginalsKept ==
  work.pc # "idle" /\ work.outcome \notin {"applied", "imported"} =>
    \A f \in Files : before[f] # Absent => before[f] \in {live[f], work.kept[f]}

(* A restore is all or nothing, and nothing it found is lost on the way. *)
RestoreSafe == RestoreExact /\ OriginalsKept
=============================================================================
