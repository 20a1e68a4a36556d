---------------------------- MODULE ProcessProofs ----------------------------
(***************************************************************************)
(* What holds of the parts of MCProcess for every value of the constants:  *)
(* the settings, the bot with its jobs (B), and the daily report (D).      *)
(*                                                                         *)
(* The reads of the settings are current whatever fails; that the scan     *)
(* acts on current evidence needs that no other task's snapshot fails to   *)
(* load, since such a load drops the copy without retiring the evidence    *)
(* (SnapshotOutage).  The automatic backup needs that no button is pressed *)
(* before the starter is through (EarlyPress).                             *)
(***************************************************************************)
EXTENDS MCProcess, TLAPS

Versions == Nat \cup {None}

Reads == [at : {"idle", "check", "checked", "load", "migrate", "confirm", "publish"},
          snapshot : BOOLEAN, start : Nat, tries : Nat,
          content : Versions, rev : Versions, same : BOOLEAN]
Writes == [at : {"idle", "commit", "settle"}, expected : Versions, content : Versions]
Scans == [at : {"idle", "config", "collected", "snapshot", "judged", "policy", "act"},
          content : Versions, rev : Versions, policy : Versions]

TypeOK ==
  /\ db \in [content : Nat, rev : Nat, legacy : BOOLEAN]
  /\ cache \in Versions /\ crev \in Versions
  /\ stamps \subseteq Tasks \cup {"evidence"}
  /\ rlock \in Tasks \cup {Nobody} /\ wlock \in Tasks \cup {Nobody}
  /\ read \in [Tasks -> Reads]
  /\ write \in [Tasks -> Writes]
  /\ hook \in Versions /\ scan \in Scans /\ own \in Nat /\ faults \in Nat

\* A load runs under the read lock, a save under the write lock.
Locked ==
  \A t \in Tasks : /\ read[t].at # "idle" <=> rlock = t
                   /\ write[t].at # "idle" <=> wlock = t

\* The revision counts the settings transactions, and nothing is ahead of the database.
Numbered ==
  /\ db.rev = db.content /\ crev = cache
  /\ cache <= db.content /\ own <= db.content /\ hook <= db.content
  /\ \A t \in Tasks : write[t].content <= db.content

\* What a load in progress knows.  A load whose local revision was retired finds no copy,
\* for nobody but itself could publish one.
LoadKnows(t) ==
  /\ read[t].start <= db.content
  /\ t \notin stamps => cache = None
  /\ read[t].at = "check" => ~read[t].same
  /\ (read[t].at = "checked" /\ read[t].same /\ cache # None) => read[t].start <= cache
  /\ (read[t].at \in {"load", "migrate", "confirm", "publish"} /\ ~read[t].snapshot) => cache = None
  /\ read[t].at \in {"confirm", "publish"} =>
       /\ read[t].content \in Nat /\ read[t].rev = read[t].content
       /\ read[t].start <= read[t].content /\ read[t].content <= db.content
       /\ t \in stamps => own <= read[t].content
       /\ cache # None => cache = read[t].content

\* The scan waits for a load where its place says so, and saves before it goes on.
ScanPlaced ==
  /\ read["scan"].at # "idle" <=> scan.at \in {"config", "snapshot", "policy"}
  /\ write["scan"].at # "idle" => scan.at = "collected"

ReadInv ==
  /\ TypeOK /\ Locked /\ Numbered /\ OwnWritesSeen /\ ScanPlaced
  /\ \A t \in Tasks : read[t].at # "idle" => LoadKnows(t)

\* Evidence whose local revision is current was collected under the published copy.
EvidenceOfCopy ==
  ("evidence" \in stamps /\ scan.at \notin {"idle", "config"}) =>
     cache # None /\ cache = scan.content

\* The fall-back of the scan expects the revision of what it has collected under.
FallbackExpects ==
  write["scan"].at = "commit" => write["scan"].expected \in Nat /\ write["scan"].expected = scan.content

ScanInv == EvidenceOfCopy /\ FallbackExpects /\ EvidenceRetired

-----------------------------------------------------------------------------

\* None is no version, and the values reset to are well typed.
LEMMA IdleTypes ==
  /\ None \notin Nat /\ None \in Int
  /\ NotReading \in Reads /\ NotWriting \in Writes /\ ScanIdle \in Scans
BY DEF None, NotReading, NotWriting, ScanIdle, Reads, Writes, Scans, Versions

\* A settings transaction is one further.
LEMMA CommittedNext ==
  ASSUME TypeOK, Numbered
  PROVE  /\ Committed(db) \in [content : Nat, rev : Nat, legacy : BOOLEAN]
         /\ Committed(db).content = db.content + 1 /\ Committed(db).rev = Committed(db).content
         /\ [Committed(db) EXCEPT !.legacy = FALSE] \in [content : Nat, rev : Nat, legacy : BOOLEAN]
         /\ [Committed(db) EXCEPT !.legacy = FALSE].content = db.content + 1
         /\ [Committed(db) EXCEPT !.legacy = FALSE].rev = db.content + 1
<1>1. db \in [content : Nat, rev : Nat, legacy : BOOLEAN] /\ db.rev = db.content
  BY DEF TypeOK, Numbered
<1>2. db.content + 1 \in Nat /\ db.rev + 1 \in Nat
  BY <1>1
<1> DEFINE d == [db EXCEPT !.content = db.content + 1, !.rev = db.rev + 1]
<1>3. Committed(db) = d
  BY DEF Committed
<1>4. d \in [content : Nat, rev : Nat, legacy : BOOLEAN] /\ d.content = db.content + 1 /\ d.rev = db.rev + 1
  BY <1>1, <1>2
<1> HIDE DEF d
<1>5. /\ [d EXCEPT !.legacy = FALSE] \in [content : Nat, rev : Nat, legacy : BOOLEAN]
      /\ [d EXCEPT !.legacy = FALSE].content = d.content /\ [d EXCEPT !.legacy = FALSE].rev = d.rev
  BY <1>4
<1> QED BY <1>1, <1>3, <1>4, <1>5

\* The database may have moved on, never back.
DbGrown ==
  /\ db' \in [content : Nat, rev : Nat, legacy : BOOLEAN]
  /\ db'.rev = db'.content /\ db.content <= db'.content

\* A copy that may be published.
CopyFine == cache' \in Versions /\ crev' = cache' /\ cache' <= db'.content /\ (cache' # None => own <= cache')

\* What becomes of the scan when its load ends.
LEMMA ScanResumes ==
  ASSUME scan \in Scans, NEW ok \in BOOLEAN, NEW content \in Versions, NEW rev \in Versions,
         NEW keep, NEW s, s = ScanAfter(ok, content, rev, "evidence" \in keep),
         scan.at \in {"config", "snapshot", "policy"}
  PROVE  /\ s \in Scans /\ s.at \in {"idle", "collected", "judged", "act"}
         /\ s.at = "collected" => ok /\ s.content = content /\ scan.at = "config"
         /\ s.at \in {"judged", "act"} => ok /\ "evidence" \in keep /\ s.content = scan.content /\ scan.at # "config"
         /\ s.at = "act" => s.policy = content
<1>i. ScanIdle \in Scans /\ ScanIdle.at = "idle"
  BY IdleTypes DEF ScanIdle
<1>1. CASE ~ok
  <2>1. s = ScanIdle
    BY <1>1 DEF ScanAfter
  <2> QED BY <1>i, <2>1
<1>2. CASE ok /\ scan.at = "config"
  <2>1. s = [scan EXCEPT !.at = "collected", !.content = content]
    BY <1>2 DEF ScanAfter
  <2> QED BY <1>2, <2>1 DEF Scans
<1>3. CASE ok /\ scan.at = "snapshot"
  <2>1. s = IF "evidence" \in keep THEN [scan EXCEPT !.at = "judged", !.rev = rev] ELSE ScanIdle
    BY <1>3 DEF ScanAfter
  <2> QED BY <1>3, <1>i, <2>1 DEF Scans
<1>4. CASE ok /\ scan.at = "policy"
  <2>1. s = IF rev = scan.rev /\ "evidence" \in keep THEN [scan EXCEPT !.at = "act", !.policy = content] ELSE ScanIdle
    BY <1>4 DEF ScanAfter
  <2> QED BY <1>4, <1>i, <2>1 DEF Scans
<1> QED BY <1>1, <1>2, <1>3, <1>4

\* A load ends (_load_config): nobody reads, and the lock is free.
LEMMA ReturnInv ==
  ASSUME ReadInv, NEW t \in Tasks, read[t].at # "idle",
         NEW ok \in BOOLEAN, NEW content \in Versions, NEW rev \in Versions,
         NEW keep \in SUBSET stamps, Return(t, ok, content, rev, keep),
         UNCHANGED <<wlock, write, hook, own>>, DbGrown, faults' \in Nat, CopyFine
  PROVE  ReadInv'
<1>t. TypeOK /\ Locked /\ Numbered /\ ScanPlaced /\ rlock = t
  BY DEF ReadInv, Locked
<1>1. \A d \in Tasks : read'[d] = IF d = t THEN NotReading ELSE read[d]
  BY <1>t DEF Return, TypeOK
<1>2. \A d \in Tasks : read'[d].at = "idle"
  BY <1>t, <1>1 DEF NotReading, Locked
<1>3. read' \in [Tasks -> Reads]
  BY <1>t, IdleTypes DEF Return, TypeOK
<1>4. /\ scan' \in Scans
      /\ t = "scan" => scan'.at \in {"idle", "collected", "judged", "act"}
      /\ t # "scan" => scan' = scan
  <2>1. CASE t = "scan"
    <3>2. scan.at \in {"config", "snapshot", "policy"} /\ scan' = ScanAfter(ok, content, rev, "evidence" \in keep)
      BY <1>t, <2>1 DEF ScanPlaced, Return
    <3>3. scan \in Scans
      BY <1>t DEF TypeOK
    <3> QED BY <2>1, <3>2, <3>3, ScanResumes
  <2>2. CASE t # "scan"
    BY <1>t, <2>2 DEF Return, TypeOK
  <2> QED BY <2>1, <2>2
<1>5. TypeOK'
  BY <1>t, <1>3, <1>4 DEF Return, TypeOK, DbGrown, CopyFine
<1>6. Locked'
  BY <1>t, <1>2 DEF Locked, Return, Tasks, Nobody
<1>7. Numbered'
  BY <1>t, IdleTypes DEF Numbered, DbGrown, CopyFine, TypeOK, Versions, Writes
<1>8. ScanPlaced'
  <2>1. CASE t = "scan"
    BY <1>t, <1>2, <1>4, <2>1 DEF ScanPlaced, Tasks
  <2>2. CASE t # "scan"
    BY <1>t, <1>1, <1>4, <2>2 DEF ScanPlaced, Tasks
  <2> QED BY <2>1, <2>2
<1> QED BY <1>2, <1>5, <1>6, <1>7, <1>8 DEF ReadInv, OwnWritesSeen, CopyFine

\* A load goes on: what it knows now is all there is to show.
LEMMA GoesOnInv ==
  ASSUME ReadInv, NEW t \in Tasks, read[t].at # "idle", NEW r \in Reads, r.at # "idle",
         read' = [read EXCEPT ![t] = r], UNCHANGED <<rlock, wlock, write, hook, own, scan>>,
         stamps' \subseteq Tasks \cup {"evidence"}, DbGrown, faults' \in Nat, CopyFine, LoadKnows(t)'
  PROVE  ReadInv'
<1>t. TypeOK /\ Locked /\ Numbered /\ ScanPlaced /\ rlock = t
  BY DEF ReadInv, Locked
<1>1. read' \in [Tasks -> Reads] /\ \A d \in Tasks : read'[d] = IF d = t THEN r ELSE read[d]
  BY <1>t DEF TypeOK
<1>2. TypeOK'
  BY <1>t, <1>1 DEF TypeOK, DbGrown, CopyFine
<1>3. Locked'
  BY <1>t, <1>1 DEF Locked
<1>4. Numbered'
  BY <1>t, IdleTypes DEF Numbered, DbGrown, CopyFine, TypeOK, Versions, Writes
<1>5. ScanPlaced'
  BY <1>t, <1>1 DEF ScanPlaced, Tasks
<1>6. \A d \in Tasks : read'[d].at # "idle" => d = t
  BY <1>t, <1>1 DEF Locked
<1> QED BY <1>2, <1>3, <1>4, <1>5, <1>6 DEF ReadInv, OwnWritesSeen, CopyFine

\* Another attempt, or the end of the last one.
LEMMA RetryInv ==
  ASSUME ReadInv, NEW t \in Tasks, read[t].at # "idle", NEW keep \in SUBSET stamps, Retry(t, keep),
         UNCHANGED <<wlock, write, hook, own>>, DbGrown, faults' \in Nat
  PROVE  ReadInv'
<1>t. TypeOK /\ Numbered /\ LoadKnows(t)
  BY DEF ReadInv
<1>1. CopyFine
  BY <1>t, IdleTypes DEF Retry, Dropped, CopyFine, TypeOK, DbGrown, None, Versions
<1>2. CASE read[t].tries + 1 >= Attempts
  <2>1. Return(t, FALSE, None, None, keep)
    BY <1>2 DEF Retry
  <2> QED BY <1>1, <2>1, ReturnInv DEF Versions
<1>3. CASE ~(read[t].tries + 1 >= Attempts)
  <2> DEFINE r == [read[t] EXCEPT !.at = "load", !.tries = @ + 1, !.same = FALSE,
                                  !.content = None, !.rev = None]
  <2>1. /\ read' = [read EXCEPT ![t] = r] /\ stamps' = keep \cup {t}
        /\ UNCHANGED <<rlock, scan>> /\ cache' = None
    BY <1>3, <1>t DEF Retry, TypeOK, Dropped
  <2>2. read[t] \in Reads
    BY <1>t DEF TypeOK
  <2>3. r \in Reads /\ r.at = "load" /\ r.start = read[t].start
    <3>1. read[t].tries + 1 \in Nat /\ None \in Versions
      BY <2>2 DEF Reads, Versions
    <3> QED BY <2>2, <3>1 DEF Reads
  <2> HIDE DEF r
  <2>4. read'[t] = r
    BY <1>t, <2>1 DEF TypeOK
  <2>5. LoadKnows(t)'
    <3>1. read[t].start <= db.content /\ read[t].start \in Nat /\ db.content \in Nat
      BY <1>t, <2>2 DEF LoadKnows, Reads, TypeOK
    <3> QED BY <2>1, <2>3, <2>4, <3>1 DEF LoadKnows, DbGrown
  <2> QED BY <1>1, <1>t, <2>1, <2>3, <2>5, GoesOnInv DEF TypeOK
<1> QED BY <1>2, <1>3

\* A step that leaves every load alone: the settings move on, and the copy stays as it is or
\* is dropped with the local revision.
LEMMA OutsideInv ==
  ASSUME ReadInv, UNCHANGED <<read, rlock>>, TypeOK', Locked', ScanPlaced', DbGrown,
         hook' <= db'.content, own' <= db'.content,
         \A t \in Tasks : write'[t].content <= db'.content,
         UNCHANGED <<cache, crev, stamps, own>> \/ Invalidated
  PROVE  ReadInv'
<1>t. TypeOK /\ Numbered /\ OwnWritesSeen
  BY DEF ReadInv
<1>1. cache' = crev' /\ cache' <= db'.content /\ OwnWritesSeen'
  BY <1>t DEF TypeOK, Numbered, OwnWritesSeen, Invalidated, Dropped, DbGrown, Versions, None
<1>2. Numbered'
  BY <1>1 DEF Numbered, DbGrown
<1>3. ASSUME NEW t \in Tasks, read'[t].at # "idle" PROVE LoadKnows(t)'
  <2>1. LoadKnows(t) /\ read[t] \in Reads /\ read'[t] = read[t] /\ db.content \in Nat /\ db'.content \in Nat
    BY <1>3, <1>t DEF ReadInv, TypeOK, DbGrown
  <2>2. read[t].start \in Nat /\ read[t].content \in Versions
    BY <2>1 DEF Reads
  <2>3. read[t].start <= db'.content
    BY <2>1, <2>2 DEF LoadKnows, DbGrown
  <2>4. CASE UNCHANGED <<cache, crev, stamps, own>>
    BY <2>1, <2>2, <2>3, <2>4 DEF LoadKnows, DbGrown
  <2>5. CASE Invalidated
    <3>1. cache' = None /\ stamps' = {}
      BY <2>5 DEF Invalidated, Dropped
    <3> QED BY <2>1, <2>2, <2>3, <3>1 DEF LoadKnows, DbGrown
  <2> QED BY <2>4, <2>5
<1> QED BY <1>1, <1>2, <1>3 DEF ReadInv

\* The steps of a load: the revision asked for, the copy used, the settings loaded, the
\* revision confirmed and the copy published (_load_config).
LEMMA LoadSteps ==
  ASSUME ReadInv, NEW t \in Tasks,
         CheckRevision(t) \/ UseCopy(t) \/ Load(t) \/ LoadFails(t) \/ Confirm(t) \/ Publish(t)
  PROVE  ReadInv'
<1>t. TypeOK /\ Numbered /\ OwnWritesSeen
  BY DEF ReadInv
<1>a. read[t].at # "idle"
  BY DEF CheckRevision, UseCopy, Load, LoadFails, Confirm, Publish
<1>k. LoadKnows(t) /\ read[t] \in Reads /\ read \in [Tasks -> Reads]
  BY <1>t, <1>a DEF ReadInv, TypeOK
<1>f. DbGrown /\ faults' \in Nat /\ UNCHANGED <<db, wlock, write, hook, own>>
  <2>1. faults' = faults \/ faults' = faults + 1
    BY DEF CheckRevision, UseCopy, Load, LoadFails, Confirm, Publish
  <2>2. UNCHANGED <<db, wlock, write, hook, own>>
    BY DEF CheckRevision, UseCopy, Load, LoadFails, Confirm, Publish
  <2>3. DbGrown
    BY <1>t, <2>2 DEF DbGrown, TypeOK, Numbered
  <2> QED BY <1>t, <2>1, <2>2, <2>3 DEF TypeOK
<1>c. CacheKept \/ CopyKept => CopyFine
  BY <1>t, <1>f DEF CacheKept, CopyKept, CopyFine, TypeOK, Numbered, OwnWritesSeen
<1>d. Dropped => CopyFine
  BY <1>t, <1>f, IdleTypes DEF Dropped, CopyFine, DbGrown, Versions, None
<1>n. None \in Versions /\ db.content \in Nat /\ db.rev = db.content
  BY <1>t DEF Versions, TypeOK, Numbered
<1>g. ASSUME NEW r \in Reads, r.at # "idle", read' = [read EXCEPT ![t] = r], CacheKept,
             UNCHANGED <<rlock, scan>>, LoadKnows(t)'
      PROVE  ReadInv'
  BY <1>a, <1>c, <1>f, <1>g, <1>t, GoesOnInv DEF CacheKept, TypeOK
<1>1. CASE CheckRevision(t)
  <2>0. ~read[t].same /\ read[t].at = "check" /\ CacheKept /\ UNCHANGED <<rlock, scan>>
    BY <1>1, <1>k DEF CheckRevision, LoadKnows
  <2> DEFINE r(b) == [read[t] EXCEPT !.at = "checked", !.same = b]
  <2>1. PICK b \in BOOLEAN : read' = [read EXCEPT ![t] = r(b)] /\ (b => crev = db.rev)
    <3>1. CASE read' = [read EXCEPT ![t].at = "checked", ![t].same = (crev = db.rev)]
      <4>1. read' = [read EXCEPT ![t] = r(crev = db.rev)]
        BY <1>k, <3>1
      <4>2. CASE crev = db.rev
        <5>1. r(crev = db.rev) = r(TRUE)
          BY <4>2
        <5> QED BY <4>1, <4>2, <5>1
      <4>3. CASE crev # db.rev
        <5>1. r(crev = db.rev) = r(FALSE)
          BY <4>3
        <5> QED BY <4>1, <5>1
      <4> QED BY <4>2, <4>3
    <3>2. CASE read' = [read EXCEPT ![t].at = "checked"]
      <4>1. [read[t] EXCEPT !.at = "checked"] = r(FALSE)
        BY <1>k, <2>0 DEF Reads
      <4> QED BY <1>k, <3>2, <4>1
    <3> QED BY <1>1, <3>1, <3>2 DEF CheckRevision
  <2>2. r(b) \in Reads /\ r(b).at = "checked" /\ r(b).same = b /\ r(b).start = read[t].start
    BY <1>k DEF Reads
  <2> HIDE DEF r
  <2>3. read'[t] = r(b)
    BY <1>k, <2>1
  <2>4. LoadKnows(t)'
    <3>1. /\ cache' = cache /\ stamps' = stamps /\ own' = own /\ db' = db
          /\ (b => cache = db.content) /\ read[t].start <= db.content /\ (t \notin stamps => cache = None)
      BY <1>f, <1>k, <1>t, <2>0, <2>1 DEF LoadKnows, CacheKept, CopyKept, Numbered
    <3> QED BY <2>2, <2>3, <3>1 DEF LoadKnows
  <2> QED BY <1>g, <2>0, <2>1, <2>2, <2>4
<1>2. CASE UseCopy(t)
  <2>1. CASE Current(t)
    <3>1. Return(t, TRUE, cache, crev, stamps) /\ CopyKept
      BY <1>2, <2>1 DEF UseCopy
    <3> QED BY <1>a, <1>c, <1>f, <1>t, <3>1, ReturnInv DEF TypeOK
  <2>2. CASE ~Current(t)
    <3> DEFINE r == [read[t] EXCEPT !.at = "load", !.same = FALSE]
    <3>1. /\ read' = [read EXCEPT ![t] = r] /\ UNCHANGED <<rlock, scan>>
          /\ Dropped \/ CopyKept
          /\ cache' = None /\ t \in stamps' /\ stamps' \subseteq stamps \cup {t}
      BY <1>2, <2>2, <1>k DEF UseCopy, Dropped, CopyKept
    <3>2. r \in Reads /\ r.at = "load" /\ r.start = read[t].start
      BY <1>k DEF Reads
    <3> HIDE DEF r
    <3>3. read'[t] = r
      BY <1>k, <3>1
    <3>4. LoadKnows(t)'
      BY <1>f, <1>k, <3>1, <3>2, <3>3 DEF LoadKnows
    <3>5. stamps' \subseteq Tasks \cup {"evidence"}
      BY <1>t, <3>1 DEF TypeOK
    <3> QED BY <1>a, <1>c, <1>d, <1>f, <3>1, <3>2, <3>4, <3>5, GoesOnInv
  <2> QED BY <2>1, <2>2
<1>3. CASE Load(t)
  <2>1. CASE read' = [read EXCEPT ![t].at = "migrate"] /\ CacheKept /\ UNCHANGED <<rlock, scan>>
    <3>1. [read[t] EXCEPT !.at = "migrate"] \in Reads
      BY <1>k DEF Reads
    <3>2. read' = [read EXCEPT ![t] = [read[t] EXCEPT !.at = "migrate"]]
      BY <1>k, <2>1
    <3>3. LoadKnows(t)'
      BY <1>3, <1>f, <1>k, <2>1, <3>2 DEF LoadKnows, CacheKept, CopyKept, Reads, Load
    <3> QED BY <1>g, <1>k, <2>1, <3>1, <3>2, <3>3 DEF Reads
  <2>2. CASE \E keep \in {{}, stamps} : Retry(t, keep)
    BY <1>a, <1>f, <2>2, RetryInv
  <2>3. CASE /\ ~SnapshotRetires(t) /\ t \in stamps
             /\ read' = [read EXCEPT ![t].at = "confirm", ![t].content = db.content, ![t].rev = db.rev]
             /\ CacheKept /\ UNCHANGED <<rlock, scan>>
    <3> DEFINE r == [read[t] EXCEPT !.at = "confirm", !.content = db.content, !.rev = db.rev]
    <3>1. read' = [read EXCEPT ![t] = r]
      BY <1>k, <2>3
    <3>2. /\ r \in Reads /\ r.at = "confirm" /\ r.content = db.content /\ r.rev = db.rev
          /\ r.start = read[t].start /\ r.snapshot = read[t].snapshot
      BY <1>k, <1>n DEF Reads, Versions
    <3> HIDE DEF r
    <3>3. read'[t] = r
      BY <1>k, <3>1
    <3>4. cache # None => cache = db.content
      BY <1>3, <1>k, <1>t, <2>3 DEF LoadKnows, SnapshotRetires, Load, Numbered
    <3>5. own <= db.content /\ read[t].start <= db.content
      BY <1>k, <1>t DEF Numbered, LoadKnows
    <3>6. ~read[t].snapshot => cache = None
      BY <1>3, <1>k DEF LoadKnows, Load
    <3>7. LoadKnows(t)'
      BY <1>f, <1>n, <2>3, <3>2, <3>3, <3>4, <3>5, <3>6 DEF LoadKnows, CacheKept, CopyKept
    <3> QED BY <1>g, <2>3, <3>1, <3>2, <3>7
  <2> QED BY <1>3, <2>1, <2>2, <2>3 DEF Load
<1>4. CASE LoadFails(t)
  <2>1. Return(t, FALSE, None, None, stamps) /\ Dropped
    BY <1>4 DEF LoadFails, Degraded
  <2> QED BY <1>a, <1>d, <1>f, <1>n, <2>1, ReturnInv
<1>5. CASE Confirm(t)
  <2> DEFINE r == [read[t] EXCEPT !.at = "publish", !.same = (read[t].rev = db.rev)]
  <2>1. read' = [read EXCEPT ![t] = r] /\ CacheKept /\ UNCHANGED <<rlock, scan>> /\ read[t].at = "confirm"
    BY <1>5, <1>k DEF Confirm
  <2>2. /\ r \in Reads /\ r.at = "publish" /\ r.content = read[t].content /\ r.rev = read[t].rev
        /\ r.start = read[t].start /\ r.snapshot = read[t].snapshot
    BY <1>k DEF Reads
  <2> HIDE DEF r
  <2>3. read'[t] = r
    BY <1>k, <2>1
  <2>4. LoadKnows(t)'
    BY <1>f, <1>k, <2>1, <2>2, <2>3 DEF LoadKnows, CacheKept, CopyKept
  <2> QED BY <1>g, <2>1, <2>2, <2>4
<1>6. CASE Publish(t)
  <2>1. CASE \E keep \in {{}, stamps} : Retry(t, keep)
    BY <1>a, <1>f, <2>1, RetryInv
  <2>2. CASE /\ t \in stamps /\ cache' = read[t].content /\ crev' = read[t].rev
             /\ Return(t, TRUE, read[t].content, read[t].rev, stamps)
    <3>1. /\ read[t].content \in Nat /\ read[t].rev = read[t].content
          /\ read[t].content <= db.content /\ own <= read[t].content
      BY <1>6, <1>k, <2>2 DEF LoadKnows, Publish
    <3>2. CopyFine /\ read[t].content \in Versions /\ read[t].rev \in Versions
      BY <1>f, <2>2, <3>1 DEF CopyFine, Versions
    <3> QED BY <1>a, <1>f, <2>2, <3>2, ReturnInv
  <2> QED BY <1>6, <2>1, <2>2 DEF Publish
<1> QED BY <1>1, <1>2, <1>3, <1>4, <1>5, <1>6

\* A load begins (read_config, read_config_snapshot), or is answered from the copy.
LEMMA EnterInv ==
  ASSUME ReadInv, NEW t \in Tasks, NEW kind \in Kinds, Enter(t, kind), scan' \in Scans, ScanPlaced'
  PROVE  ReadInv'
<1>t. /\ TypeOK /\ Locked /\ Numbered /\ OwnWritesSeen /\ rlock = Nobody
      /\ UNCHANGED <<db, cache, crev, wlock, write, hook, own, faults>>
  BY DEF ReadInv, Enter
<1>n. \A d \in Tasks : read[d].at = "idle"
  BY <1>t DEF Locked, Tasks, Nobody
<1>1. CASE UNCHANGED <<rlock, read, stamps>>
  <2>1. TypeOK' /\ Locked' /\ Numbered' /\ OwnWritesSeen'
    BY <1>t, <1>1 DEF TypeOK, Locked, Numbered, OwnWritesSeen
  <2> QED BY <1>n, <1>1, <2>1 DEF ReadInv
<1>2. CASE ~(kind = "plain" /\ cache # None)
  <2> DEFINE r == [NotReading EXCEPT !.at = IF kind = "refresh" /\ cache # None THEN "check" ELSE "load",
                                     !.snapshot = (kind = "snapshot"), !.start = db.content]
  <2>1. read' = [read EXCEPT ![t] = r] /\ rlock' = t /\ stamps' = stamps \cup {t}
    BY <1>2 DEF Enter
  <2>2. /\ r \in Reads /\ r.at \in {"check", "load"} /\ r.start = db.content /\ ~r.same
        /\ (r.at = "load" /\ ~r.snapshot) => cache = None
    BY <1>2, <1>t, IdleTypes DEF Reads, NotReading, TypeOK, Kinds
  <2> HIDE DEF r
  <2>3. read' \in [Tasks -> Reads] /\ \A d \in Tasks : read'[d] = IF d = t THEN r ELSE read[d]
    BY <1>t, <2>1, <2>2 DEF TypeOK
  <2>4. TypeOK' /\ Numbered' /\ OwnWritesSeen'
    BY <1>t, <2>1, <2>3 DEF TypeOK, Numbered, OwnWritesSeen
  <2>5. Locked'
    BY <1>n, <1>t, <2>1, <2>2, <2>3 DEF Locked
  <2>6. LoadKnows(t)'
    BY <1>t, <2>1, <2>2, <2>3 DEF LoadKnows, TypeOK
  <2>7. \A d \in Tasks : read'[d].at # "idle" => d = t
    BY <1>n, <2>3
  <2> QED BY <2>4, <2>5, <2>6, <2>7 DEF ReadInv
<1> QED BY <1>1, <1>2 DEF Enter

\* The migration inside a load (_merge_loaded_config).
LEMMA MigrateInv == ASSUME ReadInv, NEW t \in Tasks, Migrate(t) PROVE ReadInv'
<1>t. TypeOK /\ Numbered /\ read[t].at # "idle" /\ UNCHANGED <<wlock, write, hook, own>>
  BY DEF ReadInv, Migrate
<1>1. \/ Retry(t, {}) /\ UNCHANGED faults
      \/ Return(t, FALSE, None, None, {}) /\ Dropped /\ faults' = faults + 1
  BY DEF Migrate
<1> DEFINE m == [Committed(db) EXCEPT !.legacy = FALSE]
<1>2. db' = db \/ db' = m
  BY DEF Migrate
<1>5. m \in [content : Nat, rev : Nat, legacy : BOOLEAN] /\ m.content = db.content + 1 /\ m.rev = db.content + 1
  BY <1>t, CommittedNext
<1> HIDE DEF m
<1>6. db \in [content : Nat, rev : Nat, legacy : BOOLEAN] /\ db.rev = db.content /\ db.content \in Nat
  BY <1>t DEF TypeOK, Numbered
<1>3. DbGrown
  BY <1>2, <1>5, <1>6 DEF DbGrown
<1>a. (faults' = faults \/ faults' = faults + 1) /\ faults \in Nat
  BY <1>t DEF Migrate, TypeOK
<1>7. faults' \in Nat
  BY <1>a
<1>n. None \in Versions /\ {} \in SUBSET stamps
  BY DEF Versions
<1>4. Dropped => CopyFine
  BY <1>3, IdleTypes DEF Dropped, CopyFine, DbGrown, Versions, None
<1>8. CASE Retry(t, {})
  BY <1>3, <1>7, <1>8, <1>t, RetryInv
<1>9. CASE Return(t, FALSE, None, None, {}) /\ Dropped
  BY <1>3, <1>4, <1>7, <1>9, <1>n, <1>t, ReturnInv
<1> QED BY <1>1, <1>8, <1>9

\* A save, and the commits of others, leave every load alone.
LEMMA WriteSteps ==
  ASSUME ReadInv,
         \/ MenuSaves \/ ScanFallsBack \/ SyncCommit \/ SyncHook \/ OtherCommit \/ ScanActs
         \/ \E t \in Tasks : CommitWrite(t) \/ CommitFails(t) \/ Settle(t)
  PROVE  ReadInv'
<1>t. TypeOK /\ Locked /\ Numbered /\ ScanPlaced
  BY DEF ReadInv
<1>n. /\ None \in Versions /\ None \in Int /\ db.content \in Nat /\ own \in Nat /\ hook \in Versions
      /\ \A v \in Versions : v \in Int
  BY <1>t, IdleTypes DEF TypeOK, Versions
<1>d. /\ (db' = db \/ db' = Committed(db)) => DbGrown
      /\ db' = Committed(db) => db'.content = db.content + 1
  BY <1>t, CommittedNext DEF DbGrown, TypeOK, Numbered
<1>w. \A t \in Tasks : write[t] \in Writes /\ write[t].content \in Versions /\ write[t].content <= db.content
  BY <1>t DEF TypeOK, Writes, Numbered
<1>h. hook <= db.content /\ own <= db.content /\ wlock \in Tasks \cup {Nobody} /\ crev \in Versions
  BY <1>t DEF Numbered, TypeOK
<1>1. ASSUME NEW t \in Tasks, NEW guarded \in BOOLEAN, BeginWrite(t, guarded), UNCHANGED scan,
             t = "scan" => scan.at = "collected"
      PROVE  ReadInv'
  <2> DEFINE w == [NotWriting EXCEPT !.at = "commit", !.expected = IF guarded THEN crev ELSE None]
  <2>1. /\ write' = [write EXCEPT ![t] = w] /\ wlock = Nobody /\ wlock' = t
        /\ UNCHANGED <<db, cache, crev, stamps, rlock, read, hook, own, faults>>
    BY <1>1 DEF BeginWrite
  <2>2. w \in Writes /\ w.at = "commit" /\ w.content = None
    BY <1>h, <1>n, IdleTypes DEF Writes, NotWriting
  <2> HIDE DEF w
  <2>3. write' \in [Tasks -> Writes] /\ \A d \in Tasks : write'[d] = IF d = t THEN w ELSE write[d]
    BY <1>t, <2>1, <2>2 DEF TypeOK
  <2>4. TypeOK'
    BY <1>1, <1>t, <2>1, <2>3 DEF TypeOK
  <2>5. Locked'
    BY <1>t, <2>1, <2>2, <2>3 DEF Locked, Tasks, Nobody
  <2>6. ScanPlaced'
    BY <1>1, <1>t, <2>1, <2>3 DEF ScanPlaced, Tasks
  <2>7. \A d \in Tasks : write'[d].content <= db'.content
    BY <1>n, <1>w, <2>1, <2>2, <2>3 DEF None
  <2> QED BY <1>d, <1>h, <2>1, <2>4, <2>5, <2>6, <2>7, OutsideInv
<1>2. ASSUME UNCHANGED <<read, rlock, write, wlock, stamps, cache, crev, own>>,
             db' = db \/ db' = Committed(db), scan' \in Scans, ScanPlaced',
             faults' \in Nat, hook' \in Versions, hook' <= db'.content
      PROVE  ReadInv'
  <2>1. DbGrown /\ db.content <= db'.content /\ db'.content \in Nat
    BY <1>2, <1>d, <1>n DEF DbGrown
  <2>2. TypeOK' /\ Locked'
    <3>1. db' \in [content : Nat, rev : Nat, legacy : BOOLEAN]
      BY <1>2, <1>t, <2>1 DEF TypeOK, DbGrown
    <3>2. TypeOK'
      BY <1>2, <1>t, <3>1 DEF TypeOK
    <3>3. Locked'
      BY <1>2, <1>t DEF Locked
    <3> QED
      BY <3>2, <3>3
  <2>3. own' <= db'.content /\ \A d \in Tasks : write'[d].content <= db'.content
    <3>1. own' = own /\ write' = write
      BY <1>2
    <3>2. \A d \in Tasks : write[d].content \in Int /\ write[d].content <= db.content
      BY <1>n, <1>w
    <3> QED
      BY <1>h, <1>n, <2>1, <3>1, <3>2
  <2> QED BY <1>2, <2>1, <2>2, <2>3, OutsideInv
<1>3. ASSUME UNCHANGED <<read, rlock, db, faults>>, Invalidated, NEW v \in Versions, v <= db.content,
             own' = Newest(own, v), TypeOK', Locked', ScanPlaced', hook' <= db.content,
             \A d \in Tasks : write'[d].content <= db.content
      PROVE  ReadInv'
  <2>1. own' <= db.content /\ DbGrown
    BY <1>3, <1>d, <1>h, <1>n DEF Newest
  <2> QED BY <1>3, <2>1, OutsideInv
<1>4. CASE MenuSaves
  BY <1>1, <1>4 DEF MenuSaves, Tasks
<1>5. CASE ScanFallsBack
  <2>1. CASE BeginWrite("scan", TRUE) /\ UNCHANGED scan
    BY <1>1, <1>5, <2>1 DEF ScanFallsBack, Tasks
  <2>2. CASE /\ wlock = Nobody /\ scan' = ScanIdle
             /\ UNCHANGED <<db, cache, crev, stamps, rlock, wlock, read, write, hook, own, faults>>
    <3>1. write["scan"].at = "idle" /\ read["scan"].at = "idle"
      BY <1>5, <1>t, <2>2 DEF Locked, Tasks, Nobody, ScanPlaced, ScanFallsBack
    <3>2. scan' \in Scans /\ ScanPlaced'
      BY <2>2, <3>1, IdleTypes DEF ScanPlaced, ScanIdle
    <3> QED BY <1>2, <1>h, <1>n, <1>t, <2>2, <3>2 DEF TypeOK
  <2> QED BY <1>5, <2>1, <2>2 DEF ScanFallsBack
<1>6. CASE SyncCommit
  <2>1. hook' = db.content + 1 /\ db' = Committed(db) /\ hook' \in Versions
    BY <1>6, <1>n DEF SyncCommit, Versions
  <2>2. hook' <= db'.content /\ scan' \in Scans /\ ScanPlaced' /\ faults' \in Nat
    BY <1>6, <1>d, <1>n, <1>t, <2>1 DEF SyncCommit, TypeOK, ScanPlaced
  <2> QED BY <1>2, <1>6, <2>1, <2>2 DEF SyncCommit
<1>7. CASE SyncHook
  <2>1. TypeOK'
    <3>1. own' \in Nat
      BY <1>7, <1>n DEF SyncHook, Newest, Versions
    <3>2. cache' \in Versions /\ crev' \in Versions /\ stamps' = {} /\ hook' \in Versions
      BY <1>7, <1>n DEF SyncHook, Invalidated, Dropped
    <3> QED BY <1>7, <1>t, <3>1, <3>2 DEF SyncHook, TypeOK
  <2>2. Locked' /\ ScanPlaced' /\ hook' <= db.content
    BY <1>7, <1>n, <1>t DEF SyncHook, Locked, ScanPlaced, None
  <2> QED BY <1>3, <1>7, <1>h, <1>n, <1>w, <2>1, <2>2 DEF SyncHook
<1>8. CASE OtherCommit
  <2>1. scan' \in Scans /\ ScanPlaced' /\ faults' \in Nat /\ hook' = hook /\ db' = Committed(db)
    BY <1>8, <1>t DEF OtherCommit, TypeOK, ScanPlaced
  <2>2. hook' <= db'.content
    BY <1>d, <1>h, <1>n, <2>1
  <2> QED BY <1>2, <1>8, <1>n, <2>1, <2>2 DEF OtherCommit
<1>9. CASE ScanActs
  <2>1. scan' \in Scans /\ ScanPlaced' /\ scan' = ScanIdle
    BY <1>9, <1>t, IdleTypes DEF ScanActs, ScanIdle, ScanPlaced
  <2> QED BY <1>2, <1>9, <1>h, <1>n, <1>t, <2>1 DEF ScanActs, TypeOK
<1>10. ASSUME NEW t \in Tasks, CommitWrite(t) \/ CommitFails(t) PROVE ReadInv'
  <2>1. /\ write[t].at = "commit" /\ (db' = db \/ db' = Committed(db))
        /\ UNCHANGED <<cache, crev, stamps, rlock, wlock, read, hook, scan, own>>
    BY <1>10 DEF CommitWrite, CommitFails
  <2>2. PICK v \in Versions : /\ write' = [write EXCEPT ![t] = [write[t] EXCEPT !.at = "settle", !.content = v]]
                              /\ v <= db'.content
    <3>1. CASE write' = [write EXCEPT ![t].at = "settle"]
      <4>1. [write[t] EXCEPT !.at = "settle"]
              = [write[t] EXCEPT !.at = "settle", !.content = write[t].content]
        BY <1>w DEF Writes
      <4>2. write[t].content <= db'.content
        <5>1. write[t].content \in Int /\ write[t].content <= db.content
          BY <1>n, <1>w
        <5>2. db'.content = db.content \/ db'.content = db.content + 1
          BY <1>d, <2>1
        <5> QED BY <1>n, <5>1, <5>2
      <4> QED BY <1>t, <1>w, <3>1, <4>1, <4>2 DEF TypeOK
    <3>2. CASE /\ db' = Committed(db)
               /\ write' = [write EXCEPT ![t].at = "settle", ![t].content = db.content + 1]
      <4>1. db.content + 1 \in Versions /\ db.content + 1 <= db'.content
        BY <1>d, <1>n, <3>2 DEF Versions
      <4> QED BY <1>t, <3>2, <4>1 DEF TypeOK
    <3> QED BY <1>10, <3>1, <3>2 DEF CommitWrite, CommitFails
  <2> DEFINE w == [write[t] EXCEPT !.at = "settle", !.content = v]
  <2>3. w \in Writes /\ w.at = "settle" /\ w.content = v
    BY <1>w DEF Writes
  <2> HIDE DEF w
  <2>4. write' \in [Tasks -> Writes] /\ \A d \in Tasks : write'[d] = IF d = t THEN w ELSE write[d]
    BY <1>t, <2>2, <2>3 DEF TypeOK, w
  <2>5. DbGrown /\ db'.content \in Nat /\ db.content <= db'.content
    BY <1>d, <2>1 DEF DbGrown
  <2>6. faults' \in Nat
    BY <1>10, <1>t DEF CommitWrite, CommitFails, TypeOK
  <2>7. TypeOK'
    BY <1>t, <2>1, <2>4, <2>5, <2>6 DEF TypeOK, DbGrown
  <2>8. Locked' /\ ScanPlaced'
    BY <1>t, <2>1, <2>3, <2>4 DEF Locked, ScanPlaced, Tasks
  <2>9. hook' <= db'.content /\ own' <= db'.content /\ \A d \in Tasks : write'[d].content <= db'.content
    BY <1>h, <1>n, <1>w, <2>1, <2>2, <2>3, <2>4, <2>5
  <2> QED BY <2>1, <2>5, <2>7, <2>8, <2>9, OutsideInv
<1>11. ASSUME NEW t \in Tasks, Settle(t) PROVE ReadInv'
  <2>1. /\ write' = [write EXCEPT ![t] = NotWriting] /\ wlock' = Nobody /\ wlock = t /\ Invalidated
        /\ own' = Newest(own, write[t].content) /\ UNCHANGED <<db, rlock, read, hook, faults>>
        /\ scan' = IF t = "scan" THEN ScanIdle ELSE scan
    BY <1>11, <1>t DEF Settle, Locked
  <2>2. write' \in [Tasks -> Writes] /\ \A d \in Tasks : write'[d] = IF d = t THEN NotWriting ELSE write[d]
    BY <1>t, <2>1, IdleTypes DEF TypeOK
  <2>3. own' \in Nat /\ cache' \in Versions /\ crev' \in Versions /\ stamps' = {} /\ scan' \in Scans
    BY <1>n, <1>t, <1>w, <2>1, IdleTypes DEF Newest, Invalidated, Dropped, TypeOK, Versions
  <2>4. TypeOK'
    BY <1>t, <2>1, <2>2, <2>3 DEF TypeOK
  <2>5. Locked'
    BY <1>t, <2>1, <2>2 DEF Locked, NotWriting, Tasks, Nobody
  <2>6. ScanPlaced'
    <3>1. CASE t = "scan"
      BY <1>11, <1>t, <2>1, <2>2, <3>1 DEF ScanPlaced, ScanIdle, NotWriting, Settle, Tasks
    <3>2. CASE t # "scan"
      BY <1>t, <2>1, <2>2, <3>2 DEF ScanPlaced, Tasks
    <3> QED BY <3>1, <3>2
  <2>7. \A d \in Tasks : write'[d].content <= db.content
    BY <1>n, <1>w, <2>2 DEF NotWriting, None
  <2> QED BY <1>3, <1>h, <1>w, <2>1, <2>4, <2>5, <2>6, <2>7
<1> QED BY <1>4, <1>5, <1>6, <1>7, <1>8, <1>9, <1>10, <1>11

\* Every step keeps ReadInv.
LEMMA ReadInductive == ReadInv /\ [Next]_vars => ReadInv'
<1> SUFFICES ASSUME ReadInv, [Next]_vars PROVE ReadInv'
  OBVIOUS
<1>1. CASE ScanReads
  <2>1. PICK kind \in {"refresh", "snapshot"} : Enter("scan", kind)
    BY <1>1 DEF ScanReads
  <2>2. scan \in Scans /\ ScanPlaced
    BY DEF ReadInv, TypeOK
  <2>3. /\ write' = write /\ write["scan"].at = "idle" /\ scan.at \in {"idle", "collected", "judged"}
        /\ scan' \in Scans /\ scan'.at \in {"config", "snapshot", "policy"}
    BY <1>1, <2>2 DEF ScanReads, Scans, Enter
  <2> DEFINE r == [NotReading EXCEPT !.at = IF kind = "refresh" /\ cache # None THEN "check" ELSE "load",
                                     !.snapshot = (kind = "snapshot"), !.start = db.content]
  <2>5. read' = [read EXCEPT !["scan"] = r]
    BY <2>1 DEF Enter
  <2>6. r.at # "idle"
    BY DEF NotReading
  <2>4. read'["scan"].at # "idle"
    BY <2>5, <2>6 DEF ReadInv, TypeOK, Tasks
  <2> QED BY <2>1, <2>3, <2>4, EnterInv DEF ScanPlaced, Tasks, Kinds
<1>2. CASE ReaderReads
  <2>1. PICK kind \in Kinds : Enter("reader", kind) /\ UNCHANGED scan
    BY <1>2 DEF ReaderReads
  <2>2. scan' \in Scans /\ ScanPlaced'
    BY <2>1 DEF ReadInv, TypeOK, ScanPlaced, Enter, Tasks
  <2> QED BY <2>1, <2>2, EnterInv DEF Tasks
<1>3. CASE UNCHANGED vars
  BY <1>3 DEF vars, ReadInv, TypeOK, Locked, Numbered, OwnWritesSeen, ScanPlaced, LoadKnows
<1> QED BY <1>1, <1>2, <1>3, LoadSteps, MigrateInv, WriteSteps DEF Next

LEMMA ReadInvHolds == Spec => []ReadInv
<1>1. Init => ReadInv
  <2> SUFFICES ASSUME Init PROVE ReadInv
    OBVIOUS
  <2>1. TypeOK
    BY IdleTypes DEF Init, TypeOK, Versions, Nobody
  <2>2. Locked /\ ScanPlaced
    BY DEF Init, Locked, ScanPlaced, NotReading, NotWriting, ScanIdle, Tasks, Nobody
  <2>3. Numbered /\ OwnWritesSeen
    BY DEF Init, Numbered, OwnWritesSeen, NotWriting, None
  <2> QED BY <2>1, <2>2, <2>3 DEF ReadInv, Init, NotReading
<1> QED BY <1>1, ReadInductive, PTL DEF Spec

\* A load that ends with a copy published has seen all there was when it began.
LEMMA FreshStep == ASSUME ReadInv, [Next]_vars PROVE FreshRead
<1> SUFFICES ASSUME NEW t \in Tasks, read[t].at # "idle", read'[t].at = "idle", cache' # None
             PROVE  cache' >= read[t].start
  BY DEF FreshRead
<1>t. /\ TypeOK /\ Locked /\ Numbered /\ LoadKnows(t) /\ rlock = t
      /\ read \in [Tasks -> Reads] /\ read[t] \in Reads
  BY DEF ReadInv, Locked, TypeOK
<1>n. read[t].start \in Nat /\ cache \in Versions /\ db.content \in Nat
  BY <1>t DEF Reads, TypeOK
<1>1. ASSUME NEW d \in Tasks, UseCopy(d) PROVE cache' >= read[t].start
  <2>1. d = t
    BY <1>1, <1>t DEF Locked, UseCopy
  <2>2. CASE Current(t)
    BY <1>1, <1>n, <1>t, <2>1, <2>2 DEF UseCopy, Current, LoadKnows, CopyKept, Versions
  <2>3. CASE ~Current(t)
    <3>1. read' = [read EXCEPT ![t].at = "load", ![t].same = FALSE]
      BY <1>1, <2>1, <2>3 DEF UseCopy
    <3>2. read'[t].at = "load"
      BY <1>t, <3>1 DEF Reads
    <3> QED BY <3>2
  <2> QED BY <2>2, <2>3
<1>2. ASSUME NEW d \in Tasks, Publish(d) PROVE cache' >= read[t].start
  <2>1. d = t
    BY <1>2, <1>t DEF Locked, Publish
  <2>2. cache' = read[t].content /\ read[t].at = "publish"
    BY <1>2, <2>1 DEF Publish, Retry, Dropped
  <2> QED BY <1>n, <1>t, <2>2 DEF LoadKnows
<1>3. ASSUME NEW d \in Tasks, Load(d) \/ LoadFails(d) \/ Migrate(d) PROVE FALSE
  <2>1. d = t
    BY <1>3, <1>t DEF Locked, Load, LoadFails, Migrate
  <2>2. CASE Load(t)
    <3>1. \/ read' = [read EXCEPT ![t].at = "migrate"]
          \/ cache' = None
          \/ read' = [read EXCEPT ![t].at = "confirm", ![t].content = db.content, ![t].rev = db.rev]
      BY <2>2 DEF Load, Retry, Dropped
    <3>2. CASE read' = [read EXCEPT ![t].at = "migrate"]
      <4>1. read'[t].at = "migrate"
        BY <1>t, <3>2 DEF Reads
      <4> QED BY <4>1
    <3>3. CASE read' = [read EXCEPT ![t].at = "confirm", ![t].content = db.content, ![t].rev = db.rev]
      <4>1. read'[t].at = "confirm"
        BY <1>t, <3>3 DEF Reads
      <4> QED BY <4>1
    <3> QED BY <3>1, <3>2, <3>3
  <2>3. CASE LoadFails(t) \/ Migrate(t)
    BY <2>3 DEF LoadFails, Migrate, Degraded, Retry, Dropped
  <2> QED BY <1>3, <2>1, <2>2, <2>3
<1>4. ASSUME NEW d \in Tasks, CheckRevision(d) \/ Confirm(d) PROVE FALSE
  <2>1. read'[t] = read[t] \/ read'[t].at \in {"checked", "publish"}
    BY <1>4, <1>t DEF CheckRevision, Confirm, Reads
  <2> QED BY <2>1
<1>5. ASSUME NEW d \in Tasks, NEW kind, Enter(d, kind) PROVE FALSE
  BY <1>5, <1>t DEF Enter, Tasks, Nobody
<1>6. read' # read
  OBVIOUS
<1>7. CASE ScanReads \/ ReaderReads
  BY <1>5, <1>7 DEF ScanReads, ReaderReads, Tasks
<1>8. CASE ScanActs \/ ScanFallsBack \/ MenuSaves \/ SyncCommit \/ SyncHook \/ OtherCommit
  BY <1>6, <1>8 DEF ScanActs, ScanFallsBack, MenuSaves, BeginWrite, SyncCommit, SyncHook, OtherCommit
<1>9. CASE \E d \in Tasks : CommitWrite(d) \/ CommitFails(d) \/ Settle(d)
  BY <1>6, <1>9 DEF CommitWrite, CommitFails, Settle
<1>10. CASE UNCHANGED vars
  BY <1>6, <1>10 DEF vars
<1> QED BY <1>1, <1>2, <1>3, <1>4, <1>7, <1>8, <1>9, <1>10 DEF Next

\* Whatever this and the other processes commit, and whatever fails: the copy is never older
\* than a write this process has announced, and no load answers with settings older than
\* those in the database when it began (_load_config's two revisions, _finish_source_change).
THEOREM SettingsCurrent == Spec => ReadsCurrent
<1>1. ReadInv' => OwnWritesSeen'
  BY DEF ReadInv
<1>2. ReadInv /\ [Next]_vars => FreshRead
  BY FreshStep
<1>3. ReadInv /\ ReadInv' /\ [Next]_vars => [OwnWritesSeen' /\ FreshRead]_vars
  BY <1>1, <1>2
<1> QED BY <1>3, ReadInvHolds, PTL DEF Spec, ReadsCurrent

-----------------------------------------------------------------------------
(* The scan.                                                                *)

\* A load ends while the scan keeps evidence.
LEMMA ReturnScan ==
  ASSUME ReadInv, ScanInv, NEW t \in Tasks, read[t].at # "idle",
         NEW ok \in BOOLEAN, NEW content \in Versions, NEW rev \in Versions,
         NEW keep \in SUBSET stamps, Return(t, ok, content, rev, keep), UNCHANGED write,
         ok => cache' = content /\ content # None,
         ("evidence" \in keep /\ scan.at \notin {"idle", "config"} /\ (t = "scan" => ok))
           => cache' # None /\ cache' = scan.content
  PROVE  ScanInv'
<1>t. TypeOK /\ ScanPlaced /\ scan \in Scans
  BY DEF ReadInv, TypeOK
<1>e. "evidence" \notin Tasks
  BY DEF Tasks
<1>1. CASE t = "scan"
  <2>1. /\ scan.at \in {"config", "snapshot", "policy"} /\ write["scan"].at = "idle"
        /\ scan' = ScanAfter(ok, content, rev, "evidence" \in keep)
    BY <1>1, <1>t DEF ScanPlaced, Return, TypeOK, Tasks, Writes
  <2>2. /\ scan'.at \in {"idle", "collected", "judged", "act"}
        /\ scan'.at = "collected" => ok /\ scan'.content = content
        /\ scan'.at \in {"judged", "act"} =>
             ok /\ "evidence" \in keep /\ scan'.content = scan.content /\ scan.at # "config"
        /\ scan'.at = "act" => scan'.policy = content
    BY <1>t, <2>1, ScanResumes
  <2> QED BY <1>1, <2>1, <2>2 DEF ScanInv, EvidenceOfCopy, FallbackExpects, EvidenceRetired
<1>2. CASE t # "scan"
  <2>1. scan' = scan /\ ("evidence" \in stamps' => "evidence" \in keep)
    BY <1>2, <1>e DEF Return
  <2> QED BY <1>2, <2>1 DEF ScanInv, EvidenceOfCopy, FallbackExpects, EvidenceRetired
<1> QED BY <1>1, <1>2

\* A step that keeps the scan's place, its save and the copy of its evidence.
LEMMA KeepsScan ==
  ASSUME ScanInv, UNCHANGED scan, write'["scan"] = write["scan"] \/ write'["scan"].at # "commit",
         "evidence" \in stamps' => "evidence" \in stamps /\ cache' = cache
  PROVE  ScanInv'
BY DEF ScanInv, EvidenceOfCopy, FallbackExpects, EvidenceRetired

\* Another attempt to load: the evidence was retired, or is retired now.
LEMMA RetryScan ==
  ASSUME ReadInv, ScanInv, NEW t \in Tasks, read[t].at # "idle", NEW keep \in SUBSET stamps,
         Retry(t, keep), UNCHANGED write, keep = {} \/ t \notin stamps
  PROVE  ScanInv'
<1>1. "evidence" \in keep => scan.at \in {"idle", "config"}
  BY DEF ReadInv, LoadKnows, ScanInv, EvidenceOfCopy
<1>2. CASE Return(t, FALSE, None, None, keep)
  BY <1>1, <1>2, ReturnScan DEF Versions
<1>3. CASE stamps' = keep \cup {t} /\ UNCHANGED scan
  BY <1>1, <1>3 DEF ScanInv, EvidenceOfCopy, FallbackExpects, EvidenceRetired, Tasks
<1> QED BY <1>2, <1>3 DEF Retry

\* Every step keeps the evidence of the scan tied to the published copy, when no other
\* task's snapshot fails to load.
LEMMA ScanInductive ==
  ASSUME SnapshotOutage = FALSE, ReadInv, ScanInv, [Next]_vars PROVE ScanInv'
<1>t. /\ TypeOK /\ Locked /\ Numbered /\ ScanPlaced /\ crev = cache /\ crev \in Versions
      /\ cache \in Versions /\ "scan" \in Tasks /\ "evidence" \notin Tasks
  BY DEF ReadInv, TypeOK, Numbered, Tasks
<1>k. \A t \in Tasks : read[t].at # "idle" => LoadKnows(t) /\ read[t] \in Reads
  BY <1>t DEF ReadInv, TypeOK
<1>w. write \in [Tasks -> Writes]
  BY <1>t DEF TypeOK
<1>1. ASSUME NEW t \in Tasks, CheckRevision(t) \/ Confirm(t) PROVE ScanInv'
  BY <1>1, KeepsScan DEF CheckRevision, Confirm, CacheKept, CopyKept
<1>2. ASSUME NEW t \in Tasks, UseCopy(t) PROVE ScanInv'
  <2>1. CASE Current(t)
    <3>1. Return(t, TRUE, cache, crev, stamps) /\ CopyKept /\ cache # None /\ read[t].at # "idle"
          /\ UNCHANGED write
      BY <1>2, <2>1 DEF UseCopy, Current
    <3>2. ("evidence" \in stamps /\ scan.at \notin {"idle", "config"})
             => cache' # None /\ cache' = scan.content
      BY <3>1 DEF ScanInv, EvidenceOfCopy, CopyKept
    <3> QED BY <1>t, <3>1, <3>2, ReturnScan DEF CopyKept
  <2>2. CASE ~Current(t) /\ cache # None
    BY <1>2, <1>t, <2>2, KeepsScan DEF UseCopy
  <2>3. CASE ~Current(t) /\ cache = None
    BY <1>2, <1>t, <2>3, KeepsScan DEF UseCopy, CopyKept
  <2> QED BY <2>1, <2>2, <2>3
<1>3. ASSUME NEW t \in Tasks, Load(t) PROVE ScanInv'
  <2>1. CASE CacheKept /\ UNCHANGED scan
    BY <1>3, <2>1, KeepsScan DEF Load, CacheKept, CopyKept
  <2>2. CASE Retry(t, {}) \/ (t \notin stamps /\ Retry(t, stamps))
    BY <1>3, <2>2, RetryScan DEF Load
  <2> QED BY <1>3, <2>1, <2>2 DEF Load
<1>4. ASSUME NEW t \in Tasks, LoadFails(t) PROVE ScanInv'
  <2>1. /\ Return(t, FALSE, None, None, stamps) /\ read[t].at \in {"load", "confirm"}
        /\ UNCHANGED write /\ (read[t].snapshot => t = "scan")
    BY <1>4 DEF LoadFails, Degraded
  <2>2. t # "scan" => cache = None
    BY <1>k, <2>1 DEF LoadKnows
  <2>3. t # "scan" => ~("evidence" \in stamps /\ scan.at \notin {"idle", "config"})
    BY <2>2 DEF ScanInv, EvidenceOfCopy
  <2> QED BY <2>1, <2>3, ReturnScan DEF Versions
<1>5. ASSUME NEW t \in Tasks, Migrate(t) PROVE ScanInv'
  <2>1. read[t].at # "idle" /\ UNCHANGED write
    BY <1>5 DEF Migrate
  <2>2. CASE Retry(t, {})
    BY <2>1, <2>2, RetryScan
  <2>3. CASE Return(t, FALSE, None, None, {})
    <3>1. None \in Versions /\ {} \in SUBSET stamps /\ "evidence" \notin {}
      BY IdleTypes DEF Versions
    <3> QED BY <2>1, <2>3, <3>1, ReturnScan
  <2> QED BY <1>5, <2>2, <2>3 DEF Migrate
<1>6. ASSUME NEW t \in Tasks, Publish(t) PROVE ScanInv'
  <2>0. read[t].at = "publish" /\ UNCHANGED write
    BY <1>6 DEF Publish
  <2>1. CASE Retry(t, {}) \/ (t \notin stamps /\ Retry(t, stamps))
    BY <2>0, <2>1, RetryScan
  <2>2. CASE Return(t, TRUE, read[t].content, read[t].rev, stamps) /\ cache' = read[t].content
    <3>1. /\ read[t].content \in Nat /\ read[t].content # None
          /\ read[t].content \in Versions /\ read[t].rev \in Versions
          /\ cache # None => cache = read[t].content
      BY <1>k, <2>0, IdleTypes DEF LoadKnows, Reads
    <3>2. ("evidence" \in stamps /\ scan.at \notin {"idle", "config"})
             => cache' # None /\ cache' = scan.content
      BY <2>2, <3>1 DEF ScanInv, EvidenceOfCopy
    <3> QED BY <2>0, <2>2, <3>1, <3>2, ReturnScan
  <2> QED BY <1>6, <2>1, <2>2 DEF Publish
<1>7. CASE ScanReads
  <2>1. /\ write' = write /\ write["scan"].at = "idle" /\ cache' = cache
        /\ "evidence" \in stamps' => "evidence" \in stamps
    BY <1>7, <1>t DEF ScanReads, Enter
  <2>2. /\ scan'.content = scan.content /\ scan'.at # "act"
        /\ scan'.at # "config" => scan.at \in {"collected", "judged"}
    BY <1>7, <1>t DEF ScanReads, TypeOK, Scans
  <2> QED BY <2>1, <2>2 DEF ScanInv, EvidenceOfCopy, FallbackExpects, EvidenceRetired
<1>8. CASE ReaderReads
  <2>1. "evidence" \in stamps' => "evidence" \in stamps
    BY <1>8, <1>t DEF ReaderReads, Enter, Tasks
  <2> QED BY <1>8, <2>1, KeepsScan DEF ReaderReads, Enter
<1>9. CASE MenuSaves
  BY <1>9, <1>w, KeepsScan DEF MenuSaves, BeginWrite, Tasks
<1>10. CASE ScanFallsBack
  <2>1. CASE ~Overtaken /\ BeginWrite("scan", TRUE) /\ UNCHANGED scan
    <3>1. write'["scan"].expected = crev /\ UNCHANGED <<stamps, cache>>
      BY <1>t, <1>w, <2>1 DEF BeginWrite, NotWriting
    <3>2. crev # None /\ crev = scan.content
      BY <1>10, <1>t, <2>1 DEF Overtaken, ScanFallsBack, ScanInv, EvidenceOfCopy
    <3> QED BY <1>t, <2>1, <3>1, <3>2 DEF ScanInv, EvidenceOfCopy, FallbackExpects, EvidenceRetired, Versions
  <2>2. CASE wlock = Nobody /\ scan' = ScanIdle /\ UNCHANGED write
    BY <1>t, <2>2 DEF Locked, Tasks, Nobody, ScanIdle, ScanInv, EvidenceOfCopy, FallbackExpects, EvidenceRetired
  <2> QED BY <1>10, <2>1, <2>2 DEF ScanFallsBack
<1>11. ASSUME NEW t \in Tasks, CommitWrite(t) \/ CommitFails(t) PROVE ScanInv'
  <2>1. write'["scan"] = write["scan"] \/ write'["scan"].at # "commit"
    BY <1>11, <1>t, <1>w DEF CommitWrite, CommitFails, Writes
  <2> QED BY <1>11, <2>1, KeepsScan DEF CommitWrite, CommitFails
<1>12. ASSUME NEW t \in Tasks, Settle(t) PROVE ScanInv'
  <2>1. stamps' = {} /\ write' = [write EXCEPT ![t] = NotWriting]
        /\ scan' = IF t = "scan" THEN ScanIdle ELSE scan
    BY <1>12 DEF Settle, Invalidated
  <2> QED BY <1>t, <1>w, <2>1
          DEF NotWriting, ScanIdle, ScanInv, EvidenceOfCopy, FallbackExpects, EvidenceRetired
<1>13. CASE SyncCommit \/ SyncHook \/ OtherCommit \/ UNCHANGED vars
  BY <1>13, KeepsScan DEF SyncCommit, SyncHook, OtherCommit, Invalidated, vars
<1>14. CASE ScanActs
  BY <1>14, <1>t DEF ScanActs, ScanIdle, ScanPlaced, ScanInv, EvidenceOfCopy, FallbackExpects, EvidenceRetired
<1> QED
  BY <1>1, <1>2, <1>3, <1>4, <1>5, <1>6, <1>7, <1>8, <1>9, <1>10, <1>11, <1>12, <1>13, <1>14 DEF Next

\* A fall-back that is written is written over the settings its evidence was collected under.
LEMMA FallbackStep == ASSUME ReadInv, ScanInv, [Next]_vars PROVE FallbackCurrent
<1> SUFFICES ASSUME write["scan"].at = "commit", write'["scan"].at = "settle", db' # db
             PROVE  db.content = scan.content
  BY DEF FallbackCurrent
<1>t. /\ TypeOK /\ db.rev = db.content /\ write \in [Tasks -> Writes] /\ "scan" \in Tasks
      /\ write["scan"].expected \in Nat /\ write["scan"].expected = scan.content
  BY DEF ReadInv, TypeOK, Numbered, ScanInv, FallbackExpects, Tasks
<1>1. write["scan"].expected # None
  BY <1>t, IdleTypes
<1>2. ASSUME NEW t \in Tasks, CommitWrite(t) \/ CommitFails(t) PROVE db.content = scan.content
  <2>1. t = "scan"
    BY <1>2, <1>t DEF CommitWrite, CommitFails
  <2>2. Admits(db, write["scan"].expected)
    BY <1>2, <2>1 DEF CommitWrite, CommitFails
  <2> QED BY <1>1, <1>t, <2>2 DEF Admits
<1>3. write' # write
  OBVIOUS
<1>4. ASSUME NEW t \in Tasks, NEW guarded, BeginWrite(t, guarded) PROVE FALSE
  BY <1>4 DEF BeginWrite
<1> QED
  BY <1>2, <1>3, <1>4
     DEF Next, ScanReads, ReaderReads, Enter, ScanActs, ScanFallsBack, MenuSaves, Settle, SyncCommit,
         SyncHook, OtherCommit, vars, CheckRevision, UseCopy, Load, LoadFails, Migrate, Confirm, Publish, Tasks

\* As long as no snapshot of another task fails to load, nobody is punished on evidence
\* collected under other settings than the policy was judged by, and the automatic fall-back
\* is committed only over the settings its evidence was collected under
\* (read_config_snapshot, save_config_value with expected_revision).
THEOREM ScanOnCurrent == ASSUME SnapshotOutage = FALSE PROVE Spec => ActsOnCurrent
<1>1. Init => ScanInv
  BY DEF Init, ScanInv, EvidenceOfCopy, FallbackExpects, EvidenceRetired, ScanIdle, NotWriting, Tasks
<1>2. ReadInv /\ ScanInv /\ [Next]_vars => ScanInv' /\ FallbackCurrent
  BY ScanInductive, FallbackStep
<1>3. ScanInv' => EvidenceRetired'
  BY DEF ScanInv
<1>4. ReadInv /\ ScanInv /\ ScanInv' /\ [Next]_vars => [EvidenceRetired' /\ FallbackCurrent]_vars
  BY <1>2, <1>3
<1> QED BY <1>1, <1>2, <1>4, ReadInvHolds, PTL DEF Spec, ActsOnCurrent

------------------------------------------------------------------------------
(* The automatic backup.                                                    *)

LEMMA AudienceAssumption == B!Group \notin Chats
BY ProcessAssumption

\* The state is well typed.
BotTypeOK ==
  /\ stage \in {"db", "config", "tasks", "ended"}
  /\ app \in {"new", "ready", "running"} /\ polling \in BOOLEAN
  /\ starter \in {"off", "init", "start", "poll", "report", "add", "done", "failed"}
  /\ dog \in {"off", "asleep", "init", "start", "poll"}
  /\ conf \in B!Configs /\ jobs \in [Hours -> Nat] /\ menu \in {"idle", "saved", "removed"}
  /\ auto = [pc |-> auto.pc, has |-> auto.has, left |-> auto.left] /\ auto.left \subseteq Chats

\* Before its starter runs the application is new, and a starter that is at work is not overtaken.
StartRight ==
  /\ stage \in {"db", "ended"} => starter = "off" /\ dog = "off" /\ app = "new"
  /\ stage \in {"config", "tasks"} => starter # "off"
  /\ starter = "off" => dog = "off"
  /\ starter \in {"init", "start", "poll"} => dog \in {"off", "asleep"}
  /\ starter = "init" => app # "running"

\* Nobody but the starter and the menu adds a job, and the menu waits for the starter.
BackupJobsRight ==
  /\ menu # "idle" => starter \in {"done", "failed"}
  /\ starter \notin {"done", "failed"} \/ menu = "removed" => jobs = B!NoJobs

\* The admins are asked only when the group does not have the document.
AudienceRight ==
  /\ auto.pc = "group" => auto.has = {}
  /\ auto.pc = "admins" => B!Group \notin auto.has

BotInv == BotTypeOK /\ StartRight /\ BackupJobsRight /\ B!JobsMatch /\ AudienceRight /\ B!OneAudience

LEMMA BotInitially == B!Init => BotInv
<1> SUFFICES ASSUME B!Init PROVE BotInv
  OBVIOUS
<1>1. BotTypeOK
  BY DEF B!Init, BotTypeOK, B!NoJobs, B!Quiet
<1>2. StartRight /\ BackupJobsRight /\ B!JobsMatch
  BY DEF B!Init, StartRight, BackupJobsRight, B!JobsMatch
<1>3. AudienceRight /\ B!OneAudience
  BY DEF B!Init, AudienceRight, B!OneAudience, B!Quiet
<1> QED
  BY <1>1, <1>2, <1>3 DEF BotInv

\* A process that is over leaves nothing but the configuration.
LEMMA FreshKeeps == ASSUME BotInv, B!Fresh, stage' = "ended", UNCHANGED conf PROVE BotInv'
<1>1. BotTypeOK'
  BY DEF BotInv, BotTypeOK, B!Fresh, B!NoJobs, B!Quiet
<1>2. StartRight' /\ BackupJobsRight' /\ B!JobsMatch'
  BY DEF B!Fresh, StartRight, BackupJobsRight, B!JobsMatch
<1>3. AudienceRight' /\ B!OneAudience'
  BY DEF B!Fresh, AudienceRight, B!OneAudience, B!Quiet
<1> QED
  BY <1>1, <1>2, <1>3 DEF BotInv

\* What the schedule's part of the invariant depends on.
Schedule == <<starter, conf, jobs, menu>>

LEMMA ScheduleKept == ASSUME BotInv, UNCHANGED Schedule PROVE BackupJobsRight' /\ B!JobsMatch'
BY DEF BotInv, Schedule, BackupJobsRight, B!JobsMatch

LEMMA AudienceKept == ASSUME BotInv, UNCHANGED auto PROVE AudienceRight' /\ B!OneAudience' /\ (auto.left \subseteq Chats)'
BY DEF BotInv, BotTypeOK, AudienceRight, B!OneAudience

LEMMA OutsideKeeps ==
  ASSUME BotInv, B!Outage \/ B!Return \/ B!PollingDies \/ \E s \in Services : B!ServiceFails(s) \/ B!_supervise(s)
  PROVE  BotInv'
<1>1. UNCHANGED <<stage, app, starter, dog, conf, jobs, menu, auto>> /\ polling' \in BOOLEAN
  BY DEF BotInv, BotTypeOK, B!Outage, B!Return, B!PollingDies, B!ServiceFails, B!_supervise, B!process, B!bot, B!schedule
<1>2. BotTypeOK'
  BY <1>1 DEF BotInv, BotTypeOK
<1>3. StartRight'
  BY <1>1 DEF BotInv, StartRight
<1> QED
  BY <1>1, <1>2, <1>3, ScheduleKept, AudienceKept DEF BotInv, Schedule

LEMMA MainKeeps == ASSUME BotInv, B!MainStep \/ B!EndProcess PROVE BotInv'
<1>1. CASE stage = "db" /\ stage' = "config" /\ starter' = "init" /\ UNCHANGED <<app, polling, dog, conf, jobs, menu, auto>>
  <2>1. starter = "off" /\ dog = "off" /\ app = "new"
    BY <1>1 DEF BotInv, StartRight
  <2>2. BotTypeOK'
    BY <1>1 DEF BotInv, BotTypeOK
  <2>3. StartRight' /\ BackupJobsRight' /\ B!JobsMatch'
    BY <1>1, <2>1 DEF BotInv, BotTypeOK, StartRight, BackupJobsRight, B!JobsMatch
  <2> QED
    BY <1>1, <2>2, <2>3, AudienceKept DEF BotInv
<1>2. CASE B!Fresh /\ stage' = "ended" /\ UNCHANGED conf
  BY <1>2, FreshKeeps
<1>3. CASE B!LoadConfig \/ B!StartProcess
  <2>1. UNCHANGED <<app, polling, starter, conf, jobs, menu, auto>>
    BY <1>3 DEF B!LoadConfig, B!StartProcess, B!bot, B!schedule
  <2>2. BotTypeOK'
    BY <1>3, <2>1 DEF BotInv, BotTypeOK, B!LoadConfig, B!StartProcess, B!bot
  <2>3. StartRight'
    BY <1>3, <2>1 DEF BotInv, StartRight, B!LoadConfig, B!StartProcess, B!bot
  <2> QED
    BY <2>1, <2>2, <2>3, ScheduleKept, AudienceKept DEF BotInv, Schedule
<1> QED
  BY <1>1, <1>2, <1>3 DEF B!MainStep, B!InitDb, B!EndProcess

LEMMA StarterKeeps == ASSUME BotInv, B!StarterStep PROVE BotInv'
<1>1. UNCHANGED <<stage, dog, conf, menu, auto>> /\ starter \in {"init", "start", "poll", "report", "add"}
  BY DEF B!StarterStep, B!StarterInit, B!StarterStart, B!StarterPoll, B!StarterReport, B!StarterAdd, B!StarterOnly, B!process
<1>2. menu = "idle" /\ jobs = B!NoJobs
  BY <1>1 DEF BotInv, BotTypeOK, BackupJobsRight
<1>3. BotTypeOK'
  <2>1. app' \in {"new", "ready", "running"} /\ polling' \in BOOLEAN
    BY DEF BotInv, BotTypeOK, B!StarterStep, B!StarterInit, B!StarterStart, B!StarterPoll, B!StarterReport, B!StarterAdd, B!StarterFails
  <2>2. starter' \in {"off", "init", "start", "poll", "report", "add", "done", "failed"}
    BY DEF B!StarterStep, B!StarterInit, B!StarterStart, B!StarterPoll, B!StarterReport, B!StarterAdd, B!StarterFails
  <2>3. jobs' \in [Hours -> Nat]
    BY <1>2 DEF BotInv, BotTypeOK, B!StarterStep, B!StarterInit, B!StarterStart, B!StarterPoll, B!StarterReport, B!StarterAdd,
       B!StarterFails, B!NoJobs, B!Configs
  <2> QED
    BY <1>1, <2>1, <2>2, <2>3 DEF BotInv, BotTypeOK
<1>4. StartRight'
  BY <1>1 DEF BotInv, StartRight, B!StarterStep, B!StarterInit, B!StarterStart, B!StarterPoll, B!StarterReport, B!StarterAdd, B!StarterFails
<1>5. CASE B!StarterAdd
  <2>1. B!JobsMatch'
    BY <1>1, <1>2, <1>5 DEF B!StarterAdd, B!JobsMatch, B!NoJobs, BotInv, BotTypeOK, B!Configs
  <2>2. BackupJobsRight'
    BY <1>1, <1>2, <1>5 DEF B!StarterAdd, BackupJobsRight
  <2> QED
    BY <1>1, <1>3, <1>4, <2>1, <2>2, AudienceKept DEF BotInv
<1>6. CASE ~B!StarterAdd
  <2>1. UNCHANGED jobs /\ starter' # "done"
    BY <1>6, <1>1 DEF BotInv, StartRight, B!StarterStep, B!StarterInit, B!StarterStart, B!StarterPoll, B!StarterReport, B!StarterFails
  <2>2. B!JobsMatch'
    BY <1>1, <1>2, <2>1 DEF B!JobsMatch, B!NoJobs
  <2>3. BackupJobsRight'
    BY <1>1, <1>2, <2>1 DEF BackupJobsRight, B!NoJobs
  <2> QED
    BY <1>1, <1>3, <1>4, <2>2, <2>3, AudienceKept DEF BotInv
<1> QED
  BY <1>5, <1>6

LEMMA DogKeeps == ASSUME BotInv, B!DogStep PROVE BotInv'
<1>1. UNCHANGED <<stage, starter, conf, jobs, menu, auto>>
  BY DEF B!DogStep, B!Look, B!DogInit, B!DogStart, B!DogPoll, B!DogOnly, B!process, B!schedule
<1>2. polling' \in BOOLEAN
  <2>1. CASE B!DogPoll
    BY <2>1, Zenon DEF B!DogPoll
  <2>2. CASE UNCHANGED polling
    BY <2>2 DEF BotInv, BotTypeOK
  <2>3. B!DogPoll \/ UNCHANGED polling
    BY DEF B!DogStep, B!Look, B!DogInit, B!DogStart
  <2> QED
    BY <2>1, <2>2, <2>3
<1>3. app' \in {"new", "ready", "running"} /\ dog' \in {"off", "asleep", "init", "start", "poll"}
  BY DEF BotInv, BotTypeOK, B!DogStep, B!Look, B!DogInit, B!DogStart, B!DogPoll
<1>4. BotTypeOK'
  BY <1>1, <1>2, <1>3 DEF BotInv, BotTypeOK
<1>5. StartRight'
  BY <1>1 DEF BotInv, StartRight, B!DogStep, B!Look, B!DogInit, B!DogStart, B!DogPoll, B!DogOnly
<1> QED
  BY <1>1, <1>4, <1>5, ScheduleKept, AudienceKept DEF BotInv, Schedule

LEMMA MenuKeeps ==
  ASSUME BotInv, ~EarlyPress, B!MenuStep \/ B!auto_backup_toggle \/ \E h \in Hours : B!auto_backup_set_interval(h)
  PROVE  BotInv'
<1>1. UNCHANGED <<stage, app, polling, starter, dog, auto>>
  BY DEF B!MenuStep, B!RemoveJobs, B!AddJob, B!auto_backup_toggle, B!auto_backup_set_interval, B!MenuOnly, B!process, B!bot
<1>2. StartRight' /\ starter \in {"done", "failed"}
  BY <1>1 DEF BotInv, StartRight, BackupJobsRight, B!MenuStep, B!RemoveJobs, B!AddJob, B!auto_backup_toggle, B!auto_backup_set_interval, B!Pressed
<1>3. CASE B!auto_backup_toggle \/ \E h \in Hours : B!auto_backup_set_interval(h)
  <2>1. UNCHANGED jobs /\ menu = "idle" /\ ((menu' = "saved" /\ conf' \in B!Configs) \/ UNCHANGED <<conf, menu>>)
    BY <1>3 DEF B!auto_backup_toggle, B!auto_backup_set_interval, B!Pressed, BotInv, BotTypeOK, B!Configs
  <2>2. BotTypeOK'
    BY <1>1, <2>1 DEF BotInv, BotTypeOK
  <2>3. BackupJobsRight' /\ B!JobsMatch'
    BY <1>1, <1>2, <2>1 DEF BotInv, BackupJobsRight, B!JobsMatch
  <2> QED
    BY <1>1, <1>2, <2>2, <2>3, AudienceKept DEF BotInv
<1>4. CASE B!RemoveJobs
  <2>1. BotTypeOK'
    BY <1>1, <1>4 DEF BotInv, BotTypeOK, B!RemoveJobs, B!NoJobs
  <2>2. BackupJobsRight' /\ B!JobsMatch'
    BY <1>1, <1>2, <1>4 DEF BackupJobsRight, B!JobsMatch, B!RemoveJobs, B!NoJobs
  <2> QED
    BY <1>1, <1>2, <2>1, <2>2, AudienceKept DEF BotInv
<1>5. CASE B!AddJob
  <2>1. jobs = B!NoJobs
    BY <1>5 DEF BotInv, BackupJobsRight, B!AddJob
  <2>2. BotTypeOK'
    BY <1>1, <1>5, <2>1 DEF BotInv, BotTypeOK, B!AddJob, B!NoJobs, B!Configs
  <2>3. BackupJobsRight' /\ B!JobsMatch'
    BY <1>1, <1>2, <1>5, <2>1 DEF BotInv, BotTypeOK, BackupJobsRight, B!JobsMatch, B!AddJob, B!NoJobs, B!Configs
  <2> QED
    BY <1>1, <1>2, <2>2, <2>3, AudienceKept DEF BotInv
<1> QED
  BY <1>3, <1>4, <1>5 DEF B!MenuStep

LEMMA AutoKeeps == ASSUME BotInv, B!AutoStart \/ B!AutoStep PROVE BotInv'
<1>1. UNCHANGED <<stage, app, polling, starter, dog, conf, jobs, menu>>
  BY DEF B!AutoStart, B!AutoStep, B!AutoGroup, B!AutoAdmin, B!AutoOnly, B!process, B!bot, B!schedule
<1>2. BotTypeOK' /\ AudienceRight' /\ B!OneAudience'
  <2> DEFINE Goal(a) == /\ a = [pc |-> a.pc, has |-> a.has, left |-> a.left] /\ a.left \subseteq Chats
                        /\ a.pc = "group" => a.has = {}
                        /\ a.pc = "admins" => B!Group \notin a.has
                        /\ B!Group \notin a.has \/ \A c \in Chats : c \notin a.has
  <2>0. Goal(auto)
    BY DEF BotInv, BotTypeOK, AudienceRight, B!OneAudience
  <2>1. CASE B!AutoStart
    <3>1. PICK forum \in BOOLEAN :
            auto' = [pc |-> IF forum THEN "group" ELSE "admins", has |-> {}, left |-> Chats]
      BY <2>1 DEF B!AutoStart
    <3> QED
      BY <1>1, <3>1 DEF BotInv, BotTypeOK, AudienceRight, B!OneAudience
  <2>2. CASE B!AutoGroup
    <3>1. auto.has = {} /\ B!Group \notin Chats
      BY <2>2, AudienceAssumption DEF B!AutoGroup, BotInv, AudienceRight
    <3>2. Goal(auto')
      <4>1. \/ \E has \in {{}, {B!Group}} : auto' = [auto EXCEPT !.pc = "idle", !.has = has]
            \/ auto' = [auto EXCEPT !.pc = "admins"]
            \/ auto' = [auto EXCEPT !.pc = "idle"]
        BY <2>2 DEF B!AutoGroup
      <4>2. ASSUME NEW has \in {{}, {B!Group}}, auto' = [auto EXCEPT !.pc = "idle", !.has = has] PROVE Goal(auto')
        <5>1. auto' = [pc |-> "idle", has |-> has, left |-> auto.left]
          BY <2>0, <4>2
        <5> QED
          BY <2>0, <3>1, <5>1
      <4>3. CASE auto' = [auto EXCEPT !.pc = "admins"]
        BY <2>0, <3>1, <4>3
      <4>4. CASE auto' = [auto EXCEPT !.pc = "idle"]
        BY <2>0, <3>1, <4>4
      <4> QED
        BY <4>1, <4>2, <4>3, <4>4
    <3> QED
      BY <1>1, <3>2 DEF BotInv, BotTypeOK, AudienceRight, B!OneAudience
  <2>3. CASE B!AutoAdmin
    <3>1. B!Group \notin auto.has /\ B!Group \notin Chats
      BY <2>3, AudienceAssumption DEF B!AutoAdmin, BotInv, AudienceRight
    <3>2. Goal(auto')
      BY <2>3, <2>0, <3>1 DEF B!AutoAdmin
    <3> QED
      BY <1>1, <3>2 DEF BotInv, BotTypeOK, AudienceRight, B!OneAudience
  <2> QED
    BY <2>1, <2>2, <2>3 DEF B!AutoStep
<1>3. StartRight'
  BY <1>1 DEF BotInv, StartRight
<1> QED
  BY <1>1, <1>2, <1>3, ScheduleKept DEF BotInv, Schedule

LEMMA BotInductive == ~EarlyPress /\ BotInv /\ [B!Next]_(B!vars) => BotInv'
<1> SUFFICES ASSUME ~EarlyPress, BotInv, [B!Next]_(B!vars) PROVE BotInv'
  OBVIOUS
<1>1. CASE UNCHANGED B!vars
  BY <1>1, ScheduleKept, AudienceKept DEF B!vars, BotInv, BotTypeOK, StartRight, Schedule
<1>2. CASE B!Next
  BY <1>2, OutsideKeeps, MainKeeps, StarterKeeps, DogKeeps, MenuKeeps, AutoKeeps DEF B!Next
<1> QED
  BY <1>1, <1>2

\* The automatic backup runs by the configuration, as one job, and reaches the group or the
\* admins, never both (reschedule_auto_backup, send_automatic_backup), for operators who
\* press no button before the starter is through.
THEOREM BackupAutomatic == ASSUME ~EarlyPress PROVE B!Spec => []AutomaticBackup
<1>1. BotInv => B!AutomaticBackup
  BY DEF BotInv, B!AutomaticBackup
<1>2. BotInv /\ [B!Next]_(B!vars) => BotInv'
  BY BotInductive
<1> QED
  BY BotInitially, <1>1, <1>2, PTL DEF B!Spec, AutomaticBackup

------------------------------------------------------------------------------
(* The day's report.                                                        *)

LEMMA CalendarAssumption ==
  Length \in Nat \ {0} /\ Begin \in Nat /\ End \in Nat /\ Length <= Begin /\ Begin <= End
BY ProcessAssumption

RunStates == {"none"} \cup D!Pending \cup D!Final
ItemStates == {"none", "new", "queued", "sending", "delivered", "cancelled", "failed", "uncertain"}
Runs == [state : RunStates, zone : Zones, monitoring : Nat, destination : Nat]
Calls == [pc : {"idle", "waiting", "inside"}, day : Int, zone : Zones, gen : Int, recover : BOOLEAN]
Jobs == [gen : Nat, zone : Zones, due : Int]

\* The state is well typed, and a call is about a day that the calendar has.
ReportTypeOK ==
  /\ now \in Begin..End /\ zone \in Zones
  /\ topics \in [on : BOOLEAN, monitoring : Nat, destination : Nat]
  /\ sched \in Jobs /\ midnights \subseteq Jobs
  /\ callers \in [D!Callers -> Calls] /\ \A c \in D!Callers : callers[c].pc = "waiting" => callers[c].day \in D!Days
  /\ svc \in [pc : {"idle", "check", "prepare", "evidence", "enqueue", "admit", "close"}, by : D!Callers,
              day : Int, zone : Zones, recover : BOOLEAN]
  /\ svc.pc # "idle" => svc.day \in D!Days
  /\ runs \in [D!Days -> Runs] /\ items \in [D!Days -> [state : ItemStates, tries : Nat]]
  /\ reports \in [D!Days -> Nat]

\* A row, an item and what went out belong together.
Agrees(row, item, sent) ==
  /\ item = "none" => /\ sent <= 1
                      /\ row = "delivered" => sent = 1
                      /\ row \notin {"sending", "delivered", "uncertain"} => sent = 0
  /\ item = "new" => row \in {"prepared", "queued"} /\ sent = 0
  /\ item = "queued" => row \in {"queued", "sending"} /\ sent = 0
  /\ item = "sending" => row = "sending" /\ sent = 0
  /\ item = "delivered" => row \in {"sending", "delivered"} /\ sent = 1
  /\ item = "cancelled" => row \in {"queued", "sending", "skipped"} /\ sent = 0
  /\ item = "failed" => row \in {"queued", "sending", "failed"} /\ sent = 0
  /\ item = "uncertain" => row \in {"sending", "uncertain"} /\ sent <= 1
DaysAgree == \A d \in D!Days : Agrees(runs[d].state, items[d].state, reports[d])

\* The service is alone with the day it prepares.
Alone ==
  /\ svc.pc = "prepare" => runs[svc.day].state = "none" /\ items[svc.day].state = "none"
  /\ svc.pc = "evidence" => runs[svc.day].state = "waiting" /\ items[svc.day].state = "none"
  /\ svc.pc = "enqueue" => runs[svc.day].state \in {"prepared", "queued"} /\ items[svc.day].state = "none"
  /\ \A d \in D!Days : items[d].state = "new" => svc.pc = "admit" /\ svc.day = d
  /\ svc.pc = "admit" => items[svc.day].state = "new"

\* A midnight that is not set is somebody's to set, under the present generation.
Claimed ==
  sched.gen > 0 /\ sched.due = D!Never =>
    \E c \in {"midnight", "watch"} : callers[c].pc # "idle" /\ callers[c].gen = sched.gen
JobsRight == \A j \in midnights : j.gen = sched.gen /\ (sched.due # D!Never => j.due = sched.due)

ReportInv == ReportTypeOK /\ DaysAgree /\ Alone /\ Claimed /\ JobsRight

------------------------------------------------------------------------------
(* The calendar.                                                            *)

LEMMA Divides ==
  ASSUME NEW a \in Nat
  PROVE  /\ a \div Length \in Nat /\ a % Length \in 0..(Length - 1)
         /\ a = Length * (a \div Length) + (a % Length)
BY CalendarAssumption

LEMMA DivMonotone == ASSUME NEW a \in Nat, NEW b \in Nat, a <= b PROVE a \div Length <= b \div Length
<1> DEFINE q == a \div Length
<1> DEFINE r == b \div Length
<1>1. q \in Nat /\ r \in Nat /\ Length \in Nat /\ Length > 0
  BY Divides, CalendarAssumption
<1>2. Length * q <= a /\ b < Length * r + Length
  BY Divides, <1>1
<1> HIDE DEF q, r
<1>3. Length * (r + 1) = Length * r + Length
  BY <1>1
<1>4. q < r + 1
  <2> SUFFICES ASSUME q >= r + 1 PROVE FALSE
    BY <1>1
  <2>1. Length * q >= Length * (r + 1)
    BY <1>1
  <2> QED
    BY <2>1, <1>1, <1>2, <1>3
<1> QED
  BY <1>1, <1>4 DEF q, r

LEMMA OffsetTyped == ASSUME NEW z PROVE D!Offset(z) \in {0, 1}
BY DEF D!Offset

\* The day before is a day of the calendar.
LEMMA YesterdayIsADay == ASSUME now \in Begin..End PROVE D!Yesterday \in D!Days
<1>1. now \in Nat /\ now + D!Offset(zone) \in Nat /\ Length <= now + D!Offset(zone) /\ now + D!Offset(zone) <= End + 1
  BY CalendarAssumption, OffsetTyped
<1>2. Length \div Length = 1
  BY CalendarAssumption
<1>3. 1 <= D!Day(now, zone) /\ D!Day(now, zone) <= (End + 1) \div Length
  BY <1>1, <1>2, DivMonotone, CalendarAssumption DEF D!Day
<1> QED
  BY <1>1, <1>3, Divides, CalendarAssumption DEF D!Yesterday, D!Days, D!Day

\* There is a next midnight.
LEMMA MidnightIsAhead == ASSUME now \in Nat PROVE D!next_midnight \in Nat /\ D!next_midnight # D!Never
<1> DEFINE a == now + D!Offset(zone)
<1> DEFINE t == now + Length - (a % Length)
<1>1. a \in Nat /\ Length \in Nat \ {0} /\ D!Offset(zone) \in {0, 1}
  BY OffsetTyped, CalendarAssumption
<1>2. t \in (now + 1)..(now + Length)
  BY <1>1, Divides
<1>3. (t + D!Offset(zone)) % Length = 0
  <2>1. t + D!Offset(zone) = Length * (a \div Length) + Length
    BY <1>1, Divides
  <2>2. t + D!Offset(zone) = Length * (a \div Length + 1)
    BY <2>1, <1>1, Divides
  <2> QED
    BY <2>2, <1>1, Divides
<1>4. D!next_midnight \in (now + 1)..(now + Length)
  BY <1>2, <1>3 DEF D!next_midnight
<1> QED
  BY <1>4, <1>1 DEF D!Never

------------------------------------------------------------------------------
(* One day, one caller.                                                     *)

Touches(d) ==
  \A e \in D!Days \ {d} : runs'[e] = runs[e] /\ items'[e] = items[e] /\ reports'[e] = reports[e]

LEMMA OneDay ==
  ASSUME DaysAgree, NEW d \in D!Days, Touches(d), Agrees(runs'[d].state, items'[d].state, reports'[d])
  PROVE  DaysAgree'
<1> SUFFICES ASSUME NEW e \in D!Days PROVE Agrees(runs'[e].state, items'[e].state, reports'[e])
  BY DEF DaysAgree, D!Days
<1>1. CASE e = d
  BY <1>1
<1>2. CASE e # d
  BY <1>2 DEF Touches, DaysAgree
<1> QED
  BY <1>1, <1>2

LEMMA TransitionOfOne ==
  ASSUME runs \in [D!Days -> Runs], NEW d \in D!Days, NEW s \in RunStates
  PROVE  /\ D!transition(d, s) \in [D!Days -> Runs]
         /\ D!transition(d, s)[d].state = IF runs[d].state = "delivered" THEN "delivered" ELSE s
         /\ \A e \in D!Days \ {d} : D!transition(d, s)[e] = runs[e]
BY DEF D!transition, Runs

LEMMA Rescheduled == ASSUME ReportInv, D!_reschedule PROVE sched' \in Jobs /\ midnights' \subseteq Jobs /\ sched'.due # D!Never /\ JobsRight'
<1>1. D!next_midnight \in Nat /\ D!next_midnight # D!Never
  BY MidnightIsAhead, CalendarAssumption DEF ReportInv, ReportTypeOK
<1> QED
  BY <1>1 DEF D!_reschedule, Jobs, JobsRight, ReportInv, ReportTypeOK

\* The service ends a call: the one who has to set the next midnight sets it.
LEMMA OverRight ==
  ASSUME ReportInv, D!Over
  PROVE  /\ sched' \in Jobs /\ midnights' \subseteq Jobs /\ Claimed' /\ JobsRight' /\ svc' = D!Idle
         /\ callers' \in [D!Callers -> Calls] /\ \A c \in D!Callers : callers'[c].pc = "waiting" => callers[c].pc = "waiting" /\ callers'[c].day = callers[c].day
<1>1. svc' = D!Idle /\ callers' = [callers EXCEPT ![svc.by] = D!NoCall] /\ svc.by \in D!Callers /\ D!NoCall \in Calls
  BY DEF D!Over, ReportInv, ReportTypeOK, D!NoCall, Calls, D!SomeZone, D!Never
<1>2. callers' \in [D!Callers -> Calls] /\ \A c \in D!Callers : callers'[c].pc = "waiting" => callers[c].pc = "waiting" /\ callers'[c].day = callers[c].day
  BY <1>1 DEF ReportInv, ReportTypeOK, D!NoCall
<1>3. CASE D!SetsNext(svc.by)
  BY <1>1, <1>2, <1>3, Rescheduled DEF D!Over, Claimed
<1>4. CASE ~D!SetsNext(svc.by)
  <2>1. UNCHANGED <<sched, midnights>>
    BY <1>4 DEF D!Over
  <2>2. Claimed'
    BY <1>1, <1>4, <2>1 DEF Claimed, D!SetsNext, ReportInv, ReportTypeOK, D!Callers
  <2> QED
    BY <1>1, <1>2, <2>1, <2>2 DEF ReportInv, ReportTypeOK, JobsRight
<1> QED
  BY <1>3, <1>4

ServicePCs == {"check", "prepare", "evidence", "enqueue", "admit", "close"}

\* What is to be shown of a step that ends a call, and of one that goes on with it.
LEMMA ServiceEnds ==
  ASSUME ReportInv, D!Over, D!ServiceOnly, svc.pc # "idle", Touches(svc.day), items'[svc.day].state # "new",
         Agrees(runs'[svc.day].state, items'[svc.day].state, reports'[svc.day]),
         runs' \in [D!Days -> Runs], items' \in [D!Days -> [state : ItemStates, tries : Nat]]
  PROVE  ReportInv'
<1>1. DaysAgree' /\ Alone'
  <2>1. svc.day \in D!Days /\ svc'.pc = "idle"
    BY OverRight DEF ReportInv, ReportTypeOK, D!Idle
  <2>2. \A d \in D!Days : items'[d].state # "new"
    BY <2>1 DEF Touches, ReportInv, Alone
  <2> QED
    BY <2>1, <2>2, OneDay DEF ReportInv, Alone, D!Days
<1>2. svc' \in [pc : {"idle"} \cup ServicePCs, by : D!Callers, day : Int, zone : Zones, recover : BOOLEAN] /\ svc'.pc = "idle"
  <2>1. D!SomeZone \in Zones
    BY DEF D!SomeZone, ReportInv, ReportTypeOK
  <2>2. svc' = D!Idle
    BY OverRight
  <2> QED
    BY <2>1, <2>2 DEF D!Idle, D!Callers, D!Never
<1>3. ReportTypeOK'
  BY <1>2, OverRight DEF ReportInv, ReportTypeOK, D!ServiceOnly, D!Clock, D!Days, D!Callers, ServicePCs
<1> QED
  BY <1>1, <1>3, OverRight DEF ReportInv

LEMMA ServiceGoes ==
  ASSUME ReportInv, svc.pc # "idle", NEW p \in ServicePCs, D!Step(p), D!ServiceOnly,
         Touches(svc.day), Agrees(runs'[svc.day].state, items'[svc.day].state, reports'[svc.day]), Alone',
         runs' \in [D!Days -> Runs], items' \in [D!Days -> [state : ItemStates, tries : Nat]]
  PROVE  ReportInv'
<1>1. svc.day \in D!Days /\ svc'.day = svc.day /\ svc'.pc = p
  BY DEF ReportInv, ReportTypeOK, D!Step
<1>2. DaysAgree'
  BY <1>1, OneDay DEF ReportInv
<1>3. svc' \in [pc : {"idle"} \cup ServicePCs, by : D!Callers, day : Int, zone : Zones, recover : BOOLEAN]
  BY DEF D!Step, ReportInv, ReportTypeOK, ServicePCs
<1>4. UNCHANGED <<now, zone, topics, sched, midnights, callers, reports>>
  BY DEF D!Step, D!Scheduler, D!ServiceOnly, D!Clock
<1>5. ReportTypeOK'
  BY <1>1, <1>3, <1>4 DEF ReportInv, ReportTypeOK, D!Days, ServicePCs
<1>6. Claimed' /\ JobsRight'
  BY <1>4 DEF ReportInv, Claimed, JobsRight
<1> QED
  BY <1>2, <1>5, <1>6 DEF ReportInv

\* A row that is written, or nothing, while the items stay.
LEMMA RowWritten ==
  ASSUME ReportInv, NEW d \in D!Days, UNCHANGED <<items, reports>>, NEW s \in RunStates,
         runs' = runs \/ runs' = D!transition(d, s),
         Agrees(IF runs[d].state = "delivered" THEN "delivered" ELSE s, items[d].state, reports[d])
  PROVE  /\ Touches(d) /\ Agrees(runs'[d].state, items'[d].state, reports'[d])
         /\ runs' \in [D!Days -> Runs] /\ items' \in [D!Days -> [state : ItemStates, tries : Nat]]
<1>1. runs \in [D!Days -> Runs] /\ items \in [D!Days -> [state : ItemStates, tries : Nat]]
  BY DEF ReportInv, ReportTypeOK
<1>2. CASE runs' = runs
  BY <1>1, <1>2 DEF Touches, ReportInv, DaysAgree
<1>3. CASE runs' = D!transition(d, s)
  BY <1>1, <1>3, TransitionOfOne DEF Touches
<1> QED
  BY <1>2, <1>3

LEMMA EndsAsItWas == ASSUME ReportInv, D!ServiceOnly, D!Over, UNCHANGED <<runs, items>>, svc.pc \notin {"idle", "admit"} PROVE ReportInv'
<1>1. svc.day \in D!Days /\ UNCHANGED <<items, reports>> /\ items[svc.day].state # "new"
  BY DEF ReportInv, ReportTypeOK, D!ServiceOnly, Alone
<1>2. Touches(svc.day) /\ Agrees(runs'[svc.day].state, items'[svc.day].state, reports'[svc.day])
  BY <1>1 DEF Touches, ReportInv, DaysAgree
<1>3. runs' \in [D!Days -> Runs] /\ items' \in [D!Days -> [state : ItemStates, tries : Nat]]
  BY DEF ReportInv, ReportTypeOK
<1> QED
  BY <1>1, <1>2, <1>3, ServiceEnds

\* The step goes on and writes a row's state.
LEMMA WritesAndGoes ==
  ASSUME ReportInv, svc.pc # "idle", D!ServiceOnly, UNCHANGED items, NEW p \in ServicePCs, D!Step(p), NEW s \in RunStates,
         runs' = runs \/ runs' = D!transition(svc.day, s), Alone',
         Agrees(IF runs[svc.day].state = "delivered" THEN "delivered" ELSE s, items[svc.day].state, reports[svc.day])
  PROVE  ReportInv'
<1>1. svc.day \in D!Days /\ UNCHANGED <<items, reports>>
  BY DEF ReportInv, ReportTypeOK, D!ServiceOnly
<1> QED
  BY <1>1, RowWritten, ServiceGoes

------------------------------------------------------------------------------
(* The service, step by step.                                               *)

\* A row that has not been handed over may be closed.
LEMMA Skippable ==
  ASSUME ReportInv, svc.pc \notin {"idle", "admit"}, runs[svc.day].state \in {"waiting", "prepared"} \/ items[svc.day].state = "none",
         runs[svc.day].state \in {"waiting", "prepared", "queued"}
  PROVE  items[svc.day].state = "none" /\ reports[svc.day] = 0
BY DEF ReportInv, ReportTypeOK, DaysAgree, Agrees, Alone, ItemStates

LEMMA CheckOffKeeps == ASSUME ReportInv, D!CheckOff PROVE ReportInv'
<1>1. svc.day \in D!Days /\ UNCHANGED items /\ D!ServiceOnly /\ svc.pc = "check"
  BY DEF D!CheckOff, ReportInv, ReportTypeOK
<1>2. CASE D!Over /\ runs' = runs
  BY <1>1, <1>2, EndsAsItWas
<1>3. CASE D!Over /\ runs' = D!transition(svc.day, "skipped") /\ runs[svc.day].state \in {"waiting", "prepared"}
  <2>1. Agrees("skipped", items[svc.day].state, reports[svc.day]) /\ items[svc.day].state = "none"
    BY <1>1, <1>3, Skippable DEF Agrees
  <2> QED
    BY <1>1, <1>3, <2>1, RowWritten, ServiceEnds DEF RunStates, D!Final, D!ServiceOnly
<1> QED
  BY <1>1, <1>2, <1>3 DEF D!CheckOff, D!Raises, D!Store

LEMMA CheckRunKeeps == ASSUME ReportInv, D!CheckRun PROVE ReportInv'
<1>1. svc.day \in D!Days /\ UNCHANGED items /\ D!ServiceOnly /\ svc.pc = "check"
  BY DEF D!CheckRun, ReportInv, ReportTypeOK
<1>2. CASE D!Over /\ UNCHANGED runs
  BY <1>1, <1>2, EndsAsItWas
<1>3. CASE runs[svc.day].state = "sending" /\ items[svc.day].state = "none" /\ D!Over /\ runs' = D!transition(svc.day, "uncertain")
  <2>1. Agrees("uncertain", items[svc.day].state, reports[svc.day])
    BY <1>1, <1>3 DEF Agrees, ReportInv, DaysAgree
  <2> QED
    BY <1>1, <1>3, <2>1, RowWritten, ServiceEnds DEF RunStates, D!Final, D!ServiceOnly
<1>4. CASE /\ runs[svc.day].state \in {"waiting", "prepared", "queued"} /\ items[svc.day].state = "none"
           /\ D!Step(IF runs[svc.day].state = "waiting" THEN "evidence" ELSE "enqueue") /\ UNCHANGED runs
  <2>1. svc'.day = svc.day /\ svc'.pc = IF runs[svc.day].state = "waiting" THEN "evidence" ELSE "enqueue"
    BY <1>4 DEF D!Step, ReportInv, ReportTypeOK
  <2>2. Alone'
    BY <1>1, <1>4, <2>1 DEF Alone, ReportInv, D!Days
  <2>3. runs[svc.day].state \in RunStates /\ Agrees(runs[svc.day].state, items[svc.day].state, reports[svc.day])
    BY <1>1, <1>4 DEF RunStates, D!Pending, ReportInv, DaysAgree
  <2> QED
    BY <1>1, <1>4, <2>2, <2>3, WritesAndGoes DEF ServicePCs
<1> QED
  BY <1>1, <1>2, <1>3, <1>4 DEF D!CheckRun, D!Raises, D!Store

LEMMA CheckNewKeeps == ASSUME ReportInv, D!CheckNew PROVE ReportInv'
<1>1. svc.day \in D!Days /\ UNCHANGED <<items, runs>> /\ D!ServiceOnly /\ svc.pc = "check" /\ runs[svc.day].state = "none"
  BY DEF D!CheckNew, ReportInv, ReportTypeOK, D!Raises, D!Store
<1>2. CASE D!Over
  BY <1>1, <1>2, EndsAsItWas
<1>3. CASE D!Step("prepare")
  <2>1. svc'.day = svc.day /\ svc'.pc = "prepare"
    BY <1>3 DEF D!Step, ReportInv, ReportTypeOK
  <2>2. items[svc.day].state = "none" /\ Agrees(runs[svc.day].state, items[svc.day].state, reports[svc.day])
    BY <1>1 DEF ReportInv, ReportTypeOK, DaysAgree, Agrees, ItemStates
  <2>3. Alone'
    BY <1>1, <2>1, <2>2 DEF Alone, ReportInv, D!Days
  <2> QED
    BY <1>1, <1>3, <2>2, <2>3, WritesAndGoes DEF ServicePCs, RunStates
<1> QED
  BY <1>1, <1>2, <1>3 DEF D!CheckNew, D!Raises

LEMMA PrepareKeeps == ASSUME ReportInv, D!Prepare PROVE ReportInv'
<1>1. svc.day \in D!Days /\ UNCHANGED items /\ D!ServiceOnly /\ svc.pc = "prepare" /\ UNCHANGED reports
  BY DEF D!Prepare, ReportInv, ReportTypeOK, D!ServiceOnly
<1>2. CASE D!Over /\ UNCHANGED runs
  BY <1>1, <1>2, EndsAsItWas
<1> DEFINE row == [state |-> "waiting", zone |-> zone, monitoring |-> topics.monitoring, destination |-> topics.destination]
<1>3. runs[svc.day].state = "none" /\ items[svc.day].state = "none" /\ reports[svc.day] = 0
  BY <1>1 DEF ReportInv, Alone, DaysAgree, Agrees
<1>4. ASSUME runs' = [runs EXCEPT ![svc.day] = row]
      PROVE  /\ Touches(svc.day) /\ Agrees(runs'[svc.day].state, items'[svc.day].state, reports'[svc.day])
             /\ runs' \in [D!Days -> Runs] /\ items' \in [D!Days -> [state : ItemStates, tries : Nat]]
             /\ runs'[svc.day].state = "waiting"
  <2>1. row \in Runs
    BY DEF Runs, RunStates, D!Pending, ReportInv, ReportTypeOK
  <2>2. runs'[svc.day] = row /\ \A e \in D!Days \ {svc.day} : runs'[e] = runs[e]
    BY <1>1, <1>4 DEF ReportInv, ReportTypeOK
  <2>3. runs' \in [D!Days -> Runs]
    BY <1>1, <1>4, <2>1 DEF ReportInv, ReportTypeOK
  <2> QED
    BY <1>1, <1>3, <2>2, <2>3 DEF Touches, Agrees, ReportInv, ReportTypeOK
<1>5. CASE D!Over /\ runs' = [runs EXCEPT ![svc.day] = row]
  BY <1>1, <1>3, <1>4, <1>5, ServiceEnds
<1>6. CASE D!Step("evidence") /\ runs' = [runs EXCEPT ![svc.day] = row]
  <2>1. svc'.day = svc.day /\ svc'.pc = "evidence"
    BY <1>6 DEF D!Step, ReportInv, ReportTypeOK
  <2>2. Alone'
    BY <1>1, <1>3, <1>4, <1>6, <2>1 DEF Alone, ReportInv, D!Days
  <2> QED
    BY <1>1, <1>4, <1>6, <2>2, ServiceGoes DEF ServicePCs
<1>7. \/ D!Over /\ (UNCHANGED runs \/ runs' = [runs EXCEPT ![svc.day] = row])
      \/ D!Step("evidence") /\ runs' = [runs EXCEPT ![svc.day] = row]
  BY <1>3 DEF D!Prepare, D!Raises, D!Store
<1> QED
  BY <1>2, <1>5, <1>6, <1>7

LEMMA EvidenceKeeps == ASSUME ReportInv, D!Evidence PROVE ReportInv'
<1>1. svc.day \in D!Days /\ UNCHANGED items /\ D!ServiceOnly /\ svc.pc = "evidence" /\ UNCHANGED reports
  BY DEF D!Evidence, ReportInv, ReportTypeOK, D!ServiceOnly
<1>2. runs[svc.day].state = "waiting" /\ items[svc.day].state = "none" /\ reports[svc.day] = 0
  BY <1>1 DEF ReportInv, Alone, DaysAgree, Agrees
<1>3. CASE D!Over /\ UNCHANGED runs
  BY <1>1, <1>3, EndsAsItWas
<1>4. CASE \E s \in {"skipped", "prepared"} : D!Over /\ runs' = D!transition(svc.day, s)
  BY <1>1, <1>2, <1>4, RowWritten, ServiceEnds DEF RunStates, D!Pending, D!Final, Agrees
<1>5. CASE D!Step("enqueue") /\ runs' = D!transition(svc.day, "prepared")
  <2>1. svc'.day = svc.day /\ svc'.pc = "enqueue"
    BY <1>5 DEF D!Step, ReportInv, ReportTypeOK
  <2>2. runs'[svc.day].state = "prepared" /\ "prepared" \in RunStates
    BY <1>1, <1>2, <1>5, TransitionOfOne DEF ReportInv, ReportTypeOK, RunStates, D!Pending
  <2>3. Alone'
    BY <1>1, <1>2, <2>1, <2>2 DEF Alone, ReportInv, D!Days
  <2> QED
    BY <1>1, <1>2, <1>5, <2>2, <2>3, WritesAndGoes DEF ServicePCs, Agrees
<1> QED
  BY <1>3, <1>4, <1>5 DEF D!Evidence, D!Raises, D!Store

LEMMA EnqueueKeeps == ASSUME ReportInv, D!Enqueue PROVE ReportInv'
<1>1. svc.day \in D!Days /\ D!ServiceOnly /\ svc.pc = "enqueue" /\ UNCHANGED reports
  BY DEF D!Enqueue, ReportInv, ReportTypeOK, D!ServiceOnly
<1>2. runs[svc.day].state \in {"prepared", "queued"} /\ items[svc.day].state = "none" /\ reports[svc.day] = 0
  BY <1>1 DEF ReportInv, Alone, DaysAgree, Agrees
<1>3. CASE D!Over /\ UNCHANGED <<runs, items>>
  BY <1>1, <1>3, EndsAsItWas
<1>4. CASE D!Over /\ runs' = D!transition(svc.day, "skipped") /\ UNCHANGED items
  BY <1>1, <1>2, <1>4, RowWritten, ServiceEnds DEF RunStates, D!Final, Agrees
<1>5. CASE D!Step("close") /\ runs' = D!transition(svc.day, "skipped") /\ UNCHANGED items
  <2>1. svc'.day = svc.day /\ svc'.pc = "close"
    BY <1>5 DEF D!Step, ReportInv, ReportTypeOK
  <2>2. Alone'
    BY <1>1, <1>5, <2>1 DEF Alone, ReportInv, D!Days
  <2> QED
    BY <1>1, <1>2, <1>5, <2>2, WritesAndGoes DEF ServicePCs, RunStates, D!Final, Agrees
<1>6. CASE D!Step("admit") /\ items' = [items EXCEPT ![svc.day] = [state |-> "new", tries |-> 0]] /\ UNCHANGED runs
  <2>1. svc'.day = svc.day /\ svc'.pc = "admit"
    BY <1>6 DEF D!Step, ReportInv, ReportTypeOK
  <2>2. /\ items'[svc.day].state = "new" /\ \A e \in D!Days \ {svc.day} : items'[e] = items[e]
        /\ items' \in [D!Days -> [state : ItemStates, tries : Nat]]
    BY <1>1, <1>6 DEF ReportInv, ReportTypeOK, ItemStates
  <2>3. Alone'
    BY <1>1, <2>1, <2>2 DEF Alone, ReportInv, D!Days
  <2>4. Touches(svc.day) /\ Agrees(runs'[svc.day].state, items'[svc.day].state, reports'[svc.day])
    BY <1>1, <1>2, <1>6, <2>2 DEF Touches, Agrees
  <2>5. runs' \in [D!Days -> Runs]
    BY <1>6 DEF ReportInv, ReportTypeOK
  <2> QED
    BY <1>1, <1>6, <2>2, <2>3, <2>4, <2>5, ServiceGoes DEF ServicePCs
<1> QED
  BY <1>3, <1>4, <1>5, <1>6 DEF D!Enqueue, D!Raises, D!Store

LEMMA ItemRestated ==
  ASSUME items \in [D!Days -> [state : ItemStates, tries : Nat]], NEW d \in D!Days, NEW s
  PROVE  [items EXCEPT ![d].state = s] = [items EXCEPT ![d] = [state |-> s, tries |-> items[d].tries]] /\ items[d].tries \in Nat
<1>1. items[d] \in [state : ItemStates, tries : Nat]
  OBVIOUS
<1>2. [items[d] EXCEPT !.state = s] = [state |-> s, tries |-> items[d].tries]
  BY <1>1
<1> QED
  BY <1>1, <1>2

LEMMA AdmitKeeps == ASSUME ReportInv, D!Admit PROVE ReportInv'
<1>1. svc.day \in D!Days /\ D!ServiceOnly /\ svc.pc = "admit" /\ UNCHANGED reports
  BY DEF D!Admit, ReportInv, ReportTypeOK, D!ServiceOnly
<1>2. runs[svc.day].state \in {"prepared", "queued"} /\ reports[svc.day] = 0
  BY <1>1 DEF ReportInv, Alone, DaysAgree, Agrees
<1>3. "queued" \in RunStates /\ runs \in [D!Days -> Runs] /\ items \in [D!Days -> [state : ItemStates, tries : Nat]]
  BY DEF ReportInv, ReportTypeOK, RunStates, D!Pending
<1>4. ASSUME NEW i \in {"none", "cancelled", "queued"}, \E n \in Nat : items' = [items EXCEPT ![svc.day] = [state |-> i, tries |-> n]],
             runs' = D!transition(svc.day, "queued") \/ (i = "none" /\ runs' = runs)
      PROVE  /\ Touches(svc.day) /\ Agrees(runs'[svc.day].state, items'[svc.day].state, reports'[svc.day])
             /\ runs' \in [D!Days -> Runs] /\ items' \in [D!Days -> [state : ItemStates, tries : Nat]]
             /\ items'[svc.day].state = i
  <2>1. /\ items'[svc.day].state = i /\ \A e \in D!Days \ {svc.day} : items'[e] = items[e]
        /\ items' \in [D!Days -> [state : ItemStates, tries : Nat]]
    BY <1>1, <1>3, <1>4 DEF ItemStates
  <2>2. /\ runs' \in [D!Days -> Runs] /\ \A e \in D!Days \ {svc.day} : runs'[e] = runs[e]
        /\ runs'[svc.day].state = "queued" \/ (i = "none" /\ runs' = runs)
    BY <1>1, <1>2, <1>3, <1>4, TransitionOfOne
  <2> QED
    BY <1>1, <1>2, <2>1, <2>2 DEF Touches, Agrees
<1>5. CASE /\ D!Step("close") /\ runs' = D!transition(svc.day, "queued")
           /\ items' = [items EXCEPT ![svc.day].state = IF D!Obsolete(runs[svc.day]) THEN "cancelled" ELSE "queued"]
  <2>1. PICK i \in {"cancelled", "queued"} : items' = [items EXCEPT ![svc.day] = [state |-> i, tries |-> items[svc.day].tries]]
    BY <1>1, <1>3, <1>5, ItemRestated
  <2>2. items[svc.day].tries \in Nat
    BY <1>1, <1>3
  <2>3. svc'.day = svc.day /\ svc'.pc = "close"
    BY <1>5 DEF D!Step, ReportInv, ReportTypeOK
  <2>4. Alone'
    BY <1>1, <1>4, <1>5, <2>1, <2>2, <2>3 DEF Alone, ReportInv, D!Days, Touches
  <2> QED
    BY <1>1, <1>4, <1>5, <2>1, <2>2, <2>4, ServiceGoes DEF ServicePCs
<1>6. CASE D!Over /\ (runs' = runs \/ runs' = D!transition(svc.day, "queued")) /\ items' = [items EXCEPT ![svc.day] = D!NoItem]
  BY <1>1, <1>4, <1>6, ServiceEnds DEF D!NoItem
<1> QED
  BY <1>5, <1>6 DEF D!Admit, D!Raises, D!Store

LEMMA CloseKeeps == ASSUME ReportInv, D!Close PROVE ReportInv'
<1>1. D!Over /\ UNCHANGED <<runs, items>> /\ D!ServiceOnly /\ svc.pc = "close"
  BY DEF D!Close, D!Raises, D!Store
<1> QED
  BY <1>1, EndsAsItWas

LEMMA EnterKeeps == ASSUME ReportInv, NEW c \in D!Callers, D!Enter(c) PROVE ReportInv'
<1>1. callers[c].day \in D!Days /\ callers \in [D!Callers -> Calls]
  BY DEF ReportInv, ReportTypeOK, D!Enter
<1>2. svc'.pc = "check" /\ svc' \in [pc : {"check"}, by : D!Callers, day : Int, zone : Zones, recover : BOOLEAN] /\ svc'.day \in D!Days
  BY <1>1 DEF D!Enter, Calls
<1>3. /\ callers' \in [D!Callers -> Calls]
      /\ \A e \in D!Callers : callers'[e].day = callers[e].day /\ callers'[e].gen = callers[e].gen
      /\ \A e \in D!Callers : callers'[e].pc = IF e = c THEN "inside" ELSE callers[e].pc
  BY <1>1 DEF D!Enter, Calls
<1>4. UNCHANGED <<now, zone, topics, sched, midnights, runs, items, reports>>
  BY DEF D!Enter, D!ServiceOnly, D!Clock, D!Store
<1>5. ReportTypeOK'
  BY <1>2, <1>3, <1>4 DEF ReportInv, ReportTypeOK, D!Days
<1>6. Claimed' /\ JobsRight'
  BY <1>3, <1>4 DEF ReportInv, Claimed, JobsRight, D!Callers, D!Enter
<1>7. DaysAgree' /\ Alone'
  BY <1>2, <1>4 DEF ReportInv, DaysAgree, Alone, D!Days, D!Enter
<1> QED
  BY <1>5, <1>6, <1>7 DEF ReportInv

------------------------------------------------------------------------------
(* The dispatcher.                                                          *)

LEMMA WorkerKeeps ==
  ASSUME ReportInv, D!WorkerOnly, NEW d \in D!Days, items[d].state \notin {"none", "new"}, Touches(d),
         Agrees(runs'[d].state, items'[d].state, reports'[d]), items'[d].state # "new",
         runs' \in [D!Days -> Runs], items' \in [D!Days -> [state : ItemStates, tries : Nat]], reports' \in [D!Days -> Nat]
  PROVE  ReportInv'
<1>1. UNCHANGED <<now, zone, topics, sched, midnights, callers, svc>>
  BY DEF D!WorkerOnly, D!Clock, D!Scheduler
<1>2. ReportTypeOK' /\ Claimed' /\ JobsRight'
  BY <1>1 DEF ReportInv, ReportTypeOK, Claimed, JobsRight, D!Days
<1>3. DaysAgree'
  BY OneDay DEF ReportInv
<1>4. Alone'
  <2>1. svc.pc \in {"prepare", "evidence", "enqueue", "admit"} => svc.day # d
    BY DEF ReportInv, Alone
  <2>2. svc.pc # "idle" => svc.day \in D!Days
    BY DEF ReportInv, ReportTypeOK
  <2>3. \A e \in D!Days : items'[e].state = "new" => svc.pc = "admit" /\ svc.day = e
    BY DEF ReportInv, Alone, Touches
  <2>4. svc.pc \in {"prepare", "evidence", "enqueue", "admit"} => runs'[svc.day] = runs[svc.day] /\ items'[svc.day] = items[svc.day]
    BY <2>1, <2>2 DEF Touches
  <2> QED
    BY <1>1, <2>3, <2>4 DEF ReportInv, Alone, D!Days
<1> QED
  BY <1>2, <1>3, <1>4 DEF ReportInv

\* What an item becomes, with its row.
LEMMA ItemBecomes ==
  ASSUME ReportInv, D!WorkerOnly, NEW d \in D!Days, items[d].state \notin {"none", "new"},
         NEW i \in ItemStates \ {"new"}, NEW n \in Nat, items' = [items EXCEPT ![d] = [state |-> i, tries |-> n]],
         NEW s \in RunStates, runs' = runs \/ runs' = D!transition(d, s),
         NEW k \in Nat, reports' = [reports EXCEPT ![d] = k], Agrees(runs'[d].state, i, k)
  PROVE  ReportInv'
<1>1. /\ items'[d].state = i /\ (\A e \in D!Days \ {d} : items'[e] = items[e])
      /\ items' \in [D!Days -> [state : ItemStates, tries : Nat]]
  BY DEF ReportInv, ReportTypeOK
<1>2. reports'[d] = k /\ (\A e \in D!Days \ {d} : reports'[e] = reports[e]) /\ reports' \in [D!Days -> Nat]
  BY DEF ReportInv, ReportTypeOK
<1>3. runs' \in [D!Days -> Runs] /\ \A e \in D!Days \ {d} : runs'[e] = runs[e]
  BY TransitionOfOne DEF ReportInv, ReportTypeOK
<1> QED
  BY <1>1, <1>2, <1>3, WorkerKeeps DEF Touches

\* What Item and Retried make of the items.
LEMMA ItemsWritten ==
  ASSUME ReportInv, NEW d \in D!Days
  PROVE  /\ reports = [reports EXCEPT ![d] = reports[d]] /\ reports[d] \in Nat /\ runs[d].state \in RunStates
         /\ items[d].state \in ItemStates
         /\ \A s : D!Item(d, s) => \E n \in Nat : items' = [items EXCEPT ![d] = [state |-> s, tries |-> n]]
         /\ D!Retried(d) => \E s \in {"failed", "queued"}, n \in Nat : items' = [items EXCEPT ![d] = [state |-> s, tries |-> n]]
<1>1. items \in [D!Days -> [state : ItemStates, tries : Nat]] /\ runs \in [D!Days -> Runs] /\ reports \in [D!Days -> Nat]
  BY DEF ReportInv, ReportTypeOK
<1>2. ASSUME NEW s, D!Item(d, s) PROVE \E n \in Nat : items' = [items EXCEPT ![d] = [state |-> s, tries |-> n]]
  <2>1. items' = [items EXCEPT ![d] = [state |-> s, tries |-> items[d].tries]] /\ items[d].tries \in Nat
    BY <1>1, <1>2, ItemRestated DEF D!Item
  <2> QED
    BY <2>1
<1>3. ASSUME D!Retried(d) PROVE \E s \in {"failed", "queued"}, n \in Nat : items' = [items EXCEPT ![d] = [state |-> s, tries |-> n]]
  <2>1. items' = [items EXCEPT ![d] = [state |-> IF items[d].tries >= MaxRetries THEN "failed" ELSE "queued", tries |-> items[d].tries + 1]]
        /\ items[d].tries + 1 \in Nat
    BY <1>1, <1>3 DEF D!Retried
  <2> QED
    BY <2>1
<1> QED
  BY <1>1, <1>2, <1>3 DEF Runs

LEMMA TakeKeeps == ASSUME ReportInv, NEW d \in D!Days, D!Take(d) PROVE ReportInv'
<1>1. items[d].state = "queued" /\ runs[d].state \in {"queued", "sending"} /\ reports[d] = 0 /\ D!WorkerOnly
  BY DEF D!Take, ReportInv, DaysAgree, Agrees
<1>2. PICK i \in {"cancelled", "sending", "failed", "queued"}, n \in Nat : items' = [items EXCEPT ![d] = [state |-> i, tries |-> n]]
                                                                     /\ (i = "sending" => runs' = D!transition(d, "sending"))
                                                                     /\ (runs' = runs \/ runs' = D!transition(d, "sending"))
  BY ItemsWritten DEF D!Take
<1>3. "sending" \in RunStates /\ D!transition(d, "sending")[d].state = "sending"
  BY <1>1, TransitionOfOne DEF RunStates, D!Pending, ReportInv, ReportTypeOK
<1>4. i \in ItemStates \ {"new"} /\ reports' = [reports EXCEPT ![d] = reports[d]] /\ reports[d] \in Nat
  BY ItemsWritten DEF D!Take, ItemStates
<1>5. Agrees(runs'[d].state, i, reports[d])
  BY <1>1, <1>2, <1>3 DEF Agrees
<1> QED
  BY <1>1, <1>2, <1>3, <1>4, <1>5, ItemBecomes

LEMMA ExecuteKeeps == ASSUME ReportInv, NEW d \in D!Days, D!Execute(d) PROVE ReportInv'
<1>1. items[d].state = "sending" /\ runs[d].state = "sending" /\ reports[d] = 0 /\ D!WorkerOnly
  BY DEF D!Execute, ReportInv, DaysAgree, Agrees
<1>2. PICK i \in {"cancelled", "delivered", "failed", "queued", "uncertain"}, n \in Nat, k \in {0, 1} :
        /\ items' = [items EXCEPT ![d] = [state |-> i, tries |-> n]] /\ reports' = [reports EXCEPT ![d] = k]
        /\ runs' = runs \/ runs' = D!transition(d, "queued")
        /\ i \in {"cancelled", "delivered", "uncertain"} => runs' = runs
        /\ i = "queued" => runs' = D!transition(d, "queued")
        /\ i = "delivered" => k = 1
        /\ i \in {"cancelled", "failed", "queued"} => k = 0
  <2>1. reports = [reports EXCEPT ![d] = 0]
    BY <1>1, ItemsWritten
  <2>2. CASE D!Item(d, "cancelled") /\ UNCHANGED <<runs, reports>>
    BY <2>1, <2>2, ItemsWritten
  <2>3. CASE D!Item(d, "delivered") /\ reports' = [reports EXCEPT ![d] = @ + 1] /\ UNCHANGED runs
    <3>1. reports' = [reports EXCEPT ![d] = 1]
      <4>1. reports' = [reports EXCEPT ![d] = reports[d] + 1] /\ reports[d] + 1 = 1
        BY <1>1, <2>3
      <4> QED
        BY <4>1
    <3>2. PICK n \in Nat : items' = [items EXCEPT ![d] = [state |-> "delivered", tries |-> n]]
      BY <2>3, ItemsWritten
    <3> QED
      BY <2>3, <3>1, <3>2
  <2>4. CASE D!Item(d, "failed") /\ UNCHANGED <<runs, reports>>
    BY <2>1, <2>4, ItemsWritten
  <2>5. CASE D!Retried(d) /\ runs' = D!transition(d, "queued") /\ UNCHANGED reports
    BY <2>1, <2>5, ItemsWritten
  <2>6. CASE \E m \in {0, 1} : D!Item(d, "uncertain") /\ reports' = [reports EXCEPT ![d] = @ + m] /\ UNCHANGED runs
    <3>1. PICK m \in {0, 1} : D!Item(d, "uncertain") /\ reports' = [reports EXCEPT ![d] = @ + m] /\ UNCHANGED runs
      BY <2>6
    <3>2. reports' = [reports EXCEPT ![d] = m]
      <4>1. reports' = [reports EXCEPT ![d] = reports[d] + m] /\ reports[d] + m = m
        BY <1>1, <3>1
      <4> QED
        BY <4>1
    <3>3. PICK n \in Nat : items' = [items EXCEPT ![d] = [state |-> "uncertain", tries |-> n]]
      BY <3>1, ItemsWritten
    <3> QED
      BY <3>1, <3>2, <3>3
  <2> QED
    BY <2>2, <2>3, <2>4, <2>5, <2>6 DEF D!Execute
<1>3. "queued" \in RunStates /\ D!transition(d, "queued")[d].state = "queued"
  BY <1>1, TransitionOfOne DEF RunStates, D!Pending, ReportInv, ReportTypeOK
<1>4. i \in ItemStates \ {"new"} /\ k \in Nat
  BY DEF ItemStates
<1>5. Agrees(runs'[d].state, i, k)
  BY <1>1, <1>2, <1>3 DEF Agrees
<1> QED
  BY <1>1, <1>2, <1>3, <1>4, <1>5, ItemBecomes

LEMMA FinishKeeps == ASSUME ReportInv, NEW d \in D!Days, D!Finish(d) PROVE ReportInv'
<1> DEFINE s == IF items[d].state = "cancelled" THEN "skipped" ELSE items[d].state
<1>1. /\ items[d].state \in {"delivered", "cancelled", "failed", "uncertain"} /\ D!WorkerOnly
      /\ reports' = [reports EXCEPT ![d] = reports[d]] /\ reports[d] \in Nat
  BY ItemsWritten DEF D!Finish
<1>2. Agrees(runs[d].state, items[d].state, reports[d])
  BY DEF ReportInv, DaysAgree
<1>3. s \in RunStates /\ D!transition(d, s)[d].state = IF runs[d].state = "delivered" THEN "delivered" ELSE s
  BY <1>1, TransitionOfOne DEF RunStates, D!Final, ReportInv, ReportTypeOK
<1>4. CASE runs' = D!transition(d, s) /\ items' = [items EXCEPT ![d] = D!NoItem]
  <2>1. Agrees(runs'[d].state, "none", reports[d])
    BY <1>1, <1>2, <1>3, <1>4 DEF Agrees
  <2> QED
    BY <1>1, <1>3, <1>4, <2>1, ItemBecomes DEF D!NoItem, ItemStates
<1>5. CASE items' = items /\ (runs' = runs \/ runs' = D!transition(d, s))
  <2>1. Agrees(runs'[d].state, items[d].state, reports[d])
    BY <1>1, <1>2, <1>3, <1>5 DEF Agrees
  <2>2. items' = [items EXCEPT ![d] = [state |-> items[d].state, tries |-> items[d].tries]]
        /\ items[d].tries \in Nat /\ items[d].state \in ItemStates \ {"new"}
    BY <1>1, <1>5 DEF ReportInv, ReportTypeOK
  <2> QED
    BY <1>1, <1>3, <1>5, <2>1, <2>2, ItemBecomes
<1> QED
  BY <1>4, <1>5 DEF D!Finish

------------------------------------------------------------------------------
(* The scheduler, the world and crashes.                                    *)

\* What the days depend on.
DaysOnly == <<svc, runs, items, reports>>

LEMMA DaysKept == ASSUME ReportInv, UNCHANGED DaysOnly PROVE DaysAgree' /\ Alone'
BY DEF ReportInv, DaysOnly, DaysAgree, Alone, D!Days

LEMMA CallTyped ==
  ASSUME ReportInv, NEW c \in D!Callers, NEW rec \in BOOLEAN, NEW n \in Int, NEW d \in D!Days,
         callers' = [callers EXCEPT ![c] = [pc |-> "waiting", day |-> d, zone |-> zone, gen |-> n, recover |-> rec]]
  PROVE  /\ callers' \in [D!Callers -> Calls] /\ \A e \in D!Callers : callers'[e].pc = "waiting" => callers'[e].day \in D!Days
         /\ callers'[c].pc = "waiting" /\ callers'[c].gen = n /\ \A e \in D!Callers \ {c} : callers'[e] = callers[e]
BY DEF ReportInv, ReportTypeOK, Calls, D!Days

LEMMA SchedulerTypes ==
  ASSUME ReportInv, UNCHANGED <<now, zone, topics, svc, runs, items, reports>>, sched' \in Jobs, midnights' \subseteq Jobs,
         callers' \in [D!Callers -> Calls], \A c \in D!Callers : callers'[c].pc = "waiting" => callers'[c].day \in D!Days,
         Claimed', JobsRight'
  PROVE  ReportInv'
BY DaysKept DEF ReportInv, ReportTypeOK, DaysOnly, D!Days

LEMMA StartKeeps == ASSUME ReportInv, D!StartScheduler PROVE ReportInv'
<1>1. D!Yesterday \in D!Days /\ sched.gen \in Int
  BY YesterdayIsADay DEF ReportInv, ReportTypeOK, Jobs
<1>2. /\ callers' \in [D!Callers -> Calls] /\ \A c \in D!Callers : callers'[c].pc = "waiting" => callers'[c].day \in D!Days
  BY <1>1, CallTyped DEF D!StartScheduler, D!Call, D!Callers
<1>3. Claimed'
  BY Rescheduled DEF D!StartScheduler, Claimed
<1> QED
  BY <1>2, <1>3, Rescheduled, SchedulerTypes DEF D!StartScheduler, D!Clock, D!Store

LEMMA MidnightKeeps == ASSUME ReportInv, NEW j \in midnights, D!Midnight(j) \/ D!Misfire(j) PROVE ReportInv'
<1>1. D!Yesterday \in D!Days /\ sched.gen \in Int /\ sched \in Jobs /\ midnights' \subseteq Jobs /\ midnights' \subseteq midnights
  <2>1. D!Yesterday \in D!Days
    BY YesterdayIsADay DEF ReportInv, ReportTypeOK
  <2>2. sched \in Jobs /\ midnights \subseteq Jobs /\ sched.gen \in Int
    BY DEF ReportInv, ReportTypeOK, Jobs
  <2>3. midnights' \subseteq midnights
    BY DEF D!Midnight, D!Misfire
  <2> QED
    BY <2>1, <2>2, <2>3
<1>2. UNCHANGED <<now, zone, topics, svc, runs, items, reports>>
  BY DEF D!Midnight, D!Misfire, D!Clock, D!Store
<1>3. CASE UNCHANGED <<sched, callers>>
  <2>1. Claimed' /\ JobsRight'
    BY <1>1, <1>3 DEF ReportInv, Claimed, JobsRight
  <2> QED
    BY <1>1, <1>2, <1>3, <2>1, SchedulerTypes DEF ReportInv, ReportTypeOK, D!Days
<1>4. CASE sched' = [sched EXCEPT !.due = D!Never] /\ D!Call("midnight", D!Yesterday, FALSE)
  <2>1. sched' \in Jobs /\ sched'.due = D!Never /\ sched'.gen = sched.gen
    BY <1>1, <1>4 DEF Jobs, D!Never
  <2>2. /\ callers' \in [D!Callers -> Calls] /\ (\A c \in D!Callers : callers'[c].pc = "waiting" => callers'[c].day \in D!Days)
        /\ callers'["midnight"].pc = "waiting" /\ callers'["midnight"].gen = sched.gen
    BY <1>1, <1>4, CallTyped DEF D!Call, D!Callers
  <2>3. Claimed' /\ JobsRight'
    BY <1>1, <2>1, <2>2 DEF Claimed, JobsRight, ReportInv
  <2> QED
    BY <1>1, <1>2, <2>1, <2>2, <2>3, SchedulerTypes
<1> QED
  BY <1>3, <1>4 DEF D!Midnight, D!Misfire

LEMMA WatchKeeps == ASSUME ReportInv, D!Watch PROVE ReportInv'
<1>1. D!Yesterday \in D!Days /\ sched.gen \in Int /\ sched \in Jobs /\ midnights \subseteq Jobs
  BY YesterdayIsADay DEF ReportInv, ReportTypeOK, Jobs
<1>2. UNCHANGED <<now, zone, topics, svc, runs, items, reports>> /\ callers["watch"].pc = "idle"
  BY DEF D!Watch, D!Clock, D!Store
<1>3. CASE D!_reschedule /\ UNCHANGED callers
  BY <1>2, <1>3, Rescheduled, SchedulerTypes DEF Claimed, ReportInv, ReportTypeOK, D!Days
<1>4. CASE sched' = [sched EXCEPT !.due = D!Never] /\ D!Call("watch", D!Yesterday, FALSE) /\ UNCHANGED midnights
  <2>1. sched' \in Jobs /\ sched'.due = D!Never /\ sched'.gen = sched.gen
    BY <1>1, <1>4 DEF Jobs, D!Never
  <2>2. /\ callers' \in [D!Callers -> Calls] /\ (\A c \in D!Callers : callers'[c].pc = "waiting" => callers'[c].day \in D!Days)
        /\ callers'["watch"].pc = "waiting" /\ callers'["watch"].gen = sched.gen
    BY <1>1, <1>4, CallTyped DEF D!Call, D!Callers
  <2>3. Claimed' /\ JobsRight'
    BY <1>1, <1>4, <2>1, <2>2 DEF Claimed, JobsRight, ReportInv
  <2> QED
    BY <1>1, <1>2, <1>4, <2>1, <2>2, <2>3, SchedulerTypes
<1>5. CASE /\ UNCHANGED <<sched, midnights>>
           /\ \E d \in D!latest_pending :
                callers' = [callers EXCEPT !["watch"] = [D!NoCall EXCEPT !.pc = "waiting", !.day = d, !.zone = zone, !.gen = D!Never]]
  <2>1. PICK d \in D!Days : callers' = [callers EXCEPT !["watch"] = [pc |-> "waiting", day |-> d, zone |-> zone, gen |-> D!Never, recover |-> FALSE]]
    BY <1>5 DEF D!latest_pending, D!NoCall
  <2>2. /\ callers' \in [D!Callers -> Calls] /\ (\A c \in D!Callers : callers'[c].pc = "waiting" => callers'[c].day \in D!Days)
        /\ \A c \in D!Callers \ {"watch"} : callers'[c] = callers[c]
    <3>1. D!Never \in Int /\ "watch" \in D!Callers
      BY DEF D!Never, D!Callers
    <3> QED
      BY <2>1, <3>1, CallTyped
  <2>3. Claimed' /\ JobsRight'
    BY <1>2, <1>5, <2>2 DEF Claimed, JobsRight, ReportInv, D!Callers
  <2> QED
    BY <1>1, <1>2, <1>5, <2>2, <2>3, SchedulerTypes
<1> QED
  BY <1>3, <1>4, <1>5 DEF D!Watch

LEMMA WorldKeeps == ASSUME ReportInv, D!Tick \/ D!SetTopics \/ (\E z \in Zones : D!SetZone(z)) \/ (\E d \in D!Days : D!Resolve(d)) PROVE ReportInv'
<1>1. UNCHANGED <<sched, midnights, callers, svc, runs, items, reports>>
  BY DEF D!Tick, D!SetTopics, D!SetZone, D!Resolve, D!Scheduler, D!Store
<1>2. now' \in Begin..End /\ zone' \in Zones /\ topics' \in [on : BOOLEAN, monitoring : Nat, destination : Nat]
  <2>1. now' \in Begin..End
    BY CalendarAssumption DEF D!Tick, D!SetTopics, D!SetZone, D!Resolve, D!Clock, ReportInv, ReportTypeOK
  <2>2. zone' \in Zones
    BY DEF D!Tick, D!SetTopics, D!SetZone, D!Resolve, D!Clock, ReportInv, ReportTypeOK
  <2>3. CASE D!SetTopics
    <3>1. topics \in [on : BOOLEAN, monitoring : Nat, destination : Nat]
      BY DEF ReportInv, ReportTypeOK
    <3>2. \/ topics' = [topics EXCEPT !.on = FALSE, !.monitoring = @ + 1]
          \/ topics' = [topics EXCEPT !.on = TRUE]
          \/ topics' = [topics EXCEPT !.destination = @ + 1]
      BY <2>3 DEF D!SetTopics
    <3>3. topics.on \in BOOLEAN /\ topics.monitoring \in Nat /\ topics.monitoring + 1 \in Nat /\ topics.destination \in Nat
          /\ topics.destination + 1 \in Nat
      BY <3>1
    <3>4. CASE topics' = [topics EXCEPT !.on = FALSE, !.monitoring = @ + 1]
      <4>1. topics' = [on |-> FALSE, monitoring |-> topics.monitoring + 1, destination |-> topics.destination]
        BY <3>1, <3>4
      <4> QED
        BY <1>1, <2>1, <2>2, <3>3, <4>1
    <3>5. CASE topics' = [topics EXCEPT !.on = TRUE]
      <4>1. topics' = [on |-> TRUE, monitoring |-> topics.monitoring, destination |-> topics.destination]
        BY <3>1, <3>5
      <4> QED
        BY <2>1, <2>2, <3>3, <4>1
    <3>6. CASE topics' = [topics EXCEPT !.destination = @ + 1]
      <4>1. topics' = [on |-> topics.on, monitoring |-> topics.monitoring, destination |-> topics.destination + 1]
        BY <3>1, <3>6
      <4> QED
        BY <2>1, <2>2, <3>3, <4>1
    <3> QED
      BY <3>2, <3>4, <3>5, <3>6
  <2>4. CASE UNCHANGED topics
    BY <2>1, <2>2, <2>4 DEF ReportInv, ReportTypeOK
  <2>5. D!SetTopics \/ UNCHANGED topics
    BY DEF D!Tick, D!SetZone, D!Resolve, D!Clock
  <2> QED
    BY <2>3, <2>4, <2>5
<1>3. ReportTypeOK' /\ Claimed' /\ JobsRight'
  BY <1>1, <1>2 DEF ReportInv, ReportTypeOK, Claimed, JobsRight, D!Days
<1> QED
  BY <1>1, <1>3, DaysKept DEF ReportInv, DaysOnly

LEMMA CrashKeeps == ASSUME ReportInv, D!Crash PROVE ReportInv'
<1>1. UNCHANGED <<now, zone, topics, runs, reports>>
  BY DEF D!Crash, D!Clock, D!Store
<1>2. D!NoCall \in Calls /\ D!NoCall.pc = "idle"
  BY DEF D!NoCall, Calls, D!SomeZone, D!Never, ReportInv, ReportTypeOK
<1>3. svc' = D!Idle /\ D!Idle \in [pc : {"idle"}, by : D!Callers, day : Int, zone : Zones, recover : BOOLEAN]
  BY DEF D!Crash, D!Idle, D!SomeZone, D!Callers, D!Never, ReportInv, ReportTypeOK
<1>4. sched' \in Jobs /\ midnights' = {} /\ sched'.gen = 0
  BY DEF D!Crash, Jobs, D!Never, ReportInv, ReportTypeOK
<1>5. callers' \in [D!Callers -> Calls] /\ \A c \in D!Callers : callers'[c].pc = "idle"
  BY <1>2 DEF D!Crash
<1>6. items' \in [D!Days -> [state : ItemStates, tries : Nat]] /\ \A d \in D!Days : items'[d].state = "none"
  BY DEF D!Crash, D!NoItem, ItemStates
<1>7. ReportTypeOK'
  BY <1>1, <1>3, <1>4, <1>5, <1>6 DEF ReportInv, ReportTypeOK, D!Days
<1>8. DaysAgree'
  <2> SUFFICES ASSUME NEW d \in D!Days PROVE Agrees(runs[d].state, "none", reports[d])
    BY <1>1, <1>6 DEF DaysAgree, D!Days
  <2>1. Agrees(runs[d].state, items[d].state, reports[d]) /\ items[d].state \in ItemStates
    BY DEF ReportInv, ReportTypeOK, DaysAgree
  <2> QED
    BY <2>1 DEF Agrees, ItemStates
<1>9. Alone' /\ Claimed' /\ JobsRight'
  BY <1>3, <1>4, <1>6 DEF Alone, Claimed, JobsRight, D!Idle, D!Days
<1> QED
  BY <1>7, <1>8, <1>9 DEF ReportInv

LEMMA ReportInitially == D!Init => ReportInv
<1> SUFFICES ASSUME D!Init PROVE ReportInv
  OBVIOUS
<1>1. D!SomeZone \in Zones
  BY DEF D!Init, D!SomeZone
<1>2. D!NoCall \in Calls /\ D!Idle \in [pc : {"idle"}, by : D!Callers, day : Int, zone : Zones, recover : BOOLEAN]
  BY <1>1 DEF D!NoCall, Calls, D!Idle, D!Callers, D!Never
<1>3. D!NoRun \in Runs /\ D!NoItem \in [state : ItemStates, tries : Nat]
  BY <1>1 DEF D!NoRun, Runs, RunStates, D!NoItem, ItemStates
<1>4. now \in Begin..End /\ sched \in Jobs
  BY CalendarAssumption DEF D!Init, Jobs, D!Never
<1>5. ReportTypeOK
  BY <1>2, <1>3, <1>4 DEF D!Init, ReportTypeOK, D!Idle, D!NoCall
<1>6. DaysAgree
  BY DEF D!Init, DaysAgree, Agrees, D!NoRun, D!NoItem
<1>7. Alone /\ Claimed /\ JobsRight
  BY DEF D!Init, Alone, Claimed, JobsRight, D!Idle, D!NoItem
<1> QED
  BY <1>5, <1>6, <1>7 DEF ReportInv

LEMMA ReportInductive == ReportInv /\ [D!Next]_(D!vars) => ReportInv'
<1> SUFFICES ASSUME ReportInv, [D!Next]_(D!vars) PROVE ReportInv'
  OBVIOUS
<1>1. CASE UNCHANGED D!vars
  BY <1>1 DEF D!vars, ReportInv, ReportTypeOK, DaysAgree, Alone, Claimed, JobsRight, D!Days
<1>2. CASE D!SchedulerStep \/ \E j \in midnights : D!Midnight(j) \/ D!Misfire(j)
  BY <1>2, StartKeeps, WatchKeeps, MidnightKeeps DEF D!SchedulerStep
<1>3. CASE D!ServiceStep
  BY <1>3, EnterKeeps, CheckOffKeeps, CheckRunKeeps, CheckNewKeeps, PrepareKeeps, EvidenceKeeps, EnqueueKeeps, AdmitKeeps,
     CloseKeeps DEF D!ServiceStep
<1>4. CASE D!DispatcherStep
  BY <1>4, TakeKeeps, ExecuteKeeps, FinishKeeps DEF D!DispatcherStep
<1> QED
  BY <1>1, <1>2, <1>3, <1>4, WorldKeeps, CrashKeeps DEF D!Next

\* A day's report goes out at most once and its row says what happened (daily_report.py,
\* DailyReportsCRUD.transition, _execute_item), for any calendar, callers and faults.
THEOREM ReportedOnce == D!Spec => []DayOnce
<1>1. ReportInv => D!DayOnce
  <2> SUFFICES ASSUME ReportInv, NEW d \in D!Days
               PROVE  /\ reports[d] <= 1
                      /\ runs[d].state = "delivered" => reports[d] = 1
                      /\ runs[d].state \in {"skipped", "failed", "none"} => reports[d] = 0
    BY DEF D!DayOnce
  <2>1. Agrees(runs[d].state, items[d].state, reports[d]) /\ items[d].state \in ItemStates
    BY DEF ReportInv, ReportTypeOK, DaysAgree
  <2> QED
    BY <2>1 DEF Agrees, ItemStates
<1> QED
  BY ReportInitially, ReportInductive, <1>1, PTL DEF D!Spec, DayOnce

\* The next midnight is set, once, whenever nobody is about to set it (DailyReportScheduler).
THEOREM MidnightIsSet == D!Spec => []MidnightSet
<1>1. ReportInv => D!MidnightSet
  BY DEF ReportInv, D!MidnightSet, Claimed, JobsRight
<1> QED
  BY ReportInitially, ReportInductive, <1>1, PTL DEF D!Spec, MidnightSet
==============================================================================
