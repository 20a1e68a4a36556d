---------------------------- MODULE PanelProofs ----------------------------
(***************************************************************************)
(* Proofs about what the process asks of the panel: the mirror of its      *)
(* users (UserSync), for any users, page size and scenarios, requests and  *)
(* their breaker (PanelRequests, the instance P), for any number of        *)
(* concurrent requests, and the evidence read with them (ApiSource, the    *)
(* instance A), for any users and nodes, and any limits.                   *)
(***************************************************************************)
EXTENDS MCPanel, FiniteSetTheorems, TLAPS

---------------------------------------------------------------------------
(* UserSync.                                                               *)

Mirrors ==
  [pc : {"off", "snapshot", "first", "pages", "listed", "write", "confirm", "refresh", "publish"},
   by : Callers \cup {NoOne}, snap : SUBSET Users, seen : Seens, first : Nat, offset : Nat,
   totals : SUBSET Nat, changed : BOOLEAN, todo : SUBSET Users, gone : SUBSET Users, errors : BOOLEAN,
   absent : SUBSET Users, present : SUBSET Users]

PCs == {"idle", "queue", "gate", "collect", "ask", "lock", "turn", "admit", "mirror"}

\* What the types do not say: a mirror in progress has an owner.
Owned == m.pc # "off" => m.by \in Callers

\* The number of users on the panel is a natural number.
LEMMA TotalType == Total \in Nat
  <1>1. IsFiniteSet(OnPanel)
    BY ConstantsAssumption, FS_Subset DEF OnPanel
  <1>2. QED
    BY <1>1, FS_CardinalityType DEF Total

\* No mirror is a mirror.
LEMMA NoMirrorType == NoMirror \in Mirrors /\ NoMirror.pc = "off" /\ NoMirror.gone = {} /\ NoMirror.absent = {}
  BY DEF NoMirror, Mirrors, Seens, Nobody, NoOne

\* The steps of the callers, which leave the table and the panel alone.
Turns ==
  \/ \E c \in Callers : Ask(c) \/ TakeSyncLock(c) \/ TakeTurn(c) \/ Admit(c) \/ Cancel(c)
  \/ AskManually \/ WantCollection \/ EnterCollection \/ Collect \/ EndCollection \/ Tick \/ Postpone

\* The initial state is well typed.
LEMMA InitType == Init => TypeOK /\ Owned
  <1> SUFFICES ASSUME Init PROVE TypeOK /\ Owned
    OBVIOUS
  <1>1. rows \in [Users -> Rows] /\ cache \in Seens /\ panel \in [Users -> Facts \cup {"gone"}]
        /\ fetch \in [Users -> Facts \cup {"none", "asked"}]
    BY DEF Init, Rows, Seens, Facts, Nobody
  <1>2. m \in Mirrors /\ Owned
    BY NoMirrorType DEF Init, Owned
  <1>3. QED
    BY <1>1, <1>2 DEF Init, TypeOK, Mirrors, Callers, NoOne

\* Every step of a caller keeps the types.
LEMMA TurnsType == TypeOK /\ Owned /\ Turns => TypeOK' /\ Owned'
  <1> SUFFICES ASSUME TypeOK, Owned, Turns PROVE TypeOK' /\ Owned'
    OBVIOUS
  <1>1. panel' = panel /\ rows' = rows /\ cache' = cache /\ fetch' = fetch /\ may' = may
    BY DEF Turns, Ask, TakeSyncLock, TakeTurn, Admit, Cancel, AskManually, WantCollection, EnterCollection,
           Collect, EndCollection, Tick, Postpone, tableVars
  <1>2. pc' \in [Callers -> PCs]
    BY DEF TypeOK, Turns, Ask, TakeSyncLock, TakeTurn, Admit, Cancel, AskManually, WantCollection, EnterCollection,
           Collect, EndCollection, Tick, Postpone, Caller, After, PCs, Callers
  <1>3. due' \in BOOLEAN /\ syncLock' \in Callers \cup {NoOne} /\ workload' \in Callers \cup {NoOne}
    <2>1. due' \in BOOLEAN
      BY DEF TypeOK, Turns, Ask, TakeSyncLock, TakeTurn, Admit, Cancel, AskManually, WantCollection,
             EnterCollection, Collect, EndCollection, Tick, Postpone
    <2>2. syncLock' \in Callers \cup {NoOne}
      BY DEF TypeOK, Turns, Ask, TakeSyncLock, TakeTurn, Admit, Cancel, AskManually, WantCollection,
             EnterCollection, Collect, EndCollection, Tick, Postpone, Freed
    <2>3. workload' \in Callers \cup {NoOne}
      BY DEF TypeOK, Turns, Ask, TakeSyncLock, TakeTurn, Admit, Cancel, AskManually, WantCollection,
             EnterCollection, Collect, EndCollection, Tick, Postpone, Freed, Callers
    <2>4. QED
      BY <2>1, <2>2, <2>3
  <1>4. m' \in Mirrors /\ Owned'
    <2>1. CASE m' = m
      BY <2>1 DEF TypeOK, Mirrors, Owned
    <2>2. CASE m' = NoMirror
      BY <2>2, NoMirrorType DEF Owned
    <2>3. ASSUME NEW c \in Callers, m' = [NoMirror EXCEPT !.pc = "snapshot", !.by = c] PROVE m' \in Mirrors /\ Owned'
      BY <2>3, NoMirrorType DEF Mirrors, Owned
    <2>4. QED
      BY <2>1, <2>2, <2>3 DEF Turns, Ask, TakeSyncLock, TakeTurn, Admit, Cancel, AskManually, WantCollection,
           EnterCollection, Collect, EndCollection, Tick, Postpone
  <1>5. QED
    BY <1>1, <1>2, <1>3, <1>4 DEF TypeOK, Mirrors, PCs

\* The attempt ends: the mirror is over and its owner goes on.
LEMMA EndMirrorType ==
  ASSUME TypeOK, Owned, m.pc # "off", EndMirror
  PROVE /\ m' \in Mirrors /\ Owned' /\ pc' \in [Callers -> PCs] /\ due' \in BOOLEAN
        /\ syncLock' \in Callers \cup {NoOne} /\ workload' \in Callers \cup {NoOne}
  <1>1. m' \in Mirrors /\ Owned'
    BY NoMirrorType DEF EndMirror, Owned
  <1>2. pc' \in [Callers -> PCs]
    BY DEF EndMirror, TypeOK, Owned, After, PCs
  <1>3. QED
    BY <1>1, <1>2 DEF EndMirror

\* What has been listed is well typed.
LEMMA ListedType == ASSUME TypeOK, NEW o PROVE Listed(o) \in Seens
  BY DEF Listed, Page, OnPanel, TypeOK, Seens

\* A mirror's own steps keep the types, apart from its table writes.
LEMMA MirrorType ==
  ASSUME TypeOK, Owned, Mirror \/ MirrorFails \/ \E u \in Users : Unconfirmed(u)
  PROVE m' \in Mirrors /\ Owned'
  <1> USE DEF Mirrors
  <1>0. m \in Mirrors /\ m = [m EXCEPT !.pc = m.pc]
    BY DEF TypeOK
  <1>1. CASE Snapshot
    BY <1>0, <1>1 DEF Snapshot, Owned, OnPanel
  <1>2. CASE FirstPage
    BY <1>0, <1>2, ListedType, TotalType, ConstantsAssumption DEF FirstPage, Owned
  <1>3. CASE NextPage
    <2>1. m.offset + PageSize \in Nat /\ m.totals \cup {Total} \in SUBSET Nat
      BY <1>0, TotalType, ConstantsAssumption
    <2>2. QED
      BY <1>0, <1>3, <2>1, ListedType DEF NextPage, Owned
  <1>4. CASE LastPage
    BY <1>0, <1>4 DEF LastPage, Owned
  <1>5. CASE Accept
    <2>1. CASE EndMirror
      BY <1>5, <2>1, EndMirrorType DEF Accept
    <2>2. CASE ~EndMirror
      <3>1. Changed \in BOOLEAN /\ Seen \in SUBSET Users
        BY DEF Changed, Seen
      <3>2. m.pc = "listed" /\ m' = [m EXCEPT !.pc = "write", !.todo = Seen, !.changed = Changed,
                                              !.first = 0, !.offset = 0, !.totals = {}]
        BY <1>5, <2>2 DEF Accept
      <3>3. QED
        BY <1>0, <3>1, <3>2 DEF Owned
    <2>3. QED
      BY <2>1, <2>2
  <1>6. ASSUME NEW u \in Users, Upsert(u) PROVE m' \in Mirrors /\ Owned'
    BY <1>0, <1>6 DEF Upsert, Owned
  <1>7. CASE Candidates
    BY <1>0, <1>7 DEF Candidates, Owned, Nobody, Seens
  <1>8. ASSUME NEW u \in Users, Confirm(u) \/ Unconfirmed(u) PROVE m' \in Mirrors /\ Owned'
    <2>1. m.todo \ {u} \in SUBSET Users /\ m.gone \cup {u} \in SUBSET Users
      BY <1>0
    <2>2. CASE m' = [m EXCEPT !.todo = @ \ {u}, !.gone = @ \cup {u}]
      BY <1>0, <2>1, <2>2 DEF Owned
    <2>3. CASE m' = [m EXCEPT !.todo = @ \ {u}, !.errors = TRUE]
      BY <1>0, <2>1, <2>3 DEF Owned
    <2>4. QED
      BY <1>8, <2>2, <2>3 DEF Confirm, Unconfirmed
  <1>9. CASE Delete
    BY <1>0, <1>9 DEF Delete, Owned
  <1>10. CASE Refresh
    <2>1. [u \in Users |-> rows[u].facts] \in Seens
      BY DEF TypeOK, Rows, Seens
    <2>2. QED
      BY <1>0, <1>10, <2>1 DEF Refresh, Owned
  <1>11. CASE Publish \/ MirrorFails
    BY <1>11, EndMirrorType DEF Publish, MirrorFails
  <1>12. QED
    BY <1>1, <1>2, <1>3, <1>4, <1>5, <1>6, <1>7, <1>8, <1>9, <1>10, <1>11 DEF Mirror

\* Steps of the panel, of the operators and of single fetches.
Outside ==
  \/ \E u \in Users : Join(u) \/ Leave(u) \/ ChangeFacts(u)
  \/ \E u \in Users : QueueUnknown(u) \/ Answer(u) \/ FetchFails(u) \/ Store(u) \/ Edit(u)

\* Every step is of a caller, of the mirror, of a restart or from outside.
LEMMA StepKinds ==
  ASSUME [Next]_vars
  PROVE Turns \/ Mirror \/ MirrorFails \/ (\E u \in Users : Unconfirmed(u)) \/ Crash \/ Outside \/ UNCHANGED vars
  BY ConstantsAssumption DEF Next, Holding, Fetching, Disturbance, Turns, Outside

\* The table, the cache and the locks keep their types in a mirror's step.
LEMMA MirrorRestType ==
  ASSUME TypeOK, Owned, Mirror \/ MirrorFails \/ \E u \in Users : Unconfirmed(u)
  PROVE /\ may' = may /\ panel' = panel /\ fetch' = fetch
        /\ rows' \in [Users -> Rows] /\ cache' \in Seens
        /\ pc' \in [Callers -> PCs] /\ due' \in BOOLEAN
        /\ syncLock' \in Callers \cup {NoOne} /\ workload' \in Callers \cup {NoOne}
  <1> DEFINE Locks == /\ pc' \in [Callers -> PCs] /\ due' \in BOOLEAN
                      /\ syncLock' \in Callers \cup {NoOne} /\ workload' \in Callers \cup {NoOne}
  <1>1. may' = may /\ panel' = panel /\ fetch' = fetch
    BY DEF Mirror, Snapshot, FirstPage, NextPage, LastPage, Accept, Candidates, Delete, Refresh, Publish, Upsert,
           Confirm, Unconfirmed, MirrorFails
  <1>2. Locks
    <2>1. CASE UNCHANGED turnVars
      BY <2>1 DEF turnVars, TypeOK, PCs
    <2>2. CASE EndMirror /\ m.pc # "off"
      BY <2>2, EndMirrorType
    <2>3. QED
      BY <2>1, <2>2 DEF Mirror, Snapshot, FirstPage, NextPage, LastPage, Accept, Candidates, Delete, Refresh, Publish,
           Upsert, Confirm, Unconfirmed, MirrorFails
  <1>3. rows' \in [Users -> Rows] /\ cache' \in Seens
    <2>1. CASE UNCHANGED tableVars
      BY <2>1 DEF tableVars, TypeOK
    <2>2. CASE Snapshot
      <3>1. \A u \in Users : [rows[u] EXCEPT !.at = "old"] \in Rows
        BY DEF TypeOK, Rows
      <3>2. QED
        BY <2>2, <3>1 DEF Snapshot, TypeOK
    <2>3. ASSUME NEW u \in Users, Upsert(u) PROVE rows' \in [Users -> Rows] /\ cache' \in Seens
      <3>1. Refreshed(rows[u], m.seen[u]) \in Rows
        <4>1. rows[u] \in Rows /\ m.seen \in Seens
          BY DEF TypeOK, Mirrors
        <4>2. QED
          BY <2>3, <4>1 DEF Refreshed, Rows, Seens
      <3>2. QED
        BY <2>3, <3>1 DEF Upsert, WriteRow, TypeOK, Seens
    <2>4. CASE Delete
      <3>1. NoRow \in Rows
        BY DEF NoRow, Rows
      <3>2. QED
        BY <2>4, <3>1 DEF Delete, TypeOK, Seens
    <2>5. CASE Publish
      BY <2>5 DEF Publish, TypeOK
    <2>6. QED
      BY <2>1, <2>2, <2>3, <2>4, <2>5 DEF Mirror, FirstPage, NextPage, LastPage, Accept, Candidates, Refresh,
           Confirm, Unconfirmed, MirrorFails
  <1>4. QED
    BY <1>1, <1>2, <1>3

\* What comes from outside keeps the types.
LEMMA OutsideType == TypeOK /\ Owned /\ Outside => TypeOK' /\ Owned'
  <1> SUFFICES ASSUME TypeOK, Owned, Outside PROVE TypeOK' /\ Owned'
    OBVIOUS
  <1>1. may' = may /\ due' = due /\ syncLock' = syncLock /\ workload' = workload /\ pc' = pc
    BY DEF Outside, Join, Leave, ChangeFacts, QueueUnknown, Answer, FetchFails, Store, Edit, turnVars
  <1>2. panel' \in [Users -> Facts \cup {"gone"}]
    <2>1. ASSUME NEW u \in Users, Join(u) \/ Leave(u) PROVE panel' \in [Users -> Facts \cup {"gone"}]
      BY <2>1 DEF Join, Leave, TypeOK, Facts
    <2>2. ASSUME NEW u \in Users, ChangeFacts(u) PROVE panel' \in [Users -> Facts \cup {"gone"}]
      BY <2>2 DEF ChangeFacts, TypeOK
    <2>3. CASE panel' = panel
      BY <2>3 DEF TypeOK
    <2>4. QED
      BY <2>1, <2>2, <2>3 DEF Outside, QueueUnknown, Answer, FetchFails, Store, Edit
  <1>3. fetch' \in [Users -> Facts \cup {"none", "asked"}]
    <2>1. CASE fetch' = fetch
      BY <2>1 DEF TypeOK
    <2>2. ASSUME NEW u \in Users, QueueUnknown(u) \/ FetchFails(u) \/ Store(u)
          PROVE  fetch' \in [Users -> Facts \cup {"none", "asked"}]
      BY <2>2 DEF QueueUnknown, FetchFails, Store, TypeOK
    <2>3. ASSUME NEW u \in Users, Answer(u) PROVE fetch' \in [Users -> Facts \cup {"none", "asked"}]
      BY <2>3 DEF Answer, TypeOK
    <2>4. QED
      BY <2>1, <2>2, <2>3 DEF Outside, Join, Leave, ChangeFacts, Edit
  <1>4. m' \in Mirrors /\ Owned'
    <2>1. m \in Mirrors
      BY DEF TypeOK, Mirrors
    <2>2. ASSUME NEW u \in Users, m' = [m EXCEPT !.present = @ \cup {u}] PROVE m' \in Mirrors /\ Owned'
      BY <2>1, <2>2 DEF Mirrors, Owned
    <2>3. ASSUME NEW u \in Users, m' = [m EXCEPT !.absent = @ \cup {u}] PROVE m' \in Mirrors /\ Owned'
      BY <2>1, <2>3 DEF Mirrors, Owned
    <2>4. CASE m' = m
      BY <2>1, <2>4 DEF Owned
    <2>5. QED
      BY <2>2, <2>3, <2>4 DEF Outside, Join, Leave, ChangeFacts, QueueUnknown, Answer, FetchFails, Store, Edit
  <1>5. rows' \in [Users -> Rows] /\ cache' \in Seens
    <2>1. ASSUME NEW u \in Users, NEW row \in Rows, WriteRow(u, row)
          PROVE rows' \in [Users -> Rows] /\ cache' \in Seens
      BY <2>1 DEF WriteRow, TypeOK, Seens
    <2>2. ASSUME NEW u \in Users, Store(u) PROVE rows' \in [Users -> Rows] /\ cache' \in Seens
      <3>1. Refreshed(rows[u], fetch[u]) \in Rows
        BY <2>2 DEF Store, Refreshed, TypeOK, Rows
      <3>2. QED
        BY <2>1, <2>2, <3>1 DEF Store
    <2>3. ASSUME NEW u \in Users, Edit(u) PROVE rows' \in [Users -> Rows] /\ cache' \in Seens
      <3>1. [facts |-> IF HasRow(u) THEN rows[u].facts ELSE "blank", local |-> TRUE, at |-> "new"] \in Rows
        BY DEF TypeOK, Rows
      <3>2. QED
        BY <2>1, <2>3, <3>1 DEF Edit
    <2>4. CASE UNCHANGED tableVars
      BY <2>4 DEF tableVars, TypeOK
    <2>5. QED
      BY <2>2, <2>3, <2>4 DEF Outside, Join, Leave, ChangeFacts, QueueUnknown, Answer, FetchFails
  <1>6. QED
    BY <1>1, <1>2, <1>3, <1>4, <1>5 DEF TypeOK, Mirrors

\* A restart keeps the types.
LEMMA CrashType == TypeOK /\ Crash => TypeOK' /\ Owned'
  <1> SUFFICES ASSUME TypeOK, Crash PROVE TypeOK' /\ Owned'
    OBVIOUS
  <1>1. cache' \in Seens /\ fetch' \in [Users -> Facts \cup {"none", "asked"}]
    BY DEF Crash, TypeOK, Rows, Seens, Nobody
  <1>2. m' \in Mirrors /\ Owned'
    BY NoMirrorType DEF Crash, Owned
  <1>3. QED
    BY <1>1, <1>2 DEF Crash, TypeOK, Mirrors, Callers

\* Every step keeps the types and leaves a mirror in progress its owner.
LEMMA StepType == TypeOK /\ Owned /\ [Next]_vars => TypeOK' /\ Owned'
  <1> SUFFICES ASSUME TypeOK, Owned, [Next]_vars PROVE TypeOK' /\ Owned'
    OBVIOUS
  <1>1. CASE Mirror \/ MirrorFails \/ \E u \in Users : Unconfirmed(u)
    BY <1>1, MirrorType, MirrorRestType DEF TypeOK, Mirrors, PCs
  <1>2. CASE UNCHANGED vars
    BY <1>2 DEF vars, tableVars, turnVars, TypeOK, Owned
  <1>3. QED
    BY <1>1, <1>2, StepKinds, TurnsType, OutsideType, CrashType

\* TypeOK holds in every reachable state of the mirror, for any users.
THEOREM TypeCorrect == Spec => []TypeOK
  <1>1. Init => TypeOK /\ Owned
    BY InitType
  <1>2. TypeOK /\ Owned /\ [Next]_vars => (TypeOK /\ Owned)'
    BY StepType
  <1>3. QED
    BY <1>1, <1>2, PTL DEF Spec

---------------------------------------------------------------------------
(* LocalWorkKept.  The step that deletes rows trusts what earlier steps have *)
(* read from the panel and the table; the invariant says what that was.    *)

\* A row without facts is no row: a row just made has facts or is blank.
Whole == \A u \in Users : rows[u].facts = "none" => rows[u] = NoRow

\* Only users that were listed are written.
ListedOnly == m.pc = "write" => \A u \in m.todo : m.seen[u] # "none"

\* Users whose absence was confirmed have been gone since the snapshot.
ConfirmedGone == m.gone \subseteq m.absent /\ (m.pc = "snapshot" => m.gone = {})

\* Every user gone since the snapshot is known to be.
Noticed == Since => \A u \in Users : panel[u] = "gone" => u \in m.absent

Kept == Whole /\ ListedOnly /\ ConfirmedGone /\ Noticed

\* What a mirror that is not in progress, or has just been admitted, holds.
LEMMA FreshMirror ==
  ASSUME TypeOK', NEW c \in Callers, m' = NoMirror \/ m' = [NoMirror EXCEPT !.pc = "snapshot", !.by = c]
  PROVE ListedOnly' /\ ConfirmedGone' /\ Noticed'
  BY NoMirrorType DEF NoMirror, ListedOnly, ConfirmedGone, Noticed, Since

\* Kept holds initially.
LEMMA InitKept == Init => Kept
  <1> SUFFICES ASSUME Init PROVE Kept
    OBVIOUS
  <1>1. Whole
    BY DEF Init, Whole
  <1>2. QED
    BY <1>1 DEF Init, NoMirror, Kept, ListedOnly, ConfirmedGone, Noticed, Since

\* A row that is written with facts stays a row, and so do the others.
LEMMA WriteWhole ==
  ASSUME TypeOK, Whole, NEW u \in Users, NEW row \in Rows, row.facts # "none", WriteRow(u, row)
  PROVE Whole'
  BY DEF WriteRow, TypeOK, Whole

\* Every step keeps the table whole.
LEMMA StepWhole == TypeOK /\ Owned /\ Kept /\ [Next]_vars => Whole'
  <1> SUFFICES ASSUME TypeOK, Owned, Kept, [Next]_vars PROVE Whole'
    OBVIOUS
  <1>1. CASE rows' = rows
    BY <1>1 DEF Kept, Whole
  <1>2. CASE Snapshot
    <2>1. \A u \in Users : rows'[u] = [rows[u] EXCEPT !.at = "old"] /\ rows'[u].facts = rows[u].facts
      BY <1>2 DEF Snapshot, TypeOK, Rows
    <2>2. [NoRow EXCEPT !.at = "old"] = NoRow
      BY DEF NoRow
    <2>3. QED
      BY <2>1, <2>2 DEF Kept, Whole
  <1>3. ASSUME NEW u \in Users, Upsert(u) PROVE Whole'
    <2>1. m.seen[u] # "none" /\ Refreshed(rows[u], m.seen[u]) \in Rows
      BY <1>3 DEF Upsert, Kept, ListedOnly, Refreshed, TypeOK, Rows, Seens
    <2>2. QED
      BY <1>3, <2>1, WriteWhole DEF Upsert, Kept, Refreshed
  <1>4. CASE Delete
    <2>1. \A u \in Users : rows'[u] = NoRow \/ rows'[u] = rows[u]
      BY <1>4 DEF Delete
    <2>2. QED
      BY <2>1 DEF Kept, Whole
  <1>5. ASSUME NEW u \in Users, Store(u) PROVE Whole'
    <2>1. fetch[u] # "none" /\ Refreshed(rows[u], fetch[u]) \in Rows
      BY <1>5 DEF Store, Facts, Refreshed, TypeOK, Rows
    <2>2. QED
      BY <1>5, <2>1, WriteWhole DEF Store, Kept, Refreshed
  <1>6. ASSUME NEW u \in Users, Edit(u) PROVE Whole'
    <2> DEFINE row == [facts |-> IF HasRow(u) THEN rows[u].facts ELSE "blank", local |-> TRUE, at |-> "new"]
    <2>1. row \in Rows /\ row.facts # "none"
      BY DEF TypeOK, Rows, Kept, Whole, HasRow
    <2>2. QED
      BY <1>6, <2>1, WriteWhole DEF Edit, Kept
  <1>7. CASE Turns
    BY <1>1, <1>7 DEF Turns, Ask, TakeSyncLock, TakeTurn, Admit, Cancel, AskManually, WantCollection, EnterCollection,
           Collect, EndCollection, Tick, Postpone, tableVars
  <1>8. CASE UNCHANGED vars
    BY <1>1, <1>8 DEF vars, tableVars
  <1>9. QED
    BY <1>1, <1>2, <1>3, <1>4, <1>5, <1>6, <1>7, <1>8, StepKinds
    DEF Mirror, FirstPage, NextPage, LastPage, Accept, Candidates, Refresh, Publish, Confirm, Unconfirmed, MirrorFails,
        Crash, Outside, Join, Leave, ChangeFacts, QueueUnknown, Answer, FetchFails, tableVars

\* Every step keeps what the mirror knows about the panel true.
LEMMA StepMirrorFacts == TypeOK /\ Owned /\ Kept /\ [Next]_vars => ListedOnly' /\ ConfirmedGone' /\ Noticed'
  <1> SUFFICES ASSUME TypeOK, Owned, Kept, [Next]_vars PROVE ListedOnly' /\ ConfirmedGone' /\ Noticed'
    OBVIOUS
  <1>0. TypeOK' /\ m \in Mirrors
    BY StepType DEF TypeOK, Mirrors
  <1> USE DEF Kept, ListedOnly, ConfirmedGone, Noticed, Since
  <1>1. CASE m' = m /\ (\A u \in Users : panel'[u] = "gone" => panel[u] = "gone")
    BY <1>1
  <1>2. ASSUME NEW c \in Callers, m' = NoMirror \/ m' = [NoMirror EXCEPT !.pc = "snapshot", !.by = c]
        PROVE ListedOnly' /\ ConfirmedGone' /\ Noticed'
    BY <1>0, <1>2, FreshMirror
  <1>3. CASE Turns
    <2>1. panel' = panel
      BY <1>3 DEF Turns, Ask, TakeSyncLock, TakeTurn, Admit, Cancel, AskManually, WantCollection, EnterCollection,
             Collect, EndCollection, Tick, Postpone
    <2>2. QED
      BY <1>1, <1>2, <1>3, <2>1 DEF Turns, Ask, TakeSyncLock, TakeTurn, Admit, Cancel, AskManually, WantCollection,
             EnterCollection, Collect, EndCollection, Tick, Postpone
  <1>4. CASE Crash
    BY <1>2, <1>4 DEF Crash, Callers
  <1>5. CASE EndMirror
    BY <1>2, <1>5 DEF EndMirror, Callers
  <1>6. CASE Snapshot
    BY <1>0, <1>6 DEF Snapshot, Mirrors, OnPanel
  <1>7. CASE FirstPage \/ NextPage \/ LastPage
    BY <1>0, <1>7 DEF FirstPage, NextPage, LastPage, Mirrors
  <1>8. CASE Accept /\ ~EndMirror
    <2>1. panel' = panel /\ m.pc = "listed"
          /\ m' = [m EXCEPT !.pc = "write", !.todo = Seen, !.changed = Changed, !.first = 0, !.offset = 0, !.totals = {}]
      BY <1>8 DEF Accept
    <2>2. m'.pc = "write" /\ m'.todo = Seen /\ m'.seen = m.seen /\ m'.gone = m.gone /\ m'.absent = m.absent
      BY <1>0, <2>1 DEF Mirrors
    <2>3. QED
      BY <2>1, <2>2 DEF Seen
  <1>9. ASSUME NEW u \in Users, Upsert(u) PROVE ListedOnly' /\ ConfirmedGone' /\ Noticed'
    BY <1>0, <1>9 DEF Upsert, Mirrors
  <1>10. CASE Candidates
    BY <1>0, <1>10 DEF Candidates, Mirrors
  <1>11. ASSUME NEW u \in Users, Confirm(u) \/ Unconfirmed(u) PROVE ListedOnly' /\ ConfirmedGone' /\ Noticed'
    <2>1. panel' = panel /\ m.pc = "confirm" /\ m'.pc = "confirm" /\ m'.absent = m.absent
      BY <1>0, <1>11 DEF Confirm, Unconfirmed, Mirrors
    <2>2. m'.gone = m.gone \/ (panel[u] = "gone" /\ m'.gone = m.gone \cup {u})
      BY <1>0, <1>11 DEF Confirm, Unconfirmed, Mirrors
    <2>3. QED
      BY <2>1, <2>2
  <1>12. CASE Delete \/ Refresh
    BY <1>0, <1>12 DEF Delete, Refresh, Mirrors
  <1>13. ASSUME NEW u \in Users, Join(u) PROVE ListedOnly' /\ ConfirmedGone' /\ Noticed'
    BY <1>0, <1>13 DEF Join, Mirrors, TypeOK
  <1>14. ASSUME NEW u \in Users, Leave(u) PROVE ListedOnly' /\ ConfirmedGone' /\ Noticed'
    BY <1>0, <1>14 DEF Leave, Mirrors, TypeOK
  <1>15. ASSUME NEW u \in Users, ChangeFacts(u) PROVE ListedOnly' /\ ConfirmedGone' /\ Noticed'
    BY <1>1, <1>15 DEF ChangeFacts, Facts, TypeOK
  <1>16. CASE Outside
    BY <1>1, <1>13, <1>14, <1>15, <1>16 DEF Outside, QueueUnknown, Answer, FetchFails, Store, Edit
  <1>17. CASE UNCHANGED vars
    BY <1>1, <1>17 DEF vars
  <1>18. QED
    BY <1>3, <1>4, <1>5, <1>6, <1>7, <1>8, <1>9, <1>10, <1>11, <1>12, <1>16, <1>17, StepKinds
    DEF Mirror, MirrorFails, Publish

\* What LocalWorkKept says of a user.
KeepsWork(u) ==
  HasRow(u) /\ rows'[u] # rows[u] =>
    \/ rows'[u] # NoRow /\ (rows[u].local => rows'[u].local)
    \/ rows'[u] = NoRow /\ rows[u].at = "old" /\ u \in m.absent

\* No step loses local work.
LEMMA StepKeepsWork ==
  ASSUME TypeOK, Owned, Kept, [Next]_vars
  PROVE \A u \in Users : KeepsWork(u)
  <1>1. CASE rows' = rows
    BY <1>1 DEF KeepsWork
  <1>2. CASE Snapshot
    <2> TAKE u \in Users
    <2>1. rows'[u].facts = rows[u].facts /\ rows'[u].local = rows[u].local
      BY <1>2 DEF Snapshot, TypeOK, Rows
    <2>2. HasRow(u) => rows[u].facts # "none"
      BY DEF Kept, Whole, HasRow
    <2>3. QED
      BY <2>1, <2>2 DEF KeepsWork, NoRow
  <1>3. ASSUME NEW v \in Users, NEW row \in Rows, row.facts # "none", rows[v].local => row.local, WriteRow(v, row)
        PROVE \A u \in Users : KeepsWork(u)
    BY <1>3 DEF KeepsWork, WriteRow, TypeOK, NoRow
  <1>4. ASSUME NEW v \in Users, Upsert(v) PROVE \A u \in Users : KeepsWork(u)
    <2>1. m.seen[v] # "none" /\ Refreshed(rows[v], m.seen[v]) \in Rows
      BY <1>4 DEF Upsert, Kept, ListedOnly, Refreshed, TypeOK, Rows, Seens
    <2>2. QED
      BY <1>3, <1>4, <2>1 DEF Upsert, Refreshed
  <1>5. ASSUME NEW v \in Users, Store(v) PROVE \A u \in Users : KeepsWork(u)
    <2>1. fetch[v] # "none" /\ Refreshed(rows[v], fetch[v]) \in Rows
      BY <1>5 DEF Store, Facts, Refreshed, TypeOK, Rows
    <2>2. QED
      BY <1>3, <1>5, <2>1 DEF Store, Refreshed
  <1>6. ASSUME NEW v \in Users, Edit(v) PROVE \A u \in Users : KeepsWork(u)
    <2> DEFINE row == [facts |-> IF HasRow(v) THEN rows[v].facts ELSE "blank", local |-> TRUE, at |-> "new"]
    <2>1. row \in Rows /\ row.facts # "none" /\ row.local
      BY DEF TypeOK, Rows, Kept, Whole, HasRow
    <2>2. QED
      BY <1>3, <1>6, <2>1 DEF Edit
  <1>7. CASE Delete
    <2> TAKE u \in Users
    <2>1. rows'[u] = rows[u] \/ (rows'[u] = NoRow /\ u \in m.gone /\ rows[u].at = "old")
      BY <1>7 DEF Delete
    <2>2. QED
      BY <2>1 DEF KeepsWork, Kept, ConfirmedGone
  <1>8. CASE Turns
    BY <1>1, <1>8 DEF Turns, Ask, TakeSyncLock, TakeTurn, Admit, Cancel, AskManually, WantCollection, EnterCollection,
           Collect, EndCollection, Tick, Postpone, tableVars
  <1>9. CASE UNCHANGED vars
    BY <1>1, <1>9 DEF vars, tableVars
  <1>10. QED
    BY <1>1, <1>2, <1>4, <1>5, <1>6, <1>7, <1>8, <1>9, StepKinds
    DEF Mirror, FirstPage, NextPage, LastPage, Accept, Candidates, Refresh, Publish, Confirm, Unconfirmed, MirrorFails,
        Crash, Outside, Join, Leave, ChangeFacts, QueueUnknown, Answer, FetchFails, tableVars

\* For any users, page size and scenarios: neither the mirror nor a single fetch
\* undoes what an operator or a ban has written to a row, and a row is deleted
\* only if its user was gone from the panel at some moment since the snapshot and
\* nobody has written it since.
THEOREM NoLocalWorkLost == Spec => LocalWorkKept
  <1> DEFINE Inv == TypeOK /\ Owned /\ Kept
             Keeps == \A u \in Users : KeepsWork(u)
  <1>1. Init => Inv
    BY InitType, InitKept
  <1>2. Inv /\ [Next]_vars => Inv'
    BY StepType, StepWhole, StepMirrorFacts DEF Kept
  <1>3. Inv /\ [Next]_vars => [Keeps]_vars
    BY StepKeepsWork
  <1>4. LocalWorkKept <=> [][Keeps]_vars
    BY DEF LocalWorkKept, KeepsWork
  <1> HIDE DEF Inv, Keeps
  <1>5. QED
    BY <1>1, <1>2, <1>3, <1>4, PTL DEF Spec

---------------------------------------------------------------------------
(* MirrorRight.  A turn is held by one caller at a time, and a mirror       *)
(* remembers what it has not accounted for.                                *)

\* Whoever is about to mirror, mirrors or collects has the turn, and a mirror in progress
\* is at work for its owner.
TurnHeld ==
  /\ \A c \in Callers : pc[c] \in {"gate", "collect", "admit", "mirror"} => workload = c
  /\ m.pc # "off" => pc[m.by] = "mirror"

\* A lock that nobody holds is not held by a caller.
LEMMA NobodyCalls == NoOne \notin Callers
  BY DEF NoOne, Callers

\* An attempt that ends gives its turn back.
LEMMA EndsTurn == ASSUME TypeOK, Owned, TurnHeld, m.pc # "off", EndMirror PROVE TurnHeld'
  <1>1. pc[m.by] = "mirror" /\ workload = m.by /\ m.by \in Callers
    BY DEF TurnHeld, Owned
  <1>2. pc'[m.by] \in {"queue", "idle"} /\ \A c \in Callers \ {m.by} : pc'[c] = pc[c]
    BY <1>1 DEF EndMirror, After, TypeOK
  <1>3. m'.pc = "off"
    BY NoMirrorType DEF EndMirror
  <1> QED
    BY <1>1, <1>2, <1>3 DEF TurnHeld

\* Every step of a caller leaves the turn to one of them.
LEMMA CallersTurn ==
  ASSUME TypeOK, Owned, TurnHeld, Turns
  PROVE  TurnHeld'
  <1>1. ASSUME NEW c \in Callers, NEW to, pc' = [pc EXCEPT ![c] = to], m' = m, pc[c] # "mirror",
               \/ to \notin {"gate", "collect", "admit", "mirror"} /\ workload' = workload
               \/ workload = NoOne /\ workload' = c
               \/ /\ pc[c] \in {"gate", "collect", "admit", "mirror"}
                  /\ workload' = workload \/ (workload' = NoOne /\ to \in {"ask", "idle", "queue"})
        PROVE  TurnHeld'
    <2>1. pc'[c] = to /\ \A d \in Callers \ {c} : pc'[d] = pc[d]
      BY <1>1 DEF TypeOK
    <2>2. \A d \in Callers : pc'[d] \in {"gate", "collect", "admit", "mirror"} => workload' = d
      BY <1>1, <2>1, NobodyCalls DEF TurnHeld
    <2>3. m.pc # "off" => m.by \in Callers \ {c}
      BY <1>1 DEF TurnHeld, Owned
    <2> QED
      BY <1>1, <2>1, <2>2, <2>3 DEF TurnHeld
  <1>2. ASSUME NEW c \in Callers, Ask(c) PROVE TurnHeld'
    <2>1. PICK to \in {"lock", "queue", "idle"} : pc' = [pc EXCEPT ![c] = to]
      BY <1>2 DEF Ask, After
    <2>2. pc[c] \in {"idle", "ask"} /\ workload' = workload /\ m' = m
      BY <1>2 DEF Ask
    <2> QED
      BY <1>1, <2>1, <2>2
  <1>3. ASSUME NEW c \in Callers, TakeSyncLock(c) PROVE TurnHeld'
    BY <1>1, <1>3 DEF TakeSyncLock, Caller
  <1>4. ASSUME NEW c \in Callers, TakeTurn(c) PROVE TurnHeld'
    BY <1>1, <1>4 DEF TakeTurn, Caller
  <1>5. ASSUME NEW c \in Callers, Admit(c) PROVE TurnHeld'
    <2>1. pc[c] = "admit" /\ workload = c
      BY <1>5 DEF Admit, Caller, TurnHeld
    <2>2. CASE due \/ c = "manual"
      <3>1. m' = [NoMirror EXCEPT !.pc = "snapshot", !.by = c] /\ workload' = workload
        BY <1>5, <2>2 DEF Admit
      <3>2. m'.by = c
        BY <3>1, NoMirrorType DEF Mirrors
      <3>3. pc'[c] = "mirror" /\ \A d \in Callers \ {c} : pc'[d] = pc[d]
        BY <1>5, <2>2 DEF Admit, Caller, TypeOK
      <3> QED
        BY <2>1, <3>1, <3>2, <3>3 DEF TurnHeld
    <2>3. CASE ~due /\ c # "manual"
      <3>1. workload' = NoOne /\ m' = m /\ pc' = [pc EXCEPT ![c] = After(c)]
        BY <1>5, <2>3 DEF Admit, Caller
      <3>2. After(c) \in {"queue", "idle"}
        BY DEF After
      <3> QED
        BY <1>1, <2>1, <3>1, <3>2
    <2> QED
      BY <2>2, <2>3
  <1>6. ASSUME NEW c \in Callers, Cancel(c) PROVE TurnHeld'
    <2>1. pc'[c] = "idle" /\ \A d \in Callers \ {c} : pc'[d] = pc[d]
      BY <1>6 DEF Cancel, TypeOK
    <2>2. \A d \in Callers \ {c} : workload = d => workload' = d
      BY <1>6 DEF Cancel, Freed
    <2>3. m'.pc # "off" => m' = m /\ m.by # c
      BY <1>6, NoMirrorType DEF Cancel
    <2> QED
      BY <2>1, <2>2, <2>3 DEF TurnHeld, Owned
  <1>7. CASE AskManually \/ WantCollection
    BY <1>1, <1>7 DEF AskManually, WantCollection, Caller, Callers
  <1>8. CASE EnterCollection
    BY <1>1, <1>8 DEF EnterCollection, Caller, Callers
  <1>9. CASE Collect \/ EndCollection
    <2> DEFINE c == "collector"
    <2>1. c \in Callers
      BY DEF Callers
    <2>2. PICK to \in {"ask", "collect", "idle"} : pc' = [pc EXCEPT ![c] = to]
      BY <1>9 DEF Collect, EndCollection, Caller
    <2>3. pc[c] \in {"gate", "collect"} /\ m' = m
      BY <1>9 DEF Collect, EndCollection, Caller
    <2>4. workload' = workload \/ (workload' = NoOne /\ to \in {"ask", "idle"})
      <3>1. to = pc'[c]
        BY <2>1, <2>2 DEF TypeOK
      <3>2. CASE Collect
        <4>1. pc'[c] = IF due THEN "ask" ELSE "collect"
          BY <2>1, <3>2 DEF Collect, Caller, TypeOK
        <4> QED
          BY <3>1, <3>2, <4>1 DEF Collect
      <3>3. CASE EndCollection
        <4>1. pc'[c] = "idle"
          BY <2>1, <3>3 DEF EndCollection, Caller, TypeOK
        <4> QED
          BY <3>1, <3>3, <4>1 DEF EndCollection
      <3> QED
        BY <1>9, <3>2, <3>3
    <2> HIDE DEF c
    <2> QED
      BY <1>1, <2>1, <2>2, <2>3, <2>4
  <1>10. CASE Tick \/ Postpone
    BY <1>10 DEF Tick, Postpone, TurnHeld
  <1> QED
    BY <1>2, <1>3, <1>4, <1>5, <1>6, <1>7, <1>8, <1>9, <1>10 DEF Turns

\* A step of the mirror or from outside moves nobody's turn, unless the mirror is over.
LEMMA OthersTurn ==
  ASSUME TypeOK, Owned, Mirror \/ MirrorFails \/ (\E u \in Users : Unconfirmed(u)) \/ Outside
  PROVE  \/ m.pc # "off" /\ EndMirror
         \/ UNCHANGED <<pc, workload, due>> /\ m'.by = m.by /\ (m'.pc # "off" => m.pc # "off")
  <1>0. m \in Mirrors
    BY DEF TypeOK, Mirrors
  <1>1. CASE MirrorFails \/ Publish
    BY <1>1 DEF MirrorFails, Publish
  <1>2. CASE Snapshot
    BY <1>0, <1>2 DEF Snapshot, turnVars, Mirrors
  <1>3. CASE FirstPage \/ NextPage \/ LastPage
    BY <1>0, <1>3 DEF FirstPage, NextPage, LastPage, turnVars, Mirrors
  <1>4. CASE Accept
    BY <1>0, <1>4 DEF Accept, turnVars, Mirrors
  <1>5. CASE Candidates
    BY <1>0, <1>5 DEF Candidates, turnVars, Mirrors
  <1>6. CASE Delete \/ Refresh
    BY <1>0, <1>6 DEF Delete, Refresh, turnVars, Mirrors
  <1>7. ASSUME NEW u \in Users, Upsert(u) \/ Confirm(u) \/ Unconfirmed(u)
        PROVE  UNCHANGED <<pc, workload, due>> /\ m'.by = m.by /\ (m'.pc # "off" => m.pc # "off")
    BY <1>0, <1>7 DEF Upsert, Confirm, Unconfirmed, turnVars, Mirrors
  <1>8. ASSUME NEW u \in Users, Join(u) \/ Leave(u) \/ ChangeFacts(u)
        PROVE  UNCHANGED <<pc, workload, due>> /\ m'.by = m.by /\ (m'.pc # "off" => m.pc # "off")
    BY <1>0, <1>8 DEF Join, Leave, ChangeFacts, turnVars, Mirrors
  <1>9. ASSUME NEW u \in Users, QueueUnknown(u) \/ Answer(u) \/ FetchFails(u) \/ Store(u) \/ Edit(u)
        PROVE  UNCHANGED <<pc, workload, due>> /\ m'.by = m.by /\ (m'.pc # "off" => m.pc # "off")
    BY <1>9 DEF QueueUnknown, Answer, FetchFails, Store, Edit, turnVars
  <1> QED
    BY <1>1, <1>2, <1>3, <1>4, <1>5, <1>6, <1>7, <1>8, <1>9 DEF Mirror, Outside

\* Every step leaves the turn to one caller.
LEMMA StepTurn == TypeOK /\ Owned /\ TurnHeld /\ [Next]_vars => TurnHeld'
  <1> SUFFICES ASSUME TypeOK, Owned, TurnHeld, [Next]_vars PROVE TurnHeld'
    OBVIOUS
  <1>1. CASE Crash
    <2>1. m'.pc = "off" /\ \A c \in Callers : pc'[c] = "idle"
      BY <1>1, NoMirrorType DEF Crash
    <2> QED
      BY <2>1 DEF TurnHeld
  <1>2. CASE UNCHANGED vars
    BY <1>2 DEF vars, turnVars, TurnHeld
  <1>3. CASE Mirror \/ MirrorFails \/ (\E u \in Users : Unconfirmed(u)) \/ Outside
    <2>1. CASE m.pc # "off" /\ EndMirror
      BY <2>1, EndsTurn
    <2>2. CASE UNCHANGED <<pc, workload, due>> /\ m'.by = m.by /\ (m'.pc # "off" => m.pc # "off")
      BY <2>2 DEF TurnHeld
    <2> QED
      BY <1>3, <2>1, <2>2, OthersTurn
  <1> QED
    BY <1>1, <1>2, <1>3, CallersTurn, StepKinds

\* A mirror starts while it is due, and nobody collects then.
LEMMA StartsInTurn == ASSUME TypeOK, Owned, TurnHeld, [Next]_vars PROVE TakesTurns
  <1> SUFFICES ASSUME m.pc = "off", m'.pc # "off"
               PROVE  (due \/ m'.by = "manual") /\ pc["collector"] # "collect"
    BY DEF TakesTurns
  <1>1. ~EndMirror /\ ~Crash /\ ~UNCHANGED vars
    BY NoMirrorType DEF EndMirror, Crash, vars
  <1>2. ~(Mirror \/ MirrorFails \/ (\E u \in Users : Unconfirmed(u)) \/ Outside)
    BY <1>1, OthersTurn
  <1>3. PICK c \in Callers : Admit(c)
    <2>1. Turns
      BY <1>1, <1>2, StepKinds
    <2>2. m' # m /\ m' # NoMirror
      BY NoMirrorType
    <2> QED
      BY <2>1, <2>2 DEF Turns, Ask, TakeSyncLock, TakeTurn, Cancel, AskManually, WantCollection, EnterCollection, Collect,
           EndCollection, Tick, Postpone
  <1>4. pc[c] = "admit" /\ (due \/ c = "manual") /\ m' = [NoMirror EXCEPT !.pc = "snapshot", !.by = c]
    BY <1>3 DEF Admit, Caller
  <1>5. m'.by = c
    BY <1>4, NoMirrorType DEF Mirrors
  <1>6. pc["collector"] # "collect"
    BY <1>4 DEF TurnHeld, Callers
  <1> QED
    BY <1>4, <1>5, <1>6

\* The row of a user needs no deleting.
Settled(u) == HasRow(u) => u \in m.present \/ rows[u].at = "new"

\* Who is on the panel has been there since the snapshot at some moment; so has whoever was
\* listed; and unless the mirror knows of an error, what it has not listed is left to be
\* confirmed or deleted, and in the end nothing is.
Accounted ==
  /\ Since => OnPanel \subseteq m.present
  /\ m.pc \in {"snapshot", "first", "pages", "listed", "write"} =>
       \A u \in Users : m.seen[u] # "none" => m.pc # "snapshot" /\ u \in m.present
  /\ m.pc = "confirm" /\ ~m.errors => \A u \in Users : Settled(u) \/ u \in m.todo \cup m.gone
  /\ m.pc \in {"refresh", "publish"} /\ ~m.errors => \A u \in Users : Settled(u)

\* A mirror that is over or has just been admitted has nothing to account for.
LEMMA FreshAccounts ==
  ASSUME NEW c, m' = NoMirror \/ m' = [NoMirror EXCEPT !.pc = "snapshot", !.by = c]
  PROVE  Accounted'
  <1>0. NoMirror.pc = "off" /\ NoMirror.seen = Nobody
    BY DEF NoMirror
  <1>1. m'.pc \in {"off", "snapshot"} /\ m'.seen = Nobody
    BY <1>0, NoMirrorType DEF Mirrors
  <1> QED
    BY <1>1 DEF Accounted, Since, Nobody

\* Rows that stay or are written now stay settled while the mirror stays where it is.
LEMMA StaysAccounted ==
  ASSUME TypeOK, Accounted, OnPanel' \subseteq OnPanel,
         m'.pc = m.pc, m'.errors = m.errors, m'.seen = m.seen, m'.todo = m.todo, m'.gone = m.gone,
         m.present \subseteq m'.present,
         \A u \in Users : rows'[u] = rows[u] \/ rows'[u].at = "new"
  PROVE  Accounted'
  <1>1. \A u \in Users : Settled(u) => Settled(u)'
    BY DEF Settled, HasRow
  <1> QED
    BY <1>1 DEF Accounted, Since

\* Every step keeps the mirror's account.
LEMMA StepAccounts == TypeOK /\ Owned /\ Kept /\ Accounted /\ [Next]_vars => Accounted'
  <1> SUFFICES ASSUME TypeOK, Owned, Kept, Accounted, [Next]_vars PROVE Accounted'
    OBVIOUS
  <1>0. m \in Mirrors
    BY DEF TypeOK, Mirrors
  <1>f. ASSUME m' = m, panel' = panel, rows' = rows PROVE Accounted'
    BY <1>f DEF Accounted, Since, OnPanel, Settled, HasRow
  <1>1. CASE Turns
    <2>1. panel' = panel /\ rows' = rows
      BY <1>1 DEF Turns, Ask, TakeSyncLock, TakeTurn, Admit, Cancel, AskManually, WantCollection, EnterCollection,
             Collect, EndCollection, Tick, Postpone, tableVars
    <2>2. m' = m \/ m' = NoMirror \/ \E c : m' = [NoMirror EXCEPT !.pc = "snapshot", !.by = c]
      BY <1>1 DEF Turns, Ask, TakeSyncLock, TakeTurn, Admit, Cancel, AskManually, WantCollection, EnterCollection,
             Collect, EndCollection, Tick, Postpone
    <2> QED
      BY <1>f, <2>1, <2>2, FreshAccounts
  <1>2. CASE Crash \/ EndMirror
    BY <1>2, FreshAccounts DEF Crash, EndMirror
  <1>3. CASE UNCHANGED vars
    BY <1>3, <1>f DEF vars, tableVars
  <1>4. CASE Snapshot
    <2>1. m'.pc = "first" /\ m'.present = OnPanel /\ m'.seen = m.seen /\ panel' = panel /\ m.pc = "snapshot"
      BY <1>0, <1>4 DEF Snapshot, Mirrors
    <2> QED
      BY <2>1 DEF Accounted, Since, OnPanel
  <1>5. CASE FirstPage \/ NextPage
    <2>1. PICK o : m'.seen = Listed(o)
      <3>1. FirstPage => m'.seen = Listed(0)
        BY <1>0 DEF FirstPage, Mirrors
      <3>2. NextPage => m'.seen = Listed(m.offset)
        BY <1>0 DEF NextPage, Mirrors
      <3> QED
        BY <1>5, <3>1, <3>2
    <2>2. m'.present = m.present /\ m.pc \in {"first", "pages"} /\ m'.pc \in {"pages", "listed"} /\ panel' = panel
      BY <1>0, <1>5 DEF FirstPage, NextPage, Mirrors
    <2>3. \A u \in Users : m'.seen[u] = IF u \in Page(o) THEN panel[u] ELSE m.seen[u]
      BY <2>1 DEF Listed
    <2>4. Page(o) \subseteq OnPanel
      BY DEF Page
    <2> QED
      BY <2>2, <2>3, <2>4 DEF Accounted, Since, OnPanel
  <1>6. CASE LastPage
    <2>1. m'.seen = m.seen /\ m'.present = m.present /\ m.pc = "pages" /\ m'.pc = "listed" /\ panel' = panel
      BY <1>0, <1>6 DEF LastPage, Mirrors
    <2> QED
      BY <2>1 DEF Accounted, Since, OnPanel
  <1>7. CASE Accept /\ ~EndMirror
    <2>1. panel' = panel /\ m.pc = "listed"
          /\ m' = [m EXCEPT !.pc = "write", !.todo = Seen, !.changed = Changed, !.first = 0, !.offset = 0, !.totals = {}]
      BY <1>7 DEF Accept
    <2>2. m'.pc = "write" /\ m'.seen = m.seen /\ m'.present = m.present
      BY <1>0, <2>1 DEF Mirrors
    <2> QED
      BY <2>1, <2>2 DEF Accounted, Since, OnPanel
  <1>8. ASSUME NEW u \in Users, Upsert(u) PROVE Accounted'
    <2>1. m'.pc = "write" /\ m.pc = "write" /\ m'.seen = m.seen /\ m'.present = m.present /\ panel' = panel
      BY <1>0, <1>8 DEF Upsert, Mirrors
    <2> QED
      BY <2>1 DEF Accounted, Since, OnPanel
  <1>9. CASE Candidates
    <2> DEFINE unlisted == {u \in Users : HasRow(u)} \ Seen
    <2>1. m.pc = "write" /\ m'.pc = "confirm" /\ m'.present = m.present /\ panel' = panel /\ rows' = rows
      BY <1>0, <1>9 DEF Candidates, Mirrors, tableVars
    <2>2. ~m'.errors => m'.todo = unlisted
      BY <1>0, <1>9 DEF Candidates, Mirrors
    <2>3. \A u \in Users \ unlisted : Settled(u)
      BY <2>1 DEF Accounted, Seen, Settled
    <2> HIDE DEF unlisted
    <2> QED
      BY <2>1, <2>2, <2>3 DEF Accounted, Since, OnPanel, Settled, HasRow
  <1>10. ASSUME NEW u \in Users, Confirm(u) \/ Unconfirmed(u) PROVE Accounted'
    <2>1. m.pc = "confirm" /\ m'.pc = "confirm" /\ m'.present = m.present /\ panel' = panel /\ rows' = rows
      BY <1>0, <1>10 DEF Confirm, Unconfirmed, Mirrors, tableVars
    <2>2. m'.errors \/ (m'.errors = m.errors /\ m'.todo \cup m'.gone = m.todo \cup m.gone)
      <3>1. u \in m.todo
        BY <1>10 DEF Confirm, Unconfirmed
      <3>2. m'.errors \/ (m'.errors = m.errors /\ m'.todo = m.todo \ {u} /\ m'.gone = m.gone \cup {u})
        BY <1>0, <1>10 DEF Confirm, Unconfirmed, Mirrors
      <3> QED
        BY <3>1, <3>2
    <2> QED
      BY <2>1, <2>2 DEF Accounted, Since, OnPanel, Settled, HasRow
  <1>11. CASE Delete
    <2> DEFINE unchanged == {u \in m.gone : HasRow(u) /\ rows[u].at = "old"}
    <2>1. /\ m.pc = "confirm" /\ m.todo = {} /\ m'.pc = "refresh" /\ m'.present = m.present /\ panel' = panel
          /\ m'.errors = (m.errors \/ \E u \in m.gone \ unchanged : HasRow(u))
      BY <1>0, <1>11 DEF Delete, Mirrors
    <2>2. \A u \in Users : rows'[u] = IF u \in unchanged THEN NoRow ELSE rows[u]
      BY <1>11 DEF Delete
    <2>3. ASSUME ~m'.errors, NEW u \in Users PROVE Settled(u)'
      <3>1. Settled(u) \/ u \in m.gone
        BY <2>1, <2>3 DEF Accounted
      <3>2. CASE Settled(u)
        BY <2>1, <2>2, <3>2 DEF Settled, HasRow
      <3>3. CASE u \in m.gone
        <4>1. u \in unchanged \/ ~HasRow(u)
          BY <2>1, <2>3, <3>3
        <4> QED
          BY <2>2, <4>1 DEF Settled, HasRow
      <3> QED
        BY <3>1, <3>2, <3>3
    <2> HIDE DEF unchanged
    <2> QED
      BY <2>1, <2>3 DEF Accounted, Since, OnPanel
  <1>12. CASE Refresh
    <2>1. /\ m.pc = "refresh" /\ m'.pc = "publish" /\ m'.present = m.present /\ m'.errors = m.errors
          /\ panel' = panel /\ rows' = rows
      BY <1>0, <1>12 DEF Refresh, Mirrors, tableVars
    <2> QED
      BY <2>1 DEF Accounted, Since, OnPanel, Settled, HasRow
  <1>13. ASSUME NEW u \in Users, Join(u) PROVE Accounted'
    <2>1. rows' = rows /\ panel' = [panel EXCEPT ![u] = "x"]
      BY <1>13 DEF Join, tableVars
    <2>2. /\ m'.pc = m.pc /\ m'.errors = m.errors /\ m'.seen = m.seen /\ m'.todo = m.todo /\ m'.gone = m.gone
          /\ m'.present = IF Since THEN m.present \cup {u} ELSE m.present
      BY <1>0, <1>13 DEF Join, Mirrors
    <2>3. OnPanel' \subseteq OnPanel \cup {u}
      BY <2>1 DEF OnPanel, TypeOK
    <2>4. \A v \in Users : Settled(v) => Settled(v)'
      BY <2>1, <2>2 DEF Settled, HasRow
    <2> QED
      BY <2>2, <2>3, <2>4 DEF Accounted, Since
  <1>14. ASSUME NEW u \in Users, Leave(u) PROVE Accounted'
    <2>1. rows' = rows /\ panel' = [panel EXCEPT ![u] = "gone"]
      BY <1>14 DEF Leave, tableVars
    <2>2. /\ m'.pc = m.pc /\ m'.errors = m.errors /\ m'.seen = m.seen /\ m'.todo = m.todo /\ m'.gone = m.gone
          /\ m'.present = m.present
      BY <1>0, <1>14 DEF Leave, Mirrors
    <2>3. OnPanel' \subseteq OnPanel
      BY <2>1 DEF OnPanel, TypeOK
    <2> QED
      BY <2>1, <2>2, <2>3, StaysAccounted
  <1>15. ASSUME NEW u \in Users, ChangeFacts(u) PROVE Accounted'
    <2>1. rows' = rows /\ m' = m /\ \E f : panel' = [panel EXCEPT ![u] = f] /\ panel[u] # "gone"
      BY <1>15 DEF ChangeFacts, tableVars
    <2>2. OnPanel' \subseteq OnPanel
      BY <2>1 DEF OnPanel, TypeOK
    <2> QED
      BY <2>1, <2>2, StaysAccounted
  <1>16. ASSUME NEW u \in Users, Store(u) \/ Edit(u) PROVE Accounted'
    <2>1. PICK row : rows' = [rows EXCEPT ![u] = row] /\ row.at = "new"
      <3> DEFINE stored == Refreshed(rows[u], fetch[u])
                 edited == [facts |-> IF HasRow(u) THEN rows[u].facts ELSE "blank", local |-> TRUE, at |-> "new"]
      <3>1. stored.at = "new" /\ edited.at = "new"
        BY DEF Refreshed
      <3>2. rows' = [rows EXCEPT ![u] = stored] \/ rows' = [rows EXCEPT ![u] = edited]
        BY <1>16 DEF Store, Edit, WriteRow
      <3> HIDE DEF stored, edited
      <3> QED
        BY <3>1, <3>2
    <2>2. m' = m /\ panel' = panel
      BY <1>16 DEF Store, Edit
    <2>3. \A v \in Users : rows'[v] = rows[v] \/ rows'[v].at = "new"
      BY <2>1 DEF TypeOK
    <2> QED
      BY <2>2, <2>3, StaysAccounted DEF OnPanel
  <1>17. CASE Outside
    BY <1>13, <1>14, <1>15, <1>16, <1>17, <1>f DEF Outside, QueueUnknown, Answer, FetchFails, tableVars
  <1> QED
    BY <1>1, <1>2, <1>3, <1>4, <1>5, <1>6, <1>7, <1>8, <1>9, <1>10, <1>11, <1>12, <1>17, StepKinds
    DEF Mirror, MirrorFails, Publish

\* For any users, page size and scenarios: a scheduled mirror starts only while it is due
\* and nobody collects, and a mirror that reports success has left no row whose user was
\* not on the panel since the snapshot, unless somebody else has written it since.
THEOREM MirrorsRight == Spec => MirrorRight
  <1> DEFINE Inv == TypeOK /\ Owned /\ Kept /\ TurnHeld /\ Accounted
  <1>1. Init => Inv
    <2>1. Init => TurnHeld /\ Accounted
      BY NoMirrorType DEF Init, NoMirror, TurnHeld, Accounted, Since
    <2> QED
      BY <2>1, InitType, InitKept
  <1>2. Inv /\ [Next]_vars => Inv'
    BY StepType, StepWhole, StepMirrorFacts, StepTurn, StepAccounts DEF Kept
  <1>3. Inv /\ [Next]_vars => TakesTurns /\ LeavesNoOrphan
    BY StartsInTurn DEF LeavesNoOrphan, Succeeds, Accounted, Settled
  <1> HIDE DEF Inv
  <1>4. Spec => [][TakesTurns /\ LeavesNoOrphan]_vars
    BY <1>1, <1>2, <1>3, PTL DEF Spec
  <1>5. QED
    BY <1>4 DEF MirrorRight

---------------------------------------------------------------------------
(* PanelRequests.                                                          *)


\* An open breaker has been open for no longer than any probe has been under way:
\* what opened it happened after the probe was let through.
OpenedSince ==
  SingleProbe /\ state = "open" => \A r \in Requests : P!Probing(r) => age <= req[r].age

RequestsInv == P!TypeOK /\ P!TrippedExactly /\ P!AvailabilityExact /\ P!OneProbe /\ OpenedSince

\* A capped counter stays within its cap and compares with it like the true count.
LEMMA UpToBound ==
  ASSUME NEW limit \in Nat, NEW n \in Nat
  PROVE  P!UpTo(limit, n) \in 0..limit /\ P!UpTo(limit, n) <= n /\ (P!UpTo(limit, n) < limit <=> n < limit)
BY DEF P!UpTo

\* Every step of panel_request, of an availability check and of the clock keeps
\* the inductive invariant.
LEMMA RequestsStep == RequestsInv /\ [P!Next]_P!vars => RequestsInv'
<1> SUFFICES ASSUME RequestsInv, [P!Next]_P!vars PROVE RequestsInv'
  OBVIOUS
<1> USE RequestsAssumption DEF RequestsInv, P!Idle, P!Finish, P!Again
<1>u. /\ \A n \in Nat : P!UpTo(Threshold, n) \in 0..Threshold /\ (P!UpTo(Threshold, n) < Threshold <=> n < Threshold)
      /\ \A n \in Nat : P!UpTo(Unavailable, n) \in 0..Unavailable /\ (P!UpTo(Unavailable, n) < Unavailable <=> n < Unavailable)
      /\ \A n \in Nat : P!UpTo(Recovery, n) \in 0..Recovery /\ P!UpTo(Recovery, n) <= n
  BY UpToBound
<1> DEFINE Breaker == /\ state \in {"closed", "open", "half_open"}
                      /\ failures \in 0..Threshold
                      /\ age \in 0..Recovery
           Health == refused \in 0..Unavailable /\ available \in BOOLEAN
           Req == req \in [Requests -> [pc : {"idle", "sent", "limited", "wait"}, left : 0..MaxRetries,
                                        probe : BOOLEAN, age : 0..Span]]
<1>f. P!RecordFailure => Breaker' /\ P!TrippedExactly' /\ (state' = "open" => (state = "open" /\ age' = age) \/ age' = 0)
  BY <1>u DEF P!RecordFailure, P!TypeOK, P!TrippedExactly
<1>s. P!RecordSuccess => Breaker' /\ P!TrippedExactly' /\ state' = "closed"
  BY DEF P!RecordSuccess, P!TypeOK, P!TrippedExactly
<1>r. P!ReleaseProbe => Breaker' /\ P!TrippedExactly' /\ (state' = "open" => (state = "open" /\ age' = age) \/ age' = 0)
  BY DEF P!ReleaseProbe, P!TypeOK, P!TrippedExactly
<1>n. UNCHANGED P!breakerVars => Breaker' /\ P!TrippedExactly' /\ (state' = "open" => state = "open" /\ age' = age)
  BY DEF P!breakerVars, P!TypeOK, P!TrippedExactly
<1>c. P!ConnectionSuccess => Health' /\ P!AvailabilityExact'
  BY DEF P!ConnectionSuccess, P!AvailabilityExact
<1>x. P!ConnectionFailure => Health' /\ P!AvailabilityExact'
  <2> SUFFICES ASSUME P!ConnectionFailure PROVE Health' /\ P!AvailabilityExact'
    OBVIOUS
  <2>1. refused' \in 0..Unavailable /\ (refused' < Unavailable <=> refused + 1 < Unavailable)
    BY <1>u DEF P!ConnectionFailure, P!TypeOK
  <2>2. refused + 1 < Unavailable => refused < Unavailable
    BY DEF P!TypeOK
  <2>3. available' \in BOOLEAN /\ (available' <=> available /\ refused + 1 < Unavailable)
    BY Zenon DEF P!ConnectionFailure
  <2> QED
    BY <2>1, <2>2, <2>3, Zenon DEF P!AvailabilityExact
<1>h. UNCHANGED P!healthVars => Health' /\ P!AvailabilityExact'
  BY DEF P!healthVars, P!AvailabilityExact, P!TypeOK
<1>q. ASSUME NEW r \in Requests, P!Attempt(r)
      PROVE  Req' /\ \A s \in Requests : P!Probing(s)' => P!Probing(s) /\ req'[s].age = req[s].age
  <2>1. CASE P!Finish(r)
    BY <2>1 DEF P!TypeOK, P!Probing
  <2>2. CASE P!Again(r) /\ req[r].pc # "idle"
    <3>1. CASE req[r].left > 0
      BY <2>2, <3>1 DEF P!TypeOK, P!Probing
    <3>2. CASE ~(req[r].left > 0)
      BY <2>1, <2>2, <3>2
    <3> QED
      BY <3>1, <3>2
  <2>3. CASE P!RateLimited(r)
    BY <2>3 DEF P!RateLimited, P!TypeOK, P!Probing
  <2>4. CASE P!Retry(r)
    BY <2>4 DEF P!Retry, P!TypeOK, P!Probing
  <2> QED
    BY <1>q, <2>1, <2>2, <2>3, <2>4 DEF P!Attempt, P!Answered, P!Rested, P!ServerError, P!NetworkError, P!OtherError, P!Cancelled, P!CancelledWaiting
<1>b. ASSUME NEW r \in Requests, P!Attempt(r)
      PROVE  /\ Breaker' /\ P!TrippedExactly' /\ Health' /\ P!AvailabilityExact'
             /\ state' = "open" => (state = "open" /\ age' = age) \/ age' = 0
  BY <1>b, <1>f, <1>s, <1>r, <1>n, <1>c, <1>x, <1>h
     DEF P!Attempt, P!Answered, P!RateLimited, P!Rested, P!ServerError, P!NetworkError, P!OtherError, P!Cancelled, P!CancelledWaiting, P!Retry
<1>1. ASSUME NEW r \in Requests, P!Attempt(r) PROVE RequestsInv'
  <2>1. P!TypeOK'
    BY <1>1, <1>q, <1>b DEF P!TypeOK
  <2>2. P!OneProbe'
    BY <1>1, <1>q DEF P!OneProbe
  <2>3. OpenedSince'
    BY <1>1, <1>q, <1>b DEF OpenedSince, P!TypeOK, P!Probing
  <2> QED
    BY <1>1, <1>b, <2>1, <2>2, <2>3
<1>2. ASSUME NEW r \in Requests, P!Start(r) PROVE RequestsInv'
  <2>1. P!TypeOK'
    BY <1>2, <1>h DEF P!Start, P!Allow, P!TypeOK, P!breakerVars, P!healthVars
  <2>2. P!TrippedExactly' /\ P!AvailabilityExact'
    BY <1>2, <1>h DEF P!Start, P!Allow, P!TypeOK, P!TrippedExactly, P!breakerVars
  <2>3. ASSUME SingleProbe, state = "open", age >= Recovery PROVE \A s \in Requests : ~P!Probing(s)
    BY <2>3, RequestsAssumption DEF OpenedSince, P!TypeOK, P!Probing
  <2>4. \A s \in Requests \ {r} : P!Probing(s)' = P!Probing(s)
    BY <1>2 DEF P!Start, P!Probing, P!TypeOK
  <2>a. req'[r].probe = (state # "closed")
    BY <1>2 DEF P!Start, P!TypeOK
  <2>b. SingleProbe => state = "closed" \/ (state = "open" /\ age >= Recovery)
    BY <1>2 DEF P!Start, P!Allow
  <2>5. SingleProbe => (state = "closed" /\ ~P!Probing(r)') \/ (state = "open" /\ age >= Recovery)
    BY <2>a, <2>b, Zenon DEF P!Probing
  <2>6. P!OneProbe'
    BY <2>3, <2>4, <2>5 DEF P!OneProbe
  <2>7. state' # "open"
    BY <1>2 DEF P!Start, P!Allow, P!TypeOK, P!breakerVars
  <2> QED
    BY <2>1, <2>2, <2>6, <2>7 DEF OpenedSince
<1>3. ASSUME NEW r \in Requests, P!Deferred(r) PROVE RequestsInv'
  BY <1>3 DEF P!Deferred, P!Deny, P!TypeOK, P!TrippedExactly, P!AvailabilityExact, P!OneProbe, OpenedSince, P!Probing, P!breakerVars, P!healthVars
<1>4. CASE P!CheckAvailability
  <2>1. Health' /\ P!AvailabilityExact'
    BY <1>4, <1>c, <1>x DEF P!CheckAvailability
  <2> QED
    BY <1>4, <2>1 DEF P!CheckAvailability, P!TypeOK, P!TrippedExactly, P!OneProbe, OpenedSince, P!Probing, P!breakerVars
<1>5. CASE P!Tick
  <2>1. P!TypeOK'
    BY <1>5, <1>u DEF P!Tick, P!TypeOK, P!healthVars
  <2>2. P!TrippedExactly' /\ P!AvailabilityExact'
    BY <1>5 DEF P!Tick, P!TrippedExactly, P!AvailabilityExact, P!healthVars
  <2>3. \A s \in Requests : P!Probing(s)' => P!Probing(s) /\ req'[s].age = req[s].age + 1
    BY <1>5 DEF P!Tick, P!Probing, P!TypeOK
  <2>4. P!OneProbe'
    BY <2>3 DEF P!OneProbe
  <2>5. age' <= age + 1 /\ state' = state
    BY <1>5, <1>u DEF P!Tick, P!TypeOK
  <2>6. OpenedSince'
    BY <2>1, <2>3, <2>5 DEF OpenedSince, P!TypeOK
  <2> QED
    BY <2>1, <2>2, <2>4, <2>6
<1>6. CASE UNCHANGED P!vars
  BY <1>6 DEF P!vars, P!TypeOK, P!TrippedExactly, P!AvailabilityExact, P!OneProbe, OpenedSince, P!Probing, P!breakerVars, P!healthVars
<1> QED
  BY <1>1, <1>2, <1>3, <1>4, <1>5, <1>6 DEF P!Next

\* The inductive invariant holds from the start.
LEMMA RequestsBegin == P!Init => RequestsInv
BY RequestsAssumption DEF P!Init, RequestsInv, P!Idle, P!TypeOK, P!TrippedExactly, P!AvailabilityExact, P!OneProbe, OpenedSince, P!Probing

\* However the results of any number of concurrent requests, probes and
\* cancellations interleave, the breaker passes everything exactly while fewer
\* than Threshold failures in a row are known, and record_result and release_probe
\* never leave it half-open or open with a count below the threshold.
THEOREM BreakerFollowsFailures == P!Spec => []TrippedExactly
<1>1. RequestsInv => P!TrippedExactly
  BY DEF RequestsInv
<1> QED
  BY RequestsBegin, RequestsStep, <1>1, PTL DEF P!Spec, TrippedExactly

\* The availability flag the enable loop reads says exactly that the last
\* Unavailable connections failed, whoever recorded them.
THEOREM AvailabilityFollowsConnections == P!Spec => []AvailabilityExact
<1>1. RequestsInv => P!AvailabilityExact
  BY DEF RequestsInv
<1> QED
  BY RequestsBegin, RequestsStep, <1>1, PTL DEF P!Spec, AvailabilityExact

\* The online statistics never have two probes under way, provided a request ends
\* before the recovery time is over.
THEOREM SingleProbeAdmitted == P!Spec => []P!OneProbe
<1>1. RequestsInv => P!OneProbe
  BY DEF RequestsInv
<1> QED
  BY RequestsBegin, RequestsStep, <1>1, PTL DEF P!Spec

---------------------------------------------------------------------------
(* ApiSource.                                                              *)

\* No change of a cycle undoes another one.
OneChange == MaxChanges <= 1

Again == {"again", "again_nodes", "again_topology", "again_details"}

Replies ==
  [st : {"none", "ok", "not_found", "invalid", "failed"}, maps : SUBSET Nodes, odd : SUBSET Nodes, ips : SUBSET Nodes]

\* A cycle, as far as the proofs need its type.
Shape(c) ==
  /\ DOMAIN c = {"pc", "cfg", "adm", "gen", "up", "reach", "want", "flagged", "todo", "asked", "ans", "up2", "reach2",
                 "need", "unknown", "partial", "known", "count", "outcome", "who"}
  /\ c.ans \in [Queried -> Replies] /\ c.want \in [Queried -> A!Groups \cup {"none"}]
  /\ c.count \in [Queried -> SUBSET Nodes] /\ c.need \in [Queried -> SUBSET Nodes]
  /\ c.up \subseteq Nodes

Histories ==
  [steady : [Queried -> SUBSET Nodes], moved : SUBSET Queried, rewired : SUBSET A!Groups, changes : Nat, swapped : BOOLEAN]

\* The types of what the panel and the cycle hold.
PanelType == /\ up \subseteq Nodes /\ reach \in [A!Groups -> SUBSET Nodes] /\ group \in [Queried -> A!Groups \cup {"gone"}]
             /\ since \in [Queried -> [Nodes -> Nat]] /\ asked \in [Queried -> 0..Freshness]
HealthType == health \in [dead : Nat, same : BOOLEAN, bad : Nat]
CycleType == Shape(cyc)
HistoryType == hist \in Histories

\* What a cycle is before it begins.
LEMMA NoCycleShape ==
  /\ Shape(A!NoCycle)
  /\ A!NoCycle.pc = "idle" /\ ~A!NoCycle.cfg /\ A!NoCycle.asked = {} /\ A!NoCycle.who = {}
  /\ A!NoCycle.ans = [u \in Queried |-> A!NoAnswer]
  BY DEF A!NoCycle, Shape, Replies, A!NoAnswer, A!Nothing, A!Groups

\* No history is a history.
LEMMA NoHistoryType == A!NoHistory \in Histories
  BY DEF A!NoHistory, Histories, A!Nothing

\* The first state is well typed.
LEMMA SourceTypeBegin == A!Init => PanelType /\ HealthType /\ CycleType /\ HistoryType
  <1> SUFFICES ASSUME A!Init PROVE PanelType /\ HealthType /\ CycleType /\ HistoryType
    OBVIOUS
  <1>1. PanelType
    BY SourceAssumption DEF A!Init, PanelType, A!Groups, A!Old
  <1>2. HealthType
    BY DEF A!Init, HealthType
  <1> QED
    BY <1>1, <1>2, NoCycleShape, NoHistoryType DEF A!Init, CycleType, HistoryType

\* What remains of the ghost is well typed.
LEMMA LastingType ==
  ASSUME HistoryType, NEW g, NEW r, NEW nodes, NEW a
  PROVE  A!Lasting(g, r, nodes, a) \in [Queried -> SUBSET Nodes]
  BY DEF A!Lasting, Histories, HistoryType

\* An answer is a reply.
LEMMA AnswersType == ASSUME PanelType, NEW u \in Queried PROVE A!Answers(u) \subseteq Replies
  BY DEF A!Answers, Replies, PanelType

\* The panel keeps its types.
LEMMA PanelTypeStep ==
  PanelType /\ [A!Next]_(A!vars) => PanelType'
  <1> SUFFICES ASSUME PanelType, [A!Next]_(A!vars) PROVE PanelType'
    OBVIOUS
  <1>1. CASE A!Tick
    <2>1. since' \in [Queried -> [Nodes -> Nat]]
      BY <1>1, SourceAssumption DEF A!Tick, PanelType, A!Old
    <2>2. asked' \in [Queried -> 0..Freshness]
      BY <1>1, SourceAssumption DEF A!Tick, PanelType
    <2> QED
      BY <1>1, <2>1, <2>2 DEF A!Tick, PanelType
  <1>2. ASSUME NEW u \in Moving, NEW n \in Nodes, A!Connect(u, n) PROVE PanelType'
    BY <1>2, SourceAssumption DEF A!Connect, PanelType
  <1>3. ASSUME NEW n \in Nodes, A!NodeChanges(n) PROVE PanelType'
    BY <1>3 DEF A!NodeChanges, PanelType
  <1>4. ASSUME NEW u \in Moving, NEW g \in A!Groups \cup {"gone"}, A!Regroup(u, g) PROVE PanelType'
    BY <1>4, SourceAssumption DEF A!Regroup, PanelType
  <1>5. ASSUME NEW g \in A!Groups, A!Rewire(g) PROVE PanelType'
    BY <1>5 DEF A!Rewire, PanelType
  <1>6. ASSUME NEW u \in Queried, A!Ask(u) \/ A!Recheck(u)
      PROVE PanelType'
    <2>1. asked' = [asked EXCEPT ![u] = 0] /\ UNCHANGED A!panelVars
      BY <1>6 DEF A!Ask, A!Recheck
    <2> QED
      BY <2>1, SourceAssumption DEF PanelType, A!panelVars
  <1>7. CASE UNCHANGED A!vars
    BY <1>7 DEF A!vars, A!panelVars, PanelType
  <1>8. CASE A!Load \/ A!Begin \/ A!Superseded \/ A!ReadNodes \/ A!ReadTopology \/ A!Candidates \/ A!EndFetch \/
             A!Members \/ A!Publish
    BY <1>8
       DEF A!Load, A!Begin, A!Superseded, A!ReadNodes, A!ReadTopology, A!Candidates, A!EndFetch, A!Members,
           A!Publish, PanelType, A!panelVars
  <1>9. CASE A!Account \/ A!SaveFallback \/ A!Pop \/ A!RecheckNodes \/ A!RecheckTopology \/ A!EndCycle \/
             A!CollectionFails \/ A!SaveFails \/ A!RecheckFails \/ A!Settings \/ A!TopicsChange \/ A!Watch
    BY <1>9
       DEF A!Account, A!SaveFallback, A!Pop, A!RecheckNodes, A!RecheckTopology, A!EndCycle, A!CollectionFails,
           A!SaveFails, A!RecheckFails, A!Settings, A!TopicsChange, A!Watch, PanelType, A!panelVars
  <1>10. ASSUME NEW u \in Queried,
                A!Answer(u) \/ A!Clear(u) \/ A!Punish(u) \/ A!RecheckAnswer(u) \/ A!RecheckDetails(u) \/ A!Deferred(u)
      PROVE PanelType'
    BY <1>10
       DEF A!Answer, A!Clear, A!Punish, A!RecheckAnswer, A!RecheckDetails, A!Deferred, PanelType, A!panelVars
  <1> QED
    BY <1>1, <1>2, <1>3, <1>4, <1>5, <1>6, <1>7, <1>8, <1>9, <1>10 DEF A!Next, A!Cycle, A!Faults

\* The counts of failures stay numbers.
LEMMA HealthTypeStep ==
  HealthType /\ [A!Next]_(A!vars) => HealthType'
  <1> SUFFICES ASSUME HealthType, [A!Next]_(A!vars) PROVE HealthType'
    OBVIOUS
  <1>1. CASE A!Load \/ A!Watch
    <2>1. health' = A!Retired
      BY <1>1 DEF A!Load, A!Watch
    <2> QED
      BY <2>1 DEF HealthType, A!Retired
  <1>2. CASE A!Account
    <2>1. health.dead \in Nat /\ health.bad \in Nat /\ A!Streak \in Nat
      BY DEF HealthType, A!Streak
    <2>2. A!Up(A!Streak) \in Nat /\ A!Up(health.bad) \in Nat
      BY <2>1 DEF A!Up
    <2>3. PICK d \in Nat, b \in Nat : health' = [dead |-> d, same |-> TRUE, bad |-> b]
      BY <1>2, <2>2 DEF A!Account
    <2> QED
      BY <2>3 DEF HealthType
  <1>3. CASE A!SaveFails
    BY <1>3 DEF A!SaveFails, HealthType
  <1>4. CASE A!SaveFallback
    BY <1>4 DEF A!SaveFallback, HealthType
  <1>5. CASE A!Settings
    BY <1>5 DEF A!Settings, HealthType
  <1>6. CASE UNCHANGED A!vars
    BY <1>6 DEF A!vars, HealthType
  <1>7. CASE A!Begin \/ A!Superseded \/ A!ReadNodes \/ A!ReadTopology \/ A!Candidates \/ A!EndFetch \/ A!Members \/
             A!Publish
    BY <1>7
       DEF A!Begin, A!Superseded, A!ReadNodes, A!ReadTopology, A!Candidates, A!EndFetch, A!Members, A!Publish,
           HealthType
  <1>8. CASE A!Pop \/ A!RecheckNodes \/ A!RecheckTopology \/ A!EndCycle \/ A!CollectionFails \/ A!RecheckFails \/
             A!TopicsChange \/ A!Tick
    BY <1>8
       DEF A!Pop, A!RecheckNodes, A!RecheckTopology, A!EndCycle, A!CollectionFails, A!RecheckFails,
           A!TopicsChange, A!Tick, HealthType
  <1>9. ASSUME NEW u \in Queried,
               A!Ask(u) \/ A!Answer(u) \/ A!Clear(u) \/ A!Punish(u) \/ A!Recheck(u) \/
               A!RecheckAnswer(u) \/ A!RecheckDetails(u) \/ A!Deferred(u)
      PROVE HealthType'
    BY <1>9
       DEF A!Ask, A!Answer, A!Clear, A!Punish, A!Recheck, A!RecheckAnswer, A!RecheckDetails, A!Deferred,
           HealthType
  <1>10. ASSUME NEW u, NEW n, A!Connect(u, n) \/ A!NodeChanges(n) \/ A!Regroup(u, n) \/ A!Rewire(n)
         PROVE  HealthType'
    BY <1>10 DEF A!Connect, A!NodeChanges, A!Regroup, A!Rewire, HealthType
  <1> QED
    BY <1>1, <1>2, <1>3, <1>4, <1>5, <1>6, <1>7, <1>8, <1>9, <1>10 DEF A!Next, A!Cycle, A!Faults

\* The ghosts are well typed.
LEMMA HistoryTypeStep ==
  PanelType /\ HistoryType /\ [A!Next]_(A!vars) => HistoryType'
  <1> SUFFICES ASSUME PanelType, HistoryType, [A!Next]_(A!vars) PROVE HistoryType'
    OBVIOUS
  <1>1. CASE A!Begin
    <2> DEFINE open == [u \in Queried |-> {n \in up : since[u][n] = 0 /\ group[u] # "gone" /\ n \in reach[group[u]]}]
    <2>1. open \in [Queried -> SUBSET Nodes]
      BY DEF PanelType
    <2>2. hist' = hist \/ hist' = [A!NoHistory EXCEPT !.steady = open]
      BY <1>1 DEF A!Begin
    <2> HIDE DEF open
    <2> QED
      BY <2>1, <2>2, NoHistoryType DEF HistoryType, Histories
  <1>2. CASE A!Candidates
    BY <1>2 DEF A!Candidates, HistoryType, Histories
  <1>3. CASE A!Tick
    <2> PICK a : hist' = [hist EXCEPT !.steady = A!Lasting(group, reach, up, a)]
      BY <1>3 DEF A!Tick
    <2> QED
      BY LastingType DEF HistoryType, Histories
  <1>4. ASSUME NEW n \in Nodes, A!NodeChanges(n) PROVE HistoryType'
    BY <1>4, LastingType DEF A!NodeChanges, HistoryType, Histories
  <1>5. ASSUME NEW u \in Moving, NEW g \in A!Groups \cup {"gone"}, A!Regroup(u, g) PROVE HistoryType'
    <2> DEFINE kept == A!Lasting(group', reach, up, since)
    <2>1. kept \in [Queried -> SUBSET Nodes]
      BY LastingType
    <2> HIDE DEF kept
    <2>2. PICK moved \in {hist.moved, hist.moved \cup {u}} :
            hist' = [hist EXCEPT !.steady = kept, !.changes = @ + 1, !.moved = moved]
      BY <1>5 DEF A!Regroup, kept
    <2>3. moved \in SUBSET Queried /\ hist.changes + 1 \in Nat
      BY SourceAssumption DEF HistoryType, Histories
    <2> QED
      BY <2>1, <2>2, <2>3 DEF HistoryType, Histories
  <1>6. ASSUME NEW g \in A!Groups, A!Rewire(g) PROVE HistoryType'
    <2> DEFINE kept == A!Lasting(group, reach', up, since)
    <2>1. kept \in [Queried -> SUBSET Nodes]
      BY LastingType
    <2> HIDE DEF kept
    <2>2. PICK wired \in {hist.rewired, hist.rewired \cup {g}} :
            hist' = [hist EXCEPT !.steady = kept, !.changes = @ + 1, !.rewired = wired]
      BY <1>6 DEF A!Rewire, kept
    <2>3. wired \in SUBSET A!Groups /\ hist.changes + 1 \in Nat
      BY DEF HistoryType, Histories
    <2> QED
      BY <2>1, <2>2, <2>3 DEF HistoryType, Histories
  <1>7. CASE UNCHANGED A!vars
    BY <1>7 DEF A!vars, HistoryType
  <1>8. CASE A!Load \/ A!Superseded \/ A!ReadNodes \/ A!ReadTopology \/ A!EndFetch \/ A!Members \/ A!Publish
    BY <1>8 DEF A!Load, A!Superseded, A!ReadNodes, A!ReadTopology, A!EndFetch, A!Members, A!Publish, HistoryType
  <1>9. CASE A!Account \/ A!SaveFallback \/ A!Pop \/ A!RecheckNodes \/ A!RecheckTopology \/ A!EndCycle \/
             A!CollectionFails \/ A!SaveFails \/ A!RecheckFails \/ A!Settings \/ A!TopicsChange \/ A!Watch
    BY <1>9
       DEF A!Account, A!SaveFallback, A!Pop, A!RecheckNodes, A!RecheckTopology, A!EndCycle, A!CollectionFails,
           A!SaveFails, A!RecheckFails, A!Settings, A!TopicsChange, A!Watch, HistoryType
  <1>10. ASSUME NEW u \in Queried,
                A!Ask(u) \/ A!Answer(u) \/ A!Clear(u) \/ A!Punish(u) \/ A!Recheck(u) \/
                A!RecheckAnswer(u) \/ A!RecheckDetails(u) \/ A!Deferred(u)
      PROVE HistoryType'
    BY <1>10
       DEF A!Ask, A!Answer, A!Clear, A!Punish, A!Recheck, A!RecheckAnswer, A!RecheckDetails, A!Deferred,
           HistoryType
  <1>11. ASSUME NEW u \in Moving, NEW n \in Nodes, A!Connect(u, n) PROVE HistoryType'
    BY <1>11 DEF A!Connect, HistoryType
  <1> QED
    BY <1>1, <1>2, <1>3, <1>4, <1>5, <1>6, <1>7, <1>8, <1>9, <1>10, <1>11 DEF A!Next, A!Cycle, A!Faults

\* What becomes of a cycle whose list of users has been read.
Listing(listed, flagged) ==
  cyc' = [cyc EXCEPT !.pc = IF listed = {} THEN "nodes2" ELSE "fetch", !.flagged = flagged, !.todo = listed,
                     !.want = [u \in Queried |-> IF u \in listed THEN group[u] ELSE "none"]]

\* The users that are listed are wanted, the nodes and the topology stay as they were read.
LEMMA ListTaken ==
  ASSUME CycleType, NEW listed, NEW flagged, Listing(listed, flagged)
  PROVE  /\ cyc'.pc = IF listed = {} THEN "nodes2" ELSE "fetch"
         /\ cyc'.flagged = flagged /\ cyc'.todo = listed
         /\ \A u \in Queried : cyc'.want[u] = IF u \in listed THEN group[u] ELSE "none"
         /\ cyc'.ans = cyc.ans /\ cyc'.asked = cyc.asked /\ cyc'.who = cyc.who /\ cyc'.reach = cyc.reach
         /\ cyc'.up = cyc.up
  <1> DEFINE want == [u \in Queried |-> IF u \in listed THEN group[u] ELSE "none"]
             next == IF listed = {} THEN "nodes2" ELSE "fetch"
  <1>1. cyc' = [cyc EXCEPT !.pc = next, !.flagged = flagged, !.todo = listed, !.want = want]
    BY DEF Listing
  <1>2. \A u \in Queried : want[u] = IF u \in listed THEN group[u] ELSE "none"
    OBVIOUS
  <1> HIDE DEF want, next
  <1>3. /\ cyc'.pc = next /\ cyc'.flagged = flagged /\ cyc'.todo = listed /\ cyc'.want = want
        /\ cyc'.ans = cyc.ans /\ cyc'.asked = cyc.asked /\ cyc'.who = cyc.who /\ cyc'.reach = cyc.reach
        /\ cyc'.up = cyc.up
    BY <1>1 DEF CycleType, Shape
  <1> QED
    BY <1>2, <1>3 DEF next

\* The list is complete, or flagged, or a swap has hidden what it misses.
LEMMA ListRead ==
  ASSUME A!Candidates, HistoryType
  PROVE  \E listed \in SUBSET A!Online, flagged \in BOOLEAN :
           /\ cyc.pc = "list"
           /\ cyc' = A!NoCycle \/ Listing(listed, flagged)
           /\ listed = A!Online \/ flagged \/ hist'.swapped
           /\ hist'.steady = hist.steady /\ hist'.moved = hist.moved /\ hist'.rewired = hist.rewired
           /\ hist'.changes = hist.changes
           /\ UNCHANGED <<A!panelVars, asked, health>>
  <1>1. PICK listed \in SUBSET A!Online, flagged \in BOOLEAN :
          /\ A!At("list")
          /\ cyc' = A!NoCycle \/ Listing(listed, flagged)
          /\ hist' = [hist EXCEPT !.swapped = ~flagged /\ listed # A!Online]
          /\ UNCHANGED <<A!panelVars, asked, health>>
    BY DEF A!Candidates, A!Over, Listing
  <1>2. hist'.swapped = (~flagged /\ listed # A!Online) /\ hist'.steady = hist.steady /\ hist'.moved = hist.moved
        /\ hist'.rewired = hist.rewired /\ hist'.changes = hist.changes
    BY <1>1 DEF HistoryType, Histories
  <1>3. listed = A!Online \/ flagged \/ hist'.swapped
    BY <1>2
  <1> QED
    BY <1>1, <1>2, <1>3 DEF A!At

\* What a sample needs and counts are nodes.
LEMMA SampleType ==
  ASSUME CycleType, NEW us
  PROVE  /\ [u \in Queried |-> IF u \in us THEN A!Stable(u) ELSE {}] \in [Queried -> SUBSET Nodes]
         /\ [u \in Queried |-> IF u \in us THEN cyc.ans[u].ips \cap A!Stable(u) ELSE {}] \in [Queried -> SUBSET Nodes]
  <1>1. \A u \in Queried : cyc.ans[u].ips \subseteq Nodes
    BY DEF CycleType, Shape, Replies
  <1> QED
    BY <1>1 DEF A!Stable, CycleType, Shape

\* What becomes of a cycle that has read the memberships.
Sampling(now, flagged) ==
  \/ cyc' = [cyc EXCEPT !.pc = "account", !.outcome = "skipped"]
  \/ cyc' = [cyc EXCEPT !.pc = "publish", !.unknown = A!Unknown(now),
                        !.partial = {u \in A!Targets \ A!Unknown(now) : A!Stable(u) # A!Applicable(u)},
                        !.known = IF A!AbsenceComplete(flagged) THEN Queried ELSE A!Targets \ A!Unknown(now),
                        !.need = [u \in Queried |-> IF u \in A!Targets \ A!Unknown(now) THEN A!Stable(u) ELSE {}],
                        !.count = [u \in Queried |-> IF u \in A!Targets \ A!Unknown(now)
                                                        THEN cyc.ans[u].ips \cap A!Stable(u) ELSE {}]]

\* Memberships are read as they are, or left out.
LEMMA MembersRead ==
  ASSUME A!Members
  PROVE  \E now, flagged :
           /\ cyc.pc = "members"
           /\ cyc' = A!NoCycle \/ Sampling(now, flagged)
           /\ \A u \in Queried : now[u] \in {group[u], "none"}
           /\ UNCHANGED <<A!panelVars, asked, health, hist>>
  <1>1. PICK listed \in SUBSET {u \in A!Targets : group[u] # "gone"}, flagged \in BOOLEAN :
          LET now == [u \in Queried |-> IF u \in listed THEN group[u] ELSE "none"]
          IN  /\ A!At("members")
              /\ cyc' = A!NoCycle \/ Sampling(now, flagged)
              /\ UNCHANGED <<A!panelVars, asked, health, hist>>
    BY DEF A!Members, Sampling
  <1> DEFINE now == [u \in Queried |-> IF u \in listed THEN group[u] ELSE "none"]
  <1>2. \A u \in Queried : now[u] \in {group[u], "none"}
    OBVIOUS
  <1> HIDE DEF now
  <1> WITNESS now, flagged
  <1> QED
    BY <1>1, <1>2 DEF A!At, now

\* The sample that is published, if there is one.
LEMMA SampleTaken ==
  ASSUME CycleType, NEW now, NEW flagged, Sampling(now, flagged)
  PROVE  /\ cyc'.ans = cyc.ans /\ cyc'.want = cyc.want /\ cyc'.who = cyc.who
         /\ \/ cyc'.pc = "account" /\ cyc'.outcome = "skipped"
            \/ /\ cyc'.pc = "publish" /\ cyc'.unknown = A!Unknown(now)
               /\ cyc'.known = IF A!AbsenceComplete(flagged) THEN Queried ELSE A!Targets \ A!Unknown(now)
               /\ \A u \in Queried : cyc'.need[u] = IF u \in A!Targets \ A!Unknown(now) THEN A!Stable(u) ELSE {}
               /\ \A u \in Queried :
                    cyc'.count[u] = IF u \in A!Targets \ A!Unknown(now) THEN cyc.ans[u].ips \cap A!Stable(u) ELSE {}
  <1>1. CASE cyc' = [cyc EXCEPT !.pc = "account", !.outcome = "skipped"]
    BY <1>1 DEF CycleType, Shape
  <1>2. CASE cyc' # [cyc EXCEPT !.pc = "account", !.outcome = "skipped"]
    <2> DEFINE us == A!Targets \ A!Unknown(now)
               need == [u \in Queried |-> IF u \in us THEN A!Stable(u) ELSE {}]
               count == [u \in Queried |-> IF u \in us THEN cyc.ans[u].ips \cap A!Stable(u) ELSE {}]
               partial == {u \in us : A!Stable(u) # A!Applicable(u)}
               known == IF A!AbsenceComplete(flagged) THEN Queried ELSE us
    <2>1. cyc' = [cyc EXCEPT !.pc = "publish", !.unknown = A!Unknown(now), !.partial = partial, !.known = known,
                             !.need = need, !.count = count]
      BY <1>2 DEF Sampling
    <2>2. /\ \A u \in Queried : need[u] = IF u \in us THEN A!Stable(u) ELSE {}
          /\ \A u \in Queried : count[u] = IF u \in us THEN cyc.ans[u].ips \cap A!Stable(u) ELSE {}
      OBVIOUS
    <2> HIDE DEF need, count, partial
    <2>3. /\ cyc'.ans = cyc.ans /\ cyc'.want = cyc.want /\ cyc'.who = cyc.who
          /\ cyc'.pc = "publish" /\ cyc'.unknown = A!Unknown(now) /\ cyc'.known = known
          /\ cyc'.need = need /\ cyc'.count = count
      BY <2>1 DEF CycleType, Shape
    <2> QED
      BY <2>2, <2>3
  <1> QED
    BY <1>1, <1>2

\* The cycle keeps its shape.
LEMMA CycleTypeStep ==
  PanelType /\ HistoryType /\ CycleType /\ [A!Next]_(A!vars) => CycleType'
  <1> SUFFICES ASSUME PanelType, HistoryType, CycleType, [A!Next]_(A!vars) PROVE CycleType'
    OBVIOUS
  <1>1. CASE A!Load
    BY <1>1, NoCycleShape DEF A!Load, CycleType, Shape
  <1>2. CASE A!Begin
    BY <1>2, NoCycleShape, ZenonT(40) DEF A!Begin, A!Over, CycleType, Shape
  <1>3. CASE A!ReadNodes
    BY <1>3 DEF A!ReadNodes, CycleType, Shape, PanelType
  <1>4. CASE A!ReadTopology
    BY <1>4 DEF A!ReadTopology, CycleType, Shape
  <1>5. CASE A!Candidates
    <2>1. CASE cyc' = A!NoCycle
      BY <2>1, NoCycleShape DEF CycleType
    <2>2. CASE cyc' # A!NoCycle
      <3>1. PICK listed \in SUBSET A!Online, flagged \in BOOLEAN : Listing(listed, flagged)
        BY <1>5, <2>2, ListRead
      <3>2. [u \in Queried |-> IF u \in listed THEN group[u] ELSE "none"] \in [Queried -> A!Groups \cup {"none"}]
        BY DEF A!Online, PanelType
      <3> QED
        BY <3>1, <3>2 DEF Listing, CycleType, Shape
    <2> QED
      BY <2>1, <2>2
  <1>6. ASSUME NEW u \in Queried, A!Ask(u) \/ A!Clear(u) \/ A!Punish(u) \/ A!Deferred(u)
      PROVE CycleType'
    BY <1>6 DEF A!Ask, A!Clear, A!Punish, A!Deferred, CycleType, Shape
  <1>7. ASSUME NEW u \in Queried, A!Answer(u)
      PROVE CycleType'
    <2>1. PICK a \in Replies : cyc' = [cyc EXCEPT !.asked = @ \ {u}, !.ans[u] = a]
      BY <1>7, AnswersType DEF A!Answer, Replies, A!NoAnswer
    <2> QED
      BY <2>1 DEF CycleType, Shape
  <1>8. CASE A!EndFetch \/ A!CollectionFails
    BY <1>8, ZenonT(40) DEF A!EndFetch, A!CollectionFails, CycleType, Shape
  <1>9. CASE A!Publish \/ A!Pop
    BY <1>9 DEF A!Publish, A!Pop, CycleType, Shape
  <1>10. CASE A!Members
    <2>1. CASE cyc' = A!NoCycle
      BY <2>1, NoCycleShape DEF CycleType
    <2>2. CASE cyc' # A!NoCycle
      <3>1. PICK now, flagged : Sampling(now, flagged)
        BY <1>10, <2>2, MembersRead
      <3> DEFINE us == A!Targets \ A!Unknown(now)
      <3>2. /\ [u \in Queried |-> IF u \in us THEN A!Stable(u) ELSE {}] \in [Queried -> SUBSET Nodes]
            /\ [u \in Queried |-> IF u \in us THEN cyc.ans[u].ips \cap A!Stable(u) ELSE {}] \in [Queried -> SUBSET Nodes]
        BY SampleType
      <3> QED
        BY <3>1, <3>2 DEF Sampling, CycleType, Shape
    <2> QED
      BY <2>1, <2>2
  <1>11. CASE A!Account
    BY <1>11, NoCycleShape DEF A!Account, A!Go, A!Over, CycleType, Shape
  <1>12. ASSUME NEW u \in Queried, A!Recheck(u)
      PROVE CycleType'
    BY <1>12 DEF A!Recheck, CycleType, Shape, A!NoAnswer, Replies
  <1>13. ASSUME NEW u \in Queried, A!RecheckAnswer(u)
      PROVE CycleType'
    BY <1>13, AnswersType DEF A!RecheckAnswer, CycleType, Shape
  <1>14. CASE A!RecheckNodes \/ A!RecheckTopology \/ A!RecheckFails
    BY <1>14, ZenonT(40) DEF A!RecheckNodes, A!RecheckTopology, A!RecheckFails, CycleType, Shape
  <1>15. ASSUME NEW u \in Queried, A!RecheckDetails(u)
      PROVE CycleType'
    BY <1>15 DEF A!RecheckDetails, CycleType, Shape, Replies
  <1>16. CASE A!Settings \/ A!TopicsChange \/ A!Watch
    BY <1>16 DEF A!Settings, A!TopicsChange, A!Watch, CycleType, Shape
  <1>17. CASE A!Superseded \/ A!SaveFallback \/ A!SaveFails \/ A!EndCycle
    BY <1>17, NoCycleShape DEF A!Superseded, A!SaveFallback, A!SaveFails, A!EndCycle, CycleType, A!Over
  <1>18. ASSUME NEW u, NEW n, A!Connect(u, n) \/ A!NodeChanges(n) \/ A!Regroup(u, n) \/ A!Rewire(n)
         PROVE  CycleType'
    BY <1>18 DEF A!Connect, A!NodeChanges, A!Regroup, A!Rewire, CycleType
  <1>19. CASE A!Tick
    BY <1>19 DEF A!Tick, CycleType
  <1>20. CASE UNCHANGED A!vars
    BY <1>20 DEF A!vars, CycleType
  <1> QED
    BY <1>1, <1>2, <1>3, <1>4, <1>5, <1>6, <1>7, <1>8, <1>9, <1>10, <1>11, <1>12, <1>13, <1>14, <1>15, <1>16,
       <1>17, <1>18, <1>19, <1>20
       DEF A!Next, A!Cycle, A!Faults

---------------------------------------------------------------------------
(* The fall-back to the logs.                                              *)

\* Failures that may lead to the logs have all been counted under the settings that hold.
FallbackInv ==
  /\ health.same => health.dead <= health.bad
  /\ cyc.pc = "save" /\ cyc.cfg => health.dead <= health.bad

\* Every step keeps the counts of failures in step.
LEMMA FallbackStep ==
  HistoryType /\ CycleType /\ HealthType /\ FallbackInv /\ [A!Next]_(A!vars) => FallbackInv' /\ A!FallbackEarned
  <1> SUFFICES ASSUME HistoryType, CycleType, HealthType, FallbackInv, [A!Next]_(A!vars)
      PROVE  FallbackInv' /\ A!FallbackEarned
    OBVIOUS
  <1>1. CASE A!Load
    <2>1. cyc'.pc = "turn" /\ health' = A!Retired
      BY <1>1, NoCycleShape DEF A!Load, Shape
    <2> QED
      BY <1>1, <2>1 DEF A!At, A!Load, FallbackInv, A!FallbackEarned, HealthType, A!Retired
  <1>2. CASE A!Watch
    <2>1. health' = [dead |-> 0, same |-> FALSE, bad |-> 0]
      BY <1>2 DEF A!Watch, A!Retired
    <2>2. cyc'.pc = cyc.pc
      BY <1>2 DEF A!Watch, CycleType, Shape
    <2> QED
      BY <2>1, <2>2 DEF FallbackInv, A!FallbackEarned, HealthType, A!At
  <1>3. CASE A!Account
    <2>1. health.dead \in Nat /\ health.bad \in Nat /\ A!Streak \in Nat /\ A!Streak <= health.bad
      BY DEF HealthType, A!Streak, FallbackInv
    <2>2. A!Up(A!Streak) \in Nat /\ A!Up(health.bad) \in Nat /\ A!Up(A!Streak) <= A!Up(health.bad)
      BY <2>1, SourceAssumption DEF A!Up
    <2>3. \/ health'.dead = A!Up(A!Streak) /\ health'.bad = A!Up(health.bad)
          \/ health'.dead = 0 /\ health'.bad = 0 /\ cyc'.pc # "save"
      BY <1>3, NoCycleShape DEF A!Account, A!Go, A!Over, CycleType, Shape
    <2>4. cyc'.pc = "save" => A!Up(A!Streak) >= DeadCycles
      BY <1>3, NoCycleShape DEF A!Account, A!Go, A!Over, CycleType, Shape
    <2> QED
      BY <2>2, <2>3, <2>4, SourceAssumption DEF FallbackInv, A!FallbackEarned
  <1>4. CASE A!SaveFails
    <2>1. cyc'.pc = "idle" /\ health'.dead = health.dead /\ health'.bad = health.bad /\ cyc.pc = "save" /\ cyc.cfg
      BY <1>4, NoCycleShape DEF A!SaveFails, A!Over, HealthType, A!At
    <2> QED
      BY <2>1 DEF FallbackInv, A!FallbackEarned, A!At
  <1>5. CASE A!SaveFallback
    <2>1. cyc'.pc = "idle" /\ health'.same = FALSE
      BY <1>5, NoCycleShape DEF A!SaveFallback, A!Over, HealthType
    <2> QED
      BY <2>1 DEF FallbackInv, A!FallbackEarned
  <1>6. CASE A!Settings
    <2>1. cyc'.cfg = FALSE /\ health'.same = FALSE /\ cyc'.pc = cyc.pc
      BY <1>6 DEF A!Settings, HealthType, CycleType, Shape
    <2> QED
      BY <2>1 DEF FallbackInv, A!FallbackEarned, A!At
  <1>7. CASE A!TopicsChange
    <2>1. cyc'.cfg = cyc.cfg /\ health' = health /\ cyc'.pc = cyc.pc
      BY <1>7 DEF A!TopicsChange, CycleType, Shape
    <2> QED
      BY <2>1 DEF FallbackInv, A!FallbackEarned, A!At
  <1>8. CASE A!Begin
    <2>1. cyc'.pc # "save" /\ health' = health
      BY <1>8, NoCycleShape DEF A!Begin, A!Over, CycleType, Shape
    <2> QED
      BY <2>1 DEF FallbackInv, A!FallbackEarned
  <1>9. CASE A!Superseded
    <2>1. cyc'.pc # "save" /\ health' = health
      BY <1>9, NoCycleShape DEF A!Superseded, A!Over, CycleType, Shape
    <2> QED
      BY <2>1 DEF FallbackInv, A!FallbackEarned
  <1>10. CASE A!ReadNodes
    <2>1. cyc'.pc # "save" /\ health' = health
      BY <1>10, NoCycleShape DEF A!ReadNodes, A!Over, CycleType, Shape
    <2> QED
      BY <2>1 DEF FallbackInv, A!FallbackEarned
  <1>11. CASE A!ReadTopology
    <2>1. cyc'.pc # "save" /\ health' = health
      BY <1>11, NoCycleShape DEF A!ReadTopology, A!Over, CycleType, Shape
    <2> QED
      BY <2>1 DEF FallbackInv, A!FallbackEarned
  <1>12. CASE A!EndFetch
    <2>1. cyc'.pc # "save" /\ health' = health
      BY <1>12, NoCycleShape DEF A!EndFetch, A!Over, CycleType, Shape
    <2> QED
      BY <2>1 DEF FallbackInv, A!FallbackEarned
  <1>13. CASE A!Publish
    <2>1. cyc'.pc # "save" /\ health' = health
      BY <1>13, NoCycleShape DEF A!Publish, A!Over, CycleType, Shape
    <2> QED
      BY <2>1 DEF FallbackInv, A!FallbackEarned
  <1>14. CASE A!CollectionFails
    <2>1. cyc'.pc # "save" /\ health' = health
      BY <1>14, NoCycleShape DEF A!CollectionFails, A!Over, CycleType, Shape
    <2> QED
      BY <2>1 DEF FallbackInv, A!FallbackEarned
  <1>15. CASE A!Pop
    <2>1. cyc'.pc # "save" /\ health' = health
      BY <1>15, NoCycleShape DEF A!Pop, A!Over, CycleType, Shape
    <2> QED
      BY <2>1 DEF FallbackInv, A!FallbackEarned
  <1>16. CASE A!RecheckNodes
    <2>1. cyc'.pc # "save" /\ health' = health
      BY <1>16, NoCycleShape DEF A!RecheckNodes, A!Over, CycleType, Shape
    <2> QED
      BY <2>1 DEF FallbackInv, A!FallbackEarned
  <1>17. CASE A!RecheckTopology
    <2>1. cyc'.pc # "save" /\ health' = health
      BY <1>17, NoCycleShape DEF A!RecheckTopology, A!Over, CycleType, Shape
    <2> QED
      BY <2>1 DEF FallbackInv, A!FallbackEarned
  <1>18. CASE A!EndCycle
    <2>1. cyc'.pc # "save" /\ health' = health
      BY <1>18, NoCycleShape DEF A!EndCycle, A!Over, CycleType, Shape
    <2> QED
      BY <2>1 DEF FallbackInv, A!FallbackEarned
  <1>19. CASE A!RecheckFails
    <2>1. cyc'.pc # "save" /\ health' = health
      BY <1>19, NoCycleShape DEF A!RecheckFails, A!Over, CycleType, Shape
    <2> QED
      BY <2>1 DEF FallbackInv, A!FallbackEarned
  <1>20. CASE A!Members
    <2>1. cyc'.pc # "save" /\ health' = health
      BY <1>20, NoCycleShape DEF A!Members, A!Over, CycleType, Shape
    <2> QED
      BY <2>1 DEF FallbackInv, A!FallbackEarned
  <1>21. CASE A!Candidates
    <2>1. cyc'.pc # "save" /\ health' = health
      BY <1>21, ListRead, ListTaken, NoCycleShape
    <2> QED
      BY <2>1 DEF FallbackInv, A!FallbackEarned
  <1>22. ASSUME NEW u \in Queried,
                A!Ask(u) \/ A!Answer(u) \/ A!Clear(u) \/ A!Punish(u) \/ A!Recheck(u) \/
                A!RecheckAnswer(u) \/ A!RecheckDetails(u) \/ A!Deferred(u)
      PROVE FallbackInv' /\ A!FallbackEarned
    <2>1. cyc'.pc # "save" /\ health' = health
      BY <1>22, ZenonT(40)
         DEF A!Ask, A!Answer, A!Clear, A!Punish, A!Recheck, A!RecheckAnswer, A!RecheckDetails, A!Deferred,
             CycleType, Shape, A!At
    <2> QED
      BY <2>1 DEF FallbackInv, A!FallbackEarned
  <1>23. CASE A!Tick
    BY <1>23 DEF A!Tick, FallbackInv, A!FallbackEarned, A!At
  <1>24. ASSUME NEW u, NEW n, A!Connect(u, n) \/ A!NodeChanges(n) \/ A!Regroup(u, n) \/ A!Rewire(n)
         PROVE  FallbackInv' /\ A!FallbackEarned
    BY <1>24 DEF A!Connect, A!NodeChanges, A!Regroup, A!Rewire, FallbackInv, A!FallbackEarned, A!At
  <1>25. CASE UNCHANGED A!vars
    BY <1>25 DEF A!vars, FallbackInv, A!FallbackEarned, A!At
  <1> QED
    BY <1>1, <1>2, <1>3, <1>4, <1>5, <1>6, <1>7, <1>8, <1>9, <1>10, <1>11, <1>12, <1>13, <1>14, <1>15, <1>16,
       <1>17, <1>18, <1>19, <1>20, <1>21, <1>22, <1>23, <1>24, <1>25
       DEF A!Next, A!Cycle, A!Faults

---------------------------------------------------------------------------
(* The addresses that are counted.                                         *)

\* An address seen by the latest request for a user, while that request is fresh: it was
\* open when the request began or, where the core lists recent ones, shortly before.
Recent(u, n) ==
  asked[u] < Freshness => IF n \in Live THEN since[u][n] <= asked[u] ELSE since[u][n] < asked[u] + Freshness

\* A sample waits to be judged.
Sampled == cyc.pc \in {"publish", "pop"} \/ (cyc.pc = "account" /\ cyc.outcome = "ready")

\* Nobody has been answered about before users are asked for, and nobody who is still to
\* be asked; what an answer lists and what a sample counts is recent, but for a user who
\* is being asked about again.
CountInv ==
  /\ cyc.pc \in {"idle", "turn", "nodes", "topology", "list"} =>
       cyc.asked = {} /\ \A u \in Queried : cyc.ans[u] = A!NoAnswer
  /\ cyc.pc = "fetch" => cyc.todo \cap cyc.asked = {} /\ \A u \in cyc.todo \cup cyc.asked : cyc.ans[u] = A!NoAnswer
  /\ \A u \in Queried : \A n \in cyc.ans[u].ips : Recent(u, n)
  /\ Sampled => \A u \in Queried : \A n \in cyc.count[u] : Recent(u, n)
  /\ cyc.pc \notin Again => cyc.who = {}
  /\ cyc.pc \in Again => \E u \in cyc.todo : cyc.who = {u}
  /\ cyc.pc \in {"judge"} \cup Again => \A u \in (Queried \cap cyc.todo) \ cyc.who : \A n \in cyc.count[u] : Recent(u, n)

\* What is recent stays so while nobody is asked about anew.
LEMMA RecentKept ==
  ASSUME PanelType, NEW u \in Queried, NEW n \in Nodes, Recent(u, n),
         A!Tick \/ (\E v \in Moving, k \in Nodes : A!Connect(v, k)) \/ UNCHANGED <<since, asked>>
  PROVE  Recent(u, n)'
  <1>1. CASE A!Tick
    <2>1. since'[u][n] \in {since[u][n], since[u][n] + 1}
      BY <1>1 DEF A!Tick
    <2>2. asked'[u] = IF asked[u] < Freshness THEN asked[u] + 1 ELSE asked[u]
      BY <1>1 DEF A!Tick
    <2> QED
      BY <2>1, <2>2, SourceAssumption DEF Recent, PanelType
  <1>2. ASSUME NEW v \in Moving, NEW k \in Nodes, A!Connect(v, k) PROVE Recent(u, n)'
    <2>1. since'[u][n] \in {since[u][n], 0} /\ asked' = asked
      BY <1>2 DEF A!Connect, PanelType
    <2> QED
      BY <2>1, SourceAssumption DEF Recent, PanelType
  <1> QED
    BY <1>1, <1>2 DEF Recent

\* A new request for one user leaves the others as they are.
LEMMA RecentOthers ==
  ASSUME PanelType, NEW v \in Queried, A!Ask(v) \/ A!Recheck(v), NEW u \in Queried \ {v}, NEW n \in Nodes, Recent(u, n)
  PROVE  Recent(u, n)'
  <1>1. asked'[u] = asked[u] /\ since' = since
    BY DEF A!Ask, A!Recheck, A!panelVars, PanelType
  <1> QED
    BY <1>1 DEF Recent

\* An address that is listed is recent.
LEMMA ListedRecent ==
  ASSUME PanelType, NEW u \in Queried, NEW n \in Nodes, A!Listed(u, n)
  PROVE  Recent(u, n)
  BY SourceAssumption DEF A!Listed, Recent, PanelType

\* Every step keeps the sample recent.
LEMMA CountStep ==
  PanelType /\ HistoryType /\ CycleType /\ CountInv /\ [A!Next]_(A!vars) => CountInv'
  <1> SUFFICES ASSUME PanelType, HistoryType, CycleType, CountInv, [A!Next]_(A!vars) PROVE CountInv'
    OBVIOUS
  <1> DEFINE Lasts == \A u \in Queried : \A n \in Nodes : Recent(u, n) => Recent(u, n)'
  <1>n. \A u \in Queried : cyc.ans[u].ips \subseteq Nodes /\ cyc.count[u] \subseteq Nodes
    BY DEF CycleType, Shape, Replies
  <1>o. A!NoAnswer.ips = {}
    BY DEF A!NoAnswer
  <1>i. cyc' = A!NoCycle => CountInv'
    <2> SUFFICES ASSUME cyc' = A!NoCycle PROVE CountInv'
      OBVIOUS
    <2>1. cyc'.pc = "idle" /\ cyc'.asked = {} /\ cyc'.who = {} /\ \A u \in Queried : cyc'.ans[u] = A!NoAnswer
      BY NoCycleShape
    <2> QED
      BY <2>1, <1>o DEF CountInv, Sampled, Again
  <1>1. CASE A!Tick
    <2>1. Lasts /\ cyc' = cyc
      BY <1>1, RecentKept DEF A!Tick
    <2> QED
      BY <2>1, <1>n DEF CountInv, Sampled
  <1>2. ASSUME NEW u \in Moving, NEW n \in Nodes, A!Connect(u, n) PROVE CountInv'
    <2>1. Lasts /\ cyc' = cyc
      BY <1>2, RecentKept DEF A!Connect
    <2> QED
      BY <2>1, <1>n DEF CountInv, Sampled
  <1>3. ASSUME NEW n \in Nodes, A!NodeChanges(n) PROVE CountInv'
    <2>1. Lasts /\ cyc' = cyc
      BY <1>3, RecentKept DEF A!NodeChanges
    <2> QED
      BY <2>1, <1>n DEF CountInv, Sampled
  <1>4. ASSUME NEW u \in Moving, NEW g \in A!Groups \cup {"gone"}, A!Regroup(u, g) PROVE CountInv'
    <2>1. Lasts /\ cyc' = cyc
      BY <1>4, RecentKept DEF A!Regroup
    <2> QED
      BY <2>1, <1>n DEF CountInv, Sampled
  <1>5. ASSUME NEW g \in A!Groups, A!Rewire(g) PROVE CountInv'
    <2>1. Lasts /\ cyc' = cyc
      BY <1>5, RecentKept DEF A!Rewire
    <2> QED
      BY <2>1, <1>n DEF CountInv, Sampled
  <1>6. CASE UNCHANGED A!vars
    <2>1. Lasts /\ cyc' = cyc
      BY <1>6, RecentKept DEF A!vars, A!panelVars
    <2> QED
      BY <2>1, <1>n DEF CountInv, Sampled
  <1>7. CASE A!Superseded
    <2>1. cyc' = A!NoCycle
      BY <1>7 DEF A!Superseded, A!Over
    <2> QED
      BY <2>1, <1>i
  <1>8. CASE A!SaveFallback
    <2>1. cyc' = A!NoCycle
      BY <1>8 DEF A!SaveFallback, A!Over
    <2> QED
      BY <2>1, <1>i
  <1>9. CASE A!SaveFails
    <2>1. cyc' = A!NoCycle
      BY <1>9 DEF A!SaveFails, A!Over
    <2> QED
      BY <2>1, <1>i
  <1>10. CASE A!EndCycle
    <2>1. cyc' = A!NoCycle
      BY <1>10 DEF A!EndCycle, A!Over
    <2> QED
      BY <2>1, <1>i
  <1>11. CASE A!Load
    <2>1. cyc'.pc = "turn" /\ cyc'.ans = A!NoCycle.ans /\ cyc'.asked = {} /\ cyc'.who = {}
      BY <1>11, NoCycleShape DEF A!Load, Shape
    <2> QED
      BY <2>1, NoCycleShape DEF CountInv, Sampled, Again, A!NoAnswer
  <1>12. CASE A!Begin
    <2>1. CASE cyc' = A!NoCycle
      BY <2>1, <1>i
    <2>2. CASE cyc' # A!NoCycle
      <3>1. cyc.pc = "turn" /\ cyc'.pc = "nodes" /\ cyc'.ans = cyc.ans /\ cyc'.asked = cyc.asked
            /\ cyc'.who = cyc.who
        BY <1>12, <2>2 DEF A!Begin, A!Over, CycleType, Shape, A!At
      <3> QED
        BY <3>1 DEF CountInv, Sampled, Again, A!NoAnswer
    <2> QED
      BY <2>1, <2>2
  <1>13. CASE A!Candidates
    <2>1. CASE cyc' = A!NoCycle
      BY <2>1, <1>i
    <2>2. CASE cyc' # A!NoCycle
      <3>1. PICK listed, flagged : Listing(listed, flagged) /\ listed \subseteq Queried /\ cyc.pc = "list"
        BY <1>13, <2>2, ListRead DEF A!Online
      <3>2. cyc'.pc \in {"nodes2", "fetch"} /\ cyc'.ans = cyc.ans /\ cyc'.asked = cyc.asked
            /\ cyc'.who = cyc.who /\ cyc'.todo = listed
        BY <3>1, ListTaken
      <3> QED
        BY <3>1, <3>2 DEF CountInv, Sampled, Again, A!NoAnswer
    <2> QED
      BY <2>1, <2>2
  <1>14. CASE A!ReadNodes
    <2>1. Lasts
      BY <1>14, RecentKept DEF A!ReadNodes, A!panelVars
    <2>2. /\ cyc.pc \in {"nodes", "topology", "nodes2", "topology2"}
          /\ cyc'.pc \in {"topology", "list", "topology2", "members"}
          /\ cyc'.pc \in {"topology", "list"} => cyc.pc \in {"nodes", "topology"}
          /\ cyc'.ans = cyc.ans /\ cyc'.asked = cyc.asked /\ cyc'.who = cyc.who
      BY <1>14 DEF A!ReadNodes, CycleType, Shape, A!At
    <2> QED
      BY <2>1, <2>2, <1>n DEF CountInv, Sampled, Again
  <1>15. CASE A!ReadTopology
    <2>1. Lasts
      BY <1>15, RecentKept DEF A!ReadTopology, A!panelVars
    <2>2. /\ cyc.pc \in {"nodes", "topology", "nodes2", "topology2"}
          /\ cyc'.pc \in {"topology", "list", "topology2", "members"}
          /\ cyc'.pc \in {"topology", "list"} => cyc.pc \in {"nodes", "topology"}
          /\ cyc'.ans = cyc.ans /\ cyc'.asked = cyc.asked /\ cyc'.who = cyc.who
      BY <1>15 DEF A!ReadTopology, CycleType, Shape, A!At
    <2> QED
      BY <2>1, <2>2, <1>n DEF CountInv, Sampled, Again
  <1>16. CASE A!EndFetch
    <2>1. UNCHANGED <<since, asked>>
      BY <1>16 DEF A!EndFetch, A!panelVars
    <2>2. Lasts
      BY <2>1, RecentKept
    <2> QED
      BY <1>16, <2>2, <1>n DEF A!EndFetch, CountInv, Sampled, Again, CycleType, Shape, A!At
  <1>17. CASE A!CollectionFails
    <2>1. UNCHANGED <<since, asked>>
      BY <1>17 DEF A!CollectionFails, A!panelVars
    <2>2. Lasts
      BY <2>1, RecentKept
    <2> QED
      BY <1>17, <2>2, <1>n DEF A!CollectionFails, CountInv, Sampled, Again, CycleType, Shape, A!At
  <1>18. CASE A!Publish
    <2>1. UNCHANGED <<since, asked>>
      BY <1>18 DEF A!Publish, A!panelVars
    <2>2. Lasts
      BY <2>1, RecentKept
    <2> QED
      BY <1>18, <2>2, <1>n DEF A!Publish, CountInv, Sampled, Again, CycleType, Shape, A!At
  <1>19. CASE A!Pop
    <2>1. Lasts
      BY <1>19, RecentKept DEF A!Pop, A!panelVars
    <2>2. cyc.pc = "pop" /\ cyc'.pc = "judge" /\ cyc'.ans = cyc.ans /\ cyc'.count = cyc.count /\ cyc'.who = cyc.who
      BY <1>19 DEF A!Pop, CycleType, Shape, A!At
    <2> QED
      BY <2>1, <2>2, <1>n DEF CountInv, Sampled, Again
  <1>20. CASE A!RecheckNodes
    <2>1. UNCHANGED <<since, asked>>
      BY <1>20 DEF A!RecheckNodes, A!panelVars
    <2>2. Lasts
      BY <2>1, RecentKept
    <2> QED
      BY <1>20, <2>2, <1>n DEF A!RecheckNodes, CountInv, Sampled, Again, CycleType, Shape, A!At
  <1>21. CASE A!RecheckTopology
    <2>1. UNCHANGED <<since, asked>>
      BY <1>21 DEF A!RecheckTopology, A!panelVars
    <2>2. Lasts
      BY <2>1, RecentKept
    <2> QED
      BY <1>21, <2>2, <1>n DEF A!RecheckTopology, CountInv, Sampled, Again, CycleType, Shape, A!At
  <1>22. CASE A!RecheckFails
    <2>1. UNCHANGED <<since, asked>>
      BY <1>22 DEF A!RecheckFails, A!panelVars
    <2>2. Lasts
      BY <2>1, RecentKept
    <2> QED
      BY <1>22, <2>2, <1>n DEF A!RecheckFails, CountInv, Sampled, Again, CycleType, Shape, A!At
  <1>23. CASE A!Settings
    <2>1. UNCHANGED <<since, asked>>
      BY <1>23 DEF A!Settings, A!panelVars
    <2>2. Lasts
      BY <2>1, RecentKept
    <2> QED
      BY <1>23, <2>2, <1>n DEF A!Settings, CountInv, Sampled, Again, CycleType, Shape, A!At
  <1>24. CASE A!TopicsChange
    <2>1. UNCHANGED <<since, asked>>
      BY <1>24 DEF A!TopicsChange, A!panelVars
    <2>2. Lasts
      BY <2>1, RecentKept
    <2> QED
      BY <1>24, <2>2, <1>n DEF A!TopicsChange, CountInv, Sampled, Again, CycleType, Shape, A!At
  <1>25. CASE A!Watch
    <2>1. UNCHANGED <<since, asked>>
      BY <1>25 DEF A!Watch, A!panelVars
    <2>2. Lasts
      BY <2>1, RecentKept
    <2> QED
      BY <1>25, <2>2, <1>n DEF A!Watch, CountInv, Sampled, Again, CycleType, Shape, A!At
  <1>26. ASSUME NEW u \in Queried, A!Clear(u)
      PROVE CountInv'
    <2>1. UNCHANGED <<since, asked>>
      BY <1>26 DEF A!Clear, A!panelVars
    <2>2. Lasts
      BY <2>1, RecentKept
    <2> QED
      BY <1>26, <2>2, <1>n DEF A!Clear, CountInv, Sampled, Again, CycleType, Shape, A!At
  <1>27. ASSUME NEW u \in Queried, A!Punish(u)
      PROVE CountInv'
    <2>1. UNCHANGED <<since, asked>>
      BY <1>27 DEF A!Punish, A!panelVars
    <2>2. Lasts
      BY <2>1, RecentKept
    <2> QED
      BY <1>27, <2>2, <1>n DEF A!Punish, CountInv, Sampled, Again, CycleType, Shape, A!At
  <1>28. ASSUME NEW u \in Queried, A!Deferred(u)
      PROVE CountInv'
    <2>1. UNCHANGED <<since, asked>>
      BY <1>28 DEF A!Deferred, A!panelVars
    <2>2. Lasts
      BY <2>1, RecentKept
    <2> QED
      BY <1>28, <2>2, <1>n DEF A!Deferred, CountInv, Sampled, Again, CycleType, Shape, A!At
  <1>29. CASE A!Account
    <2>1. CASE cyc' = A!NoCycle
      BY <2>1, <1>i
    <2>2. CASE cyc' # A!NoCycle
      <3>1. UNCHANGED <<since, asked>>
        BY <1>29 DEF A!Account, A!panelVars
      <3>2. Lasts
        BY <3>1, RecentKept
      <3>3. \/ cyc.pc = "account" /\ cyc' = [cyc EXCEPT !.pc = "save"]
            \/ cyc.pc = "account" /\ cyc.outcome = "ready" /\ cyc' = [cyc EXCEPT !.pc = "pop"]
        BY <1>29, <2>2 DEF A!Account, A!Go, A!Over, A!At
      <3> QED
        BY <3>2, <3>3, <1>n DEF CountInv, Sampled, Again, CycleType, Shape
    <2> QED
      BY <2>1, <2>2
  <1>30. ASSUME NEW u \in Queried, A!Ask(u)
      PROVE CountInv'
    <2>1. \A v \in Queried \ {u} : \A n \in Nodes : Recent(v, n) => Recent(v, n)'
      BY <1>30, RecentOthers
    <2>2. cyc.ans[u] = A!NoAnswer
      BY <1>30 DEF A!Ask, A!At, CountInv
    <2>3. cyc.pc = "fetch" /\ cyc'.pc = "fetch" /\ cyc'.ans = cyc.ans /\ cyc'.todo = cyc.todo \ {u}
          /\ cyc'.asked = cyc.asked \cup {u} /\ cyc'.who = cyc.who
      BY <1>30 DEF A!Ask, A!At, CycleType, Shape
    <2>4. \A v \in Queried : \A n \in cyc'.ans[v].ips : Recent(v, n)'
      BY <2>1, <2>2, <2>3, <1>n DEF CountInv, A!NoAnswer
    <2> QED
      BY <1>30, <2>3, <2>4 DEF CountInv, Sampled, Again, A!Ask
  <1>31. ASSUME NEW u \in Queried, A!Answer(u)
      PROVE CountInv'
    <2>1. UNCHANGED <<since, asked>>
      BY <1>31 DEF A!Answer, A!panelVars
    <2>2. Lasts
      BY <2>1, RecentKept
    <2>3. PICK a : /\ cyc' = [cyc EXCEPT !.asked = @ \ {u}, !.ans[u] = a]
                   /\ a.ips = {} \/ a \in A!Answers(u)
      BY <1>31 DEF A!Answer, A!NoAnswer
    <2>4. \A n \in a.ips : n \in Nodes /\ Recent(u, n)
      BY <2>3, ListedRecent DEF A!Answers, PanelType
    <2>5. cyc.pc = "fetch" /\ u \in cyc.asked
      BY <1>31 DEF A!Answer, A!At
    <2>6. cyc'.pc = "fetch" /\ cyc'.asked = cyc.asked \ {u} /\ cyc'.todo = cyc.todo /\ cyc'.who = cyc.who
          /\ cyc'.ans = [cyc.ans EXCEPT ![u] = a]
      BY <2>3, <2>5 DEF CycleType, Shape
    <2>7. cyc.ans \in [Queried -> Replies]
      BY DEF CycleType, Shape
    <2> QED
      BY <2>2, <2>4, <2>5, <2>6, <2>7, <1>n DEF CountInv, Sampled, Again
  <1>32. CASE A!Members
    <2>1. CASE cyc' = A!NoCycle
      BY <2>1, <1>i
    <2>2. CASE cyc' # A!NoCycle
      <3>1. UNCHANGED <<since, asked>>
        BY <1>32 DEF A!Members, A!panelVars
      <3>2. Lasts
        BY <3>1, RecentKept
      <3>3. PICK now, flagged : cyc.pc = "members" /\ Sampling(now, flagged)
        BY <1>32, <2>2, MembersRead
      <3>4. cyc.pc = "members" /\ cyc'.who = cyc.who /\ cyc'.ans = cyc.ans /\ cyc'.pc \in {"account", "publish"}
            /\ (cyc'.pc = "account" => cyc'.outcome = "skipped")
        BY <3>3, SampleTaken
      <3>5. cyc'.pc = "publish" => \A u \in Queried : cyc'.count[u] \subseteq cyc.ans[u].ips
        BY <3>3, SampleTaken
      <3> QED
        BY <3>2, <3>4, <3>5, <1>n DEF CountInv, Sampled, Again
    <2> QED
      BY <2>1, <2>2
  <1>33. ASSUME NEW u \in Queried, A!Recheck(u)
      PROVE CountInv'
    <2>1. \A v \in Queried \ {u} : \A n \in Nodes : Recent(v, n) => Recent(v, n)'
      BY <1>33, RecentOthers
    <2>2. /\ cyc.pc = "judge" /\ u \in cyc.todo /\ cyc'.pc = "again" /\ cyc'.who = {u} /\ cyc'.todo = cyc.todo
          /\ cyc'.count = cyc.count /\ cyc'.ans = [cyc.ans EXCEPT ![u] = A!NoAnswer]
      BY <1>33 DEF A!Recheck, A!At, CycleType, Shape
    <2>3. cyc.ans \in [Queried -> Replies] /\ A!NoAnswer.ips = {}
      BY DEF CycleType, Shape, A!NoAnswer
    <2> QED
      BY <2>1, <2>2, <2>3, <1>n DEF CountInv, Sampled, Again
  <1>34. ASSUME NEW u \in Queried, A!RecheckAnswer(u)
      PROVE CountInv'
    <2>1. UNCHANGED <<since, asked>>
      BY <1>34 DEF A!RecheckAnswer, A!panelVars
    <2>2. Lasts
      BY <2>1, RecentKept
    <2>3. PICK a \in A!Answers(u) : cyc' = [cyc EXCEPT !.pc = "again_nodes", !.ans[u] = a]
      BY <1>34 DEF A!RecheckAnswer
    <2>4. \A n \in a.ips : n \in Nodes /\ Recent(u, n)
      BY <2>3, ListedRecent DEF A!Answers, PanelType
    <2>5. cyc.pc = "again"
      BY <1>34 DEF A!RecheckAnswer, A!At
    <2>6. /\ cyc'.pc = "again_nodes" /\ cyc'.who = cyc.who /\ cyc'.todo = cyc.todo
          /\ cyc'.count = cyc.count /\ cyc'.ans = [cyc.ans EXCEPT ![u] = a]
      BY <2>3 DEF CycleType, Shape
    <2>7. cyc.ans \in [Queried -> Replies]
      BY DEF CycleType, Shape
    <2> QED
      BY <2>2, <2>4, <2>5, <2>6, <2>7, <1>n DEF CountInv, Sampled, Again
  <1>35. ASSUME NEW u \in Queried, A!RecheckDetails(u)
      PROVE CountInv'
    <2>1. UNCHANGED <<since, asked>>
      BY <1>35 DEF A!RecheckDetails, A!panelVars
    <2>2. Lasts
      BY <2>1, RecentKept
    <2>3. cyc.pc = "again_details" /\ u \in cyc.who
      BY <1>35 DEF A!RecheckDetails, A!At
    <2>4. /\ cyc'.pc = "judge" /\ cyc'.who = {} /\ cyc'.ans = cyc.ans
          /\ \/ cyc'.todo = cyc.todo \ {u} /\ cyc'.count = cyc.count
             \/ cyc'.todo = cyc.todo /\ cyc'.count = [cyc.count EXCEPT ![u] = cyc.ans[u].ips \cap (cyc.need[u] \cap cyc.up2)]
      BY <1>35 DEF A!RecheckDetails, CycleType, Shape
    <2>5. cyc.count \in [Queried -> SUBSET Nodes]
      BY DEF CycleType, Shape
    <2>6. cyc.who = {u}
      BY <2>3 DEF CountInv, Again
    <2> QED
      BY <2>2, <2>3, <2>4, <2>5, <2>6, <1>n DEF CountInv, Sampled, Again
  <1> QED
    BY <1>1, <1>2, <1>3, <1>4, <1>5, <1>6, <1>7, <1>8, <1>9, <1>10, <1>11, <1>12, <1>13, <1>14, <1>15, <1>16,
       <1>17, <1>18, <1>19, <1>20, <1>21, <1>22, <1>23, <1>24, <1>25, <1>26, <1>27, <1>28, <1>29, <1>30, <1>31,
       <1>32, <1>33, <1>34, <1>35
       DEF A!Next, A!Cycle, A!Faults

\* What a punishment counts was open within the window.
LEMMA PunishedRecent ==
  ASSUME PanelType, CycleType, CountInv
  PROVE  A!CountsReal
  <1> SUFFICES ASSUME NEW u \in Queried, A!Punish(u), NEW n \in cyc.count[u]
               PROVE  since[u][n] < IF n \in Live THEN Freshness ELSE 2 * Freshness
    BY DEF A!CountsReal
  <1>1. Recent(u, n) /\ asked[u] < Freshness /\ n \in Nodes
    BY DEF A!Punish, CountInv, Again, A!At, CycleType, Shape
  <1> QED
    BY <1>1, SourceAssumption DEF Recent, PanelType

---------------------------------------------------------------------------
(* Changes are noticed.                                                    *)

\* As the cycle saw only one change, a group it has found rewired differs from what it
\* read, and so does that of a user who moved; without a change it has read what holds.
NoticeInv ==
  /\ hist.changes = 0 => hist.moved = {} /\ hist.rewired = {}
  /\ cyc.pc \in {"nodes", "topology", "list"} => hist.moved = {}
  /\ cyc.pc \in {"nodes", "topology"} => hist.rewired = {}
  /\ cyc.pc \in {"list", "fetch", "nodes2", "topology2"} =>
       /\ hist.changes = 0 => reach = cyc.reach
       /\ \A g \in hist.rewired : reach[g] # cyc.reach[g]
  /\ cyc.pc \in {"fetch", "nodes2", "topology2", "members"} =>
       \A u \in Queried : cyc.want[u] # "none" =>
         /\ hist.changes = 0 => group[u] = cyc.want[u]
         /\ u \in hist.moved => group[u] # cyc.want[u]
  /\ cyc.pc = "members" => \A g \in hist.rewired : cyc.reach2[g] # cyc.reach[g]
  /\ cyc.pc = "publish" =>
       \A u \in Queried : cyc.want[u] # "none" /\ u \notin cyc.unknown /\ cyc.ans[u].st = "ok" =>
         u \notin hist.moved /\ cyc.want[u] \notin hist.rewired

\* Every step keeps what has changed in view.
LEMMA NoticeStep ==
  OneChange /\ PanelType /\ HistoryType /\ CycleType /\ NoticeInv /\ [A!Next]_(A!vars) => NoticeInv'
  <1> SUFFICES ASSUME OneChange, PanelType, HistoryType, CycleType, NoticeInv, [A!Next]_(A!vars)
      PROVE  NoticeInv'
    OBVIOUS
  <1>i. ASSUME cyc' = A!NoCycle, hist'.moved = hist.moved, hist'.rewired = hist.rewired,
               hist'.changes = hist.changes
        PROVE  NoticeInv'
    BY <1>i, NoCycleShape DEF NoticeInv
  <1>1. CASE A!Load
    <2>1. UNCHANGED <<hist, reach, group>>
      BY <1>1 DEF A!Load, A!panelVars
    <2>2. cyc'.pc \notin {"nodes", "topology", "list", "fetch", "nodes2", "topology2", "members", "publish"}
      BY <1>1, NoCycleShape DEF A!Load, A!Over, CycleType, Shape, A!At
    <2> QED
      BY <2>1, <2>2 DEF NoticeInv
  <1>2. CASE A!Superseded
    <2>1. UNCHANGED <<hist, reach, group>>
      BY <1>2 DEF A!Superseded, A!panelVars
    <2>2. cyc'.pc \notin {"nodes", "topology", "list", "fetch", "nodes2", "topology2", "members", "publish"}
      BY <1>2, NoCycleShape DEF A!Superseded, A!Over, CycleType, Shape, A!At
    <2> QED
      BY <2>1, <2>2 DEF NoticeInv
  <1>3. CASE A!CollectionFails
    <2>1. UNCHANGED <<hist, reach, group>>
      BY <1>3 DEF A!CollectionFails, A!panelVars
    <2>2. cyc'.pc \notin {"nodes", "topology", "list", "fetch", "nodes2", "topology2", "members", "publish"}
      BY <1>3, NoCycleShape DEF A!CollectionFails, A!Over, CycleType, Shape, A!At
    <2> QED
      BY <2>1, <2>2 DEF NoticeInv
  <1>4. CASE A!SaveFails
    <2>1. UNCHANGED <<hist, reach, group>>
      BY <1>4 DEF A!SaveFails, A!panelVars
    <2>2. cyc'.pc \notin {"nodes", "topology", "list", "fetch", "nodes2", "topology2", "members", "publish"}
      BY <1>4, NoCycleShape DEF A!SaveFails, A!Over, CycleType, Shape, A!At
    <2> QED
      BY <2>1, <2>2 DEF NoticeInv
  <1>5. CASE A!SaveFallback
    <2>1. UNCHANGED <<hist, reach, group>>
      BY <1>5 DEF A!SaveFallback, A!panelVars
    <2>2. cyc'.pc \notin {"nodes", "topology", "list", "fetch", "nodes2", "topology2", "members", "publish"}
      BY <1>5, NoCycleShape DEF A!SaveFallback, A!Over, CycleType, Shape, A!At
    <2> QED
      BY <2>1, <2>2 DEF NoticeInv
  <1>6. CASE A!Pop
    <2>1. UNCHANGED <<hist, reach, group>>
      BY <1>6 DEF A!Pop, A!panelVars
    <2>2. cyc'.pc \notin {"nodes", "topology", "list", "fetch", "nodes2", "topology2", "members", "publish"}
      BY <1>6, NoCycleShape DEF A!Pop, A!Over, CycleType, Shape, A!At
    <2> QED
      BY <2>1, <2>2 DEF NoticeInv
  <1>7. CASE A!EndCycle
    <2>1. UNCHANGED <<hist, reach, group>>
      BY <1>7 DEF A!EndCycle, A!panelVars
    <2>2. cyc'.pc \notin {"nodes", "topology", "list", "fetch", "nodes2", "topology2", "members", "publish"}
      BY <1>7, NoCycleShape DEF A!EndCycle, A!Over, CycleType, Shape, A!At
    <2> QED
      BY <2>1, <2>2 DEF NoticeInv
  <1>8. CASE A!RecheckNodes
    <2>1. UNCHANGED <<hist, reach, group>>
      BY <1>8 DEF A!RecheckNodes, A!panelVars
    <2>2. cyc'.pc \notin {"nodes", "topology", "list", "fetch", "nodes2", "topology2", "members", "publish"}
      BY <1>8, NoCycleShape DEF A!RecheckNodes, A!Over, CycleType, Shape, A!At
    <2> QED
      BY <2>1, <2>2 DEF NoticeInv
  <1>9. CASE A!RecheckTopology
    <2>1. UNCHANGED <<hist, reach, group>>
      BY <1>9 DEF A!RecheckTopology, A!panelVars
    <2>2. cyc'.pc \notin {"nodes", "topology", "list", "fetch", "nodes2", "topology2", "members", "publish"}
      BY <1>9, NoCycleShape DEF A!RecheckTopology, A!Over, CycleType, Shape, A!At
    <2> QED
      BY <2>1, <2>2 DEF NoticeInv
  <1>10. CASE A!RecheckFails
    <2>1. UNCHANGED <<hist, reach, group>>
      BY <1>10 DEF A!RecheckFails, A!panelVars
    <2>2. cyc'.pc \notin {"nodes", "topology", "list", "fetch", "nodes2", "topology2", "members", "publish"}
      BY <1>10, NoCycleShape DEF A!RecheckFails, A!Over, CycleType, Shape, A!At
    <2> QED
      BY <2>1, <2>2 DEF NoticeInv
  <1>11. ASSUME NEW u \in Queried, A!Clear(u)
      PROVE NoticeInv'
    <2>1. UNCHANGED <<hist, reach, group>>
      BY <1>11 DEF A!Clear, A!panelVars
    <2>2. cyc'.pc \in {"judge", "again", "again_nodes"}
      BY <1>11, NoCycleShape DEF A!Clear, A!Over, CycleType, Shape, A!At
    <2> QED
      BY <2>1, <2>2 DEF NoticeInv
  <1>12. ASSUME NEW u \in Queried, A!Punish(u)
      PROVE NoticeInv'
    <2>1. UNCHANGED <<hist, reach, group>>
      BY <1>12 DEF A!Punish, A!panelVars
    <2>2. cyc'.pc \in {"judge", "again", "again_nodes"}
      BY <1>12, NoCycleShape DEF A!Punish, A!Over, CycleType, Shape, A!At
    <2> QED
      BY <2>1, <2>2 DEF NoticeInv
  <1>13. ASSUME NEW u \in Queried, A!Recheck(u)
      PROVE NoticeInv'
    <2>1. UNCHANGED <<hist, reach, group>>
      BY <1>13 DEF A!Recheck, A!panelVars
    <2>2. cyc'.pc \in {"judge", "again", "again_nodes"}
      BY <1>13, NoCycleShape DEF A!Recheck, A!Over, CycleType, Shape, A!At
    <2> QED
      BY <2>1, <2>2 DEF NoticeInv
  <1>14. ASSUME NEW u \in Queried, A!RecheckAnswer(u)
      PROVE NoticeInv'
    <2>1. UNCHANGED <<hist, reach, group>>
      BY <1>14 DEF A!RecheckAnswer, A!panelVars
    <2>2. cyc'.pc \in {"judge", "again", "again_nodes"}
      BY <1>14, NoCycleShape DEF A!RecheckAnswer, A!Over, CycleType, Shape, A!At
    <2> QED
      BY <2>1, <2>2 DEF NoticeInv
  <1>15. ASSUME NEW u \in Queried, A!RecheckDetails(u)
      PROVE NoticeInv'
    <2>1. UNCHANGED <<hist, reach, group>>
      BY <1>15 DEF A!RecheckDetails, A!panelVars
    <2>2. cyc'.pc \in {"judge", "again", "again_nodes"}
      BY <1>15, NoCycleShape DEF A!RecheckDetails, A!Over, CycleType, Shape, A!At
    <2> QED
      BY <2>1, <2>2 DEF NoticeInv
  <1>16. CASE A!Account
    <2>1. UNCHANGED <<hist, reach, group>>
      BY <1>16 DEF A!Account, A!panelVars
    <2>2. cyc'.pc \in {"save", "pop", "idle"}
      BY <1>16, NoCycleShape DEF A!Account, A!Go, A!Over, CycleType, Shape
    <2> QED
      BY <2>1, <2>2 DEF NoticeInv
  <1>17. CASE A!Settings
    <2>1. UNCHANGED <<hist, reach, group>>
      BY <1>17 DEF A!Settings, A!panelVars
    <2>2. /\ cyc'.pc = cyc.pc /\ cyc'.reach = cyc.reach /\ cyc'.reach2 = cyc.reach2 /\ cyc'.want = cyc.want
          /\ cyc'.unknown = cyc.unknown /\ cyc'.ans = cyc.ans
      BY <1>17, NoCycleShape DEF A!Settings, A!Over, CycleType, Shape, A!At
    <2> QED
      BY <2>1, <2>2 DEF NoticeInv
  <1>18. CASE A!TopicsChange
    <2>1. UNCHANGED <<hist, reach, group>>
      BY <1>18 DEF A!TopicsChange, A!panelVars
    <2>2. /\ cyc'.pc = cyc.pc /\ cyc'.reach = cyc.reach /\ cyc'.reach2 = cyc.reach2 /\ cyc'.want = cyc.want
          /\ cyc'.unknown = cyc.unknown /\ cyc'.ans = cyc.ans
      BY <1>18, NoCycleShape DEF A!TopicsChange, A!Over, CycleType, Shape, A!At
    <2> QED
      BY <2>1, <2>2 DEF NoticeInv
  <1>19. CASE A!Watch
    <2>1. UNCHANGED <<hist, reach, group>>
      BY <1>19 DEF A!Watch, A!panelVars
    <2>2. /\ cyc'.pc = cyc.pc /\ cyc'.reach = cyc.reach /\ cyc'.reach2 = cyc.reach2 /\ cyc'.want = cyc.want
          /\ cyc'.unknown = cyc.unknown /\ cyc'.ans = cyc.ans
      BY <1>19, NoCycleShape DEF A!Watch, A!Over, CycleType, Shape, A!At
    <2> QED
      BY <2>1, <2>2 DEF NoticeInv
  <1>20. ASSUME NEW u \in Queried, A!Ask(u)
      PROVE NoticeInv'
    <2>1. UNCHANGED <<hist, reach, group>>
      BY <1>20 DEF A!Ask, A!panelVars
    <2>2. cyc.pc = "fetch" /\ cyc'.pc = "fetch" /\ cyc'.reach = cyc.reach /\ cyc'.want = cyc.want
      BY <1>20, NoCycleShape DEF A!Ask, A!Over, CycleType, Shape, A!At
    <2> QED
      BY <2>1, <2>2 DEF NoticeInv
  <1>21. ASSUME NEW u \in Queried, A!Answer(u)
      PROVE NoticeInv'
    <2>1. UNCHANGED <<hist, reach, group>>
      BY <1>21 DEF A!Answer, A!panelVars
    <2>2. cyc.pc = "fetch" /\ cyc'.pc = "fetch" /\ cyc'.reach = cyc.reach /\ cyc'.want = cyc.want
      BY <1>21, NoCycleShape DEF A!Answer, A!Over, CycleType, Shape, A!At
    <2> QED
      BY <2>1, <2>2 DEF NoticeInv
  <1>22. ASSUME NEW u \in Queried, A!Deferred(u)
      PROVE NoticeInv'
    <2>1. UNCHANGED <<hist, reach, group>>
      BY <1>22 DEF A!Deferred, A!panelVars
    <2>2. cyc.pc = "fetch" /\ cyc'.pc = "fetch" /\ cyc'.reach = cyc.reach /\ cyc'.want = cyc.want
      BY <1>22, NoCycleShape DEF A!Deferred, A!Over, CycleType, Shape, A!At
    <2> QED
      BY <2>1, <2>2 DEF NoticeInv
  <1>23. CASE A!Publish
    <2>1. UNCHANGED <<hist, reach, group>>
      BY <1>23 DEF A!Publish, A!panelVars
    <2>2. cyc'.pc = "account"
      BY <1>23, NoCycleShape DEF A!Publish, A!Over, CycleType, Shape, A!At
    <2> QED
      BY <2>1, <2>2 DEF NoticeInv
  <1>24. CASE A!EndFetch
    <2>1. UNCHANGED <<hist, reach, group>>
      BY <1>24 DEF A!EndFetch, A!panelVars
    <2>2. cyc.pc = "fetch" /\ cyc'.pc \in {"nodes2", "account"} /\ cyc'.reach = cyc.reach /\ cyc'.want = cyc.want
      BY <1>24, NoCycleShape DEF A!EndFetch, A!Over, CycleType, Shape, A!At
    <2> QED
      BY <2>1, <2>2 DEF NoticeInv
  <1>25. CASE A!ReadNodes
    <2>1. UNCHANGED <<hist, reach, group>>
      BY <1>25 DEF A!ReadNodes, A!panelVars
    <2>2. /\ \/ cyc.pc = "nodes" /\ cyc'.pc = "topology"
             \/ cyc.pc = "nodes2" /\ cyc'.pc = "topology2"
          /\ cyc'.reach = cyc.reach /\ cyc'.want = cyc.want
      BY <1>25, NoCycleShape, ZenonT(40) DEF A!ReadNodes, A!Over, CycleType, Shape, A!At
    <2> QED
      BY <2>1, <2>2 DEF NoticeInv
  <1>26. CASE A!ReadTopology
    <2>1. UNCHANGED <<hist, reach, group>>
      BY <1>26 DEF A!ReadTopology, A!panelVars
    <2>2. /\ \/ cyc.pc = "topology" /\ cyc'.pc = "list" /\ cyc'.reach = reach
             \/ cyc.pc = "topology2" /\ cyc'.pc = "members" /\ cyc'.reach2 = reach /\ cyc'.reach = cyc.reach
          /\ cyc'.want = cyc.want
      BY <1>26 DEF A!ReadTopology, CycleType, Shape, A!At
    <2> QED
      BY <2>1, <2>2 DEF NoticeInv
  <1>27. CASE A!Begin
    <2>1. CASE cyc' = A!NoCycle
      BY <1>27, <2>1, <1>i, NoCycleShape DEF A!Begin, CycleType, Shape
    <2>2. CASE cyc' # A!NoCycle
      <3>1. cyc'.pc = "nodes" /\ \E s : hist' = [A!NoHistory EXCEPT !.steady = s]
        BY <1>27, <2>2 DEF A!Begin, A!Over, CycleType, Shape
      <3>2. hist'.moved = {} /\ hist'.rewired = {}
        BY <3>1 DEF A!NoHistory
      <3> QED
        BY <3>1, <3>2 DEF NoticeInv
    <2> QED
      BY <2>1, <2>2
  <1>28. CASE A!Candidates
    <2>1. PICK listed \in SUBSET A!Online, flagged \in BOOLEAN :
            /\ cyc.pc = "list"
            /\ cyc' = A!NoCycle \/ Listing(listed, flagged)
            /\ hist'.moved = hist.moved /\ hist'.rewired = hist.rewired /\ hist'.changes = hist.changes
            /\ UNCHANGED A!panelVars
      BY <1>28, ListRead
    <2>2. CASE cyc' = A!NoCycle
      BY <1>28, <2>1, <2>2, <1>i
    <2>3. CASE cyc' # A!NoCycle
      <3>1. /\ cyc'.pc \in {"nodes2", "fetch"} /\ cyc'.reach = cyc.reach
            /\ \A u \in Queried : cyc'.want[u] \in {group[u], "none"}
        BY <2>1, <2>3, ListTaken
      <3> QED
        BY <2>1, <3>1 DEF NoticeInv, A!panelVars
    <2> QED
      BY <2>2, <2>3
  <1>29. CASE A!Members
    <2>1. PICK now, flagged :
            /\ cyc.pc = "members"
            /\ cyc' = A!NoCycle \/ Sampling(now, flagged)
            /\ \A u \in Queried : now[u] \in {group[u], "none"}
            /\ UNCHANGED <<A!panelVars, hist>>
      BY <1>29, MembersRead
    <2>2. CASE cyc' = A!NoCycle
      BY <1>29, <2>1, <2>2, <1>i
    <2>3. CASE cyc' # A!NoCycle
      <3>1. /\ cyc'.pc \in {"account", "publish"} /\ cyc'.want = cyc.want /\ cyc'.ans = cyc.ans
            /\ cyc'.pc = "publish" => cyc'.unknown = A!Unknown(now)
        BY <2>1, <2>3, SampleTaken
      <3>2. ASSUME NEW u \in Queried, cyc.want[u] # "none", u \notin A!Unknown(now), cyc.ans[u].st = "ok"
            PROVE  u \notin hist.moved /\ cyc.want[u] \notin hist.rewired
        <4>1. A!Confirmed(u, now)
          BY <3>2 DEF A!Unknown, A!Targets
        <4>2. now[u] = cyc.want[u] /\ group[u] = cyc.want[u] /\ cyc.want[u] \in A!Groups
          BY <2>1, <3>2, <4>1 DEF A!Confirmed, A!Unchanged, CycleType, Shape
        <4>3. cyc.reach[cyc.want[u]] = cyc.reach2[cyc.want[u]]
          BY <4>1, <4>2 DEF A!Confirmed, A!Unchanged, A!Applicable, A!Access
        <4> QED
          BY <2>1, <3>2, <4>2, <4>3 DEF NoticeInv
      <3> QED
        BY <2>1, <3>1, <3>2 DEF NoticeInv
    <2> QED
      BY <2>2, <2>3
  <1>30. CASE A!Tick
    <2>1. hist'.moved = hist.moved /\ hist'.rewired = hist.rewired /\ hist'.changes = hist.changes
          /\ UNCHANGED <<cyc, reach, group>>
      BY <1>30 DEF A!Tick, HistoryType, Histories, A!panelVars
    <2> QED
      BY <2>1 DEF NoticeInv
  <1>31. ASSUME NEW u \in Moving, NEW n \in Nodes, A!Connect(u, n) PROVE NoticeInv'
    <2>1. hist'.moved = hist.moved /\ hist'.rewired = hist.rewired /\ hist'.changes = hist.changes
          /\ UNCHANGED <<cyc, reach, group>>
      BY <1>31 DEF A!Connect, HistoryType, Histories, A!panelVars
    <2> QED
      BY <2>1 DEF NoticeInv
  <1>32. ASSUME NEW n \in Nodes, A!NodeChanges(n) PROVE NoticeInv'
    <2>1. hist'.moved = hist.moved /\ hist'.rewired = hist.rewired /\ hist'.changes = hist.changes
          /\ UNCHANGED <<cyc, reach, group>>
      BY <1>32 DEF A!NodeChanges, HistoryType, Histories, A!panelVars
    <2> QED
      BY <2>1 DEF NoticeInv
  <1>33. CASE UNCHANGED A!vars
    BY <1>33 DEF A!vars, A!panelVars, NoticeInv
  <1>34. ASSUME NEW u \in Moving, NEW g \in A!Groups \cup {"gone"}, A!Regroup(u, g) PROVE NoticeInv'
    <2>1. hist.changes = 0 /\ hist'.changes = 1 /\ hist'.rewired = hist.rewired /\ UNCHANGED <<cyc, reach>>
      BY <1>34, SourceAssumption DEF A!Regroup, HistoryType, Histories, OneChange
    <2>2. group' = [group EXCEPT ![u] = g] /\ g # group[u]
      BY <1>34 DEF A!Regroup
    <2>3. hist'.moved = IF cyc.pc \in {"fetch", "nodes2", "topology2", "members"} THEN hist.moved \cup {u} ELSE hist.moved
      BY <1>34 DEF A!Regroup, HistoryType, Histories
    <2>4. hist.moved = {} /\ hist.rewired = {}
      BY <2>1 DEF NoticeInv
    <2>5. \A v \in Queried : v \in hist'.moved => v = u /\ cyc.pc \in {"fetch", "nodes2", "topology2", "members"} /\ group'[v] = g
      BY <2>2, <2>3, <2>4 DEF PanelType
    <2>6. CASE cyc.pc \in {"fetch", "nodes2", "topology2", "members"}
      <3>1. \A v \in Queried : cyc.want[v] # "none" /\ v \in hist'.moved => group'[v] # cyc.want[v]
        BY <2>1, <2>2, <2>5, <2>6 DEF NoticeInv
      <3> QED
        BY <2>1, <2>4, <2>6, <3>1 DEF NoticeInv
    <2>7. CASE cyc.pc \notin {"fetch", "nodes2", "topology2", "members"}
      <3>1. hist'.moved = {} /\ hist'.rewired = {}
        BY <2>1, <2>3, <2>4, <2>7
      <3> QED
        BY <2>1, <2>7, <3>1 DEF NoticeInv
    <2> QED
      BY <2>6, <2>7
  <1>35. ASSUME NEW g \in A!Groups, A!Rewire(g) PROVE NoticeInv'
    <2>1. hist.changes = 0 /\ hist'.changes = 1 /\ hist'.moved = hist.moved /\ UNCHANGED <<cyc, group>>
      BY <1>35, SourceAssumption DEF A!Rewire, HistoryType, Histories, OneChange
    <2>2. PICK ns : reach' = [reach EXCEPT ![g] = ns] /\ ns # reach[g]
      BY <1>35 DEF A!Rewire
    <2>3. hist'.rewired = IF cyc.pc \in {"list", "fetch", "nodes2", "topology2"} THEN hist.rewired \cup {g} ELSE hist.rewired
      BY <1>35 DEF A!Rewire, HistoryType, Histories
    <2>4. hist.moved = {} /\ hist.rewired = {}
      BY <2>1 DEF NoticeInv
    <2>5. reach'[g] # reach[g]
      BY <2>2 DEF PanelType
    <2> QED
      BY <2>1, <2>3, <2>4, <2>5 DEF NoticeInv
  <1> QED
    BY <1>1, <1>2, <1>3, <1>4, <1>5, <1>6, <1>7, <1>8, <1>9, <1>10, <1>11, <1>12, <1>13, <1>14, <1>15, <1>16,
       <1>17, <1>18, <1>19, <1>20, <1>21, <1>22, <1>23, <1>24, <1>25, <1>26, <1>27, <1>28, <1>29, <1>30, <1>31,
       <1>32, <1>33, <1>34, <1>35
       DEF A!Next, A!Cycle, A!Faults

\* What is published has not been overtaken by a change.
LEMMA PublishedNoticed == ASSUME CycleType, NoticeInv PROVE A!ChangeNoticed
  BY DEF A!ChangeNoticed, NoticeInv, A!Publish, A!Targets, A!At

---------------------------------------------------------------------------
(* Who is seen throughout is not cleared.                                  *)

\* The connections of a user that have lasted through the cycle hold now.
SteadyNow ==
  \A u \in Queried : \A n \in hist.steady[u] :
    n \in up /\ since[u][n] = 0 /\ group[u] # "gone" /\ n \in reach[group[u]]

\* A sample that is published, or judged.
Judging == Sampled \/ cyc.pc \in {"judge"} \cup Again

\* What has lasted is in everything the cycle has read: the nodes, the scope of the user,
\* the user's answer unless unusable, the nodes once more, and in the end the sample.
SeenInv ==
  /\ SteadyNow
  /\ cyc.pc \in {"topology", "list", "fetch", "nodes2", "topology2", "members"} =>
       \A u \in Queried : hist.steady[u] \subseteq cyc.up
  /\ cyc.pc = "list" => \A u \in Queried : hist.steady[u] \subseteq A!Access(cyc.reach, group[u])
  /\ cyc.pc \in {"fetch", "nodes2", "topology2", "members"} =>
       \A u \in Queried : IF cyc.want[u] # "none" THEN hist.steady[u] \subseteq A!Access(cyc.reach, cyc.want[u])
                        ELSE cyc.flagged \/ hist.swapped \/ hist.steady[u] = {}
  /\ \A u \in Queried : /\ cyc.ans[u].st = "ok" => hist.steady[u] \subseteq cyc.ans[u].ips \cup cyc.ans[u].odd
                        /\ cyc.ans[u].st = "not_found" => hist.steady[u] = {}
  /\ cyc.pc \in {"topology2", "members", "again_topology", "again_details"} =>
       \A u \in Queried : hist.steady[u] \subseteq cyc.up2
  /\ Judging => \A u \in (Queried \cap cyc.known) \ cyc.unknown :
                  hist.swapped \/ hist.steady[u] \subseteq cyc.count[u] \cap cyc.need[u]
  /\ cyc.pc \in {"judge"} \cup Again => cyc.todo \cap cyc.unknown = {}
  /\ cyc.pc \in {"again_nodes", "again_topology", "again_details"} => \A u \in Queried \cap cyc.who : cyc.ans[u].st = "ok"

\* What has lasted becomes less, and holds.
LEMMA SteadyStep ==
  ASSUME PanelType, HistoryType, SteadyNow, [A!Next]_(A!vars), ~A!Begin
  PROVE  SteadyNow' /\ \A u \in Queried : hist'.steady[u] \subseteq hist.steady[u]
  <1> DEFINE Goal == SteadyNow' /\ \A u \in Queried : hist'.steady[u] \subseteq hist.steady[u]
  <1>l. ASSUME hist'.steady = A!Lasting(group', reach', up', since'), PanelType' PROVE Goal
    <2>1. \A u \in Queried : \A n \in hist'.steady[u] :
            n \in hist.steady[u] /\ n \in up' /\ since'[u][n] = 0 /\ group'[u] # "gone" /\ n \in A!Access(reach', group'[u])
      BY <1>l DEF A!Lasting
    <2>2. \A u \in Queried : \A n : n \in A!Access(reach', group'[u]) => n \in reach'[group'[u]]
      BY DEF A!Access
    <2> QED
      BY <2>1, <2>2 DEF SteadyNow
  <1>s. ASSUME hist'.steady = hist.steady, UNCHANGED A!panelVars PROVE Goal
    BY <1>s DEF SteadyNow, A!panelVars
  <1>p. PanelType'
    BY PanelTypeStep
  <1>1. CASE A!Tick
    <2>1. hist'.steady = A!Lasting(group', reach', up', since')
      BY <1>1 DEF A!Tick, HistoryType, Histories
    <2> QED
      BY <2>1, <1>p, <1>l
  <1>2. ASSUME NEW n \in Nodes, A!NodeChanges(n) PROVE Goal
    <2>1. hist'.steady = A!Lasting(group', reach', up', since')
      BY <1>2 DEF A!NodeChanges, HistoryType, Histories
    <2> QED
      BY <2>1, <1>p, <1>l
  <1>3. ASSUME NEW u \in Moving, NEW g \in A!Groups \cup {"gone"}, A!Regroup(u, g) PROVE Goal
    <2>1. hist'.steady = A!Lasting(group', reach', up', since')
      BY <1>3 DEF A!Regroup, HistoryType, Histories
    <2> QED
      BY <2>1, <1>p, <1>l
  <1>4. ASSUME NEW g \in A!Groups, A!Rewire(g) PROVE Goal
    <2>1. hist'.steady = A!Lasting(group', reach', up', since')
      BY <1>4 DEF A!Rewire, HistoryType, Histories
    <2> QED
      BY <2>1, <1>p, <1>l
  <1>5. ASSUME NEW u \in Moving, NEW n \in Nodes, A!Connect(u, n) PROVE Goal
    <2>1. hist' = hist /\ up' = up /\ reach' = reach /\ group' = group /\ since' = [since EXCEPT ![u][n] = 0]
      BY <1>5 DEF A!Connect
    <2>2. \A v \in Queried, k \in Nodes : since[v][k] = 0 => since'[v][k] = 0
      BY <2>1 DEF PanelType
    <2> QED
      BY <2>1, <2>2 DEF SteadyNow, HistoryType, Histories
  <1>6. CASE A!Begin
    BY <1>6
  <1>7. CASE A!Candidates
    BY <1>7, ListRead, <1>s
  <1>8. CASE UNCHANGED A!vars
    BY <1>8, <1>s DEF A!vars
  <1>9. CASE A!Load \/ A!Superseded \/ A!ReadNodes \/ A!ReadTopology \/ A!EndFetch \/ A!Members \/ A!Publish
    BY <1>9, <1>s DEF A!Load, A!Superseded, A!ReadNodes, A!ReadTopology, A!EndFetch, A!Members, A!Publish
  <1>10. CASE A!Account \/ A!SaveFallback \/ A!Pop \/ A!RecheckNodes \/ A!RecheckTopology \/ A!EndCycle \/
              A!CollectionFails \/ A!SaveFails \/ A!RecheckFails \/ A!Settings \/ A!TopicsChange \/ A!Watch
    BY <1>10, <1>s
       DEF A!Account, A!SaveFallback, A!Pop, A!RecheckNodes, A!RecheckTopology, A!EndCycle, A!CollectionFails,
           A!SaveFails, A!RecheckFails, A!Settings, A!TopicsChange, A!Watch
  <1>11. ASSUME NEW u \in Queried,
                A!Ask(u) \/ A!Answer(u) \/ A!Clear(u) \/ A!Punish(u) \/ A!Recheck(u) \/
                A!RecheckAnswer(u) \/ A!RecheckDetails(u) \/ A!Deferred(u)
      PROVE Goal
    BY <1>11, <1>s
       DEF A!Ask, A!Answer, A!Clear, A!Punish, A!Recheck, A!RecheckAnswer, A!RecheckDetails, A!Deferred
  <1> QED
    BY <1>1, <1>2, <1>3, <1>4, <1>5, <1>6, <1>7, <1>8, <1>9, <1>10, <1>11 DEF A!Next, A!Cycle, A!Faults

\* What has lasted is listed, or the answer is odd about it.
LEMMA SteadyAnswered ==
  ASSUME PanelType, SteadyNow, NEW u \in Queried, NEW a \in A!Answers(u), HistoryType
  PROVE  a.st = "ok" /\ hist.steady[u] \subseteq a.ips \cup a.odd
  <1>1. PICK odd : a = [st |-> "ok", maps |-> up \ odd, odd |-> odd, ips |-> {n \in up \ odd : A!Listed(u, n)}]
    BY DEF A!Answers
  <1>2. a.st = "ok" /\ a.odd = odd /\ a.ips = {n \in up \ odd : A!Listed(u, n)}
    BY <1>1
  <1>3. ASSUME NEW n \in hist.steady[u] PROVE n \in up /\ A!Listed(u, n)
    <2>1. n \in up /\ since[u][n] = 0 /\ asked[u] \in Nat
      BY SourceAssumption DEF SteadyNow, PanelType
    <2> QED
      BY <2>1, SourceAssumption DEF A!Listed
  <1> QED
    BY <1>2, <1>3

\* Every step keeps in sight what has lasted.
LEMMA SeenStep ==
  OneChange /\ PanelType /\ HistoryType /\ CycleType /\ CountInv /\ NoticeInv /\ SeenInv /\ [A!Next]_(A!vars)
    => SeenInv'
  <1> SUFFICES ASSUME OneChange, PanelType, HistoryType, CycleType, CountInv, NoticeInv, SeenInv,
                      [A!Next]_(A!vars)
      PROVE  SeenInv'
    OBVIOUS
  <1>b. A!Begin => cyc.pc = "turn" /\ cyc'.pc # "turn"
    BY NoCycleShape DEF A!Begin, A!At, A!Over, CycleType, Shape
  <1>t. cyc.pc # "turn" \/ cyc'.pc = cyc.pc => SteadyNow' /\ \A u \in Queried : hist'.steady[u] \subseteq hist.steady[u]
    BY <1>b, SteadyStep DEF SeenInv
  <1>o. A!NoAnswer.st = "none"
    BY DEF A!NoAnswer
  <1>i. ASSUME cyc' = A!NoCycle, cyc.pc # "turn" PROVE SeenInv'
    BY <1>i, <1>t, <1>o, NoCycleShape DEF SeenInv, Judging, Sampled, Again
  <1>1. CASE A!Superseded
    <2>1. cyc' = A!NoCycle /\ cyc.pc # "turn"
      BY <1>1 DEF A!Superseded, A!Over, A!At
    <2> QED
      BY <2>1, <1>i
  <1>2. CASE A!SaveFails
    <2>1. cyc' = A!NoCycle /\ cyc.pc # "turn"
      BY <1>2 DEF A!SaveFails, A!Over, A!At
    <2> QED
      BY <2>1, <1>i
  <1>3. CASE A!SaveFallback
    <2>1. cyc' = A!NoCycle /\ cyc.pc # "turn"
      BY <1>3 DEF A!SaveFallback, A!Over, A!At
    <2> QED
      BY <2>1, <1>i
  <1>4. CASE A!EndCycle
    <2>1. cyc' = A!NoCycle /\ cyc.pc # "turn"
      BY <1>4 DEF A!EndCycle, A!Over, A!At
    <2> QED
      BY <2>1, <1>i
  <1>5. CASE A!Load
    <2>1. cyc.pc = "idle" /\ cyc'.pc = "turn" /\ cyc'.ans = A!NoCycle.ans
      BY <1>5, NoCycleShape DEF A!Load, Shape, A!At
    <2> QED
      BY <2>1, <1>t, <1>o, NoCycleShape DEF SeenInv, Judging, Sampled, Again
  <1>6. CASE A!CollectionFails
    <2>1. cyc'.pc = "account" /\ cyc'.outcome = "failure" /\ cyc'.ans = cyc.ans
      BY <1>6 DEF A!CollectionFails, CycleType, Shape, A!At
    <2>2. hist' = hist /\ cyc.pc # "turn"
      BY <1>6 DEF A!CollectionFails, A!At
    <2> QED
      BY <2>1, <2>2, <1>t DEF SeenInv, Judging, Sampled, Again
  <1>7. CASE A!EndFetch
    <2>1. CASE cyc' = [cyc EXCEPT !.pc = "nodes2", !.todo = {}]
      <3>1. hist' = hist /\ cyc.pc = "fetch" /\ cyc'.pc = "nodes2" /\ cyc'.ans = cyc.ans
            /\ cyc'.up = cyc.up /\ cyc'.reach = cyc.reach /\ cyc'.want = cyc.want /\ cyc'.flagged = cyc.flagged
        BY <1>7, <2>1 DEF A!EndFetch, CycleType, Shape, A!At
      <3> QED
        BY <3>1, <1>t DEF SeenInv, Judging, Sampled, Again
    <2>2. CASE cyc' = [cyc EXCEPT !.pc = "account", !.todo = {}, !.outcome = "failure"]
      <3>1. hist' = hist /\ cyc.pc = "fetch" /\ cyc'.pc = "account" /\ cyc'.outcome = "failure"
            /\ cyc'.ans = cyc.ans
        BY <1>7, <2>2 DEF A!EndFetch, CycleType, Shape, A!At
      <3> QED
        BY <3>1, <1>t DEF SeenInv, Judging, Sampled, Again
    <2> QED
      BY <1>7, <2>1, <2>2 DEF A!EndFetch
  <1>8. ASSUME NEW u \in Queried, A!Ask(u)
      PROVE SeenInv'
    <2>1. cyc.pc = "fetch" /\ cyc'.pc = "fetch" /\ cyc'.ans = cyc.ans /\ cyc'.up = cyc.up
          /\ cyc'.reach = cyc.reach /\ cyc'.want = cyc.want /\ cyc'.flagged = cyc.flagged
      BY <1>8 DEF A!Ask, CycleType, Shape, A!At
    <2>2. hist' = hist /\ cyc.pc # "turn"
      BY <1>8 DEF A!Ask, A!At
    <2> QED
      BY <2>1, <2>2, <1>t DEF SeenInv, Judging, Sampled, Again
  <1>9. ASSUME NEW u \in Queried, A!Deferred(u)
      PROVE SeenInv'
    <2>1. cyc.pc = "fetch" /\ cyc'.pc = "fetch" /\ cyc'.ans = cyc.ans /\ cyc'.up = cyc.up
          /\ cyc'.reach = cyc.reach /\ cyc'.want = cyc.want /\ cyc'.flagged = cyc.flagged
      BY <1>9 DEF A!Deferred, CycleType, Shape, A!At
    <2>2. hist' = hist /\ cyc.pc # "turn"
      BY <1>9 DEF A!Deferred, A!At
    <2> QED
      BY <2>1, <2>2, <1>t DEF SeenInv, Judging, Sampled, Again
  <1>10. CASE A!Publish
    <2>1. cyc.pc = "publish" /\ cyc'.pc = "account" /\ cyc'.ans = cyc.ans /\ cyc'.known = cyc.known
          /\ cyc'.unknown = cyc.unknown /\ cyc'.count = cyc.count /\ cyc'.need = cyc.need
      BY <1>10 DEF A!Publish, CycleType, Shape, A!At
    <2>2. hist' = hist /\ cyc.pc # "turn"
      BY <1>10 DEF A!Publish, A!At
    <2> QED
      BY <2>1, <2>2, <1>t DEF SeenInv, Judging, Sampled, Again
  <1>11. CASE A!Pop
    <2>1. cyc.pc = "pop" /\ cyc'.pc = "judge" /\ cyc'.todo = Queried \ cyc.unknown /\ cyc'.ans = cyc.ans
          /\ cyc'.known = cyc.known /\ cyc'.unknown = cyc.unknown /\ cyc'.count = cyc.count /\ cyc'.need = cyc.need
      BY <1>11 DEF A!Pop, CycleType, Shape, A!At
    <2>2. hist' = hist /\ cyc.pc # "turn"
      BY <1>11 DEF A!Pop, A!At
    <2> QED
      BY <2>1, <2>2, <1>t DEF SeenInv, Judging, Sampled, Again
  <1>12. ASSUME NEW u \in Queried, A!Clear(u)
      PROVE SeenInv'
    <2>1. cyc.pc = "judge" /\ cyc'.pc = "judge" /\ cyc'.todo \subseteq cyc.todo /\ cyc'.ans = cyc.ans
          /\ cyc'.known = cyc.known /\ cyc'.unknown = cyc.unknown /\ cyc'.count = cyc.count /\ cyc'.need = cyc.need
      BY <1>12 DEF A!Clear, CycleType, Shape, A!At
    <2>2. hist' = hist /\ cyc.pc # "turn"
      BY <1>12 DEF A!Clear, A!At
    <2> QED
      BY <2>1, <2>2, <1>t DEF SeenInv, Judging, Sampled, Again
  <1>13. ASSUME NEW u \in Queried, A!Punish(u)
      PROVE SeenInv'
    <2>1. cyc.pc = "judge" /\ cyc'.pc = "judge" /\ cyc'.todo \subseteq cyc.todo /\ cyc'.ans = cyc.ans
          /\ cyc'.known = cyc.known /\ cyc'.unknown = cyc.unknown /\ cyc'.count = cyc.count /\ cyc'.need = cyc.need
      BY <1>13 DEF A!Punish, CycleType, Shape, A!At
    <2>2. hist' = hist /\ cyc.pc # "turn"
      BY <1>13 DEF A!Punish, A!At
    <2> QED
      BY <2>1, <2>2, <1>t DEF SeenInv, Judging, Sampled, Again
  <1>14. CASE A!RecheckFails
    <2>1. hist' = hist /\ cyc.pc \in Again /\ cyc'.pc = "judge" /\ cyc'.todo \subseteq cyc.todo
          /\ cyc'.ans = cyc.ans
          /\ cyc'.known = cyc.known /\ cyc'.unknown = cyc.unknown /\ cyc'.count = cyc.count /\ cyc'.need = cyc.need
      BY <1>14 DEF A!RecheckFails, CycleType, Shape, Again
    <2> QED
      BY <2>1, <1>t DEF SeenInv, Judging, Sampled, Again
  <1>15. CASE A!RecheckTopology
    <2>1. cyc'.who = cyc.who /\ cyc.pc = "again_topology" /\ cyc'.pc = "again_details" /\ cyc'.todo = cyc.todo
          /\ cyc'.ans = cyc.ans /\ cyc'.up2 = cyc.up2
          /\ cyc'.known = cyc.known /\ cyc'.unknown = cyc.unknown /\ cyc'.count = cyc.count /\ cyc'.need = cyc.need
      BY <1>15 DEF A!RecheckTopology, CycleType, Shape, A!At
    <2>2. hist' = hist /\ cyc.pc # "turn"
      BY <1>15 DEF A!RecheckTopology, A!At
    <2> QED
      BY <2>1, <2>2, <1>t DEF SeenInv, Judging, Sampled, Again
  <1>16. CASE A!RecheckNodes
    <2>1. hist' = hist /\ cyc'.who = cyc.who /\ cyc.pc = "again_nodes" /\ cyc'.pc = "again_topology"
          /\ cyc'.todo = cyc.todo /\ cyc'.ans = cyc.ans /\ cyc'.up2 = up
          /\ cyc'.known = cyc.known /\ cyc'.unknown = cyc.unknown /\ cyc'.count = cyc.count /\ cyc'.need = cyc.need
      BY <1>16 DEF A!RecheckNodes, CycleType, Shape, A!At
    <2>2. \A u \in Queried : hist.steady[u] \subseteq up
      BY DEF SeenInv, SteadyNow
    <2> QED
      BY <2>1, <2>2, <1>t DEF SeenInv, Judging, Sampled, Again
  <1>17. CASE A!ReadNodes
    <2>1. /\ hist' = hist
          /\ \/ cyc.pc = "nodes" /\ cyc'.pc = "topology" /\ cyc'.up = up
             \/ cyc.pc = "nodes2" /\ cyc'.pc = "topology2" /\ cyc'.up2 = up /\ cyc'.up = cyc.up
          /\ cyc'.reach = cyc.reach /\ cyc'.want = cyc.want /\ cyc'.flagged = cyc.flagged /\ cyc'.ans = cyc.ans
      BY <1>17 DEF A!ReadNodes, CycleType, Shape, A!At
    <2>2. \A u \in Queried : hist.steady[u] \subseteq up
      BY DEF SeenInv, SteadyNow
    <2> QED
      BY <2>1, <2>2, <1>t DEF SeenInv, Judging, Sampled, Again
  <1>18. CASE A!ReadTopology
    <2>1. /\ hist' = hist
          /\ \/ cyc.pc = "topology" /\ cyc'.pc = "list" /\ cyc'.reach = reach
             \/ cyc.pc = "topology2" /\ cyc'.pc = "members" /\ cyc'.reach = cyc.reach
          /\ cyc'.up = cyc.up /\ cyc'.up2 = cyc.up2 /\ cyc'.want = cyc.want /\ cyc'.flagged = cyc.flagged
          /\ cyc'.ans = cyc.ans
      BY <1>18 DEF A!ReadTopology, CycleType, Shape, A!At
    <2>2. \A u \in Queried : hist.steady[u] \subseteq A!Access(reach, group[u])
      BY DEF SeenInv, SteadyNow, A!Access, PanelType
    <2>3. group' = group
      BY <1>18 DEF A!ReadTopology, A!panelVars
    <2> QED
      BY <2>1, <2>2, <2>3, <1>t DEF SeenInv, Judging, Sampled, Again
  <1>19. CASE A!Settings
    <2>1. /\ cyc'.pc = cyc.pc /\ cyc'.outcome = cyc.outcome /\ cyc'.todo = cyc.todo /\ cyc'.ans = cyc.ans
          /\ cyc'.up2 = cyc.up2
          /\ cyc'.who = cyc.who
          /\ cyc'.up = cyc.up /\ cyc'.reach = cyc.reach /\ cyc'.want = cyc.want /\ cyc'.flagged = cyc.flagged
          /\ cyc'.known = cyc.known /\ cyc'.unknown = cyc.unknown /\ cyc'.count = cyc.count /\ cyc'.need = cyc.need
      BY <1>19 DEF A!Settings, CycleType, Shape
    <2>2. UNCHANGED <<hist, group>>
      BY <1>19 DEF A!Settings, A!panelVars
    <2> QED
      BY <2>1, <2>2, <1>t DEF SeenInv, Judging, Sampled, Again
  <1>20. CASE A!TopicsChange
    <2>1. /\ cyc'.pc = cyc.pc /\ cyc'.outcome = cyc.outcome /\ cyc'.todo = cyc.todo /\ cyc'.ans = cyc.ans
          /\ cyc'.up2 = cyc.up2
          /\ cyc'.who = cyc.who
          /\ cyc'.up = cyc.up /\ cyc'.reach = cyc.reach /\ cyc'.want = cyc.want /\ cyc'.flagged = cyc.flagged
          /\ cyc'.known = cyc.known /\ cyc'.unknown = cyc.unknown /\ cyc'.count = cyc.count /\ cyc'.need = cyc.need
      BY <1>20 DEF A!TopicsChange, CycleType, Shape
    <2>2. UNCHANGED <<hist, group>>
      BY <1>20 DEF A!TopicsChange, A!panelVars
    <2> QED
      BY <2>1, <2>2, <1>t DEF SeenInv, Judging, Sampled, Again
  <1>21. CASE A!Watch
    <2>1. /\ cyc'.pc = cyc.pc /\ cyc'.outcome = cyc.outcome /\ cyc'.todo = cyc.todo /\ cyc'.ans = cyc.ans
          /\ cyc'.up2 = cyc.up2
          /\ cyc'.who = cyc.who
          /\ cyc'.up = cyc.up /\ cyc'.reach = cyc.reach /\ cyc'.want = cyc.want /\ cyc'.flagged = cyc.flagged
          /\ cyc'.known = cyc.known /\ cyc'.unknown = cyc.unknown /\ cyc'.count = cyc.count /\ cyc'.need = cyc.need
      BY <1>21 DEF A!Watch, CycleType, Shape
    <2>2. UNCHANGED <<hist, group>>
      BY <1>21 DEF A!Watch, A!panelVars
    <2> QED
      BY <2>1, <2>2, <1>t DEF SeenInv, Judging, Sampled, Again
  <1>22. CASE A!Account
    <2>1. CASE cyc' = A!NoCycle
      BY <1>22, <2>1, <1>i DEF A!Account, A!At
    <2>2. CASE cyc' # A!NoCycle
      <3>1. hist' = hist /\ cyc.pc = "account"
        BY <1>22 DEF A!Account, A!At
      <3>2. CASE cyc' = [cyc EXCEPT !.pc = "save"]
        <4>1. cyc'.pc = "save" /\ cyc'.ans = cyc.ans
          BY <3>2 DEF CycleType, Shape
        <4> QED
          BY <3>1, <4>1, <1>t DEF SeenInv, Judging, Sampled, Again
      <3>3. CASE cyc' = [cyc EXCEPT !.pc = "pop"] /\ cyc.outcome = "ready"
        <4>1. cyc'.pc = "pop" /\ cyc'.ans = cyc.ans
              /\ cyc'.known = cyc.known /\ cyc'.unknown = cyc.unknown /\ cyc'.count = cyc.count
              /\ cyc'.need = cyc.need
          BY <3>3 DEF CycleType, Shape
        <4> QED
          BY <3>1, <3>3, <4>1, <1>t DEF SeenInv, Judging, Sampled, Again
      <3> QED
        BY <1>22, <2>2, <3>2, <3>3 DEF A!Account, A!Go, A!Over
    <2> QED
      BY <2>1, <2>2
  <1>23. CASE A!Begin
    <2>1. UNCHANGED A!panelVars
      BY <1>23 DEF A!Begin
    <2>2. CASE cyc' = A!NoCycle
      <3>1. hist' = hist
        BY <1>23, <2>2, NoCycleShape DEF A!Begin, CycleType, Shape
      <3>2. SteadyNow'
        BY <2>1, <3>1 DEF SeenInv, SteadyNow, A!panelVars
      <3> QED
        BY <2>2, <3>2, <1>o, NoCycleShape DEF SeenInv, Judging, Sampled, Again
    <2>3. CASE cyc' # A!NoCycle
      <3>1. /\ cyc.pc = "turn" /\ cyc'.pc = "nodes" /\ cyc'.ans = cyc.ans
            /\ hist' = [A!NoHistory EXCEPT !.steady = [u \in Queried |->
                                                  {n \in up : since[u][n] = 0 /\ group[u] # "gone" /\ n \in reach[group[u]]}]]
        BY <1>23, <2>3 DEF A!Begin, A!Over, CycleType, Shape, A!At
      <3>2. SteadyNow'
        BY <2>1, <3>1 DEF SteadyNow, A!NoHistory, A!panelVars
      <3>3. \A u \in Queried : cyc'.ans[u].st = "none"
        BY <3>1 DEF CountInv, A!NoAnswer
      <3> QED
        BY <3>1, <3>2, <3>3 DEF SeenInv, Judging, Sampled, Again
    <2> QED
      BY <2>2, <2>3
  <1>24. CASE A!Candidates
    <2>1. PICK listed \in SUBSET A!Online, flagged \in BOOLEAN :
            /\ cyc.pc = "list"
            /\ cyc' = A!NoCycle \/ Listing(listed, flagged)
            /\ listed = A!Online \/ flagged \/ hist'.swapped
            /\ hist'.steady = hist.steady
            /\ UNCHANGED A!panelVars
      BY <1>24, ListRead
    <2>2. CASE cyc' # A!NoCycle
      <3>1. /\ cyc'.pc \in {"nodes2", "fetch"} /\ cyc'.flagged = flagged /\ cyc'.reach = cyc.reach
            /\ cyc'.up = cyc.up
            /\ \A u \in Queried : cyc'.want[u] = IF u \in listed THEN group[u] ELSE "none"
            /\ cyc'.ans = cyc.ans
        BY <2>1, <2>2, ListTaken
      <3>2. ASSUME NEW u \in Queried, cyc'.want[u] = "none", listed = A!Online PROVE hist.steady[u] = {}
        <4>1. u \notin A!Online
          BY <3>1, <3>2 DEF A!Online, PanelType, A!Groups
        <4> QED
          BY <4>1, SourceAssumption DEF A!Online, SeenInv, SteadyNow, HistoryType, Histories
      <3>3. \A u \in Queried : cyc'.want[u] # "none" => cyc'.want[u] = group[u]
        BY <3>1
      <3> QED
        BY <2>1, <3>1, <3>2, <3>3, <1>t DEF SeenInv, Judging, Sampled, Again
    <2> QED
      BY <2>1, <2>2, <1>i
  <1>25. ASSUME NEW u \in Queried, A!Answer(u)
      PROVE SeenInv'
    <2>0. PICK a \in (IF group[u] = "gone" THEN {[A!NoAnswer EXCEPT !.st = "not_found"]} ELSE A!Answers(u))
                      \cup {[A!NoAnswer EXCEPT !.st = s] : s \in IF A!May("fail") THEN {"invalid", "failed"} ELSE {}} :
            cyc' = [cyc EXCEPT !.asked = @ \ {u}, !.ans[u] = a]
      BY <1>25 DEF A!Answer
    <2>n. \A s : [A!NoAnswer EXCEPT !.st = s].st = s
      BY DEF A!NoAnswer
    <2>1. /\ cyc' = [cyc EXCEPT !.asked = @ \ {u}, !.ans[u] = a]
          /\ \/ a.st = "not_found" /\ group[u] = "gone"
             \/ a \in A!Answers(u)
             \/ a.st \in {"invalid", "failed"}
      BY <2>0, <2>n
    <2>2. a.st = "ok" => hist.steady[u] \subseteq a.ips \cup a.odd
      BY <2>1, SteadyAnswered DEF SeenInv
    <2>3. a.st = "not_found" => hist.steady[u] = {}
      BY <2>1, SteadyAnswered DEF SeenInv, SteadyNow, HistoryType, Histories
    <2>4. hist' = hist /\ cyc.pc = "fetch" /\ cyc'.pc = "fetch" /\ cyc'.ans = [cyc.ans EXCEPT ![u] = a]
          /\ cyc'.up = cyc.up /\ cyc'.reach = cyc.reach /\ cyc'.want = cyc.want /\ cyc'.flagged = cyc.flagged
      BY <1>25, <2>1 DEF A!Answer, A!At, CycleType, Shape
    <2>5. cyc.ans \in [Queried -> Replies]
      BY DEF CycleType, Shape
    <2> QED
      BY <2>2, <2>3, <2>4, <2>5, <1>t DEF SeenInv, Judging, Sampled, Again
  <1>26. ASSUME NEW u \in Queried, A!Recheck(u)
      PROVE SeenInv'
    <2>1. /\ hist' = hist /\ cyc.pc = "judge" /\ cyc'.pc = "again" /\ cyc'.todo = cyc.todo
          /\ cyc'.ans = [cyc.ans EXCEPT ![u] = A!NoAnswer]
          /\ cyc'.known = cyc.known /\ cyc'.unknown = cyc.unknown /\ cyc'.count = cyc.count /\ cyc'.need = cyc.need
      BY <1>26 DEF A!Recheck, A!At, CycleType, Shape
    <2>2. cyc.ans \in [Queried -> Replies]
      BY DEF CycleType, Shape
    <2> QED
      BY <2>1, <2>2, <1>t, <1>o DEF SeenInv, Judging, Sampled, Again
  <1>27. ASSUME NEW u \in Queried, A!RecheckAnswer(u)
      PROVE SeenInv'
    <2>1. PICK a \in A!Answers(u) : cyc' = [cyc EXCEPT !.pc = "again_nodes", !.ans[u] = a]
      BY <1>27 DEF A!RecheckAnswer
    <2>2. a.st = "ok" /\ hist.steady[u] \subseteq a.ips \cup a.odd
      BY <2>1, SteadyAnswered DEF SeenInv
    <2>3. /\ hist' = hist /\ cyc'.who = cyc.who /\ u \in cyc.who /\ cyc.pc = "again" /\ cyc'.pc = "again_nodes"
          /\ cyc'.todo = cyc.todo /\ cyc'.ans = [cyc.ans EXCEPT ![u] = a]
          /\ cyc'.known = cyc.known /\ cyc'.unknown = cyc.unknown /\ cyc'.count = cyc.count /\ cyc'.need = cyc.need
      BY <1>27, <2>1 DEF A!RecheckAnswer, A!At, CycleType, Shape
    <2>5. cyc.ans \in [Queried -> Replies]
      BY DEF CycleType, Shape
    <2>6. \A v \in Queried \cap cyc.who : v = u
      BY <2>3 DEF CountInv, Again
    <2> QED
      BY <2>2, <2>3, <2>5, <2>6, <1>t DEF SeenInv, Judging, Sampled, Again
  <1>28. ASSUME NEW u \in Queried, A!RecheckDetails(u)
      PROVE SeenInv'
    <2> DEFINE stable == cyc.need[u] \cap cyc.up2
    <2>1. /\ hist' = hist /\ cyc.pc = "again_details" /\ cyc'.pc = "judge" /\ cyc'.todo \subseteq cyc.todo
          /\ cyc'.ans = cyc.ans
          /\ cyc'.known = cyc.known /\ cyc'.unknown = cyc.unknown /\ cyc'.need = cyc.need
          /\ \/ cyc'.count = cyc.count
             \/ stable \cap cyc.ans[u].odd = {} /\ cyc.ans[u].st = "ok"
                /\ cyc'.count = [cyc.count EXCEPT ![u] = cyc.ans[u].ips \cap stable]
      <3>1. cyc.ans[u].st = "ok"
        BY <1>28 DEF A!RecheckDetails, SeenInv, A!At, Again
      <3> QED
        BY <1>28, <3>1 DEF A!RecheckDetails, A!At, CycleType, Shape
    <2>2. cyc.count \in [Queried -> SUBSET Nodes]
      BY DEF CycleType, Shape
    <2>3. hist.steady[u] \subseteq cyc.need[u] /\ cyc'.count # cyc.count => hist.steady[u] \subseteq cyc'.count[u]
      BY <2>1, <2>2 DEF SeenInv
    <2>4. \A v \in Queried \ {u} : cyc'.count[v] = cyc.count[v]
      BY <2>1, <2>2
    <2> QED
      BY <2>1, <2>3, <2>4, <1>t DEF SeenInv, Judging, Sampled, Again
  <1>29. CASE A!Members
    <2>1. PICK now, flagged :
            /\ cyc.pc = "members"
            /\ cyc' = A!NoCycle \/ Sampling(now, flagged)
            /\ UNCHANGED <<A!panelVars, hist>>
      BY <1>29, MembersRead
    <2>2. CASE cyc' # A!NoCycle
      <3>1. ASSUME NEW u \in A!Targets \ A!Unknown(now)
            PROVE  hist.steady[u] \subseteq cyc.ans[u].ips \cap A!Stable(u)
        <4>1. cyc.ans[u].st \in {"ok", "not_found"}
          BY DEF A!Unknown
        <4>2. hist.steady[u] \subseteq A!Stable(u)
          BY <2>1 DEF SeenInv, A!Targets, A!Stable, A!Applicable
        <4>3. cyc.ans[u].st = "ok" => A!Stable(u) \cap cyc.ans[u].odd = {}
          BY DEF A!Unknown
        <4>4. u \in Queried
          BY DEF A!Targets
        <4> QED
          BY <4>1, <4>2, <4>3, <4>4 DEF SeenInv
      <3>2. ASSUME NEW u \in Queried \ A!Targets, A!AbsenceComplete(flagged)
            PROVE  hist.swapped \/ hist.steady[u] = {}
        BY <2>1, <3>2 DEF SeenInv, A!Targets, A!AbsenceComplete
      <3>3. SteadyNow'
        BY <2>1 DEF SeenInv, SteadyNow, A!panelVars
      <3>4. CASE cyc'.pc = "account" /\ cyc'.outcome = "skipped"
        <4>1. cyc'.ans = cyc.ans
          BY <2>1, <2>2, SampleTaken
        <4> QED
          BY <2>1, <3>3, <3>4, <4>1 DEF SeenInv, Judging, Sampled, Again
      <3>5. CASE cyc'.pc = "publish"
        <4>1. /\ cyc'.ans = cyc.ans /\ cyc'.unknown = A!Unknown(now)
              /\ cyc'.known = IF A!AbsenceComplete(flagged) THEN Queried ELSE A!Targets \ A!Unknown(now)
              /\ \A u \in Queried : cyc'.need[u] = IF u \in A!Targets \ A!Unknown(now) THEN A!Stable(u) ELSE {}
              /\ \A u \in Queried :
                   cyc'.count[u] = IF u \in A!Targets \ A!Unknown(now) THEN cyc.ans[u].ips \cap A!Stable(u) ELSE {}
          BY <2>1, <2>2, <3>5, SampleTaken
        <4>2. ASSUME NEW u \in (Queried \cap cyc'.known) \ cyc'.unknown
              PROVE  hist.swapped \/ hist.steady[u] \subseteq cyc'.count[u] \cap cyc'.need[u]
          <5>1. CASE u \in A!Targets \ A!Unknown(now)
            BY <3>1, <4>1, <5>1, ZenonT(40)
          <5>2. CASE u \notin A!Targets \ A!Unknown(now)
            <6>1. u \notin A!Targets /\ A!AbsenceComplete(flagged)
              BY <4>1, <4>2, <5>2
            <6> QED
              BY <3>2, <6>1
          <5> QED
            BY <5>1, <5>2
        <4> QED
          BY <2>1, <3>3, <3>5, <4>1, <4>2 DEF SeenInv, Judging, Sampled, Again
      <3> QED
        BY <2>1, <2>2, <3>4, <3>5, SampleTaken
    <2> QED
      BY <2>1, <2>2, <1>i
  <1>30. CASE A!Tick
    <2>1. UNCHANGED <<cyc, group>> /\ hist'.swapped = hist.swapped
      BY <1>30 DEF A!Tick, HistoryType, Histories, A!panelVars
    <2> QED
      BY <2>1, <1>t DEF SeenInv, Judging, Sampled
  <1>31. ASSUME NEW u \in Moving, NEW n \in Nodes, A!Connect(u, n) PROVE SeenInv'
    <2>1. UNCHANGED <<cyc, group>> /\ hist'.swapped = hist.swapped
      BY <1>31 DEF A!Connect, HistoryType, Histories, A!panelVars
    <2> QED
      BY <2>1, <1>t DEF SeenInv, Judging, Sampled
  <1>32. ASSUME NEW n \in Nodes, A!NodeChanges(n) PROVE SeenInv'
    <2>1. UNCHANGED <<cyc, group>> /\ hist'.swapped = hist.swapped
      BY <1>32 DEF A!NodeChanges, HistoryType, Histories, A!panelVars
    <2> QED
      BY <2>1, <1>t DEF SeenInv, Judging, Sampled
  <1>33. ASSUME NEW g \in A!Groups, A!Rewire(g) PROVE SeenInv'
    <2>1. UNCHANGED <<cyc, group>> /\ hist'.swapped = hist.swapped
      BY <1>33 DEF A!Rewire, HistoryType, Histories, A!panelVars
    <2> QED
      BY <2>1, <1>t DEF SeenInv, Judging, Sampled
  <1>34. CASE UNCHANGED A!vars
    <2>1. UNCHANGED <<cyc, group>> /\ hist'.swapped = hist.swapped
      BY <1>34 DEF A!vars, A!panelVars
    <2> QED
      BY <2>1, <1>t DEF SeenInv, Judging, Sampled
  <1>35. ASSUME NEW u \in Moving, NEW g \in A!Groups \cup {"gone"}, A!Regroup(u, g) PROVE SeenInv'
    <2>m. PICK steady, moved : hist' = [hist EXCEPT !.steady = steady, !.changes = @ + 1, !.moved = moved]
      BY <1>35 DEF A!Regroup
    <2>n. hist'.swapped = hist.swapped
      BY <2>m DEF HistoryType, Histories
    <2>0. hist.changes < MaxChanges /\ cyc' = cyc /\ reach' = reach
      BY <1>35 DEF A!Regroup
    <2>1. hist.changes = 0 /\ cyc' = cyc /\ reach' = reach /\ hist'.swapped = hist.swapped
      BY <2>0, <2>n, SourceAssumption DEF HistoryType, Histories, OneChange
    <2>2. ASSUME cyc.pc = "list", NEW v \in Queried
          PROVE  hist'.steady[v] \subseteq A!Access(cyc.reach, group'[v])
      <3>1. cyc.reach = reach'
        BY <2>1, <2>2 DEF NoticeInv
      <3>2. \A n \in hist'.steady[v] : group'[v] # "gone" /\ n \in reach'[group'[v]]
        BY <2>1, <1>t DEF SteadyNow
      <3>3. PanelType'
        BY PanelTypeStep
      <3> QED
        BY <3>1, <3>2, <3>3 DEF A!Access, PanelType
    <2> QED
      BY <2>1, <2>2, <1>t DEF SeenInv, Judging, Sampled
  <1> QED
    BY <1>1, <1>2, <1>3, <1>4, <1>5, <1>6, <1>7, <1>8, <1>9, <1>10, <1>11, <1>12, <1>13, <1>14, <1>15, <1>16,
       <1>17, <1>18, <1>19, <1>20, <1>21, <1>22, <1>23, <1>24, <1>25, <1>26, <1>27, <1>28, <1>29, <1>30, <1>31,
       <1>32, <1>33, <1>34, <1>35
       DEF A!Next, A!Cycle, A!Faults

\* The module of the source counts as this one does.
LEMMA SourceCardinality == ASSUME NEW S PROVE A!Cardinality(S) = Cardinality(S)
  BY DEF A!Cardinality, Cardinality

\* Who is wholly known not to be over the limit has been connected to no more nodes throughout.
LEMMA ClearedSeen ==
  ASSUME PanelType, HistoryType, CycleType, SeenInv, NEW u \in Queried, A!Clear(u)
  PROVE  hist.swapped \/ Cardinality(hist.steady[u]) <= Limit
  <1>1. u \in (Queried \cap cyc.known) \ cyc.unknown /\ Judging /\ ~A!Many(u)
    BY DEF A!Clear, SeenInv, Judging, A!At
  <1>2. IsFiniteSet(cyc.count[u]) /\ cyc.count[u] \subseteq Nodes
    BY SourceAssumption, FS_Subset DEF CycleType, Shape
  <1>3. CASE hist.steady[u] \subseteq cyc.count[u]
    <2>1. IsFiniteSet(hist.steady[u]) /\ Cardinality(hist.steady[u]) <= Cardinality(cyc.count[u])
      BY <1>2, <1>3, FS_Subset
    <2>2. Cardinality(hist.steady[u]) \in Nat /\ Cardinality(cyc.count[u]) \in Nat
      BY <1>2, <2>1, FS_CardinalityType
    <2> QED
      BY <1>1, <2>1, <2>2, SourceAssumption, SourceCardinality DEF A!Many
  <1> QED
    BY <1>1, <1>3 DEF SeenInv

\* What the API source keeps whatever changes: what it has counted, and the failures in a row.
EvidenceInv == PanelType /\ HealthType /\ CycleType /\ HistoryType /\ FallbackInv /\ CountInv

\* What it keeps when no change of a cycle undoes another one: what it has noticed and seen.
LookedInv == EvidenceInv /\ NoticeInv /\ SeenInv

\* The first state has read nothing, has no history and counts no failure.
LEMMA SourceBegin == A!Init => LookedInv
  <1> SUFFICES ASSUME A!Init PROVE LookedInv
    OBVIOUS
  <1>1. /\ cyc.pc = "idle" /\ ~cyc.cfg /\ cyc.asked = {} /\ cyc.who = {}
        /\ \A u \in Queried : cyc.ans[u] = A!NoAnswer
    BY NoCycleShape DEF A!Init
  <1>2. A!NoAnswer.ips = {} /\ A!NoAnswer.st = "none"
    BY DEF A!NoAnswer
  <1>3. hist.steady = [u \in Queried |-> {}] /\ hist.moved = {} /\ hist.rewired = {}
    BY DEF A!Init, A!NoHistory, A!Nothing
  <1>4. FallbackInv
    BY <1>1, SourceAssumption DEF A!Init, FallbackInv
  <1>5. CountInv
    BY <1>1, <1>2 DEF CountInv, Sampled, Again
  <1>6. NoticeInv
    BY <1>1, <1>3 DEF NoticeInv
  <1>7. SeenInv
    BY <1>1, <1>2, <1>3 DEF SeenInv, SteadyNow, Judging, Sampled, Again
  <1> QED
    BY <1>4, <1>5, <1>6, <1>7, SourceTypeBegin DEF EvidenceInv, LookedInv

\* Every step keeps what has been counted.
LEMMA EvidenceStep == EvidenceInv /\ [A!Next]_(A!vars) => EvidenceInv'
  BY PanelTypeStep, HealthTypeStep, CycleTypeStep, HistoryTypeStep, FallbackStep, CountStep DEF EvidenceInv

\* Punishments count recent connections, and the logs are turned to after as many failures
\* as the threshold asks for, however often groups and memberships change.
THEOREM PunishmentsRecent == A!Spec => [][A!CountsReal /\ A!FallbackEarned]_(A!vars)
  <1>1. A!Init => EvidenceInv
    BY SourceBegin DEF LookedInv
  <1>2. EvidenceInv /\ [A!Next]_(A!vars) => A!CountsReal /\ A!FallbackEarned
    BY PunishedRecent, FallbackStep DEF EvidenceInv
  <1> QED
    BY <1>1, <1>2, EvidenceStep, PTL DEF A!Spec

\* LookedInv holds throughout a behaviour in which no change of a cycle undoes another one.
LEMMA Looks == ASSUME OneChange PROVE A!Spec => []LookedInv
  <1>1. A!Init => LookedInv
    BY SourceBegin
  <1>2. LookedInv /\ [A!Next]_(A!vars) => LookedInv'
    BY EvidenceStep, NoticeStep, SeenStep DEF LookedInv, EvidenceInv
  <1> QED
    BY <1>1, <1>2, PTL DEF A!Spec

\* What is published, counted and given up for the logs is what holds now, as long as no
\* change of a cycle undoes another one (publish_api_snapshot, punishment_observation_is_current,
\* _account_collection_cycle).
THEOREM EvidenceIsCurrent == ASSUME OneChange PROVE A!Spec => EvidenceCurrent
  <1>1. LookedInv /\ [A!Next]_(A!vars) => A!ChangeNoticed /\ A!CountsReal /\ A!FallbackEarned
    BY PublishedNoticed, PunishedRecent, FallbackStep DEF LookedInv, EvidenceInv
  <1>2. A!Spec => [][A!ChangeNoticed /\ A!CountsReal /\ A!FallbackEarned]_(A!vars)
    BY <1>1, Looks, PTL DEF A!Spec
  <1> QED
    BY <1>2 DEF EvidenceCurrent, A!EvidenceCurrent

\* Nobody is declared back to normal while connected to more nodes than the limit allows
\* throughout the cycle, as long as no change of a cycle undoes another one.
THEOREM SteadyStaysSeen == ASSUME OneChange PROVE A!Spec => SteadySeen
  <1> DEFINE Seeing == \A u \in Queried : A!Clear(u) => hist.swapped \/ A!Cardinality(hist.steady[u]) <= Limit
  <1>1. LookedInv => Seeing
    BY ClearedSeen, SourceCardinality DEF LookedInv, EvidenceInv
  <1>2. A!Spec => [][Seeing]_(A!vars)
    BY <1>1, Looks, PTL DEF A!Spec
  <1> QED
    BY <1>2 DEF SteadySeen, A!SteadySeen
=============================================================================
