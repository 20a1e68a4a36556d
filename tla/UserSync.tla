------------------------------ MODULE UserSync ------------------------------
(***************************************************************************)
(* The mirror of the panel's users in the users table (utils/user_sync.py, *)
(* fetch_all_users_raw of utils/panel_api/users.py, UserCRUD): the full    *)
(* synchronisation, the fetch of a single user, the metadata cache, and    *)
(* the admission of mirrors and IP collections, which take turns on the    *)
(* panel (utils/panel_workload.py).                                        *)
(*                                                                         *)
(* A mirror reads the table, then the panel page by page, then writes and  *)
(* deletes rows, with an await between any two of these; the panel, the    *)
(* operators and single fetches change what it has read meanwhile.  It     *)
(* compares rows column by column, times included, so that it notices every *)
(* write: a row says whether it was last written before ("old") or after   *)
(* ("new") the last snapshot.                                              *)
(***************************************************************************)
EXTENDS Integers, FiniteSets

CONSTANTS
  Users,      \* user names, as numbers in the order the panel sorts them
  Busy,       \* the users whose facts and rows are changed from outside
  PageSize,   \* limit of a page of /api/users
  Scenarios   \* sets of disturbances, one of which a behaviour is exposed to

\* "member"    users are created and deleted on the panel
\* "facts"     groups or owner of a user change on the panel
\* "local"     an operator, or the staging of a ban, writes a row
\* "fetch"     single users are fetched
\* "fail"      a panel request or a SQL session fails
\* "cancel"    a task is cancelled
\* "crash"     the process is restarted
\* "settings"  the interval is extended, or the settings cannot be read
\* "manual"    an operator asks for a sync
\* "collect"   IP addresses are collected from the panel's API
DisturbanceKinds == {"member", "facts", "local", "fetch", "fail", "cancel", "crash", "settings", "manual", "collect"}

ASSUME ConstantsAssumption ==
  /\ Users \subseteq Nat /\ IsFiniteSet(Users)
  /\ Busy \subseteq Users
  /\ PageSize \in Nat \ {0}
  /\ Scenarios \subseteq SUBSET DisturbanceKinds

Callers == {"loop", "collector", "manual"}
NoOne == "no one"
Facts == {"x", "y"}

VARIABLES
  may,       \* the disturbances of this behaviour
  panel,     \* the facts of each user on the panel, or "gone"
  rows,      \* the users table
  cache,     \* USER_METADATA_CACHE, or "none"
  fetch,     \* fetch_and_sync_single_user of each user: "none", "asked", or the answer
  due,       \* _due_sync_interval() answers an interval
  syncLock,  \* holder of _sync_lock
  workload,  \* holder of _workload_lock
  pc,        \* where each caller stands
  m          \* the mirror in progress; its fields absent and present are ghosts, the
             \* users gone from, and on, the panel at some moment since the snapshot

tableVars == <<rows, cache>>
turnVars == <<due, syncLock, workload, pc>>
vars == <<may, panel, tableVars, fetch, turnVars, m>>

May(d) == d \in may

\* A row: panel-owned columns, whether local columns are set, when it was written.
NoRow == [facts |-> "none", local |-> FALSE, at |-> "old"]
HasRow(u) == rows[u] # NoRow
OnPanel == {u \in Users : panel[u] # "gone"}
Nobody == [u \in Users |-> "none"]

NoMirror == [pc |-> "off", by |-> NoOne, snap |-> {}, seen |-> Nobody, first |-> 0, offset |-> 0, totals |-> {},
             changed |-> FALSE, todo |-> {}, gone |-> {}, errors |-> FALSE, absent |-> {}, present |-> {}]

Init ==
  /\ may \in Scenarios
  /\ panel = [u \in Users |-> "x"]
  /\ rows = [u \in Users |-> [facts |-> "x", local |-> FALSE, at |-> "old"]]
  /\ cache = [u \in Users |-> "x"]
  /\ fetch = Nobody
  /\ due = FALSE
  /\ syncLock = NoOne
  /\ workload = NoOne
  /\ pc = [c \in Callers |-> "idle"]
  /\ m = NoMirror

---------------------------------------------------------------------------
(* UserCRUD.                                                               *)

\* bulk_upsert_users and create_or_update: panel-owned columns only.
Refreshed(row, facts) == [facts |-> facts, local |-> row.local, at |-> "new"]

\* A committed write of a row evicts the user from the cache.
WriteRow(u, row) ==
  /\ rows' = [rows EXCEPT ![u] = row]
  /\ cache' = [cache EXCEPT ![u] = "none"]

---------------------------------------------------------------------------
(* Turns on the panel.                                                     *)

Caller(c, from, to) == pc[c] = from /\ pc' = [pc EXCEPT ![c] = to]

\* Where a caller goes on when sync_users_to_database has returned.
After(c) == IF c = "collector" THEN "queue" ELSE "idle"

\* The loop wakes up, or the collector has found a sync due: the deadline is
\* checked before the lock is waited for.
Ask(c) ==
  /\ \/ c = "loop" /\ pc[c] = "idle"
     \/ c = "collector" /\ pc[c] = "ask"
  /\ due \/ c = "collector"
  /\ pc' = [pc EXCEPT ![c] = IF due THEN "lock" ELSE After(c)]
  /\ UNCHANGED <<may, panel, tableVars, fetch, due, syncLock, workload, m>>

\* A manual sync is skipped while another one runs.
AskManually ==
  /\ May("manual")
  /\ syncLock = NoOne
  /\ Caller("manual", "idle", "lock")
  /\ UNCHANGED <<may, panel, tableVars, fetch, due, syncLock, workload, m>>

TakeSyncLock(c) ==
  /\ syncLock = NoOne
  /\ syncLock' = c
  /\ Caller(c, "lock", "turn")
  /\ UNCHANGED <<may, panel, tableVars, fetch, due, workload, m>>

TakeTurn(c) ==
  /\ workload = NoOne
  /\ workload' = c
  /\ Caller(c, "turn", "admit")
  /\ UNCHANGED <<may, panel, tableVars, fetch, due, syncLock, m>>

\* MUTANT: the deadline is not checked again after the wait.
Admit_NoRecheck(c) ==
  /\ Caller(c, "admit", "mirror")
  /\ m' = [NoMirror EXCEPT !.pc = "snapshot", !.by = c]
  /\ UNCHANGED <<may, panel, tableVars, fetch, due, syncLock, workload>>

\* A scheduled sync that another one has made unnecessary is given up.
Admit(c) ==
  /\ \/ /\ due \/ c = "manual"
        /\ Caller(c, "admit", "mirror")
        /\ m' = [NoMirror EXCEPT !.pc = "snapshot", !.by = c]
        /\ UNCHANGED <<syncLock, workload>>
     \/ /\ ~due /\ c # "manual"
        /\ Caller(c, "admit", After(c))
        /\ syncLock' = NoOne
        /\ workload' = NoOne
        /\ UNCHANGED m
  /\ UNCHANGED <<may, panel, tableVars, fetch, due>>

\* api_collection_after_due_sync: a cycle wants to begin.
WantCollection ==
  /\ May("collect")
  /\ Caller("collector", "idle", "queue")
  /\ UNCHANGED <<may, panel, tableVars, fetch, due, syncLock, workload, m>>

EnterCollection ==
  /\ workload = NoOne
  /\ workload' = "collector"
  /\ Caller("collector", "queue", "gate")
  /\ UNCHANGED <<may, panel, tableVars, fetch, due, syncLock, m>>

\* MUTANT: the turn is kept while the due sync is asked for.
Collect_KeepsTurn ==
  /\ Caller("collector", "gate", IF due THEN "ask" ELSE "collect")
  /\ UNCHANGED <<may, panel, tableVars, fetch, due, syncLock, workload, m>>

\* The turn is given back when a sync is due, and kept for the cycle otherwise.
Collect ==
  /\ Caller("collector", "gate", IF due THEN "ask" ELSE "collect")
  /\ workload' = IF due THEN NoOne ELSE workload
  /\ UNCHANGED <<may, panel, tableVars, fetch, due, syncLock, m>>

EndCollection ==
  /\ Caller("collector", "collect", "idle")
  /\ workload' = NoOne
  /\ UNCHANGED <<may, panel, tableVars, fetch, due, syncLock, m>>

Waiting(c) == pc[c] \in {"queue", "ask", "lock", "turn"}
Long == m.pc # "off" \/ pc["collector"] = "collect"

\* The interval passes.  It is a minute at least: handing over a free lock, or
\* reading the settings, does not take that long.
Tick ==
  /\ ~due
  /\ Long \/ (workload = NoOne /\ \A c \in Callers : ~Waiting(c))
  /\ due' = TRUE
  /\ UNCHANGED <<may, panel, tableVars, fetch, syncLock, workload, pc, m>>

Postpone ==
  /\ May("settings")
  /\ due
  /\ due' = FALSE
  /\ UNCHANGED <<may, panel, tableVars, fetch, syncLock, workload, pc, m>>

---------------------------------------------------------------------------
(* _sync_users_while_admitted.                                             *)

\* The rows are read before anything else.
Snapshot ==
  /\ m.pc = "snapshot"
  /\ rows' = [u \in Users |-> [rows[u] EXCEPT !.at = "old"]]
  /\ m' = [m EXCEPT !.pc = "first", !.snap = {u \in Users : HasRow(u)},
                    !.absent = Users \ OnPanel, !.present = OnPanel]
  /\ UNCHANGED <<may, panel, cache, fetch, turnVars>>

\* MUTANT: names that no longer stand for a user keep their place.
Page_WithDeleted(offset) ==
  {u \in Users : Cardinality({v \in Users : v < u}) \in offset..(offset + PageSize - 1)}

\* The users of the page at an offset, in the order of their names.
Page(offset) ==
  {u \in OnPanel : Cardinality({v \in OnPanel : v < u}) \in offset..(offset + PageSize - 1)}

Total == Cardinality(OnPanel)

\* A page is added to what has been listed; a later row replaces an earlier one.
Listed(offset) ==
  [u \in Users |-> IF u \in Page(offset) THEN panel[u] ELSE m.seen[u]]

\* The first page says how many users there are, and may be all of them.
FirstPage ==
  /\ m.pc = "first"
  /\ m' = [m EXCEPT !.pc = IF Total <= PageSize THEN "listed" ELSE "pages",
                    !.seen = Listed(0), !.first = Total, !.totals = {Total}, !.offset = PageSize]
  /\ UNCHANGED <<may, panel, tableVars, fetch, turnVars>>

\* Pages up to the first total, then one more if some page has told of more users.
MorePages ==
  \/ m.offset < m.first
  \/ m.offset < m.first + PageSize /\ \E t \in m.totals : t > m.offset

NextPage ==
  /\ m.pc = "pages"
  /\ MorePages
  /\ m' = [m EXCEPT !.seen = Listed(m.offset), !.totals = @ \cup {Total}, !.offset = @ + PageSize]
  /\ UNCHANGED <<may, panel, tableVars, fetch, turnVars>>

LastPage ==
  /\ m.pc = "pages"
  /\ ~MorePages
  /\ m' = [m EXCEPT !.pc = "listed"]
  /\ UNCHANGED <<may, panel, tableVars, fetch, turnVars>>

\* pagination_changed
Changed == Cardinality(m.totals) > 1
Seen == {u \in Users : m.seen[u] # "none"}

\* The attempt is over, completed or not, and its deadline counts from now.
EndMirror ==
  /\ m' = NoMirror
  /\ pc' = [pc EXCEPT ![m.by] = After(m.by)]
  /\ syncLock' = NoOne
  /\ workload' = NoOne
  /\ due' = FALSE

\* A listing of constant length that repeats a user is refused.
Accept ==
  /\ m.pc = "listed"
  /\ \/ /\ Changed \/ Cardinality(Seen) = m.first
        /\ m' = [m EXCEPT !.pc = "write", !.todo = Seen, !.changed = Changed,
                          !.first = 0, !.offset = 0, !.totals = {}]
        /\ UNCHANGED turnVars
     \/ /\ ~Changed /\ Cardinality(Seen) # m.first
        /\ EndMirror
  /\ UNCHANGED <<may, panel, tableVars, fetch>>

\* MUTANT: rows that exist are left as they are.
Upsert_InsertOnly(u) ==
  /\ m.pc = "write"
  /\ u \in m.todo
  /\ WriteRow(u, IF HasRow(u) THEN rows[u] ELSE Refreshed(rows[u], m.seen[u]))
  /\ m' = [m EXCEPT !.todo = @ \ {u}]
  /\ UNCHANGED <<may, panel, fetch, turnVars>>

\* A batch is written in a transaction of its own.
Upsert(u) ==
  /\ m.pc = "write"
  /\ u \in m.todo
  /\ WriteRow(u, Refreshed(rows[u], m.seen[u]))
  /\ m' = [m EXCEPT !.todo = @ \ {u}]
  /\ UNCHANGED <<may, panel, fetch, turnVars>>

\* MUTANT: a deferred clean-up is not counted as an error.
Candidates_Silent ==
  LET unlisted == {u \in Users : HasRow(u)} \ Seen
      known == unlisted \cap m.snap
  IN /\ m.pc = "write"
     /\ m.todo = {}
     /\ m' = [m EXCEPT !.pc = "confirm", !.todo = IF m.changed THEN {} ELSE known,
                       !.errors = known # unlisted, !.changed = FALSE, !.seen = Nobody]
     /\ UNCHANGED <<may, panel, tableVars, fetch, turnVars>>

\* Rows that were not listed and were there at the snapshot may be deleted; a
\* listing that changed while it was read says nothing about who is absent.
Candidates ==
  LET unlisted == {u \in Users : HasRow(u)} \ Seen
      known == unlisted \cap m.snap
  IN /\ m.pc = "write"
     /\ m.todo = {}
     /\ m' = [m EXCEPT !.pc = "confirm", !.todo = IF m.changed THEN {} ELSE known,
                       !.errors = m.changed \/ known # unlisted, !.changed = FALSE, !.seen = Nobody]
     /\ UNCHANGED <<may, panel, tableVars, fetch, turnVars>>

\* MUTANT: the listing is taken for proof.
Confirm_Trusting(u) ==
  /\ m.pc = "confirm"
  /\ u \in m.todo
  /\ m' = [m EXCEPT !.todo = @ \ {u}, !.gone = @ \cup {u}]
  /\ UNCHANGED <<may, panel, tableVars, fetch, turnVars>>

\* _panel_confirms_user_absent; a failed request confirms nothing.
Confirm(u) ==
  /\ m.pc = "confirm"
  /\ u \in m.todo
  /\ \/ panel[u] = "gone" /\ m' = [m EXCEPT !.todo = @ \ {u}, !.gone = @ \cup {u}]
     \/ panel[u] # "gone" /\ m' = [m EXCEPT !.todo = @ \ {u}, !.errors = TRUE]
  /\ UNCHANGED <<may, panel, tableVars, fetch, turnVars>>

Unconfirmed(u) ==
  /\ May("fail")
  /\ m.pc = "confirm"
  /\ u \in m.todo
  /\ m' = [m EXCEPT !.todo = @ \ {u}, !.errors = TRUE]
  /\ UNCHANGED <<may, panel, tableVars, fetch, turnVars>>

\* One transaction compares the confirmed rows with the snapshot and deletes
\* those nobody has written since.
Delete ==
  LET unchanged == {u \in m.gone : HasRow(u) /\ rows[u].at = "old"}
  IN /\ m.pc = "confirm"
     /\ m.todo = {}
     /\ rows' = [u \in Users |-> IF u \in unchanged THEN NoRow ELSE rows[u]]
     /\ cache' = [u \in Users |-> IF u \in unchanged THEN "none" ELSE cache[u]]
     /\ m' = [m EXCEPT !.pc = "refresh", !.errors = @ \/ \E u \in m.gone \ unchanged : HasRow(u),
                       !.snap = {}, !.gone = {}]
     /\ UNCHANGED <<may, panel, fetch, turnVars>>

\* refresh_user_metadata_cache reads the rows ...
Refresh ==
  /\ m.pc = "refresh"
  /\ m' = [m EXCEPT !.pc = "publish", !.seen = [u \in Users |-> rows[u].facts]]
  /\ UNCHANGED <<may, panel, tableVars, fetch, turnVars>>

\* ... and publishes them when it is resumed.
Publish ==
  /\ m.pc = "publish"
  /\ cache' = m.seen
  /\ EndMirror
  /\ UNCHANGED <<may, panel, rows, fetch>>

\* A request, the validation of a page or record, or a session fails: what has
\* been committed stays.  A failing refresh leaves the cache as it is.
MirrorFails ==
  /\ May("fail")
  /\ m.pc # "off"
  /\ EndMirror
  /\ UNCHANGED <<may, panel, tableVars, fetch>>

---------------------------------------------------------------------------
(* fetch_and_sync_single_user, for a user the cache does not know.         *)

QueueUnknown(u) ==
  /\ May("fetch")
  /\ cache[u] = "none"
  /\ fetch[u] = "none"
  /\ fetch' = [fetch EXCEPT ![u] = "asked"]
  /\ UNCHANGED <<may, panel, tableVars, turnVars, m>>

\* get_user_details answers; an unknown user, or an error, ends the fetch.
Answer(u) ==
  /\ fetch[u] = "asked"
  /\ fetch' = [fetch EXCEPT ![u] = IF panel[u] = "gone" THEN "none" ELSE panel[u]]
  /\ UNCHANGED <<may, panel, tableVars, turnVars, m>>

Store(u) ==
  /\ fetch[u] \in Facts
  /\ WriteRow(u, Refreshed(rows[u], fetch[u]))
  /\ fetch' = [fetch EXCEPT ![u] = "none"]
  /\ UNCHANGED <<may, panel, turnVars, m>>

FetchFails(u) ==
  /\ May("fail")
  /\ fetch[u] # "none"
  /\ fetch' = [fetch EXCEPT ![u] = "none"]
  /\ UNCHANGED <<may, panel, tableVars, turnVars, m>>

---------------------------------------------------------------------------
(* Around it.                                                              *)

\* A snapshot has been taken.
Since == m.pc \notin {"off", "snapshot"}

Join(u) ==
  /\ May("member")
  /\ panel[u] = "gone"
  /\ panel' = [panel EXCEPT ![u] = "x"]
  /\ m' = IF Since THEN [m EXCEPT !.present = @ \cup {u}] ELSE m
  /\ UNCHANGED <<may, tableVars, fetch, turnVars>>

Leave(u) ==
  /\ May("member")
  /\ panel[u] # "gone"
  /\ panel' = [panel EXCEPT ![u] = "gone"]
  /\ m' = IF Since THEN [m EXCEPT !.absent = @ \cup {u}] ELSE m
  /\ UNCHANGED <<may, tableVars, fetch, turnVars>>

ChangeFacts(u) ==
  /\ May("facts")
  /\ panel[u] # "gone"
  /\ \E f \in Facts \ {panel[u]} : panel' = [panel EXCEPT ![u] = f]
  /\ UNCHANGED <<may, tableVars, fetch, turnVars, m>>

\* set_special_limit, set_excepted and set_disabled on a row; the staging of a
\* ban makes the row when there is none, without any facts.
Edit(u) ==
  /\ May("local")
  /\ WriteRow(u, [facts |-> IF HasRow(u) THEN rows[u].facts ELSE "blank", local |-> TRUE, at |-> "new"])
  /\ UNCHANGED <<may, panel, fetch, turnVars, m>>

Freed(lock, c) == IF lock = c THEN NoOne ELSE lock

\* A cancelled sync leaves its deadline due.
Cancel(c) ==
  /\ May("cancel")
  /\ pc[c] # "idle"
  /\ pc' = [pc EXCEPT ![c] = "idle"]
  /\ syncLock' = Freed(syncLock, c)
  /\ workload' = Freed(workload, c)
  /\ m' = IF m.by = c THEN NoMirror ELSE m
  /\ UNCHANGED <<may, panel, tableVars, fetch, due>>

\* The table survives; the next process reads it into its cache.
Crash ==
  /\ May("crash")
  /\ pc' = [c \in Callers |-> "idle"]
  /\ syncLock' = NoOne
  /\ workload' = NoOne
  /\ due' = FALSE
  /\ m' = NoMirror
  /\ fetch' = Nobody
  /\ cache' = [u \in Users |-> rows[u].facts]
  /\ UNCHANGED <<may, panel, rows>>

Mirror ==
  \/ Snapshot \/ FirstPage \/ NextPage \/ LastPage \/ Accept \/ Candidates \/ Delete \/ Refresh \/ Publish
  \/ \E u \in Users : Upsert(u) \/ Confirm(u)
Holding == Mirror \/ Collect \/ EndCollection \/ \E c \in Callers : Admit(c)
Fetching(u) == Answer(u) \/ Store(u)
Disturbance ==
  \/ Postpone \/ MirrorFails \/ Crash \/ AskManually
  \/ \E c \in Callers : Cancel(c)
  \/ \E u \in Users : Join(u) \/ Leave(u) \/ Unconfirmed(u)
  \/ \E u \in Busy : ChangeFacts(u) \/ Edit(u) \/ FetchFails(u)

Next ==
  \/ \E c \in Callers : Ask(c) \/ TakeSyncLock(c) \/ TakeTurn(c)
  \/ WantCollection \/ EnterCollection
  \/ Holding
  \/ Tick
  \/ \E u \in Busy : QueueUnknown(u) \/ Fetching(u)
  \/ Disturbance

Spec == Init /\ [][Next]_vars

\* The task that has its turn goes on, asyncio locks are handed over in the order
\* of the queue, the loop wakes up and time passes.
Fairness ==
  /\ WF_vars(Holding) /\ WF_vars(Tick) /\ SF_vars(EnterCollection) /\ SF_vars(\E c \in Callers : TakeTurn(c))
  /\ \A c \in {"loop", "collector"} : WF_vars(Ask(c)) /\ SF_vars(TakeSyncLock(c))
  /\ \A u \in Busy : WF_vars(Fetching(u))

FairSpec == Spec /\ Fairness

---------------------------------------------------------------------------

Rows == [facts : Facts \cup {"none", "blank"}, local : BOOLEAN, at : {"old", "new"}]
Seens == [Users -> Facts \cup {"none", "blank"}]

\* The state is well typed.
TypeOK ==
  /\ may \in Scenarios
  /\ panel \in [Users -> Facts \cup {"gone"}]
  /\ rows \in [Users -> Rows]
  /\ cache \in Seens
  /\ fetch \in [Users -> Facts \cup {"none", "asked"}]
  /\ due \in BOOLEAN
  /\ syncLock \in Callers \cup {NoOne}
  /\ workload \in Callers \cup {NoOne}
  /\ pc \in [Callers -> {"idle", "queue", "gate", "collect", "ask", "lock", "turn", "admit", "mirror"}]
  /\ m \in [pc : {"off", "snapshot", "first", "pages", "listed", "write", "confirm", "refresh", "publish"},
            by : Callers \cup {NoOne}, snap : SUBSET Users, seen : Seens, first : Nat, offset : Nat,
            totals : SUBSET Nat, changed : BOOLEAN, todo : SUBSET Users, gone : SUBSET Users, errors : BOOLEAN,
            absent : SUBSET Users, present : SUBSET Users]

\* No local work is lost to the mirror or to a single fetch: what an operator or
\* a ban has written to a row stays there, and a row is deleted only if its user
\* was gone from the panel at some moment since the snapshot and nobody has
\* written the row since, whatever the paged listing missed while users came and
\* went.
LocalWorkKept ==
  [][\A u \in Users : HasRow(u) /\ rows'[u] # rows[u] =>
       \/ rows'[u] # NoRow /\ (rows[u].local => rows'[u].local)
       \/ rows'[u] = NoRow /\ rows[u].at = "old" /\ u \in m.absent]_vars

Succeeds == m.pc = "publish" /\ ~m.errors /\ m'.pc = "off"

\* A mirror that reports success has left no orphan: every row belongs to a user
\* who was on the panel at some moment since the snapshot, or has been written
\* since by somebody else.
LeavesNoOrphan == Succeeds => \A u \in Users : HasRow(u) => u \in m.present \/ rows[u].at = "new"

\* A scheduled mirror starts only while it is due, although it may have waited
\* for two locks behind one that has just met the deadline; and nobody collects
\* while a mirror runs.
TakesTurns == m.pc = "off" /\ m'.pc # "off" => (due \/ m'.by = "manual") /\ pc["collector"] # "collect"

\* Every mirror starts in its turn and, if it reports success, has done its work.
MirrorRight == [][TakesTurns /\ LeavesNoOrphan]_vars

\* An IP cycle that waits is admitted unless syncs are cancelled for ever: it is
\* held back neither by mirrors that fail or are put off, nor by the locks it
\* queues for, nor by its own request for a sync.
CollectionAdmitted ==
  <>[][\A c \in Callers : ~Cancel(c)]_vars =>
    (pc["collector"] = "queue" ~> pc["collector"] \in {"collect", "idle"})

\* Once the panel, the operators and the failures come to rest, the table and the
\* cache agree with the panel for good, whatever was overwritten by an older
\* answer before.
Converges ==
  <>[][~Disturbance]_vars =>
    <>[](\A u \in Users : /\ HasRow(u) <=> panel[u] # "gone"
                          /\ HasRow(u) => rows[u].facts = panel[u]
                          /\ cache[u] \in {"none", rows[u].facts})
=============================================================================
