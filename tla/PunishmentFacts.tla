-------------------------- MODULE PunishmentFacts --------------------------
(***************************************************************************)
(* The evidence behind the daily report: every panel action is announced   *)
(* as a prepared fact, completed when its outcome is known, and kept in    *)
(* SQLite or, while SQLite fails, in an outbox file                        *)
(* (utils/punishment_facts.py, db/crud/punishment_facts.py).               *)
(*                                                                         *)
(* The report of a day may be made once ready_before(end) holds.  Actions  *)
(* save their facts and the report replays pending ones concurrently, one  *)
(* store at a time; a store runs in a task of its own, so cancelling the   *)
(* caller does not cut it short.                                           *)
(***************************************************************************)
EXTENDS Integers, FiniteSets

CONSTANTS
  Incidents,     \* incident ids
  Report,        \* the daily report, as an owner of a store
  Disturbances   \* what the environment may do, see DisturbanceKinds

\* "crash"     the process dies and is restarted
\* "cancel"    the task of an action is cancelled, or its panel request fails
\* "database"  a SQL session fails, before or after its effect
\* "outbox"    the outbox file cannot be written
\* "corrupt"   the outbox file cannot be read at a restart
DisturbanceKinds == {"crash", "cancel", "database", "outbox", "corrupt"}

Owners == Incidents \cup {Report}

VARIABLES
  fact,     \* the ActionFact of each incident
  act,      \* where the action of each incident stands: "dropped" before any
            \* panel request, "doubt" when its outcome is not known
  pending,  \* PunishmentFactJournal.pending
  outbox,   \* the outbox file
  corrupt,  \* _load_failed, which lasts as long as the file
  sql,      \* the punishment_facts table
  job,      \* the store each owner waits for
  report,   \* the ready_before call in progress
  late,     \* the report's end has passed
  early     \* ghost: incidents started before the report's end

diskVars == <<outbox, corrupt, sql>>
vars == <<fact, act, pending, diskVars, job, report, late, early>>

May(d) == d \in Disturbances

\* A snapshot: its state, whether the disable (or the warning) is confirmed and
\* whether a partial effect (revoke, UUID reset) is.
None == [state |-> "none", done |-> FALSE, partial |-> FALSE]
Prepared == [state |-> "prepared", done |-> FALSE, partial |-> FALSE]

Nothing == [i \in Incidents |-> None]
NoJob == [pc |-> "none", snap |-> None]
ReportIdle == [pc |-> "idle", todo |-> Nothing, cur |-> Report]

Init ==
  /\ fact = Nothing
  /\ act = [i \in Incidents |-> "new"]
  /\ pending = Nothing
  /\ outbox = Nothing
  /\ corrupt = FALSE
  /\ sql = Nothing
  /\ job = [o \in Owners |-> NoJob]
  /\ report = ReportIdle
  /\ late = FALSE
  /\ early = {}

---------------------------------------------------------------------------
(* PunishmentFactJournal.store.                                            *)

\* The incident whose snapshot an owner stores.
Subject(o) == IF o = Report THEN report.cur ELSE o

\* ActionFact.save: the snapshot is pending before the store is awaited.
Save(i, f) ==
  /\ fact' = [fact EXCEPT ![i] = f]
  /\ pending' = [pending EXCEPT ![i] = f]
  /\ job' = [job EXCEPT ![i] = [pc |-> "wait", snap |-> f]]

\* The lock is taken and the newest pending snapshot chosen, else the given one.
StoreLock(o) ==
  LET newest == pending[Subject(o)]
      snap == IF newest # None THEN newest ELSE job[o].snap
  IN /\ job[o].pc = "wait"
     /\ \A p \in Owners : job[p].pc \in {"none", "wait"}
     /\ pending' = [pending EXCEPT ![Subject(o)] = snap]
     /\ job' = [job EXCEPT ![o] = [pc |-> "sql", snap |-> snap]]
     /\ UNCHANGED <<fact, act, diskVars, report, late, early>>

\* MUTANT: a row is always overwritten.
StoredRow_Overwrites(row, snap) == snap

\* PunishmentFactsCRUD.store: a completed row is final.
StoredRow(row, snap) == IF row.state = "completed" THEN row ELSE snap

\* A completed row refuses another completion.
Conflicts(row, snap) == row.state = "completed" /\ snap.state = "completed" /\ row # snap

\* MUTANT: what has been stored stays pending.
StoreSql_KeepsPending(o) ==
  LET i == Subject(o)
  IN /\ job[o].pc = "sql"
     /\ ~Conflicts(sql[i], job[o].snap)
     /\ sql' = [sql EXCEPT ![i] = StoredRow(@, job[o].snap)]
     /\ job' = [job EXCEPT ![o] = [pc |-> "file", snap |-> None]]
     /\ UNCHANGED <<fact, act, pending, outbox, corrupt, report, late, early>>

\* _store_sql succeeds, or raises after its commit and is confirmed: the
\* snapshot is no longer pending unless a newer one has replaced it.
StoreSql(o) ==
  LET i == Subject(o)
  IN /\ job[o].pc = "sql"
     /\ ~Conflicts(sql[i], job[o].snap)
     /\ sql' = [sql EXCEPT ![i] = StoredRow(@, job[o].snap)]
     /\ pending' = IF pending[i] = job[o].snap THEN [pending EXCEPT ![i] = None] ELSE pending
     /\ job' = [job EXCEPT ![o] = [pc |-> "file", snap |-> None]]
     /\ UNCHANGED <<fact, act, outbox, corrupt, report, late, early>>

\* The session fails, with or without effect, and the snapshot stays pending.
StoreSqlFails(o) ==
  LET i == Subject(o)
  IN /\ job[o].pc = "sql"
     /\ \/ May("database") /\ UNCHANGED sql
        \/ May("database") /\ sql' = [sql EXCEPT ![i] = StoredRow(@, job[o].snap)]
        \/ Conflicts(sql[i], job[o].snap) /\ UNCHANGED sql
     /\ job' = [job EXCEPT ![o] = [pc |-> "file", snap |-> None]]
     /\ UNCHANGED <<fact, act, pending, outbox, corrupt, report, late, early>>

\* The outbox is rewritten from what is pending; a failure is only logged, and
\* an outbox that could not be read is left alone.
StoreFile(o) ==
  /\ job[o].pc = "file"
  /\ \/ ~corrupt /\ outbox' = pending
     \/ (corrupt \/ May("outbox")) /\ UNCHANGED outbox
  /\ job' = [job EXCEPT ![o] = NoJob]
  /\ UNCHANGED <<fact, act, pending, corrupt, sql, report, late, early>>

---------------------------------------------------------------------------
(* PunishmentFactJournal.action, around one panel action.                  *)

Saved(i) == job[i].pc = "none"

\* The intent is prepared and saved before any panel request.
Open(i) ==
  /\ act[i] = "new"
  /\ act' = [act EXCEPT ![i] = "opening"]
  /\ early' = IF late THEN early ELSE early \cup {i}
  /\ Save(i, Prepared)
  /\ UNCHANGED <<diskVars, report, late>>

Enter(i) ==
  /\ act[i] = "opening"
  /\ Saved(i)
  /\ act' = [act EXCEPT ![i] = "body"]
  /\ UNCHANGED <<fact, pending, diskVars, job, report, late, early>>

\* Cancelled before any panel request: a known empty result.
OpenCancelled(i) ==
  /\ May("cancel")
  /\ act[i] = "opening"
  /\ Saved(i)
  /\ act' = [act EXCEPT ![i] = "over"]
  /\ Save(i, [fact[i] EXCEPT !.state = "completed"])
  /\ UNCHANGED <<diskVars, report, late, early>>

\* mark_partial, then save.
MarkPartial(i) ==
  /\ act[i] = "body"
  /\ Saved(i)
  /\ ~fact[i].partial /\ ~fact[i].done
  /\ Save(i, [fact[i] EXCEPT !.partial = TRUE])
  /\ UNCHANGED <<act, diskVars, report, late, early>>

\* mark_disabled or mark_warning, then save.
MarkDisabled(i) ==
  /\ act[i] = "body"
  /\ Saved(i)
  /\ ~fact[i].done
  /\ Save(i, [fact[i] EXCEPT !.done = TRUE, !.state = "completed"])
  /\ UNCHANGED <<act, diskVars, report, late, early>>

\* MUTANT: leaving the block always settles the fact.
Outcome_AlwaysCompleted(f, normal) == [f EXCEPT !.state = "completed"]

\* MUTANT: a state of its own for a block that raised.
Outcome_Failed(f, normal) == [f EXCEPT !.state = IF normal \/ f.done THEN "completed" ELSE "failed"]

\* What the fact says when the block has ended, normally or by an exception.
Outcome(f, normal) ==
  [f EXCEPT !.state = IF normal \/ f.done THEN "completed" ELSE "uncertain"]

\* The block ends; an exception may leave the action's effect in doubt.
Exit(i) ==
  /\ act[i] = "body"
  /\ Saved(i)
  /\ \E normal \in {TRUE} \cup (IF May("cancel") THEN {FALSE} ELSE {}) :
       /\ Save(i, Outcome(fact[i], normal))
       /\ act' = [act EXCEPT ![i] = IF normal \/ fact[i].done THEN "over" ELSE "doubt"]
  /\ UNCHANGED <<diskVars, report, late, early>>

---------------------------------------------------------------------------
(* PunishmentFactJournal.ready_before.                                     *)

EndOfDay ==
  /\ ~late
  /\ late' = TRUE
  /\ UNCHANGED <<fact, act, pending, diskVars, job, report, early>>

\* What is pending now is stored first, one snapshot after the other.
ReadyBefore ==
  /\ late
  /\ ~corrupt
  /\ report.pc = "idle"
  /\ report' = [ReportIdle EXCEPT !.pc = "replay", !.todo = pending]
  /\ UNCHANGED <<fact, act, pending, diskVars, job, late, early>>

Replay(i) ==
  /\ report.pc = "replay"
  /\ job[Report].pc = "none"
  /\ report.todo[i] # None
  /\ report' = [report EXCEPT !.todo[i] = None, !.cur = i]
  /\ job' = [job EXCEPT ![Report] = [pc |-> "wait", snap |-> report.todo[i]]]
  /\ UNCHANGED <<fact, act, pending, diskVars, late, early>>

\* MUTANT: a failed replay does not hold the report back.
Replayed_IgnoresPending ==
  /\ report.pc = "replay"
  /\ job[Report].pc = "none"
  /\ report.todo = Nothing
  /\ report' = [ReportIdle EXCEPT !.pc = "query"]
  /\ UNCHANGED <<fact, act, pending, diskVars, job, late, early>>

\* Anything early that is still pending defers the report.
Replayed ==
  /\ report.pc = "replay"
  /\ job[Report].pc = "none"
  /\ report.todo = Nothing
  /\ report' = [ReportIdle EXCEPT
                  !.pc = IF \A i \in early : pending[i] = None THEN "query" ELSE "idle"]
  /\ UNCHANGED <<fact, act, pending, diskVars, job, late, early>>

\* MUTANT: an uncertain outcome counts as resolved.
Unresolved_PreparedOnly == {i \in early : sql[i].state = "prepared"}

\* PunishmentFactsCRUD.unresolved_before
Unresolved == {i \in early : sql[i].state \in {"prepared", "uncertain"}}

Query ==
  /\ report.pc = "query"
  /\ report' = [report EXCEPT !.pc = IF Unresolved = {} THEN "ready" ELSE "idle"]
  /\ UNCHANGED <<fact, act, pending, diskVars, job, late, early>>

QueryFails ==
  /\ May("database")
  /\ report.pc = "query"
  /\ report' = ReportIdle
  /\ UNCHANGED <<fact, act, pending, diskVars, job, late, early>>

---------------------------------------------------------------------------

\* The process dies; the journal of the next one starts from the outbox.
Crash ==
  /\ May("crash")
  /\ \E unreadable \in {corrupt} \cup (IF May("corrupt") THEN {TRUE} ELSE {}) :
       /\ corrupt' = unreadable
       /\ pending' = IF unreadable THEN Nothing ELSE outbox
  /\ act' = [i \in Incidents |->
              CASE act[i] = "opening" -> "dropped"
                [] act[i] = "body" /\ ~fact[i].done -> "doubt"
                [] act[i] = "body" /\ fact[i].done -> "over"
                [] OTHER -> act[i]]
  /\ job' = [o \in Owners |-> NoJob]
  /\ report' = ReportIdle
  /\ UNCHANGED <<fact, outbox, sql, late, early>>

\* The report has been made.
Reported == report.pc = "ready" /\ UNCHANGED vars

Store(o) == StoreLock(o) \/ StoreSql(o) \/ StoreSqlFails(o) \/ StoreFile(o)
Action(i) == Enter(i) \/ OpenCancelled(i) \/ MarkPartial(i) \/ MarkDisabled(i) \/ Exit(i)
Reporting == ReadyBefore \/ Replayed \/ Query \/ QueryFails \/ \E i \in Incidents : Replay(i)

Next ==
  \/ \E o \in Owners : Store(o)
  \/ \E i \in Incidents : Open(i) \/ Action(i)
  \/ Reporting
  \/ EndOfDay
  \/ Crash
  \/ Reported

Spec == Init /\ [][Next]_vars

\* Tasks go on, the watcher asks again every minute, and a database that fails
\* now and then also works.
FairSpec ==
  /\ Spec
  /\ WF_vars(EndOfDay) /\ WF_vars(Reporting) /\ SF_vars(Query)
  /\ \A o \in Owners : WF_vars(Store(o)) /\ SF_vars(StoreSql(o))
  /\ \A i \in Incidents : WF_vars(Action(i)) /\ WF_vars(Exit(i))

---------------------------------------------------------------------------

Snapshots == [state : {"none", "prepared", "completed", "uncertain"},
              done : BOOLEAN, partial : BOOLEAN]

\* The state is well typed.
TypeOK ==
  /\ fact \in [Incidents -> Snapshots]
  /\ act \in [Incidents -> {"new", "opening", "dropped", "body", "over", "doubt"}]
  /\ pending \in [Incidents -> Snapshots]
  /\ outbox \in [Incidents -> Snapshots]
  /\ corrupt \in BOOLEAN
  /\ sql \in [Incidents -> Snapshots]
  /\ job \in [Owners -> [pc : {"none", "wait", "sql", "file"}, snap : Snapshots]]
  /\ report \in [pc : {"idle", "replay", "query", "ready"},
                 todo : [Incidents -> Snapshots], cur : Owners]
  /\ late \in BOOLEAN
  /\ early \subseteq Incidents

\* The report is made from complete evidence: once ready_before has answered
\* yes, every action that reached the panel before the report's end has its
\* final row in SQL, with exactly the effects that were confirmed.
ReportComplete ==
  report.pc = "ready" =>
    \A i \in early : act[i] \in {"body", "over", "doubt"} =>
      sql[i].state = "completed" /\ sql[i] = fact[i]

\* Nothing in doubt is ever settled: the row of an action that ended without a
\* known outcome, or was killed inside its panel request, does not become a
\* completed one by a retry or a replay.
NothingInvented ==
  \A i \in Incidents : act[i] = "doubt" => sql[i].state # "completed"

\* What the report may rely on, at every moment.
FactsSound == TypeOK /\ ReportComplete /\ NothingInvented

\* The report is not deferred for ever: it is made unless an action ended with
\* its outcome in doubt.
ReportMade ==
  late ~> (report.pc = "ready" \/ \E i \in early : act[i] = "doubt")
=============================================================================
