------------------------ MODULE PunishmentIncident ------------------------
(***************************************************************************)
(* One punishment is one row of the violation history: the incident claim, *)
(* the ledger of applied but unrecorded actions and the confirmed commit   *)
(* of utils/punishment_system.py, driven by disable_user_with_punishment   *)
(* (utils/panel_api/users.py).                                             *)
(*                                                                         *)
(* The panel action itself is one step here (BanLifecycle has its parts).  *)
(* A call is cut at its awaits and may be cancelled at each of them; a     *)
(* commit may raise after it took effect, and so may its confirmation.     *)
(* The claim, the ledger and the JSON mirror's cache live in memory.       *)
(***************************************************************************)
EXTENDS Integers, Sequences, FiniteSets

CONSTANTS
  Users,         \* user names
  Callers,       \* tasks that may punish at the same time
  LastStep,      \* index of the last configured punishment step
  WarningSteps,  \* the steps that only warn
  MaxIncidents,  \* bound: incidents started
  Disturbances   \* what the environment may do, see DisturbanceKinds

\* "crash"     the process dies and is restarted
\* "cancel"    a caller's task is cancelled at an await
\* "database"  a session fails, before or after its effect
\* "mirror"    the JSON mirror cannot be written
\* "panel"     the panel action fails
\* "gone"      the user is deleted on the panel before the action
\* "clear"     an administrator clears the history
DisturbanceKinds == {"crash", "cancel", "database", "mirror", "panel", "gone", "clear"}

ASSUME ConstantsAssumption ==
  /\ LastStep \in Nat
  /\ WarningSteps \subseteq 0..LastStep
  /\ MaxIncidents \in Nat
  /\ Disturbances \subseteq DisturbanceKinds

VARIABLES
  inFlight,   \* _in_flight: users claimed
  unrecorded, \* _applied_unrecorded, per user
  recorded,   \* _recorded_incidents
  unconfirmed,\* _unconfirmed_incidents: users with an attempt of unknown outcome
  cache,      \* len(violations[u]), the in-memory mirror
  file,       \* the same in the JSON file
  rows,       \* violation_history, per user, in commit order
  call,       \* the calls in progress
  started,    \* ghost: incidents started so far
  committed,  \* ghost: incidents that ever had a committed row
  torn        \* ghost: step, row and mirror may differ, see EscalationInOrder

memVars == <<inFlight, unrecorded, recorded, unconfirmed, cache>>
vars == <<memVars, file, rows, call, started, committed, torn>>

May(d) == d \in Disturbances

NoIncident == [inc |-> 0, step |-> 0]
CallIdle == [pc |-> "idle", user |-> CHOOSE u \in Users : TRUE, inc |-> 0, step |-> 0]

Init ==
  /\ inFlight = {}
  /\ unrecorded = [u \in Users |-> NoIncident]
  /\ recorded = {}
  /\ unconfirmed = {}
  /\ cache = [u \in Users |-> 0]
  /\ file = [u \in Users |-> 0]
  /\ rows = [u \in Users |-> <<>>]
  /\ call = [c \in Callers |-> CallIdle]
  /\ started = 0
  /\ committed = {}
  /\ torn = FALSE

---------------------------------------------------------------------------

Goto(c, pc) == call' = [call EXCEPT ![c].pc = pc]

\* end_incident in the finally of disable_user_with_punishment.
Leave(c) ==
  /\ call' = [call EXCEPT ![c] = CallIdle]
  /\ inFlight' = inFlight \ {call[c].user}

\* The pending incident is the one this call is about to record.
IsPending(c) ==
  /\ unrecorded[call[c].user].inc # 0
  /\ unrecorded[call[c].user].step = call[c].step

\* MUTANT: the mirror's cache is left to the next load.
Remember_NoCache(c) ==
  LET u == call[c].user
  IN /\ UNCHANGED cache
     /\ recorded' = IF IsPending(c) THEN recorded \cup {u} ELSE recorded
     /\ unconfirmed' = IF IsPending(c) THEN unconfirmed \ {u} ELSE unconfirmed

\* _remember_recorded_violation: cache and ledger advance together.
Remember(c) ==
  LET u == call[c].user
  IN /\ cache' = [cache EXCEPT ![u] = @ + 1]
     /\ recorded' = IF IsPending(c) THEN recorded \cup {u} ELSE recorded
     /\ unconfirmed' = IF IsPending(c) THEN unconfirmed \ {u} ELSE unconfirmed

\* mark_unrecorded
MarkUnrecorded(c) ==
  LET u == call[c].user
  IN /\ unrecorded' = [unrecorded EXCEPT ![u] = [inc |-> call[c].inc, step |-> call[c].step]]
     /\ recorded' = recorded \ {u}
     /\ unconfirmed' = unconfirmed \ {u}

\* What begin_incident leads to for a user who has been claimed.
Claimed(c, u) ==
  /\ inFlight' = inFlight \cup {u}
  /\ \/ /\ unrecorded[u].inc # 0
        /\ call' = [call EXCEPT ![c] = [pc |-> "record", user |-> u,
                      inc |-> unrecorded[u].inc, step |-> unrecorded[u].step]]
        /\ UNCHANGED started
     \/ /\ unrecorded[u].inc = 0
        /\ started < MaxIncidents
        /\ started' = started + 1
        /\ call' = [call EXCEPT ![c] = [pc |-> "select", user |-> u,
                      inc |-> started + 1, step |-> 0]]

\* MUTANT: a second caller is not turned away.
Begin_NoClaim(c, u) ==
  /\ call[c].pc = "idle"
  /\ Claimed(c, u)
  /\ UNCHANGED <<unrecorded, recorded, unconfirmed, cache, file, rows, committed>>

\* begin_incident: a claimed user is deduplicated; a pending record comes
\* before any new panel action.
Begin(c, u) ==
  /\ call[c].pc = "idle"
  /\ u \notin inFlight
  /\ Claimed(c, u)
  /\ UNCHANGED <<unrecorded, recorded, unconfirmed, cache, file, rows, committed>>

\* get_punishment_for_user: the count comes from SQLite, or from the mirror
\* when the query fails; the last step repeats.
Select(c) ==
  LET u == call[c].user
  IN /\ call[c].pc = "select"
     /\ \E count \in {Len(rows[u])} \cup (IF May("database") THEN {cache[u]} ELSE {}) :
          LET step == IF count < LastStep THEN count ELSE LastStep
          IN call' = [call EXCEPT ![c].step = step,
                        ![c].pc = IF step \in WarningSteps THEN "record" ELSE "apply"]
     /\ UNCHANGED <<memVars, file, rows, started, committed>>

\* disable_user succeeds: mark_disabled runs the ledger callback before any await.
Apply(c) ==
  /\ call[c].pc = "apply"
  /\ MarkUnrecorded(c)
  /\ Goto(c, "mark")
  /\ UNCHANGED <<inFlight, cache, file, rows, started, committed>>

\* _disable_user finds the user deleted and returns as if done
\* (known_not_disabled keeps the fact, and the callback, from firing).
ApplyGone(c) ==
  /\ May("gone")
  /\ call[c].pc = "apply"
  /\ Goto(c, "mark")
  /\ UNCHANGED <<memVars, file, rows, started, committed>>

\* The panel action fails or is protected: "error" or "skipped".
ApplyFails(c) ==
  /\ May("panel")
  /\ call[c].pc = "apply"
  /\ Leave(c)
  /\ UNCHANGED <<unrecorded, recorded, unconfirmed, cache, file, rows, started, committed>>

\* The fact is saved and the incident is marked again before recording.
Mark(c) ==
  /\ call[c].pc = "mark"
  /\ MarkUnrecorded(c)
  /\ Goto(c, "record")
  /\ UNCHANGED <<inFlight, cache, file, rows, started, committed>>

\* MUTANT: an attempt of unknown outcome is simply made again.
Record_NoConfirm(c) ==
  /\ call[c].pc = "record"
  /\ Goto(c, IF IsPending(c) /\ call[c].user \in recorded THEN "save" ELSE "commit")
  /\ UNCHANGED <<memVars, file, rows, started, committed>>

\* record_violation: nothing to insert for a recorded incident, confirmation
\* before a retry, and otherwise an insert.
Record(c) ==
  LET u == call[c].user
  IN /\ call[c].pc = "record"
     /\ Goto(c, CASE IsPending(c) /\ u \in recorded -> "save"
                  [] IsPending(c) /\ u \notin recorded /\ u \in unconfirmed -> "confirm"
                  [] OTHER -> "commit")
     /\ UNCHANGED <<memVars, file, rows, started, committed>>

Persisted(c) == \E i \in 1..Len(rows[call[c].user]) : rows[call[c].user][i].inc = call[c].inc

\* _confirm_recorded_violation through a fresh session.
Confirm(c) ==
  LET u == call[c].user
  IN /\ call[c].pc = "confirm"
     /\ IF Persisted(c)
        THEN Remember(c) /\ Goto(c, "save")
        ELSE /\ unconfirmed' = unconfirmed \ {u}
             /\ Goto(c, "commit")
             /\ UNCHANGED <<cache, recorded>>
     /\ UNCHANGED <<inFlight, unrecorded, file, rows, started, committed>>

\* The confirming session fails: ViolationRecordError.
ConfirmFails(c) ==
  /\ May("database")
  /\ call[c].pc = "confirm"
  /\ Leave(c)
  /\ UNCHANGED <<unrecorded, recorded, unconfirmed, cache, file, rows, started, committed>>

Insert(c) ==
  LET u == call[c].user
  IN /\ rows' = [rows EXCEPT ![u] = Append(@, [inc |-> call[c].inc, step |-> call[c].step])]
     /\ committed' = committed \cup {call[c].inc}

\* _commit_recorded_violation: insert and commit succeed and are remembered.
Commit(c) ==
  /\ call[c].pc = "commit"
  /\ Insert(c)
  /\ Remember(c)
  /\ Goto(c, "save")
  /\ UNCHANGED <<inFlight, unrecorded, file, started>>

\* The commit takes effect and still ends in an error: a callback raises and
\* the confirmation finds the row, or the caller was cancelled meanwhile and
\* the owned task finished for it.
CommitThenRaises(c) ==
  /\ May("database") \/ May("cancel")
  /\ call[c].pc = "commit"
  /\ Insert(c)
  /\ Remember(c)
  /\ Leave(c)
  /\ UNCHANGED <<unrecorded, file, started>>

\* The commit raises and its confirmation raises as well: the outcome stays
\* unknown, and the attempt is kept when there is a pending incident.
CommitUnknown(c) ==
  /\ May("database")
  /\ call[c].pc = "commit"
  /\ Insert(c) \/ UNCHANGED <<rows, committed>>
  /\ unconfirmed' = IF IsPending(c) THEN unconfirmed \cup {call[c].user} ELSE unconfirmed
  /\ Leave(c)
  /\ UNCHANGED <<unrecorded, recorded, cache, file, started>>

\* The insert fails, or the commit fails and the confirmation says so.
CommitFails(c) ==
  /\ May("database")
  /\ call[c].pc = "commit"
  /\ Leave(c)
  /\ UNCHANGED <<unrecorded, recorded, unconfirmed, cache, file, rows, started, committed>>

\* save_violations writes every user's records, or fails and is only logged.
SaveMirror == file' = cache' \/ (May("mirror") /\ UNCHANGED file)

\* save_violations, then pop_unrecorded_incident without a further await.  A
\* warning has nothing pending.
SaveAndPop(c) ==
  LET u == call[c].user
  IN /\ call[c].pc = "save"
     /\ UNCHANGED cache
     /\ SaveMirror
     /\ unrecorded' = [unrecorded EXCEPT ![u] = NoIncident]
     /\ recorded' = recorded \ {u}
     /\ unconfirmed' = unconfirmed \ {u}
     /\ Leave(c)
     /\ UNCHANGED <<rows, started, committed>>

\* MUTANT: the claim is given back on the normal path only.
Cancel_KeepsClaim(c) ==
  /\ May("cancel")
  /\ call[c].pc \in {"select", "apply", "mark", "record", "confirm", "save"}
  /\ call' = [call EXCEPT ![c] = CallIdle]
  /\ UNCHANGED <<memVars, file, rows, started, committed>>

\* Cancellation at any other await: the finally releases the claim, the ledger
\* keeps what it has.
Cancel(c) ==
  /\ May("cancel")
  /\ call[c].pc \in {"select", "apply", "mark", "record", "confirm", "save"}
  /\ Leave(c)
  /\ UNCHANGED <<unrecorded, recorded, unconfirmed, cache, file, rows, started, committed>>

\* clear_user_history: a failing session is swallowed; a user the mirror
\* knows is dropped from it anyway.
ClearHistory(u) ==
  /\ May("clear")
  /\ rows' = [rows EXCEPT ![u] = <<>>] \/ (May("database") /\ UNCHANGED rows)
  /\ cache' = [cache EXCEPT ![u] = 0]
  /\ IF cache[u] = 0 THEN UNCHANGED file ELSE SaveMirror
  /\ torn' = TRUE
  /\ UNCHANGED <<inFlight, unrecorded, recorded, unconfirmed, call, started, committed>>

Crash ==
  /\ May("crash")
  /\ inFlight' = {}
  /\ unrecorded' = [u \in Users |-> NoIncident]
  /\ recorded' = {}
  /\ unconfirmed' = {}
  /\ cache' = file
  /\ call' = [c \in Callers |-> CallIdle]
  /\ torn' = TRUE
  /\ UNCHANGED <<file, rows, started, committed>>

Step(c) ==
  /\ \/ Select(c) \/ Apply(c) \/ ApplyGone(c) \/ ApplyFails(c) \/ Mark(c) \/ Record(c)
     \/ Confirm(c) \/ ConfirmFails(c) \/ Commit(c) \/ CommitThenRaises(c)
     \/ CommitUnknown(c) \/ CommitFails(c) \/ SaveAndPop(c) \/ Cancel(c)
  /\ torn' = (torn \/ (call[c].pc = "commit" /\ call[c].step \in WarningSteps /\ call'[c].pc # "save"))

Done == started = MaxIncidents /\ UNCHANGED vars

Next ==
  \/ \E c \in Callers : Step(c) \/ \E u \in Users : Begin(c, u) /\ UNCHANGED torn
  \/ \E u \in Users : ClearHistory(u)
  \/ Crash
  \/ Done

Spec == Init /\ [][Next]_vars

---------------------------------------------------------------------------

\* An incident is counted once: however often recording it failed, raised after
\* its commit, was cancelled or retried, and whoever retried it, the history the
\* escalation reads has at most one row for it (record_violation).
OneRowPerIncident ==
  \A u \in Users : \A i, j \in 1..Len(rows[u]) :
    rows[u][i].inc = rows[u][j].inc => i = j

\* Nobody is about to act on the panel against a user whose last applied action
\* is still unrecorded: the ledger is reconciled first
\* (disable_user_with_punishment).
NoRepeatWhileUnrecorded ==
  \A c \in Callers : call[c].pc \in {"select", "apply"} => unrecorded[call[c].user].inc = 0

\* A claim is never left behind: whoever ends, is cancelled or fails gives it back
\* (end_incident is in a finally), or every later punishment of the user would be
\* taken for a duplicate.
ClaimsHeld == \A u \in inFlight : \E c \in Callers : call[c].pc # "idle" /\ call[c].user = u

\* A claim excludes a second action as long as it should, and no longer.
ClaimSound == NoRepeatWhileUnrecorded /\ ClaimsHeld

\* The steps of the history follow the configured order: the n-th row carries
\* step n, the last step repeating, also when the count had to come from the
\* JSON mirror (get_violation_count_async falls back to it). Not after a crash,
\* which may lose the mirror's last entry, a clearing, which may meet an
\* incident under way, or a warning of unknown fate, which no ledger remembers.
EscalationInOrder ==
  ~torn => \A u \in Users : \A i \in 1..Len(rows[u]) :
    rows[u][i].step = IF i - 1 < LastStep THEN i - 1 ELSE LastStep
===========================================================================
