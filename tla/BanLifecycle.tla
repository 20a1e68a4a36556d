--------------------------- MODULE BanLifecycle ---------------------------
(***************************************************************************)
(* The life of a ban: how the limiter disables a user on the panel, what   *)
(* it keeps in SQLite so that the ban can be reversed, and how the enable  *)
(* loop, the bot, the REST API and the CLI lift it again                   *)
(* (utils/panel_api/users.py, utils/handel_dis_users.py,                   *)
(* db/crud/users.py, cli/disabled.py).                                     *)
(*                                                                         *)
(* Every handler is cut at its awaits: one action is what runs between a   *)
(* request to the panel or to the database and the next one.  A PUT may be *)
(* applied and answered, applied with its answer lost, or not applied; a   *)
(* database session may fail; the process may die between two actions.     *)
(* The constant Disturbances says which of these a run allows.             *)
(***************************************************************************)
EXTENDS Integers, FiniteSets

CONSTANTS
  Users,          \* user names
  Groups,         \* panel group ids
  Lifters,        \* tasks that run enable_selected_users
  Loop,           \* the lifter that is the enable_dis_user task
  ByStatus,       \* the configuration "disable_method = status"
  NoUser,         \* "no user in hand"
  Durations,      \* seconds a punishment step may ban for
  TimeToActive,   \* monitoring.time_to_active_users
  Horizon,        \* bound: the last moment at which a ban is recorded
  MaxTime,        \* bound on the clock
  Disturbances    \* what the environment may do, see DisturbanceKinds

\* "crash"     the process dies and is restarted by its supervisor
\* "database"  a session of SQLite fails
\* "lost"      a PUT is applied and its answer lost
\* "refused"   a PUT or GET fails without effect
\* "protected" the enforcement guard stops a punishment before its PUT
\* "edit"      an administrator changes a user's groups on the panel
\* "panel"     an administrator activates or deletes a user on the panel
\* "settings"  an administrator changes the disable method
\* "cli"       the operator clears disable records with the CLI
\* "overlap"   a punishment and an enable of one user overlap in time
DisturbanceKinds == {"crash", "database", "lost", "refused", "protected",
                     "edit", "panel", "settings", "cli", "overlap"}

Permanent == -1   \* handel_dis_users.PERMANENT
Unset == 0        \* enable_at IS NULL: the default window applies

ASSUME ConstantsAssumption ==
  /\ Loop \in Lifters
  /\ NoUser \notin Users
  /\ ByStatus \notin Groups
  /\ Durations \subseteq Nat \ {0}
  /\ TimeToActive \in Nat \ {0}
  /\ Horizon \in Nat /\ MaxTime \in Nat
  /\ \A d \in Durations \cup {TimeToActive} : Horizon + d <= MaxTime
  /\ Disturbances \subseteq DisturbanceKinds

VARIABLES
  status,     \* panel: "active", "disabled" or "deleted"
  groups,     \* panel: group_ids
  registry,   \* users row: is_disabled_by_limiter, disabled_at, enable_at
  prov,       \* users row: disable_provenance
  disableBy,  \* settings: the disabled_group_id, or ByStatus
  now,        \* wall clock
  enf,        \* the _disable_user call in progress, per user
  lift,       \* the enable_selected_users call in progress, per lifter
  ban         \* ghost: the limiter's ban in force on the panel

panelVars == <<status, groups, ban>>
rowVars   == <<registry, prov>>
vars == <<panelVars, rowVars, disableBy, now, enf, lift>>

May(d) == d \in Disturbances

---------------------------------------------------------------------------
(* The users row.                                                          *)

NoInverse == [method |-> "none", original |-> {}, applied |-> {}]
StatusInverse == [method |-> "status", original |-> {}, applied |-> {}]
\* MUTANT: the applied group is wrapped in a list twice.
GroupInverse_Nested(original, group) ==
  [method |-> "group", original |-> original, applied |-> {{group}}]

GroupInverse(original, group) ==
  [method |-> "group", original |-> original, applied |-> {group}]

NotDisabled == [disabled |-> FALSE, disabled_at |-> Unset, enable_at |-> Unset]

Terms == Durations \cup {Unset, Permanent}

\* handel_dis_users.disable: permanent wins, a positive duration gives an
\* explicit moment, and otherwise the default window applies.
DisableRecord(term) ==
  [disabled |-> TRUE, disabled_at |-> now,
   enable_at |-> IF term \in {Unset, Permanent} THEN term ELSE now + term]

\* MUTANT: -1 is compared like any other moment.
Due_PermanentIsPast(u) ==
  /\ registry[u].disabled
  /\ IF registry[u].enable_at # Unset
     THEN now >= registry[u].enable_at
     ELSE registry[u].disabled_at <= now - TimeToActive

\* MUTANT: a record without enable_at is taken for a permanent one.
Due_NoDefaultWindow(u) ==
  /\ registry[u].disabled
  /\ registry[u].enable_at \notin {Permanent, Unset}
  /\ now >= registry[u].enable_at

\* UserCRUD.get_users_to_enable: -1 never, an explicit moment exactly, and
\* otherwise disabled_at plus the default window.
Due(u) ==
  /\ registry[u].disabled
  /\ registry[u].enable_at # Permanent
  /\ IF registry[u].enable_at # Unset
     THEN now >= registry[u].enable_at
     ELSE registry[u].disabled_at <= now - TimeToActive

\* UserCRUD.set_disabled(disabled=False): the inverse stays unless the caller
\* confirmed the panel enable.
ClearRecord(u) == registry' = [registry EXCEPT ![u] = NotDisabled]

---------------------------------------------------------------------------
(* Calls in progress.                                                      *)

NoBan == [by |-> "none", home |-> {}]

\* plan: how to disable; snap: the group snapshot, then the groups to apply.
EnfIdle == [pc |-> "idle", plan |-> ByStatus, snap |-> {}, term |-> Unset]

\* todo: users not yet tried; cur: the one in hand, with its inverse and the
\* groups to restore; confirmed: the enabled and not_found results.
LiftIdle == [pc |-> "idle", todo |-> {}, cur |-> NoUser, inv |-> NoInverse,
             restored |-> {}, confirmed |-> {}]

\* Users a lifter has collected and not finished with.
Handling(l) == lift[l].todo \cup lift[l].confirmed \cup {lift[l].cur}

\* Users a lifter has still to enable on the panel.
StillToLift(l) ==
  lift[l].todo \cup (IF lift[l].pc \in {"details", "put"} THEN {lift[l].cur} ELSE {})

Init ==
  /\ status = [u \in Users |-> "active"]
  /\ groups \in [Users -> SUBSET Groups]
  /\ ban = [u \in Users |-> NoBan]
  /\ registry = [u \in Users |-> NotDisabled]
  /\ prov = [u \in Users |-> NoInverse]
  /\ disableBy \in Groups \cup {ByStatus}
  /\ now = 1
  /\ enf = [u \in Users |-> EnfIdle]
  /\ lift = [l \in Lifters |-> LiftIdle]

---------------------------------------------------------------------------
(* _disable_user, one per user: disable_user_with_punishment holds the     *)
(* user's incident claim around it.                                        *)

EnfEnd(u) == enf' = [enf EXCEPT ![u] = EnfIdle]
EnfGoto(u, pc) == enf' = [enf EXCEPT ![u].pc = pc]

\* The term is chosen by the punishment step.  check_user_exists: a deleted
\* user is skipped; an unreachable panel counts as "exists".
DisableUser(u, term) ==
  /\ enf[u].pc = "idle"
  /\ now <= Horizon
  /\ status[u] # "deleted" \/ May("refused")
  /\ May("overlap") \/ \A l \in Lifters : u \notin Handling(l)
  /\ enf' = [enf EXCEPT ![u] = [EnfIdle EXCEPT !.pc = "read", !.term = term]]
  /\ UNCHANGED <<panelVars, rowVars, disableBy, now, lift>>

\* read_config and _read_disable_provenance: an unresolved inverse decides
\* the method before the settings do.
ReadProvenance(u) ==
  \E plan \in Groups \cup {ByStatus} :
    /\ enf[u].pc = "read"
    /\ prov[u].method = "none" => plan = disableBy
    /\ prov[u].method = "status" => plan = ByStatus
    /\ prov[u].method = "group" => plan \in prov[u].applied
    /\ enf' = [enf EXCEPT ![u].plan = plan,
                          ![u].pc = IF plan = ByStatus THEN "prepare" ELSE "details"]
    /\ UNCHANGED <<panelVars, rowVars, disableBy, now, lift>>

\* disable_user_by_group: get_user_details for the groups to go back to.
DisableDetails(u) ==
  /\ enf[u].pc = "details"
  /\ status[u] # "deleted"
  /\ enf' = [enf EXCEPT ![u].snap = groups[u], ![u].pc = "prepare"]
  /\ UNCHANGED <<panelVars, rowVars, disableBy, now, lift>>

\* MUTANT: a retry replaces the inverse by a fresh snapshot.
PrepareProvenance_Fresh(u) ==
  LET new == IF enf[u].plan = ByStatus THEN StatusInverse
             ELSE GroupInverse(enf[u].snap, enf[u].plan)
  IN /\ enf[u].pc = "prepare"
     /\ prov' = [prov EXCEPT ![u] = new]
     /\ enf' = [enf EXCEPT ![u].snap = new.applied, ![u].pc = "put"]
     /\ UNCHANGED <<panelVars, registry, disableBy, now, lift>>

\* _prepare_disable_provenance: the first inverse is kept across retries; one
\* of the other method fails the attempt.
PrepareProvenance(u) ==
  LET new == IF enf[u].plan = ByStatus THEN StatusInverse
             ELSE GroupInverse(enf[u].snap, enf[u].plan)
      stored == IF prov[u].method = "none" THEN new ELSE prov[u]
  IN /\ enf[u].pc = "prepare"
     /\ prov' = [prov EXCEPT ![u] = stored]
     /\ IF stored.method = new.method
        THEN enf' = [enf EXCEPT ![u].snap = stored.applied, ![u].pc = "put"]
        ELSE EnfEnd(u)
     /\ UNCHANGED <<panelVars, registry, disableBy, now, lift>>

\* The effect of the disabling PUT on the panel: status alone, or groups and
\* status together.
ApplyDisable(u) ==
  /\ status' = [status EXCEPT ![u] = "disabled"]
  /\ groups' = IF enf[u].plan = ByStatus THEN groups
               ELSE [groups EXCEPT ![u] = enf[u].snap]
  /\ ban' = [ban EXCEPT ![u] =
       [by |-> IF enf[u].plan = ByStatus /\ ban[u].by # "group" THEN "status" ELSE "group",
        home |-> IF ban[u].by = "none" THEN groups[u] ELSE ban[u].home]]

\* The PUT answers 200.
PutDisable(u) ==
  /\ enf[u].pc = "put"
  /\ status[u] # "deleted"
  /\ ApplyDisable(u)
  /\ EnfGoto(u, "store")
  /\ UNCHANGED <<rowVars, disableBy, now, lift>>

\* The PUT is applied and its answer lost: panel_put tries again or gives up.
PutDisableLost(u) ==
  /\ May("lost")
  /\ enf[u].pc = "put"
  /\ status[u] # "deleted"
  /\ ApplyDisable(u)
  /\ EnfEnd(u) \/ UNCHANGED enf
  /\ UNCHANGED <<rowVars, disableBy, now, lift>>

\* dis_users.disable stores the record the enable loop reads.
StoreDisable(u) ==
  /\ enf[u].pc = "store"
  /\ registry' = [registry EXCEPT ![u] = DisableRecord(enf[u].term)]
  /\ EnfEnd(u)
  /\ UNCHANGED <<panelVars, prov, disableBy, now, lift>>

\* Every way _disable_user ends without its next effect: the guard protects
\* the user, a GET or a PUT fails or answers 404, a session fails.  A failed
\* registry write (handel_dis_users._run) leaves the panel ban untracked.
DisableFails(u) ==
  /\ \/ enf[u].pc \in {"read", "put"} /\ May("protected")
     \/ enf[u].pc \in {"details", "put"} /\ (May("refused") \/ status[u] = "deleted")
     \/ enf[u].pc \in {"read", "prepare", "store"} /\ May("database")
  /\ EnfEnd(u)
  /\ UNCHANGED <<panelVars, rowVars, disableBy, now, lift>>

---------------------------------------------------------------------------
(* enable_selected_users, one per lifter.                                  *)

StartLift(l, batch) ==
  /\ lift[l].pc = "idle"
  /\ batch # {}
  /\ May("overlap") \/ \A u \in batch : enf[u].pc = "idle"
  /\ lift' = [lift EXCEPT ![l] = [LiftIdle EXCEPT !.pc = "read", !.todo = batch]]
  /\ UNCHANGED <<panelVars, rowVars, disableBy, now, enf>>

\* enable_dis_user: everyone who is due now.
EnableLoop == StartLift(Loop, {u \in Users : Due(u)})

\* The bot and the API enable one tracked user or all of them;
\* fix_stuck_disabled_users enables whoever sits in the disabled group.
ManualEnable(l) ==
  LET tracked == {u \in Users : registry[u].disabled}
      stuck == {u \in Users : status[u] # "deleted" /\ disableBy \in groups[u]}
  IN /\ l # Loop
     /\ \E batch \in {tracked} \cup {{u} : u \in tracked \cup stuck} :
          StartLift(l, batch)

\* _read_disable_provenance chooses between the two ways of enabling.
LiftRead(l, u) ==
  /\ lift[l].pc = "read"
  /\ u \in lift[l].todo
  /\ lift' = [lift EXCEPT
       ![l].todo = @ \ {u}, ![l].cur = u, ![l].inv = prov[u],
       ![l].pc = IF prov[u].method = "group" THEN "details" ELSE "put"]
  /\ UNCHANGED <<panelVars, rowVars, disableBy, now, enf>>

\* MUTANT: the untouched ban is not told apart from an edited user.
RestoredGroups_RemoveOnly(inverse, current) ==
  current \ (inverse.applied \ inverse.original)

\* enable_user_by_group: undo exactly what the ban introduced.
RestoredGroups(inverse, current) ==
  IF current = inverse.applied
  THEN inverse.original
  ELSE current \ (inverse.applied \ inverse.original)

LiftDetails(l) ==
  LET u == lift[l].cur
  IN /\ lift[l].pc = "details"
     /\ lift' = IF status[u] = "deleted"
                THEN [lift EXCEPT ![l].pc = "clear"]
                ELSE [lift EXCEPT ![l].pc = "put",
                        ![l].restored = RestoredGroups(lift[l].inv, groups[u])]
     /\ UNCHANGED <<panelVars, rowVars, disableBy, now, enf>>

\* The effect of the enabling PUT on the panel.
ApplyEnable(l) ==
  LET u == lift[l].cur
      byGroup == lift[l].inv.method = "group"
  IN /\ status' = [status EXCEPT ![u] = "active"]
     /\ groups' = IF byGroup THEN [groups EXCEPT ![u] = lift[l].restored] ELSE groups
     /\ ban' = IF byGroup \/ ban[u].by # "group"
               THEN [ban EXCEPT ![u] = NoBan] ELSE ban

\* The PUT answers 200, or 404 for a deleted user.
PutEnable(l) ==
  /\ lift[l].pc = "put"
  /\ IF status[lift[l].cur] = "deleted" THEN UNCHANGED panelVars ELSE ApplyEnable(l)
  /\ lift' = [lift EXCEPT ![l].pc = "clear"]
  /\ UNCHANGED <<rowVars, disableBy, now, enf>>

\* On to the next user of the batch, with these left to try and these confirmed.
NextUser(l, left, done) ==
  lift' = [lift EXCEPT ![l] = [LiftIdle EXCEPT
             !.pc = "read", !.todo = left, !.confirmed = done]]

\* The PUT is applied and its answer lost: panel_put tries again, or the user
\* is reported failed and left for a later cycle.
PutEnableLost(l) ==
  /\ May("lost")
  /\ lift[l].pc = "put"
  /\ status[lift[l].cur] # "deleted"
  /\ ApplyEnable(l)
  /\ NextUser(l, lift[l].todo, lift[l].confirmed) \/ UNCHANGED lift
  /\ UNCHANGED <<rowVars, disableBy, now, enf>>

\* A session, a GET or a PUT fails.
LiftFails(l) ==
  /\ \/ /\ lift[l].pc = "read" /\ May("database")
        /\ \E u \in lift[l].todo : NextUser(l, lift[l].todo \ {u}, lift[l].confirmed)
     \/ /\ lift[l].pc \in {"details", "put"} /\ May("refused")
        /\ NextUser(l, lift[l].todo, lift[l].confirmed)
  /\ UNCHANGED <<panelVars, rowVars, disableBy, now, enf>>

\* _clear_database_disable_flags: record and inverse go together, after the
\* panel confirmed the enable or the deletion.
ClearFlags(l) ==
  LET u == lift[l].cur
  IN /\ lift[l].pc = "clear"
     /\ ClearRecord(u)
     /\ prov' = [prov EXCEPT ![u] = NoInverse]
     /\ NextUser(l, lift[l].todo, lift[l].confirmed \cup {u})
     /\ UNCHANGED <<panelVars, disableBy, now, enf>>

\* A failing session is logged and swallowed.
ClearFlagsFails(l) ==
  /\ May("database")
  /\ lift[l].pc = "clear"
  /\ NextUser(l, lift[l].todo, lift[l].confirmed \cup {lift[l].cur})
  /\ UNCHANGED <<panelVars, rowVars, disableBy, now, enf>>

\* Every panel request of the batch is over.
LiftReported(l) ==
  /\ lift[l].pc = "read"
  /\ lift[l].todo = {}
  /\ lift' = [lift EXCEPT ![l].pc = IF lift[l].confirmed = {} THEN "idle" ELSE "enable"]
  /\ UNCHANGED <<panelVars, rowVars, disableBy, now, enf>>

\* dis_users.enable for each enabled or not_found user, the inverse left alone.
RegistryEnable(l, u) ==
  /\ lift[l].pc = "enable"
  /\ u \in lift[l].confirmed
  /\ ClearRecord(u) \/ (May("database") /\ UNCHANGED registry)
  /\ lift' = [lift EXCEPT
       ![l].confirmed = @ \ {u},
       ![l].pc = IF lift[l].confirmed = {u} THEN "idle" ELSE "enable"]
  /\ UNCHANGED <<panelVars, prov, disableBy, now, enf>>

---------------------------------------------------------------------------
(* The environment.                                                        *)

\* MUTANT: clearing the local record also drops the inverse.
CliEnable_DropsInverse(u) ==
  /\ May("cli")
  /\ registry[u].disabled
  /\ ClearRecord(u)
  /\ prov' = [prov EXCEPT ![u] = NoInverse]
  /\ UNCHANGED <<panelVars, disableBy, now, enf, lift>>

\* pg-limiter disabled enable / enable-all: the record only, never the panel.
CliEnable(u) ==
  /\ May("cli")
  /\ registry[u].disabled
  /\ ClearRecord(u)
  /\ UNCHANGED <<panelVars, prov, disableBy, now, enf, lift>>

\* The administrator activates a user on the panel; a ban by group leaves the
\* disabled group in place.
AdminActivate(u) ==
  /\ May("panel")
  /\ status[u] = "disabled"
  /\ status' = [status EXCEPT ![u] = "active"]
  /\ ban' = IF ban[u].by = "group" THEN ban ELSE [ban EXCEPT ![u] = NoBan]
  /\ UNCHANGED <<groups, rowVars, disableBy, now, enf, lift>>

AdminDelete(u) ==
  /\ May("panel")
  /\ status[u] # "deleted"
  /\ status' = [status EXCEPT ![u] = "deleted"]
  /\ ban' = [ban EXCEPT ![u] = NoBan]
  /\ UNCHANGED <<groups, rowVars, disableBy, now, enf, lift>>

\* The administrator gives a user who is not banned other groups.
AdminEdit(u, gs) ==
  /\ May("edit")
  /\ status[u] = "active"
  /\ ban[u].by = "none"
  /\ groups[u] # gs
  /\ groups' = [groups EXCEPT ![u] = gs]
  /\ UNCHANGED <<status, ban, rowVars, disableBy, now, enf, lift>>

ChangeSettings(d) ==
  /\ May("settings")
  /\ disableBy # d
  /\ disableBy' = d
  /\ UNCHANGED <<panelVars, rowVars, now, enf, lift>>

\* Time passes; past Horizon only once every punishment in hand has ended.
Tick ==
  /\ now < MaxTime
  /\ now >= Horizon => \A u \in Users : enf[u].pc = "idle"
  /\ now' = now + 1
  /\ UNCHANGED <<panelVars, rowVars, disableBy, enf, lift>>

\* The process dies: what it had in hand is gone, SQLite and the panel stay.
Crash ==
  /\ May("crash")
  /\ enf' = [u \in Users |-> EnfIdle]
  /\ lift' = [l \in Lifters |-> LiftIdle]
  /\ UNCHANGED <<panelVars, rowVars, disableBy, now>>

EnforcementStep(u) ==
  \/ ReadProvenance(u) \/ DisableDetails(u) \/ PrepareProvenance(u)
  \/ PutDisable(u) \/ PutDisableLost(u) \/ StoreDisable(u) \/ DisableFails(u)

LiftStep(l) ==
  \/ \E u \in Users : LiftRead(l, u) \/ RegistryEnable(l, u)
  \/ LiftDetails(l) \/ PutEnable(l) \/ PutEnableLost(l) \/ LiftFails(l)
  \/ ClearFlags(l) \/ ClearFlagsFails(l) \/ LiftReported(l)

Next ==
  \/ \E u \in Users :
       \/ \E term \in Terms : DisableUser(u, term)
       \/ EnforcementStep(u)
       \/ CliEnable(u) \/ AdminActivate(u) \/ AdminDelete(u)
       \/ \E gs \in SUBSET Groups : AdminEdit(u, gs)
  \/ EnableLoop
  \/ \E l \in Lifters : ManualEnable(l) \/ LiftStep(l)
  \/ \E d \in Groups \cup {ByStatus} : ChangeSettings(d)
  \/ Tick
  \/ Crash

Spec == Init /\ [][Next]_vars

\* The event loop runs a task whose await has returned, the clock advances and
\* the enable loop wakes every 30 s.  A panel, a database or a process that
\* fails now and then also succeeds: a step tried again and again is taken.
Fairness ==
  /\ SF_vars(Tick)
  /\ SF_vars(EnableLoop)
  /\ \A u \in Users :
       WF_vars(EnforcementStep(u)) /\ SF_vars(PutDisable(u)) /\ SF_vars(LiftRead(Loop, u))
  /\ WF_vars(LiftStep(Loop))
  /\ SF_vars(LiftDetails(Loop))
  /\ SF_vars(PutEnable(Loop))
  /\ SF_vars(ClearFlags(Loop))

FairSpec == Spec /\ Fairness

---------------------------------------------------------------------------
(* Properties.                                                             *)

Inverses == [method : {"none", "status", "group"},
             original : SUBSET Groups, applied : SUBSET Groups]
Records == [disabled : BOOLEAN, disabled_at : Int, enable_at : Int]
Bans == [by : {"none", "status", "group"}, home : SUBSET Groups]
Enforcements == [pc : {"idle", "read", "details", "prepare", "put", "store"},
                 plan : Groups \cup {ByStatus}, snap : SUBSET Groups, term : Terms]
Lifts == [pc : {"idle", "read", "details", "put", "clear", "enable"},
          todo : SUBSET Users, cur : Users \cup {NoUser}, inv : Inverses,
          restored : SUBSET Groups, confirmed : SUBSET Users]

\* The state is well typed.
TypeOK ==
  /\ status \in [Users -> {"active", "disabled", "deleted"}]
  /\ groups \in [Users -> SUBSET Groups]
  /\ registry \in [Users -> Records]
  /\ prov \in [Users -> Inverses]
  /\ disableBy \in Groups \cup {ByStatus}
  /\ now \in Int
  /\ enf \in [Users -> Enforcements]
  /\ lift \in [Lifters -> Lifts]
  /\ ban \in [Users -> Bans]

\* A ban the limiter has in force on the panel always has its inverse, of its
\* own method, committed in the users row, whatever was lost, refused, failed
\* or killed in between: "Commit recovery information before applying its
\* corresponding panel PUT" (_prepare_disable_provenance).
BanReversible ==
  \A u \in Users : ban[u].by # "none" => prov[u].method = ban[u].by

\* Nobody the enable loop is about to enable has a record that forbids it: a
\* permanent one, or one whose time has not come (enable_dis_user decides on a
\* batch and acts on it panel request by panel request).
LoopActsOnDue ==
  \A u \in StillToLift(Loop) :
    registry[u].disabled =>
      /\ registry[u].enable_at # Permanent
      /\ registry[u].enable_at # Unset => registry[u].enable_at <= now
      /\ registry[u].enable_at = Unset => registry[u].disabled_at + TimeToActive <= now

\* The inverse of a group ban holds the groups that the ban replaced, also when
\* it was staged by an earlier attempt or survived a failed clean-up
\* (prepare_disable_provenance keeps the first one).
InverseExact ==
  \A u \in Users : ban[u].by = "group" => prov[u].original = ban[u].home

Promise == INSTANCE PanelBan

\* The life cycle implements what PanelBan promises: a ban is imposed and lifted on
\* the panel in one step each, a punishment repeated after a lost answer or a crash
\* takes nothing more, and whoever lifts a ban by group, however often it was
\* retried, gives back exactly the groups the user had (enable_user_by_group).
BanKeepsPromise == Promise!Spec

\* A recorded ban with a term is over at some later time: enable_dis_user keeps
\* retrying it until the panel confirms.
TimedBanEnds ==
  \A u \in Users :
    (registry[u].disabled /\ registry[u].enable_at # Permanent)
      ~> ~registry[u].disabled \/ registry[u].enable_at = Permanent
===========================================================================
