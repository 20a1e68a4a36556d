------------------------------ MODULE PanelBan ------------------------------
(***************************************************************************)
(* What a ban promises, seen from the panel: it is imposed in one step,    *)
(* repeating it changes nothing more, and it ends in one step that gives   *)
(* the user back the groups it took.  Nothing is said of the users table,  *)
(* retries, lost answers or crashes, which BanLifecycle has.               *)
(***************************************************************************)
CONSTANTS Users, Groups

VARIABLES
  status,  \* "active", "disabled" or "deleted"
  groups,  \* group_ids
  ban      \* the ban in force: how it was imposed, and the groups it took

vars == <<status, groups, ban>>

NoBan == [by |-> "none", home |-> {}]

Init ==
  /\ status = [u \in Users |-> "active"]
  /\ groups \in [Users -> SUBSET Groups]
  /\ ban = [u \in Users |-> NoBan]

Banned(u) == ban[u].by # "none"

\* By status, or by moving the user to one disabled group.
Impose(u) ==
  /\ status[u] # "deleted" /\ ~Banned(u)
  /\ status' = [status EXCEPT ![u] = "disabled"]
  /\ \/ groups' = groups /\ ban' = [ban EXCEPT ![u] = [by |-> "status", home |-> groups[u]]]
     \/ /\ \E g \in Groups : groups' = [groups EXCEPT ![u] = {g}]
        /\ ban' = [ban EXCEPT ![u] = [by |-> "group", home |-> groups[u]]]

\* Punished again, after an administrator activated the user or an answer was lost.
Repeat(u) ==
  /\ status[u] # "deleted" /\ Banned(u)
  /\ status' = [status EXCEPT ![u] = "disabled"]
  /\ UNCHANGED <<groups, ban>>

Lift(u) ==
  /\ status[u] # "deleted" /\ Banned(u)
  /\ status' = [status EXCEPT ![u] = "active"]
  /\ groups' = IF ban[u].by = "group" THEN [groups EXCEPT ![u] = ban[u].home] ELSE groups
  /\ ban' = [ban EXCEPT ![u] = NoBan]

\* The administrator's hand: a ban by group outlives an activation.
AdminActivate(u) ==
  /\ status[u] = "disabled"
  /\ status' = [status EXCEPT ![u] = "active"]
  /\ ban' = IF ban[u].by = "group" THEN ban ELSE [ban EXCEPT ![u] = NoBan]
  /\ UNCHANGED groups

AdminDelete(u) ==
  /\ status[u] # "deleted"
  /\ status' = [status EXCEPT ![u] = "deleted"]
  /\ ban' = [ban EXCEPT ![u] = NoBan]
  /\ UNCHANGED groups

Next ==
  \E u \in Users : Impose(u) \/ Repeat(u) \/ Lift(u) \/ AdminActivate(u) \/ AdminDelete(u)

Spec == Init /\ [][Next]_vars
=============================================================================
