------------------------------ MODULE ApiSource ------------------------------
(***************************************************************************)
(* The API as a source of evidence (utils/ip_source_api.py, online_ips.py, *)
(* api_node_scope.py, the API half of utils/shared_state.py): a cycle      *)
(* reads the nodes, the topology and the list of online users, asks for    *)
(* the addresses of each user, reads nodes, topology and memberships once  *)
(* more, and publishes what has not changed meanwhile; enforcement then    *)
(* judges users by the sample, asking again where an answer has grown old. *)
(* Between any two reads the panel, the settings and Topics may change.    *)
(*                                                                         *)
(* A user has at most one address per node, so that a set of nodes stands  *)
(* for a set of addresses.                                                 *)
(***************************************************************************)
EXTENDS Integers, FiniteSets

CONSTANTS
  Users,       \* the users the panel may list
  Busy,        \* those whose connections and memberships change
  Nodes,       \* the monitored nodes
  Live,        \* nodes whose core lists open connections; the others list recent ones
  Limit,       \* devices a user may have
  Freshness,   \* api_ip_freshness, in ticks
  DeadCycles,  \* DEAD_CYCLE_FALLBACK_THRESHOLD
  MaxChanges,  \* bound: changes of groups and memberships in a cycle
  Scenarios    \* sets of disturbances, one of which a behaviour is exposed to

\* "connect"  connections come and go
\* "member"   users change groups or are deleted
\* "rewire"   groups are given other nodes
\* "node"     nodes go down and come back
\* "shift"    the list of users changes while it is read
\* "swap"     it does, and its length stays the same
\* "fail"     requests fail, or are put off by the circuit breaker
\* "bad"      an answer holds a map that is null or cannot be dated
\* "dead"     every request fails
\* "save"     the settings cannot be saved
\* "settings" an operator changes the settings
\* "topics"   monitoring is paused and resumed
DisturbanceKinds == {"connect", "member", "rewire", "node", "shift", "swap", "fail", "bad", "dead", "save", "settings", "topics"}

Groups == {"a", "b"}
Old == 2 * Freshness

VARIABLES
  may,      \* the disturbances of this behaviour
  up,       \* the nodes that are connected
  reach,    \* the nodes each group gives access to
  group,    \* the group of each user, or "gone"
  age,      \* ticks since a user was last active on a node
  src,      \* ip_source
  topics,   \* Topics admit monitoring; sources have been retired since the last change
  cyc,      \* the cycle in progress
  since,    \* ticks since the latest request for each user began
  health,   \* unsuccessful cycles in a row, whether they ran under the present settings
  hist      \* ghosts

panelVars == <<up, reach, group, age>>
vars == <<may, panelVars, src, topics, cyc, since, health, hist>>

May(d) == d \in may
Nothing == [u \in Users |-> {}]

\* An answer about a user: the nodes it covers, the ones it says nothing usable
\* about, and the addresses in it.
NoAnswer == [st |-> "none", maps |-> {}, odd |-> {}, ips |-> {}]

\* cfg, adm and gen: settings, Topics and collection are still those the cycle
\* began with.
NoCycle ==
  [pc |-> "idle", cfg |-> FALSE, adm |-> FALSE, gen |-> FALSE, up |-> {}, reach |-> [g \in Groups |-> {}],
   want |-> [u \in Users |-> "none"], flagged |-> FALSE, todo |-> {}, asked |-> {}, ans |-> [u \in Users |-> NoAnswer],
   up2 |-> {}, reach2 |-> [g \in Groups |-> {}], need |-> Nothing, unknown |-> {}, partial |-> {},
   known |-> {}, count |-> Nothing, outcome |-> "none", who |-> {}]

NoHistory == [steady |-> Nothing, moved |-> {}, rewired |-> {}, changes |-> 0, swapped |-> FALSE]

Init ==
  /\ may \in Scenarios
  /\ up = Nodes
  /\ reach = [g \in Groups |-> IF g = "a" THEN Nodes ELSE {CHOOSE n \in Nodes : TRUE}]
  /\ group = [u \in Users |-> "a"]
  /\ age = [u \in Users |-> [n \in Nodes |-> IF u \in Busy THEN 0 ELSE Old]]
  /\ src = "api"
  /\ topics = [allowed |-> TRUE, synced |-> TRUE]
  /\ cyc = NoCycle
  /\ since = [u \in Users |-> Freshness]
  /\ health = [dead |-> 0, same |-> TRUE, bad |-> 0]
  /\ hist = NoHistory

Current == cyc.cfg /\ cyc.adm /\ cyc.gen
At(p) == cyc.pc = p
Go(p) == cyc' = [cyc EXCEPT !.pc = p]
Over == cyc' = NoCycle

---------------------------------------------------------------------------
(* collect_active_users_from_api.                                          *)

\* synchronize_monitoring retires the source of a past monitoring period.
Synchronized == [topics EXCEPT !.synced = TRUE]
Retired == IF topics.synced THEN health ELSE [dead |-> 0, same |-> FALSE, bad |-> 0]

\* run_check_users_usage loads the settings and waits for its turn.
Load ==
  /\ At("idle")
  /\ src = "api" /\ topics.allowed
  /\ topics' = Synchronized
  /\ health' = Retired
  /\ cyc' = [NoCycle EXCEPT !.pc = "turn", !.cfg = TRUE, !.adm = TRUE]
  /\ UNCHANGED <<may, panelVars, src, since, hist>>

\* What was changed while it waited is loaded again.
Begin ==
  /\ At("turn")
  /\ IF cyc.adm /\ cyc.cfg
     THEN /\ cyc' = [cyc EXCEPT !.pc = "nodes", !.gen = TRUE]
          /\ hist' = [NoHistory EXCEPT !.steady = [u \in Users |-> {n \in up : age[u][n] = 0 /\ group[u] # "gone" /\ n \in reach[group[u]]}]]
     ELSE Over /\ UNCHANGED hist
  /\ UNCHANGED <<may, panelVars, src, topics, since, health>>

\* A cycle that settings, Topics or a newer collection have overtaken.
Superseded ==
  /\ \/ cyc.pc \in {"fetch", "publish", "account", "pop", "judge"} /\ ~Current
     \/ At("list") /\ ~cyc.adm
  /\ Over
  /\ UNCHANGED <<may, panelVars, src, topics, since, health, hist>>

\* _resolve_node_context; called again after the fan-out.
ReadNodes ==
  /\ ~May("dead")
  /\ \/ At("nodes") /\ cyc' = [cyc EXCEPT !.pc = "topology", !.up = up]
     \/ At("nodes2") /\ cyc' = [cyc EXCEPT !.pc = "topology2", !.up2 = up]
  /\ UNCHANGED <<may, panelVars, src, topics, since, health, hist>>

\* load_node_scope
ReadTopology ==
  /\ ~May("dead")
  /\ \/ At("topology") /\ cyc' = [cyc EXCEPT !.pc = "list", !.reach = reach]
     \/ At("topology2") /\ cyc' = [cyc EXCEPT !.pc = "members", !.reach2 = reach]
  /\ UNCHANGED <<may, panelVars, src, topics, since, health, hist>>

Online == {u \in Users : group[u] # "gone" /\ \E n \in Nodes : age[u][n] = 0}

\* fetch_online_candidates.  A list that grows or shrinks while it is read is
\* flagged, and may miss users; one whose length stays the same is not.
Candidates ==
  \E listed \in SUBSET Online, flagged \in BOOLEAN :
    /\ ~May("dead")
    /\ At("list") /\ cyc.adm
    /\ listed = Online \/ IF flagged THEN May("shift") ELSE May("swap")
    /\ flagged => May("shift")
    /\ IF Current
       THEN cyc' = [cyc EXCEPT !.pc = IF listed = {} THEN "nodes2" ELSE "fetch", !.flagged = flagged, !.todo = listed,
                               !.want = [u \in Users |-> IF u \in listed THEN group[u] ELSE "none"]]
       ELSE Over
    /\ hist' = [hist EXCEPT !.swapped = ~flagged /\ listed # Online]
    /\ UNCHANGED <<may, panelVars, src, topics, since, health>>

Targets == {u \in Users : cyc.want[u] # "none"}

\* A lookup takes a slot; its window begins.
Ask(u) ==
  /\ At("fetch") /\ Current
  /\ u \in cyc.todo
  /\ cyc' = [cyc EXCEPT !.todo = @ \ {u}, !.asked = @ \cup {u}]
  /\ since' = [since EXCEPT ![u] = 0]
  /\ UNCHANGED <<may, panelVars, src, topics, health, hist>>

\* MUTANT: the age of an address is not looked at.
Listed_AnyAge(u, n) == age[u][n] < Old

\* An open connection, or one that was active shortly before the request.
Listed(u, n) == IF n \in Live THEN age[u][n] = 0 ELSE age[u][n] - since[u] < Freshness

\* fetch_user_online_ips: a node that is down is left out or null, and a map may
\* be impossible to date.
Answers(u) ==
  {[st |-> "ok", maps |-> up \ odd, odd |-> odd, ips |-> {n \in up \ odd : Listed(u, n)}] :
     odd \in {o \in SUBSET Nodes : o \cap up = {} \/ May("bad")}}

\* An answer, or 404; a body that cannot be read; a failed request.
Answer(u) ==
  \E a \in (IF group[u] = "gone" THEN {[NoAnswer EXCEPT !.st = "not_found"]} ELSE Answers(u))
           \cup {[NoAnswer EXCEPT !.st = s] : s \in IF May("fail") THEN {"invalid", "failed"} ELSE {}} :
    /\ ~May("dead")
    /\ At("fetch") /\ Current
    /\ u \in cyc.asked
    /\ cyc' = [cyc EXCEPT !.asked = @ \ {u}, !.ans[u] = a]
    /\ UNCHANGED <<may, panelVars, src, topics, since, health, hist>>

\* The circuit breaker has not let the request out: it is queued again.
Deferred(u) ==
  /\ May("fail")
  /\ At("fetch") /\ Current
  /\ u \in cyc.asked
  /\ cyc' = [cyc EXCEPT !.asked = @ \ {u}, !.todo = @ \cup {u}]
  /\ UNCHANGED <<may, panelVars, src, topics, since, health, hist>>

\* All lookups have come back, or the breaker has been waited for long enough; a
\* cycle without any answer is a failure.
EndFetch ==
  /\ At("fetch") /\ Current
  /\ cyc.asked = {}
  /\ cyc.todo = {} \/ May("fail")
  /\ cyc' = IF \E u \in Targets : cyc.ans[u].st \in {"ok", "not_found", "invalid"}
            THEN [cyc EXCEPT !.pc = "nodes2", !.todo = {}]
            ELSE [cyc EXCEPT !.pc = "account", !.todo = {}, !.outcome = "failure"]
  /\ UNCHANGED <<may, panelVars, src, topics, since, health, hist>>

\* The panel is unavailable, or nodes, topology, list or memberships cannot be read.
CollectionFails ==
  /\ May("fail") \/ May("dead")
  /\ cyc.pc \in {"nodes", "topology", "list", "nodes2", "topology2", "members"}
  /\ cyc' = [cyc EXCEPT !.pc = "account", !.outcome = "failure"]
  /\ UNCHANGED <<may, panelVars, src, topics, since, health, hist>>

---------------------------------------------------------------------------
(* What the answers are worth.                                             *)

Access(r, g) == IF g \in Groups THEN r[g] ELSE {}
Applicable(u) == Access(cyc.reach, cyc.want[u])

\* The applicable nodes that were up before and after the fan-out.
Stable(u) == Applicable(u) \cap cyc.up \cap cyc.up2

\* MUTANT: the membership is not compared.
Unchanged_ScopeOnly(u, now) == Applicable(u) = Access(cyc.reach2, cyc.want[u])

\* Group and scope are the same before and after.
Unchanged(u, now) == now[u] = cyc.want[u] /\ Applicable(u) = Access(cyc.reach2, now[u])

\* required_nodes_by_user: whether the maps of a user may be counted at all.
Confirmed(u, now) == Unchanged(u, now) /\ (Applicable(u) # {} => Stable(u) # {})

\* _build_users_from_payloads: a user is unknown whose scope was not confirmed,
\* whose confirmed nodes are not in the answer at all, or hold an unusable map.
Unknown(now) ==
  {u \in Targets :
     \/ cyc.ans[u].st \notin {"ok", "not_found"}
     \/ /\ cyc.ans[u].st = "ok"
        /\ \/ ~Confirmed(u, now)
           \/ Stable(u) # {} /\ Stable(u) \cap (cyc.ans[u].maps \cup cyc.ans[u].odd) = {}
           \/ Stable(u) \cap cyc.ans[u].odd # {}}

\* MUTANT: absence is concluded from a list that changed.
AbsenceComplete_Unflagged(flagged) == cyc.reach = cyc.reach2 /\ cyc.up = Nodes /\ cyc.up2 = Nodes

\* Who is not in the sample is absent only if nothing was missed.
AbsenceComplete(flagged) ==
  cyc.reach = cyc.reach2 /\ cyc.up = Nodes /\ cyc.up2 = Nodes /\ ~cyc.flagged /\ ~flagged

\* fetch_user_memberships, and the sample built from it.
Members ==
  \E listed \in SUBSET {u \in Targets : group[u] # "gone"}, flagged \in BOOLEAN :
    LET now == [u \in Users |-> IF u \in listed THEN group[u] ELSE "none"]
        unknown == Unknown(now)
    IN /\ ~May("dead")
       /\ At("members")
       /\ listed = {u \in Targets : group[u] # "gone"} \/ flagged
       /\ flagged => May("shift") /\ Targets # {}
       /\ cyc' = IF ~Current THEN NoCycle
                 ELSE IF Targets # {} /\ unknown = Targets THEN [cyc EXCEPT !.pc = "account", !.outcome = "skipped"]
                 ELSE [cyc EXCEPT !.pc = "publish", !.unknown = unknown,
                         !.partial = {u \in Targets \ unknown : Stable(u) # Applicable(u)},
                         !.known = IF AbsenceComplete(flagged) THEN Users ELSE Targets \ unknown,
                         !.need = [u \in Users |-> IF u \in Targets \ unknown THEN Stable(u) ELSE {}],
                         !.count = [u \in Users |-> IF u \in Targets \ unknown THEN cyc.ans[u].ips \cap Stable(u) ELSE {}]]
       /\ UNCHANGED <<may, panelVars, src, topics, since, health, hist>>

\* publish_api_snapshot
Publish ==
  /\ At("publish") /\ Current /\ topics.allowed
  /\ cyc' = [cyc EXCEPT !.pc = "account", !.outcome = "ready"]
  /\ UNCHANGED <<may, panelVars, src, topics, since, health, hist>>

---------------------------------------------------------------------------
(* _account_collection_cycle: cycles that were of no use lead to the logs. *)

Streak == IF health.same THEN health.dead ELSE 0

\* Only whether a count has reached the threshold matters.
Up(n) == IF n < DeadCycles THEN n + 1 ELSE n

\* MUTANT: failures under earlier settings count.
Account_AnySettings ==
  /\ At("account") /\ Current
  /\ IF cyc.outcome = "failure"
     THEN /\ health' = [dead |-> Up(health.dead), same |-> TRUE, bad |-> Up(health.bad)]
          /\ IF Up(health.dead) >= DeadCycles THEN Go("save") ELSE Over
     ELSE /\ health' = [dead |-> 0, same |-> TRUE, bad |-> 0]
          /\ IF cyc.outcome = "ready" THEN Go("pop") ELSE Over
  /\ UNCHANGED <<may, panelVars, src, topics, since, hist>>

\* MUTANT: the source is changed when the threshold is met, not when it is exceeded.
Account_Once ==
  /\ At("account") /\ Current
  /\ IF cyc.outcome = "failure"
     THEN /\ health' = [dead |-> Up(Streak), same |-> TRUE, bad |-> Up(health.bad)]
          /\ IF Streak = DeadCycles - 1 THEN Go("save") ELSE Over
     ELSE /\ health' = [dead |-> 0, same |-> TRUE, bad |-> 0]
          /\ IF cyc.outcome = "ready" THEN Go("pop") ELSE Over
  /\ UNCHANGED <<may, panelVars, src, topics, since, hist>>

\* Failures count as long as the settings are the same; a sample that says nothing
\* about anybody is no failure of the API.
Account ==
  /\ At("account") /\ Current
  /\ IF cyc.outcome = "failure"
     THEN /\ health' = [dead |-> Up(Streak), same |-> TRUE, bad |-> Up(health.bad)]
          /\ IF Up(Streak) >= DeadCycles THEN Go("save") ELSE Over
     ELSE /\ health' = [dead |-> 0, same |-> TRUE, bad |-> 0]
          /\ IF cyc.outcome = "ready" THEN Go("pop") ELSE Over
  /\ UNCHANGED <<may, panelVars, src, topics, since, hist>>

\* A failed save changes the revision; the count goes on under the new one.
SaveFails ==
  /\ May("save")
  /\ At("save") /\ cyc.cfg
  /\ health' = [health EXCEPT !.same = TRUE]
  /\ Over
  /\ UNCHANGED <<may, panelVars, src, topics, since, hist>>

\* The settings the cycle ran under are still there: the source is changed.
SaveFallback ==
  /\ At("save")
  /\ IF cyc.cfg THEN src' = "logs" ELSE UNCHANGED src
  /\ health' = [health EXCEPT !.dead = 0, !.same = FALSE]
  /\ Over
  /\ UNCHANGED <<may, panelVars, topics, since, hist>>

---------------------------------------------------------------------------
(* check_users_usage, as far as it looks at API evidence.                  *)

\* pop_api_users_snapshot
Pop ==
  /\ At("pop") /\ Current
  /\ cyc' = [cyc EXCEPT !.pc = "judge", !.todo = Users \ cyc.unknown]
  /\ UNCHANGED <<may, panelVars, src, topics, since, health, hist>>

Many(u) == Cardinality(cyc.count[u]) > Limit

\* A user who is known, wholly, not to be over the limit is back to normal.
Clear(u) ==
  /\ At("judge") /\ Current
  /\ u \in (cyc.todo \cap cyc.known) \ cyc.partial
  /\ ~Many(u)
  /\ cyc' = [cyc EXCEPT !.todo = @ \ {u}]
  /\ UNCHANGED <<may, panelVars, src, topics, since, health, hist>>

\* punishment_observation_is_current
Punish(u) ==
  /\ At("judge") /\ Current
  /\ u \in cyc.todo
  /\ Many(u)
  /\ since[u] < Freshness
  /\ cyc' = [cyc EXCEPT !.todo = @ \ {u}]
  /\ UNCHANGED <<may, panelVars, src, topics, since, health, hist>>

\* refresh_punishment_observation: the answer has grown old, so the user is asked
\* about again (recheck_api_user).
Recheck(u) ==
  /\ At("judge") /\ Current
  /\ u \in cyc.todo
  /\ Many(u)
  /\ since[u] >= Freshness
  /\ cyc' = [cyc EXCEPT !.pc = "again", !.who = {u}, !.ans[u] = NoAnswer]
  /\ since' = [since EXCEPT ![u] = 0]
  /\ UNCHANGED <<may, panelVars, src, topics, health, hist>>

\* The new answer, then the nodes and the topology.
RecheckAnswer(u) ==
  /\ At("again") /\ u \in cyc.who
  /\ group[u] # "gone"
  /\ \E a \in Answers(u) : cyc' = [cyc EXCEPT !.pc = "again_nodes", !.ans[u] = a]
  /\ UNCHANGED <<may, panelVars, src, topics, since, health, hist>>

RecheckNodes ==
  /\ At("again_nodes")
  /\ cyc' = [cyc EXCEPT !.pc = "again_topology", !.up2 = up]
  /\ UNCHANGED <<may, panelVars, src, topics, since, health, hist>>

RecheckTopology ==
  /\ At("again_topology")
  /\ cyc' = [cyc EXCEPT !.pc = "again_details", !.reach2 = reach]
  /\ UNCHANGED <<may, panelVars, src, topics, since, health, hist>>

\* The user's details: whoever has changed is not judged in this cycle.
RecheckDetails(u) ==
  LET stable == cyc.need[u] \cap cyc.up2
      good == /\ group[u] = cyc.want[u] /\ Access(cyc.reach2, group[u]) = Applicable(u)
              /\ Applicable(u) # {} => stable # {}
              /\ since[u] < Freshness /\ Current
              /\ stable = {} \/ stable \cap (cyc.ans[u].maps \cup cyc.ans[u].odd) # {}
              /\ stable \cap cyc.ans[u].odd = {}
  IN /\ At("again_details") /\ u \in cyc.who
     /\ cyc' = IF good THEN [cyc EXCEPT !.pc = "judge", !.who = {}, !.count[u] = cyc.ans[u].ips \cap stable,
                               !.partial = IF stable # Applicable(u) THEN @ \cup {u} ELSE @]
               ELSE [cyc EXCEPT !.pc = "judge", !.who = {}, !.todo = @ \ {u}]
     /\ UNCHANGED <<may, panelVars, src, topics, since, health, hist>>

\* The new lookup, or what confirms it, fails.
RecheckFails ==
  /\ cyc.pc \in {"again", "again_nodes", "again_topology", "again_details"}
  /\ May("fail") \/ \E u \in cyc.who : group[u] = "gone"
  /\ cyc' = [cyc EXCEPT !.pc = "judge", !.who = {}, !.todo = @ \ cyc.who]
  /\ UNCHANGED <<may, panelVars, src, topics, since, health, hist>>

EndCycle ==
  /\ At("judge") /\ Current
  /\ \A u \in cyc.todo : ~Many(u)
  /\ Over
  /\ UNCHANGED <<may, panelVars, src, topics, since, health, hist>>

---------------------------------------------------------------------------
(* The panel, the operators and time.                                      *)

\* What remains of the ghost: connections, nodes and access that have lasted.
Lasting(g, r, nodes, a) ==
  [u \in Users |-> {n \in hist.steady[u] : n \in nodes /\ a[u][n] = 0 /\ g[u] # "gone" /\ n \in Access(r, g[u])}]

\* Time passes; connections that are not kept open grow old.
Tick ==
  \E kept \in SUBSET (Busy \X Nodes) :
    LET later == [u \in Users |-> [n \in Nodes |-> IF <<u, n>> \in kept \/ age[u][n] = Old THEN age[u][n] ELSE age[u][n] + 1]]
    IN /\ kept \subseteq {p \in Busy \X Nodes : age[p[1]][p[2]] = 0}
       /\ May("connect") \/ kept = {p \in Busy \X Nodes : age[p[1]][p[2]] = 0}
       /\ age' = later
       /\ since' = [u \in Users |-> IF since[u] < Freshness THEN since[u] + 1 ELSE since[u]]
       /\ hist' = [hist EXCEPT !.steady = Lasting(group, reach, up, later)]
       /\ UNCHANGED <<may, up, reach, group, src, topics, cyc, health>>

Connect(u, n) ==
  /\ May("connect")
  /\ age[u][n] > 0
  /\ age' = [age EXCEPT ![u][n] = 0]
  /\ UNCHANGED <<may, up, reach, group, src, topics, cyc, since, health, hist>>

NodeChanges(n) ==
  /\ May("node")
  /\ up' = IF n \in up THEN up \ {n} ELSE up \cup {n}
  /\ hist' = [hist EXCEPT !.steady = Lasting(group, reach, up', age)]
  /\ UNCHANGED <<may, reach, group, age, src, topics, cyc, since, health>>

Regroup(u, g) ==
  /\ May("member")
  /\ group[u] \notin {g, "gone"}
  /\ hist.changes < MaxChanges
  /\ group' = [group EXCEPT ![u] = g]
  /\ hist' = [hist EXCEPT !.steady = Lasting(group', reach, up, age),
                          !.changes = @ + 1,
                          !.moved = IF cyc.pc \in {"fetch", "nodes2", "topology2", "members"} THEN @ \cup {u} ELSE @]
  /\ UNCHANGED <<may, up, reach, age, src, topics, cyc, since, health>>

Rewire(g) ==
  /\ May("rewire")
  /\ hist.changes < MaxChanges
  /\ \E ns \in (SUBSET Nodes) \ {reach[g]} : reach' = [reach EXCEPT ![g] = ns]
  /\ hist' = [hist EXCEPT !.steady = Lasting(group, reach', up, age),
                          !.changes = @ + 1,
                          !.rewired = IF cyc.pc \in {"list", "fetch", "nodes2", "topology2"} THEN @ \cup {g} ELSE @]
  /\ UNCHANGED <<may, up, group, age, src, topics, cyc, since, health>>

\* Any write of the settings.
Settings ==
  /\ May("settings")
  /\ src' \in {"api", "logs"}
  /\ cyc' = [cyc EXCEPT !.cfg = FALSE]
  /\ health' = [health EXCEPT !.same = FALSE, !.bad = 0]
  /\ UNCHANGED <<may, panelVars, topics, since, hist>>

TopicsChange ==
  /\ May("topics")
  /\ topics' = [allowed |-> ~topics.allowed, synced |-> FALSE]
  /\ cyc' = [cyc EXCEPT !.adm = FALSE]
  /\ UNCHANGED <<may, panelVars, src, since, health, hist>>

\* watch_monitoring_admission
Watch ==
  /\ ~topics.synced
  /\ topics' = Synchronized
  /\ health' = Retired
  /\ cyc' = [cyc EXCEPT !.gen = FALSE]
  /\ UNCHANGED <<may, panelVars, src, since, hist>>

Cycle ==
  \/ Load \/ Begin \/ Superseded \/ ReadNodes \/ ReadTopology \/ Candidates \/ EndFetch \/ Members \/ Publish \/ Account
  \/ SaveFallback \/ Pop \/ RecheckNodes \/ RecheckTopology \/ EndCycle
  \/ \E u \in Users : Ask(u) \/ Answer(u) \/ Clear(u) \/ Punish(u) \/ Recheck(u) \/ RecheckAnswer(u) \/ RecheckDetails(u)

Faults ==
  \/ CollectionFails \/ SaveFails \/ RecheckFails \/ Settings \/ TopicsChange \/ Watch \/ Tick
  \/ \E u \in Users : Deferred(u)
  \/ \E u \in Busy : (\E n \in Nodes : Connect(u, n)) \/ \E g \in Groups \cup {"gone"} : Regroup(u, g)
  \/ \E n \in Nodes : NodeChanges(n)
  \/ \E g \in Groups : Rewire(g)

Next == Cycle \/ Faults

Spec == Init /\ [][Next]_vars

\* The loop goes on; a save that is tried for ever succeeds in the end.
FairSpec == Spec /\ WF_vars(Cycle \/ CollectionFails) /\ SF_vars(SaveFallback)

---------------------------------------------------------------------------
(* Properties.                                                             *)

\* Nobody is declared back to normal by the cycle although, from its first step
\* to that moment, connections on more nodes than the limit allows were open,
\* reachable and on nodes that stayed up: missing maps, changing lists and
\* changing scopes make a user unknown or partial, never absent.
SteadySeen ==
  [][\A u \in Users : Clear(u) => hist.swapped \/ Cardinality(hist.steady[u]) <= Limit]_vars

\* A user whose group, or what it may reach, changed between the reads before and
\* after the fan-out is kept out of what is published.
ChangeNoticed ==
  Publish => \A u \in Targets \ cyc.unknown :
    cyc.ans[u].st = "ok" => u \notin hist.moved /\ cyc.want[u] \notin hist.rewired

\* Every address a punishment counts was open within the last freshness window,
\* or, where the node's core lists recent ones, within the last two.
CountsReal ==
  \A u \in Users : Punish(u) =>
    \A n \in cyc.count[u] : age[u][n] < IF n \in Live THEN Freshness ELSE 2 * Freshness

\* The limiter turns to the logs by itself only after as many failed cycles in a
\* row as the threshold asks for, with no change of the settings and no pause of
\* monitoring since the first.
FallbackEarned == At("account") /\ cyc'.pc = "save" => health'.bad >= DeadCycles

\* What is published, counted and given up for the logs is what holds now, not what
\* held when the cycle, the request or the streak of failures began.
EvidenceCurrent == [][ChangeNoticed /\ CountsReal /\ FallbackEarned]_vars

\* An API that never answers is given up for the logs, even when saving the
\* settings fails a number of times.
FallsBack == May("dead") => <>(src = "logs")
=============================================================================
