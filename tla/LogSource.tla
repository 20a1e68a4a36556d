------------------------------ MODULE LogSource ------------------------------
(***************************************************************************)
(* The nodes' logs as a source of evidence: the streams and their          *)
(* supervision (utils/get_logs.py), the parser (utils/parse_logs.py), the  *)
(* rolling store (utils/shared_state.py) and the account of what a sample  *)
(* is worth (utils/log_observations.py).                                   *)
(*                                                                         *)
(* A sample may say that a user is absent only if no node's stream was     *)
(* interrupted within the interval it covers.  Streams close, go silent    *)
(* while they look open, and are rebuilt; records are prepared across      *)
(* awaits; two coroutines poll the panel's list of nodes and a third       *)
(* rebuilds everything, each working from what it read earlier.            *)
(*                                                                         *)
(* There is one user, with one address per node.  Times are ages in ticks. *)
(***************************************************************************)
EXTENDS Integers, FiniteSets

CONSTANTS
  Nodes,
  Slots,      \* tasks a node may have at the same time
  Window,     \* max(check_interval, api_ip_freshness), in ticks
  Silence,    \* node_silence_window
  MaxFaults,  \* bound: disturbances in a behaviour
  Scenarios   \* sets of disturbances, one of which a behaviour is exposed to

\* "close"    streams end, and cannot be opened or are refused
\* "deaf"     streams stop delivering and still look open
\* "panel"    nodes are disconnected, disabled and connected on the panel
\* "list"     the list of nodes cannot be read
\* "settings" an operator disables nodes or changes the source
\* "undated"  a record has no usable time, or a live identity is evicted
\* "refresh"  all streams are rebuilt
\* "slow"     a record takes long to prepare
DisturbanceKinds == {"close", "deaf", "panel", "list", "settings", "undated", "refresh", "slow"}

ASSUME ConstantsAssumption ==
  /\ IsFiniteSet(Nodes) /\ Slots \subseteq Nat /\ IsFiniteSet(Slots)
  /\ Window \in Nat \ {0} /\ Silence \in Nat /\ Window <= Silence
  /\ MaxFaults \in Nat
  /\ Scenarios \subseteq SUBSET DisturbanceKinds

VARIABLES
  may,     \* the disturbances of this behaviour, and how many are left
  panel,   \* the status of each node on the panel
  set,     \* the settings: ip_source and disabled_nodes
  task,    \* TASKS: what each task of a node is doing
  beat,    \* NODE_LAST_EVENT
  obs,     \* LOG_OBSERVATIONS
  store,   \* ACTIVE_USERS: since when the user was last seen on each node
  prep,    \* the record each task is preparing
  loops,   \* what handle_cancel, check_and_add_new_nodes and handle_cancel_all have read
  scan,    \* the sample under evaluation
  missed   \* ghost: since when a record of the node was last lost

vars == <<may, panel, set, task, beat, obs, store, prep, loops, scan, missed>>

Never == Silence + 2                       \* no event at all
Older(a) == IF a <= Silence THEN a + 1 ELSE a
NoRecord == [st |-> "none", age |-> 0, good |-> FALSE]
NoList == [n \in Nodes |-> "none"]
Asleep == [pc |-> "idle", list |-> NoList, active |-> {}]
NoScan == [pc |-> "idle", good |-> FALSE, kept |-> {}, req |-> {}, complete |-> FALSE, count |-> {}]

\* floor, fleet and node: since when the settings, the list and each node have been
\* observed without a gap; unsure and all: how long a node, or every one, is in doubt.
NoObservations ==
  [set |-> [src |-> "logs", off |-> {}], list |-> NoList, excl |-> {}, seen |-> 0, floor |-> 0, fleet |-> 0,
   node |-> [n \in Nodes |-> 0], state |-> {}, unsure |-> [n \in Nodes |-> 0], all |-> 0]

Init ==
  /\ may \in [kinds : Scenarios, left : {MaxFaults}]
  /\ panel = [n \in Nodes |-> "connected"]
  /\ set = [src |-> "logs", off |-> {}]
  /\ task = [n \in Nodes |-> [k \in Slots |-> "none"]]
  /\ beat = [n \in Nodes |-> Never]
  /\ obs = NoObservations
  /\ store = [n \in Nodes |-> Window]
  /\ prep = [n \in Nodes |-> [k \in Slots |-> NoRecord]]
  /\ loops = [l \in {"cancel", "add", "refresh"} |-> Asleep]
  /\ scan = [NoScan EXCEPT !.pc = "due"]
  /\ missed = [n \in Nodes |-> Window]

May(d) == d \in may.kinds /\ may.left > 0
Hit == may' = [may EXCEPT !.left = @ - 1]

---------------------------------------------------------------------------
(* LogObservations.                                                        *)

Known(o) == o.list # NoList
Req(o) == {n \in Nodes : o.list[n] \in {"connected", "error"}} \ o.set.off
Conn(o) == {n \in Req(o) : o.list[n] = "connected"}

\* monitors
Monitors(o, n) == n \notin o.set.off \cup o.excl /\ (Known(o) => n \in Req(o))

\* Nodes that are new, or whose connection has changed, in o.
Renewed(o) ==
  {n \in Req(o) : ~Known(obs) \/ n \notin Req(obs) \/ ((n \in Conn(o)) # (n \in Conn(obs)))}

\* _refresh_required_nodes: they start over, the others are forgotten, and a list
\* that becomes known or unknown starts over as a whole.
Required(o) ==
  [o EXCEPT !.fleet = IF Known(o) # Known(obs) \/ (Known(o) /\ Req(o) = {} /\ Req(obs) # {}) THEN 0 ELSE @,
            !.node = [n \in Nodes |-> IF n \in Renewed(o) THEN 0 ELSE @[n]],
            !.state = IF Known(o) THEN (@ \cup Renewed(o)) \cap Req(o) ELSE @]

\* configure: a change of the sampling settings.
Configured == IF obs.set = set THEN obs ELSE Required([obs EXCEPT !.set = set, !.floor = 0])

Stale == Known(obs) /\ obs.seen > Silence

\* register_fleet; a list that was not renewed in time is a gap.
Registered(list) ==
  Required([Configured EXCEPT !.list = list, !.seen = 0, !.fleet = IF Stale THEN 0 ELSE @,
                              !.excl = IF list = NoList THEN @ ELSE {n \in Nodes : list[n] = "disabled"}])

\* _global_unavailable_reason
Usable(o) ==
  o.set.src = "logs" /\ Known(o) /\ o.seen <= Silence /\ o.all = 0 /\ o.floor >= Window /\ o.fleet >= Window

\* node_unavailable_reason
Ready(o, n) == n \in Conn(o) \cap o.state /\ beat[n] <= Silence /\ o.unsure[n] = 0 /\ o.node[n] >= Window

\* The generation has changed, and with it everything is retired.
Regenerated(o) == o.set # obs.set \/ Known(o) # Known(obs) \/ (Stale /\ o.seen = 0)

\* The nodes whose samples and unfinished records a step retires.
Void(o, ns) == IF Regenerated(o) THEN Nodes ELSE ns \cup Renewed(o)
Voided(o, ns) == [n \in Nodes |-> IF n \in Void(o, ns) THEN [k \in Slots |-> [prep[n][k] EXCEPT !.good = FALSE]] ELSE prep[n]]

Sooner(a, b) == IF a < b THEN a ELSE b

\* A step that turns the observations into o, begins a new interval for the nodes
\* in gaps, gives those in ns a new epoch, leaves s of the store without what
\* belongs to the nodes in out, and loses the records in lost.
Observe(o, gaps, ns, s, out, lost) ==
  LET gone == out \cup (IF o.set # obs.set THEN Nodes ELSE {})
  IN /\ obs' = [o EXCEPT !.node = [n \in Nodes |-> IF n \in gaps THEN 0 ELSE @[n]], !.state = @ \cup (gaps \cap Req(o))]
     /\ scan' = [scan EXCEPT !.good = @ /\ ~Regenerated(o), !.kept = @ \ Void(o, gaps \cup ns)]
     /\ store' = [n \in Nodes |-> IF n \in gone THEN Window ELSE s[n]]
     /\ missed' = [n \in Nodes |-> Sooner(IF n \in gone THEN Sooner(store[n], missed[n]) ELSE missed[n],
                                          IF \E r \in lost : r[1] = n THEN (CHOOSE r \in lost : r[1] = n)[2] ELSE Window)]

---------------------------------------------------------------------------
(* get_nodes_logs: the stream of a node.                                   *)

\* MUTANT: a closed stream leaves its heartbeat behind.
Forgotten_Not(ns) == {}

\* forget_node_event: whoever loses a heartbeat has a gap.
Forgotten(ns) == {n \in ns : beat[n] # Never /\ Monitors(obs, n)}
Silenced(ns) == beat' = [n \in Nodes |-> IF n \in Forgotten(ns) \/ (n \in ns /\ ~Monitors(obs, n)) THEN Never ELSE beat[n]]

\* The stream is opened: its first event begins a new interval.
Open(n, k) ==
  \E o \in {Configured} :
     /\ task[n][k] = "idle"
     /\ set.src = "logs" /\ Monitors(o, n)
     /\ panel[n] = "connected"
     /\ task' = [task EXCEPT ![n][k] = "open"]
     /\ beat' = [beat EXCEPT ![n] = 0]
     /\ prep' = Voided(o, {n})
     /\ Observe(o, {n}, {}, store, {}, {})
     /\ UNCHANGED <<may, panel, set, loops>>

\* A task whose node is not monitored ends.
Leave(n, k) ==
  \E o \in {Configured} :
     /\ task[n][k] = "idle"
     /\ ~Monitors(o, n)
     /\ task' = [task EXCEPT ![n][k] = "none"]
     /\ prep' = Voided(o, {})
     /\ Observe(o, {}, {}, store, {}, {})
     /\ UNCHANGED <<may, panel, set, beat, loops>>

\* The panel refuses the key; after any other failure the task tries again.
Refused(n, k) ==
  /\ May("close") /\ Hit
  /\ task[n][k] = "idle"
  /\ task' = [task EXCEPT ![n][k] = "none"]
  /\ UNCHANGED <<panel, set, beat, obs, store, prep, loops, scan, missed>>

\* The stream ends; _track_log_transport forgets its heartbeat.
Close(n, k) ==
  /\ May("close") /\ Hit
  /\ task[n][k] = "open" /\ prep[n][k] = NoRecord
  /\ task' = [task EXCEPT ![n][k] = "idle"]
  /\ Silenced({n})
  /\ prep' = Voided(obs, Forgotten({n}))
  /\ Observe(obs, Forgotten({n}), {}, store, {}, {})
  /\ UNCHANGED <<panel, set, loops>>

\* Nothing is delivered any more, and nothing says so.
GoDeaf(n, k) ==
  /\ May("deaf") /\ Hit
  /\ task[n][k] = "open" /\ prep[n][k] = NoRecord
  /\ task' = [task EXCEPT ![n][k] = "deaf"]
  /\ UNCHANGED <<panel, set, beat, obs, store, prep, loops, scan, missed>>

\* What an open stream checks every 15 seconds: whether it is still wanted.
Recheck(n, k) ==
  \E o \in {Configured} :
     /\ task[n][k] = "open" /\ prep[n][k] = NoRecord
     /\ ~Monitors(o, n) \/ set.src = "api"
     /\ task' = [task EXCEPT ![n][k] = "idle"]
     /\ Silenced({n})
     /\ prep' = Voided(o, Forgotten({n}))
     /\ Observe(o, Forgotten({n}), {}, store, IF Monitors(o, n) THEN {n} ELSE {}, {})
     /\ UNCHANGED <<may, panel, set, loops>>

---------------------------------------------------------------------------
(* parse_logs.                                                             *)

Hearing(n) == {k \in Slots : task[n][k] = "open"}

\* A stream that is deaf, and not known to be.
Unnoticed(n) == beat[n] <= Silence /\ \E k \in Slots : task[n][k] = "deaf"

\* The user is active on a node.  Every open stream of the node delivers the
\* record, with a usable time or without; if there is none, the record is lost.
\* One record per tick tells all there is to know.
Activity(n, st) ==
  LET o == Configured
      heard == Hearing(n) # {} /\ set.src = "logs" /\ Monitors(o, n)
  IN /\ panel[n] = "connected"
     /\ \A k \in Hearing(n) : prep[n][k] = NoRecord
     /\ store[n] > 0 \/ st = "undated"
     /\ IF st = "undated" THEN heard /\ May("undated") /\ Hit ELSE UNCHANGED may
     /\ IF heard
        THEN /\ prep' = [Voided(o, {}) EXCEPT ![n] = [k \in Slots |-> IF k \in Hearing(n) THEN [st |-> st, age |-> 0, good |-> TRUE] ELSE @[k]]]
             /\ Observe(o, {}, {}, store, {}, {})
        ELSE IF Hearing(n) # {} /\ set.src = "logs"
        THEN prep' = Voided(o, {}) /\ Observe(o, {}, {}, store, {}, {<<n, 0>>})
        ELSE /\ missed' = [missed EXCEPT ![n] = IF Unnoticed(n) THEN @ ELSE 0]
             /\ UNCHANGED <<obs, prep, scan, store>>
     /\ UNCHANGED <<panel, set, task, beat, loops>>

\* mark_uncertain: an undatable record, or a live identity evicted from the cache.
InDoubt(n) ==
  IF n \in Req(obs) THEN [obs EXCEPT !.unsure[n] = Window, !.state = @ \cup {n}] ELSE [obs EXCEPT !.all = Window]

\* The record is committed under the lock; it is void if its stream, the list of
\* nodes or the settings have changed while it was prepared.  A record overtaken by a
\* write of the settings is dropped without a trace; missed does not count it.
Commit(n, k) ==
  LET r == prep[n][k]
      kept == [store EXCEPT ![n] = Sooner(r.age, @)]
      rest == [Voided(obs, {n}) EXCEPT ![n][k] = NoRecord]
  IN /\ r # NoRecord
     /\ \/ /\ ~r.good \/ ~Monitors(obs, n)
           /\ prep' = [prep EXCEPT ![n][k] = NoRecord]
           /\ Observe(obs, {}, {}, store, {}, IF r.st = "overtaken" THEN {} ELSE {<<n, r.age>>})
           /\ UNCHANGED may
        \/ /\ r.good /\ Monitors(obs, n) /\ r.st = "undated"
           /\ prep' = rest
           /\ Observe(InDoubt(n), {}, {n}, store, {}, {<<n, r.age>>})
           /\ UNCHANGED may
        \/ /\ r.good /\ Monitors(obs, n) /\ r.st = "dated"
           /\ prep' = [prep EXCEPT ![n][k] = NoRecord]
           /\ Observe(obs, {}, {}, kept, {}, {})
           /\ UNCHANGED may
        \/ /\ r.good /\ Monitors(obs, n) /\ r.st = "dated"
           /\ May("undated") /\ Hit
           /\ prep' = rest
           /\ Observe(InDoubt(n), {}, {n}, kept, {}, {})
     /\ UNCHANGED <<panel, set, task, beat, loops>>

---------------------------------------------------------------------------
(* The coroutines that keep the streams in step with the panel.            *)

\* handle_cancel and check_and_add_new_nodes read the list; the second one has
\* looked at the tasks before.
ReadList(l) ==
  /\ l \in {"cancel", "add"} \/ May("refresh")
  /\ loops[l].pc = IF l = "refresh" THEN "stopped" ELSE "idle"
  /\ loops' = [loops EXCEPT ![l] = [pc |-> "pass", list |-> panel, active |-> {n \in Nodes : \E k \in Slots : task[n][k] # "none"}]]
  /\ UNCHANGED <<may, panel, set, task, beat, obs, store, prep, scan, missed>>

Unfinished(cancelled) ==
  {<<c[1], prep[c[1]][c[2]].age>> : c \in {c \in cancelled : prep[c[1]][c[2]].st \in {"dated", "undated"}}}

\* Tasks are cancelled, in the middle of a record if need be.
Cancelled(o, cancelled, gaps) ==
  /\ task' = [n \in Nodes |-> [k \in Slots |-> IF <<n, k>> \in cancelled THEN "none" ELSE task[n][k]]]
  /\ prep' = [n \in Nodes |-> [k \in Slots |-> IF <<n, k>> \in cancelled THEN NoRecord ELSE Voided(o, gaps)[n][k]]]
  /\ Observe(o, gaps, {}, store, {}, Unfinished(cancelled))

Tasks(n) == {k \in Slots : task[n][k] # "none"}

\* MUTANT: a stream that has fallen silent is left alone.
Unwanted_Heard(o, list) == {n \in Nodes : list[n] # "connected" \/ ~Monitors(o, n)}

\* Nodes whose tasks handle_cancel ends: not connected, not monitored or silent.
Unwanted(o, list) == {n \in Nodes : list[n] # "connected" \/ ~Monitors(o, n) \/ beat[n] = Silence + 1}

\* A pass of handle_cancel: one task per name, unless the node is not monitored.
CancelPass ==
  \E o \in {Registered(loops["cancel"].list)} :
  LET cancelled == {c \in Unwanted(o, loops["cancel"].list) \X Slots :
                     c[2] \in Tasks(c[1]) /\ (Monitors(o, c[1]) => \A j \in Tasks(c[1]) : c[2] <= j)}
      ns == {c[1] : c \in cancelled}
  IN /\ loops["cancel"].pc = "pass"
     /\ loops' = [loops EXCEPT !["cancel"] = Asleep]
     /\ Silenced(ns)
     /\ Cancelled(o, cancelled, Forgotten(ns))
     /\ UNCHANGED <<may, panel, set>>

\* The list cannot be read: the fleet is unknown.
ListFails(l) ==
  /\ May("list") /\ Hit
  /\ l \in {"cancel", "add"}
  /\ loops[l].pc = "idle"
  /\ prep' = Voided(Registered(NoList), {})
  /\ Observe(Registered(NoList), {}, {}, store, {}, {})
  /\ UNCHANGED <<panel, set, task, beat, loops>>

\* create_node_task, for nodes in the list that are connected and monitored.
Created(o, ns) ==
  task' = [n \in Nodes |-> [k \in Slots |->
            IF n \in ns /\ Monitors(o, n) /\ task[n][k] = "none" /\ \A j \in Slots : j < k => task[n][j] # "none" THEN "idle" ELSE task[n][k]]]

\* A pass of check_and_add_new_nodes.
AddPass ==
  \E o \in {Registered(loops["add"].list)} :
     /\ loops["add"].pc = "pass"
     /\ loops' = [loops EXCEPT !["add"] = Asleep]
     /\ Created(o, {n \in Nodes : loops["add"].list[n] = "connected"} \ loops["add"].active)
     /\ prep' = Voided(o, {})
     /\ Observe(o, {}, {}, store, {}, {})
     /\ UNCHANGED <<may, panel, set, beat>>

\* handle_cancel_all: everything is stopped, and started again from a new list
\* without looking at the tasks.
RefreshStop ==
  LET o == Registered(NoList)
      all == Nodes \X Slots
  IN /\ May("refresh") /\ Hit
     /\ loops["refresh"].pc = "idle" /\ set.src = "logs"
     /\ loops' = [loops EXCEPT !["refresh"].pc = "stopped"]
     /\ beat' = [n \in Nodes |-> Never]
     /\ Cancelled(o, {c \in all : task[c[1]][c[2]] # "none"}, Forgotten(Nodes))
     /\ UNCHANGED <<panel, set>>

RefreshStart ==
  \E o \in {Registered(loops["refresh"].list)} :
     /\ loops["refresh"].pc = "pass"
     /\ loops' = [loops EXCEPT !["refresh"] = Asleep]
     /\ Created(o, {n \in Nodes : loops["refresh"].list[n] = "connected"})
     /\ prep' = Voided(o, {})
     /\ Observe(o, {}, {}, store, {}, {})
     /\ UNCHANGED <<may, panel, set, beat>>

---------------------------------------------------------------------------
(* The sample: pop_active_users_snapshot and is_current.                   *)

Pop ==
  \E o \in {Configured} :
  LET ready == IF Usable(o) THEN {n \in Req(o) : Ready(o, n)} ELSE {}
      complete == Usable(o) /\ ready = Req(o)
  IN /\ scan.pc = "due"
     /\ prep' = Voided(o, {})
     /\ obs' = o
     /\ scan' = IF ready # {} \/ complete
                THEN [pc |-> "judge", good |-> TRUE, kept |-> ready, req |-> Req(o), complete |-> complete,
                      count |-> {n \in ready : store[n] < Window}]
                ELSE NoScan
     /\ store' = IF o.set # obs.set THEN [n \in Nodes |-> Window] ELSE store
     /\ missed' = IF o.set # obs.set THEN [n \in Nodes |-> Sooner(store[n], missed[n])] ELSE missed
     /\ UNCHANGED <<may, panel, set, task, beat, loops>>

\* The sample is still complete: nothing has been retired, every node still ready.
Complete ==
  /\ scan.good /\ scan.complete
  /\ Usable(obs) /\ scan.req = Req(obs)
  /\ scan.kept = scan.req /\ \A n \in scan.kept : Ready(obs, n)

\* The user is absent from a complete sample: the warning is taken back.
Clear ==
  /\ scan.pc = "judge"
  /\ Complete /\ scan.count = {}
  /\ scan' = NoScan
  /\ UNCHANGED <<may, panel, set, task, beat, obs, store, prep, loops, missed>>

EndScan ==
  /\ scan.pc = "judge"
  /\ scan' = NoScan
  /\ UNCHANGED <<may, panel, set, task, beat, obs, store, prep, loops, missed>>

---------------------------------------------------------------------------
(* The panel, the operators and time.                                      *)

NodeChanges(n) ==
  /\ May("panel") /\ Hit
  /\ panel' \in {[panel EXCEPT ![n] = st] : st \in {"connected", "error", "disabled"} \ {panel[n]}}
  /\ UNCHANGED <<set, task, beat, obs, store, prep, loops, scan, missed>>

\* Any write of the settings voids samples and unfinished records; a change of the
\* source empties the store as well (discard_source_observations).
Settings ==
  /\ May("settings") /\ Hit
  /\ set' \in [src : {"logs", "api"}, off : SUBSET Nodes] \ {set}
  /\ prep' = [n \in Nodes |-> [k \in Slots |->
                IF prep[n][k] = NoRecord THEN NoRecord ELSE [prep[n][k] EXCEPT !.st = "overtaken", !.good = FALSE]]]
  /\ scan' = [scan EXCEPT !.good = FALSE]
  /\ IF set'.src = set.src THEN UNCHANGED <<obs, store, missed>>
     ELSE /\ obs' = [obs EXCEPT !.set.src = "none", !.floor = 0]
          /\ store' = [n \in Nodes |-> Window]
          /\ missed' = [n \in Nodes |-> Sooner(store[n], missed[n])]
  /\ UNCHANGED <<panel, task, beat, loops>>

\* A tick passes, at least one scan and at most one late poll in each.  Every open
\* stream delivers a line unless it is at work on a record; a line after a silence,
\* or the first one, begins a new interval.
Tick ==
  LET lines == {n \in Nodes : Monitors(obs, n) /\ \E k \in Hearing(n) : prep[n][k] = NoRecord}
      gaps == {n \in lines : Older(beat[n]) > Silence}
      aged(a) == Sooner(a + 1, Window)
      left(d) == IF d > 0 THEN d - 1 ELSE 0
      o == [obs EXCEPT !.seen = IF Known(obs) THEN Older(@) ELSE @, !.floor = aged(@), !.fleet = aged(@), !.all = left(@),
                       !.node = [n \in Nodes |-> IF n \in gaps THEN 0 ELSE aged(@[n])], !.state = @ \cup (gaps \cap Req(obs)),
                       !.unsure = [n \in Nodes |-> left(@[n])]]
  IN /\ scan.pc # "due"
     /\ obs.seen <= Silence
     /\ IF \E n \in Nodes, k \in Slots : prep[n][k] # NoRecord THEN May("slow") /\ Hit ELSE UNCHANGED may
     /\ beat' = [n \in Nodes |-> IF n \in lines THEN 0 ELSE Older(beat[n])]
     /\ obs' = o
     /\ prep' = [n \in Nodes |-> [k \in Slots |->
          IF prep[n][k] = NoRecord THEN NoRecord ELSE [prep[n][k] EXCEPT !.age = aged(@), !.good = @ /\ n \notin gaps]]]
     /\ scan' = [scan EXCEPT !.pc = IF @ = "idle" THEN "due" ELSE @, !.kept = @ \ gaps]
     /\ store' = [n \in Nodes |-> aged(store[n])]
     /\ missed' = [n \in Nodes |-> aged(missed[n])]
     /\ UNCHANGED <<panel, set, task, loops>>

Stream(n, k) == Open(n, k) \/ Leave(n, k) \/ Recheck(n, k) \/ Commit(n, k)

Next ==
  \/ \E n \in Nodes, k \in Slots : Stream(n, k)
  \/ \E n \in Nodes, k \in Slots : Refused(n, k) \/ Close(n, k) \/ GoDeaf(n, k)
  \/ \E n \in Nodes, st \in {"dated", "undated"} : Activity(n, st)
  \/ \E l \in {"cancel", "add", "refresh"} : ReadList(l) \/ ListFails(l)
  \/ CancelPass \/ AddPass \/ RefreshStop \/ RefreshStart
  \/ Pop \/ Clear \/ EndScan
  \/ \E n \in Nodes : NodeChanges(n)
  \/ Settings \/ Tick

Spec == Init /\ [][Next]_vars

\* The event loop runs every coroutine, and time passes.
FairSpec ==
  /\ Spec
  /\ WF_vars(Tick) /\ WF_vars(Pop \/ EndScan)
  /\ WF_vars(ReadList("cancel") \/ CancelPass)
  /\ WF_vars(ReadList("add") \/ AddPass)
  /\ WF_vars(ReadList("refresh") \/ RefreshStart)
  /\ \A n \in Nodes, k \in Slots : WF_vars(Stream(n, k))

---------------------------------------------------------------------------
(* Properties.                                                             *)

\* A warning is taken back for absence only if no record of a required node was
\* lost within the interval: not to a closed stream, to one that had been silent
\* for longer than is tolerated, to a cancelled or overtaken preparation, to an
\* unusable time or to a store that was emptied.
AbsenceProven == [][Clear => \A n \in scan.req : missed[n] >= Window]_vars

\* A stream that went deaf, and whose heartbeat was forgotten with its twin's: no
\* pass finds it silent, and only the rebuild every two hours ends it.
Stranded(n) == beat[n] = Never /\ \E k \in Slots : task[n][k] = "deaf"

\* However streams ended, went deaf or were rebuilt, once the disturbances are over,
\* the panel's nodes are connected or switched off and none is stranded, complete
\* samples are taken again and again.
SamplesResume ==
  <>[](set.src = "logs" /\ \A n \in Nodes : panel[n] # "error" /\ ~Stranded(n)) => []<>(scan.pc = "judge" /\ Complete)
=============================================================================
