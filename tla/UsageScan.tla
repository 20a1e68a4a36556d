----------------------------- MODULE UsageScan -----------------------------
(***************************************************************************)
(* The enforcement cycle (utils/check_usage.py) over the monitoring        *)
(* records of the warning system (utils/warning_system/enhanced_system.py) *)
(* and the guard every first panel mutation passes                         *)
(* (utils/enforcement_guard.py).                                           *)
(*                                                                         *)
(* One cycle runs at a time, but it awaits the database, the panel and the *)
(* disk; an action is what it does between two awaits.  Meanwhile          *)
(* operators clear records, pause monitoring and change settings, the      *)
(* synchronisation changes what is known of a user, evidence grows old,    *)
(* and the process may be restarted from its file.  Times are kept as ages *)
(* that stop where no comparison tells them apart any more.                *)
(***************************************************************************)
EXTENDS Integers, FiniteSets

CONSTANTS
  Users,
  Rules,     \* values an operator gives max_warning_count
  Interval,  \* check_interval
  MaxCycle,  \* the longest a cycle takes
  Samples,   \* what a sample may say of a user, out of AllSamples
  Events     \* what happens around the cycle, out of AllEvents

\* "over": more devices than the limit the user had when the model began;
\* "unsure": not over, but part of the evidence is missing.
AllSamples == {"absent", "unsure", "within", "over"}
AllEvents == {"pause", "settings", "sync", "clear", "crash", "clock", "age", "db", "disk", "fail"}

ASSUME ConstantsAssumption ==
  /\ Rules \subseteq Nat \ {0} /\ Rules # {} /\ IsFiniteSet(Rules)
  /\ Interval \in Nat \ {0, 1}
  /\ MaxCycle \in Nat \ {0}
  /\ Samples \subseteq AllSamples
  /\ Events \subseteq AllEvents

VARIABLES
  warnings,   \* monitoring record of each user, or None: consecutive_violations, age of
              \* last_scan_time, time to monitoring_end_time, max_warnings_at_creation,
              \* age of warning_time
  file,       \* user_warnings.json
  writing,    \* the snapshot in the hands of the writer thread, or NoWrite
  want,       \* tasks waiting for a save: "cycle", "operator"
  setting,    \* max_warning_count in the configuration
  used,       \* warning_system.max_warnings
  policy,     \* what the database says of each user: "limited", "raised", "exempt"
  paused,     \* Topics are off
  since,      \* time since the last clearing by an operator
  elapsed,    \* time since the cycle began
  cyc         \* the cycle

recordVars == <<warnings, file, writing, want>>
worldVars == <<setting, policy, paused>>
vars == <<recordVars, used, worldVars, since, elapsed, cyc>>

UpTo(limit, n) == IF n < limit THEN n ELSE limit
MaxRule == CHOOSE r \in Rules : \A s \in Rules : s <= r

MinGap == Interval \div 2
Period == Interval * used
Longest == Interval * MaxRule         \* the longest monitoring period
Grown == (MaxRule - 1) * MinGap       \* the least age of a full streak

None == [n |-> 0, last |-> 0, left |-> 0, rule |-> 0, age |-> 0]
Empty == [u \in Users |-> None]
Recorded(u) == warnings[u].n > 0
NoWrite == [by |-> "nobody", data |-> Empty]

NoCycle == [pc |-> "idle", current |-> FALSE, rule |-> 0, sample |-> [u \in Users |-> "absent"],
            pol |-> [u \in Users |-> "exempt"], prot |-> {}, out |-> {}, todo |-> {}, rest |-> {},
            cands |-> {}, who |-> {}, from |-> "idle", started |-> FALSE]

Init ==
  /\ warnings = Empty
  /\ file = Empty
  /\ writing = NoWrite
  /\ want = {}
  /\ setting \in Rules
  /\ used = setting
  /\ policy = [u \in Users |-> "limited"]
  /\ paused = FALSE
  /\ since = Grown
  /\ elapsed = Interval
  /\ cyc = NoCycle

---------------------------------------------------------------------------
(* The warning system.                                                     *)

\* effective_max_warnings
Required(rec) == IF rec.rule > used THEN rec.rule ELSE used

\* is_monitoring_active
Active(rec) == rec.left > 0

\* MUTANT: every call counts, however soon after the last one.
Recount_NoGap(rec) ==
  [rec EXCEPT !.n = IF rec.last > Period THEN 1 ELSE UpTo(MaxRule, rec.n + 1), !.last = 0, !.left = Period]

\* MUTANT: scans more than one interval apart are not taken for consecutive.
Recount_ShortGap(rec) ==
  LET restarts == rec.last > Interval
      counts == ~restarts /\ rec.last >= MinGap
  IN [rec EXCEPT !.n = IF restarts THEN 1 ELSE IF counts THEN UpTo(MaxRule, rec.n + 1) ELSE rec.n,
                 !.last = IF restarts \/ counts THEN 0 ELSE rec.last,
                 !.left = Period]

\* add_warning for a user with a record.
Recount(rec) ==
  LET restarts == rec.last < 0 \/ rec.last > Period
      counts == ~restarts /\ rec.last >= MinGap
  IN [rec EXCEPT !.n = IF restarts THEN 1 ELSE IF counts THEN UpTo(MaxRule, rec.n + 1) ELSE rec.n,
                 !.last = IF restarts \/ counts THEN 0 ELSE rec.last,
                 !.left = Period]

\* add_warning for a user without one.
NewRecord == [n |-> 1, last |-> 0, left |-> Period, rule |-> used, age |-> 0]

\* save_warnings: the snapshot is taken on the loop, under the write lock.
StartWrite ==
  /\ writing = NoWrite
  /\ \E t \in want : writing' = [by |-> t, data |-> warnings]
  /\ UNCHANGED <<warnings, file, want, used, worldVars, since, elapsed, cyc>>

\* The write ends; an error is logged and goes no further.
EndWrite ==
  /\ writing # NoWrite
  /\ \/ file' = writing.data
     \/ "disk" \in Events /\ file' = file
  /\ want' = want \ {writing.by}
  /\ writing' = NoWrite
  /\ UNCHANGED <<warnings, used, worldVars, since, elapsed, cyc>>

\* MUTANT: the file is left for the next cycle to write.
ClearAll_Unsaved ==
  /\ "clear" \in Events
  /\ warnings' = Empty
  /\ since' = 0
  /\ UNCHANGED <<file, writing, want, used, worldVars, elapsed, cyc>>

\* clear_all_trust_data, and /clear_monitoring.
ClearAll ==
  /\ "clear" \in Events
  /\ "operator" \notin want
  /\ warnings' = Empty
  /\ want' = want \cup {"operator"}
  /\ since' = 0
  /\ UNCHANGED <<file, writing, used, worldVars, elapsed, cyc>>

---------------------------------------------------------------------------
(* What the cycle knows of a user.                                         *)

At(pc) == cyc.pc = pc /\ "cycle" \notin want

\* More devices than the limit, by the sample of the cycle and a policy.
OverBy(u, pol) == cyc.sample[u] = "over" /\ pol = "limited"
Over(u) == OverBy(u, policy[u])

\* Reads of the database may fail.
Read == {TRUE} \cup (IF "db" \in Events THEN {FALSE} ELSE {})

\* refresh_current_policy and refresh_user_evidence: u can be judged now.
Judgeable(u) ==
  /\ cyc.current
  /\ u \notin cyc.prot
  /\ policy[u] # "exempt"
  /\ cyc.sample[u] # "unsure"

\* punishment_is_current, after the awaited half of revalidate_punishment.
Convicted(u) ==
  /\ Judgeable(u)
  /\ Recorded(u)
  /\ warnings[u].n >= Required(warnings[u])
  /\ Over(u)
  /\ cyc.from = "persist" => ~Active(warnings[u])

Done(u) == [cyc EXCEPT !.todo = @ \ {u}]
Protected(u) == [cyc EXCEPT !.todo = @ \ {u}, !.prot = @ \cup {u}]
Sentence(u) == [cyc EXCEPT !.todo = @ \ {u}, !.pc = "verify", !.who = {u}, !.from = cyc.pc]

---------------------------------------------------------------------------
(* check_users_usage.                                                      *)

\* run_check_users_usage takes the sample.
Begin ==
  /\ cyc.pc = "idle"
  /\ elapsed >= Interval
  /\ ~paused
  /\ \E sample \in [Users -> Samples] :
       cyc' = [NoCycle EXCEPT !.pc = "facts", !.current = TRUE, !.rule = setting, !.sample = sample,
                              !.cands = {u \in Users : Recorded(u)}]
  /\ elapsed' = 0
  /\ UNCHANGED <<recordVars, used, worldVars, since>>

\* read_config_snapshot
ReadFacts ==
  /\ At("facts")
  /\ cyc.current
  /\ cyc' = [cyc EXCEPT !.pc = "report", !.pol = policy,
                        !.prot = {u \in Users : policy[u] = "exempt" \/ cyc.sample[u] = "unsure"}]
  /\ UNCHANGED <<recordVars, used, worldVars, since, elapsed>>

\* The report and the address history are written; then update_settings.
Report ==
  /\ At("report")
  /\ cyc.current
  /\ used' = cyc.rule
  /\ cyc' = [cyc EXCEPT !.pc = "persist", !.todo = {u \in Users : Recorded(u)}]
  /\ UNCHANGED <<recordVars, worldVars, since, elapsed>>

\* The evidence or the admission is no longer current, or the snapshot failed.
Abandon ==
  /\ "cycle" \notin want
  /\ \/ cyc.pc \in {"facts", "report", "main", "added", "settle", "expire"} /\ ~cyc.current
     \/ cyc.pc = "facts" /\ FALSE \in Read
  /\ cyc' = NoCycle
  /\ UNCHANGED <<recordVars, used, worldVars, since, elapsed>>

\* check_persistent_violations: a record whose window has closed is punished if
\* its streak is full, left to the main loop if not, and put aside for removal if
\* the user is back within the limit.
Persist(u, ok) ==
  /\ At("persist")
  /\ u \in cyc.todo
  /\ cyc' = IF ~Recorded(u) \/ Active(warnings[u]) \/ u \in cyc.prot \/ ~cyc.current THEN Done(u)
            ELSE IF ~ok \/ ~Judgeable(u) THEN Protected(u)
            ELSE IF ~Over(u) THEN [Done(u) EXCEPT !.pol[u] = policy[u], !.rest = @ \cup {u}]
            ELSE IF warnings[u].n < Required(warnings[u]) THEN [Done(u) EXCEPT !.pol[u] = policy[u]]
            ELSE [Sentence(u) EXCEPT !.pol[u] = policy[u]]
  /\ UNCHANGED <<recordVars, used, worldVars, since, elapsed>>

\* Every record has been judged: the removals follow.
EndPersist ==
  /\ At("persist")
  /\ cyc.todo = {}
  /\ cyc' = [cyc EXCEPT !.pc = "remove", !.todo = cyc.rest]
  /\ UNCHANGED <<recordVars, used, worldVars, since, elapsed>>

\* MUTANT: what was decided before the other users' punishments is carried out.
Remove_Blind(u, ok) ==
  /\ At("remove")
  /\ u \in cyc.todo
  /\ cyc' = Done(u)
  /\ warnings' = [warnings EXCEPT ![u] = None]
  /\ UNCHANGED <<file, writing, want, used, worldVars, since, elapsed>>

\* A removal is decided again before it is done.
Remove(u, ok) ==
  /\ At("remove")
  /\ u \in cyc.todo
  /\ LET judged == ok /\ Judgeable(u) IN
     /\ cyc' = IF ~Recorded(u) \/ judged THEN Done(u) ELSE Protected(u)
     /\ warnings' = IF judged /\ ~Over(u) THEN [warnings EXCEPT ![u] = None] ELSE warnings
  /\ UNCHANGED <<file, writing, want, used, worldVars, since, elapsed>>

EndRemove ==
  /\ At("remove")
  /\ cyc.todo = {}
  /\ cyc' = [cyc EXCEPT !.pc = "main", !.todo = {u \in Users : cyc.sample[u] # "absent"}, !.rest = {}]
  /\ want' = IF cyc.rest # {} THEN want \cup {"cycle"} ELSE want
  /\ UNCHANGED <<warnings, file, writing, used, worldVars, since, elapsed>>

\* The main loop: a user over the limit is counted.
Scan(u) ==
  /\ At("main")
  /\ cyc.current
  /\ u \in cyc.todo
  /\ IF u \notin cyc.prot \cup cyc.out /\ OverBy(u, cyc.pol[u])
     THEN /\ warnings' = [warnings EXCEPT ![u] = IF Recorded(u) THEN Recount(@) ELSE NewRecord]
          /\ want' = want \cup {"cycle"}
          /\ cyc' = [Done(u) EXCEPT !.pc = "added", !.who = {u},
                                     !.cands = IF Recorded(u) THEN @ ELSE @ \ {u}]
     ELSE cyc' = Done(u) /\ UNCHANGED <<warnings, want>>
  /\ UNCHANGED <<file, writing, used, worldVars, since, elapsed>>

\* The evaluation of one user raises an exception: the others go on.
ScanFails(u) ==
  /\ "fail" \in Events
  /\ At("main")
  /\ cyc.current
  /\ u \in cyc.todo
  /\ cyc' = Protected(u)
  /\ UNCHANGED <<recordVars, used, worldVars, since, elapsed>>

\* The count has been saved; the sample may have aged and the record may be gone.
Added(u) ==
  /\ At("added")
  /\ cyc.current
  /\ u \in cyc.who
  /\ LET back == [cyc EXCEPT !.pc = "main", !.who = {}] IN
     cyc' = IF ~Recorded(u) THEN [back EXCEPT !.prot = IF u \in cyc.cands THEN @ \cup {u} ELSE @]
            ELSE IF u \in cyc.cands /\ OverBy(u, cyc.pol[u]) /\ warnings[u].n >= Required(warnings[u])
            THEN [Sentence(u) EXCEPT !.from = "main"]
            ELSE [back EXCEPT !.cands = @ \cup {u}]
  /\ UNCHANGED <<recordVars, used, worldVars, since, elapsed>>

EndMain ==
  /\ At("main")
  /\ cyc.current
  /\ cyc.todo = {}
  /\ cyc' = [cyc EXCEPT !.pc = "settle", !.todo = {u \in Users : Recorded(u)}]
  /\ UNCHANGED <<recordVars, used, worldVars, since, elapsed>>

\* Users who came back within their limit or went away.
Settle(u, ok) ==
  /\ At("settle")
  /\ cyc.current
  /\ u \in cyc.todo
  /\ LET clears == ok /\ Judgeable(u) /\ Recorded(u) /\ u \in cyc.cands /\ ~Over(u) IN
     /\ warnings' = IF clears THEN [warnings EXCEPT ![u] = None] ELSE warnings
     /\ want' = IF clears THEN want \cup {"cycle"} ELSE want
     /\ cyc' = IF u \in cyc.cands /\ Recorded(u) /\ (~ok \/ policy[u] = "exempt") THEN Protected(u) ELSE Done(u)
  /\ UNCHANGED <<file, writing, used, worldVars, since, elapsed>>

EndSettle ==
  /\ At("settle")
  /\ cyc.current
  /\ cyc.todo = {}
  /\ cyc' = [cyc EXCEPT !.pc = "expire", !.todo = cyc.cands]
  /\ UNCHANGED <<recordVars, used, worldVars, since, elapsed>>

\* cleanup_expired_warnings
Expire(u, ok) ==
  /\ At("expire")
  /\ cyc.current
  /\ u \in cyc.todo
  /\ LET clears == ok /\ Judgeable(u) /\ Recorded(u) /\ ~Active(warnings[u]) /\ ~Over(u) IN
     /\ warnings' = IF clears THEN [warnings EXCEPT ![u] = None] ELSE warnings
     /\ cyc' = [Done(u) EXCEPT !.rest = IF clears THEN @ \cup {u} ELSE @]
  /\ UNCHANGED <<file, writing, want, used, worldVars, since, elapsed>>

\* record_completed_scan
Finish ==
  /\ At("expire")
  /\ cyc.todo = {}
  /\ cyc' = NoCycle
  /\ want' = IF cyc.rest # {} THEN want \cup {"cycle"} ELSE want
  /\ UNCHANGED <<warnings, file, writing, used, worldVars, since, elapsed>>

---------------------------------------------------------------------------
(* A punishment, guarded until its first panel mutation.                   *)

\* The decision falls: the user is out of this cycle.
Dropped(u) == [cyc EXCEPT !.pc = cyc.from, !.who = {}, !.prot = @ \cup {u}]

\* revalidate_punishment, before the guard is set.
Verify(u) ==
  /\ At("verify")
  /\ u \in cyc.who
  /\ Convicted(u)
  /\ cyc' = [cyc EXCEPT !.pc = "punish", !.pol[u] = policy[u]]
  /\ UNCHANGED <<recordVars, used, worldVars, since, elapsed>>

Refuse(u, ok) ==
  /\ At("verify")
  /\ u \in cyc.who
  /\ ~ok \/ ~Convicted(u)
  /\ cyc' = Dropped(u)
  /\ UNCHANGED <<recordVars, used, worldVars, since, elapsed>>

\* MUTANT: what revalidate_punishment said once is good for the whole punishment.
Effect_Unguarded(u) ==
  /\ At("punish")
  /\ u \in cyc.who
  /\ ~cyc.started
  /\ cyc' = [cyc EXCEPT !.started = TRUE]
  /\ UNCHANGED <<recordVars, used, worldVars, since, elapsed>>

\* validate_enforcement and start_enforcement_effect: the first panel mutation.
Effect(u) ==
  /\ At("punish")
  /\ u \in cyc.who
  /\ ~cyc.started
  /\ Convicted(u)
  /\ cyc' = [cyc EXCEPT !.started = TRUE, !.pol[u] = policy[u]]
  /\ UNCHANGED <<recordVars, used, worldVars, since, elapsed>>

\* EnforcementProtected
Escape(u, ok) ==
  /\ At("punish")
  /\ u \in cyc.who
  /\ ~cyc.started
  /\ ~ok \/ ~Convicted(u)
  /\ cyc' = Dropped(u)
  /\ UNCHANGED <<recordVars, used, worldVars, since, elapsed>>

\* Any other end, with or without a mutation; the incident consumes its record.
Punished(u, result) ==
  /\ At("punish")
  /\ u \in cyc.who
  /\ result = "disabled" => cyc.started
  /\ result \in {"warning", "deduplicated"} => ~cyc.started
  /\ warnings' = [warnings EXCEPT ![u] = None]
  /\ want' = IF Recorded(u) THEN want \cup {"cycle"} ELSE want
  /\ cyc' = [cyc EXCEPT !.pc = cyc.from, !.who = {}, !.started = FALSE,
                        !.out = IF result = "error" THEN @ ELSE @ \cup {u}]
  /\ UNCHANGED <<file, writing, used, worldVars, since, elapsed>>

---------------------------------------------------------------------------
(* Around the cycle.                                                       *)

Outdated == [cyc EXCEPT !.current = FALSE]

\* Topics are switched off or on: the admission of a running cycle is over.
Pause ==
  /\ "pause" \in Events
  /\ paused' = ~paused
  /\ cyc' = Outdated
  /\ UNCHANGED <<recordVars, used, setting, policy, since, elapsed>>

\* An operator writes settings: the configuration revision goes up.
Configure ==
  /\ "settings" \in Events
  /\ setting' \in Rules
  /\ \E u \in Users, p \in {"limited", "raised", "exempt"} : policy' = [policy EXCEPT ![u] = p]
  /\ cyc' = Outdated
  /\ UNCHANGED <<recordVars, used, paused, since, elapsed>>

\* The synchronisation changes a user's groups or owner: no revision.
Sync(u) ==
  /\ "sync" \in Events
  /\ \E p \in {"limited", "raised", "exempt"} : policy' = [policy EXCEPT ![u] = p]
  /\ UNCHANGED <<recordVars, used, setting, paused, since, elapsed, cyc>>

\* Observations of a user grow too old to count, or a node's go missing.
Fade(u) ==
  /\ "age" \in Events
  /\ cyc.sample[u] = "over"
  /\ \E s \in {"within", "unsure"} : cyc' = [cyc EXCEPT !.sample[u] = s]
  /\ UNCHANGED <<recordVars, used, worldVars, since, elapsed>>

\* load_warnings drops the records whose window closed in the meantime.
Restart ==
  /\ "crash" \in Events
  /\ warnings' = [u \in Users |-> IF Active(file[u]) THEN file[u] ELSE None]
  /\ writing' = NoWrite
  /\ want' = {}
  /\ since' = IF "operator" \in want THEN Grown ELSE since
  /\ elapsed' = Interval
  /\ cyc' = NoCycle
  /\ UNCHANGED <<file, used, worldVars>>

Aged(recs) ==
  [u \in Users |-> IF recs[u].n = 0 THEN None
                   ELSE [recs[u] EXCEPT !.last = UpTo(Longest + 1, @ + 1), !.left = IF @ > 0 THEN @ - 1 ELSE 0,
                                        !.age = UpTo(Grown, @ + 1)]]

Tick ==
  /\ cyc.pc # "idle" => elapsed < MaxCycle
  /\ cyc.pc = "idle" /\ elapsed >= Interval => paused
  /\ warnings' = Aged(warnings)
  /\ file' = Aged(file)
  /\ writing' = [writing EXCEPT !.data = Aged(@)]
  /\ since' = UpTo(Grown, since + 1)
  /\ elapsed' = IF cyc.pc = "idle" THEN UpTo(Interval, elapsed + 1) ELSE elapsed + 1
  /\ UNCHANGED <<want, used, worldVars, cyc>>

SetBack(recs) ==
  [u \in Users |-> IF recs[u].n = 0 THEN None ELSE [recs[u] EXCEPT !.last = @ - 1, !.left = UpTo(Longest + 1, @ + 1)]]

\* The wall clock is corrected backwards.
ClockBack ==
  /\ "clock" \in Events
  /\ \A u \in Users : warnings[u].last >= 0 /\ file[u].last >= 0 /\ writing.data[u].last >= 0
  /\ warnings' = SetBack(warnings)
  /\ file' = SetBack(file)
  /\ writing' = [writing EXCEPT !.data = SetBack(@)]
  /\ UNCHANGED <<want, used, worldVars, since, elapsed, cyc>>

Cycle ==
  \/ Begin \/ ReadFacts \/ Report \/ Abandon
  \/ EndPersist \/ EndRemove \/ EndMain \/ EndSettle \/ Finish
  \/ \E u \in Users :
       \/ \E ok \in Read : Persist(u, ok) \/ Remove(u, ok) \/ Settle(u, ok) \/ Expire(u, ok)
                           \/ Refuse(u, ok) \/ Escape(u, ok)
       \/ Scan(u) \/ ScanFails(u) \/ Added(u) \/ Verify(u) \/ Effect(u)
       \/ \E result \in {"disabled", "warning", "deduplicated", "error"} : Punished(u, result)

Save == StartWrite \/ EndWrite

Next ==
  \/ Cycle \/ Save \/ Tick
  \/ ClearAll \/ Pause \/ Configure \/ Restart \/ ClockBack
  \/ \E u \in Users : Sync(u) \/ Fade(u)

Spec == Init /\ [][Next]_vars

\* The event loop runs what is ready, and time passes.
FairSpec == Spec /\ WF_vars(Cycle) /\ WF_vars(Save) /\ WF_vars(Tick)

---------------------------------------------------------------------------

Record == [n : 0..MaxRule, last : -1..Longest + 1, left : 0..Longest + 1, rule : Rules \cup {0}, age : 0..Grown]

Starts == ~cyc.started /\ cyc'.started

\* The first panel mutation of a punishment is made only while monitoring is on,
\* under the settings the cycle began with, for a user who still has a record and
\* is over the limit by what the database says at that moment, whatever pauses,
\* settings, clearings and synchronisations came in while it was being prepared.
EffectAuthorized ==
  Starts => \A u \in cyc.who : /\ ~paused
                               /\ setting = cyc.rule
                               /\ Recorded(u)
                               /\ policy[u] = "limited"
                               /\ cyc.sample[u] = "over"

\* Nobody is punished before the scans the user was promised when the record was
\* made, at least half a check interval apart: neither restarts in a row, nor a
\* lowered setting, nor a corrected clock shorten it.
NoHastyBan ==
  [][Starts => \A u \in cyc.who : /\ warnings[u].n >= warnings[u].rule
                                  /\ warnings[u].age >= (warnings[u].rule - 1) * MinGap]_vars

\* A cycle drops a record, other than by punishing, only for a user it can judge
\* and who is not over the limit by then.
ClearJustified ==
  cyc'.pc \in {"remove", "settle", "expire"} /\ "operator" \notin want' \ want =>
    \A u \in Users : Recorded(u) /\ ~Recorded(u)' =>
      ~Over(u) /\ policy[u] # "exempt" /\ cyc.sample[u] # "unsure" /\ cyc.current

\* A cycle's verdict, to punish or to clear, holds when it is carried out, however
\* long that is after it was reached.
VerdictsHold == [][EffectAuthorized /\ ClearJustified]_vars

\* "All users now start with a fresh trust score": once a clearing is confirmed,
\* no older record comes back, from a concurrent save or from the file.
ClearingSticks == "operator" \notin want => \A u \in Users : Recorded(u) => warnings[u].age <= since
=============================================================================
