----------------------------- MODULE DailyReport ------------------------------
(***************************************************************************)
(* The report of a day's bans: when it is due (utils/                      *)
(* daily_report_scheduler.py), how it is prepared (utils/daily_report.py,  *)
(* db/crud/daily_reports.py) and how the dispatcher sends it (the parts of *)
(* telegram_bot/dispatcher.py about reports).                              *)
(*                                                                         *)
(* Three callers ask for a report: the midnight job, the watcher that runs *)
(* every minute, and the start of the process.  The service handles one    *)
(* at a time.  The row of a day in the database, the checkpoint and the    *)
(* items in the dispatcher's memory together decide whether a day is sent; *)
(* writes raise, before or after their effect, sends are lost, Topics and  *)
(* the time zone change, and the process dies, at any point.               *)
(*                                                                         *)
(* Time counts in ticks, Length of them a day; a zone shifts the calendar  *)
(* by its offset.  What a report says is PunishmentFacts' affair.          *)
(***************************************************************************)
EXTENDS Integers, FiniteSets

CONSTANTS
  Zones,        \* time zones the environment may name
  Ahead,        \* the zones whose calendar is one tick ahead
  Length,       \* ticks of a day
  Begin, End,   \* bounds: the first and the last tick
  MaxRetries,   \* max_retries of an item
  MaxChanges,   \* bound: changes of Topics and of the zone
  MaxFaults     \* bound: raising writes, lost sends, dropped jobs and crashes

VARIABLES
  now, zone,
  topics,       \* the forum: on or off, its revisions
  sched,        \* DailyReportScheduler: generation, zone, due
  jobs,         \* one-shot midnight jobs
  callers,      \* who waits for the service or is in it
  svc,          \* DailyReportService at work
  runs,         \* day -> its row
  checkpoint,   \* the last day closed, and whether Topics was on
  items,        \* day -> its item in the dispatcher
  resolved,     \* days whose punishments are all settled
  posted,       \* ghost: how often a day's report went out
  changes, faults

vars == <<now, zone, topics, sched, jobs, callers, svc, runs, checkpoint, items, resolved, posted, changes, faults>>

Never == -1
Offset(z) == IF z \in Ahead THEN 1 ELSE 0
Day(t, z) == (t + Offset(z)) \div Length
Days == 0..((End + 1) \div Length - 1)
Yesterday == Day(now, zone) - 1
Callers == {"midnight", "watch", "start"}
Pending == {"waiting", "prepared", "queued", "sending"}
Final == {"delivered", "skipped", "uncertain", "failed"}

(* _calendar_boundary, next_midnight: the first tick of the next date. *)
next_midnight == CHOOSE t \in (now + 1)..(now + Length) : (t + Offset(zone)) % Length = 0

SomeZone == CHOOSE z \in Zones : TRUE
NoCall == [pc |-> "idle", day |-> Never, zone |-> SomeZone, gen |-> 0, recover |-> FALSE]
Idle == [pc |-> "idle", by |-> "start", day |-> Never, zone |-> SomeZone, recover |-> FALSE]
NoRun == [state |-> "none", zone |-> SomeZone, monitoring |-> 0, destination |-> 0]
NoItem == [state |-> "none", tries |-> 0]

CanFail == faults < MaxFaults
Fails == CanFail /\ faults' = faults + 1

Clock == <<now, zone, topics, changes>>
Scheduler == <<sched, jobs, callers>>
Store == <<runs, checkpoint>>

------------------------------------------------------------------------------
(* The world.                                                               *)

Tick ==
  /\ now < End /\ now' = now + 1
  /\ UNCHANGED <<zone, topics, changes, Scheduler, svc, Store, items, resolved, posted, faults>>

Changed == changes < MaxChanges /\ changes' = changes + 1

SetZone(z) ==
  /\ Changed /\ z # zone /\ zone' = z
  /\ UNCHANGED <<now, topics, Scheduler, svc, Store, items, resolved, posted, faults>>

(* set_enabled, set_group_id, set_topic_id of the topics manager; a pause is a new monitoring revision. *)
SetTopics ==
  /\ Changed
  /\ \/ topics.on /\ topics' = [topics EXCEPT !.on = FALSE, !.monitoring = @ + 1]
     \/ ~topics.on /\ topics' = [topics EXCEPT !.on = TRUE]
     \/ topics' = [topics EXCEPT !.destination = @ + 1]
  /\ UNCHANGED <<now, zone, Scheduler, svc, Store, items, resolved, posted, faults>>

(* The journal settles the punishments a report waits for (PunishmentFacts). *)
Resolve(d) ==
  /\ runs[d].state = "waiting" /\ d \notin resolved /\ resolved' = resolved \cup {d}
  /\ UNCHANGED <<Clock, Scheduler, svc, Store, items, posted, faults>>

------------------------------------------------------------------------------
(* The scheduler.                                                           *)

(* _reschedule: a new generation, the next midnight of the zone of now; the old job goes. *)
_reschedule ==
  /\ sched' = [gen |-> sched.gen + 1, zone |-> zone, due |-> next_midnight]
  /\ jobs' = {[gen |-> sched.gen + 1, zone |-> zone, due |-> next_midnight]}

Call(c, day, rec) ==
  callers' = [callers EXCEPT ![c] = [pc |-> "waiting", day |-> day, zone |-> zone, gen |-> sched.gen, recover |-> rec]]

(* start: the first midnight, the watcher, and the day before. *)
StartScheduler ==
  /\ sched.gen = 0
  /\ _reschedule /\ Call("start", Yesterday, TRUE)
  /\ UNCHANGED <<Clock, svc, Store, items, resolved, posted, faults>>

(* The job runs at its time or later; a job of another generation, zone or a midnight   *)
(* somebody has claimed does nothing.                                                   *)
Midnight(j) ==
  /\ j \in jobs /\ now >= j.due
  /\ IF j.gen = sched.gen /\ zone = j.zone /\ sched.due = j.due
       THEN sched' = [sched EXCEPT !.due = Never] /\ Call("midnight", Yesterday, FALSE)
       ELSE UNCHANGED <<sched, callers>>
  /\ jobs' = jobs \ {j}
  /\ UNCHANGED <<Clock, svc, Store, items, resolved, posted, faults>>

(* APScheduler drops a job whose time is long past. *)
Misfire(j) ==
  /\ j \in jobs /\ now > j.due /\ jobs' = jobs \ {j}
  /\ Fails
  /\ UNCHANGED <<Clock, sched, callers, svc, Store, items, resolved, posted>>

(* Mutant: a report that was prepared counts as done. *)
latest_pending_Waiting == {d \in Days : d <= Yesterday /\ runs[d].state = "waiting"}

(* latest_pending: the newest unfinished day, no later than yesterday. *)
latest_pending == {d \in Days : d <= Yesterday /\ runs[d].state \in Pending}

(* watch: a changed zone; a midnight nobody claimed; otherwise one unfinished day. *)
Watch ==
  /\ sched.gen > 0 /\ callers["watch"].pc = "idle"
  /\ \/ zone # sched.zone /\ _reschedule /\ UNCHANGED callers
     \/ /\ zone = sched.zone /\ sched.due # Never /\ now >= sched.due
        /\ sched' = [sched EXCEPT !.due = Never] /\ Call("watch", Yesterday, FALSE) /\ UNCHANGED jobs
     \/ /\ zone = sched.zone /\ ~(sched.due # Never /\ now >= sched.due)
        /\ \E d \in latest_pending :
             /\ \A e \in latest_pending : e <= d
             /\ callers' = [callers EXCEPT !["watch"] = [NoCall EXCEPT !.pc = "waiting", !.day = d, !.zone = zone, !.gen = Never]]
        /\ UNCHANGED <<sched, jobs>>
  /\ UNCHANGED <<Clock, svc, Store, items, resolved, posted, faults>>

------------------------------------------------------------------------------
(* _report_date, under the service's lock.  The row is read and, when the   *)
(* read returns, compared with the items in memory: one step of the model.  *)

(* Mutant: the watcher's claim is not followed by a new midnight. *)
SetsNext_Midnight(c) == c = "midnight" /\ callers[c].gen = sched.gen

(* finally: the caller whose generation is still the present one sets the next midnight. *)
SetsNext(c) == c # "start" /\ callers[c].gen = sched.gen

Over ==
  /\ svc' = Idle /\ callers' = [callers EXCEPT ![svc.by] = NoCall]
  /\ IF SetsNext(svc.by) THEN _reschedule ELSE UNCHANGED <<sched, jobs>>

Step(pc) == svc' = [svc EXCEPT !.pc = pc] /\ UNCHANGED Scheduler
ServiceOnly == UNCHANGED <<Clock, resolved, posted>>

(* DailyReportsCRUD.transition: a delivered day never changes. *)
transition(d, state) ==
  IF runs[d].state = "delivered" THEN runs ELSE [runs EXCEPT ![d].state = state]

(* advance_checkpoint: never back to an earlier day. *)
advance_checkpoint(d, on) == IF checkpoint.day <= d THEN [day |-> d, on |-> on] ELSE checkpoint

(* A write that raises, before or after its effect, ends the attempt; the day stays as it is. *)
Raises(new, new2) ==
  /\ Fails /\ Over
  /\ \/ runs' = new /\ checkpoint' = new2
     \/ UNCHANGED Store

Obsolete(run) ==
  \/ zone # run.zone \/ topics.destination # run.destination
  \/ ~topics.on \/ topics.monitoring # run.monitoring

Enter(c) ==
  /\ callers[c].pc = "waiting" /\ svc.pc = "idle"
  /\ svc' = [pc |-> "check", by |-> c, day |-> callers[c].day, zone |-> callers[c].zone, recover |-> callers[c].recover]
  /\ callers' = [callers EXCEPT ![c].pc = "inside"]
  /\ UNCHANGED <<sched, jobs>> /\ ServiceOnly /\ UNCHANGED <<Store, items, faults>>

(* Topics is off: the day is closed without a report. *)
CheckOff ==
  /\ svc.pc = "check" /\ ~topics.on
  /\ \E d \in {svc.day} :
     \E new \in {IF runs[svc.day].state \in {"waiting", "prepared"} THEN transition(d, "skipped") ELSE runs} :
       \/ Over /\ runs' = new /\ checkpoint' = advance_checkpoint(d, FALSE) /\ UNCHANGED faults
       \/ Raises(new, advance_checkpoint(d, FALSE))
       \/ Fails /\ Over /\ runs' = runs /\ checkpoint' = advance_checkpoint(d, FALSE)
  /\ ServiceOnly /\ UNCHANGED items

(* Mutant: the row of an interrupted send is taken up again. *)
CheckRun_Resend ==
  /\ svc.pc = "check" /\ topics.on /\ runs[svc.day].state # "none"
  /\ \E d \in {svc.day} :
       \/ /\ runs[svc.day].state \in Final \/ items[d].state # "none"
          /\ Over /\ UNCHANGED <<Store, faults>>
       \/ /\ runs[svc.day].state \in Pending /\ items[d].state = "none"
          /\ Step(IF runs[svc.day].state = "waiting" THEN "evidence" ELSE "enqueue") /\ UNCHANGED <<Store, faults>>
  /\ ServiceOnly /\ UNCHANGED items

(* A day that has a row: finished; in the dispatcher's hands; sent by a process that is  *)
(* gone, with no telling; or to go on with.                                              *)
CheckRun ==
  /\ svc.pc = "check" /\ topics.on /\ runs[svc.day].state # "none"
  /\ \E d \in {svc.day} :
       \/ /\ runs[svc.day].state \in Final \/ items[d].state # "none"
          /\ Over /\ UNCHANGED <<Store, faults>>
       \/ /\ runs[svc.day].state = "sending" /\ items[d].state = "none"
          /\ \/ Over /\ runs' = transition(d, "uncertain") /\ UNCHANGED <<checkpoint, faults>>
             \/ Raises(transition(d, "uncertain"), checkpoint)
       \/ /\ runs[svc.day].state \in {"waiting", "prepared", "queued"} /\ items[d].state = "none"
          /\ Step(IF runs[svc.day].state = "waiting" THEN "evidence" ELSE "enqueue") /\ UNCHANGED <<Store, faults>>
  /\ ServiceOnly /\ UNCHANGED items

(* A day without a row: closed before, or missed while Topics was off; otherwise its row  *)
(* is made, with the destination, the zone and the revisions of now.                      *)
Closed(d) == checkpoint.day # Never /\ (checkpoint.day >= d \/ (svc.recover /\ ~checkpoint.on))

CheckNew ==
  /\ svc.pc = "check" /\ topics.on /\ runs[svc.day].state = "none"
  /\ IF Closed(svc.day)
       THEN \/ Over /\ checkpoint' = advance_checkpoint(svc.day, TRUE) /\ UNCHANGED <<runs, faults>>
            \/ Raises(runs, advance_checkpoint(svc.day, TRUE))
       ELSE Step("prepare") /\ UNCHANGED <<Store, faults>>
  /\ ServiceOnly /\ UNCHANGED items

Prepare ==
  /\ svc.pc = "prepare"
  /\ IF topics.on /\ zone = svc.zone
       THEN \E new \in {[runs EXCEPT ![svc.day] =
                           IF @.state # "none" THEN @ ELSE [state |-> "waiting", zone |-> zone,
                             monitoring |-> topics.monitoring, destination |-> topics.destination]]} :
              \/ Step("evidence") /\ runs' = new /\ UNCHANGED <<checkpoint, faults>>
              \/ Raises(new, checkpoint)
       ELSE Over /\ UNCHANGED <<Store, faults>>
  /\ ServiceOnly /\ UNCHANGED items

(* ready_before, aggregate, render_summary: deferred while evidence is unresolved. *)
Evidence ==
  /\ svc.pc = "evidence"
  /\ \E d \in {svc.day} :
       \/ d \notin resolved /\ Over /\ UNCHANGED <<Store, faults>>
       \/ /\ d \in resolved /\ Obsolete(runs[d])
          /\ \/ Over /\ runs' = transition(d, "skipped") /\ UNCHANGED <<checkpoint, faults>>
             \/ Raises(transition(d, "skipped"), checkpoint)
       \/ /\ d \in resolved /\ ~Obsolete(runs[d])
          /\ \/ Step("enqueue") /\ runs' = transition(d, "prepared") /\ UNCHANGED <<checkpoint, faults>>
             \/ Raises(transition(d, "prepared"), checkpoint)
  /\ ServiceOnly /\ UNCHANGED items

(* enqueue_daily_report: the item is registered, the row says queued, the item is queued. *)
Enqueue ==
  /\ svc.pc = "enqueue"
  /\ IF Obsolete(runs[svc.day])
       THEN \/ Step("close") /\ runs' = transition(svc.day, "skipped") /\ UNCHANGED <<checkpoint, items, faults>>
            \/ Raises(transition(svc.day, "skipped"), checkpoint) /\ UNCHANGED items
       ELSE Step("admit") /\ items' = [items EXCEPT ![svc.day] = [state |-> "new", tries |-> 0]]
            /\ UNCHANGED <<Store, faults>>
  /\ ServiceOnly

Admit ==
  /\ svc.pc = "admit"
  /\ \/ /\ Step("close") /\ runs' = transition(svc.day, "queued") /\ UNCHANGED <<checkpoint, faults>>
        /\ items' = [items EXCEPT ![svc.day].state = IF Obsolete(runs[svc.day]) THEN "cancelled" ELSE "queued"]
     \/ Raises(transition(svc.day, "queued"), checkpoint) /\ items' = [items EXCEPT ![svc.day] = NoItem]
  /\ ServiceOnly

Close ==
  /\ svc.pc = "close"
  /\ \/ Over /\ checkpoint' = advance_checkpoint(svc.day, TRUE) /\ UNCHANGED <<runs, faults>>
     \/ Raises(runs, advance_checkpoint(svc.day, TRUE))
  /\ ServiceOnly /\ UNCHANGED items

------------------------------------------------------------------------------
(* The dispatcher's worker and a report.                                    *)

WorkerOnly == UNCHANGED <<Clock, Scheduler, svc, checkpoint, resolved>>
Item(d, state) == items' = [items EXCEPT ![d].state = state]

(* _retry: an item that has been tried too often fails. *)
Retried(d) ==
  items' = [items EXCEPT ![d] = [state |-> IF @.tries >= MaxRetries THEN "failed" ELSE "queued", tries |-> @.tries + 1]]

(* An obsolete report is withdrawn; otherwise the row says sending before anything is sent. *)
Take(d) ==
  /\ items[d].state = "queued"
  /\ \/ Obsolete(runs[d]) /\ Item(d, "cancelled") /\ UNCHANGED <<runs, faults>>
     \/ ~Obsolete(runs[d]) /\ Item(d, "sending") /\ runs' = transition(d, "sending") /\ UNCHANGED faults
     \/ ~Obsolete(runs[d]) /\ Fails /\ Retried(d) /\ (runs' = runs \/ runs' = transition(d, "sending"))
  /\ WorkerOnly /\ UNCHANGED posted

(* _execute_item: once more, is it obsolete?  Then accepted, refused for now, refused for *)
(* good, or no telling.                                                                   *)
Execute(d) ==
  /\ items[d].state = "sending"
  /\ \/ Obsolete(runs[d]) /\ Item(d, "cancelled") /\ UNCHANGED <<runs, posted, faults>>
     \/ ~Obsolete(runs[d]) /\ Item(d, "delivered") /\ posted' = [posted EXCEPT ![d] = @ + 1] /\ UNCHANGED <<runs, faults>>
     \/ ~Obsolete(runs[d]) /\ Item(d, "failed") /\ UNCHANGED <<runs, posted, faults>>
     \/ ~Obsolete(runs[d]) /\ Retried(d) /\ runs' = transition(d, "queued") /\ UNCHANGED <<posted, faults>>
     \/ ~Obsolete(runs[d]) /\ Fails /\ \E n \in {0, 1} :
          Item(d, "uncertain") /\ posted' = [posted EXCEPT ![d] = @ + n] /\ UNCHANGED runs
  /\ WorkerOnly

(* _finish: the row gets the outcome, as often as it takes; then the item goes. *)
Finish(d) ==
  /\ items[d].state \in {"delivered", "cancelled", "failed", "uncertain"}
  /\ \E state \in {IF items[d].state = "cancelled" THEN "skipped" ELSE items[d].state} :
       \/ runs' = transition(d, state) /\ items' = [items EXCEPT ![d] = NoItem] /\ UNCHANGED faults
       \/ Fails /\ items' = items /\ (runs' = runs \/ runs' = transition(d, state))
  /\ WorkerOnly /\ UNCHANGED posted

------------------------------------------------------------------------------
Crash ==
  /\ sched.gen > 0 /\ Fails
  /\ sched' = [gen |-> 0, zone |-> zone, due |-> Never] /\ jobs' = {}
  /\ callers' = [c \in Callers |-> NoCall] /\ svc' = Idle
  /\ items' = [d \in Days |-> NoItem]
  /\ UNCHANGED <<Clock, Store, resolved, posted>>

Init ==
  /\ now = Begin /\ zone \in Zones
  /\ topics = [on |-> TRUE, monitoring |-> 0, destination |-> 0]
  /\ sched = [gen |-> 0, zone |-> zone, due |-> Never] /\ jobs = {}
  /\ callers = [c \in Callers |-> NoCall] /\ svc = Idle
  /\ runs = [d \in Days |-> NoRun] /\ checkpoint = [day |-> Never, on |-> FALSE]
  /\ items = [d \in Days |-> NoItem] /\ resolved = {} /\ posted = [d \in Days |-> 0]
  /\ changes = 0 /\ faults = 0

ServiceStep ==
  \/ \E c \in Callers : Enter(c)
  \/ CheckOff \/ CheckRun \/ CheckNew \/ Prepare \/ Evidence \/ Enqueue \/ Admit \/ Close

(* Before its start there is nothing to watch. *)
SchedulerStep == StartScheduler \/ Watch

DispatcherStep == \E d \in Days : Take(d) \/ Execute(d) \/ Finish(d)

Next ==
  \/ Tick \/ SetTopics \/ Crash
  \/ \E z \in Zones : SetZone(z)
  \/ \E d \in Days : Resolve(d)
  \/ SchedulerStep
  \/ \E j \in jobs : Midnight(j) \/ Misfire(j)
  \/ ServiceStep \/ DispatcherStep

Fairness ==
  /\ WF_vars(SchedulerStep) /\ WF_vars(ServiceStep) /\ WF_vars(DispatcherStep)
  /\ \A d \in Days : WF_vars(Resolve(d))

Spec == Init /\ [][Next]_vars /\ Fairness

------------------------------------------------------------------------------
(* A day's report goes out at most once, whoever asks for it and whatever is lost between *)
(* its row, its item and Telegram; and the row says what happened.                        *)
DayOnce ==
  \A d \in Days :
    /\ posted[d] <= 1
    /\ runs[d].state = "delivered" => posted[d] = 1
    /\ runs[d].state \in {"skipped", "failed", "none"} => posted[d] = 0

(* While nobody is at work for it, the next midnight is set, for the zone of the schedule, *)
(* and no midnight has two jobs: the watcher recovers one whose job was dropped.           *)
MidnightSet ==
  sched.gen > 0 /\ callers["midnight"].pc = "idle" /\ callers["watch"].pc = "idle" =>
    /\ sched.due # Never
    /\ \A j \in jobs : j.gen = sched.gen /\ j.due = sched.due

(* A day that has been taken up is brought to an end, crashes and failed writes included, *)
(* as soon as it is past and Topics is on.                                                *)
DayEnds ==
  \A d \in Days : runs[d].state \in Pending ~> runs[d].state \in Final \/ ~topics.on \/ d > Yesterday
=============================================================================
