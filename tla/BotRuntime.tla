------------------------------ MODULE BotRuntime ------------------------------
(***************************************************************************)
(* How the bot is brought up and kept up (limiter.py, run_telegram.py) and *)
(* what it does by the clock besides answering: the jobs of the daily      *)
(* report and of the automatic backup (telegram_bot/handlers/backup.py).   *)
(*                                                                         *)
(* The starter runs once.  The watchdog, every minute, starts again what   *)
(* is down of the application and its updater.  Tasks outside the task     *)
(* group are restarted by _supervise; a task inside it that fails ends the *)
(* process, which start.sh and Docker start again.  Telegram may be out of *)
(* reach at any time.                                                      *)
(*                                                                         *)
(* The starter's requests are bounded by time-outs so that it is past them *)
(* when the watchdog looks for the first time; the model takes that order  *)
(* for granted.                                                            *)
(***************************************************************************)
EXTENDS Integers, FiniteSets

CONSTANTS
  Services,     \* the supervised tasks: dispatcher, retention, Mirza Bot notifications
  Hours,        \* intervals of the automatic backup
  Chats,        \* admins a backup can be sent to
  EarlyPress,   \* may the operator press a button before the starter is through?
  MaxOutages,   \* bound: times Telegram goes out of reach
  MaxFaults     \* bound: other failures: files, sends, tasks, the database, processes

VARIABLES
  net,        \* does Telegram answer?
  stage,      \* main()
  up,         \* the supervised tasks that run
  app,        \* the application: "new", "ready" (initialized) or "running"
  polling,    \* updater.running
  starter,    \* run_telegram_bot
  dog,        \* _telegram_watchdog
  daily,      \* is the daily report scheduler registered?
  conf,       \* auto_backup.json
  jobs,       \* interval -> jobs named automatic_backup with it
  menu,       \* the handler of a toggle or an interval
  auto,       \* send_automatic_backup
  outages, faults

vars == <<net, stage, up, app, polling, starter, dog, daily, conf, jobs, menu, auto, outages, faults>>

process == <<stage, up>>
bot == <<app, polling, starter, dog>>
schedule == <<daily, conf, jobs, menu>>

NoJobs == [h \in Hours |-> 0]
Quiet == [pc |-> "idle", has |-> {}, left |-> {}]
Configs == [on : BOOLEAN, every : Hours]

CanFail == faults < MaxFaults
Fails == CanFail /\ faults' = faults + 1

------------------------------------------------------------------------------
(* The world: Telegram comes and goes; polling may die with its task.       *)

Outage ==
  /\ net /\ outages < MaxOutages
  /\ net' = FALSE /\ outages' = outages + 1
  /\ UNCHANGED <<process, bot, schedule, auto, faults>>

Return ==
  /\ ~net /\ net' = TRUE
  /\ UNCHANGED <<process, bot, schedule, auto, outages, faults>>

PollingDies ==
  /\ polling /\ Fails /\ polling' = FALSE
  /\ UNCHANGED <<net, process, app, starter, dog, schedule, auto, outages>>

------------------------------------------------------------------------------
(* main and _supervise.                                                     *)

Fresh ==
  /\ up' = {} /\ app' = "new" /\ polling' = FALSE /\ starter' = "off" /\ dog' = "off"
  /\ daily' = FALSE /\ jobs' = NoJobs /\ menu' = "idle" /\ auto' = Quiet

(* init_db: without a database the process ends. *)
InitDb ==
  /\ stage = "db"
  /\ \/ /\ stage' = "config" /\ up' = Services \ {"mirza"} /\ starter' = "init"
        /\ UNCHANGED <<app, polling, dog, daily, jobs, menu, auto, faults>>
     \/ Fails /\ stage' = "ended" /\ Fresh
  /\ UNCHANGED <<net, conf, outages>>

(* read_config is retried every minute; then Mirza Bot and the task group start. *)
LoadConfig ==
  /\ stage = "config"
  /\ \/ stage' = "tasks" /\ up' = up \cup (Services \cap {"mirza"}) /\ dog' = "asleep" /\ UNCHANGED faults
     \/ Fails /\ UNCHANGED <<stage, up, dog>>
  /\ UNCHANGED <<net, app, polling, starter, schedule, auto, outages>>

ServiceFails(s) ==
  /\ s \in up /\ Fails /\ up' = up \ {s}
  /\ UNCHANGED <<net, stage, bot, schedule, auto, outages>>

(* After a delay, whether the task raised or returned. *)
_supervise(s) ==
  /\ stage \in {"config", "tasks"} /\ s \notin up
  /\ s = "mirza" => stage = "tasks"
  /\ s \in Services /\ up' = up \cup {s}
  /\ UNCHANGED <<net, stage, bot, schedule, auto, outages, faults>>

(* A task of the group fails, or the process is stopped: cleanup_resources, in its order, then exit. *)
EndProcess ==
  /\ stage \in {"config", "tasks"} /\ Fails
  /\ stage' = "ended" /\ Fresh
  /\ UNCHANGED <<net, conf, outages>>

(* start.sh and Docker (external). *)
StartProcess ==
  /\ stage = "ended" /\ stage' = "db"
  /\ UNCHANGED <<net, up, bot, schedule, auto, outages, faults>>

------------------------------------------------------------------------------
(* run_telegram_bot.                                                        *)

StarterOnly == UNCHANGED <<net, process, dog, conf, menu, auto, outages, faults>>
StarterFails == starter' = "failed" /\ UNCHANGED <<app, polling, daily, jobs>>

StarterInit ==
  /\ starter = "init"
  /\ \/ app = "running" /\ starter' = "done" /\ UNCHANGED <<app, polling, daily, jobs>>
     \/ app # "running" /\ net /\ app' = "ready" /\ starter' = "start" /\ UNCHANGED <<polling, daily, jobs>>
     \/ app # "running" /\ ~net /\ StarterFails
  /\ StarterOnly

StarterStart ==
  /\ starter = "start" /\ app' = "running" /\ starter' = "poll"
  /\ UNCHANGED <<polling, daily, jobs>> /\ StarterOnly

StarterPoll ==
  /\ starter = "poll"
  /\ \/ net /\ polling' = TRUE /\ starter' = "report" /\ UNCHANGED <<app, daily, jobs>>
     \/ ~net /\ StarterFails
  /\ StarterOnly

(* start_daily_report_scheduler. *)
StarterReport ==
  /\ starter = "report" /\ daily' = TRUE /\ starter' = "add"
  /\ UNCHANGED <<app, polling, jobs>> /\ StarterOnly

(* The backup's job, by the configuration; no job of the same name is looked for. *)
StarterAdd ==
  /\ starter = "add" /\ starter' = "done"
  /\ jobs' = IF conf.on THEN [jobs EXCEPT ![conf.every] = @ + 1] ELSE jobs
  /\ UNCHANGED <<app, polling, daily>> /\ StarterOnly

------------------------------------------------------------------------------
(* _telegram_watchdog.                                                      *)

DogOnly == UNCHANGED <<net, process, starter, schedule, auto, outages, faults>>

(* Mutant: the watchdog looks at the updater only when the application is up. *)
Look_NeedsApp ==
  /\ dog = "asleep" /\ starter \notin {"init", "start", "poll"}
  /\ app = "running" /\ ~polling
  /\ dog' = "poll"
  /\ UNCHANGED <<app, polling>> /\ DogOnly

Look ==
  /\ dog = "asleep" /\ starter \notin {"init", "start", "poll"}
  /\ ~(app = "running" /\ polling)
  /\ dog' = IF app = "running" THEN "poll" ELSE "init"
  /\ UNCHANGED <<app, polling>> /\ DogOnly

DogInit ==
  /\ dog = "init"
  /\ \/ net /\ app' = "ready" /\ dog' = "start"
     \/ ~net /\ app' = app /\ dog' = "asleep"
  /\ UNCHANGED polling /\ DogOnly

DogStart ==
  /\ dog = "start" /\ app' = "running"
  /\ dog' = IF polling THEN "asleep" ELSE "poll"
  /\ UNCHANGED polling /\ DogOnly

DogPoll ==
  /\ dog = "poll" /\ dog' = "asleep" /\ polling' = (net \/ polling)
  /\ UNCHANGED app /\ DogOnly

------------------------------------------------------------------------------
(* auto_backup_toggle, auto_backup_set_interval: the file under the lock,   *)
(* then reschedule_auto_backup: the jobs go, the file is read, a job comes. *)

MenuOnly == UNCHANGED <<net, process, bot, daily, auto, outages>>

Pressed == polling /\ net /\ menu = "idle" /\ (EarlyPress \/ starter \in {"done", "failed"})

auto_backup_toggle ==
  /\ Pressed
  /\ \/ conf' = [conf EXCEPT !.on = ~@] /\ menu' = "saved" /\ UNCHANGED faults
     \/ Fails /\ conf' = conf /\ menu' = "idle"
  /\ UNCHANGED jobs /\ MenuOnly

auto_backup_set_interval(h) ==
  /\ Pressed
  /\ \/ conf' = [conf EXCEPT !.every = h] /\ menu' = "saved" /\ UNCHANGED faults
     \/ Fails /\ conf' = conf /\ menu' = "idle"
  /\ UNCHANGED jobs /\ MenuOnly

(* Mutant: the job of the old interval stays. *)
RemoveJobs_Not ==
  /\ menu = "saved" /\ menu' = "removed"
  /\ UNCHANGED <<conf, jobs, faults>> /\ MenuOnly

RemoveJobs ==
  /\ menu = "saved" /\ jobs' = NoJobs /\ menu' = "removed"
  /\ UNCHANGED <<conf, faults>> /\ MenuOnly

AddJob ==
  /\ menu = "removed" /\ menu' = "idle"
  /\ jobs' = IF conf.on THEN [jobs EXCEPT ![conf.every] = @ + 1] ELSE jobs
  /\ UNCHANGED <<conf, faults>> /\ MenuOnly

------------------------------------------------------------------------------
(* send_automatic_backup: to the forum group if there is one, otherwise to  *)
(* every admin.                                                             *)

Group == "group"
AutoOnly == UNCHANGED <<net, process, bot, schedule, outages>>

(* The job's hour has come, or the operator wants a backup now. *)
AutoStart ==
  /\ auto.pc = "idle"
  /\ (\E h \in Hours : jobs[h] > 0) \/ Pressed
  /\ \E forum \in BOOLEAN : auto' = [pc |-> IF forum THEN "group" ELSE "admins", has |-> {}, left |-> Chats]
  /\ UNCHANGED faults /\ AutoOnly

(* Mutant: whatever the error, the admins get it. *)
AutoGroup_AnyError ==
  /\ auto.pc = "group"
  /\ \/ net /\ auto' = [auto EXCEPT !.pc = "idle", !.has = {Group}] /\ UNCHANGED faults
     \/ \E has \in {{}, {Group}} : Fails /\ auto' = [auto EXCEPT !.pc = "admins", !.has = has]
  /\ AutoOnly

(* Only a definite refusal of the destination permits the admins instead: after a       *)
(* time-out the group may have the document.                                            *)
AutoGroup ==
  /\ auto.pc = "group"
  /\ \/ net /\ auto' = [auto EXCEPT !.pc = "idle", !.has = {Group}] /\ UNCHANGED faults
     \/ net /\ auto' = [auto EXCEPT !.pc = "admins"] /\ UNCHANGED faults
     \/ ~net /\ auto' = [auto EXCEPT !.pc = "idle"] /\ UNCHANGED faults
     \/ \E has \in {{}, {Group}} : Fails /\ auto' = [auto EXCEPT !.pc = "idle", !.has = has]
  /\ AutoOnly

(* One admin's failure does not keep it from the others. *)
AutoAdmin ==
  /\ auto.pc = "admins"
  /\ \/ auto.left = {} /\ auto' = [auto EXCEPT !.pc = "idle"] /\ UNCHANGED faults
     \/ \E c \in auto.left :
          \/ net /\ auto' = [auto EXCEPT !.has = @ \cup {c}, !.left = @ \ {c}] /\ UNCHANGED faults
          \/ ~net /\ auto' = [auto EXCEPT !.left = @ \ {c}] /\ UNCHANGED faults
          \/ \E has \in {{}, {c}} : Fails /\ auto' = [auto EXCEPT !.has = @ \cup has, !.left = @ \ {c}]
  /\ AutoOnly

------------------------------------------------------------------------------
Init ==
  /\ net \in BOOLEAN /\ stage = "db" /\ up = {}
  /\ app = "new" /\ polling = FALSE /\ starter = "off" /\ dog = "off"
  /\ daily = FALSE /\ conf \in Configs /\ jobs = NoJobs /\ menu = "idle"
  /\ auto = Quiet /\ outages = 0 /\ faults = 0

MainStep == InitDb \/ LoadConfig \/ StartProcess
StarterStep == StarterInit \/ StarterStart \/ StarterPoll \/ StarterReport \/ StarterAdd
DogStep == Look \/ DogInit \/ DogStart \/ DogPoll
MenuStep == RemoveJobs \/ AddJob
AutoStep == AutoGroup \/ AutoAdmin

Next ==
  \/ Outage \/ Return \/ PollingDies
  \/ MainStep \/ EndProcess \/ \E s \in Services : ServiceFails(s) \/ _supervise(s)
  \/ StarterStep \/ DogStep \/ MenuStep \/ AutoStart \/ AutoStep
  \/ auto_backup_toggle \/ \E h \in Hours : auto_backup_set_interval(h)

Fairness ==
  /\ WF_vars(MainStep) /\ WF_vars(StarterStep) /\ WF_vars(DogStep)
  /\ \A s \in Services : WF_vars(_supervise(s))

Spec == Init /\ [][Next]_vars /\ Fairness

------------------------------------------------------------------------------
(* Once Telegram stays in reach, the bot polls and every supervised task runs, whatever  *)
(* failed before: at the first start, in the watchdog's own attempts or later.           *)
BotReturns == (<>[]net) => <>[](app = "running" /\ polling /\ up = Services)

(* While no menu is at work, the backup runs by the configuration: one job with the      *)
(* configured interval when it is on, none when it is off; unless the starter failed,    *)
(* when there may be none.                                                               *)
JobsMatch ==
  starter \in {"done", "failed"} /\ menu = "idle" =>
    \A h \in Hours : jobs[h] \in (IF conf.on /\ conf.every = h
                                    THEN IF starter = "done" THEN {1} ELSE {0, 1} ELSE {0})

(* An automatic backup reaches the group or the admins, never both: a group that does    *)
(* not answer may have it.                                                               *)
OneAudience == ~(Group \in auto.has /\ auto.has \cap Chats # {})

(* What an operator may expect of automatic backups. *)
AutomaticBackup == JobsMatch /\ OneAudience

(* "the watchdog retries every 60s": once Telegram stays in reach, the daily report has  *)
(* its scheduler, also when the first start of the bot failed.                           *)
SchedulersStart == (<>[]net) => <>[]daily
=============================================================================
