# PG-Limiter: a verification project

PG-Limiter watches how many devices use each account of a proxy panel and bans
the accounts that exceed their limit. It is one asyncio process: a monitoring
loop, a loop that lifts expired bans, a user synchronisation loop, a Telegram
bot, notification workers and (in a second process) a REST API and a CLI. They
share a SQLite database, a few JSON files and the panel, which they reach over
HTTP. Nearly everything that can go wrong goes wrong between two awaits: a
request whose answer is lost, a commit that raises after it took effect, a task
that is cancelled or a process that dies, or another task that acts on the same
user meanwhile. These modules model that.

## Inventory

| Part | State it keeps | Operations | What makes it correct | Module |
|---|---|---|---|---|
| Ban life cycle and registry (`utils/panel_api/users.py`, `utils/handel_dis_users.py`, `db/crud/users.py`) | panel status and groups; the users row: disable record, due time, stored inverse | disable by status or by group, enable one, all or the due ones, fix stuck users, clear records from the CLI | a ban in force can always be reversed exactly; only due bans are lifted; a timed ban ends | BanLifecycle, PanelBan |
| Punishment system (`utils/punishment_system.py`) | violation history in SQLite, its JSON mirror, incident claims, ledger of applied but unrecorded actions | claim, select a step, apply, record, confirm, clear | one row per incident, no second action before the first is recorded, steps in order, claims given back | PunishmentIncident |
| Fact journal (`utils/punishment_facts.py`, `db/crud/punishment_facts.py`) | pending snapshots, outbox file, SQL rows | prepare, mark, save, replay, readiness | a completed fact never regresses; a report is made only from complete evidence | PunishmentFacts |
| Usage check, warnings, guard (`utils/check_usage.py`, `utils/warning_system/`, `utils/enforcement_guard.py`) | monitoring records, their file, the cycle's sample and permission | scan cycle, escalation, clearing, revalidation | nobody is punished early or on a verdict that no longer holds; a steady offender is punished | UsageScan |
| IP source: API, with the gate (`utils/ip_source_api.py`, `api_node_scope.py`, `api_observations.py`, `monitoring_gate.py`) | the cycle's reads, the published sample, the count of failed cycles | read nodes, topology and users, ask for addresses, confirm, publish, judge, fall back | a user over the limit throughout is never called absent; what changed meanwhile is not published; a dead API is given up | ApiSource |
| IP source: logs (`utils/get_logs.py`, `parse_logs.py`, `log_observations.py`, `shared_state.py`) | streams per node, heartbeats, open gaps, the rolling store | stream, parse, cancel, add, rebuild, sample | a sample with a hole in it clears nobody; complete samples come back | LogSource |
| Panel requests (`utils/panel_api/request_helper.py`) | circuit breaker, availability | request with retries, probe, cancellation | one probe, count and state agree, never shut for ever | PanelRequests |
| Settings (`utils/read_config.py`, `utils/settings_service.py`, `db/crud/config.py`) | settings rows and their revision, cache, local revision | load, refresh, save, guarded save, snapshot | a reader never sees settings older than they may be; evidence and verdict belong to the same settings | Settings |
| Menus, REST API, CLI (`telegram_bot/main.py`, `input_owner.py`, `handlers/`, `api_server.py`, `cli/`) | settings, who owns the operator's next message | buttons, commands, conversations, prompts, routes | an update changes what it names and nothing else, once | Operator |
| User sync (`utils/user_sync.py`) | users rows, metadata cache, deadline, two locks | full mirror, single fetch, turns with IP collection | no local work is lost, rows and cache converge, nobody waits for ever | UserSync |
| Telegram delivery (`telegram_bot/dispatcher.py`, `send_message.py`) | queue, items and batches; pending notices and receipts on disk | admit, send, retry, reload, withdraw, stop | a notice is kept until it is out, never sent after its receipt or withdrawal; an observation is sent at most once | Dispatcher |
| Mirza Bot (`utils/mirza_*.py`, `db/crud/mirza_*.py`) | delivery rows, bots with revisions, captured candidates | capture, claim, send, recover, report, edit a bot | a customer is told at most once, by the bot as it is configured | Mirza |
| Daily report (`utils/daily_report.py`, `daily_report_scheduler.py`, `db/crud/daily_reports.py`) | schedule, a row per day, checkpoint, dispatcher items | midnight job, watcher, start, send, close | a day is reported at most once, and in the end | DailyReport |
| Backup and restore (`utils/backup.py`, `handlers/backup.py`) | archive, staged copies; job and recipients of the automatic backup | create, validate, stage, replace, roll back; send | a restore is all or nothing and loses no original; a backup reaches one audience | Backup, BotRuntime |
| Process supervision (`limiter.py`, `run_telegram.py`) | tasks, the application, its updater and jobs | start, watchdog, supervise, end | the bot comes back | BotRuntime |
| Forum topics (`telegram_bot/topics.py`, `handlers/topics_settings.py`) | group, threads, delivered keys, two revisions; topics.json | set up, repair, reset a forum; address, send and record a message | a message is recorded only where it went; a set-up gives up no thread that exists | Topics |
| Device counting, database engine and migrations | | | | not modelled, see below |

The parts meet in four places: the users row (punishments, the enable loop, the
bot, the API, the CLI and the sync all write it), the settings, the panel, and
the punishment path: source, usage check, warnings, punishment system, fact
journal and ban life cycle call one another in that order.

## Modules

Each module is one state machine: the variables are the state the code shares
between tasks or keeps on disk, plus a record per call in progress whose `pc` (or
`at`) is the await the call stands at. A step runs from one await to the next,
which is what asyncio guarantees. What the environment may do is a constant
(`Disturbances`, `Scenarios`, `Events`) or is bounded by one (`MaxFaults`), so a
configuration names exactly the faults it covers. Definitions whose comment
begins with MUTANT (or "Mutant:") are faulty variants of the definition after
them; nothing uses them.

What a module says of its neighbours is the contract they are checked for. For
ApiSource a request succeeds, fails or is put off (PanelRequests); for UsageScan a
sample shows a user over the limit, within it, absent or unsure (the sources);
for PunishmentIncident the panel action is one step (BanLifecycle); for
DailyReport a day's punishments are settled or not (PunishmentFacts).

The modules MCPunishment, MCAftermath, MCPanel, MCServices and MCProcess put
components that share no state into one run of TLC: the variable `part` picks the
component a behaviour exercises and the others stay where they began, so that the
state spaces add up and do not multiply. MCUsageScan does the same with three
instances of UsageScan. MCPanel has three components and two runs, for which its
constant `Parts` says which components take part: `panel_api` runs the requests
and the evidence, `user_sync` the mirror. A property of one component holds of the
whole exactly if it holds of the component. Where a run needs fairness, a step of
one part and one of another share a condition, which in each behaviour is the
condition of its part.

The proofs are in modules whose names end in Proofs. Each extends the module it is
about, or the MC module that instantiates several components, and its theorems are
about the specification of the component itself:

| Proof module | Extends | Specifications its theorems are about |
|---|---|---|
| PunishmentProofs | MCPunishment | Spec (BanLifecycle), F!Spec (PunishmentFacts) |
| PunishmentIncidentProofs | PunishmentIncident | Spec |
| UsageScanProofs | UsageScan | Spec |
| PanelProofs | MCPanel | Spec (UserSync), P!Spec (PanelRequests), A!Spec (ApiSource) |
| LogSourceProofs | LogSource | Spec |
| OperatorProofs | Operator | Spec |
| ProcessProofs | MCProcess | Spec (Settings), B!Spec (BotRuntime), D!Spec (DailyReport) |
| ServicesProofs | MCServices | Spec (Dispatcher), M!Spec (Mirza), K!Spec (Backup), T!Spec (Topics) |

### BanLifecycle, PanelBan

`utils/panel_api/users.py`, `utils/handel_dis_users.py`, `db/crud/users.py`.
`status` and `groups` are the panel; `registry` and `prov` are the users row (the
disable record with its due time, and the stored inverse `disable_provenance`);
`enf` is the `_disable_user` call of each user, `lift` each task that runs
`enable_selected_users` (the enable loop, the bot, the API); `ban` is a ghost:
the ban in force and what undoes it. Disabling stages the inverse, PUTs, then
records; enabling reads the record and the panel user, PUTs the inverse, then
clears the flags. Each of these is an action with its failures: a session that
raises, a PUT refused, a PUT applied with its answer lost, a guard that stops the
punishment. A crash forgets the calls. `Serialized` (no "overlap" among the
disturbances) says that a punishment and an enable of one user do not overlap.
The panel is external; its PUTs replace the groups or the status as a whole.

PanelBan is the abstract specification: a ban is imposed in one step, repeated
without effect, and lifted in one step that gives back the groups it took. It
knows neither the users table nor calls in progress. BanLifecycle implements it
with `status`, `groups` and `ban` as they are (BanKeepsPromise), also when an
answer is lost, a lift is retried after a crash or the method is changed in the
settings meanwhile.

### PunishmentIncident

`utils/punishment_system.py` and `disable_user_with_punishment`. `inFlight`,
`unrecorded`, `recorded` and `unconfirmed` are the sets of the same names;
`cache` and `file` count the entries of the JSON mirror in memory and on disk;
`rows` is `violation_history`; `call` is each caller. Begin, Select, Apply, Mark,
Record, Confirm, Commit and SaveAndPop are the steps of one incident, and a
cancellation can come at any await. Left out: the time window that lets old rows
lapse, the switch that disables punishments, changed step lists. `torn` is a
ghost for the cases in which EscalationInOrder is not claimed.

### PunishmentFacts

`utils/punishment_facts.py`, `db/crud/punishment_facts.py`. `fact` is the
ActionFact of an incident in memory, `pending` the journal's map, `outbox` the
file, `sql` the table, `job` the store each owner waits for, `report` the
`ready_before` call of the daily report. A snapshot is its state and two flags
(the main effect and a partial one confirmed), which is what the merge rules look
at. FactsSound joins the module's type invariant, the completeness of a report
and the rule that nothing in doubt is settled.

### UsageScan

`utils/check_usage.py`, `utils/warning_system/`, the admission of
`utils/enforcement_guard.py`. `warnings` are the monitoring records with ages
instead of time stamps, `file` and `writing` their persistence, `want` the tasks
waiting for a save, `setting`/`used` the configured and the adopted number of
warnings, `policy` what the database says of a user, `cyc` the scan cycle.
`cyc.current` stands for the three things whose change withdraws a cycle's
permission: the admission, the evidence generation and the configuration
revision. The cycle samples, judges, verifies and then takes effect; the repeated
validations between awaits are one Verify directly before each effect. The
identity of a record reduces to its presence. The clock is only ever set back.
The trust score only enters through the sample.

### ApiSource

`utils/ip_source_api.py`, `panel_api/online_ips.py`, `api_node_scope.py`,
`api_observations.py` and the API half of `shared_state.py`. `up`, `reach`,
`group` and `age` are the panel: connected nodes, the nodes a group gives access
to, the group of a user, and when the user was last active on a node. `cyc` is the
cycle with everything it has read: nodes, topology, the paged list of users,
the answers with their scope and time, the confirmation after the fan-out, the
published counts and the users asked again before a verdict. `health` counts the
failed cycles; `src` is what the fall-back changes. A user has at most one address
per node, so that a set of nodes stands for a set of addresses. A behaviour meets
one of six sets of disturbances. Left out: alerts, statistics and the validation
of single addresses.

### LogSource, MCLogSource

`utils/get_logs.py`, `parse_logs.py`, `log_observations.py` and the log half of
`shared_state.py`. `task` is what each task of a node does (opening, reading, deaf,
sleeping), `beat` the last event of a node, `obs` the open gaps and the last
unusable record, `store` ACTIVE_USERS, `prep` the record each task is preparing
across its awaits, `loops` what `handle_cancel`, `check_and_add_new_nodes` and
`handle_cancel_all` have read of the panel's list, `scan` the sample. `missed` is a
ghost: since when a record of the node was last lost. Left out: regular
expressions, health notices, the fingerprints of the replay cache, the pause of
monitoring by Topics. MCLogSource pairs the disturbances into scenarios.

### PanelRequests

`utils/panel_api/request_helper.py`. `state`, `failures` and `age` are the
circuit breaker, `refused` and `available` the panel's availability, `req` the
requests with their remaining attempts. Time passes in ticks. The single-probe
breaker of the online statistics makes one attempt with a timeout of 20 s against
a recovery time of 60 s; RequestsAssumption of MCPanel says so (`SingleProbe =>
Span < Recovery`; httpx applies its timeout per phase, so this is an assumption
about the panel, not something the code enforces). The run uses a single-probe breaker with two
attempts per request so that retries and the probe are exercised together; the
theorems hold for both breakers. Per-scheme statistics are left out.

### Settings

`utils/read_config.py`, `settings_service.py`, `db/crud/config.py` and
`config_revision.py`. What the settings say is the number of the transaction that
wrote them. `db` holds it with the revision row, `cache` and `crev` are
`_config_cache` and `_config_cache_db_revision`. `_config_revision` only grows and
is only compared with the values that loads and the evidence have kept, so the
model has the set `stamps` of those whose value is still the current one. `rlock`
and `wlock` are the two asyncio locks, `read` and `write` the load and the save
each task is in; a database revision is read in one step (CheckRevision, Confirm)
and compared with what the process holds by then in the next (UseCopy, Publish).
`hook` is an after-commit hook that has not run, `scan` the settings the cycle's
evidence and policy were read under. Other processes are their commits. `own` is a
ghost: the newest transaction this process announced.

### Operator, MCOperator

`telegram_bot/main.py`, `input_owner.py`, fourteen handler modules, `api_server.py`
and the CLI's writing commands. `saved` is the settings as a record of values, sets
and functions; `input` is `context.user_data` (owner, `waiting_for`, the selected
user and group), `native` the state of each ConversationHandler; `at`, `asks` and
`newest` are the bot's messages, what they ask for and which is shown last in a
topic. Every button, command and prompt that changes a setting is an action. The
buttons are grouped into `Desks`, of which a behaviour uses one beside commands,
conversations and the remote routes. `meant` is a ghost: what the update at hand
asked to change.

### UserSync

`utils/user_sync.py` with `fetch_all_users_raw`, the users table and
`panel_workload.py`. `panel` is what the panel knows of each user, `rows` the
table (panel-owned columns, whether local columns are set, and whether the row was
written since the last snapshot), `cache` USER_METADATA_CACHE, `fetch` the single
fetches, `m` the mirror with everything it has read, `syncLock`, `workload` and
`pc` the two locks and their callers (the loop, an operator, the IP collector),
`due` what `_due_sync_interval` answers. The listing is read page by page by offset
into the sorted names, so users who come and go shift the pages. The comparison of
all columns before a deletion includes times and so amounts to "not written since
the snapshot". Panel ids are left out; a clash of ids is a failing session. The
deadline does not pass while a free lock is handed over or the settings are read:
an interval is a minute at least.

### Dispatcher, MCDispatcher

`telegram_bot/dispatcher.py` with the callers in `telegram_bot/send_message.py`.
`mem` is the QueueItem of each chunk (state, queued, future done, registered, in
its batch, superseded, of an old monitoring revision or destination, chat),
`batch` the SendBatch, `storage` and `disk` the pending notices in memory and in
the file, `lockq` and `io` the persistence lock with its FIFO queue and the write
in progress, `adm` the admissions not yet durable, `work` the worker, `canc` one
`cancel_pending` call, `tracked` the receipts kept for deletion. The loop of a
reload does not give way except where `_finish` saves, so while `work.pc` is
"row" only the reload moves. Left out: edits and deletions, the token bucket (it
only delays), the 24 hours after which a key expires, deletion of tracked
messages; daily reports are DailyReport's. `sent` counts arrivals in the chat only
as far as the properties look (once for a notice, twice for an observation).

### Topics

`telegram_bot/topics.py` and `handlers/topics_settings.py`. `mem` is the published
snapshot of the TopicsManager with its monitoring and destination revisions,
`disk` topics.json, `write` the writer that holds `_write_lock` with its candidate,
`op` the operator's command (a set-up probes the threads it has, creates the
missing ones and installs the result), `msg` the messages the dispatcher has
addressed and not yet recorded, `forum` the threads Telegram has. `reached` is a
ghost: where the key of each kind has arrived. Left out: the expiry of keys, the
legacy cache file, the checks of rights and the texts.

### Mirza

`utils/mirza_notifications.py`, `mirza_reports.py`, `mirza_settings.py`,
`db/crud/mirza_*.py` and the menus of `handlers/notifications.py`. `rows` is
`mirza_notifications`, `routes` the bots with their revisions, `context` the
candidates captured with a punishment, `worker` and `reporter` the two tasks with
the row they hold. No transaction spans a read and the write after it, so every
write is an UPDATE that names the state it expects. Messages are one per bot; a
bot's address, key and steps are one Boolean. Left out: the waiting time of
retries, contexts older than message identities, the connection test.

### DailyReport

`utils/daily_report.py`, `daily_report_scheduler.py`, `db/crud/daily_reports.py`
and what `dispatcher.py` does with reports. `sched` and `jobs` are the scheduler
and its one-shot midnight jobs, `callers` who waits for the service (midnight,
watcher, start), `svc` what it is doing, `runs` the row of each day, `checkpoint`
the last day closed, `items` the dispatcher's item of each day, `resolved` whether
a day's punishments are settled. Time is ticks, `Length` of them a day; a zone
shifts the calendar. A slow read that would enqueue a day a second time is one
step here.

### Backup

`utils/backup.py`. `live` is each file with its version, `making` what
`create_backup` has captured while the service writes, `archive` the archive,
`work` where `apply_backup` is and the copies it holds. Every file operation may
fail and the process may be killed between any two. Left out: checksums and member
names (an archive is whole or torn), the mount checks.

### BotRuntime

`limiter.py`, `run_telegram.py` and the automatic backup of `handlers/backup.py`.
`stage` is main(), `up` the supervised tasks, `app` and `polling` the application
and its updater, `starter` and `dog` the first start and the watchdog, `daily` and
`jobs` the job queue, `conf` auto_backup.json, `menu` and `auto` the handler and
the job at work. The starter's requests time out before the watchdog looks for the
first time; the model takes that order for granted, and that no button is pressed
before the starter is through (`EarlyPress`).

## Runs

| Run | What it asks | Instance | Result |
|---|---|---|---|
| `punishment` | Can a ban in force always be undone, exactly, and does the life cycle keep PanelBan's promise? Are facts final, complete and never invented? | one user, a user group and the disabled group, the loop and the bot, two recording times; two actions, one of them with a partial effect | holds, 3.2 M states |
| `aftermath` | One row per incident, claims, the order of the steps; a timed ban ends, a report is made | one user, two callers, four incidents, three steps of which the first only warns; one ban with overlap and edits; one action | holds, 54 K |
| `panel_api` | Do breaker, count and availability agree, is the panel tried again? Is evidence complete and current, is a dead API given up? | two requests of two attempts, threshold 2, recovery 3; two users, two nodes, six scenarios | holds, 610 K |
| `usage_scan` | Is nobody punished early or on a verdict that no longer holds, do clearings stick, is an offender punished? | one user, one or two warnings, or two and three | holds, 1.09 M |
| `services` | Are notices kept and everything sent at most once and to where it belongs? Is the forum described as it is? Is a customer told once? Is a restore all or nothing? | one notice of two chunks or two observations; one forum of two; one bot and one incident; two files | holds, 1.26 M |
| `process` | Do loads answer with current settings and does the scan act on them? Do bot, automatic backup and daily report keep going, once? | three tasks, three commits, three attempts, one failure; two services; two days | holds, 709 K |
| `user_sync` | Is local work safe, does the mirror follow the panel, is every IP cycle admitted, do table and cache converge? | three users, one of them busy, pages of one user, four scenarios | holds, 249 K |
| `log_source` | Is an absence proven before it clears anybody, do complete samples come back? | one node with two streams, two faults, four scenarios | holds, 242 K |
| `operator` | Does an update change what it names and nothing else, once? Does inbound counting never meet the API source? | two users, groups and topics, three messages, sixteen desks | holds, 690 K |
| `ban_overlap` | Does a ban stay reversible when a punishment overlaps an enable of the same user? | as `punishment` | **violated** |
| `dispatcher_stale` | Does a notice go out only if the disk holds it, with two notices? | two notices of one chunk, failing writes, withdrawals | **violated** |
| `schedulers` | Are the daily report and the automatic backup scheduled once the bot is back? | Telegram out of reach at the start | **violated** |

Why the bounds are enough. The ban life cycle treats users independently except
in the loop's batch, whose treatment is per user; the theorems below cover any
number. Two callers are the two tasks that punish; four incidents let the last
step repeat. Two incidents let one block or hide the other in a report; what a partial
effect adds to a snapshot is merged row by row, so one incident with it suffices
(`OnePartial`). Two
requests suffice for a late result and a probe to meet. In ApiSource one user
moves and one stays, and two nodes are the least for which part of the answers is
missing. Two chunks are the least for which a batch can be half finished, and two
observations for one to replace the other; notices and observations are checked
apart (MCDispatcher), for they share only the worker, whose item is one or the
other. Three names are the least for which one user leaves, one joins and a third
is in no page. Two streams per node are the least for which a rebuilt stream meets
its predecessor. Three messages in two topics are an old one, its successor and
one of the other topic. Three commits overtake a load as often as
`MAX_CONFIG_LOAD_ATTEMPTS` allows. A failure bound of one or two lets a failure
meet the retry of an earlier one. A behaviour of `user_sync`, `log_source` and
ApiSource is exposed to the disturbances of one of its scenarios, named in the cfg
or the MC module.

### What the violations show

- `ban_overlap`: `_clear_database_disable_flags` removes the inverse that is in
  the row when it runs. A punishment that starts between the enabling PUT and
  this clean-up has staged its own inverse by then; it is removed, and the new
  ban cannot be undone. `users.py:643` promises the recovery information before
  the PUT. Overlap breaks more in the same way: a stale batch of the loop enables
  a user who is permanently banned by now, and a late clearing erases a new record.
- `dispatcher_stale`: the reload iterates over a copy of the rows and awaits
  inside the loop. A notice whose admission fails during that await, or which is
  withdrawn, is recreated from the copy and sent, against the comment at
  `dispatcher.py:397`. With one notice the loop never waits while another row
  can change, and the properties hold.
- `schedulers`: when the first start of the bot fails, `run_telegram_bot` returns
  before it registers the daily report's scheduler and the automatic backup's job;
  `run_telegram.py:137` says that the watchdog retries, but `limiter.py:139-146`
  retries only the application and its polling. Until the process is restarted
  there is neither report nor automatic backup.

### Weaknesses met on the way, for which there is no run

- *Bans.* A user deleted on the panel between the two existence checks is recorded
  with a violation although nothing was applied (`users.py:1324`, against the
  docstring at `punishment_system.py:644`). With "edit", an inverse staged by a
  refused attempt survives a later edit of the groups, so InverseExact needs groups
  that are not edited.
- *Facts.* With failing sessions, a failing outbox and a crash together the report
  can miss a fact; after a crash between a known outcome and its store the row
  stays prepared and defers the report (ReportMade is checked without crashes).
- *Warnings.* A save of a clearing that fails is swallowed and still confirmed to
  the operator: after a restart the record may be back (ClearingSticks is claimed
  of saves that succeed).
- *Settings.* A snapshot load of another task that fails drops the copy and its
  database revision without advancing the local one; settings committed meanwhile
  are then published under the revision of the evidence collected before them, and
  the scan judges that evidence by them (`SnapshotOutage`; ActsOnCurrent fails with
  it, ReadsCurrent does not).
- *API source.* A user whom a shift of the pages hides is only noticed by the second
  listing; changes that are undone within a cycle go unnoticed; a node that is down
  only while it is asked counts as answered; an operator who keeps changing settings
  defers the fall-back.
- *Log source.* A rebuild of all streams and `check_and_add_new_nodes` can open two
  streams to one node; `handle_cancel` cancels one task per name and pass; a deaf
  stream whose heartbeat was forgotten is only recovered by the two-hour refresh
  (`Stranded`); the polling period equals `node_silence_window`; a record overtaken
  by any settings write, or whose numeric id the database could not resolve, is
  dropped without a gap; a disconnection between two polls is not seen;
  `handle_cancel_all` works on a cached list of nodes.
- *Menus.* A plain `read_config` is not checked for degraded settings: after a failed
  read a save replaces the whole collection, and inbound counting and the API source
  can be combined (`DegradedReads`). `cdn_remove_<prefix>` removes the first inbound
  that starts with the name. The buttons of punishment steps carry positions; adding
  a step to the empty ladder replaces the five shown defaults by one, removing one of
  them does nothing. A toggle on a stale screen flips the other way.
  `select_disabled_group` saves two keys separately.
- *User sync.* A user the listing missed who has no row yet is not noticed, so a
  mirror may report success without them until the next one.
- *Backup.* The database is captured first and the outbox later; a killed restore
  leaves mixed files with `.restore-old-` copies beside them.
- *Bot and report.* A button pressed before the starter is through leaves two jobs of
  the automatic backup (`EarlyPress`). A day is missed when Topics was off at the
  previous midnight and the process is down over the next one.
- *Mirza.* A failed write of an outcome leaves the row "sending" until the next start.

### Fairness

Weak fairness of a task's steps: asyncio resumes a task whose await has returned.
Weak fairness of the clock and of the periodic loops. Strong fairness where a
step fails now and then but is retried for ever: the panel's PUTs and reads and
the SQL sessions of BanLifecycle and PunishmentFacts, the save of ApiSource's
fall-back: a property that needs them says "unless the panel (or the database)
fails every time". OffenderPunished, SamplesResume, Converges, BotReturns and
DayEnds assume that the disturbances end, and OffenderPunished a cycle no longer
than the check interval. In UserSync the asyncio locks are handed over in the order
of their queues (strong fairness of taking them); CollectionAdmitted assumes that
syncs are not cancelled for ever.

## Proofs

TLC covers small instances; TLAPS shows the following for every value of the
constants. Where a theorem needs a disturbance excluded, a run or a weakness above
shows that it does. The assumptions on constants that are used without being named
here are those the modules declare (ConstantsAssumption, RequestsAssumption,
SourceAssumption, ServicesAssumption, ProcessAssumption, OperatorAssumption): ranges
of numbers, finite sets where they are counted, and names that differ.

### PunishmentProofs, PunishmentIncidentProofs, UsageScanProofs

- **Bans.** Assuming `Serialized` except for `TypeCorrect`.
  `TypeCorrect`: TypeOK is invariant (with InHand: a call has a user in hand wherever
  it needs one). `BansStayReversible` and `LoopLiftsOnlyDue`: every ban in force has
  its inverse, of its own method, committed; the loop has only due users left to
  enable. BanReversible is not inductive: whether a clean-up may drop the inverse
  depends on where the lifter stands. The inductive invariant BanFacts adds:
  Exclusion (no punishment and enable of one user at once), Staged (a punishment
  past its staging has its inverse in the row), LiftPlan and Lifted (what a lifter
  holds matches the row, and after its PUT no ban is in force) and DeletedFree (a
  deleted user has no ban). LoopActsOnDue needs in addition that the loop's batch
  only shrinks and that records in it do not change under Serialized.
  `InverseStaysExact` (InverseExact) and `LifecycleKeepsPromise` (BanKeepsPromise,
  the refinement of PanelBan) assume besides that nobody edits groups
  (`Undisturbed`). Their invariant GroupFacts says what is known of the groups:
  InverseKnows (a stored inverse by group tells where the user is and belongs, also
  when it was staged by an attempt that never reached the panel), SnapshotFresh (a
  punishment stages the groups the user has, and sends those staged), GivesBack (a
  lifter gives back what the ban took, also when another lifter came first) and
  DisabledBanned. With it every step maps to a step of PanelBan: the disabling PUT
  to Impose or Repeat (PutImposes), the enabling PUT to Lift or a stutter (PutLifts),
  all others to what the panel itself does or to a stutter (PromiseStep).
- **Facts.** For any actions and, but for the last, any disturbances; the report is
  not itself an action (`Distinct`). `FactsTypeCorrect`; `NothingIsInvented`
  (NothingInvented); `ReportIsComplete` (FactsSound: both and ReportComplete). A final
  fact does not change any more, so FactInv asks of every snapshot, wherever it is kept or carried (pending, outbox, SQL, the
  report's list, a store), that if it is final it is the fact (Sound); a store then
  never meets a different final row, and a replay cannot settle what is in doubt.
  ReportInv follows an intent from its announcement (Announced) to the place where a
  crash does not take it (Durable: SQL, or the outbox if SQL fails) and says what a
  report in progress has found out (Found). It assumes `Recoverable`: not all of
  "crash", "database" and "outbox" happen. With all three TLC finds a prepared fact
  that is in neither store when the process dies, and a report made without it.
- **Incidents.** For any users, callers, ladder and disturbances.
  `TypeCorrect`. `CountedOnce` (OneRowPerIncident) and `ClaimsProtect` (ClaimSound)
  from IncidentInv. OneRowPerIncident alone says nothing of a call about to insert;
  the invariant says which calls may still insert and that the history has no row of
  their incident (CallInv), that a pending incident with a row is known to be
  recorded or perhaps recorded (UserInv), and that a call in progress has the only
  claim on its user (ClaimInv), without which a second caller could take the row
  back. A step reads and writes what belongs to its user only (StepLocal), so the
  induction has one proof per handler and not per pair. `StepsInOrder`
  (EscalationInOrder) adds OrderInv: until `torn`, the mirror counts the rows except
  one that is pending and of unknown fate (Uncounted), and whatever may still become
  a row, in a call or in the ledger, carries the step of the next row.
- **Usage check.** `NobodyHasty` (NoHastyBan) and `VerdictsStand` (VerdictsHold), for
  any users, rules, interval and events. NoHastyBan relates a record to time that has
  passed and is not inductive; GapInv is: every record, in memory, in the file and in
  the hands of the writer, is at least as old as the gaps between the scans it counts
  and the time since the last of them (Spaced), which a clock set back only makes
  smaller. CycleInv adds that a sentence has one user, that only a punishment has begun
  its mutation, and that a cycle that is still current runs under the settings it began
  with while monitoring is on. That a finite set of rules has a greatest element is
  proved by taking a least set of greater ones (Greatest). `ClearingsStick`
  (ClearingSticks) assumes that no save fails among clearings (`ClearingsSaved`), for
  the code swallows that failure; ClearInv says where an old record may still be while
  the operator waits: in the file, and in a snapshot another task has handed to the
  writer.

### PanelProofs and LogSourceProofs

- **Requests.** `BreakerFollowsFailures`, `AvailabilityFollowsConnections`
  and `SingleProbeAdmitted` from one invariant: TypeOK, the three properties and
  OpenedSince (a probe in flight is younger than the breaker's last change, or was
  admitted at it), which with RequestsAssumption (a probe is shorter than the
  recovery time) excludes a second probe.
- **Mirror.** `TypeCorrect` (with Owned: a mirror in progress has an
  owner) and `NoLocalWorkLost`: LocalWorkKept, for any users, page size and
  scenarios. The step that deletes rows relies on what earlier steps have read,
  so the invariant Kept says what that was: Whole (a row without facts is no
  row), ListedOnly (only listed users are written), ConfirmedGone (users whose
  absence was confirmed were gone since the snapshot) and Noticed (every user
  gone since then is known to be).
  `MirrorsRight` (MirrorRight): a scheduled mirror starts only while it is due and
  never during a collection, and one that reports success has accounted for every
  user who was on the panel throughout. TurnHeld says that whoever mirrors or
  collects has the turn, Accounted that everyone who has been on the panel since the
  snapshot is listed, left to be confirmed, or an error the mirror remembers.
- **Evidence.** For any users, nodes, limits and events. `PunishmentsRecent`: every
  address a punishment counts was open within the freshness window, twice the window
  where the core lists recent ones (CountsReal), and the logs are fallen back to only after the failures that earn it (FallbackEarned).
  EvidenceInv has CountInv, that what an answer lists and what a sample counts is
  recent unless the user is being asked about again, and FallbackInv, that failures
  which may lead to the logs have all been counted under the present settings.
  `EvidenceIsCurrent` (EvidenceCurrent) and `SteadyStaysSeen` (SteadySeen) assume
  `OneChange`: at most one change of groups or memberships within a cycle, for a
  change that is undone between two reads leaves no trace (see the weaknesses). Their
  invariant LookedInv adds NoticeInv (a group found rewired differs from what the
  cycle has read, and so does that of a user who moved) and SeenInv (what lasted
  throughout is in the nodes, the scope, the answer and the sample).
- **Log source.** `NothingWasLost` (AbsenceProven), for any nodes, streams, interval
  and disturbances. That a sample with a hole clears nobody is not inductive, for the
  hole is made long before the sample. LogInv asks that whenever a record was lost a
  ticks ago and a is within the interval, or one is in preparation that will not be
  stored, something keeps the sample from being complete until the loss is older than
  the interval (Doubt): a silent heartbeat, an interval that began since, a node or a
  fleet that is not trusted. Heard and Follows are what makes a heartbeat and the
  observations mean that; a step only ever adds to the doubt or lets it age with the
  loss (Weaker, DoubtGrows).

### ProcessProofs and OperatorProofs

- **Settings.** `SettingsCurrent` (ReadsCurrent) whatever fails, from ReadInv:
  loads and saves hold their locks, nothing is ahead of the database, and LoadKnows
  says what a load in progress knows: a load whose local revision has been retired
  finds no copy, for nobody but itself could publish one, and what it is about to
  publish is no older than the process's own writes as long as it has not been.
  `ScanOnCurrent` (ActsOnCurrent), when no snapshot of another task fails, from
  ScanInv: evidence whose revision is current was collected under the copy that is
  published (EvidenceOfCopy), and the fall-back's save expects the revision of that
  evidence (FallbackExpects).
- **Automatic backup.** `BackupAutomatic` (AutomaticBackup), when no button is pressed
  before the starter is through (`~EarlyPress`). BotInv says which state the starter
  leaves the application in and that the watchdog does not overtake it (StartRight),
  that only the starter and the menu add jobs (BackupJobsRight), and that admins are
  asked only when the group does not have the document (AudienceRight).
- **Daily report.** `ReportedOnce` (DayOnce) and `MidnightIsSet` (MidnightSet), for any
  length of day, zones, failures and crashes. ReportInv relates for each day the row,
  the dispatcher's item and what went out (Agrees), says that the service is alone
  with the day it prepares (Alone), so that no second item can be admitted, that a
  midnight which is not set is somebody's to set under the present generation
  (Claimed), and that every job is of that generation and due time (JobsRight).
- **Menus.** As long as the settings can be read (`~DegradedReads`): `OwnersAsk`,
  `MenusAgree` (InboundNeedsLogs), `SettingsAsAsked` (AsAsked), for any users, groups,
  topics, messages and faults. Whoever owns the operator's next message was asked last
  in its topic, by a prompt nobody has answered, and for what the owner takes it for
  (OwnerAsks); without that a late answer could change another user's limit. A save
  that fails half-way is covered because the batch is such that any part of it changes
  what is meant and keeps the rule of inbound counting (Legal).

### ServicesProofs

- **Notices.** For any notices, chunks, observations and disturbances: `TypeCorrect`;
  `NoNoticeIsLost` (NoticeKept). That a row is in the file is not inductive, for every task may write the file next, from rows another has changed
  and in an order the lock decides. NoticeInv asks, of a chunk that is owed (accepted
  or being admitted, not sent, not asked back), that its row is in memory, in the
  write in progress and, once accepted, in the file (OwedOnDisk); and that nobody is
  about to drop it (OwedHere): its item is not finished unless it failed, it is in
  nobody's list of rows to remove or to bring back, and the worker, if it has it in
  hand, is not past the point where it was sent. QueueInv is what the lock is for: an
  admission asks for it once (Once), and until it has it the notice is not accepted;
  so the row a snapshot leaves out, of a reservation that is not yet durable, is never
  an accepted one. Of a message still to come there is nothing anywhere (NewHere,
  NewOnDisk). It assumes `TasksApart`: no message is named like a task.
- **Observations.** `ObservationsOnce`: no observation is in the chat twice, nor two
  messages with one key for one destination and monitoring period, and a warning
  report goes out only while it is the newest (ObservationOnce and NewestFirst of
  SendsRight). ObsInv says that a message which counts for the present destination and
  period holds the key, that a report which is due is the newest, that what the worker
  has in hand was not sent and is not queued a second time (HandRight), and that what
  was sent is over (SentRight). Steps that concern notices leave all of this alone
  (Aloof). It assumes `TasksApart` too.
- **Mirza.** `CustomerReachedOnce` (CustomerOnce) and `ClaimedAsConfigured`
  (SentAsConfigured), for any incidents and routes. MirzaInv says what a row's state
  tells of the customer (RowRight: only a claimed row's request reaches him) and of the
  report in the forum (ReportRight), what the two tasks carry across their awaits
  (InFlight, InReport) and that a row about to be claimed has its bot at the revision
  it is pinned to (RoutePinned, ClaimRight). Every write names the state it expects, so
  a row that another task has changed is left as it is.
- **Backup.** `RestoresSafely` (RestoreSafe), for any files, whatever step fails and
  wherever the process is killed. Found (an original is in its place or beside it) is
  what a crash needs; BackupInv says besides which files are replaced already and which
  are untouched in each phase (Replacing, RollingBack, Cleaning), and that a copy is
  removed only when nothing depends on it (CopiesRight, Retained).
- **Topics.** `ForumDescribed` (ForumRight), for any groups, kinds and messages.
  TopicsInv holds of the published snapshot and of the file alike: threads named exist
  in its group (Known) and keys stand for messages that have arrived there (Stands). It
  says what an update of the operator relies on (UpdateRight: a thread to be replaced is
  gone) and that a message is recorded as sent only where it went, the two revisions
  being those it was addressed under (MarkRight, MsgRight).

Every inductive invariant was checked by TLC as an invariant of a small instance
before it was proved.

Only model-checked:

- every liveness property (TimedBanEnds, ReportMade, TriesAgain, FallsBack,
  OffenderPunished, CollectionAdmitted, Converges, SamplesResume, BotReturns, DayEnds):
  the prover does not do fairness;
- NotAgain, AsRecorded and ReceiptKept, the parts of SendsRight about notices. They hold
  of one notice, which is what `services` checks. With two and writes that fail TLC
  refutes each of them for one reason: the reload sends a row another task has removed
  meanwhile, as `dispatcher_stale` shows of AsRecorded. A theorem about
  one notice would say no more than the run.

## Not modelled

Device counting and classification (how addresses, subnets, ISPs and inbounds
become a number; UsageScan takes its outcome as the sample); the database engine
and its migrations; status texts, reports' wording, menus that only display,
regular expressions, ISP look-ups, authentication of the REST API and its
read-only routes. The components of PROJECT.json say what is left out of each
module.

## Plan

The model is complete as far as the inventory goes, and every safety property the
runs check is proved except the parts of SendsRight named above. What would come next
follows the code: if the reload of the dispatcher reads each row again after its
await, `dispatcher_stale` turns into a run that passes and AsRecorded can be proved
from NoticeInv (missing is that a queued item's chat is the one in the file); if
`run_telegram_bot` registers the schedulers after a start that failed, `schedulers`
passes; if the clean-up after an enable removes only the inverse it has used, the
counterexample of `ban_overlap` goes, and the next one (a stale batch of the loop, a
late clearing) decides how much of `Serialized` the theorems about bans still need.
