------------------------------ MODULE MCProcess ------------------------------
(***************************************************************************)
(* What the process stands on and what must come up and keep going: its    *)
(* settings (Settings), the bot with its tasks and jobs (BotRuntime), and  *)
(* the daily report (DailyReport).  They share no state here, so each      *)
(* behaviour exercises one part; the others stay where they began.         *)
(***************************************************************************)
EXTENDS Settings

CONSTANTS
  Services, Hours, Chats, EarlyPress, MaxOutages, BotFaults,             \* of BotRuntime
  Zones, Ahead, Length, Begin, End, MaxRetries, MaxChanges, ReportFaults \* of DailyReport

VARIABLES
  part,
  net, stage, up, app, polling, starter, dog, daily, conf, jobs, menu, auto, outages,
  now, zone, topics, sched, midnights, callers, svc, runs, checkpoint, items, resolved, reports, changes

B == INSTANCE BotRuntime WITH MaxFaults <- BotFaults

D == INSTANCE DailyReport WITH jobs <- midnights, posted <- reports, MaxFaults <- ReportFaults

\* The calendar of the report has the days it is asked about; an admin is not the group.
ASSUME ProcessAssumption ==
  /\ Length \in Nat \ {0} /\ Begin \in Nat /\ End \in Nat /\ Length <= Begin /\ Begin <= End
  /\ B!Group \notin Chats

settings == <<db, cache, crev, stamps, rlock, wlock, read, write, hook, scan, own>>
bot == <<net, stage, up, app, polling, starter, dog, daily, conf, jobs, menu, auto, outages>>
report == <<now, zone, topics, sched, midnights, callers, svc, runs, checkpoint, items, resolved, reports, changes>>
allVars == <<part, vars, bot, report>>

ProcessInit ==
  /\ part \in {"settings", "bot", "daily"}
  /\ Init /\ B!Init /\ D!Init
  /\ part = "settings" \/ db.legacy = FALSE
  /\ part = "bot" \/ (~net /\ conf = [on |-> FALSE, every |-> 1])
  /\ zone \notin Ahead

OnSettings(A) == part = "settings" /\ A /\ UNCHANGED <<part, bot, report>>
OnBot(A) == part = "bot" /\ A /\ UNCHANGED <<part, settings, report>>
OnReport(A) == part = "daily" /\ A /\ UNCHANGED <<part, settings, bot>>

ProcessNext == OnSettings(Next) \/ OnBot(B!Next) \/ OnReport(D!Next)

(* The fairness of the parts whose liveness is checked.  As a behaviour has one part, a  *)
(* step of the bot and one of the report can share a condition.                          *)
ProcessFairness ==
  /\ WF_allVars(OnBot(B!MainStep) \/ OnReport(D!SchedulerStep))
  /\ WF_allVars(OnBot(B!StarterStep) \/ OnReport(D!ServiceStep))
  /\ WF_allVars(OnBot(B!DogStep) \/ OnReport(D!DispatcherStep))
  /\ WF_allVars(OnBot(B!_supervise("dispatcher")) \/ OnReport(D!Resolve(0)))
  /\ WF_allVars(OnBot(B!_supervise("mirza")) \/ OnReport(D!Resolve(1)))

ProcessSpec == ProcessInit /\ [][ProcessNext]_allVars /\ ProcessFairness

(* Once Telegram stays in reach the bot polls and every supervised task runs. *)
BotReturns == B!BotReturns

(* The automatic backup runs as configured, once, and goes to one audience. *)
AutomaticBackup == B!AutomaticBackup

(* The report of a day goes out at most once and its row says what happened. *)
DayOnce == D!DayOnce

(* The next midnight is always set, once. *)
MidnightSet == D!MidnightSet

(* A day that has been taken up is brought to an end. *)
DayEnds == D!DayEnds
=============================================================================
