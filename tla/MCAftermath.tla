---------------------------- MODULE MCAftermath ----------------------------
(***************************************************************************)
(* What must follow a punishment: it enters the history the escalation     *)
(* counts (PunishmentIncident), its ban ends (BanLifecycle) and it gets    *)
(* into the daily report (PunishmentFacts).  The three share no state, so  *)
(* each behaviour exercises one part: "history", "ban" or "report".        *)
(***************************************************************************)
EXTENDS PunishmentIncident

CONSTANTS
  gd, loop, ByStatus, NoUser,  \* the disabled group, the enable loop and markers of BanLifecycle
  i1, Report                   \* an incident and the marker of PunishmentFacts

VARIABLES
  part,
  status, groups, registry, prov, disableBy, now, enf, lift, ban,
  fact, act, pending, outbox, corrupt, sql, job, report, late, early

B == INSTANCE BanLifecycle WITH
       Groups <- {gd}, Lifters <- {loop}, Loop <- loop, Durations <- {1}, TimeToActive <- 1,
       Horizon <- 2, MaxTime <- 3,
       Disturbances <- {"crash", "database", "lost", "refused", "overlap", "settings", "edit"}

R == INSTANCE PunishmentFacts WITH Incidents <- {i1}, Disturbances <- {"cancel", "database", "outbox"}

banVars == <<status, groups, registry, prov, disableBy, now, enf, lift, ban>>
factVars == <<fact, act, pending, outbox, corrupt, sql, job, report, late, early>>
allVars == <<part, vars, banVars, factVars>>

AftermathInit ==
  /\ part \in {"history", "ban", "report"}
  /\ Init /\ B!Init /\ R!Init
  /\ part = "ban" \/ (disableBy = ByStatus /\ groups = [u \in Users |-> {}])

OnHistory(A) == part = "history" /\ A /\ UNCHANGED <<part, banVars, factVars>>
OnBan(A) == part = "ban" /\ A /\ UNCHANGED <<part, vars, factVars>>
OnReport(A) == part = "report" /\ A /\ UNCHANGED <<part, vars, banVars>>

AftermathNext == OnHistory(Next) \/ OnBan(B!Next) \/ OnReport(R!Next)

\* The fairness of BanLifecycle and, for the report: tasks go on, the watcher asks
\* again every minute, and a database that fails now and then also works.  As a
\* behaviour has one part, a step of the ban and one of the report share a condition.
AftermathFairness ==
  /\ SF_allVars(OnBan(B!Tick) \/ OnReport(R!EndOfDay))
  /\ SF_allVars(OnBan(B!EnableLoop) \/ OnReport(R!Query))
  /\ \A u \in Users :
       /\ WF_allVars(OnBan(B!EnforcementStep(u)) \/ OnReport(R!Reporting))
       /\ SF_allVars(OnBan(B!PutDisable(u)) \/ OnReport(R!StoreSql(i1)))
       /\ SF_allVars(OnBan(B!LiftRead(loop, u)) \/ OnReport(R!StoreSql(Report)))
  /\ WF_allVars(OnBan(B!LiftStep(loop)) \/ OnReport(R!Store(i1)))
  /\ SF_allVars(OnBan(B!LiftDetails(loop)))
  /\ SF_allVars(OnBan(B!PutEnable(loop)))
  /\ SF_allVars(OnBan(B!ClearFlags(loop)))
  /\ WF_allVars(OnReport(R!Store(Report)))
  /\ WF_allVars(OnReport(R!Action(i1)))
  /\ WF_allVars(OnReport(R!Exit(i1)))

AftermathSpec == AftermathInit /\ [][AftermathNext]_allVars /\ AftermathFairness

\* A recorded ban with a term ends.
TimedBanEnds == B!TimedBanEnds

\* The report is not deferred for ever: it is made unless an action ended with
\* its outcome in doubt.
ReportMade == R!ReportMade
=============================================================================
