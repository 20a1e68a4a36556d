--------------------------- MODULE MCPunishment ---------------------------
(***************************************************************************)
(* The safety of a ban: the ban on the panel and in the users table        *)
(* (BanLifecycle), and the facts the daily report is made from             *)
(* (PunishmentFacts).  The two share no state, so each behaviour exercises *)
(* one part: "ban" or "facts".                                             *)
(***************************************************************************)
EXTENDS BanLifecycle, TLC

CONSTANTS Incidents, FactFaults, Report    \* of PunishmentFacts

VARIABLES part, fact, act, pending, outbox, corrupt, sql, job, report, late, early

F == INSTANCE PunishmentFacts WITH Disturbances <- FactFaults

factVars == <<fact, act, pending, outbox, corrupt, sql, job, report, late, early>>
allVars == <<part, vars, factVars>>

PunishmentInit ==
  /\ part \in {"ban", "facts"}
  /\ Init /\ F!Init
  /\ part = "ban" \/ (disableBy = ByStatus /\ groups = [u \in Users |-> {}])

\* Bound: one action at most has a partial effect (a revoked or reset subscription).
OnePartial == \A i, j \in Incidents : fact'[i].partial /\ fact'[j].partial => i = j

PunishmentNext ==
  \/ part = "ban" /\ Next /\ UNCHANGED <<part, factVars>>
  \/ part = "facts" /\ F!Next /\ OnePartial /\ UNCHANGED <<part, vars>>

PunishmentSpec == PunishmentInit /\ [][PunishmentNext]_allVars

\* What the report relies on is complete, and nothing in doubt is settled.
FactsSound == F!FactsSound

\* Incidents are interchangeable.
IncidentSymmetry == Permutations(Incidents)
=============================================================================
