---------------------------- MODULE MCUsageScan ----------------------------
(***************************************************************************)
(* The enforcement cycle for TLC.  Each behaviour has one part: "guard",   *)
(* with samples that miss the user, failing reads and punishments,         *)
(* restarts, changed settings and synchronisations; "disk", where saves    *)
(* fail among restarts; or "streak", with an offender who is over the      *)
(* limit in every sample, longer rules and cycles that take their time,    *)
(* among pauses, clearings, restarts and clock corrections.                *)
(***************************************************************************)
EXTENDS UsageScan

CONSTANTS LongRules, LongCycle

VARIABLE part

S == INSTANCE UsageScan WITH Rules <- LongRules, MaxCycle <- LongCycle, Samples <- {"over"},
       Events <- {"pause", "crash", "clear", "clock"}

D == INSTANCE UsageScan WITH Samples <- {"over"}, Events <- {"crash", "settings", "disk"}

partVars == <<part, vars>>

ScanInit == part \in {"guard", "disk", "streak"} /\ IF part = "streak" THEN S!Init ELSE Init

OnGuard(A) == part = "guard" /\ A /\ UNCHANGED part
OnDisk(A) == part = "disk" /\ A /\ UNCHANGED part
OnStreak(A) == part = "streak" /\ A /\ UNCHANGED part

ScanNext == OnGuard(Next) \/ OnDisk(D!Next) \/ OnStreak(S!Next)

\* The event loop runs what is ready, and time passes.
ScanFairness ==
  WF_partVars(OnStreak(S!Cycle)) /\ WF_partVars(OnStreak(S!Save)) /\ WF_partVars(OnStreak(S!Tick))

ScanSpec == ScanInit /\ [][ScanNext]_partVars /\ ScanFairness

\* A user who is over the limit in every sample is punished again and again once
\* pauses, restarts, clearings and clock corrections have come to an end: scans
\* that take their time do not let the streak run out, and nothing the
\* disturbances left behind keeps it from filling up.
OffenderPunished ==
  <>[][OnStreak(S!Cycle \/ S!Save \/ S!Tick)]_partVars => []<>(cyc.pc = "punish" \/ paused \/ part # "streak")
=============================================================================
