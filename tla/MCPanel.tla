------------------------------- MODULE MCPanel -------------------------------
(***************************************************************************)
(* What the process asks of the panel: the mirror of its users (UserSync), *)
(* requests and their breaker (PanelRequests), and the evidence read with  *)
(* them (ApiSource, where a request simply succeeds, fails or is put off). *)
(* The three share no state, so each behaviour has one part, "users",      *)
(* "requests" or "evidence", of the Parts a run is about.                  *)
(***************************************************************************)
EXTENDS UserSync

CONSTANTS
  Parts,
  Requests, MaxRetries, Threshold, Recovery, SingleProbe, Span, Unavailable,                 \* of PanelRequests
  Queried, Moving, Nodes, Live, Limit, Freshness, DeadCycles, MaxChanges, Exposures           \* of ApiSource

\* Limits are positive.  The online statistics make one attempt with a timeout of a
\* third of the recovery time.
ASSUME RequestsAssumption ==
  /\ MaxRetries \in Nat \ {0} /\ Threshold \in Nat \ {0} /\ Recovery \in Nat \ {0}
  /\ SingleProbe \in BOOLEAN /\ Span \in Nat \ {0} /\ Unavailable \in Nat \ {0}
  /\ SingleProbe => Span < Recovery

\* The nodes are finitely many, and there is one; some of the users change.
ASSUME SourceAssumption ==
  /\ IsFiniteSet(Nodes) /\ Nodes # {} /\ Moving \subseteq Queried
  /\ Limit \in Nat /\ Freshness \in Nat \ {0} /\ DeadCycles \in Nat /\ MaxChanges \in Nat

VARIABLES
  part,
  state, failures, age, refused, available, req,
  exposed, up, reach, group, since, src, topics, cyc, asked, health, hist

P == INSTANCE PanelRequests

A == INSTANCE ApiSource WITH
       age <- since, since <- asked, may <- exposed, Users <- Queried, Busy <- Moving, Scenarios <- Exposures

requestVars == <<state, failures, age, refused, available, req>>
sourceVars == <<exposed, up, reach, group, since, src, topics, cyc, asked, health, hist>>
allVars == <<part, vars, requestVars, sourceVars>>

PanelInit ==
  /\ part \in Parts
  /\ Init /\ P!Init /\ A!Init
  /\ part = "users" \/ may = CHOOSE s \in Scenarios : TRUE
  /\ part = "evidence" \/ exposed = CHOOSE s \in Exposures : TRUE

OnUsers(a) == part = "users" /\ a /\ UNCHANGED <<part, requestVars, sourceVars>>
OnRequests(a) == part = "requests" /\ a /\ UNCHANGED <<part, vars, sourceVars>>
OnEvidence(a) == part = "evidence" /\ a /\ UNCHANGED <<part, vars, requestVars>>

OnFailing(a) == "dead" \in exposed /\ OnEvidence(a)

PanelNext == OnUsers(Next) \/ OnRequests(P!Next) \/ OnEvidence(A!Next)

UsersSpec == PanelInit /\ [][PanelNext]_allVars /\ Fairness

\* The fairness of requests and evidence, of the latter as far as FallsBack depends on it.
\* As a behaviour has one part, a step of the one and of the other can share a condition.
PanelFairness ==
  /\ WF_allVars(OnRequests(P!Tick) \/ OnFailing(A!Cycle \/ A!CollectionFails))
  /\ SF_allVars(OnFailing(A!SaveFallback))
  /\ \A r \in Requests : WF_allVars(OnRequests(P!Start(r))) /\ WF_allVars(OnRequests(P!Attempt(r)))

PanelSpec == PanelInit /\ [][PanelNext]_allVars /\ PanelFairness

\* The breaker lets everything through exactly while fewer than Threshold failures in a
\* row are known.
TrippedExactly == P!TrippedExactly

\* The availability flag says just that Unavailable connections in a row have failed.
AvailabilityExact == P!AvailabilityExact

\* A breaker that refuses requests lets one through again at some later time.
TriesAgain == P!TriesAgain

\* Nobody is declared back to normal while seen over the limit throughout the cycle.
SteadySeen == A!SteadySeen

\* What is published, counted and given up for the logs is what holds now.
EvidenceCurrent == A!EvidenceCurrent

\* An API that never answers is given up for the logs.
FallsBack == A!FallsBack
=============================================================================
