--------------------------- MODULE PanelRequests ---------------------------
(***************************************************************************)
(* Requests to the panel behind a circuit breaker, and the availability    *)
(* flag the loops wait on (utils/panel_api/request_helper.py).             *)
(*                                                                         *)
(* Several requests are in flight at once; each asks the breaker once and  *)
(* then makes up to MaxRetries attempts, whose results all of them write   *)
(* into the one breaker, in whatever order they arrive.                    *)
(***************************************************************************)
EXTENDS Integers

CONSTANTS
  Requests,     \* requests that may be in flight together
  MaxRetries,   \* max_retries of a request
  Threshold,    \* failure_threshold
  Recovery,     \* recovery_timeout
  SingleProbe,  \* single_probe: the breaker of the online statistics
  Span,         \* the longest a request may take, timeouts and retries included
  Unavailable   \* PANEL_UNAVAILABLE_THRESHOLD

VARIABLES
  state,     \* "closed", "open" or "half_open"
  failures,  \* consecutive_failures of the breaker, up to Threshold
  age,       \* time since last_state_change, up to Recovery
  refused,   \* consecutive_failures of the connection, up to Unavailable
  available, \* panel_available
  req        \* the requests

breakerVars == <<state, failures, age>>
healthVars == <<refused, available>>
vars == <<breakerVars, healthVars, req>>

\* Counters are only ever compared with a limit: they stop there.
UpTo(limit, n) == IF n < limit THEN n ELSE limit

Idle == [pc |-> "idle", left |-> 0, probe |-> FALSE, age |-> 0]

Init ==
  /\ state = "closed"
  /\ failures = 0
  /\ age = 0
  /\ refused = 0
  /\ available = TRUE
  /\ req = [r \in Requests |-> Idle]

---------------------------------------------------------------------------
(* PanelCircuitBreaker.                                                    *)

\* MUTANT: a half-open breaker admits every request.
Allow_HalfOpen ==
  \/ state # "open" /\ UNCHANGED breakerVars
  \/ state = "open" /\ age >= Recovery /\ state' = "half_open" /\ age' = 0 /\ UNCHANGED failures

\* allow_request answers yes.
Allow ==
  \/ state = "closed" /\ UNCHANGED breakerVars
  \/ state = "open" /\ age >= Recovery /\ state' = "half_open" /\ age' = 0 /\ UNCHANGED failures
  \/ state = "half_open" /\ ~SingleProbe /\ UNCHANGED breakerVars

\* allow_request answers no: the caller fails fast.
Deny ==
  /\ \/ state = "open" /\ age < Recovery
     \/ state = "half_open" /\ SingleProbe
  /\ UNCHANGED breakerVars

\* record_result(is_server_failure=True)
RecordFailure ==
  LET trips == failures + 1 >= Threshold /\ state # "open"
  IN /\ failures' = UpTo(Threshold, failures + 1)
     /\ state' = IF trips THEN "open" ELSE state
     /\ age' = IF trips THEN 0 ELSE age

\* MUTANT: the count survives a success.
RecordSuccess_KeepsCount ==
  /\ state' = "closed"
  /\ UNCHANGED <<failures, age>>

\* record_result(is_server_failure=False); last_state_change stays.
RecordSuccess ==
  /\ state' = "closed"
  /\ failures' = 0
  /\ UNCHANGED age

\* MUTANT: a cancelled probe leaves the breaker as it is.
ReleaseProbe_Forgets == UNCHANGED breakerVars

\* release_probe
ReleaseProbe ==
  /\ IF state = "half_open" THEN state' = "open" /\ age' = 0 ELSE UNCHANGED <<state, age>>
  /\ UNCHANGED failures

\* _record_connection_failure and _record_connection_success
ConnectionFailure ==
  /\ refused' = UpTo(Unavailable, refused + 1)
  /\ available' = (available /\ refused + 1 < Unavailable)

\* MUTANT: the count of failures is left where it was.
ConnectionSuccess_KeepsCount == available' = TRUE /\ UNCHANGED refused

ConnectionSuccess == refused' = 0 /\ available' = TRUE

---------------------------------------------------------------------------
(* panel_request.                                                          *)

Start(r) ==
  /\ req[r].pc = "idle"
  /\ Allow
  /\ req' = [req EXCEPT ![r] = [pc |-> "sent", left |-> MaxRetries - 1,
                                probe |-> state # "closed", age |-> 0]]
  /\ UNCHANGED healthVars

Deferred(r) ==
  /\ req[r].pc = "idle"
  /\ Deny
  /\ UNCHANGED <<healthVars, req>>

Finish(r) == req' = [req EXCEPT ![r] = Idle]

\* MUTANT: one attempt too many.
Again_OneMore(r) ==
  IF req[r].left >= 0 THEN req' = [req EXCEPT ![r].pc = "wait"] ELSE Finish(r)

\* The attempt failed: wait for the next one, or give up.
Again(r) ==
  IF req[r].left > 0 THEN req' = [req EXCEPT ![r].pc = "wait"] ELSE Finish(r)

\* A response below 500, whatever it says: the panel works.  Codes without a
\* meaning here are tried again.
Answered(r) ==
  /\ req[r].pc = "sent"
  /\ RecordSuccess
  /\ ConnectionSuccess
  /\ Finish(r) \/ Again(r)

\* 429: the panel works, and is left in peace for a while inside the attempt.
RateLimited(r) ==
  /\ req[r].pc = "sent"
  /\ RecordSuccess
  /\ ConnectionSuccess
  /\ req' = [req EXCEPT ![r].pc = "limited"]

Rested(r) ==
  /\ req[r].pc = "limited"
  /\ Again(r)
  /\ UNCHANGED <<breakerVars, healthVars>>

\* A response of 500 or more.
ServerError(r) ==
  /\ req[r].pc = "sent"
  /\ RecordFailure
  /\ ConnectionSuccess
  /\ Again(r)

\* No response: timeout, refused connection, TLS.
NetworkError(r) ==
  /\ req[r].pc = "sent"
  /\ RecordFailure
  /\ ConnectionFailure
  /\ Again(r)

\* Any other exception counts against the breaker, not against the connection.
OtherError(r) ==
  /\ req[r].pc = "sent"
  /\ RecordFailure
  /\ Again(r)
  /\ UNCHANGED healthVars

\* The caller is cancelled, or protected by the guard, inside an attempt.
Cancelled(r) ==
  /\ req[r].pc \in {"sent", "limited"}
  /\ ReleaseProbe
  /\ Finish(r)
  /\ UNCHANGED healthVars

\* The next attempt goes out without asking the breaker again.
Retry(r) ==
  /\ req[r].pc = "wait"
  /\ req' = [req EXCEPT ![r].pc = "sent", ![r].left = @ - 1]
  /\ UNCHANGED <<breakerVars, healthVars>>

\* Cancelled between two attempts: there is a result already.
CancelledWaiting(r) ==
  /\ req[r].pc = "wait"
  /\ Finish(r)
  /\ UNCHANGED <<breakerVars, healthVars>>

\* check_panel_availability, from wait_for_panel: past the breaker.
CheckAvailability ==
  /\ ConnectionSuccess \/ ConnectionFailure
  /\ UNCHANGED <<breakerVars, req>>

Tick ==
  /\ \A r \in Requests : req[r].pc # "idle" => req[r].age < Span
  /\ age' = UpTo(Recovery, age + 1)
  /\ req' = [r \in Requests |-> IF req[r].pc = "idle" THEN Idle ELSE [req[r] EXCEPT !.age = @ + 1]]
  /\ UNCHANGED <<state, failures, healthVars>>

Attempt(r) ==
  \/ Answered(r) \/ RateLimited(r) \/ Rested(r)
  \/ ServerError(r) \/ NetworkError(r) \/ OtherError(r)
  \/ Retry(r)
  \/ Cancelled(r) \/ CancelledWaiting(r)

Next ==
  \/ \E r \in Requests : Start(r) \/ Deferred(r) \/ Attempt(r)
  \/ CheckAvailability
  \/ Tick

Spec == Init /\ [][Next]_vars

\* Time passes, requests end, and somebody always wants something of the panel.
FairSpec ==
  /\ Spec
  /\ WF_vars(Tick)
  /\ \A r \in Requests : WF_vars(Start(r)) /\ WF_vars(Attempt(r))

---------------------------------------------------------------------------

\* The state is well typed.
TypeOK ==
  /\ state \in {"closed", "open", "half_open"}
  /\ failures \in 0..Threshold
  /\ age \in 0..Recovery
  /\ refused \in 0..Unavailable
  /\ available \in BOOLEAN
  /\ req \in [Requests -> [pc : {"idle", "sent", "limited", "wait"}, left : 0..MaxRetries,
                           probe : BOOLEAN, age : 0..Span]]

\* The breaker lets everything through exactly while fewer than Threshold
\* failures in a row are known, in whatever order the results of concurrent
\* requests, probes and cancellations come in.
TrippedExactly == state = "closed" <=> failures < Threshold

\* The availability flag the enable loop waits on says just that Unavailable
\* connections in a row have failed, whoever made them.
AvailabilityExact == available <=> refused < Unavailable

Probing(r) == req[r].pc # "idle" /\ req[r].probe

\* "Online stats admit only one probe": no second one while the first is under
\* way, although results of older requests reopen the breaker meanwhile.
OneProbe == SingleProbe => \A r, s \in Requests : Probing(r) /\ Probing(s) => r = s

\* A breaker that refuses requests lets one through again at some later time: no
\* cancelled probe and no refused request keeps it shut.
TriesAgain ==
  state # "closed" ~> (state = "closed" \/ \E r \in Requests : Probing(r))

=============================================================================
