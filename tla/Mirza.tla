-------------------------------- MODULE Mirza --------------------------------
(***************************************************************************)
(* Messages to the customer of a punished configuration, sent through the  *)
(* Mirza Bot of the administrator who owns it, and the reports about them  *)
(* in the forum (utils/mirza_notifications.py, utils/mirza_reports.py,     *)
(* utils/mirza_settings.py, db/crud/mirza_*.py and the notification menus  *)
(* of telegram_bot/handlers/notifications.py).                             *)
(*                                                                         *)
(* Three tasks share the rows of one table: the delivery worker, the       *)
(* reporter and the operator's menus.  There is no transaction around a    *)
(* read and the write that follows it (SQLite starts one at the first      *)
(* write), so every write names the state it expects.  A committed write   *)
(* can raise, a request can be lost, and the process can die anywhere.     *)
(*                                                                         *)
(* The time a retry waits for is left out: a due row may be picked at any  *)
(* time.  Messages are one per bot, and the URL, the key and the message   *)
(* with its steps are one Boolean: complete or not.  Contexts of versions  *)
(* before messages had identities are left out, and so is the connection   *)
(* test of the menus, which sends the operator a word.                     *)
(***************************************************************************)
EXTENDS Integers, FiniteSets

CONSTANTS
  Incidents,
  Routes,       \* identities of bots; a deleted one never comes back
  Admins,       \* administrators of the panel
  MaxRevision,  \* bound: edits of one route
  MaxFaults     \* bound: lost requests, raising writes and crashes

VARIABLES
  routes,     \* route -> its row
  context,    \* incident -> the candidates captured when the punishment was decided
  rows,       \* incident -> its row of mirza_notifications
  worker,     \* MirzaNotificationService
  reporter,   \* MirzaNotificationReporter
  topic,      \* is there a forum topic for the reports?
  received,   \* ghost: how often the customer got the message
  posted,     \* ghost: how often the forum got the report
  told,       \* ghost: what the report said
  faults

vars == <<routes, context, rows, worker, reporter, topic, received, posted, told, faults>>

None == "none"
Terminal == {"delivered", "failed", "skipped", "uncertain"}
Unsent == {"pending", "ready", "retry"}
MaxTries == 3

NoRoute == [rev |-> 0, on |-> FALSE, admins |-> {}, complete |-> FALSE]
NoRow == [state |-> None, route |-> None, rev |-> 0, tries |-> 0, resolves |-> 0, report |-> "pending"]
IdleWorker == [pc |-> "idle", event |-> None, cand |-> {}, seen |-> None, to |-> None]
IdleReporter == [pc |-> "idle", event |-> None, seen |-> None, to |-> None]

Exists(r) == routes[r].rev > 0
CanFail == faults < MaxFaults
Fails == CanFail /\ faults' = faults + 1

(* A write that raises has been made or has not; either way the caller goes on with the error. *)
Written(i, expected, row) == IF rows[i].state = expected THEN [rows EXCEPT ![i] = row] ELSE rows

------------------------------------------------------------------------------
(* The menus: every button and prompt carries the revision it was made for, *)
(* and one for another revision changes nothing.                            *)

(* Mutant: an edit leaves the rows alone. *)
CancelledNone(r, rev) == rows

(* cancel_unsent_for_route: rows that carry a request nobody has claimed yet. *)
Cancelled(r, rev) ==
  [i \in Incidents |-> IF rows[i].route = r /\ rows[i].state \in Unsent /\ rows[i].rev = rev
                         THEN [rows[i] EXCEPT !.state = "skipped"] ELSE rows[i]]

(* _validate_route: a bot that is on has an administrator and is complete. *)
Valid(route) == route.on => route.admins # {} /\ route.complete

create_route(r) ==
  /\ routes[r] = NoRoute
  /\ routes' = [routes EXCEPT ![r].rev = 1]
  /\ UNCHANGED <<context, rows, worker, reporter, topic, received, posted, told, faults>>

Edit(r, route) ==
  /\ Exists(r) /\ routes[r].rev < MaxRevision /\ Valid(route)
  /\ routes' = [routes EXCEPT ![r] = [route EXCEPT !.rev = routes[r].rev + 1]]
  /\ rows' = Cancelled(r, routes[r].rev)
  /\ UNCHANGED <<context, worker, reporter, topic, received, posted, told, faults>>

(* The toggle; name, URL, key; messages and their steps. *)
update_route(r) ==
  \/ Edit(r, [routes[r] EXCEPT !.on = ~@])
  \/ \E c \in {routes[r].complete, TRUE} : Edit(r, [routes[r] EXCEPT !.complete = c])

_edit_message(r) == Edit(r, [routes[r] EXCEPT !.complete = ~@])

(* An administrator belongs to one bot: the table's key refuses a second one. *)
_select_admin(r, a) ==
  /\ \A q \in Routes \ {r} : a \notin routes[q].admins
  /\ Edit(r, [routes[r] EXCEPT !.admins = IF a \in @ THEN @ \ {a} ELSE @ \cup {a}])

delete_route(r) ==
  /\ Exists(r)
  /\ routes' = [routes EXCEPT ![r] = [NoRoute EXCEPT !.rev = -1]]
  /\ rows' = [i \in Incidents |-> IF rows[i].route = r /\ rows[i].state \in Unsent
                                    THEN [rows[i] EXCEPT !.state = "skipped"] ELSE rows[i]]
  /\ UNCHANGED <<context, worker, reporter, topic, received, posted, told, faults>>

SetTopic ==
  /\ topic' = ~topic
  /\ UNCHANGED <<routes, context, rows, worker, reporter, received, posted, told, faults>>

------------------------------------------------------------------------------
(* The punishment captures the bots that would answer for it (capture_rules, *)
(* notification_context); its fact is stored later, perhaps more than once.  *)

capture_rules(i) ==
  /\ context[i] = {} /\ rows[i] = NoRow
  /\ context' = [context EXCEPT ![i] = {[route |-> r, rev |-> routes[r].rev, admins |-> routes[r].admins] :
                                          r \in {q \in Routes : routes[q].on /\ Valid(routes[q])}}]
  /\ UNCHANGED <<routes, rows, worker, reporter, topic, received, posted, told, faults>>

(* In the transaction that completes the fact; a row that exists stays as it is. *)
ensure_for_fact(i) ==
  /\ context[i] # {} /\ rows[i] = NoRow
  /\ rows' = [rows EXCEPT ![i].state = "pending"]
  /\ UNCHANGED <<routes, context, worker, reporter, topic, received, posted, told, faults>>

------------------------------------------------------------------------------
(* The delivery worker: run_once.                                           *)

Go(pc) == worker' = [worker EXCEPT !.pc = pc]
Done == worker' = IdleWorker
OnlyWorker == UNCHANGED <<routes, context, reporter, topic, posted, told>>

(* Mutant: after a restart a claimed row is due again. *)
_recover_Retry ==
  /\ worker.pc = "start"
  /\ rows' = [i \in Incidents |-> IF rows[i].state = "sending" THEN [rows[i] EXCEPT !.state = "retry"] ELSE rows[i]]
  /\ Done /\ OnlyWorker /\ UNCHANGED <<received, faults>>

(* _recover: a claim of a process that is gone may have been answered. *)
_recover ==
  /\ worker.pc = "start"
  /\ rows' = [i \in Incidents |-> IF rows[i].state = "sending" THEN [rows[i] EXCEPT !.state = "uncertain"] ELSE rows[i]]
  /\ Done /\ OnlyWorker /\ UNCHANGED <<received, faults>>

Pick(i) ==
  /\ worker.pc = "idle" /\ rows[i].state \in Unsent
  /\ worker' = [IdleWorker EXCEPT !.pc = IF rows[i].state = "pending" THEN "details" ELSE "read", !.event = i]
  /\ OnlyWorker /\ UNCHANGED <<rows, received, faults>>

(* _resolve asks the panel for the user. *)
NoDetails ==
  /\ worker.pc = "details"
  /\ \E i \in {worker.event} :
       rows' = Written(i, "pending", [rows[i] EXCEPT !.resolves = @ + 1,
                                       !.state = IF rows[i].resolves + 1 >= MaxTries THEN "failed" ELSE "pending"])
  /\ Go("read") /\ OnlyWorker /\ UNCHANGED <<received, faults>>

(* The user is gone, or nobody or several bots answer for its owner: skipped.      *)
(* Otherwise the candidate's route is read.                                          *)
Details(owner) ==
  /\ worker.pc = "details"
  /\ \E found \in {{c \in context[worker.event] : owner \in c.admins}} :
       IF Cardinality(found) = 1
         THEN worker' = [worker EXCEPT !.pc = "route", !.cand = found] /\ rows' = rows
         ELSE /\ rows' = Written(worker.event, "pending", [rows[worker.event] EXCEPT !.state = "skipped"])
              /\ Go("read")
  /\ OnlyWorker /\ UNCHANGED <<received, faults>>

(* What becomes of the row, by the route as it is read: changed since the punishment;  *)
(* the note names no recipient; the text does not fit; ready.                           *)
Verdicts(c) ==
  IF routes[c.route].rev # c.rev \/ ~routes[c.route].on THEN {"skipped"} ELSE {"skipped", "failed", "ready"}

ReadRoute ==
  /\ worker.pc = "route"
  /\ \E c \in worker.cand, to \in UNION {Verdicts(d) : d \in worker.cand} :
       worker' = [worker EXCEPT !.pc = "pin", !.to = to]
  /\ OnlyWorker /\ UNCHANGED <<rows, received, faults>>

(* The row gets the route, its revision and the message. *)
Pin ==
  /\ worker.pc = "pin"
  /\ \E c \in worker.cand, made \in BOOLEAN :
       /\ rows' = IF made THEN Written(worker.event, "pending", [rows[worker.event] EXCEPT
                                          !.state = worker.to, !.route = c.route, !.rev = c.rev])
                          ELSE rows
       /\ \/ made /\ Go("read") /\ UNCHANGED faults
          \/ Fails /\ Done
  /\ OnlyWorker /\ UNCHANGED received

(* _send reads the row, then the key: only the pinned revision of a bot that is on has one. *)
ReadRow ==
  /\ worker.pc = "read"
  /\ IF rows[worker.event].state \in {"ready", "retry"}
       THEN worker' = [worker EXCEPT !.pc = "key", !.seen = rows[worker.event].state]
       ELSE Done
  /\ OnlyWorker /\ UNCHANGED <<rows, received, faults>>

HasKey(row) == Exists(row.route) /\ routes[row.route].rev = row.rev /\ routes[row.route].on

read_secret ==
  /\ worker.pc = "key"
  /\ Go(IF HasKey(rows[worker.event]) THEN "claim" ELSE "drop")
  /\ OnlyWorker /\ UNCHANGED <<rows, received, faults>>

Drop ==
  /\ worker.pc = "drop"
  /\ rows' = Written(worker.event, worker.seen, [rows[worker.event] EXCEPT !.state = "skipped"])
  /\ Done /\ OnlyWorker /\ UNCHANGED <<received, faults>>

(* Only the claim that found the row as it was read goes on to the request. *)
Claim ==
  /\ worker.pc = "claim"
  /\ \E i \in {worker.event}, made \in BOOLEAN :
       /\ rows' = IF made THEN Written(i, worker.seen, [rows[i] EXCEPT !.state = "sending", !.tries = @ + 1])
                          ELSE rows
       /\ \/ /\ made /\ UNCHANGED faults
             /\ IF rows[i].state = worker.seen THEN Go("http") ELSE Done
          \/ Fails /\ Done
  /\ OnlyWorker /\ UNCHANGED received

(* send_message: accepted; rejected; certainly not processed (no connection, 429); no telling. *)
Outcome(status, got) ==
  /\ worker' = [worker EXCEPT !.pc = "finish", !.to = status]
  /\ received' = [received EXCEPT ![worker.event] = @ + (IF got THEN 1 ELSE 0)]

send_message ==
  /\ worker.pc = "http"
  /\ \/ Outcome("delivered", TRUE) /\ UNCHANGED faults
     \/ Outcome("failed", FALSE) /\ UNCHANGED faults
     \/ Outcome("retry", FALSE) /\ UNCHANGED faults
     \/ Fails /\ \E got \in BOOLEAN : Outcome("uncertain", got)
  /\ OnlyWorker /\ UNCHANGED rows

_finish ==
  /\ worker.pc = "finish"
  /\ \E i \in {worker.event}, made \in BOOLEAN :
       /\ rows' = IF made THEN Written(i, "sending", [rows[i] EXCEPT !.state =
                                 IF worker.to = "retry" /\ rows[i].tries >= MaxTries THEN "failed" ELSE worker.to])
                          ELSE rows
       /\ (made /\ UNCHANGED faults) \/ Fails
  /\ Done /\ OnlyWorker /\ UNCHANGED received

------------------------------------------------------------------------------
(* The reporter: run_once of MirzaNotificationReporter.                     *)

OnlyReporter == UNCHANGED <<routes, context, worker, topic, received>>
EndReport == reporter' = IdleReporter
Report(i, state) == IF rows[i].report = "sending" THEN [rows EXCEPT ![i].report = state] ELSE rows

RecoverReports ==
  /\ reporter.pc = "start"
  /\ rows' = [i \in Incidents |-> IF rows[i].report = "sending" THEN [rows[i] EXCEPT !.report = "uncertain"] ELSE rows[i]]
  /\ EndReport /\ OnlyReporter /\ UNCHANGED <<posted, told, faults>>

PickReport(i) ==
  /\ reporter.pc = "idle" /\ topic
  /\ rows[i].report = "pending" /\ rows[i].state \in Terminal
  /\ reporter' = [pc |-> "claim", event |-> i, seen |-> rows[i].state, to |-> None]
  /\ OnlyReporter /\ UNCHANGED <<rows, posted, told, faults>>

ClaimReport ==
  /\ reporter.pc = "claim"
  /\ \E i \in {reporter.event} :
       \/ ~topic /\ EndReport /\ UNCHANGED <<rows, faults>>
       \/ /\ topic /\ rows[i].report = "pending" /\ rows[i].state \in Terminal
          /\ rows' = [rows EXCEPT ![i].report = "sending"]
          /\ (reporter' = [reporter EXCEPT !.pc = "append"] /\ UNCHANGED faults) \/ (Fails /\ EndReport)
  /\ OnlyReporter /\ UNCHANGED <<posted, told>>

(* enqueue_send_delivery and its outcome. *)
Append(to, got) ==
  /\ reporter' = [reporter EXCEPT !.pc = "finish", !.to = to]
  /\ posted' = [posted EXCEPT ![reporter.event] = @ + (IF got THEN 1 ELSE 0)]
  /\ told' = IF got THEN [told EXCEPT ![reporter.event] = reporter.seen] ELSE told

AppendReport ==
  /\ reporter.pc = "append"
  /\ \/ Append("delivered", TRUE) /\ UNCHANGED faults
     \/ Append("failed", FALSE) /\ UNCHANGED faults
     \/ Fails /\ \E got \in BOOLEAN : Append("uncertain", got)
  /\ OnlyReporter /\ UNCHANGED rows

(* A write that raises is followed by one that says uncertain, which may raise as well. *)
FinishReport ==
  /\ reporter.pc = "finish"
  /\ \E i \in {reporter.event} :
       \/ rows' = Report(i, reporter.to) /\ UNCHANGED faults
       \/ Fails /\ (rows' = Report(i, "uncertain") \/ rows' = Report(i, reporter.to) \/ rows' = rows)
  /\ EndReport /\ OnlyReporter /\ UNCHANGED <<posted, told>>

------------------------------------------------------------------------------
(* Shutdown settles the request in flight as uncertain, or the process dies without. *)
Restart ==
  /\ Fails
  /\ \E made \in BOOLEAN :
       /\ rows' = IF made /\ worker.pc \in {"http", "finish"} THEN Written(worker.event, "sending",
                              [rows[worker.event] EXCEPT !.state = "uncertain"]) ELSE rows
       /\ received' = received
  /\ worker' = [IdleWorker EXCEPT !.pc = "start"] /\ reporter' = [IdleReporter EXCEPT !.pc = "start"]
  /\ UNCHANGED <<routes, context, topic, posted, told>>

(* The request was on its way when the process died. *)
LostWithProcess ==
  /\ worker.pc = "http" /\ Fails
  /\ received' = [received EXCEPT ![worker.event] = @ + 1]
  /\ worker' = [IdleWorker EXCEPT !.pc = "start"] /\ reporter' = [IdleReporter EXCEPT !.pc = "start"]
  /\ UNCHANGED <<routes, context, rows, topic, posted, told>>

------------------------------------------------------------------------------
(* At the start there may be a bot that answers for all: revisions are counted from there. *)
Init ==
  /\ \E on \in BOOLEAN, first \in Routes :
       routes = [r \in Routes |-> IF r = first /\ on THEN [rev |-> 1, on |-> TRUE, admins |-> Admins, complete |-> TRUE]
                                  ELSE NoRoute]
  /\ context = [i \in Incidents |-> {}] /\ rows = [i \in Incidents |-> NoRow]
  /\ worker = [IdleWorker EXCEPT !.pc = "start"] /\ reporter = [IdleReporter EXCEPT !.pc = "start"]
  /\ topic \in BOOLEAN
  /\ received = [i \in Incidents |-> 0] /\ posted = [i \in Incidents |-> 0]
  /\ told = [i \in Incidents |-> None] /\ faults = 0

Menus ==
  \/ \E r \in Routes : create_route(r) \/ update_route(r) \/ _edit_message(r) \/ delete_route(r)
  \/ \E r \in Routes, a \in Admins : _select_admin(r, a)
  \/ SetTopic

WorkerStep ==
  \/ _recover \/ NoDetails \/ ReadRoute \/ Pin \/ ReadRow \/ read_secret \/ Drop \/ Claim \/ send_message \/ _finish
  \/ \E i \in Incidents : Pick(i)
  \/ \E owner \in Admins \cup {None} : Details(owner)

ReporterStep ==
  \/ RecoverReports \/ ClaimReport \/ AppendReport \/ FinishReport
  \/ \E i \in Incidents : PickReport(i)

Next ==
  \/ Menus
  \/ \E i \in Incidents : capture_rules(i) \/ ensure_for_fact(i)
  \/ WorkerStep \/ ReporterStep
  \/ Restart \/ LostWithProcess

Spec == Init /\ [][Next]_vars

------------------------------------------------------------------------------
(* The customer gets the message at most once, and the row and the forum report say what *)
(* happened: delivered means once, failed and skipped mean not at all.                    *)
CustomerOnce ==
  \A i \in Incidents :
    /\ received[i] <= 1 /\ posted[i] <= 1
    /\ \A s \in {rows[i].state, told[i]} :
         /\ s = "delivered" => received[i] = 1
         /\ s \in {"failed", "skipped"} => received[i] = 0

(* A request goes out only for the bot as it is: nothing is sent under a revision that   *)
(* the operator has replaced, switched off or deleted before the claim.                  *)
SentAsConfigured ==
  [][\A i \in Incidents : rows[i].state # "sending" /\ rows'[i].state = "sending" =>
       \E r \in Routes : rows[i].route = r /\ routes[r].on /\ routes[r].rev = rows[i].rev]_vars
=============================================================================
